--------------------------- MODULE UdpEchoProofs ---------------------------
(* Proofs about the UDP echo server, for every size of rings and bursts. *)
EXTENDS UdpEchoProps, FiniteSetTheorems, SequenceTheorems, TLAPS

(* nrecvfrom never misses the signal of udp_process: the invariant is      *)
(* inductive as it stands.  Only udp_process adds to rcvbuf while the      *)
(* server sleeps, and it goes to its signal; the server falls asleep on an *)
(* empty ring only.                                                        *)
THEOREM UdpNoLostWakeup == Spec => []NoLostWakeup
<1>1. Init => NoLostWakeup
  BY DEF Init, NoLostWakeup
<1>2. NoLostWakeup /\ [Next]_vars => NoLostWakeup'
  <2> SUFFICES ASSUME NoLostWakeup, [Next]_vars PROVE NoLostWakeup'
    OBVIOUS
  <2> USE DEF NoLostWakeup
  <2>1. CASE Network
    BY <2>1 DEF Network, ClientSends, ClientAnswersArp, ArpLost, ClientCtl, worker, server
  <2>2. CASE MainStep
    BY <2>2 DEF MainStep, MainRx, MainTx, MainTimer, worker, server
  <2>3. CASE WorkerStep
    <3>1. CASE UdpProcess
      BY <3>1 DEF UdpProcess
    <3>2. CASE UdpSignal
      BY <3>2 DEF UdpSignal
    <3>3. CASE Poll \/ UdpOutTake \/ UdpOutMiss \/ UdpOutSend
      BY <3>3 DEF Poll, UdpOutTake, UdpOutMiss, UdpOutSend, server
    <3>4. CASE ArpRequest \/ IcmpRequest \/ ArpReply \/ Skip \/ UdpDrop
      BY <3>4 DEF ArpRequest, IcmpRequest, Answer, ArpReply, Skip, UdpDrop, Next1, server
    <3> QED BY <2>3, <3>1, <3>2, <3>3, <3>4 DEF WorkerStep
  <2>4. CASE ServerStep
    <3>1. CASE RecvWait
      BY <3>1 DEF RecvWait
    <3>2. CASE Socket \/ Bind \/ RecvTake \/ RecvCopy \/ SendNothing \/ SendTo
      BY <3>2 DEF Socket, Bind, RecvTake, RecvCopy, SendNothing, SendTo
    <3> QED BY <2>4, <3>1, <3>2 DEF ServerStep
  <2>5. CASE UNCHANGED vars
    BY <2>5 DEF vars, worker, server
  <2> QED BY <2>1, <2>2, <2>3, <2>4, <2>5 DEF Next
<1> QED BY <1>1, <1>2, PTL DEF Spec

-----------------------------------------------------------------------------
(* The places of a datagram *)

\* A piece of datagram d that starts in lo .. hi - 1.
At(p, d, lo, hi) == p.id = d /\ lo <= p.off /\ p.off < hi
OneAt(p, d, lo, hi) == IF At(p, d, lo, hi) THEN 1 ELSE 0
HitsF(s, d, lo, hi) == {i \in 1 .. Len(s) : s[i].t = "udp" /\ At(s[i].p, d, lo, hi)}
HitsP(s, d, lo, hi) == {i \in 1 .. Len(s) : At(s[i], d, lo, hi)}
RepliesOf(g) == UNION {{c} \X (1 .. Len(g[c])) : c \in Client}
HitsR(g, d, lo, hi) == {r \in RepliesOf(g) : At(g[r[1]][r[2]], d, lo, hi)}
FramesAt(s, d, lo, hi) == Cardinality(HitsF(s, d, lo, hi))
PiecesAt(s, d, lo, hi) == Cardinality(HitsP(s, d, lo, hi))
RepliesAt(g, d, lo, hi) == Cardinality(HitsR(g, d, lo, hi))

\* Who has byte b of datagram d.  What has arrived has all that follows its
\* first byte, what goes back has B bytes; both may lie behind the payload.
AtPort(d, b) == FramesAt(rx, d, 0, b) + FramesAt(in, d, 0, b) + FramesAt(burst, d, 0, b)
AtServer(d, b) == PiecesAt(rcvbuf, d, 0, b) + OneAt(ol, d, 0, b)
AtSocket(d, b) == OneAt(text, d, b - B, b) + PiecesAt(sndbuf, d, b - B, b) + OneAt(held, d, b - B, b)
AtOut(d, b) == FramesAt(out, d, b - B, b) + RepliesAt(got, d, b - B, b)
Total(d, b) == AtPort(d, b) + AtServer(d, b) + AtSocket(d, b) + AtOut(d, b)
OnceAt(d, b) ==
  /\ Total(d, b) <= 1
  /\ b <= dgram[d].n => Total(d, b) = IF <<d, b>> \in lost THEN 0 ELSE 1
Once == \A d \in 1 .. Len(dgram) : \A b \in Nat \ {0} : OnceAt(d, b)

\* An offload of rcvbuf has the rest of a datagram, with its header; one that
\* goes back has what a buffer of B bytes holds of it, and the sender's address.
Arrived(p, ds) ==
  /\ p.id \in 1 .. Len(ds) /\ p.who = ds[p.id].from
  /\ p.len > 0 /\ p.off + p.len = ds[p.id].n + H
Echo(p, ds) ==
  /\ p.id \in 1 .. Len(ds) /\ p.who = ds[p.id].from
  /\ p.off < ds[p.id].n + H
  /\ p.len = IF ds[p.id].n < p.off THEN 0 ELSE AtMost(B, ds[p.id].n - p.off)
ArrivedFrames(s, ds) == \A i \in 1 .. Len(s) : s[i].t = "udp" => Arrived(s[i].p, ds)
ArrivedPieces(s, ds) == \A i \in 1 .. Len(s) : Arrived(s[i], ds)
EchoFrames(s, ds) == \A i \in 1 .. Len(s) : s[i].t = "udp" => Echo(s[i].p, ds)
EchoPieces(s, ds) == \A i \in 1 .. Len(s) : Echo(s[i], ds)
EchoReplies(g, ds) ==
  \A c \in Client : \A i \in 1 .. Len(g[c]) : Echo(g[c][i], ds) /\ g[c][i].who = c
PortOK == ArrivedFrames(rx, dgram) /\ ArrivedFrames(in, dgram) /\ ArrivedFrames(burst, dgram)
ServerOK ==
  /\ ArrivedPieces(rcvbuf, dgram)
  /\ spc = "copy" => Arrived(ol, dgram) /\ caddr = ol.who
  /\ spc = "send" => Echo(text, dgram)
BackOK ==
  /\ EchoPieces(sndbuf, dgram) /\ EchoFrames(out, dgram) /\ EchoReplies(got, dgram)
  /\ wpc = "out" => Echo(held, dgram)
PlacesOK == PortOK /\ ServerOK /\ BackOK
\* A burst is taken when the one before has been handled.
Drained == wpc \in {"poll", "out"} => burst = <<>>
EchoInv == TypeOK /\ PlacesOK /\ Once /\ Drained

\* The types, by who changes the variables.
PortType == rx \in Seq(Frames) /\ Len(rx) <= RxSize /\ asked \subseteq Client
RingType ==
  /\ in \in Seq(Frames) /\ Len(in) <= RingSize
  /\ out \in Seq(Frames) /\ Len(out) <= RingSize
WorkerType ==
  /\ arp \subseteq Client /\ missed \subseteq Client
  /\ wpc \in {"poll", "frames", "signal", "out"}
  /\ burst \in Seq(Frames) /\ Len(burst) <= Burst
  /\ IF wpc = "out" THEN held \in Pieces ELSE held = None
BufType ==
  /\ rcvbuf \in Seq(Pieces) /\ Len(rcvbuf) <= BufSize
  /\ sndbuf \in Seq(Pieces) /\ Len(sndbuf) <= BufSize
ServerType ==
  /\ spc \in {"socket", "bind", "failed", "recv", "wait", "copy", "send"}
  /\ IF spc = "copy" THEN ol \in Pieces ELSE ol = None
  /\ IF spc = "send" THEN text \in Pieces ELSE text = None
  /\ caddr \in Client \cup {Nobody}
Datagrams == [from : Client, n : Lens]
SentType == dgram \in Seq(Datagrams) /\ ctl \in 0 .. MaxCtl /\ ticks \in 0 .. MaxTicks
            /\ got \in [Client -> Seq(Pieces)]
LostType == lost \subseteq (1 .. Len(dgram)) \X Nat

-----------------------------------------------------------------------------
(* Counting *)

(* The sizes are numbers. *)
LEMMA Sizes ==
  /\ H \in Nat /\ H > 0 /\ B \in Nat /\ B > 0
  /\ RingSize \in Nat /\ RingSize > 0 /\ BufSize \in Nat /\ BufSize > 0
  /\ Burst \in Nat /\ Burst > 0 /\ RxSize \in Nat /\ MaxDgrams \in Nat /\ MaxCtl \in Nat
  /\ MaxTicks \in Nat /\ Lens \subseteq Nat
BY SizeAssumption

(* A set of places in a sequence is finite. *)
LEMMA IndexSetFinite ==
  ASSUME NEW n \in Nat, NEW S \in SUBSET (1 .. n)
  PROVE  IsFiniteSet(S) /\ Cardinality(S) \in Nat
<1>1. IsFiniteSet(1 .. n)
  BY FS_Interval
<1>2. IsFiniteSet(S)
  BY <1>1, FS_Subset
<1> QED BY <1>2, FS_CardinalityType

\* R is P and behind it Q.
Joined(P, Q, R, m, n) ==
  /\ P \subseteq 1 .. m /\ Q \subseteq 1 .. n /\ R \subseteq 1 .. m + n
  /\ \A i \in 1 .. m : i \in R <=> i \in P
  /\ \A i \in 1 .. n : m + i \in R <=> i \in Q

(* The places of a concatenation are those of its two parts. *)
LEMMA Glue ==
  ASSUME NEW m \in Nat, NEW n \in Nat, NEW P, NEW Q, NEW R, Joined(P, Q, R, m, n)
  PROVE  Cardinality(R) = Cardinality(P) + Cardinality(Q)
<1> DEFINE S == {i \in R : i > m}
           f == [i \in Q |-> m + i]
<1> USE DEF Joined
<1>1. IsFiniteSet(P) /\ IsFiniteSet(Q) /\ Cardinality(P) \in Nat /\ Cardinality(Q) \in Nat
  BY IndexSetFinite
<1>2. m + n \in Nat
  OBVIOUS
<1>3. IsFiniteSet(S)
  BY <1>2, IndexSetFinite
<1>4. f \in Bijection(Q, S)
  <2>1. f \in [Q -> S]
    OBVIOUS
  <2>2. \A x, y \in Q : f[x] = f[y] => x = y
    OBVIOUS
  <2>3. \A y \in S : \E x \in Q : f[x] = y
    <3> SUFFICES ASSUME NEW y \in S PROVE \E x \in Q : f[x] = y
      OBVIOUS
    <3>1. y - m \in 1 .. n /\ m + (y - m) = y
      OBVIOUS
    <3>2. y - m \in Q
      BY <3>1
    <3> QED BY <3>1, <3>2
  <2> QED BY <2>1, <2>2, <2>3 DEF Bijection, Injection, Surjection, IsInjective
<1>5. Cardinality(S) = Cardinality(Q)
  BY <1>1, <1>4, FS_Bijection DEF ExistsBijection
<1>6. R = P \cup S
  <2>1. \A x \in R : x \in P \/ x \in S
    OBVIOUS
  <2>2. \A x \in P : x \in R
    OBVIOUS
  <2> QED BY <2>1, <2>2
<1>9. P \cap S = {}
  <2>1. \A x \in P : x \notin S
    OBVIOUS
  <2> HIDE DEF S
  <2> QED BY <2>1
<1>7. Cardinality(P \cup S) = Cardinality(P) + Cardinality(S) - Cardinality(P \cap S)
  BY <1>1, <1>3, FS_Union
<1>8. Cardinality({}) = 0
  BY FS_EmptySet
<1> HIDE DEF S, f
<1>10. Cardinality(P \cup S) = Cardinality(P) + Cardinality(Q)
  <2>1. Cardinality(P \cap S) = 0
    BY <1>8, <1>9
  <2> QED BY <1>1, <1>5, <1>7, <2>1
<1> QED BY <1>6, <1>10

(* A set of numbers that is not empty has as many elements as it takes to    *)
(* count them upwards: Ascending is a bijection.                             *)
LEMMA AscendingIs ==
  ASSUME NEW n \in Nat, NEW S \in SUBSET (1 .. n)
  PROVE  /\ Ascending(S) \in [1 .. Cardinality(S) -> S]
         /\ \A i, j \in 1 .. Cardinality(S) : i < j => Ascending(S)[i] < Ascending(S)[j]
         /\ \A i, j \in 1 .. Cardinality(S) : Ascending(S)[i] = Ascending(S)[j] => i = j
         /\ \A x \in S : \E i \in 1 .. Cardinality(S) : Ascending(S)[i] = x
<1> DEFINE c == Cardinality(S)
           Upto(x) == {y \in S : y <= x}
           rank == [x \in S |-> Cardinality(Upto(x))]
<1>0. \A x \in S : x \in Int
  OBVIOUS
<1>1. IsFiniteSet(S) /\ c \in Nat
  BY IndexSetFinite
<1>2. \A x \in S : IsFiniteSet(Upto(x)) /\ Cardinality(Upto(x)) \in Nat /\ Cardinality(Upto(x)) <= c
  <2> SUFFICES ASSUME NEW x \in S
               PROVE  IsFiniteSet(Upto(x)) /\ Cardinality(Upto(x)) \in Nat /\ Cardinality(Upto(x)) <= c
    OBVIOUS
  <2>1. Upto(x) \in SUBSET S
    OBVIOUS
  <2> HIDE DEF Upto
  <2> QED BY <1>1, <2>1, FS_Subset, FS_CardinalityType
<1>3. \A x, y \in S : x < y => Cardinality(Upto(x)) < Cardinality(Upto(y))
  <2> SUFFICES ASSUME NEW x \in S, NEW y \in S, x < y
               PROVE  Cardinality(Upto(x)) < Cardinality(Upto(y))
    OBVIOUS
  <2>1. Upto(x) \in SUBSET Upto(y)
    <3>1. \A z \in S : z <= x => z <= y
      BY <1>0
    <3> QED BY <3>1
  <2>2. y \in Upto(y) /\ y \notin Upto(x)
    OBVIOUS
  <2> HIDE DEF Upto
  <2>3. Upto(y) # Upto(x)
    BY <2>2
  <2>4. Cardinality(Upto(x)) <= Cardinality(Upto(y)) /\ Cardinality(Upto(x)) # Cardinality(Upto(y))
    BY <1>2, <2>1, <2>3, FS_Subset
  <2> QED BY <1>2, <2>4
<1>4. \A x \in S : Cardinality(Upto(x)) >= 1
  <2> SUFFICES ASSUME NEW x \in S PROVE Cardinality(Upto(x)) >= 1
    OBVIOUS
  <2>1. Upto(x) # {}
    OBVIOUS
  <2> HIDE DEF Upto
  <2>2. Cardinality(Upto(x)) # 0
    BY <1>2, <2>1, FS_EmptySet
  <2> QED BY <1>2, <2>2
<1>5. rank \in [S -> 1 .. c]
  <2> HIDE DEF Upto, c
  <2> QED BY <1>1, <1>2, <1>4
<1>6. \A x, y \in S : rank[x] = rank[y] => x = y
  <2> HIDE DEF Upto, c
  <2>1. \A x, y \in S : x < y => rank[x] < rank[y]
    BY <1>3
  <2>2. \A x \in S : x \in Int /\ rank[x] \in Int
    BY <1>5, <1>1
  <2> HIDE DEF rank
  <2> QED BY <2>1, <2>2
<1>7. rank \in Surjection(S, 1 .. c)
  <2> HIDE DEF rank
  <2>1. rank \in Injection(S, 1 .. c)
    BY <1>5, <1>6 DEF Injection, IsInjective
  <2>2. IsFiniteSet(1 .. c) /\ Cardinality(1 .. c) = c
    BY <1>1, FS_Interval
  <2> QED BY <2>1, <2>2, FS_Injection
<1>8. \A i \in 1 .. c : \E x \in S : rank[x] = i
  BY <1>7 DEF Surjection
<1> DEFINE f == [i \in 1 .. c |-> CHOOSE x \in S : rank[x] = i]
<1>9. f \in [1 .. c -> S] /\ \A i \in 1 .. c : rank[f[i]] = i
  <2> HIDE DEF rank, c
  <2> QED BY <1>8
<1>10. \A i, j \in 1 .. c : i < j => f[i] < f[j]
  <2> SUFFICES ASSUME NEW i \in 1 .. c, NEW j \in 1 .. c, i < j PROVE f[i] < f[j]
    OBVIOUS
  <2> HIDE DEF f
  <2>1. f[i] \in S /\ f[j] \in S /\ rank[f[i]] = i /\ rank[f[j]] = j
    BY <1>9
  <2>2. \A x, y \in S : x < y => rank[x] < rank[y]
    <3> HIDE DEF Upto, c
    <3> QED BY <1>3
  <2> HIDE DEF rank
  <2>3. f[i] \in Int /\ f[j] \in Int /\ i \in Int /\ j \in Int
    <3>1. f[i] \in Int /\ f[j] \in Int
      BY <1>0, <2>1
    <3>2. i \in Int /\ j \in Int
      OBVIOUS
    <3> QED BY <3>1, <3>2
  <2>4. ~(f[j] < f[i]) /\ f[i] # f[j]
    BY <2>1, <2>2, <2>3
  <2> QED BY <2>3, <2>4
<1>11. /\ Ascending(S) \in [1 .. c -> S]
       /\ \A i, j \in 1 .. c : i < j => Ascending(S)[i] < Ascending(S)[j]
  <2> HIDE DEF f
  <2> QED BY <1>9, <1>10 DEF Ascending
<1>12. \A i, j \in 1 .. c : Ascending(S)[i] = Ascending(S)[j] => i = j
  <2> SUFFICES ASSUME NEW i \in 1 .. c, NEW j \in 1 .. c, Ascending(S)[i] = Ascending(S)[j] PROVE i = j
    OBVIOUS
  <2>1. i \in Int /\ j \in Int /\ Ascending(S)[i] \in Int /\ Ascending(S)[j] \in Int
    <3>1. Ascending(S)[i] \in S /\ Ascending(S)[j] \in S
      BY <1>11
    <3>2. i \in Int /\ j \in Int
      OBVIOUS
    <3> QED BY <1>0, <3>1, <3>2
  <2>2. ~(i < j) /\ ~(j < i)
    BY <1>11, <2>1
  <2> QED BY <2>1, <2>2
<1>13. \A x \in S : \E i \in 1 .. c : Ascending(S)[i] = x
  <2> HIDE DEF c
  <2>1. Ascending(S) \in Injection(1 .. c, S)
    BY <1>11, <1>12 DEF Injection, IsInjective
  <2>2. Cardinality(1 .. c) = Cardinality(S)
    BY <1>1, FS_Interval DEF c
  <2>3. Ascending(S) \in Surjection(1 .. c, S)
    BY <1>1, <2>1, <2>2, FS_Injection
  <2> QED BY <2>3 DEF Surjection
<1> QED BY <1>11, <1>12, <1>13

\* One frame.
FrameAt(f, d, lo, hi) == IF f.t = "udp" THEN OneAt(f.p, d, lo, hi) ELSE 0

(* The number of frames of a datagram in a sequence. *)
LEMMA FramesNat ==
  ASSUME NEW T, NEW s \in Seq(T), NEW d, NEW lo, NEW hi
  PROVE  /\ FramesAt(s, d, lo, hi) \in Nat
         /\ FramesAt(s, d, lo, hi) = 0 <=> \A i \in 1 .. Len(s) : ~(s[i].t = "udp" /\ At(s[i].p, d, lo, hi))
<1>1. Len(s) \in Nat /\ HitsF(s, d, lo, hi) \in SUBSET (1 .. Len(s))
  BY DEF HitsF
<1>2. IsFiniteSet(HitsF(s, d, lo, hi)) /\ Cardinality(HitsF(s, d, lo, hi)) \in Nat
  BY <1>1, IndexSetFinite
<1>3. Cardinality(HitsF(s, d, lo, hi)) = 0 <=> HitsF(s, d, lo, hi) = {}
  BY <1>2, FS_EmptySet
<1>4. HitsF(s, d, lo, hi) = {} <=> \A i \in 1 .. Len(s) : ~(s[i].t = "udp" /\ At(s[i].p, d, lo, hi))
  BY DEF HitsF
<1> QED BY <1>2, <1>3, <1>4 DEF FramesAt

(* The parts of a concatenation are counted one by one. *)
LEMMA FramesConcat ==
  ASSUME NEW T, NEW s \in Seq(T), NEW t \in Seq(T), NEW d, NEW lo, NEW hi
  PROVE  FramesAt(s \o t, d, lo, hi) = FramesAt(s, d, lo, hi) + FramesAt(t, d, lo, hi)
<1> DEFINE m == Len(s)
           n == Len(t)
           u == s \o t
<1>1. m \in Nat /\ n \in Nat /\ Len(u) = m + n
  OBVIOUS
<1>2. /\ \A i \in 1 .. m : i \in 1 .. m + n /\ u[i] = s[i]
      /\ \A i \in 1 .. n : m + i \in 1 .. m + n /\ u[m + i] = t[i]
  OBVIOUS
<1> HIDE DEF m, n, u
<1>3. /\ HitsF(s, d, lo, hi) \in SUBSET (1 .. m) /\ HitsF(t, d, lo, hi) \in SUBSET (1 .. n)
      /\ HitsF(u, d, lo, hi) \in SUBSET (1 .. m + n)
  BY <1>1 DEF HitsF, m, n
<1>4. \A i \in 1 .. m : i \in HitsF(u, d, lo, hi) <=> i \in HitsF(s, d, lo, hi)
  BY <1>1, <1>2 DEF HitsF, m
<1>5. \A i \in 1 .. n : m + i \in HitsF(u, d, lo, hi) <=> i \in HitsF(t, d, lo, hi)
  BY <1>1, <1>2 DEF HitsF, n
<1> DEFINE P == HitsF(s, d, lo, hi)
           Q == HitsF(t, d, lo, hi)
           R == HitsF(u, d, lo, hi)
<1>6. Cardinality(R) = Cardinality(P) + Cardinality(Q)
  <2> HIDE DEF P, Q, R
  <2>1. Joined(P, Q, R, m, n)
    BY <1>3, <1>4, <1>5 DEF P, Q, R, Joined
  <2> QED BY <1>1, <2>1, Glue
<1> QED BY <1>6 DEF FramesAt, u

(* One element. *)
LEMMA FramesOne ==
  ASSUME NEW x, NEW d, NEW lo, NEW hi
  PROVE  FramesAt(<<x>>, d, lo, hi) = FrameAt(x, d, lo, hi)
<1>1. FramesAt(<<x>>, d, lo, hi) = Cardinality(HitsF(<<x>>, d, lo, hi))
  BY DEF FramesAt
<1>2. CASE (x.t = "udp" /\ At(x.p, d, lo, hi))
  <2>1. HitsF(<<x>>, d, lo, hi) = {1}
    BY <1>2 DEF HitsF
  <2> QED BY <1>1, <1>2, <2>1, FS_Singleton DEF OneAt, FrameAt
<1>3. CASE ~(x.t = "udp" /\ At(x.p, d, lo, hi))
  <2>1. HitsF(<<x>>, d, lo, hi) = {}
    BY <1>3 DEF HitsF
  <2> QED BY <1>1, <1>3, <2>1, FS_EmptySet DEF OneAt, FrameAt
<1> QED BY <1>2, <1>3

(* One more at the end. *)
LEMMA FramesAppend ==
  ASSUME NEW T, NEW s \in Seq(T), NEW x \in T, NEW d, NEW lo, NEW hi
  PROVE  FramesAt(Append(s, x), d, lo, hi) = FramesAt(s, d, lo, hi) + FrameAt(x, d, lo, hi)
<1>1. Append(s, x) = s \o <<x>> /\ <<x>> \in Seq(T)
  OBVIOUS
<1>2. FramesAt(s \o <<x>>, d, lo, hi) = FramesAt(s, d, lo, hi) + FramesAt(<<x>>, d, lo, hi)
  <2> DEFINE y == <<x>>
  <2>1. y \in Seq(T)
    OBVIOUS
  <2> HIDE DEF y
  <2>2. FramesAt(s \o y, d, lo, hi) = FramesAt(s, d, lo, hi) + FramesAt(y, d, lo, hi)
    BY <2>1, FramesConcat
  <2> QED BY <2>2 DEF y
<1> QED BY <1>1, <1>2, FramesOne

(* The first one and the others. *)
LEMMA FramesTail ==
  ASSUME NEW T, NEW s \in Seq(T), s # <<>>, NEW d, NEW lo, NEW hi
  PROVE  FramesAt(s, d, lo, hi) = FrameAt(Head(s), d, lo, hi) + FramesAt(Tail(s), d, lo, hi)
<1>1. s = <<Head(s)>> \o Tail(s) /\ <<Head(s)>> \in Seq(T) /\ Tail(s) \in Seq(T)
  OBVIOUS
<1>2. FramesAt(<<Head(s)>> \o Tail(s), d, lo, hi) = FramesAt(<<Head(s)>>, d, lo, hi) + FramesAt(Tail(s), d, lo, hi)
  <2> DEFINE x == <<Head(s)>>
             y == Tail(s)
  <2>1. x \in Seq(T) /\ y \in Seq(T)
    BY <1>1
  <2> HIDE DEF x, y
  <2>2. FramesAt(x \o y, d, lo, hi) = FramesAt(x, d, lo, hi) + FramesAt(y, d, lo, hi)
    BY <2>1, FramesConcat
  <2> QED BY <2>2 DEF x, y
<1> QED BY <1>1, <1>2, FramesOne

(* The number of offloads of a datagram in a sequence. *)
LEMMA PiecesNat ==
  ASSUME NEW T, NEW s \in Seq(T), NEW d, NEW lo, NEW hi
  PROVE  /\ PiecesAt(s, d, lo, hi) \in Nat
         /\ PiecesAt(s, d, lo, hi) = 0 <=> \A i \in 1 .. Len(s) : ~At(s[i], d, lo, hi)
<1>1. Len(s) \in Nat /\ HitsP(s, d, lo, hi) \in SUBSET (1 .. Len(s))
  BY DEF HitsP
<1>2. IsFiniteSet(HitsP(s, d, lo, hi)) /\ Cardinality(HitsP(s, d, lo, hi)) \in Nat
  BY <1>1, IndexSetFinite
<1>3. Cardinality(HitsP(s, d, lo, hi)) = 0 <=> HitsP(s, d, lo, hi) = {}
  BY <1>2, FS_EmptySet
<1>4. HitsP(s, d, lo, hi) = {} <=> \A i \in 1 .. Len(s) : ~At(s[i], d, lo, hi)
  BY DEF HitsP
<1> QED BY <1>2, <1>3, <1>4 DEF PiecesAt

(* The parts of a concatenation are counted one by one. *)
LEMMA PiecesConcat ==
  ASSUME NEW T, NEW s \in Seq(T), NEW t \in Seq(T), NEW d, NEW lo, NEW hi
  PROVE  PiecesAt(s \o t, d, lo, hi) = PiecesAt(s, d, lo, hi) + PiecesAt(t, d, lo, hi)
<1> DEFINE m == Len(s)
           n == Len(t)
           u == s \o t
<1>1. m \in Nat /\ n \in Nat /\ Len(u) = m + n
  OBVIOUS
<1>2. /\ \A i \in 1 .. m : i \in 1 .. m + n /\ u[i] = s[i]
      /\ \A i \in 1 .. n : m + i \in 1 .. m + n /\ u[m + i] = t[i]
  OBVIOUS
<1> HIDE DEF m, n, u
<1>3. /\ HitsP(s, d, lo, hi) \in SUBSET (1 .. m) /\ HitsP(t, d, lo, hi) \in SUBSET (1 .. n)
      /\ HitsP(u, d, lo, hi) \in SUBSET (1 .. m + n)
  BY <1>1 DEF HitsP, m, n
<1>4. \A i \in 1 .. m : i \in HitsP(u, d, lo, hi) <=> i \in HitsP(s, d, lo, hi)
  BY <1>1, <1>2 DEF HitsP, m
<1>5. \A i \in 1 .. n : m + i \in HitsP(u, d, lo, hi) <=> i \in HitsP(t, d, lo, hi)
  BY <1>1, <1>2 DEF HitsP, n
<1> DEFINE P == HitsP(s, d, lo, hi)
           Q == HitsP(t, d, lo, hi)
           R == HitsP(u, d, lo, hi)
<1>6. Cardinality(R) = Cardinality(P) + Cardinality(Q)
  <2> HIDE DEF P, Q, R
  <2>1. Joined(P, Q, R, m, n)
    BY <1>3, <1>4, <1>5 DEF P, Q, R, Joined
  <2> QED BY <1>1, <2>1, Glue
<1> QED BY <1>6 DEF PiecesAt, u

(* One element. *)
LEMMA PiecesOne ==
  ASSUME NEW x, NEW d, NEW lo, NEW hi
  PROVE  PiecesAt(<<x>>, d, lo, hi) = OneAt(x, d, lo, hi)
<1>1. PiecesAt(<<x>>, d, lo, hi) = Cardinality(HitsP(<<x>>, d, lo, hi))
  BY DEF PiecesAt
<1>2. CASE At(x, d, lo, hi)
  <2>1. HitsP(<<x>>, d, lo, hi) = {1}
    BY <1>2 DEF HitsP
  <2> QED BY <1>1, <1>2, <2>1, FS_Singleton DEF OneAt
<1>3. CASE ~At(x, d, lo, hi)
  <2>1. HitsP(<<x>>, d, lo, hi) = {}
    BY <1>3 DEF HitsP
  <2> QED BY <1>1, <1>3, <2>1, FS_EmptySet DEF OneAt
<1> QED BY <1>2, <1>3

(* One more at the end. *)
LEMMA PiecesAppend ==
  ASSUME NEW T, NEW s \in Seq(T), NEW x \in T, NEW d, NEW lo, NEW hi
  PROVE  PiecesAt(Append(s, x), d, lo, hi) = PiecesAt(s, d, lo, hi) + OneAt(x, d, lo, hi)
<1>1. Append(s, x) = s \o <<x>> /\ <<x>> \in Seq(T)
  OBVIOUS
<1>2. PiecesAt(s \o <<x>>, d, lo, hi) = PiecesAt(s, d, lo, hi) + PiecesAt(<<x>>, d, lo, hi)
  <2> DEFINE y == <<x>>
  <2>1. y \in Seq(T)
    OBVIOUS
  <2> HIDE DEF y
  <2>2. PiecesAt(s \o y, d, lo, hi) = PiecesAt(s, d, lo, hi) + PiecesAt(y, d, lo, hi)
    BY <2>1, PiecesConcat
  <2> QED BY <2>2 DEF y
<1> QED BY <1>1, <1>2, PiecesOne

(* The first one and the others. *)
LEMMA PiecesTail ==
  ASSUME NEW T, NEW s \in Seq(T), s # <<>>, NEW d, NEW lo, NEW hi
  PROVE  PiecesAt(s, d, lo, hi) = OneAt(Head(s), d, lo, hi) + PiecesAt(Tail(s), d, lo, hi)
<1>1. s = <<Head(s)>> \o Tail(s) /\ <<Head(s)>> \in Seq(T) /\ Tail(s) \in Seq(T)
  OBVIOUS
<1>2. PiecesAt(<<Head(s)>> \o Tail(s), d, lo, hi) = PiecesAt(<<Head(s)>>, d, lo, hi) + PiecesAt(Tail(s), d, lo, hi)
  <2> DEFINE x == <<Head(s)>>
             y == Tail(s)
  <2>1. x \in Seq(T) /\ y \in Seq(T)
    BY <1>1
  <2> HIDE DEF x, y
  <2>2. PiecesAt(x \o y, d, lo, hi) = PiecesAt(x, d, lo, hi) + PiecesAt(y, d, lo, hi)
    BY <2>1, PiecesConcat
  <2> QED BY <2>2 DEF x, y
<1> QED BY <1>1, <1>2, PiecesOne

-----------------------------------------------------------------------------
(* Rings and bursts *)

(* A sequence is its first k elements and the others. *)
LEMMA Cut ==
  ASSUME NEW T, NEW s \in Seq(T), NEW k \in 0 .. Len(s)
  PROVE  /\ SubSeq(s, 1, k) \in Seq(T) /\ SubSeq(s, k + 1, Len(s)) \in Seq(T)
         /\ Len(SubSeq(s, 1, k)) = k /\ Len(SubSeq(s, k + 1, Len(s))) = Len(s) - k
         /\ s = SubSeq(s, 1, k) \o SubSeq(s, k + 1, Len(s))
<1>1. SubSeq(s, 1, k) \in Seq(T) /\ Len(SubSeq(s, 1, k)) = k
  OBVIOUS
<1>2. SubSeq(s, k + 1, Len(s)) \in Seq(T) /\ Len(SubSeq(s, k + 1, Len(s))) = Len(s) - k
  OBVIOUS
<1>3. s = SubSeq(s, 1, k) \o SubSeq(s, k + 1, Len(s))
  <2> DEFINE a == SubSeq(s, 1, k)
             b == SubSeq(s, k + 1, Len(s))
             u == a \o b
  <2>1. /\ \A i \in 1 .. k : a[i] = s[i]
        /\ \A i \in 1 .. Len(s) - k : b[i] = s[k + i]
    OBVIOUS
  <2> HIDE DEF a, b
  <2>2. a \in Seq(T) /\ Len(a) = k /\ b \in Seq(T) /\ Len(b) = Len(s) - k
    BY <1>1, <1>2 DEF a, b
  <2>3. u \in Seq(T) /\ Len(u) = Len(s)
    BY <2>2
  <2>4. \A i \in 1 .. Len(s) : u[i] = s[i]
    <3> SUFFICES ASSUME NEW i \in 1 .. Len(s) PROVE u[i] = s[i]
      OBVIOUS
    <3>1. CASE i <= k
      BY <2>1, <2>2, <3>1
    <3>2. CASE i > k
      <4>1. u[i] = b[i - k] /\ i - k \in 1 .. Len(s) - k /\ k + (i - k) = i
        BY <2>2, <3>2
      <4> HIDE DEF u
      <4>2. b[i - k] = s[k + (i - k)]
        BY <2>1, <4>1
      <4>3. s[k + (i - k)] = s[i]
        BY <4>1
      <4> QED BY <4>1, <4>2, <4>3
    <3>3. Len(s) \in Nat
      OBVIOUS
    <3>4. i <= k \/ i > k
      BY <3>3
    <3> HIDE DEF u
    <3> QED BY <3>1, <3>2, <3>4
  <2> HIDE DEF u
  <2>5. u = s
    BY <2>3, <2>4, SeqEqual
  <2> QED BY <2>5 DEF u, a, b
<1> QED BY <1>1, <1>2, <1>3

(* A burst is the front of a ring. *)
LEMMA BurstIs ==
  ASSUME NEW T, NEW s \in Seq(T)
  PROVE  /\ Taken(s) \in Seq(T) /\ Left(s) \in Seq(T) /\ s = Taken(s) \o Left(s)
         /\ Len(Taken(s)) <= Burst /\ Len(Left(s)) <= Len(s)
<1> DEFINE k == AtMost(Burst, Len(s))
<1>1. k \in 0 .. Len(s) /\ k <= Burst
  BY Sizes DEF AtMost
<1>2. Taken(s) = SubSeq(s, 1, k) /\ Left(s) = SubSeq(s, k + 1, Len(s))
  BY DEF Taken, Left
<1> HIDE DEF k
<1>3. /\ SubSeq(s, 1, k) \in Seq(T) /\ SubSeq(s, k + 1, Len(s)) \in Seq(T)
      /\ Len(SubSeq(s, 1, k)) = k /\ Len(SubSeq(s, k + 1, Len(s))) = Len(s) - k
      /\ s = SubSeq(s, 1, k) \o SubSeq(s, k + 1, Len(s))
  BY <1>1, Cut
<1>4. Len(s) - k <= Len(s)
  BY <1>1
<1> QED BY <1>1, <1>2, <1>3, <1>4

\* The part of a burst that fits.
Accepted(ring, size, xs) == SubSeq(xs, 1, AtMost(Len(xs), size - Len(ring)))

(* What a burst enqueue takes and what it refuses are the burst. *)
LEMMA PutBurstIs ==
  ASSUME NEW T, NEW ring \in Seq(T), NEW xs \in Seq(T), NEW size \in Nat, Len(ring) <= size
  PROVE  /\ Accepted(ring, size, xs) \in Seq(T) /\ Refused(ring, size, xs) \in Seq(T)
         /\ PutBurst(ring, size, xs) = ring \o Accepted(ring, size, xs)
         /\ Len(ring \o Accepted(ring, size, xs)) <= size
         /\ xs = Accepted(ring, size, xs) \o Refused(ring, size, xs)
<1> DEFINE k == AtMost(Len(xs), size - Len(ring))
<1>1. k \in 0 .. Len(xs) /\ k <= size - Len(ring)
  BY DEF AtMost
<1>2. PutBurst(ring, size, xs) = ring \o SubSeq(xs, 1, k) /\ Refused(ring, size, xs) = SubSeq(xs, k + 1, Len(xs))
  BY DEF PutBurst, Refused
<1>5. Accepted(ring, size, xs) = SubSeq(xs, 1, k)
  BY DEF Accepted
<1> HIDE DEF k
<1>3. /\ SubSeq(xs, 1, k) \in Seq(T) /\ SubSeq(xs, k + 1, Len(xs)) \in Seq(T)
      /\ Len(SubSeq(xs, 1, k)) = k /\ xs = SubSeq(xs, 1, k) \o SubSeq(xs, k + 1, Len(xs))
  BY <1>1, Cut, ZenonT(60)
<1>4. Len(ring \o SubSeq(xs, 1, k)) <= size
  BY <1>1, <1>3
<1> QED BY <1>2, <1>3, <1>4, <1>5

(* One element is enqueued if it fits. *)
LEMMA PutIs ==
  ASSUME NEW T, NEW ring \in Seq(T), NEW x \in T, NEW size \in Nat, Len(ring) <= size
  PROVE  Put(ring, size, x) \in Seq(T) /\ Len(Put(ring, size, x)) <= size
BY DEF Put, Fits

\* The frame of the j-th reply to c.
Source(c, s) == Ascending({j \in 1 .. Len(s) : s[j].t = "udp" /\ s[j].p.who = c})

(* The replies taken from a burst: each is one of its UDP frames, each frame *)
(* to the client is one of them, only once and in the order of the burst.    *)
LEMMA RepliesToIs ==
  ASSUME NEW s \in Seq(Frames), NEW c
  PROVE  /\ RepliesTo(c, s) \in Seq(Pieces)
         /\ Source(c, s) \in [1 .. Len(RepliesTo(c, s)) -> 1 .. Len(s)]
         /\ \A j \in 1 .. Len(RepliesTo(c, s)) :
              /\ s[Source(c, s)[j]].t = "udp" /\ s[Source(c, s)[j]].p.who = c
              /\ RepliesTo(c, s)[j] = s[Source(c, s)[j]].p
         /\ \A i, j \in 1 .. Len(RepliesTo(c, s)) : i < j => Source(c, s)[i] < Source(c, s)[j]
         /\ \A i, j \in 1 .. Len(RepliesTo(c, s)) : Source(c, s)[i] = Source(c, s)[j] => i = j
         /\ \A k \in 1 .. Len(s) : s[k].t = "udp" /\ s[k].p.who = c
                               => \E j \in 1 .. Len(RepliesTo(c, s)) : Source(c, s)[j] = k
<1> DEFINE at == {j \in 1 .. Len(s) : s[j].t = "udp" /\ s[j].p.who = c}
           n == Cardinality(at)
           f == Ascending(at)
           r == [j \in 1 .. n |-> s[f[j]].p]
<1>1. Len(s) \in Nat /\ at \in SUBSET (1 .. Len(s))
  OBVIOUS
<1>2. n \in Nat
  BY <1>1, IndexSetFinite
<1>3. f \in [1 .. n -> at] /\ (\A i, j \in 1 .. n : f[i] = f[j] => i = j)
      /\ (\A i, j \in 1 .. n : i < j => f[i] < f[j]) /\ \A x \in at : \E i \in 1 .. n : f[i] = x
  <2> HIDE DEF at
  <2> QED BY <1>1, AscendingIs
<1>4. RepliesTo(c, s) = r
  BY DEF RepliesTo
<1>5. \A j \in 1 .. n : f[j] \in 1 .. Len(s) /\ s[f[j]].t = "udp" /\ s[f[j]].p.who = c /\ s[f[j]] \in Frames
  <2> HIDE DEF f, n
  <2> QED BY <1>3
<1>6. \A j \in 1 .. n : s[f[j]].p \in Pieces
  <2> HIDE DEF f, n, at
  <2> QED BY <1>5 DEF Frames
<1>7. r \in Seq(Pieces) /\ Len(r) = n
  <2> HIDE DEF f, n, at
  <2> QED BY <1>2, <1>6
<1>8. f \in [1 .. n -> 1 .. Len(s)]
  <2> HIDE DEF f, n
  <2> QED BY <1>3
<1>9. \A k \in 1 .. Len(s) : s[k].t = "udp" /\ s[k].p.who = c => \E j \in 1 .. n : f[j] = k
  <2> HIDE DEF f, n
  <2> QED BY <1>3
<1>10. \A j \in 1 .. n : r[j] = s[f[j]].p
  <2> HIDE DEF f, n, at
  <2> QED OBVIOUS
<1> HIDE DEF f, n, at, r
<1>11. RepliesTo(c, s) \in Seq(Pieces) /\ Len(RepliesTo(c, s)) = n
  BY <1>4, <1>7
<1>12. /\ \A j \in 1 .. n : s[f[j]].t = "udp" /\ s[f[j]].p.who = c /\ RepliesTo(c, s)[j] = s[f[j]].p
       /\ \A i, j \in 1 .. n : i < j => f[i] < f[j]
       /\ \A i, j \in 1 .. n : f[i] = f[j] => i = j
       /\ \A k \in 1 .. Len(s) : s[k].t = "udp" /\ s[k].p.who = c => \E j \in 1 .. n : f[j] = k
  BY <1>3, <1>4, <1>5, <1>9, <1>10
<1>13. Source(c, s) = f
  BY DEF Source, f, at
<1> QED BY <1>8, <1>11, <1>12, <1>13

-----------------------------------------------------------------------------
(* What the places hold *)

(* The parts of the type invariant. *)
LEMMA TypeParts ==
  TypeOK <=> PortType /\ RingType /\ WorkerType /\ BufType /\ ServerType /\ SentType /\ LostType
BY DEF TypeOK, PortType, RingType, WorkerType, BufType, ServerType, SentType, LostType, Datagrams

(* The same in the next state. *)
LEMMA TypePartsNext ==
  TypeOK' <=> PortType' /\ RingType' /\ WorkerType' /\ BufType' /\ ServerType' /\ SentType' /\ LostType'
BY TypeParts, PTL

(* What has arrived in the parts of a sequence. *)
LEMMA ArrivedFramesConcat ==
  ASSUME NEW T, NEW s \in Seq(T), NEW t \in Seq(T), NEW ds
  PROVE  ArrivedFrames(s \o t, ds) <=> ArrivedFrames(s, ds) /\ ArrivedFrames(t, ds)
<1> DEFINE m == Len(s)
           n == Len(t)
           u == s \o t
<1>1. m \in Nat /\ n \in Nat /\ Len(u) = m + n
  OBVIOUS
<1>2. /\ \A i \in 1 .. m : i \in 1 .. m + n /\ u[i] = s[i]
      /\ \A i \in 1 .. n : m + i \in 1 .. m + n /\ u[m + i] = t[i]
      /\ \A i \in 1 .. m + n : i \in 1 .. m \/ (i - m \in 1 .. n /\ u[i] = t[i - m])
  OBVIOUS
<1> HIDE DEF m, n, u
<1>3. ArrivedFrames(u, ds) => ArrivedFrames(s, ds) /\ ArrivedFrames(t, ds)
  <2>1. ArrivedFrames(u, ds) => ArrivedFrames(s, ds)
    BY <1>1, <1>2 DEF ArrivedFrames, m
  <2>2. ArrivedFrames(u, ds) => ArrivedFrames(t, ds)
    BY <1>1, <1>2 DEF ArrivedFrames, n
  <2> QED BY <2>1, <2>2
<1>4. ArrivedFrames(s, ds) /\ ArrivedFrames(t, ds) => ArrivedFrames(u, ds)
  BY <1>1, <1>2, SMTT(30) DEF ArrivedFrames, m, n
<1> QED BY <1>3, <1>4 DEF u

(* One more at the end; the first one and the others. *)
LEMMA ArrivedFramesEnds ==
  ASSUME NEW T, NEW s \in Seq(T), NEW ds
  PROVE  /\ \A x \in T : ArrivedFrames(Append(s, x), ds) <=> ArrivedFrames(s, ds) /\ (x.t = "udp" => Arrived(x.p, ds))
         /\ s # <<>> => (ArrivedFrames(s, ds) <=> (Head(s).t = "udp" => Arrived(Head(s).p, ds)) /\ ArrivedFrames(Tail(s), ds))
<1>1. \A x : ArrivedFrames(<<x>>, ds) <=> (x.t = "udp" => Arrived(x.p, ds))
  BY DEF ArrivedFrames
<1>2. ASSUME NEW x \in T PROVE ArrivedFrames(Append(s, x), ds) <=> ArrivedFrames(s, ds) /\ (x.t = "udp" => Arrived(x.p, ds))
  <2> DEFINE y == <<x>>
  <2>1. y \in Seq(T) /\ Append(s, x) = s \o y /\ (ArrivedFrames(y, ds) <=> (x.t = "udp" => Arrived(x.p, ds)))
    BY <1>1
  <2> HIDE DEF y
  <2>2. ArrivedFrames(s \o y, ds) <=> ArrivedFrames(s, ds) /\ ArrivedFrames(y, ds)
    BY <2>1, ArrivedFramesConcat
  <2> QED BY <2>1, <2>2
<1>3. ASSUME s # <<>> PROVE ArrivedFrames(s, ds) <=> (Head(s).t = "udp" => Arrived(Head(s).p, ds)) /\ ArrivedFrames(Tail(s), ds)
  <2> DEFINE x == <<Head(s)>>
             y == Tail(s)
  <2>1. x \in Seq(T) /\ y \in Seq(T) /\ s = x \o y /\ (ArrivedFrames(x, ds) <=> (Head(s).t = "udp" => Arrived(Head(s).p, ds)))
    BY <1>1, <1>3
  <2> HIDE DEF x, y
  <2>2. ArrivedFrames(x \o y, ds) <=> ArrivedFrames(x, ds) /\ ArrivedFrames(y, ds)
    BY <2>1, ArrivedFramesConcat
  <2>3. ArrivedFrames(s, ds) <=> ArrivedFrames(x, ds) /\ ArrivedFrames(y, ds)
    BY <2>1, <2>2
  <2> QED BY <2>1, <2>3 DEF y
<1> QED BY <1>2, <1>3

(* The offloads that have arrived in the parts of a sequence. *)
LEMMA ArrivedPiecesConcat ==
  ASSUME NEW T, NEW s \in Seq(T), NEW t \in Seq(T), NEW ds
  PROVE  ArrivedPieces(s \o t, ds) <=> ArrivedPieces(s, ds) /\ ArrivedPieces(t, ds)
<1> DEFINE m == Len(s)
           n == Len(t)
           u == s \o t
<1>1. m \in Nat /\ n \in Nat /\ Len(u) = m + n
  OBVIOUS
<1>2. /\ \A i \in 1 .. m : i \in 1 .. m + n /\ u[i] = s[i]
      /\ \A i \in 1 .. n : m + i \in 1 .. m + n /\ u[m + i] = t[i]
      /\ \A i \in 1 .. m + n : i \in 1 .. m \/ (i - m \in 1 .. n /\ u[i] = t[i - m])
  OBVIOUS
<1> HIDE DEF m, n, u
<1>3. ArrivedPieces(u, ds) => ArrivedPieces(s, ds) /\ ArrivedPieces(t, ds)
  <2>1. ArrivedPieces(u, ds) => ArrivedPieces(s, ds)
    BY <1>1, <1>2 DEF ArrivedPieces, m
  <2>2. ArrivedPieces(u, ds) => ArrivedPieces(t, ds)
    BY <1>1, <1>2 DEF ArrivedPieces, n
  <2> QED BY <2>1, <2>2
<1>4. ArrivedPieces(s, ds) /\ ArrivedPieces(t, ds) => ArrivedPieces(u, ds)
  BY <1>1, <1>2 DEF ArrivedPieces, m, n
<1> QED BY <1>3, <1>4 DEF u

(* One more at the end; the first one and the others. *)
LEMMA ArrivedPiecesEnds ==
  ASSUME NEW T, NEW s \in Seq(T), NEW ds
  PROVE  /\ \A x \in T : ArrivedPieces(Append(s, x), ds) <=> ArrivedPieces(s, ds) /\ Arrived(x, ds)
         /\ s # <<>> => (ArrivedPieces(s, ds) <=> Arrived(Head(s), ds) /\ ArrivedPieces(Tail(s), ds))
<1>1. \A x : ArrivedPieces(<<x>>, ds) <=> Arrived(x, ds)
  BY DEF ArrivedPieces
<1>2. ASSUME NEW x \in T PROVE ArrivedPieces(Append(s, x), ds) <=> ArrivedPieces(s, ds) /\ Arrived(x, ds)
  <2> DEFINE y == <<x>>
  <2>1. y \in Seq(T) /\ Append(s, x) = s \o y /\ (ArrivedPieces(y, ds) <=> Arrived(x, ds))
    BY <1>1
  <2> HIDE DEF y
  <2>2. ArrivedPieces(s \o y, ds) <=> ArrivedPieces(s, ds) /\ ArrivedPieces(y, ds)
    BY <2>1, ArrivedPiecesConcat
  <2> QED BY <2>1, <2>2
<1>3. ASSUME s # <<>> PROVE ArrivedPieces(s, ds) <=> Arrived(Head(s), ds) /\ ArrivedPieces(Tail(s), ds)
  <2> DEFINE x == <<Head(s)>>
             y == Tail(s)
  <2>1. x \in Seq(T) /\ y \in Seq(T) /\ s = x \o y /\ (ArrivedPieces(x, ds) <=> Arrived(Head(s), ds))
    BY <1>1, <1>3
  <2> HIDE DEF x, y
  <2>2. ArrivedPieces(x \o y, ds) <=> ArrivedPieces(x, ds) /\ ArrivedPieces(y, ds)
    BY <2>1, ArrivedPiecesConcat
  <2>3. ArrivedPieces(s, ds) <=> ArrivedPieces(x, ds) /\ ArrivedPieces(y, ds)
    BY <2>1, <2>2
  <2> QED BY <2>1, <2>3 DEF y
<1> QED BY <1>2, <1>3

(* What goes back in the parts of a sequence. *)
LEMMA EchoFramesConcat ==
  ASSUME NEW T, NEW s \in Seq(T), NEW t \in Seq(T), NEW ds
  PROVE  EchoFrames(s \o t, ds) <=> EchoFrames(s, ds) /\ EchoFrames(t, ds)
<1> DEFINE m == Len(s)
           n == Len(t)
           u == s \o t
<1>1. m \in Nat /\ n \in Nat /\ Len(u) = m + n
  OBVIOUS
<1>2. /\ \A i \in 1 .. m : i \in 1 .. m + n /\ u[i] = s[i]
      /\ \A i \in 1 .. n : m + i \in 1 .. m + n /\ u[m + i] = t[i]
      /\ \A i \in 1 .. m + n : i \in 1 .. m \/ (i - m \in 1 .. n /\ u[i] = t[i - m])
  OBVIOUS
<1> HIDE DEF m, n, u
<1>3. EchoFrames(u, ds) => EchoFrames(s, ds) /\ EchoFrames(t, ds)
  <2>1. EchoFrames(u, ds) => EchoFrames(s, ds)
    BY <1>1, <1>2 DEF EchoFrames, m
  <2>2. EchoFrames(u, ds) => EchoFrames(t, ds)
    BY <1>1, <1>2 DEF EchoFrames, n
  <2> QED BY <2>1, <2>2
<1>4. EchoFrames(s, ds) /\ EchoFrames(t, ds) => EchoFrames(u, ds)
  BY <1>1, <1>2, SMTT(30) DEF EchoFrames, m, n
<1> QED BY <1>3, <1>4 DEF u

(* One more at the end; the first one and the others. *)
LEMMA EchoFramesEnds ==
  ASSUME NEW T, NEW s \in Seq(T), NEW ds
  PROVE  /\ \A x \in T : EchoFrames(Append(s, x), ds) <=> EchoFrames(s, ds) /\ (x.t = "udp" => Echo(x.p, ds))
         /\ s # <<>> => (EchoFrames(s, ds) <=> (Head(s).t = "udp" => Echo(Head(s).p, ds)) /\ EchoFrames(Tail(s), ds))
<1>1. \A x : EchoFrames(<<x>>, ds) <=> (x.t = "udp" => Echo(x.p, ds))
  BY DEF EchoFrames
<1>2. ASSUME NEW x \in T PROVE EchoFrames(Append(s, x), ds) <=> EchoFrames(s, ds) /\ (x.t = "udp" => Echo(x.p, ds))
  <2> DEFINE y == <<x>>
  <2>1. y \in Seq(T) /\ Append(s, x) = s \o y /\ (EchoFrames(y, ds) <=> (x.t = "udp" => Echo(x.p, ds)))
    BY <1>1
  <2> HIDE DEF y
  <2>2. EchoFrames(s \o y, ds) <=> EchoFrames(s, ds) /\ EchoFrames(y, ds)
    BY <2>1, EchoFramesConcat
  <2> QED BY <2>1, <2>2
<1>3. ASSUME s # <<>> PROVE EchoFrames(s, ds) <=> (Head(s).t = "udp" => Echo(Head(s).p, ds)) /\ EchoFrames(Tail(s), ds)
  <2> DEFINE x == <<Head(s)>>
             y == Tail(s)
  <2>1. x \in Seq(T) /\ y \in Seq(T) /\ s = x \o y /\ (EchoFrames(x, ds) <=> (Head(s).t = "udp" => Echo(Head(s).p, ds)))
    BY <1>1, <1>3
  <2> HIDE DEF x, y
  <2>2. EchoFrames(x \o y, ds) <=> EchoFrames(x, ds) /\ EchoFrames(y, ds)
    BY <2>1, EchoFramesConcat
  <2>3. EchoFrames(s, ds) <=> EchoFrames(x, ds) /\ EchoFrames(y, ds)
    BY <2>1, <2>2
  <2> QED BY <2>1, <2>3 DEF y
<1> QED BY <1>2, <1>3

(* The offloads that go back in the parts of a sequence. *)
LEMMA EchoPiecesConcat ==
  ASSUME NEW T, NEW s \in Seq(T), NEW t \in Seq(T), NEW ds
  PROVE  EchoPieces(s \o t, ds) <=> EchoPieces(s, ds) /\ EchoPieces(t, ds)
<1> DEFINE m == Len(s)
           n == Len(t)
           u == s \o t
<1>1. m \in Nat /\ n \in Nat /\ Len(u) = m + n
  OBVIOUS
<1>2. /\ \A i \in 1 .. m : i \in 1 .. m + n /\ u[i] = s[i]
      /\ \A i \in 1 .. n : m + i \in 1 .. m + n /\ u[m + i] = t[i]
      /\ \A i \in 1 .. m + n : i \in 1 .. m \/ (i - m \in 1 .. n /\ u[i] = t[i - m])
  OBVIOUS
<1> HIDE DEF m, n, u
<1>3. EchoPieces(u, ds) => EchoPieces(s, ds) /\ EchoPieces(t, ds)
  <2>1. EchoPieces(u, ds) => EchoPieces(s, ds)
    BY <1>1, <1>2 DEF EchoPieces, m
  <2>2. EchoPieces(u, ds) => EchoPieces(t, ds)
    BY <1>1, <1>2 DEF EchoPieces, n
  <2> QED BY <2>1, <2>2
<1>4. EchoPieces(s, ds) /\ EchoPieces(t, ds) => EchoPieces(u, ds)
  BY <1>1, <1>2 DEF EchoPieces, m, n
<1> QED BY <1>3, <1>4 DEF u

(* One more at the end; the first one and the others. *)
LEMMA EchoPiecesEnds ==
  ASSUME NEW T, NEW s \in Seq(T), NEW ds
  PROVE  /\ \A x \in T : EchoPieces(Append(s, x), ds) <=> EchoPieces(s, ds) /\ Echo(x, ds)
         /\ s # <<>> => (EchoPieces(s, ds) <=> Echo(Head(s), ds) /\ EchoPieces(Tail(s), ds))
<1>1. \A x : EchoPieces(<<x>>, ds) <=> Echo(x, ds)
  BY DEF EchoPieces
<1>2. ASSUME NEW x \in T PROVE EchoPieces(Append(s, x), ds) <=> EchoPieces(s, ds) /\ Echo(x, ds)
  <2> DEFINE y == <<x>>
  <2>1. y \in Seq(T) /\ Append(s, x) = s \o y /\ (EchoPieces(y, ds) <=> Echo(x, ds))
    BY <1>1
  <2> HIDE DEF y
  <2>2. EchoPieces(s \o y, ds) <=> EchoPieces(s, ds) /\ EchoPieces(y, ds)
    BY <2>1, EchoPiecesConcat
  <2> QED BY <2>1, <2>2
<1>3. ASSUME s # <<>> PROVE EchoPieces(s, ds) <=> Echo(Head(s), ds) /\ EchoPieces(Tail(s), ds)
  <2> DEFINE x == <<Head(s)>>
             y == Tail(s)
  <2>1. x \in Seq(T) /\ y \in Seq(T) /\ s = x \o y /\ (EchoPieces(x, ds) <=> Echo(Head(s), ds))
    BY <1>1, <1>3
  <2> HIDE DEF x, y
  <2>2. EchoPieces(x \o y, ds) <=> EchoPieces(x, ds) /\ EchoPieces(y, ds)
    BY <2>1, EchoPiecesConcat
  <2>3. EchoPieces(s, ds) <=> EchoPieces(x, ds) /\ EchoPieces(y, ds)
    BY <2>1, <2>2
  <2> QED BY <2>1, <2>3 DEF y
<1> QED BY <1>2, <1>3

(* The fields of offloads and frames. *)
LEMMA Fields ==
  /\ \A p \in Pieces : p.who \in Client /\ p.id \in Nat /\ p.off \in Nat /\ p.len \in Nat
  /\ \A f \in Frames : f.t \in Kind /\ f.p \in Pieces
  /\ \A c \in Client : NoPiece(c) \in Pieces
  /\ \A t \in Kind, p \in Pieces : Frame(t, p) \in Frames /\ Frame(t, p).t = t /\ Frame(t, p).p = p
  /\ None.id = 0 /\ None \notin Pieces
BY ClientAssumption DEF Pieces, Frames, NoPiece, Piece, Frame, None

(* A datagram more changes nothing for the others. *)
LEMMA MoreDatagrams ==
  ASSUME NEW ds \in Seq(Datagrams), NEW x \in Datagrams
  PROVE  /\ \A p : Arrived(p, ds) => Arrived(p, Append(ds, x))
         /\ \A p : Echo(p, ds) => Echo(p, Append(ds, x))
<1> DEFINE es == Append(ds, x)
<1>1. \A i \in 1 .. Len(ds) : i \in 1 .. Len(es) /\ es[i] = ds[i]
  OBVIOUS
<1> HIDE DEF es
<1>2. \A p : Arrived(p, ds) => Arrived(p, es)
  BY <1>1 DEF Arrived
<1>3. \A p : Echo(p, ds) => Echo(p, es)
  BY <1>1 DEF Echo
<1> QED BY <1>2, <1>3 DEF es

(* The length of a datagram that has arrived is known. *)
LEMMA KnownLength ==
  ASSUME SentType, NEW d \in 1 .. Len(dgram)
  PROVE  dgram[d].n \in Nat /\ dgram[d].from \in Client
<1>1. dgram[d] \in Datagrams
  BY DEF SentType
<1> QED BY <1>1, Sizes DEF Datagrams

(* The bytes given up are bytes of datagrams. *)
LEMMA LostBytes ==
  ASSUME SentType
  PROVE  /\ \A p \in Pieces : Arrived(p, dgram) => Rest(p) \subseteq (1 .. Len(dgram)) \X Nat
         /\ \A p \in Pieces : Echo(p, dgram) => Part(p) \subseteq (1 .. Len(dgram)) \X Nat
         /\ \A s \in Seq(Frames) : ArrivedFrames(s, dgram) => LostIn(s) \subseteq (1 .. Len(dgram)) \X Nat
         /\ \A s \in Seq(Frames) : EchoFrames(s, dgram) => LostOut(s) \subseteq (1 .. Len(dgram)) \X Nat
<1>1. ASSUME NEW p \in Pieces, Arrived(p, dgram) PROVE Rest(p) \subseteq (1 .. Len(dgram)) \X Nat
  <2>1. p.id \in 1 .. Len(dgram) /\ p.off \in Nat /\ dgram[p.id].n \in Nat
    BY <1>1, Fields, KnownLength DEF Arrived
  <2> QED BY <2>1 DEF Rest, Payload
<1>2. ASSUME NEW p \in Pieces, Echo(p, dgram) PROVE Part(p) \subseteq (1 .. Len(dgram)) \X Nat
  <2>1. p.id \in 1 .. Len(dgram) /\ p.off \in Nat /\ p.len \in Nat
    BY <1>2, Fields DEF Echo
  <2> QED BY <2>1 DEF Part
<1>3. \A s \in Seq(Frames) : \A i \in 1 .. Len(s) : s[i].p \in Pieces
  <2>1. \A s \in Seq(Frames) : \A i \in 1 .. Len(s) : s[i] \in Frames
    OBVIOUS
  <2> QED BY <2>1, Fields
<1>4. ASSUME NEW s \in Seq(Frames), ArrivedFrames(s, dgram) PROVE LostIn(s) \subseteq (1 .. Len(dgram)) \X Nat
  <2>1. \A i \in 1 .. Len(s) : s[i].t = "udp" => Rest(s[i].p) \subseteq (1 .. Len(dgram)) \X Nat
    BY <1>1, <1>3, <1>4 DEF ArrivedFrames
  <2> QED BY <2>1 DEF LostIn
<1>5. ASSUME NEW s \in Seq(Frames), EchoFrames(s, dgram) PROVE LostOut(s) \subseteq (1 .. Len(dgram)) \X Nat
  <2>1. \A i \in 1 .. Len(s) : s[i].t = "udp" => Part(s[i].p) \subseteq (1 .. Len(dgram)) \X Nat
    BY <1>2, <1>3, <1>5 DEF EchoFrames
  <2> QED BY <2>1 DEF LostOut
<1> QED BY <1>1, <1>2, <1>4, <1>5

(* A client sends a datagram. *)
LEMMA PlacesSend ==
  ASSUME TypeOK, PlacesOK, NEW c \in Client, NEW n \in Lens, ClientSends(c, n)
  PROVE  TypeOK' /\ PlacesOK'
<1> USE TypeParts
<1> DEFINE x == [from |-> c, n |-> n]
           p == Piece(c, Len(dgram) + 1, 0, n + H)
           f == Frame("udp", p)
<1>1. dgram \in Seq(Datagrams) /\ rx \in Seq(Frames) /\ Len(rx) < RxSize
  BY DEF SentType, PortType, ClientSends, Fits
<1>2. x \in Datagrams /\ dgram' = Append(dgram, x)
  BY DEF ClientSends, Datagrams
<1>3. n \in Nat /\ p \in Pieces /\ p.id = Len(dgram) + 1 /\ p.who = c /\ p.off = 0 /\ p.len = n + H
  BY <1>1, Sizes DEF Piece, Pieces
<1>4. f \in Frames /\ f.t = "udp" /\ f.p = p /\ rx' = Append(rx, f)
  <2>1. f \in Frames /\ f.t = "udp" /\ f.p = p
    <3> HIDE DEF p
    <3> QED BY <1>3, Fields DEF Kind
  <2> QED BY <2>1 DEF ClientSends
<1>5. Arrived(p, dgram')
  <2>1. Len(dgram) + 1 \in 1 .. Len(dgram') /\ dgram'[Len(dgram) + 1] = x
    BY <1>1, <1>2
  <2>2. x.from = c /\ x.n = n
    OBVIOUS
  <2> HIDE DEF x, p
  <2> QED BY <1>3, <2>1, <2>2, Sizes DEF Arrived
<1> HIDE DEF x, p, f
<1>6. /\ \A q : Arrived(q, dgram) => Arrived(q, dgram')
      /\ \A q : Echo(q, dgram) => Echo(q, dgram')
  BY <1>1, <1>2, MoreDatagrams
<1>7. RingType' /\ WorkerType' /\ BufType' /\ ServerType'
  BY DEF RingType, WorkerType, BufType, ServerType, ClientSends, worker, server
<1>8. PortType'
  BY <1>1, <1>4, Sizes DEF PortType, ClientSends
<1>9. SentType' /\ LostType'
  <2>1. dgram' \in Seq(Datagrams) /\ Len(dgram') = Len(dgram) + 1 /\ Len(dgram) \in Nat
    BY <1>1, <1>2
  <2> QED BY <2>1 DEF SentType, LostType, ClientSends
<1>10. ArrivedFrames(rx, dgram') /\ ArrivedFrames(in, dgram') /\ ArrivedFrames(burst, dgram')
  BY <1>6 DEF PlacesOK, PortOK, ArrivedFrames
<1>11. ArrivedFrames(rx', dgram')
  BY <1>1, <1>4, <1>5, <1>10, ArrivedFramesEnds
<1>12. PortOK'
  BY <1>10, <1>11 DEF PortOK, ClientSends, worker
<1>13. ServerOK'
  <2>1. ArrivedPieces(rcvbuf, dgram')
    BY <1>6 DEF PlacesOK, ServerOK, ArrivedPieces
  <2> QED BY <1>6, <2>1 DEF PlacesOK, ServerOK, ClientSends, server
<1>14. BackOK'
  <2>1. EchoPieces(sndbuf, dgram') /\ EchoFrames(out, dgram') /\ EchoReplies(got, dgram')
    BY <1>6 DEF PlacesOK, BackOK, EchoPieces, EchoFrames, EchoReplies
  <2> QED BY <1>6, <2>1 DEF PlacesOK, BackOK, ClientSends, worker
<1> QED BY <1>7, <1>8, <1>9, <1>12, <1>13, <1>14, TypePartsNext DEF PlacesOK

(* Frames without a datagram arrive at the port. *)
LEMMA PlacesOther ==
  ASSUME TypeOK, PlacesOK, NEW c \in Client,
         ClientAnswersArp(c) \/ ArpLost(c) \/ \E t \in {"arpreq", "icmp", "other"} : ClientCtl(c, t)
  PROVE  TypeOK' /\ PlacesOK'
<1> USE TypeParts
<1>1. RingType' /\ WorkerType' /\ BufType' /\ ServerType' /\ LostType' /\ ServerOK' /\ BackOK'
  BY DEF RingType, WorkerType, BufType, ServerType, LostType, PlacesOK, ServerOK, BackOK,
         ClientAnswersArp, ArpLost, ClientCtl, worker, server, sent
<1>2. SentType'
  BY Sizes DEF SentType, ClientAnswersArp, ArpLost, ClientCtl, sent
<1>3. \/ rx' = rx
      \/ Len(rx) < RxSize /\ \E t \in Kind \ {"udp"} : rx' = Append(rx, Frame(t, NoPiece(c)))
  BY DEF ClientAnswersArp, ArpLost, ClientCtl, Kind, Fits
<1>4. asked' \subseteq Client /\ UNCHANGED <<in, burst, dgram>>
  BY DEF PortType, ClientAnswersArp, ArpLost, ClientCtl, worker, sent
<1>5. PortType' /\ ArrivedFrames(rx', dgram)
  <2>1. CASE rx' = rx
    BY <1>4, <2>1 DEF PortType, PlacesOK, PortOK
  <2>2. CASE Len(rx) < RxSize /\ \E t \in Kind \ {"udp"} : rx' = Append(rx, Frame(t, NoPiece(c)))
    <3>1. PICK t \in Kind \ {"udp"} : rx' = Append(rx, Frame(t, NoPiece(c)))
      BY <2>2
    <3> DEFINE f == Frame(t, NoPiece(c))
    <3>2. f \in Frames /\ f.t # "udp"
      BY Fields
    <3> HIDE DEF f
    <3>3. rx' = Append(rx, f) /\ rx \in Seq(Frames) /\ ArrivedFrames(rx, dgram)
      BY <3>1 DEF f, PortType, PlacesOK, PortOK
    <3>4. ArrivedFrames(Append(rx, f), dgram)
      BY <3>2, <3>3, ArrivedFramesEnds
    <3> QED BY <1>4, <2>2, <3>2, <3>3, <3>4, Sizes DEF PortType
  <2> QED BY <1>3, <2>1, <2>2
<1>6. PortOK'
  BY <1>4, <1>5 DEF PlacesOK, PortOK
<1> QED BY <1>1, <1>2, <1>5, <1>6, TypePartsNext DEF PlacesOK

(* The main loop moves a burst from the port to the ring in. *)
LEMMA PlacesMainRx ==
  ASSUME TypeOK, PlacesOK, MainRx
  PROVE  TypeOK' /\ PlacesOK'
<1> USE TypeParts
<1> DEFINE xs == Taken(rx)
           no == Refused(in, RingSize, xs)
<1>1. rx \in Seq(Frames) /\ in \in Seq(Frames) /\ Len(in) <= RingSize /\ RingSize \in Nat /\ RxSize \in Nat
  BY Sizes DEF PortType, RingType
<1>2. xs \in Seq(Frames) /\ Left(rx) \in Seq(Frames) /\ rx = xs \o Left(rx) /\ Len(Left(rx)) <= Len(rx)
  BY <1>1, BurstIs
<1> HIDE DEF xs
<1> DEFINE put == Accepted(in, RingSize, xs)
<1>3. /\ put \in Seq(Frames) /\ PutBurst(in, RingSize, xs) = in \o put /\ Len(in \o put) <= RingSize
      /\ no \in Seq(Frames) /\ xs = put \o no
  BY <1>1, <1>2, PutBurstIs, SMTT(30)
<1> HIDE DEF no, put
<1>4. rx' = Left(rx) /\ in' = in \o put /\ lost' = lost \cup LostIn(no)
  BY <1>3 DEF MainRx, xs, no
<1>5. ArrivedFrames(rx, dgram) /\ ArrivedFrames(in, dgram) /\ SentType
  BY DEF PlacesOK, PortOK
<1>6. ArrivedFrames(xs, dgram) /\ ArrivedFrames(Left(rx), dgram)
  <2>1. ArrivedFrames(xs \o Left(rx), dgram)
    BY <1>2, <1>5
  <2> HIDE DEF PlacesOK
  <2> QED BY <1>2, <2>1, ArrivedFramesConcat
<1>7. ArrivedFrames(put, dgram) /\ ArrivedFrames(no, dgram)
  <2>1. ArrivedFrames(put \o no, dgram)
    BY <1>3, <1>6
  <2> QED BY <1>3, <2>1, ArrivedFramesConcat
<1>8. ArrivedFrames(in \o put, dgram)
  BY <1>1, <1>3, <1>5, <1>7, ArrivedFramesConcat
<1>9. LostIn(no) \subseteq (1 .. Len(dgram)) \X Nat
  BY <1>3, <1>5, <1>7, LostBytes
<1>10. WorkerType' /\ BufType' /\ ServerType' /\ SentType' /\ ServerOK' /\ BackOK'
  BY DEF WorkerType, BufType, ServerType, SentType, PlacesOK, ServerOK, BackOK, MainRx, worker, server, sent
<1>11. PortType'
  <2>1. Len(Left(rx)) <= RxSize
    BY <1>1, <1>2 DEF PortType
  <2> QED BY <1>2, <1>4, <2>1 DEF PortType, MainRx
<1>12. RingType'
  <2>1. in \o put \in Seq(Frames)
    BY <1>1, <1>3
  <2> QED BY <1>3, <1>4, <2>1 DEF RingType, MainRx
<1>13. LostType'
  BY <1>4, <1>9 DEF LostType, MainRx, sent
<1>14. PortOK'
  BY <1>4, <1>6, <1>8 DEF PlacesOK, PortOK, MainRx, worker, sent
<1> QED BY <1>10, <1>11, <1>12, <1>13, <1>14, TypePartsNext DEF PlacesOK

(* The main loop gives a burst to the port. *)
LEMMA PlacesMainTx ==
  ASSUME TypeOK, PlacesOK, MainTx
  PROVE  TypeOK' /\ PlacesOK'
<1> USE TypeParts
<1> DEFINE tx == Taken(out)
<1>1. out \in Seq(Frames) /\ Len(out) <= RingSize /\ RingSize \in Nat /\ EchoFrames(out, dgram) /\ SentType
  BY Sizes DEF RingType, PlacesOK, BackOK
<1>2. tx \in Seq(Frames) /\ Left(out) \in Seq(Frames) /\ out = tx \o Left(out) /\ Len(Left(out)) <= Len(out)
  BY <1>1, BurstIs
<1>3. PICK k \in 0 .. Len(tx) :
        /\ k \in (IF MayFail THEN 0 .. Len(tx) ELSE {Len(tx)})
        /\ got' = [c \in Client |-> got[c] \o RepliesTo(c, SubSeq(tx, 1, k))]
        /\ asked' = asked \cup {tx[j].p.who : j \in {i \in 1 .. k : tx[i].t = "arp"}}
        /\ lost' = lost \cup LostOut(SubSeq(tx, k + 1, Len(tx)))
  <2>1. Len(tx) \in Nat
    BY <1>2
  <2>2. \A k \in (IF MayFail THEN 0 .. Len(tx) ELSE {Len(tx)}) : k \in 0 .. Len(tx)
    BY <2>1
  <2>3. \E k \in (IF MayFail THEN 0 .. Len(tx) ELSE {Len(tx)}) :
        /\ got' = [c \in Client |-> got[c] \o RepliesTo(c, SubSeq(tx, 1, k))]
        /\ asked' = asked \cup {tx[j].p.who : j \in {i \in 1 .. k : tx[i].t = "arp"}}
        /\ lost' = lost \cup LostOut(SubSeq(tx, k + 1, Len(tx)))
    BY DEF MainTx
  <2> HIDE DEF tx
  <2> QED BY <2>2, <2>3
<1> HIDE DEF tx
<1> DEFINE s == SubSeq(tx, 1, k)
           no == SubSeq(tx, k + 1, Len(tx))
<1>4. s \in Seq(Frames) /\ no \in Seq(Frames) /\ Len(s) = k /\ tx = s \o no
  BY <1>2, Cut, ZenonT(60)
<1> HIDE DEF s, no
<1>5. EchoFrames(tx, dgram) /\ EchoFrames(Left(out), dgram)
  <2>1. EchoFrames(tx \o Left(out), dgram)
    BY <1>1, <1>2
  <2> QED BY <1>2, <2>1, EchoFramesConcat
<1>6. EchoFrames(s, dgram) /\ EchoFrames(no, dgram)
  <2>1. EchoFrames(s \o no, dgram)
    BY <1>4, <1>5
  <2> QED BY <1>4, <2>1, EchoFramesConcat
<1>7. LostOut(no) \subseteq (1 .. Len(dgram)) \X Nat
  BY <1>1, <1>4, <1>6, LostBytes
<1>8. ASSUME NEW c \in Client
      PROVE  /\ RepliesTo(c, s) \in Seq(Pieces)
             /\ \A j \in 1 .. Len(RepliesTo(c, s)) : Echo(RepliesTo(c, s)[j], dgram) /\ RepliesTo(c, s)[j].who = c
  <2>1. RepliesTo(c, s) \in Seq(Pieces)
    BY <1>4, RepliesToIs
  <2> DEFINE f == Source(c, s)
  <2>2. f \in [1 .. Len(RepliesTo(c, s)) -> 1 .. Len(s)] /\
          \A j \in 1 .. Len(RepliesTo(c, s)) :
            s[f[j]].t = "udp" /\ s[f[j]].p.who = c /\ RepliesTo(c, s)[j] = s[f[j]].p
    BY <1>4, RepliesToIs
  <2> HIDE DEF f
  <2> QED BY <1>6, <2>1, <2>2 DEF EchoFrames
<1>9. got \in [Client -> Seq(Pieces)] /\ EchoReplies(got, dgram)
  BY DEF SentType, PlacesOK, BackOK
<1>10. ASSUME NEW c \in Client
       PROVE  /\ got'[c] = got[c] \o RepliesTo(c, s) /\ got'[c] \in Seq(Pieces)
              /\ \A i \in 1 .. Len(got'[c]) : Echo(got'[c][i], dgram) /\ got'[c][i].who = c
  <2> DEFINE g == got[c]
             r == RepliesTo(c, s)
  <2>1. g \in Seq(Pieces) /\ r \in Seq(Pieces) /\ got'[c] = g \o r
    BY <1>3, <1>8, <1>9 DEF s
  <2>2. /\ \A j \in 1 .. Len(g) : Echo(g[j], dgram) /\ g[j].who = c
        /\ \A j \in 1 .. Len(r) : Echo(r[j], dgram) /\ r[j].who = c
    BY <1>8, <1>9 DEF EchoReplies
  <2> HIDE DEF g, r
  <2>3. g \o r \in Seq(Pieces) /\ \A i \in 1 .. Len(g \o r) :
          \/ i \in 1 .. Len(g) /\ (g \o r)[i] = g[i]
          \/ i - Len(g) \in 1 .. Len(r) /\ (g \o r)[i] = r[i - Len(g)]
    BY <2>1
  <2>4. \A i \in 1 .. Len(g \o r) : Echo((g \o r)[i], dgram) /\ (g \o r)[i].who = c
    BY <2>2, <2>3
  <2> QED BY <2>1, <2>3, <2>4 DEF g, r
<1>11. WorkerType' /\ BufType' /\ ServerType' /\ PortOK' /\ ServerOK'
  BY DEF WorkerType, BufType, ServerType, PlacesOK, PortOK, ServerOK, MainTx, worker, server, sent
<1>12. PortType'
  <2>1. \A j \in 1 .. k : tx[j] \in Frames
    BY <1>2
  <2>2. \A j \in 1 .. k : tx[j].p.who \in Client
    BY <2>1, Fields
  <2> QED BY <1>3, <2>2 DEF PortType, MainTx
<1>13. RingType'
  <2>1. Len(Left(out)) <= RingSize
    BY <1>1, <1>2
  <2> QED BY <1>2, <2>1 DEF RingType, MainTx
<1>14. SentType'
  <2>1. got' = [c \in Client |-> got'[c]]
    BY <1>3
  <2>2. got' \in [Client -> Seq(Pieces)]
    BY <1>10, <2>1
  <2> QED BY <2>2 DEF SentType, MainTx, sent
<1>15. LostType'
  <2>1. lost' = lost \cup LostOut(no)
    BY <1>3 DEF no
  <2> QED BY <1>7, <2>1 DEF LostType, MainTx, sent
<1>16. BackOK'
  <2>1. EchoReplies(got', dgram)
    BY <1>10 DEF EchoReplies
  <2> QED BY <1>5, <2>1 DEF PlacesOK, BackOK, MainTx, worker, sent
<1> QED BY <1>11, <1>12, <1>13, <1>14, <1>15, <1>16, TypePartsNext DEF PlacesOK

(* The ARP timer asks for every address. *)
LEMMA PlacesMainTimer ==
  ASSUME TypeOK, PlacesOK, MainTimer
  PROVE  TypeOK' /\ PlacesOK'
<1> USE TypeParts
<1>1. PICK order \in [1 .. Cardinality(Client) -> Client] :
        out' = PutBurst(out, RingSize, [i \in DOMAIN order |-> ArpFrame(order[i])])
  BY DEF MainTimer, TimerCallback
<1> DEFINE xs == [i \in DOMAIN order |-> ArpFrame(order[i])]
<1>2. Cardinality(Client) \in Nat
  BY ClientAssumption, FS_CardinalityType
<1>3. \A c \in Client : ArpFrame(c) \in Frames /\ ArpFrame(c).t # "udp"
  <2>1. \A c \in Client : ArpFrame(c) \in Frames /\ ArpFrame(c).t = "arp"
    BY Fields DEF ArpFrame, Kind
  <2> QED BY <2>1
<1>4. xs \in Seq(Frames)
  BY <1>2, <1>3
<1>5. EchoFrames(xs, dgram)
  BY <1>2, <1>3 DEF EchoFrames
<1> HIDE DEF xs
<1>6. out \in Seq(Frames) /\ Len(out) <= RingSize /\ RingSize \in Nat /\ EchoFrames(out, dgram)
  BY Sizes DEF RingType, PlacesOK, BackOK
<1> DEFINE put == Accepted(out, RingSize, xs)
<1>7. /\ put \in Seq(Frames) /\ PutBurst(out, RingSize, xs) = out \o put /\ Len(out \o put) <= RingSize
      /\ Refused(out, RingSize, xs) \in Seq(Frames) /\ xs = put \o Refused(out, RingSize, xs)
  BY <1>4, <1>6, PutBurstIs
<1> HIDE DEF put
<1>8. EchoFrames(put, dgram)
  <2> DEFINE no == Refused(out, RingSize, xs)
  <2>1. no \in Seq(Frames) /\ EchoFrames(put \o no, dgram)
    BY <1>5, <1>7
  <2> HIDE DEF no
  <2> QED BY <1>7, <2>1, EchoFramesConcat
<1>9. EchoFrames(out \o put, dgram) /\ out \o put \in Seq(Frames)
  BY <1>6, <1>7, <1>8, EchoFramesConcat
<1>10. out' = out \o put
  BY <1>1, <1>7 DEF xs
<1>11. PortType' /\ WorkerType' /\ BufType' /\ ServerType' /\ SentType' /\ LostType' /\ PortOK' /\ ServerOK'
  <2>1. ticks' \in 0 .. MaxTicks
    BY Sizes DEF MainTimer, SentType
  <2> QED BY <2>1 DEF PortType, WorkerType, BufType, ServerType, SentType, LostType, PlacesOK, PortOK, ServerOK,
                      MainTimer, port, worker, server
<1>12. RingType' /\ BackOK'
  BY <1>7, <1>9, <1>10 DEF RingType, PlacesOK, BackOK, MainTimer, worker
<1> QED BY <1>11, <1>12, TypePartsNext DEF PlacesOK

(* pkt_process takes a burst. *)
LEMMA PlacesPoll ==
  ASSUME TypeOK, PlacesOK, Poll
  PROVE  TypeOK' /\ PlacesOK'
<1> USE TypeParts
<1>1. in \in Seq(Frames) /\ Len(in) <= RingSize /\ RingSize \in Nat /\ ArrivedFrames(in, dgram)
  BY Sizes DEF RingType, PlacesOK, PortOK
<1>2. /\ Taken(in) \in Seq(Frames) /\ Left(in) \in Seq(Frames) /\ in = Taken(in) \o Left(in)
      /\ Len(Taken(in)) <= Burst /\ Len(Left(in)) <= Len(in)
  BY <1>1, BurstIs
<1> DEFINE a == Taken(in)
           b == Left(in)
<1>3. ArrivedFrames(a, dgram) /\ ArrivedFrames(b, dgram)
  <2>1. a \in Seq(Frames) /\ b \in Seq(Frames) /\ ArrivedFrames(a \o b, dgram)
    BY <1>1, <1>2
  <2> HIDE DEF a, b
  <2> QED BY <2>1, ArrivedFramesConcat
<1>4. PortType' /\ BufType' /\ ServerType' /\ SentType' /\ LostType' /\ ServerOK'
  BY DEF PortType, BufType, ServerType, SentType, LostType, PlacesOK, ServerOK, Poll, port, server, sent
<1>5. RingType'
  <2>1. Len(Left(in)) <= RingSize
    BY <1>1, <1>2
  <2> QED BY <1>2, <2>1 DEF RingType, Poll
<1>6. WorkerType'
  BY <1>2 DEF WorkerType, Poll
<1>7. PortOK' /\ BackOK'
  BY <1>3 DEF PlacesOK, PortOK, BackOK, Poll, port, sent
<1> QED BY <1>4, <1>5, <1>6, <1>7, TypePartsNext DEF PlacesOK

(* The frame at the head of the burst and the others. *)
LEMMA NextFrame ==
  ASSUME TypeOK, PlacesOK, NEW t, Next1(t)
  PROVE  /\ burst \in Seq(Frames) /\ burst # <<>> /\ Head(burst) \in Frames /\ Head(burst).t = t
         /\ Head(burst).p \in Pieces /\ Head(burst).p.who \in Client
         /\ t = "udp" => Arrived(Head(burst).p, dgram)
         /\ burst' = Tail(burst) /\ burst' \in Seq(Frames) /\ Len(burst') <= Burst /\ ArrivedFrames(burst', dgram)
<1>1. /\ burst \in Seq(Frames) /\ burst # <<>> /\ Head(burst).t = t /\ burst' = Tail(burst)
      /\ Len(burst) <= Burst /\ ArrivedFrames(burst, dgram)
  BY TypeParts DEF Next1, WorkerType, PlacesOK, PortOK
<1>2. Head(burst) \in Frames /\ Tail(burst) \in Seq(Frames) /\ Len(Tail(burst)) = Len(burst) - 1 /\ Len(burst) \in Nat
  BY <1>1
<1>3. (Head(burst).t = "udp" => Arrived(Head(burst).p, dgram)) /\ ArrivedFrames(Tail(burst), dgram)
  BY <1>1, ArrivedFramesEnds
<1>4. Head(burst).p \in Pieces /\ Head(burst).p.who \in Client
  BY <1>2, Fields
<1>5. Len(Tail(burst)) <= Burst
  BY <1>1, <1>2, Sizes
<1> QED BY <1>1, <1>2, <1>3, <1>4, <1>5

(* Requests are answered, replies of ARP are learnt, other frames skipped. *)
LEMMA PlacesAnswer ==
  ASSUME TypeOK, PlacesOK, ArpRequest \/ IcmpRequest \/ ArpReply \/ Skip
  PROVE  TypeOK' /\ PlacesOK'
<1> USE TypeParts
<1>1. PICK t \in {"arpreq", "icmp", "arpreply", "other"} : Next1(t)
  BY DEF ArpRequest, IcmpRequest, ArpReply, Skip
<1>2. /\ Head(burst) \in Frames /\ Head(burst).p \in Pieces /\ Head(burst).p.who \in Client
      /\ burst' \in Seq(Frames) /\ Len(burst') <= Burst /\ ArrivedFrames(burst', dgram)
  BY <1>1, NextFrame
<1>3. PortType' /\ BufType' /\ ServerType' /\ SentType' /\ LostType' /\ ServerOK'
  BY DEF PortType, BufType, ServerType, SentType, LostType, PlacesOK, ServerOK,
         ArpRequest, IcmpRequest, ArpReply, Skip, Answer, port, server, sent
<1>4. WorkerType'
  BY <1>2 DEF WorkerType, ArpRequest, IcmpRequest, ArpReply, Skip, Answer
<1>5. PortOK'
  BY <1>2 DEF PlacesOK, PortOK, ArpRequest, IcmpRequest, ArpReply, Skip, Answer, port, sent
<1>6. /\ out \in Seq(Frames) /\ Len(out) <= RingSize /\ RingSize \in Nat /\ EchoFrames(out, dgram)
      /\ in' = in /\ sndbuf' = sndbuf /\ got' = got /\ wpc' = wpc /\ held' = held /\ dgram' = dgram
  BY Sizes DEF RingType, PlacesOK, BackOK, ArpRequest, IcmpRequest, ArpReply, Skip, Answer, sent
<1>7. \/ out' = out
      \/ \E f \in Frames : f.t # "udp" /\ out' = Put(out, RingSize, f)
  <2>1. ArpAnswer(Head(burst).p) \in Frames /\ ArpAnswer(Head(burst).p).t = "arpanswer"
    BY <1>2, Fields DEF ArpAnswer, Kind
  <2>2. IcmpAnswer(Head(burst).p) \in Frames /\ IcmpAnswer(Head(burst).p).t = "icmpanswer"
    BY <1>2, Fields DEF IcmpAnswer, Kind
  <2>3. CASE ArpRequest
    BY <2>1, <2>3 DEF ArpRequest, Answer
  <2>4. CASE IcmpRequest
    BY <2>2, <2>4 DEF IcmpRequest, Answer
  <2>5. CASE ArpReply \/ Skip
    BY <2>5 DEF ArpReply, Skip
  <2> QED BY <2>3, <2>4, <2>5
<1>8. out' \in Seq(Frames) /\ Len(out') <= RingSize /\ EchoFrames(out', dgram)
  <2>1. CASE out' = out
    BY <1>6, <2>1
  <2>2. CASE \E f \in Frames : f.t # "udp" /\ out' = Put(out, RingSize, f)
    <3>1. PICK f \in Frames : f.t # "udp" /\ out' = Put(out, RingSize, f)
      BY <2>2
    <3>2. Put(out, RingSize, f) \in Seq(Frames) /\ Len(Put(out, RingSize, f)) <= RingSize
      BY <1>6, PutIs
    <3>3. EchoFrames(Append(out, f), dgram)
      BY <1>6, <3>1, EchoFramesEnds
    <3> QED BY <1>6, <3>1, <3>2, <3>3 DEF Put
  <2> QED BY <1>7, <2>1, <2>2
<1>9. RingType' /\ BackOK'
  BY <1>6, <1>8 DEF RingType, PlacesOK, BackOK
<1> QED BY <1>3, <1>4, <1>5, <1>9, TypePartsNext DEF PlacesOK

(* udp_process drops a datagram or puts it into the ring. *)
LEMMA PlacesUdp ==
  ASSUME TypeOK, PlacesOK, UdpDrop \/ UdpProcess
  PROVE  TypeOK' /\ PlacesOK'
<1> USE TypeParts
<1> DEFINE p == Head(burst).p
<1>1. /\ p \in Pieces /\ Arrived(p, dgram)
      /\ burst' \in Seq(Frames) /\ Len(burst') <= Burst /\ ArrivedFrames(burst', dgram)
  <2>1. Next1("udp")
    BY DEF UdpDrop, UdpProcess
  <2> QED BY <2>1, NextFrame
<1> HIDE DEF p
<1>2. lost' = lost \/ lost' = lost \cup Rest(p)
  BY DEF UdpDrop, UdpProcess, p
<1>3. rcvbuf' = rcvbuf \/ rcvbuf' = Put(rcvbuf, BufSize, p)
  BY DEF UdpDrop, UdpProcess, p
<1>4. Rest(p) \subseteq (1 .. Len(dgram)) \X Nat
  BY <1>1, LostBytes
<1>5. rcvbuf \in Seq(Pieces) /\ Len(rcvbuf) <= BufSize /\ BufSize \in Nat /\ ArrivedPieces(rcvbuf, dgram)
  BY Sizes DEF BufType, PlacesOK, ServerOK
<1>6. rcvbuf' \in Seq(Pieces) /\ Len(rcvbuf') <= BufSize /\ ArrivedPieces(rcvbuf', dgram)
  <2>1. Put(rcvbuf, BufSize, p) \in Seq(Pieces) /\ Len(Put(rcvbuf, BufSize, p)) <= BufSize
    BY <1>1, <1>5, PutIs
  <2>2. ArrivedPieces(Append(rcvbuf, p), dgram)
    BY <1>1, <1>5, ArrivedPiecesEnds
  <2>3. ArrivedPieces(Put(rcvbuf, BufSize, p), dgram)
    BY <1>5, <2>2 DEF Put
  <2> QED BY <1>3, <1>5, <2>1, <2>3
<1>7. PortType' /\ RingType' /\ ServerType' /\ SentType'
  BY DEF PortType, RingType, ServerType, SentType, UdpDrop, UdpProcess, port, server, sent
<1>8. WorkerType'
  BY <1>1 DEF WorkerType, UdpDrop, UdpProcess, Next1
<1>9. BufType'
  BY <1>6 DEF BufType, UdpDrop, UdpProcess
<1>10. LostType'
  BY <1>2, <1>4 DEF LostType, UdpDrop, UdpProcess, sent
<1>11. PortOK'
  BY <1>1 DEF PlacesOK, PortOK, UdpDrop, UdpProcess, port, sent
<1>12. ServerOK'
  BY <1>6 DEF PlacesOK, ServerOK, UdpDrop, UdpProcess, server, sent
<1>13. BackOK'
  BY DEF PlacesOK, BackOK, UdpDrop, UdpProcess, Next1, sent
<1> QED BY <1>7, <1>8, <1>9, <1>10, <1>11, <1>12, <1>13, TypePartsNext DEF PlacesOK

(* The signal and the steps of the server that only change its place. *)
LEMMA PlacesPlain ==
  ASSUME TypeOK, PlacesOK, UdpSignal \/ Socket \/ Bind \/ RecvWait
  PROVE  TypeOK' /\ PlacesOK'
<1> USE TypeParts
<1>1. PortType' /\ RingType' /\ BufType' /\ SentType' /\ LostType' /\ PortOK'
  BY DEF PortType, RingType, BufType, SentType, LostType, PlacesOK, PortOK,
         UdpSignal, Socket, Bind, RecvWait, port, worker, sent
<1>2. WorkerType'
  BY DEF WorkerType, UdpSignal, Socket, Bind, RecvWait, worker
<1>3. ServerType'
  BY DEF ServerType, UdpSignal, Socket, Bind, RecvWait
<1>4. ServerOK'
  BY DEF PlacesOK, ServerOK, UdpSignal, Socket, Bind, RecvWait, sent
<1>5. BackOK'
  BY DEF PlacesOK, BackOK, UdpSignal, Socket, Bind, RecvWait, worker, sent
<1> QED BY <1>1, <1>2, <1>3, <1>4, <1>5, TypePartsNext DEF PlacesOK

(* udp_out takes an offload. *)
LEMMA PlacesOutTake ==
  ASSUME TypeOK, PlacesOK, UdpOutTake
  PROVE  TypeOK' /\ PlacesOK'
<1> USE TypeParts
<1>1. PortType' /\ RingType' /\ ServerType' /\ SentType' /\ LostType' /\ PortOK' /\ ServerOK'
  BY DEF PortType, RingType, ServerType, SentType, LostType, PlacesOK, PortOK, ServerOK, UdpOutTake, port, server, sent
<1>2. sndbuf \in Seq(Pieces) /\ Len(sndbuf) <= BufSize /\ BufSize \in Nat /\ EchoPieces(sndbuf, dgram)
  BY Sizes DEF BufType, PlacesOK, BackOK
<1>3. CASE sndbuf = <<>>
  <2>1. WorkerType' /\ BufType'
    BY <1>3 DEF WorkerType, BufType, UdpOutTake
  <2>2. BackOK'
    BY <1>3 DEF PlacesOK, BackOK, UdpOutTake, sent
  <2> QED BY <1>1, <2>1, <2>2, TypePartsNext DEF PlacesOK
<1>4. CASE sndbuf # <<>>
  <2>1. /\ Head(sndbuf) \in Pieces /\ Tail(sndbuf) \in Seq(Pieces) /\ Len(Tail(sndbuf)) = Len(sndbuf) - 1
        /\ Len(sndbuf) \in Nat
    BY <1>2, <1>4
  <2>2. Echo(Head(sndbuf), dgram) /\ EchoPieces(Tail(sndbuf), dgram)
    BY <1>2, <1>4, EchoPiecesEnds
  <2>3. Len(Tail(sndbuf)) <= BufSize
    BY <1>2, <2>1
  <2>4. wpc' = "out" /\ held' = Head(sndbuf) /\ sndbuf' = Tail(sndbuf)
    BY <1>4 DEF UdpOutTake
  <2>5. WorkerType' /\ BufType'
    BY <2>1, <2>3, <2>4 DEF WorkerType, BufType, UdpOutTake
  <2>6. BackOK'
    BY <2>2, <2>4 DEF PlacesOK, BackOK, UdpOutTake, sent
  <2> QED BY <1>1, <2>5, <2>6, TypePartsNext DEF PlacesOK
<1> QED BY <1>3, <1>4

(* udp_out sends the offload, or asks for the MAC and puts it back. *)
LEMMA PlacesOut ==
  ASSUME TypeOK, PlacesOK, UdpOutMiss \/ UdpOutSend
  PROVE  TypeOK' /\ PlacesOK'
<1> USE TypeParts
<1>1. PortType' /\ ServerType' /\ SentType' /\ PortOK' /\ ServerOK'
  BY DEF PortType, ServerType, SentType, PlacesOK, PortOK, ServerOK, UdpOutMiss, UdpOutSend, port, server, sent
<1>2. held \in Pieces /\ Echo(held, dgram) /\ held.who \in Client
  <2>1. held \in Pieces /\ Echo(held, dgram)
    BY DEF WorkerType, PlacesOK, BackOK, UdpOutMiss, UdpOutSend
  <2> QED BY <2>1, Fields
<1>3. /\ out \in Seq(Frames) /\ Len(out) <= RingSize /\ RingSize \in Nat /\ EchoFrames(out, dgram)
      /\ sndbuf \in Seq(Pieces) /\ Len(sndbuf) <= BufSize /\ BufSize \in Nat /\ EchoPieces(sndbuf, dgram)
  BY Sizes DEF RingType, BufType, PlacesOK, BackOK
<1>4. \E f \in Frames : (f.t = "udp" => Echo(f.p, dgram)) /\ out' = Put(out, RingSize, f)
  <2>1. ArpFrame(held.who) \in Frames /\ ArpFrame(held.who).t = "arp"
    BY <1>2, Fields DEF ArpFrame, Kind
  <2>2. UdpFrame(held) \in Frames /\ UdpFrame(held).p = held
    BY <1>2, Fields DEF UdpFrame, Kind
  <2>3. out' = Put(out, RingSize, ArpFrame(held.who)) \/ out' = Put(out, RingSize, UdpFrame(held))
    BY DEF UdpOutMiss, UdpOutSend
  <2>4. CASE out' = Put(out, RingSize, ArpFrame(held.who))
    BY <2>1, <2>4
  <2>5. CASE out' = Put(out, RingSize, UdpFrame(held))
    BY <1>2, <2>2, <2>5
  <2> QED BY <2>3, <2>4, <2>5
<1>5. out' \in Seq(Frames) /\ Len(out') <= RingSize /\ EchoFrames(out', dgram)
  <2>1. PICK f \in Frames : (f.t = "udp" => Echo(f.p, dgram)) /\ out' = Put(out, RingSize, f)
    BY <1>4
  <2>2. Put(out, RingSize, f) \in Seq(Frames) /\ Len(Put(out, RingSize, f)) <= RingSize
    BY <1>3, PutIs
  <2>3. EchoFrames(Append(out, f), dgram)
    BY <1>3, <2>1, EchoFramesEnds
  <2> QED BY <1>3, <2>1, <2>2, <2>3 DEF Put
<1>6. sndbuf' \in Seq(Pieces) /\ Len(sndbuf') <= BufSize /\ EchoPieces(sndbuf', dgram)
  <2>1. Put(sndbuf, BufSize, held) \in Seq(Pieces) /\ Len(Put(sndbuf, BufSize, held)) <= BufSize
    BY <1>2, <1>3, PutIs
  <2>2. EchoPieces(Append(sndbuf, held), dgram)
    BY <1>2, <1>3, EchoPiecesEnds
  <2>3. EchoPieces(Put(sndbuf, BufSize, held), dgram)
    BY <1>3, <2>2 DEF Put
  <2>4. sndbuf' = sndbuf \/ sndbuf' = Put(sndbuf, BufSize, held)
    BY DEF UdpOutMiss, UdpOutSend
  <2> QED BY <1>3, <2>1, <2>3, <2>4
<1>7. RingType' /\ BufType'
  BY <1>5, <1>6 DEF RingType, BufType, UdpOutMiss, UdpOutSend
<1>8. WorkerType'
  BY <1>2 DEF WorkerType, UdpOutMiss, UdpOutSend
<1>9. LostType'
  <2>1. Part(held) \subseteq (1 .. Len(dgram)) \X Nat
    BY <1>2, LostBytes
  <2>2. lost' = lost \/ lost' = lost \cup Part(held)
    BY DEF UdpOutMiss, UdpOutSend
  <2> QED BY <2>1, <2>2 DEF LostType, UdpOutMiss, UdpOutSend, sent
<1>10. BackOK'
  BY <1>5, <1>6 DEF PlacesOK, BackOK, UdpOutMiss, UdpOutSend, sent
<1> QED BY <1>1, <1>7, <1>8, <1>9, <1>10, TypePartsNext DEF PlacesOK

(* nrecvfrom takes an offload and its sender. *)
LEMMA PlacesRecvTake ==
  ASSUME TypeOK, PlacesOK, RecvTake
  PROVE  TypeOK' /\ PlacesOK'
<1> USE TypeParts
<1>1. PortType' /\ RingType' /\ WorkerType' /\ SentType' /\ LostType' /\ PortOK' /\ BackOK'
  BY DEF PortType, RingType, WorkerType, SentType, LostType, PlacesOK, PortOK, BackOK, RecvTake, port, worker, sent
<1>2. rcvbuf \in Seq(Pieces) /\ rcvbuf # <<>> /\ Len(rcvbuf) <= BufSize /\ BufSize \in Nat /\ ArrivedPieces(rcvbuf, dgram)
  BY Sizes DEF BufType, PlacesOK, ServerOK, RecvTake
<1>3. /\ Head(rcvbuf) \in Pieces /\ Tail(rcvbuf) \in Seq(Pieces) /\ Len(Tail(rcvbuf)) = Len(rcvbuf) - 1
      /\ Len(rcvbuf) \in Nat
  BY <1>2
<1>4. Arrived(Head(rcvbuf), dgram) /\ ArrivedPieces(Tail(rcvbuf), dgram)
  BY <1>2, ArrivedPiecesEnds
<1>5. Head(rcvbuf).who \in Client
  BY <1>3, Fields
<1>6. Len(Tail(rcvbuf)) <= BufSize
  BY <1>2, <1>3
<1>7. BufType'
  BY <1>3, <1>6 DEF BufType, RecvTake
<1>8. ServerType'
  BY <1>3, <1>5 DEF ServerType, RecvTake
<1>9. ServerOK'
  BY <1>4 DEF ServerOK, RecvTake, sent
<1> QED BY <1>1, <1>7, <1>8, <1>9, TypePartsNext DEF PlacesOK

(* What nrecvfrom copies, and what it puts back. *)
LEMMA CopiedIs ==
  ASSUME TypeOK, PlacesOK, spc = "copy"
  PROVE  /\ ol \in Pieces /\ Arrived(ol, dgram)
         /\ Copied(ol) \in Pieces /\ Echo(Copied(ol), dgram)
         /\ Copied(ol).id = ol.id /\ Copied(ol).off = ol.off
         /\ B < ol.len => /\ Forward(ol) \in Pieces /\ Arrived(Forward(ol), dgram)
                          /\ Forward(ol).id = ol.id /\ Forward(ol).off = ol.off + B
<1>1. ol \in Pieces /\ Arrived(ol, dgram) /\ caddr = ol.who /\ SentType
  BY TypeParts DEF ServerType, PlacesOK, ServerOK
<1>2. ol.who \in Client /\ ol.id \in Nat /\ ol.off \in Nat /\ ol.len \in Nat
  BY <1>1, Fields
<1>3. /\ ol.id \in 1 .. Len(dgram) /\ ol.who = dgram[ol.id].from
      /\ ol.len > 0 /\ ol.off + ol.len = dgram[ol.id].n + H
  BY <1>1 DEF Arrived
<1>4. dgram[ol.id].n \in Nat
  BY <1>1, <1>3, KnownLength
<1> DEFINE n == dgram[ol.id].n
           left == n - ol.off
           len == IF left < 0 THEN 0 ELSE AtMost(B, left)
<1>5. len \in Nat /\ len = IF n < ol.off THEN 0 ELSE AtMost(B, n - ol.off)
  BY <1>2, <1>4, Sizes DEF AtMost
<1>6. Copied(ol) = Piece(ol.who, ol.id, ol.off, len)
  BY <1>1 DEF Copied, Payload
<1>7. ol.off < n + H
  BY <1>2, <1>3, <1>4, Sizes
<1> HIDE DEF len, left
<1>8. /\ Copied(ol) \in Pieces /\ Copied(ol).id = ol.id /\ Copied(ol).off = ol.off
      /\ Copied(ol).who = ol.who /\ Copied(ol).len = len
  BY <1>2, <1>5, <1>6 DEF Piece, Pieces
<1>9. Echo(Copied(ol), dgram)
  BY <1>3, <1>5, <1>7, <1>8 DEF Echo
<1>10. ASSUME B < ol.len
       PROVE  /\ Forward(ol) \in Pieces /\ Arrived(Forward(ol), dgram)
              /\ Forward(ol).id = ol.id /\ Forward(ol).off = ol.off + B
  <2>1. ol.off + B \in Nat /\ ol.len - B \in Nat /\ ol.len - B > 0 /\ (ol.off + B) + (ol.len - B) = n + H
    BY <1>2, <1>3, <1>4, <1>10, Sizes, SMTT(30)
  <2>2. /\ Forward(ol) \in Pieces /\ Forward(ol).id = ol.id /\ Forward(ol).off = ol.off + B
        /\ Forward(ol).who = ol.who /\ Forward(ol).len = ol.len - B
    BY <1>2, <2>1 DEF Forward, Piece, Pieces
  <2>3. Arrived(Forward(ol), dgram)
    BY <1>3, <2>1, <2>2 DEF Arrived
  <2> QED BY <2>2, <2>3
<1> QED BY <1>1, <1>8, <1>9, <1>10

(* nrecvfrom copies a piece and puts the rest back. *)
LEMMA PlacesRecvCopy ==
  ASSUME TypeOK, PlacesOK, RecvCopy
  PROVE  TypeOK' /\ PlacesOK'
<1> USE TypeParts
<1>1. PortType' /\ RingType' /\ WorkerType' /\ SentType' /\ PortOK' /\ BackOK'
  BY DEF PortType, RingType, WorkerType, SentType, PlacesOK, PortOK, BackOK, RecvCopy, port, worker, sent
<1>2. spc = "copy" /\ spc' = "send" /\ text' = Copied(ol) /\ ol' = None /\ dgram' = dgram
  BY DEF RecvCopy, sent
<1> DEFINE q == Forward(ol)
<1>3. /\ Copied(ol) \in Pieces /\ Echo(Copied(ol), dgram)
      /\ B < ol.len => q \in Pieces /\ Arrived(q, dgram)
  BY <1>2, CopiedIs
<1>4. rcvbuf \in Seq(Pieces) /\ Len(rcvbuf) <= BufSize /\ BufSize \in Nat /\ ArrivedPieces(rcvbuf, dgram)
  BY Sizes DEF BufType, PlacesOK, ServerOK
<1>5. \/ rcvbuf' = rcvbuf /\ lost' = lost
      \/ B < ol.len /\ rcvbuf' = Put(rcvbuf, BufSize, q) /\ (lost' = lost \/ lost' = lost \cup Rest(q))
  BY DEF RecvCopy
<1> HIDE DEF q
<1>6. rcvbuf' \in Seq(Pieces) /\ Len(rcvbuf') <= BufSize /\ ArrivedPieces(rcvbuf', dgram)
  <2>1. CASE rcvbuf' = rcvbuf
    BY <1>4, <2>1
  <2>2. CASE B < ol.len /\ rcvbuf' = Put(rcvbuf, BufSize, q)
    <3>1. q \in Pieces /\ Arrived(q, dgram)
      BY <1>3, <2>2
    <3>2. Put(rcvbuf, BufSize, q) \in Seq(Pieces) /\ Len(Put(rcvbuf, BufSize, q)) <= BufSize
      BY <1>4, <3>1, PutIs
    <3>3. ArrivedPieces(Append(rcvbuf, q), dgram)
      BY <1>4, <3>1, ArrivedPiecesEnds
    <3> QED BY <1>4, <2>2, <3>2, <3>3 DEF Put
  <2> QED BY <1>5, <2>1, <2>2
<1>7. LostType'
  <2>1. B < ol.len => Rest(q) \subseteq (1 .. Len(dgram)) \X Nat
    BY <1>3, LostBytes
  <2> QED BY <1>2, <1>5, <2>1 DEF LostType
<1>8. BufType'
  BY <1>6 DEF BufType, RecvCopy
<1>9. ServerType'
  BY <1>2, <1>3 DEF ServerType, RecvCopy
<1>10. ServerOK'
  BY <1>2, <1>3, <1>6 DEF ServerOK
<1> QED BY <1>1, <1>7, <1>8, <1>9, <1>10, TypePartsNext DEF PlacesOK

(* nsendto queues the piece or gives it up. *)
LEMMA PlacesSendTo ==
  ASSUME TypeOK, PlacesOK, SendNothing \/ SendTo
  PROVE  TypeOK' /\ PlacesOK'
<1> USE TypeParts
<1>1. PortType' /\ RingType' /\ WorkerType' /\ SentType' /\ PortOK'
  BY DEF PortType, RingType, WorkerType, SentType, PlacesOK, PortOK, SendNothing, SendTo, port, worker, sent
<1>2. text \in Pieces /\ Echo(text, dgram)
  BY DEF ServerType, PlacesOK, ServerOK, SendNothing, SendTo
<1>3. sndbuf \in Seq(Pieces) /\ Len(sndbuf) <= BufSize /\ BufSize \in Nat /\ EchoPieces(sndbuf, dgram)
  BY Sizes DEF BufType, PlacesOK, BackOK
<1>4. sndbuf' \in Seq(Pieces) /\ Len(sndbuf') <= BufSize /\ EchoPieces(sndbuf', dgram)
  <2>1. CASE sndbuf' = sndbuf
    BY <1>3, <2>1
  <2>2. CASE Len(sndbuf) < BufSize /\ sndbuf' = Append(sndbuf, text)
    <3>1. EchoPieces(Append(sndbuf, text), dgram)
      BY <1>2, <1>3, EchoPiecesEnds
    <3> QED BY <1>2, <1>3, <2>2, <3>1
  <2>3. sndbuf' = sndbuf \/ (Len(sndbuf) < BufSize /\ sndbuf' = Append(sndbuf, text))
    BY DEF SendNothing, SendTo, PutBack, Fits
  <2> QED BY <2>1, <2>2, <2>3
<1>5. LostType'
  <2>1. Part(text) \subseteq (1 .. Len(dgram)) \X Nat
    BY <1>2, LostBytes
  <2>2. lost' = lost \/ lost' = lost \cup Part(text)
    BY DEF SendNothing, SendTo
  <2> QED BY <2>1, <2>2 DEF LostType, SendNothing, SendTo, sent
<1>6. BufType'
  BY <1>4 DEF BufType, SendNothing, SendTo
<1>7. ServerType'
  BY DEF ServerType, SendNothing, SendTo
<1>8. ServerOK'
  BY DEF PlacesOK, ServerOK, SendNothing, SendTo, sent
<1>9. BackOK'
  BY <1>4 DEF PlacesOK, BackOK, SendNothing, SendTo, worker, sent
<1> QED BY <1>1, <1>5, <1>6, <1>7, <1>8, <1>9, TypePartsNext DEF PlacesOK

(* Types and places are kept by every step. *)
LEMMA PlacesKept ==
  ASSUME TypeOK, PlacesOK, [Next]_vars
  PROVE  TypeOK' /\ PlacesOK'
<1>1. CASE Network
  BY <1>1, PlacesSend, PlacesOther DEF Network
<1>2. CASE MainStep
  BY <1>2, PlacesMainRx, PlacesMainTx, PlacesMainTimer DEF MainStep
<1>3. CASE WorkerStep
  BY <1>3, PlacesPoll, PlacesAnswer, PlacesUdp, PlacesPlain, PlacesOutTake, PlacesOut DEF WorkerStep
<1>4. CASE ServerStep
  BY <1>4, PlacesPlain, PlacesRecvTake, PlacesRecvCopy, PlacesSendTo DEF ServerStep
<1>5. CASE UNCHANGED vars
  <2> USE TypeParts
  <2>1. PortType' /\ RingType' /\ WorkerType' /\ BufType' /\ ServerType' /\ SentType' /\ LostType'
    BY <1>5 DEF vars, port, worker, server, sent,
       PortType, RingType, WorkerType, BufType, ServerType, SentType, LostType
  <2>2. PortOK' /\ ServerOK' /\ BackOK'
    BY <1>5 DEF vars, port, worker, server, sent, PlacesOK, PortOK, ServerOK, BackOK
  <2> QED BY <2>1, <2>2, TypePartsNext DEF PlacesOK
<1> QED BY <1>1, <1>2, <1>3, <1>4, <1>5 DEF Next

-----------------------------------------------------------------------------
(* Each byte in one place *)

(* A reply is a client and a number. *)
LEMMA ReplyIs ==
  ASSUME NEW g
  PROVE  /\ \A r \in RepliesOf(g) : r[1] \in Client /\ r[2] \in 1 .. Len(g[r[1]]) /\ r = <<r[1], r[2]>>
         /\ \A c \in Client : \A i \in 1 .. Len(g[c]) : <<c, i>> \in RepliesOf(g)
<1>1. ASSUME NEW r \in RepliesOf(g)
      PROVE  r[1] \in Client /\ r[2] \in 1 .. Len(g[r[1]]) /\ r = <<r[1], r[2]>>
  <2>1. PICK c \in Client : r \in {c} \X (1 .. Len(g[c]))
    BY <1>1 DEF RepliesOf
  <2> QED BY <2>1
<1>2. ASSUME NEW c \in Client, NEW i \in 1 .. Len(g[c]) PROVE <<c, i>> \in RepliesOf(g)
  <2>1. <<c, i>> \in {c} \X (1 .. Len(g[c]))
    OBVIOUS
  <2> QED BY <2>1 DEF RepliesOf
<1> QED BY <1>1, <1>2

(* There are finitely many replies. *)
LEMMA RepliesFinite ==
  ASSUME NEW g \in [Client -> Seq(Pieces)], NEW d, NEW lo, NEW hi
  PROVE  /\ IsFiniteSet(HitsR(g, d, lo, hi)) /\ RepliesAt(g, d, lo, hi) \in Nat
         /\ RepliesAt(g, d, lo, hi) = 0 <=> \A c \in Client : \A i \in 1 .. Len(g[c]) : ~At(g[c][i], d, lo, hi)
<1> DEFINE Row(c) == {c} \X (1 .. Len(g[c]))
           Rows == {Row(c) : c \in Client}
           f == [c \in Client |-> Row(c)]
<1>1. \A c \in Client : IsFiniteSet(Row(c))
  <2> SUFFICES ASSUME NEW c \in Client PROVE IsFiniteSet(Row(c))
    OBVIOUS
  <2> DEFINE N == 1 .. Len(g[c])
             h == [i \in N |-> <<c, i>>]
  <2>1. IsFiniteSet(N)
    <3>1. Len(g[c]) \in Nat
      OBVIOUS
    <3> QED BY <3>1, FS_Interval
  <2>2. h \in Surjection(N, Row(c))
    <3>1. h \in [N -> Row(c)]
      OBVIOUS
    <3>2. \A y \in Row(c) : \E i \in N : h[i] = y
      OBVIOUS
    <3> HIDE DEF h, N, Row
    <3> QED BY <3>1, <3>2 DEF Surjection
  <2> HIDE DEF h, N, Row
  <2> QED BY <2>1, <2>2, FS_Surjection
<1>2. f \in Surjection(Client, Rows)
  <2> HIDE DEF Row
  <2> QED BY DEF Surjection
<1>3. IsFiniteSet(Rows)
  <2> HIDE DEF f, Rows
  <2> QED BY <1>2, ClientAssumption, FS_Surjection
<1>4. IsFiniteSet(UNION Rows)
  <2>1. \A T \in Rows : IsFiniteSet(T)
    <3> HIDE DEF Row
    <3> QED BY <1>1
  <2> HIDE DEF Rows
  <2> QED BY <1>3, <2>1, FS_UNION
<1>5. RepliesOf(g) = UNION Rows
  BY DEF RepliesOf
<1>6. IsFiniteSet(HitsR(g, d, lo, hi))
  <2>1. HitsR(g, d, lo, hi) \in SUBSET RepliesOf(g) /\ IsFiniteSet(RepliesOf(g))
    BY <1>4, <1>5 DEF HitsR
  <2> QED BY <2>1, FS_Subset
<1>7. HitsR(g, d, lo, hi) = {} <=> \A c \in Client : \A i \in 1 .. Len(g[c]) : ~At(g[c][i], d, lo, hi)
  <2>1. ASSUME HitsR(g, d, lo, hi) = {}, NEW c \in Client, NEW i \in 1 .. Len(g[c]), At(g[c][i], d, lo, hi) PROVE FALSE
    <3> DEFINE r == <<c, i>>
    <3>1. r \in RepliesOf(g) /\ r[1] = c /\ r[2] = i
      BY ReplyIs
    <3> QED BY <2>1, <3>1 DEF HitsR
  <2>2. ASSUME NEW r \in HitsR(g, d, lo, hi) PROVE \E c \in Client : \E i \in 1 .. Len(g[c]) : At(g[c][i], d, lo, hi)
    <3>1. r \in RepliesOf(g) /\ At(g[r[1]][r[2]], d, lo, hi)
      BY <2>2 DEF HitsR
    <3> QED BY <3>1, ReplyIs
  <2> QED BY <2>1, <2>2
<1> QED BY <1>6, <1>7, FS_CardinalityType, FS_EmptySet DEF RepliesAt

\* The replies h are g and those among the frames s.
Added(g, h, s) ==
  /\ g \in [Client -> Seq(Pieces)] /\ h \in [Client -> Seq(Pieces)]
  /\ \A c \in Client : h[c] = g[c] \o RepliesTo(c, s)

(* What is sent of a burst is received once. *)
LEMMA RepliesAdded ==
  ASSUME NEW g, NEW h, NEW s \in Seq(Frames), Added(g, h, s), NEW d, NEW lo, NEW hi
  PROVE  RepliesAt(h, d, lo, hi) = RepliesAt(g, d, lo, hi) + FramesAt(s, d, lo, hi)
<1>0. g \in [Client -> Seq(Pieces)] /\ h \in [Client -> Seq(Pieces)]
  BY DEF Added
<1> DEFINE Src(c, j) == Source(c, s)[j]
           G == HitsR(g, d, lo, hi)
           K == HitsR(h, d, lo, hi)
           New == {r \in K : r[2] > Len(g[r[1]])}
           F == HitsF(s, d, lo, hi)
           f == [r \in New |-> Src(r[1], r[2] - Len(g[r[1]]))]
<1>1. ASSUME NEW c \in Client
      PROVE  /\ Len(g[c]) \in Nat /\ Len(RepliesTo(c, s)) \in Nat /\ Len(h[c]) = Len(g[c]) + Len(RepliesTo(c, s))
             /\ \A i \in 1 .. Len(g[c]) : h[c][i] = g[c][i]
             /\ \A j \in 1 .. Len(RepliesTo(c, s)) : h[c][Len(g[c]) + j] = RepliesTo(c, s)[j]
  <2>1. g[c] \in Seq(Pieces) /\ RepliesTo(c, s) \in Seq(Pieces) /\ h[c] = g[c] \o RepliesTo(c, s)
    BY <1>0, RepliesToIs DEF Added
  <2> DEFINE a == g[c]
             b == RepliesTo(c, s)
  <2> HIDE DEF a, b
  <2>2. a \in Seq(Pieces) /\ b \in Seq(Pieces) /\ h[c] = a \o b
    BY <2>1 DEF a, b
  <2>3. /\ Len(a) \in Nat /\ Len(b) \in Nat /\ Len(a \o b) = Len(a) + Len(b)
        /\ \A i \in 1 .. Len(a) : (a \o b)[i] = a[i]
        /\ \A j \in 1 .. Len(b) : (a \o b)[Len(a) + j] = b[j]
    BY <2>2
  <2> QED BY <2>2, <2>3 DEF a, b
<1>2. ASSUME NEW c \in Client, NEW j \in 1 .. Len(RepliesTo(c, s))
      PROVE  /\ Src(c, j) \in 1 .. Len(s) /\ s[Src(c, j)].t = "udp" /\ s[Src(c, j)].p.who = c
             /\ s[Src(c, j)].p = h[c][Len(g[c]) + j]
  <2>1. /\ Source(c, s) \in [1 .. Len(RepliesTo(c, s)) -> 1 .. Len(s)]
        /\ s[Source(c, s)[j]].t = "udp" /\ s[Source(c, s)[j]].p.who = c
        /\ RepliesTo(c, s)[j] = s[Source(c, s)[j]].p
    BY RepliesToIs
  <2>2. Source(c, s)[j] \in 1 .. Len(s)
    BY <2>1
  <2>3. h[c][Len(g[c]) + j] = RepliesTo(c, s)[j]
    BY <1>1
  <2> QED BY <2>1, <2>2, <2>3
<1> HIDE DEF Src
<1>3. ASSUME NEW r \in New
      PROVE  /\ r[1] \in Client /\ r[2] - Len(g[r[1]]) \in 1 .. Len(RepliesTo(r[1], s)) /\ r[2] \in Int
             /\ r = <<r[1], r[2]>> /\ At(h[r[1]][r[2]], d, lo, hi)
             /\ Len(g[r[1]]) + (r[2] - Len(g[r[1]])) = r[2] /\ Len(g[r[1]]) \in Nat
  <2>1. r \in RepliesOf(h) /\ At(h[r[1]][r[2]], d, lo, hi) /\ r[2] > Len(g[r[1]])
    BY <1>3 DEF HitsR
  <2>2. r[1] \in Client /\ r[2] \in 1 .. Len(h[r[1]]) /\ r = <<r[1], r[2]>>
    BY <2>1, ReplyIs
  <2> DEFINE a == r[1]
             b == r[2]
             m == Len(g[a])
             n == Len(RepliesTo(a, s))
  <2>3. a \in Client /\ b \in 1 .. Len(h[a]) /\ b > m /\ m \in Nat /\ n \in Nat /\ Len(h[a]) = m + n
    BY <1>1, <2>1, <2>2
  <2> HIDE DEF a, b, m, n
  <2>4. b - m \in 1 .. n /\ b \in Int /\ m + (b - m) = b
    BY <2>3
  <2> QED BY <2>1, <2>2, <2>3, <2>4 DEF a, b, m, n
<1>4. f \in [New -> F]
  <2> SUFFICES ASSUME NEW r \in New PROVE Src(r[1], r[2] - Len(g[r[1]])) \in F
    OBVIOUS
  <2> DEFINE c == r[1]
             j == r[2] - Len(g[r[1]])
  <2>1. c \in Client /\ j \in 1 .. Len(RepliesTo(c, s)) /\ At(h[c][Len(g[c]) + j], d, lo, hi)
    BY <1>3
  <2> HIDE DEF c, j
  <2>2. Src(c, j) \in 1 .. Len(s) /\ s[Src(c, j)].t = "udp" /\ At(s[Src(c, j)].p, d, lo, hi)
    BY <1>2, <2>1
  <2>3. Src(c, j) \in F
    BY <2>2 DEF HitsF
  <2> QED BY <2>3 DEF c, j
<1>5. \A x, y \in New : f[x] = f[y] => x = y
  <2> SUFFICES ASSUME NEW x \in New, NEW y \in New, f[x] = f[y] PROVE x = y
    OBVIOUS
  <2> DEFINE c == x[1]
             j == x[2] - Len(g[x[1]])
             e == y[1]
             k == y[2] - Len(g[y[1]])
  <2>1. /\ c \in Client /\ j \in 1 .. Len(RepliesTo(c, s)) /\ x = <<c, Len(g[c]) + j>>
        /\ e \in Client /\ k \in 1 .. Len(RepliesTo(e, s)) /\ y = <<e, Len(g[e]) + k>>
    BY <1>3
  <2>2. Src(c, j) = Src(e, k)
    OBVIOUS
  <2> HIDE DEF c, j, e, k
  <2>3. c = e
    <3>1. s[Src(c, j)].p.who = c /\ s[Src(e, k)].p.who = e
      BY <1>2, <2>1
    <3> QED BY <2>2, <3>1
  <2>4. j = k
    BY <2>1, <2>2, <2>3, RepliesToIs DEF Src
  <2> QED BY <2>1, <2>3, <2>4
<1>6. \A k \in F : \E x \in New : f[x] = k
  <2> SUFFICES ASSUME NEW k \in F PROVE \E x \in New : f[x] = k
    OBVIOUS
  <2>1. k \in 1 .. Len(s) /\ s[k].t = "udp" /\ At(s[k].p, d, lo, hi)
    BY DEF HitsF
  <2> DEFINE c == s[k].p.who
  <2>2. c \in Client
    <3>1. s[k] \in Frames
      BY <2>1
    <3> QED BY <3>1, Fields
  <2>10. s[k].p.who = c
    OBVIOUS
  <2> HIDE DEF c
  <2>3. PICK j \in 1 .. Len(RepliesTo(c, s)) : Src(c, j) = k
    <3>1. \E j \in 1 .. Len(RepliesTo(c, s)) : Source(c, s)[j] = k
      <4> HIDE DEF F, f, New, G, K
      <4> QED BY <2>1, <2>10, RepliesToIs
    <3> QED BY <3>1 DEF Src
  <2> DEFINE i == Len(g[c]) + j
             x == <<c, i>>
  <2>4. i \in 1 .. Len(h[c]) /\ i > Len(g[c]) /\ i - Len(g[c]) = j /\ i \in Int
    BY <1>1, <2>2
  <2>5. h[c][i] = s[k].p
    BY <1>2, <2>2, <2>3
  <2> HIDE DEF i
  <2>6. x[1] = c /\ x[2] = i
    OBVIOUS
  <2>7. x \in RepliesOf(h)
    BY <2>2, <2>4, ReplyIs
  <2> HIDE DEF x
  <2>8. x \in New
    BY <2>1, <2>4, <2>5, <2>6, <2>7 DEF HitsR
  <2>9. f[x] = k
    BY <2>3, <2>4, <2>6, <2>8
  <2> QED BY <2>8, <2>9
<1>7. IsFiniteSet(K) /\ IsFiniteSet(G) /\ Cardinality(G) \in Nat
  BY <1>0, RepliesFinite DEF RepliesAt
<1>8. IsFiniteSet(New) /\ Cardinality(F) = Cardinality(New)
  <2>1. New \in SUBSET K
    OBVIOUS
  <2>2. f \in Bijection(New, F)
    <3> HIDE DEF f, New, F
    <3> QED BY <1>4, <1>5, <1>6 DEF Bijection, Injection, Surjection, IsInjective
  <2> HIDE DEF f, New, F, K
  <2>3. IsFiniteSet(New)
    BY <1>7, <2>1, FS_Subset
  <2> QED BY <2>2, <2>3, FS_Bijection DEF ExistsBijection
<1>9. K = G \cup New
  <2>1. ASSUME NEW r \in G PROVE r \in K
    <3>1. r \in RepliesOf(g) /\ At(g[r[1]][r[2]], d, lo, hi)
      BY <2>1 DEF HitsR
    <3>2. r[1] \in Client /\ r[2] \in 1 .. Len(g[r[1]]) /\ r = <<r[1], r[2]>>
      BY <3>1, ReplyIs
    <3>3. h[r[1]][r[2]] = g[r[1]][r[2]] /\ r[2] \in 1 .. Len(h[r[1]])
      BY <1>1, <3>2
    <3>4. r \in RepliesOf(h)
      BY <3>2, <3>3, ReplyIs
    <3> QED BY <3>1, <3>3, <3>4 DEF HitsR
  <2>2. ASSUME NEW r \in K PROVE r \in G \/ r \in New
    <3>1. r \in RepliesOf(h) /\ At(h[r[1]][r[2]], d, lo, hi)
      BY <2>2 DEF HitsR
    <3>2. r[1] \in Client /\ r[2] \in 1 .. Len(h[r[1]]) /\ r = <<r[1], r[2]>>
      BY <3>1, ReplyIs
    <3>3. r[2] > Len(g[r[1]]) \/ r[2] \in 1 .. Len(g[r[1]])
      BY <1>1, <3>2
    <3>4. CASE r[2] \in 1 .. Len(g[r[1]])
      <4>1. h[r[1]][r[2]] = g[r[1]][r[2]]
        BY <1>1, <3>2, <3>4
      <4>2. r \in RepliesOf(g)
        BY <3>2, <3>4, ReplyIs
      <4> QED BY <3>1, <4>1, <4>2 DEF HitsR
    <3> QED BY <2>2, <3>3, <3>4
  <2>3. \A r \in New : r \in K
    OBVIOUS
  <2> HIDE DEF G, K, New
  <2> QED BY <2>1, <2>2, <2>3
<1>10. G \cap New = {}
  <2> SUFFICES ASSUME NEW r \in G, r \in New PROVE FALSE
    OBVIOUS
  <2>1. r \in RepliesOf(g) /\ r[2] > Len(g[r[1]])
    BY DEF HitsR
  <2>2. r[1] \in Client /\ r[2] \in 1 .. Len(g[r[1]])
    BY <2>1, ReplyIs
  <2> QED BY <1>1, <2>1, <2>2
<1> HIDE DEF f, New, F, K, G
<1>11. Cardinality(K) = Cardinality(G) + Cardinality(New) - Cardinality({})
  BY <1>7, <1>8, <1>9, <1>10, FS_Union
<1>12. Cardinality({}) = 0 /\ Cardinality(New) \in Nat
  BY <1>8, FS_EmptySet, FS_CardinalityType
<1>13. Cardinality(K) = Cardinality(G) + Cardinality(F)
  BY <1>7, <1>8, <1>11, <1>12
<1> QED BY <1>13 DEF RepliesAt, FramesAt, K, G, F

\* A step takes byte b of datagram d from x places and gives it up if there was one.
Moved(d, b, x) ==
  /\ Total(d, b)' = Total(d, b) - x
  /\ b <= dgram[d].n => (<<d, b>> \in lost' <=> <<d, b>> \in lost \/ x > 0)
\* The counts are numbers.
CountsNat(d, b) ==
  /\ FramesAt(rx, d, 0, b) \in Nat /\ FramesAt(in, d, 0, b) \in Nat /\ FramesAt(burst, d, 0, b) \in Nat
  /\ PiecesAt(rcvbuf, d, 0, b) \in Nat /\ OneAt(ol, d, 0, b) \in Nat
  /\ OneAt(text, d, b - B, b) \in Nat /\ PiecesAt(sndbuf, d, b - B, b) \in Nat /\ OneAt(held, d, b - B, b) \in Nat
  /\ FramesAt(out, d, b - B, b) \in Nat /\ RepliesAt(got, d, b - B, b) \in Nat
TotalNat == \A d, b : CountsNat(d, b)

(* The counts are numbers. *)
LEMMA CountsAreNat == TypeOK => TotalNat
<1> SUFFICES ASSUME TypeOK, NEW d, NEW b PROVE CountsNat(d, b)
  BY DEF TotalNat
<1>1. /\ rx \in Seq(Frames) /\ in \in Seq(Frames) /\ burst \in Seq(Frames) /\ out \in Seq(Frames)
      /\ rcvbuf \in Seq(Pieces) /\ sndbuf \in Seq(Pieces) /\ got \in [Client -> Seq(Pieces)]
  BY DEF TypeOK
<1>2. FramesAt(rx, d, 0, b) \in Nat /\ FramesAt(in, d, 0, b) \in Nat /\ FramesAt(burst, d, 0, b) \in Nat
  BY <1>1, FramesNat
<1>3. FramesAt(out, d, b - B, b) \in Nat
  BY <1>1, FramesNat
<1>4. PiecesAt(rcvbuf, d, 0, b) \in Nat /\ PiecesAt(sndbuf, d, b - B, b) \in Nat
  BY <1>1, PiecesNat
<1>5. RepliesAt(got, d, b - B, b) \in Nat
  BY <1>1, RepliesFinite
<1>6. OneAt(ol, d, 0, b) \in Nat /\ OneAt(text, d, b - B, b) \in Nat /\ OneAt(held, d, b - B, b) \in Nat
  BY DEF OneAt
<1> QED BY <1>2, <1>3, <1>4, <1>5, <1>6 DEF CountsNat

(* The same in the next state. *)
LEMMA CountsAreNatNext == TypeOK' => TotalNat'
BY CountsAreNat, PTL

(* So are the counts of each part. *)
LEMMA PartsAreNat ==
  ASSUME TypeOK, NEW d, NEW b
  PROVE  AtPort(d, b) \in Nat /\ AtServer(d, b) \in Nat /\ AtSocket(d, b) \in Nat /\ AtOut(d, b) \in Nat
<1>1. CountsNat(d, b)
  BY CountsAreNat DEF TotalNat
<1>2. AtPort(d, b) \in Nat
  BY <1>1 DEF CountsNat, AtPort
<1>3. AtServer(d, b) \in Nat
  BY <1>1 DEF CountsNat, AtServer
<1>4. AtSocket(d, b) \in Nat
  BY <1>1 DEF CountsNat, AtSocket
<1>5. AtOut(d, b) \in Nat
  BY <1>1 DEF CountsNat, AtOut
<1> QED BY <1>2, <1>3, <1>4, <1>5

(* The same in the next state. *)
LEMMA PartsAreNatNext ==
  ASSUME TypeOK', NEW d, NEW b
  PROVE  AtPort(d, b)' \in Nat /\ AtServer(d, b)' \in Nat /\ AtSocket(d, b)' \in Nat /\ AtOut(d, b)' \in Nat
<1>1. CountsNat(d, b)'
  BY CountsAreNatNext DEF TotalNat
<1>2. AtPort(d, b)' \in Nat
  BY <1>1 DEF CountsNat, AtPort
<1>3. AtServer(d, b)' \in Nat
  BY <1>1 DEF CountsNat, AtServer
<1>4. AtSocket(d, b)' \in Nat
  BY <1>1 DEF CountsNat, AtSocket
<1>5. AtOut(d, b)' \in Nat
  BY <1>1 DEF CountsNat, AtOut
<1> QED BY <1>2, <1>3, <1>4, <1>5

(* A step changes the parts of the variables that it changes. *)
LEMMA PartsKept ==
  ASSUME NEW d, NEW b
  PROVE  /\ rx' = rx /\ in' = in /\ burst' = burst => AtPort(d, b)' = AtPort(d, b)
         /\ rcvbuf' = rcvbuf /\ ol' = ol => AtServer(d, b)' = AtServer(d, b)
         /\ text' = text /\ sndbuf' = sndbuf /\ held' = held => AtSocket(d, b)' = AtSocket(d, b)
         /\ out' = out /\ got' = got => AtOut(d, b)' = AtOut(d, b)
BY DEF AtPort, AtServer, AtSocket, AtOut

(* A step that accounts for each byte keeps it in one place. *)
LEMMA Account ==
  ASSUME TypeOK, Once, TypeOK', dgram' = dgram,
         \A d \in 1 .. Len(dgram) : \A b \in Nat \ {0} : \E x \in Nat : Moved(d, b, x)
  PROVE  Once'
<1> SUFFICES ASSUME NEW d \in 1 .. Len(dgram), NEW b \in Nat \ {0} PROVE OnceAt(d, b)'
  BY DEF Once
<1>1. PICK x \in Nat : Moved(d, b, x)
  OBVIOUS
<1>2. Total(d, b) \in Nat
  BY PartsAreNat DEF Total
<1>3. Total(d, b)' \in Nat
  BY PartsAreNatNext DEF Total
<1>4. Total(d, b)' = Total(d, b) - x /\ Total(d, b) <= 1
  BY <1>1 DEF Moved, Once, OnceAt
<1>5. x = 0 \/ (x = 1 /\ Total(d, b) = 1)
  BY <1>2, <1>3, <1>4
<1>6. Total(d, b)' <= 1
  BY <1>2, <1>3, <1>4, <1>5
<1>7. ASSUME b <= dgram[d].n PROVE Total(d, b)' = IF <<d, b>> \in lost' THEN 0 ELSE 1
  <2>1. Total(d, b) = IF <<d, b>> \in lost THEN 0 ELSE 1
    BY <1>7 DEF Once, OnceAt
  <2>2. <<d, b>> \in lost' <=> <<d, b>> \in lost \/ x > 0
    BY <1>1, <1>7 DEF Moved
  <2>3. CASE x = 0
    BY <1>2, <1>4, <2>1, <2>2, <2>3
  <2>4. CASE x = 1 /\ Total(d, b) = 1
    BY <1>4, <2>1, <2>2, <2>4
  <2> QED BY <1>5, <2>3, <2>4
<1> QED BY <1>6, <1>7 DEF OnceAt

(* Nothing is held outside the steps that hold it. *)
LEMMA NothingAt ==
  ASSUME NEW d \in Nat \ {0}, NEW lo, NEW hi
  PROVE  OneAt(None, d, lo, hi) = 0
BY Fields DEF OneAt, At

(* The bytes given up are those that were in the place. *)
LEMMA GivenUp ==
  ASSUME SentType, NEW d \in 1 .. Len(dgram), NEW b \in Nat \ {0}, b <= dgram[d].n
  PROVE  /\ \A p \in Pieces : <<d, b>> \in Rest(p) <=> OneAt(p, d, 0, b) > 0
         /\ \A p \in Pieces : Echo(p, dgram) => (<<d, b>> \in Part(p) <=> OneAt(p, d, b - B, b) > 0)
         /\ \A s \in Seq(Frames) : <<d, b>> \in LostIn(s) <=> FramesAt(s, d, 0, b) > 0
         /\ \A s \in Seq(Frames) : EchoFrames(s, dgram) => (<<d, b>> \in LostOut(s) <=> FramesAt(s, d, b - B, b) > 0)
<1>0. dgram[d].n \in Nat /\ B \in Nat /\ B > 0 /\ d \in Nat
  BY KnownLength, Sizes
<1>1. ASSUME NEW p \in Pieces PROVE <<d, b>> \in Rest(p) <=> At(p, d, 0, b)
  <2>1. p.id \in Nat /\ p.off \in Nat
    BY Fields
  <2>2. <<d, b>> \in Rest(p) <=> p.id = d /\ b \in p.off + 1 .. dgram[d].n
    BY DEF Rest, Payload
  <2> QED BY <1>0, <2>1, <2>2 DEF At
<1>2. ASSUME NEW p \in Pieces, Echo(p, dgram) PROVE <<d, b>> \in Part(p) <=> At(p, d, b - B, b)
  <2>1. p.id \in Nat /\ p.off \in Nat /\ p.len \in Nat
    BY Fields
  <2>2. <<d, b>> \in Part(p) <=> p.id = d /\ b \in p.off + 1 .. p.off + p.len
    BY DEF Part
  <2>3. p.len = IF dgram[p.id].n < p.off THEN 0 ELSE AtMost(B, dgram[p.id].n - p.off)
    BY <1>2 DEF Echo
  <2>4. p.id = d => (b \in p.off + 1 .. p.off + p.len <=> b - B <= p.off /\ p.off < b)
    BY <1>0, <2>1, <2>3 DEF AtMost
  <2> QED BY <2>2, <2>4 DEF At
<1>3. \A p, lo : OneAt(p, d, lo, b) > 0 <=> At(p, d, lo, b)
  BY DEF OneAt
<1>4. \A s \in Seq(Frames) : \A i \in 1 .. Len(s) : s[i].p \in Pieces
  <2>1. \A s \in Seq(Frames) : \A i \in 1 .. Len(s) : s[i] \in Frames
    OBVIOUS
  <2> QED BY <2>1, Fields
<1>5. ASSUME NEW s \in Seq(Frames), NEW lo
      PROVE  FramesAt(s, d, lo, b) > 0 <=> \E i \in 1 .. Len(s) : s[i].t = "udp" /\ At(s[i].p, d, lo, b)
  <2>1. /\ FramesAt(s, d, lo, b) \in Nat
        /\ FramesAt(s, d, lo, b) = 0 <=> \A i \in 1 .. Len(s) : ~(s[i].t = "udp" /\ At(s[i].p, d, lo, b))
    BY FramesNat
  <2> QED BY <2>1
<1>6. ASSUME NEW s \in Seq(Frames) PROVE <<d, b>> \in LostIn(s) <=> FramesAt(s, d, 0, b) > 0
  <2>1. <<d, b>> \in LostIn(s) <=> \E i \in 1 .. Len(s) : s[i].t = "udp" /\ <<d, b>> \in Rest(s[i].p)
    BY DEF LostIn
  <2>2. \A i \in 1 .. Len(s) : <<d, b>> \in Rest(s[i].p) <=> At(s[i].p, d, 0, b)
    BY <1>1, <1>4
  <2> QED BY <1>5, <2>1, <2>2
<1>7. ASSUME NEW s \in Seq(Frames), EchoFrames(s, dgram) PROVE <<d, b>> \in LostOut(s) <=> FramesAt(s, d, b - B, b) > 0
  <2>1. <<d, b>> \in LostOut(s) <=> \E i \in 1 .. Len(s) : s[i].t = "udp" /\ <<d, b>> \in Part(s[i].p)
    BY DEF LostOut
  <2>2. \A i \in 1 .. Len(s) : s[i].t = "udp" => (<<d, b>> \in Part(s[i].p) <=> At(s[i].p, d, b - B, b))
    BY <1>2, <1>4, <1>7 DEF EchoFrames
  <2> QED BY <1>5, <2>1, <2>2
<1> QED BY <1>1, <1>2, <1>3, <1>6, <1>7

(* Frames move from the port into the ring; those it refuses are given up. *)
LEMMA OnceMainRx ==
  ASSUME TypeOK, PlacesOK, Once, MainRx
  PROVE  Once'
<1> DEFINE a == Taken(rx)
           yes == Accepted(in, RingSize, a)
           no == Refused(in, RingSize, a)
<1>1. TypeOK' /\ dgram' = dgram /\ SentType
  BY PlacesMainRx, TypeParts DEF MainRx, sent
<1>2. rx \in Seq(Frames) /\ in \in Seq(Frames) /\ Len(in) <= RingSize /\ RingSize \in Nat
  BY TypeParts, Sizes DEF PortType, RingType
<1>3. a \in Seq(Frames) /\ Left(rx) \in Seq(Frames) /\ rx = a \o Left(rx)
  BY <1>2, BurstIs
<1>4. rx' = Left(rx) /\ in' = PutBurst(in, RingSize, a) /\ lost' = lost \cup LostIn(no)
  BY DEF MainRx
<1> HIDE DEF a
<1>5. yes \in Seq(Frames) /\ no \in Seq(Frames) /\ in' = in \o yes /\ a = yes \o no
  BY <1>2, <1>3, <1>4, PutBurstIs, SMTT(30)
<1> HIDE DEF yes, no
<1>6. ASSUME NEW d \in 1 .. Len(dgram), NEW b \in Nat \ {0} PROVE Moved(d, b, FramesAt(no, d, 0, b))
  <2>1. FramesAt(rx, d, 0, b) = FramesAt(a, d, 0, b) + FramesAt(rx', d, 0, b)
    <3>1. FramesAt(a \o rx', d, 0, b) = FramesAt(a, d, 0, b) + FramesAt(rx', d, 0, b)
      BY <1>3, <1>4, FramesConcat
    <3> QED BY <1>3, <1>4, <3>1
  <2>2. FramesAt(in', d, 0, b) = FramesAt(in, d, 0, b) + FramesAt(yes, d, 0, b)
    BY <1>2, <1>5, FramesConcat
  <2>3. FramesAt(a, d, 0, b) = FramesAt(yes, d, 0, b) + FramesAt(no, d, 0, b)
    BY <1>5, FramesConcat
  <2>4. FramesAt(yes, d, 0, b) \in Nat /\ FramesAt(no, d, 0, b) \in Nat
    BY <1>5, FramesNat
  <2>5. CountsNat(d, b) /\ CountsNat(d, b)'
    BY <1>1, CountsAreNat, CountsAreNatNext DEF TotalNat
  <2>6. /\ burst' = burst /\ rcvbuf' = rcvbuf /\ ol' = ol /\ text' = text /\ sndbuf' = sndbuf
        /\ held' = held /\ out' = out /\ got' = got
    BY DEF MainRx, worker, server
  <2>7. AtPort(d, b)' = AtPort(d, b) - FramesAt(no, d, 0, b)
    <3>1. /\ FramesAt(rx', d, 0, b) \in Nat /\ FramesAt(in, d, 0, b) \in Nat /\ FramesAt(burst, d, 0, b) \in Nat
      BY <2>5 DEF CountsNat
    <3>2. AtPort(d, b) = FramesAt(rx, d, 0, b) + FramesAt(in, d, 0, b) + FramesAt(burst, d, 0, b)
      BY DEF AtPort
    <3>3. AtPort(d, b)' = FramesAt(rx', d, 0, b) + FramesAt(in', d, 0, b) + FramesAt(burst, d, 0, b)
      BY <2>6 DEF AtPort
    <3> QED BY <2>1, <2>2, <2>3, <2>4, <3>1, <3>2, <3>3
  <2>8. AtServer(d, b)' = AtServer(d, b) /\ AtSocket(d, b)' = AtSocket(d, b) /\ AtOut(d, b)' = AtOut(d, b)
    BY <2>6, PartsKept
  <2>9. Total(d, b)' = Total(d, b) - FramesAt(no, d, 0, b)
    BY <1>1, <2>4, <2>7, <2>8, PartsAreNat, PartsAreNatNext DEF Total
  <2>10. b <= dgram[d].n => (<<d, b>> \in LostIn(no) <=> FramesAt(no, d, 0, b) > 0)
    BY <1>1, <1>5, GivenUp
  <2> QED BY <1>4, <2>9, <2>10 DEF Moved
<1>7. \A d \in 1 .. Len(dgram) : \A b \in Nat \ {0} : \E x \in Nat : Moved(d, b, x)
  BY <1>5, <1>6, FramesNat
<1> QED BY <1>1, <1>7, Account

(* A step that moves every byte gives none up. *)
LEMMA AllKept ==
  ASSUME TypeOK, Once, TypeOK', dgram' = dgram, lost' = lost,
         \A d \in 1 .. Len(dgram) : \A b \in Nat \ {0} : Total(d, b)' = Total(d, b)
  PROVE  Once'
<1>1. ASSUME NEW d \in 1 .. Len(dgram), NEW b \in Nat \ {0} PROVE Moved(d, b, 0)
  <2>1. Total(d, b) \in Nat
    BY PartsAreNat, SMTT(30) DEF Total
  <2>2. Total(d, b)' = Total(d, b) - 0
    BY <2>1
  <2> QED BY <2>2 DEF Moved
<1>2. \A d \in 1 .. Len(dgram) : \A b \in Nat \ {0} : \E x \in Nat : Moved(d, b, x)
  BY <1>1
<1> QED BY <1>2, Account

(* A ring has what it is given, if it fits. *)
LEMMA PutAt ==
  ASSUME NEW size, NEW ring, NEW x, NEW T, ring \in Seq(T), x \in T, NEW d, NEW lo, NEW hi
  PROVE  /\ Fits(ring, size) =>
              /\ FramesAt(Put(ring, size, x), d, lo, hi) = FramesAt(ring, d, lo, hi) + FrameAt(x, d, lo, hi)
              /\ PiecesAt(Put(ring, size, x), d, lo, hi) = PiecesAt(ring, d, lo, hi) + OneAt(x, d, lo, hi)
         /\ ~Fits(ring, size) => Put(ring, size, x) = ring
<1>1. FramesAt(Append(ring, x), d, lo, hi) = FramesAt(ring, d, lo, hi) + FrameAt(x, d, lo, hi)
  BY FramesAppend
<1>2. PiecesAt(Append(ring, x), d, lo, hi) = PiecesAt(ring, d, lo, hi) + OneAt(x, d, lo, hi)
  BY PiecesAppend
<1> QED BY <1>1, <1>2 DEF Put

(* Frames that carry no datagram are not counted. *)
LEMMA NotUdp ==
  ASSUME NEW d, NEW lo, NEW hi
  PROVE  /\ \A f : f.t # "udp" => FrameAt(f, d, lo, hi) = 0
         /\ \A p \in Pieces : FrameAt(UdpFrame(p), d, lo, hi) = OneAt(p, d, lo, hi)
BY DEF FrameAt, UdpFrame, Frame

(* The steps that move no datagram. *)
LEMMA OncePlain ==
  ASSUME TypeOK, PlacesOK, Once, UdpSignal \/ Socket \/ Bind \/ RecvWait
  PROVE  Once'
<1>1. TypeOK'
  BY PlacesPlain
<1>2. /\ rx' = rx /\ in' = in /\ burst' = burst /\ rcvbuf' = rcvbuf /\ ol' = ol /\ text' = text
      /\ sndbuf' = sndbuf /\ held' = held /\ out' = out /\ got' = got /\ dgram' = dgram /\ lost' = lost
  BY DEF UdpSignal, Socket, Bind, RecvWait, port, worker, sent
<1>3. \A d, b : Total(d, b)' = Total(d, b)
  BY <1>2, PartsKept DEF Total
<1> QED BY <1>1, <1>2, <1>3, AllKept

(* The frames of the network that carry no datagram. *)
LEMMA OnceOther ==
  ASSUME TypeOK, PlacesOK, Once, NEW c \in Client,
         ClientAnswersArp(c) \/ ArpLost(c) \/ \E t \in {"arpreq", "icmp", "other"} : ClientCtl(c, t)
  PROVE  Once'
<1>1. TypeOK'
  BY PlacesOther
<1>2. /\ in' = in /\ burst' = burst /\ rcvbuf' = rcvbuf /\ ol' = ol /\ text' = text
      /\ sndbuf' = sndbuf /\ held' = held /\ out' = out /\ got' = got /\ dgram' = dgram /\ lost' = lost
  BY DEF ClientAnswersArp, ArpLost, ClientCtl, worker, server, sent
<1>3. rx' = rx \/ \E t \in Kind \ {"udp"} : rx' = Append(rx, Frame(t, NoPiece(c)))
  BY DEF ClientAnswersArp, ArpLost, ClientCtl, Kind
<1>4. ASSUME NEW d, NEW b PROVE FramesAt(rx', d, 0, b) = FramesAt(rx, d, 0, b)
  <2>1. CASE rx' = rx
    BY <2>1
  <2>2. CASE \E t \in Kind \ {"udp"} : rx' = Append(rx, Frame(t, NoPiece(c)))
    <3>1. PICK t \in Kind \ {"udp"} : rx' = Append(rx, Frame(t, NoPiece(c)))
      BY <2>2
    <3> DEFINE f == Frame(t, NoPiece(c))
    <3>2. f \in Frames /\ f.t # "udp" /\ rx \in Seq(Frames)
      BY Fields, TypeParts DEF PortType
    <3>3. rx' = Append(rx, f)
      BY <3>1
    <3> HIDE DEF f
    <3>4. FramesAt(Append(rx, f), d, 0, b) = FramesAt(rx, d, 0, b) + FrameAt(f, d, 0, b)
      BY <3>2, FramesAppend
    <3>5. FrameAt(f, d, 0, b) = 0 /\ FramesAt(rx, d, 0, b) \in Nat
      BY <3>2, NotUdp, FramesNat
    <3> QED BY <3>3, <3>4, <3>5
  <2> QED BY <1>3, <2>1, <2>2
<1>5. \A d, b : AtPort(d, b)' = AtPort(d, b)
  BY <1>2, <1>4 DEF AtPort
<1>6. \A d, b : Total(d, b)' = Total(d, b)
  BY <1>2, <1>5, PartsKept DEF Total
<1> QED BY <1>1, <1>2, <1>6, AllKept

(* The ARP timer moves no datagram. *)
LEMMA OnceMainTimer ==
  ASSUME TypeOK, PlacesOK, Once, MainTimer
  PROVE  Once'
<1>1. TypeOK'
  BY PlacesMainTimer
<1>2. PICK order \in [1 .. Cardinality(Client) -> Client] :
        out' = PutBurst(out, RingSize, [i \in DOMAIN order |-> ArpFrame(order[i])])
  BY DEF MainTimer, TimerCallback
<1> DEFINE xs == [i \in DOMAIN order |-> ArpFrame(order[i])]
<1>3. Cardinality(Client) \in Nat
  BY ClientAssumption, FS_CardinalityType
<1>4. \A c \in Client : ArpFrame(c) \in Frames /\ ArpFrame(c).t # "udp"
  <2>1. \A c \in Client : ArpFrame(c) \in Frames /\ ArpFrame(c).t = "arp"
    BY Fields DEF ArpFrame, Kind
  <2> QED BY <2>1
<1>5. xs \in Seq(Frames) /\ \A i \in 1 .. Len(xs) : xs[i].t # "udp"
  BY <1>3, <1>4
<1> HIDE DEF xs
<1>6. out \in Seq(Frames) /\ Len(out) <= RingSize /\ RingSize \in Nat
  BY Sizes, TypeParts DEF RingType
<1> DEFINE yes == Accepted(out, RingSize, xs)
           no == Refused(out, RingSize, xs)
<1>7. yes \in Seq(Frames) /\ no \in Seq(Frames) /\ PutBurst(out, RingSize, xs) = out \o yes /\ xs = yes \o no
  BY <1>5, <1>6, PutBurstIs, ZenonT(60)
<1>8. out' = out \o yes
  BY <1>2, <1>7 DEF xs
<1> HIDE DEF yes, no
<1>9. ASSUME NEW d, NEW lo, NEW hi PROVE FramesAt(out', d, lo, hi) = FramesAt(out, d, lo, hi)
  <2>1. FramesAt(yes \o no, d, lo, hi) = FramesAt(yes, d, lo, hi) + FramesAt(no, d, lo, hi)
    BY <1>7, FramesConcat
  <2>2. FramesAt(xs, d, lo, hi) = 0
    BY <1>5, FramesNat
  <2>3. FramesAt(yes, d, lo, hi) \in Nat /\ FramesAt(no, d, lo, hi) \in Nat
    BY <1>7, FramesNat
  <2>4. FramesAt(yes, d, lo, hi) = 0
    BY <1>7, <2>1, <2>2, <2>3
  <2>5. FramesAt(out \o yes, d, lo, hi) = FramesAt(out, d, lo, hi) + FramesAt(yes, d, lo, hi)
    BY <1>6, <1>7, FramesConcat
  <2>6. FramesAt(out, d, lo, hi) \in Nat
    BY <1>6, FramesNat
  <2> QED BY <1>8, <2>4, <2>5, <2>6
<1>10. /\ rx' = rx /\ in' = in /\ burst' = burst /\ rcvbuf' = rcvbuf /\ ol' = ol /\ text' = text
       /\ sndbuf' = sndbuf /\ held' = held /\ got' = got /\ dgram' = dgram /\ lost' = lost
  BY DEF MainTimer, port, worker, server, sent
<1>11. \A d, b : AtOut(d, b)' = AtOut(d, b)
  BY <1>9, <1>10 DEF AtOut
<1>12. \A d, b : Total(d, b)' = Total(d, b)
  BY <1>10, <1>11, PartsKept DEF Total
<1> QED BY <1>1, <1>10, <1>12, AllKept

(* The frames the port accepts become replies, the others are given up. *)
LEMMA OnceMainTx ==
  ASSUME TypeOK, PlacesOK, Once, MainTx
  PROVE  Once'
<1> DEFINE tx == Taken(out)
<1>1. TypeOK' /\ dgram' = dgram /\ SentType
  BY PlacesMainTx, TypeParts DEF MainTx, sent
<1>2. out \in Seq(Frames) /\ EchoFrames(out, dgram)
  BY TypeParts DEF RingType, PlacesOK, BackOK
<1>3. tx \in Seq(Frames) /\ Left(out) \in Seq(Frames) /\ out = tx \o Left(out)
  BY <1>2, BurstIs
<1>4. PICK k \in 0 .. Len(tx) :
        /\ got' = [c \in Client |-> got[c] \o RepliesTo(c, SubSeq(tx, 1, k))]
        /\ lost' = lost \cup LostOut(SubSeq(tx, k + 1, Len(tx)))
  <2>1. Len(tx) \in Nat
    BY <1>3
  <2>2. \A k \in (IF MayFail THEN 0 .. Len(tx) ELSE {Len(tx)}) : k \in 0 .. Len(tx)
    BY <2>1
  <2>3. \E k \in (IF MayFail THEN 0 .. Len(tx) ELSE {Len(tx)}) :
        /\ got' = [c \in Client |-> got[c] \o RepliesTo(c, SubSeq(tx, 1, k))]
        /\ lost' = lost \cup LostOut(SubSeq(tx, k + 1, Len(tx)))
    BY DEF MainTx
  <2> HIDE DEF tx
  <2> QED BY <2>2, <2>3
<1>5. out' = Left(out)
  BY DEF MainTx
<1> HIDE DEF tx
<1> DEFINE s == SubSeq(tx, 1, k)
           no == SubSeq(tx, k + 1, Len(tx))
<1>6. s \in Seq(Frames) /\ no \in Seq(Frames) /\ tx = s \o no
  BY <1>3, Cut
<1>7. got' = [c \in Client |-> got[c] \o RepliesTo(c, s)] /\ lost' = lost \cup LostOut(no)
  BY <1>4
<1> HIDE DEF s, no
<1>8. EchoFrames(no, dgram)
  <2>1. EchoFrames(tx \o Left(out), dgram)
    BY <1>2, <1>3
  <2>2. EchoFrames(s \o no, dgram)
    BY <1>3, <1>6, <2>1, EchoFramesConcat
  <2> QED BY <1>6, <2>2, EchoFramesConcat
<1>9. /\ got \in [Client -> Seq(Pieces)] /\ got' \in [Client -> Seq(Pieces)]
      /\ Added(got, got', s)
  BY <1>1, <1>7, TypeParts, TypePartsNext DEF SentType, Added
<1>10. ASSUME NEW d \in 1 .. Len(dgram), NEW b \in Nat \ {0} PROVE Moved(d, b, FramesAt(no, d, b - B, b))
  <2>1. FramesAt(out, d, b - B, b) = FramesAt(tx, d, b - B, b) + FramesAt(out', d, b - B, b)
    <3>1. FramesAt(tx \o out', d, b - B, b) = FramesAt(tx, d, b - B, b) + FramesAt(out', d, b - B, b)
      BY <1>3, <1>5, FramesConcat
    <3> QED BY <1>3, <1>5, <3>1
  <2>2. RepliesAt(got', d, b - B, b) = RepliesAt(got, d, b - B, b) + FramesAt(s, d, b - B, b)
    BY <1>6, <1>9, RepliesAdded
  <2>3. FramesAt(tx, d, b - B, b) = FramesAt(s, d, b - B, b) + FramesAt(no, d, b - B, b)
    BY <1>6, FramesConcat
  <2>4. FramesAt(s, d, b - B, b) \in Nat /\ FramesAt(no, d, b - B, b) \in Nat
    BY <1>6, FramesNat
  <2>5. CountsNat(d, b) /\ CountsNat(d, b)'
    BY <1>1, CountsAreNat, CountsAreNatNext DEF TotalNat
  <2>6. /\ rx' = rx /\ in' = in /\ burst' = burst /\ rcvbuf' = rcvbuf /\ ol' = ol /\ text' = text
        /\ sndbuf' = sndbuf /\ held' = held
    BY DEF MainTx, worker, server
  <2>7. AtOut(d, b)' = AtOut(d, b) - FramesAt(no, d, b - B, b)
    <3>1. FramesAt(out', d, b - B, b) \in Nat /\ RepliesAt(got, d, b - B, b) \in Nat
      BY <2>5 DEF CountsNat
    <3>2. AtOut(d, b) = FramesAt(out, d, b - B, b) + RepliesAt(got, d, b - B, b)
      BY DEF AtOut
    <3>3. AtOut(d, b)' = FramesAt(out', d, b - B, b) + RepliesAt(got', d, b - B, b)
      BY DEF AtOut
    <3> QED BY <2>1, <2>2, <2>3, <2>4, <3>1, <3>2, <3>3
  <2>8. AtPort(d, b)' = AtPort(d, b) /\ AtServer(d, b)' = AtServer(d, b) /\ AtSocket(d, b)' = AtSocket(d, b)
    BY <2>6, PartsKept
  <2>9. Total(d, b)' = Total(d, b) - FramesAt(no, d, b - B, b)
    BY <1>1, <2>4, <2>7, <2>8, PartsAreNat, PartsAreNatNext DEF Total
  <2>10. b <= dgram[d].n => (<<d, b>> \in LostOut(no) <=> FramesAt(no, d, b - B, b) > 0)
    BY <1>1, <1>6, <1>8, GivenUp
  <2> QED BY <1>7, <2>9, <2>10 DEF Moved
<1>11. \A d \in 1 .. Len(dgram) : \A b \in Nat \ {0} : \E x \in Nat : Moved(d, b, x)
  BY <1>6, <1>10, FramesNat
<1> QED BY <1>1, <1>11, Account

(* A burst is taken from the ring; it was empty. *)
LEMMA OncePoll ==
  ASSUME TypeOK, PlacesOK, Once, burst = <<>>, Poll
  PROVE  Once'
<1>1. TypeOK'
  BY PlacesPoll
<1>2. /\ rx' = rx /\ rcvbuf' = rcvbuf /\ ol' = ol /\ text' = text /\ sndbuf' = sndbuf /\ held' = held
      /\ out' = out /\ got' = got /\ dgram' = dgram /\ lost' = lost
  BY DEF Poll, port, server, sent
<1>3. in \in Seq(Frames) /\ in' \in Seq(Frames) /\ burst' \in Seq(Frames) /\ in = burst' \o in'
  BY BurstIs, TypeParts DEF RingType, Poll
<1>4. ASSUME NEW d, NEW b PROVE AtPort(d, b)' = AtPort(d, b)
  <2>1. FramesAt(burst' \o in', d, 0, b) = FramesAt(burst', d, 0, b) + FramesAt(in', d, 0, b)
    BY <1>3, FramesConcat
  <2>2. FramesAt(burst, d, 0, b) = 0
    <3>1. burst \in Seq(Frames) /\ Len(burst) = 0
      BY TypeParts DEF WorkerType
    <3>2. FramesAt(burst, d, 0, b) = 0 <=> \A i \in 1 .. Len(burst) : ~(burst[i].t = "udp" /\ At(burst[i].p, d, 0, b))
      BY <3>1, FramesNat
    <3>3. 1 .. Len(burst) = {}
      BY <3>1
    <3> QED BY <3>2, <3>3
  <2>3. FramesAt(rx, d, 0, b) \in Nat /\ FramesAt(burst', d, 0, b) \in Nat /\ FramesAt(in', d, 0, b) \in Nat
    BY <1>3, FramesNat, TypeParts DEF PortType
  <2>4. AtPort(d, b) = FramesAt(rx, d, 0, b) + FramesAt(in, d, 0, b) + FramesAt(burst, d, 0, b)
    BY DEF AtPort
  <2>5. AtPort(d, b)' = FramesAt(rx, d, 0, b) + FramesAt(in', d, 0, b) + FramesAt(burst', d, 0, b)
    BY <1>2 DEF AtPort
  <2> QED BY <1>3, <2>1, <2>2, <2>3, <2>4, <2>5
<1>5. \A d, b : Total(d, b)' = Total(d, b)
  BY <1>2, <1>4, PartsKept DEF Total
<1> QED BY <1>1, <1>2, <1>5, AllKept

(* A frame leaves the burst. *)
LEMMA NextFrameAt ==
  ASSUME TypeOK, PlacesOK, NEW t, Next1(t), rx' = rx, in' = in, NEW d, NEW b
  PROVE  /\ FrameAt(Head(burst), d, 0, b) \in Nat
         /\ AtPort(d, b)' = AtPort(d, b) - FrameAt(Head(burst), d, 0, b)
<1>1. burst \in Seq(Frames) /\ burst # <<>> /\ burst' = Tail(burst) /\ burst' \in Seq(Frames)
  BY NextFrame
<1>2. FramesAt(burst, d, 0, b) = FrameAt(Head(burst), d, 0, b) + FramesAt(burst', d, 0, b)
  BY <1>1, FramesTail
<1>3. FramesAt(burst', d, 0, b) \in Nat
  BY <1>1, FramesNat
<1>4. FrameAt(Head(burst), d, 0, b) \in Nat
  BY DEF FrameAt, OneAt
<1>5. FramesAt(rx, d, 0, b) \in Nat /\ FramesAt(in, d, 0, b) \in Nat
  BY FramesNat, TypeParts DEF PortType, RingType
<1>6. AtPort(d, b) = FramesAt(rx, d, 0, b) + FramesAt(in, d, 0, b) + FramesAt(burst, d, 0, b)
  BY DEF AtPort
<1>7. AtPort(d, b)' = FramesAt(rx, d, 0, b) + FramesAt(in, d, 0, b) + FramesAt(burst', d, 0, b)
  BY DEF AtPort
<1> QED BY <1>2, <1>3, <1>4, <1>5, <1>6, <1>7

(* Requests, answers of ARP and skipped frames leave the burst. *)
LEMMA OnceAnswer ==
  ASSUME TypeOK, PlacesOK, Once, ArpRequest \/ IcmpRequest \/ ArpReply \/ Skip
  PROVE  Once'
<1>1. TypeOK'
  BY PlacesAnswer
<1>2. PICK t \in {"arpreq", "icmp", "arpreply", "other"} : Next1(t)
  BY DEF ArpRequest, IcmpRequest, ArpReply, Skip
<1>3. Head(burst).t # "udp" /\ Head(burst).p \in Pieces
  <2>1. Head(burst).t = t /\ Head(burst).p \in Pieces
    BY <1>2, NextFrame
  <2> QED BY <2>1
<1>4. /\ rx' = rx /\ in' = in /\ rcvbuf' = rcvbuf /\ ol' = ol /\ text' = text /\ sndbuf' = sndbuf
      /\ held' = held /\ got' = got /\ dgram' = dgram /\ lost' = lost
  BY DEF ArpRequest, IcmpRequest, ArpReply, Skip, Answer, port, server, sent
<1>5. \A d, b : AtPort(d, b)' = AtPort(d, b)
  <2> SUFFICES ASSUME NEW d, NEW b PROVE AtPort(d, b)' = AtPort(d, b)
    OBVIOUS
  <2>1. AtPort(d, b)' = AtPort(d, b) - FrameAt(Head(burst), d, 0, b)
    BY <1>2, <1>4, NextFrameAt
  <2>2. FrameAt(Head(burst), d, 0, b) = 0
    BY <1>3, NotUdp
  <2>3. AtPort(d, b) \in Nat
    BY PartsAreNat
  <2> QED BY <2>1, <2>2, <2>3
<1>6. out' = out \/ \E f \in Frames : f.t # "udp" /\ out' = Put(out, RingSize, f)
  <2>1. ArpAnswer(Head(burst).p) \in Frames /\ ArpAnswer(Head(burst).p).t = "arpanswer"
    BY <1>3, Fields DEF ArpAnswer, Kind
  <2>2. IcmpAnswer(Head(burst).p) \in Frames /\ IcmpAnswer(Head(burst).p).t = "icmpanswer"
    BY <1>3, Fields DEF IcmpAnswer, Kind
  <2>3. CASE ArpRequest
    BY <2>1, <2>3 DEF ArpRequest, Answer
  <2>4. CASE IcmpRequest
    BY <2>2, <2>4 DEF IcmpRequest, Answer
  <2>5. CASE ArpReply \/ Skip
    BY <2>5 DEF ArpReply, Skip
  <2> QED BY <2>3, <2>4, <2>5
<1>7. ASSUME NEW d, NEW lo, NEW hi PROVE FramesAt(out', d, lo, hi) = FramesAt(out, d, lo, hi)
  <2>1. CASE out' = out
    BY <2>1
  <2>2. CASE \E f \in Frames : f.t # "udp" /\ out' = Put(out, RingSize, f)
    <3>1. PICK f \in Frames : f.t # "udp" /\ out' = Put(out, RingSize, f)
      BY <2>2
    <3>2. out \in Seq(Frames) /\ FramesAt(out, d, lo, hi) \in Nat
      BY TypeParts, FramesNat DEF RingType
    <3>3. FrameAt(f, d, lo, hi) = 0
      BY <3>1, NotUdp
    <3>4. CASE Fits(out, RingSize)
      <4>1. FramesAt(out', d, lo, hi) = FramesAt(out, d, lo, hi) + FrameAt(f, d, lo, hi)
        BY <3>1, <3>2, <3>4, PutAt
      <4> QED BY <3>2, <3>3, <4>1
    <3>5. CASE ~Fits(out, RingSize)
      BY <3>1, <3>5 DEF Put
    <3> QED BY <3>4, <3>5
  <2> QED BY <1>6, <2>1, <2>2
<1>8. \A d, b : AtOut(d, b)' = AtOut(d, b)
  BY <1>4, <1>7 DEF AtOut
<1>9. \A d, b : Total(d, b)' = Total(d, b)
  BY <1>4, <1>5, <1>8, PartsKept DEF Total
<1> QED BY <1>1, <1>4, <1>9, AllKept

(* udp_process gives a datagram up or puts it into the ring. *)
LEMMA OnceUdp ==
  ASSUME TypeOK, PlacesOK, Once, UdpDrop \/ UdpProcess
  PROVE  Once'
<1> DEFINE p == Head(burst).p
           In == UdpProcess /\ Fits(rcvbuf, BufSize)
<1>1. TypeOK' /\ dgram' = dgram /\ SentType
  BY PlacesUdp, TypeParts DEF UdpDrop, UdpProcess, sent
<1>2. /\ rx' = rx /\ in' = in /\ ol' = ol /\ text' = text /\ sndbuf' = sndbuf /\ held' = held
      /\ out' = out /\ got' = got
  BY DEF UdpDrop, UdpProcess, port, server
<1>3. Next1("udp") /\ Head(burst).t = "udp" /\ p \in Pieces
  BY NextFrame DEF UdpDrop, UdpProcess
<1>4. /\ In => rcvbuf' = Append(rcvbuf, p) /\ lost' = lost
      /\ ~In => rcvbuf' = rcvbuf /\ lost' = lost \cup Rest(p)
  BY DEF UdpDrop, UdpProcess, Put
<1>5. rcvbuf \in Seq(Pieces)
  BY TypeParts DEF BufType
<1> HIDE DEF In
<1>6. ASSUME NEW d \in 1 .. Len(dgram), NEW b \in Nat \ {0}
      PROVE  Moved(d, b, IF In THEN 0 ELSE OneAt(p, d, 0, b))
  <2> DEFINE x == IF In THEN 0 ELSE OneAt(p, d, 0, b)
  <2>1. FrameAt(Head(burst), d, 0, b) = OneAt(p, d, 0, b) /\ OneAt(p, d, 0, b) \in {0, 1}
    BY <1>3 DEF FrameAt, OneAt
  <2>2. AtPort(d, b)' = AtPort(d, b) - OneAt(p, d, 0, b)
    BY <1>2, <1>3, <2>1, NextFrameAt
  <2>3. /\ In => AtServer(d, b)' = AtServer(d, b) + OneAt(p, d, 0, b)
        /\ ~In => AtServer(d, b)' = AtServer(d, b)
    <3>1. PiecesAt(Append(rcvbuf, p), d, 0, b) = PiecesAt(rcvbuf, d, 0, b) + OneAt(p, d, 0, b)
      BY <1>3, <1>5, PiecesAppend
    <3>2. PiecesAt(rcvbuf, d, 0, b) \in Nat /\ OneAt(ol, d, 0, b) \in Nat
      BY <1>5, PiecesNat DEF OneAt
    <3>3. AtServer(d, b) = PiecesAt(rcvbuf, d, 0, b) + OneAt(ol, d, 0, b)
      BY DEF AtServer
    <3>4. AtServer(d, b)' = PiecesAt(rcvbuf', d, 0, b) + OneAt(ol, d, 0, b)
      BY <1>2 DEF AtServer
    <3> HIDE DEF p
    <3>5. CASE In
      <4>1. PiecesAt(rcvbuf', d, 0, b) = PiecesAt(rcvbuf, d, 0, b) + OneAt(p, d, 0, b)
        BY <1>4, <3>1, <3>5
      <4>2. OneAt(p, d, 0, b) \in Nat
        BY <2>1
      <4>3. AtServer(d, b)' = AtServer(d, b) + OneAt(p, d, 0, b)
        BY <3>2, <3>3, <3>4, <4>1, <4>2
      <4> QED BY <3>5, <4>3
    <3>6. CASE ~In
      BY <1>4, <3>2, <3>3, <3>4, <3>6
    <3> QED BY <3>5, <3>6
  <2>4. AtSocket(d, b)' = AtSocket(d, b) /\ AtOut(d, b)' = AtOut(d, b)
    BY <1>2, PartsKept
  <2>5. Total(d, b)' = Total(d, b) - x
    <3> HIDE DEF p
    <3>1. /\ AtPort(d, b) \in Nat /\ AtServer(d, b) \in Nat /\ AtSocket(d, b) \in Nat /\ AtOut(d, b) \in Nat
      BY PartsAreNat
    <3>2. CASE In
      BY <2>1, <2>2, <2>3, <2>4, <3>1, <3>2 DEF Total
    <3>3. CASE ~In
      BY <2>1, <2>2, <2>3, <2>4, <3>1, <3>3 DEF Total
    <3> QED BY <3>2, <3>3
  <2>6. b <= dgram[d].n => (<<d, b>> \in Rest(p) <=> OneAt(p, d, 0, b) > 0)
    BY <1>1, <1>3, GivenUp
  <2>7. b <= dgram[d].n => (<<d, b>> \in lost' <=> <<d, b>> \in lost \/ x > 0)
    <3> HIDE DEF p
    <3>1. CASE In
      BY <1>4, <3>1
    <3>2. CASE ~In
      BY <1>4, <2>6, <3>2
    <3> QED BY <3>1, <3>2
  <2> HIDE DEF x
  <2>8. Moved(d, b, x)
    BY <2>5, <2>7 DEF Moved
  <2> QED BY <2>8 DEF x
<1>7. \A d, b : (IF In THEN 0 ELSE OneAt(p, d, 0, b)) \in Nat
  BY DEF OneAt
<1>8. \A d \in 1 .. Len(dgram) : \A b \in Nat \ {0} : \E x \in Nat : Moved(d, b, x)
  BY <1>6, <1>7
<1> QED BY <1>1, <1>8, Account

(* udp_out takes an offload. *)
LEMMA OnceOutTake ==
  ASSUME TypeOK, PlacesOK, Once, UdpOutTake
  PROVE  Once'
<1>1. TypeOK'
  BY PlacesOutTake
<1>2. /\ rx' = rx /\ in' = in /\ burst' = burst /\ rcvbuf' = rcvbuf /\ ol' = ol /\ text' = text
      /\ out' = out /\ got' = got /\ dgram' = dgram /\ lost' = lost
  BY DEF UdpOutTake, port, server, sent
<1>3. sndbuf \in Seq(Pieces) /\ held = None
  BY TypeParts DEF BufType, WorkerType, UdpOutTake
<1>4. ASSUME NEW d \in 1 .. Len(dgram), NEW b \in Nat \ {0} PROVE AtSocket(d, b)' = AtSocket(d, b)
  <2>1. CASE sndbuf = <<>>
    <3>1. sndbuf' = sndbuf /\ held' = held
      BY <2>1 DEF UdpOutTake
    <3> QED BY <1>2, <3>1, PartsKept
  <2>2. CASE sndbuf # <<>>
    <3>1. held' = Head(sndbuf) /\ sndbuf' = Tail(sndbuf)
      BY <2>2 DEF UdpOutTake
    <3>2. PiecesAt(sndbuf, d, b - B, b) = OneAt(held', d, b - B, b) + PiecesAt(sndbuf', d, b - B, b)
      BY <1>3, <2>2, <3>1, PiecesTail
    <3>3. sndbuf' \in Seq(Pieces)
      BY <1>3, <2>2, <3>1
    <3>4. PiecesAt(sndbuf', d, b - B, b) \in Nat /\ OneAt(held', d, b - B, b) \in Nat /\ OneAt(text, d, b - B, b) \in Nat
      BY <3>3, PiecesNat DEF OneAt
    <3>5. OneAt(held, d, b - B, b) = 0
      <4>1. d \in Nat \ {0}
        OBVIOUS
      <4> QED BY <1>3, <4>1, NothingAt
    <3>6. AtSocket(d, b) = OneAt(text, d, b - B, b) + PiecesAt(sndbuf, d, b - B, b) + OneAt(held, d, b - B, b)
      BY DEF AtSocket
    <3>7. AtSocket(d, b)' = OneAt(text, d, b - B, b) + PiecesAt(sndbuf', d, b - B, b) + OneAt(held', d, b - B, b)
      BY <1>2 DEF AtSocket
    <3> QED BY <3>2, <3>4, <3>5, <3>6, <3>7
  <2> QED BY <2>1, <2>2
<1>5. \A d \in 1 .. Len(dgram) : \A b \in Nat \ {0} : Total(d, b)' = Total(d, b)
  BY <1>2, <1>4, PartsKept DEF Total
<1> QED BY <1>1, <1>2, <1>5, AllKept

(* udp_out without a MAC: the request carries no datagram, the offload goes *)
(* back or is given up.                                                     *)
LEMMA OnceOutMiss ==
  ASSUME TypeOK, PlacesOK, Once, UdpOutMiss
  PROVE  Once'
<1> DEFINE In == Fits(sndbuf, BufSize)
           f == ArpFrame(held.who)
<1>1. TypeOK' /\ dgram' = dgram /\ SentType
  BY PlacesOut, TypeParts DEF UdpOutMiss, sent
<1>2. /\ rx' = rx /\ in' = in /\ burst' = burst /\ rcvbuf' = rcvbuf /\ ol' = ol /\ text' = text /\ got' = got
  BY DEF UdpOutMiss, port, server
<1>3. held \in Pieces /\ Echo(held, dgram) /\ held' = None
  BY TypeParts DEF WorkerType, PlacesOK, BackOK, UdpOutMiss
<1>4. f \in Frames /\ f.t # "udp"
  <2>1. held.who \in Client
    BY <1>3, Fields
  <2>2. f \in Frames /\ f.t = "arp"
    BY <2>1, Fields DEF ArpFrame, Kind
  <2> QED BY <2>2
<1>5. sndbuf \in Seq(Pieces) /\ out \in Seq(Frames)
  BY TypeParts DEF BufType, RingType
<1>6. /\ In => sndbuf' = Append(sndbuf, held) /\ lost' = lost
      /\ ~In => sndbuf' = sndbuf /\ lost' = lost \cup Part(held)
      /\ out' = Put(out, RingSize, f)
  BY DEF UdpOutMiss, Put
<1> HIDE DEF In, f
<1>7. ASSUME NEW d \in 1 .. Len(dgram), NEW b \in Nat \ {0}
      PROVE  Moved(d, b, IF In THEN 0 ELSE OneAt(held, d, b - B, b))
  <2> DEFINE h == OneAt(held, d, b - B, b)
             x == IF In THEN 0 ELSE h
  <2>1. h \in Nat
    BY DEF OneAt
  <2>2. (In => AtSocket(d, b)' = AtSocket(d, b)) /\ (~In => AtSocket(d, b)' = AtSocket(d, b) - h)
    <3>1. PiecesAt(Append(sndbuf, held), d, b - B, b) = PiecesAt(sndbuf, d, b - B, b) + h
      BY <1>3, <1>5, PiecesAppend
    <3>2. PiecesAt(sndbuf, d, b - B, b) \in Nat /\ OneAt(text, d, b - B, b) \in Nat
      BY <1>5, PiecesNat DEF OneAt
    <3>3. OneAt(held', d, b - B, b) = 0
      <4>1. d \in Nat \ {0}
        OBVIOUS
      <4> QED BY <1>3, <4>1, NothingAt
    <3>4. AtSocket(d, b) = OneAt(text, d, b - B, b) + PiecesAt(sndbuf, d, b - B, b) + h
      BY DEF AtSocket
    <3>5. AtSocket(d, b)' = OneAt(text, d, b - B, b) + PiecesAt(sndbuf', d, b - B, b) + OneAt(held', d, b - B, b)
      BY <1>2 DEF AtSocket
    <3> HIDE DEF h
    <3>6. CASE In
      <4>1. PiecesAt(sndbuf', d, b - B, b) = PiecesAt(sndbuf, d, b - B, b) + h
        BY <1>6, <3>1, <3>6
      <4>2. AtSocket(d, b)' = AtSocket(d, b)
        BY <2>1, <3>2, <3>3, <3>4, <3>5, <4>1
      <4> QED BY <3>6, <4>2
    <3>7. CASE ~In
      <4>1. sndbuf' = sndbuf
        BY <1>6, <3>7
      <4>2. AtSocket(d, b)' = AtSocket(d, b) - h
        BY <2>1, <3>2, <3>3, <3>4, <3>5, <4>1
      <4> QED BY <3>7, <4>2
    <3> QED BY <3>6, <3>7
  <2>3. FramesAt(out', d, b - B, b) = FramesAt(out, d, b - B, b)
    <3>1. FramesAt(out, d, b - B, b) \in Nat /\ FrameAt(f, d, b - B, b) = 0
      BY <1>4, <1>5, FramesNat, NotUdp
    <3>2. CASE Fits(out, RingSize)
      <4>1. FramesAt(out', d, b - B, b) = FramesAt(out, d, b - B, b) + FrameAt(f, d, b - B, b)
        BY <1>4, <1>5, <1>6, <3>2, PutAt
      <4> QED BY <3>1, <4>1
    <3>3. CASE ~Fits(out, RingSize)
      BY <1>6, <3>3 DEF Put
    <3> QED BY <3>2, <3>3
  <2>4. AtPort(d, b)' = AtPort(d, b) /\ AtServer(d, b)' = AtServer(d, b) /\ AtOut(d, b)' = AtOut(d, b)
    <3>1. AtOut(d, b)' = AtOut(d, b)
      BY <1>2, <2>3 DEF AtOut
    <3> QED BY <1>2, <3>1, PartsKept
  <2>5. b <= dgram[d].n => (<<d, b>> \in Part(held) <=> h > 0)
    BY <1>1, <1>3, GivenUp
  <2> HIDE DEF h
  <2>6. Total(d, b)' = Total(d, b) - x
    <3>1. /\ AtPort(d, b) \in Nat /\ AtServer(d, b) \in Nat /\ AtSocket(d, b) \in Nat /\ AtOut(d, b) \in Nat
      BY PartsAreNat
    <3>2. CASE In
      BY <2>2, <2>4, <3>1, <3>2 DEF Total
    <3>3. CASE ~In
      BY <2>1, <2>2, <2>4, <3>1, <3>3 DEF Total
    <3> QED BY <3>2, <3>3
  <2>7. b <= dgram[d].n => (<<d, b>> \in lost' <=> <<d, b>> \in lost \/ x > 0)
    <3>1. CASE In
      BY <1>6, <3>1
    <3>2. CASE ~In
      BY <1>6, <2>5, <3>2
    <3> QED BY <3>1, <3>2
  <2> HIDE DEF x
  <2>8. Moved(d, b, x)
    BY <2>6, <2>7 DEF Moved
  <2> QED BY <2>8 DEF x, h
<1>8. \A d, b : (IF In THEN 0 ELSE OneAt(held, d, b - B, b)) \in Nat
  BY DEF OneAt
<1>9. \A d \in 1 .. Len(dgram) : \A b \in Nat \ {0} : \E x \in Nat : Moved(d, b, x)
  BY <1>7, <1>8
<1> QED BY <1>1, <1>9, Account

(* udp_out with a MAC: the offload goes to the ring out or is given up. *)
LEMMA OnceOutSend ==
  ASSUME TypeOK, PlacesOK, Once, UdpOutSend
  PROVE  Once'
<1> DEFINE In == Fits(out, RingSize)
           f == UdpFrame(held)
<1>1. TypeOK' /\ dgram' = dgram /\ SentType
  BY PlacesOut, TypeParts DEF UdpOutSend, sent
<1>2. /\ rx' = rx /\ in' = in /\ burst' = burst /\ rcvbuf' = rcvbuf /\ ol' = ol /\ text' = text
      /\ sndbuf' = sndbuf /\ got' = got
  BY DEF UdpOutSend, port, server
<1>3. held \in Pieces /\ Echo(held, dgram) /\ held' = None
  BY TypeParts DEF WorkerType, PlacesOK, BackOK, UdpOutSend
<1>4. f \in Frames
  BY <1>3, Fields DEF UdpFrame, Kind
<1>5. sndbuf \in Seq(Pieces) /\ out \in Seq(Frames)
  BY TypeParts DEF BufType, RingType
<1>6. /\ In => out' = Append(out, f) /\ lost' = lost
      /\ ~In => out' = out /\ lost' = lost \cup Part(held)
  BY DEF UdpOutSend, Put
<1>7. \A d, lo, hi : FrameAt(f, d, lo, hi) = OneAt(held, d, lo, hi)
  BY <1>3, NotUdp
<1> HIDE DEF In, f
<1>8. ASSUME NEW d \in 1 .. Len(dgram), NEW b \in Nat \ {0}
      PROVE  Moved(d, b, IF In THEN 0 ELSE OneAt(held, d, b - B, b))
  <2> DEFINE h == OneAt(held, d, b - B, b)
             x == IF In THEN 0 ELSE h
  <2>1. h \in Nat
    BY DEF OneAt
  <2>2. AtSocket(d, b)' = AtSocket(d, b) - h
    <3>1. PiecesAt(sndbuf, d, b - B, b) \in Nat /\ OneAt(text, d, b - B, b) \in Nat
      BY <1>5, PiecesNat DEF OneAt
    <3>2. OneAt(held', d, b - B, b) = 0
      <4>1. d \in Nat \ {0}
        OBVIOUS
      <4> QED BY <1>3, <4>1, NothingAt
    <3>3. AtSocket(d, b) = OneAt(text, d, b - B, b) + PiecesAt(sndbuf, d, b - B, b) + h
      BY DEF AtSocket
    <3>4. AtSocket(d, b)' = OneAt(text, d, b - B, b) + PiecesAt(sndbuf, d, b - B, b) + OneAt(held', d, b - B, b)
      BY <1>2 DEF AtSocket
    <3> HIDE DEF h
    <3> QED BY <2>1, <3>1, <3>2, <3>3, <3>4
  <2>3. (In => AtOut(d, b)' = AtOut(d, b) + h) /\ (~In => AtOut(d, b)' = AtOut(d, b))
    <3>1. FramesAt(Append(out, f), d, b - B, b) = FramesAt(out, d, b - B, b) + h
      BY <1>4, <1>5, <1>7, FramesAppend
    <3>2. FramesAt(out, d, b - B, b) \in Nat /\ RepliesAt(got, d, b - B, b) \in Nat
      <4>1. CountsNat(d, b)
        BY CountsAreNat DEF TotalNat
      <4> QED BY <4>1 DEF CountsNat
    <3>3. AtOut(d, b) = FramesAt(out, d, b - B, b) + RepliesAt(got, d, b - B, b)
      BY DEF AtOut
    <3>4. AtOut(d, b)' = FramesAt(out', d, b - B, b) + RepliesAt(got, d, b - B, b)
      BY <1>2 DEF AtOut
    <3> HIDE DEF h
    <3>5. CASE In
      <4>1. FramesAt(out', d, b - B, b) = FramesAt(out, d, b - B, b) + h
        BY <1>6, <3>1, <3>5
      <4>2. AtOut(d, b)' = AtOut(d, b) + h
        BY <2>1, <3>2, <3>3, <3>4, <4>1
      <4> QED BY <3>5, <4>2
    <3>6. CASE ~In
      BY <1>6, <3>3, <3>4, <3>6
    <3> QED BY <3>5, <3>6
  <2>4. AtPort(d, b)' = AtPort(d, b) /\ AtServer(d, b)' = AtServer(d, b)
    BY <1>2, PartsKept
  <2>5. b <= dgram[d].n => (<<d, b>> \in Part(held) <=> h > 0)
    BY <1>1, <1>3, GivenUp
  <2> HIDE DEF h
  <2>6. Total(d, b)' = Total(d, b) - x
    <3>1. /\ AtPort(d, b) \in Nat /\ AtServer(d, b) \in Nat /\ AtSocket(d, b) \in Nat /\ AtOut(d, b) \in Nat
      BY PartsAreNat
    <3>2. CASE In
      BY <2>1, <2>2, <2>3, <2>4, <3>1, <3>2 DEF Total
    <3>3. CASE ~In
      BY <2>1, <2>2, <2>3, <2>4, <3>1, <3>3 DEF Total
    <3> QED BY <3>2, <3>3
  <2>7. b <= dgram[d].n => (<<d, b>> \in lost' <=> <<d, b>> \in lost \/ x > 0)
    <3>1. CASE In
      BY <1>6, <3>1
    <3>2. CASE ~In
      BY <1>6, <2>5, <3>2
    <3> QED BY <3>1, <3>2
  <2> HIDE DEF x
  <2>8. Moved(d, b, x)
    BY <2>6, <2>7 DEF Moved
  <2> QED BY <2>8 DEF x, h
<1>9. \A d, b : (IF In THEN 0 ELSE OneAt(held, d, b - B, b)) \in Nat
  BY DEF OneAt
<1>10. \A d \in 1 .. Len(dgram) : \A b \in Nat \ {0} : \E x \in Nat : Moved(d, b, x)
  BY <1>8, <1>9
<1> QED BY <1>1, <1>10, Account

(* nrecvfrom takes an offload. *)
LEMMA OnceRecvTake ==
  ASSUME TypeOK, PlacesOK, Once, RecvTake
  PROVE  Once'
<1>1. TypeOK'
  BY PlacesRecvTake
<1>2. /\ rx' = rx /\ in' = in /\ burst' = burst /\ text' = text /\ sndbuf' = sndbuf /\ held' = held
      /\ out' = out /\ got' = got /\ dgram' = dgram /\ lost' = lost
  BY DEF RecvTake, port, worker, sent
<1>3. rcvbuf \in Seq(Pieces) /\ ol = None /\ rcvbuf # <<>> /\ ol' = Head(rcvbuf) /\ rcvbuf' = Tail(rcvbuf)
  BY TypeParts DEF BufType, ServerType, RecvTake
<1>4. ASSUME NEW d \in 1 .. Len(dgram), NEW b \in Nat \ {0} PROVE AtServer(d, b)' = AtServer(d, b)
  <2>1. PiecesAt(rcvbuf, d, 0, b) = OneAt(ol', d, 0, b) + PiecesAt(rcvbuf', d, 0, b)
    BY <1>3, PiecesTail
  <2>2. rcvbuf' \in Seq(Pieces)
    BY <1>3
  <2>3. PiecesAt(rcvbuf', d, 0, b) \in Nat /\ OneAt(ol', d, 0, b) \in Nat
    BY <2>2, PiecesNat DEF OneAt
  <2>4. OneAt(ol, d, 0, b) = 0
    <3>1. d \in Nat \ {0}
      OBVIOUS
    <3> QED BY <1>3, <3>1, NothingAt
  <2>5. AtServer(d, b) = PiecesAt(rcvbuf, d, 0, b) + OneAt(ol, d, 0, b)
    BY DEF AtServer
  <2>6. AtServer(d, b)' = PiecesAt(rcvbuf', d, 0, b) + OneAt(ol', d, 0, b)
    BY DEF AtServer
  <2> QED BY <2>1, <2>3, <2>4, <2>5, <2>6
<1>5. \A d \in 1 .. Len(dgram) : \A b \in Nat \ {0} : Total(d, b)' = Total(d, b)
  BY <1>2, <1>4, PartsKept DEF Total
<1> QED BY <1>1, <1>2, <1>5, AllKept

(* nsendto gives the piece up. *)
LEMMA OnceSendNothing ==
  ASSUME TypeOK, PlacesOK, Once, SendNothing
  PROVE  Once'
<1>1. TypeOK' /\ dgram' = dgram /\ SentType
  BY PlacesSendTo, TypeParts DEF SendNothing, sent
<1>2. /\ rx' = rx /\ in' = in /\ burst' = burst /\ rcvbuf' = rcvbuf /\ ol' = ol /\ held' = held
      /\ sndbuf' = sndbuf /\ out' = out /\ got' = got
  BY DEF SendNothing, port, worker
<1>3. text \in Pieces /\ Echo(text, dgram) /\ text' = None /\ lost' = lost \cup Part(text)
  BY TypeParts DEF ServerType, PlacesOK, ServerOK, SendNothing
<1>4. sndbuf \in Seq(Pieces)
  BY TypeParts DEF BufType
<1>5. ASSUME NEW d \in 1 .. Len(dgram), NEW b \in Nat \ {0} PROVE Moved(d, b, OneAt(text, d, b - B, b))
  <2> DEFINE x == OneAt(text, d, b - B, b)
  <2>1. x \in Nat
    BY DEF OneAt
  <2>2. AtSocket(d, b)' = AtSocket(d, b) - x
    <3>1. PiecesAt(sndbuf, d, b - B, b) \in Nat /\ OneAt(held, d, b - B, b) \in Nat
      BY <1>4, PiecesNat DEF OneAt
    <3>2. OneAt(text', d, b - B, b) = 0
      <4>1. d \in Nat \ {0}
        OBVIOUS
      <4> QED BY <1>3, <4>1, NothingAt
    <3>3. AtSocket(d, b) = x + PiecesAt(sndbuf, d, b - B, b) + OneAt(held, d, b - B, b)
      BY DEF AtSocket
    <3>4. AtSocket(d, b)' = OneAt(text', d, b - B, b) + PiecesAt(sndbuf, d, b - B, b) + OneAt(held, d, b - B, b)
      BY <1>2 DEF AtSocket
    <3> HIDE DEF x
    <3> QED BY <2>1, <3>1, <3>2, <3>3, <3>4
  <2>3. AtPort(d, b)' = AtPort(d, b) /\ AtServer(d, b)' = AtServer(d, b) /\ AtOut(d, b)' = AtOut(d, b)
    BY <1>2, PartsKept
  <2>4. b <= dgram[d].n => (<<d, b>> \in Part(text) <=> x > 0)
    BY <1>1, <1>3, GivenUp
  <2> HIDE DEF x
  <2>5. Total(d, b)' = Total(d, b) - x
    <3>1. /\ AtPort(d, b) \in Nat /\ AtServer(d, b) \in Nat /\ AtSocket(d, b) \in Nat /\ AtOut(d, b) \in Nat
      BY PartsAreNat
    <3> QED BY <2>1, <2>2, <2>3, <3>1 DEF Total
  <2>6. Moved(d, b, x)
    BY <1>3, <2>4, <2>5 DEF Moved
  <2> QED BY <2>6 DEF x
<1>6. \A d, b : OneAt(text, d, b - B, b) \in Nat
  BY DEF OneAt
<1>7. \A d \in 1 .. Len(dgram) : \A b \in Nat \ {0} : \E x \in Nat : Moved(d, b, x)
  BY <1>5, <1>6
<1> QED BY <1>1, <1>7, Account

(* nsendto queues the piece. *)
LEMMA OnceSendTo ==
  ASSUME TypeOK, PlacesOK, Once, SendTo
  PROVE  Once'
<1>1. TypeOK'
  BY PlacesSendTo
<1>2. /\ rx' = rx /\ in' = in /\ burst' = burst /\ rcvbuf' = rcvbuf /\ ol' = ol /\ held' = held
      /\ out' = out /\ got' = got /\ dgram' = dgram /\ lost' = lost
  BY DEF SendTo, port, worker, sent
<1>3. text \in Pieces /\ text' = None /\ sndbuf \in Seq(Pieces) /\ sndbuf' = Append(sndbuf, text)
  BY TypeParts DEF ServerType, BufType, SendTo, PutBack
<1>4. ASSUME NEW d \in 1 .. Len(dgram), NEW b \in Nat \ {0} PROVE AtSocket(d, b)' = AtSocket(d, b)
  <2>1. PiecesAt(sndbuf', d, b - B, b) = PiecesAt(sndbuf, d, b - B, b) + OneAt(text, d, b - B, b)
    BY <1>3, PiecesAppend
  <2>2. PiecesAt(sndbuf, d, b - B, b) \in Nat /\ OneAt(text, d, b - B, b) \in Nat /\ OneAt(held, d, b - B, b) \in Nat
    BY <1>3, PiecesNat DEF OneAt
  <2>3. OneAt(text', d, b - B, b) = 0
    <3>1. d \in Nat \ {0}
      OBVIOUS
    <3> QED BY <1>3, <3>1, NothingAt
  <2>4. AtSocket(d, b) = OneAt(text, d, b - B, b) + PiecesAt(sndbuf, d, b - B, b) + OneAt(held, d, b - B, b)
    BY DEF AtSocket
  <2>5. AtSocket(d, b)' = OneAt(text', d, b - B, b) + PiecesAt(sndbuf', d, b - B, b) + OneAt(held, d, b - B, b)
    BY <1>2 DEF AtSocket
  <2> QED BY <2>1, <2>2, <2>3, <2>4, <2>5
<1>5. \A d \in 1 .. Len(dgram) : \A b \in Nat \ {0} : Total(d, b)' = Total(d, b)
  BY <1>2, <1>4, PartsKept DEF Total
<1> QED BY <1>1, <1>2, <1>5, AllKept

(* nrecvfrom copies B bytes and puts the rest back, or gives it up at a     *)
(* full ring.  If the offload fits the buffer, no byte of the payload lies  *)
(* behind what was copied.                                                  *)
LEMMA OnceRecvCopy ==
  ASSUME TypeOK, PlacesOK, Once, RecvCopy
  PROVE  Once'
<1> DEFINE In == B < ol.len /\ Fits(rcvbuf, BufSize)
           Behind(d, b) == IF ol.id = d /\ ol.off + B < b THEN 1 ELSE 0
           q == Forward(ol)
<1>1. TypeOK' /\ dgram' = dgram /\ SentType
  BY PlacesRecvCopy, TypeParts DEF RecvCopy, sent
<1>2. /\ rx' = rx /\ in' = in /\ burst' = burst /\ sndbuf' = sndbuf /\ held' = held
      /\ out' = out /\ got' = got
  BY DEF RecvCopy, port, worker
<1>3. spc = "copy" /\ text = None /\ text' = Copied(ol) /\ ol' = None
  BY TypeParts DEF ServerType, RecvCopy
<1>4. /\ ol \in Pieces /\ Arrived(ol, dgram) /\ Copied(ol) \in Pieces
      /\ Copied(ol).id = ol.id /\ Copied(ol).off = ol.off
      /\ B < ol.len => q \in Pieces /\ q.id = ol.id /\ q.off = ol.off + B
  BY <1>3, CopiedIs
<1>5. ol.id \in Nat /\ ol.off \in Nat /\ ol.len \in Nat /\ B \in Nat /\ B > 0 /\ H \in Nat /\ H > 0
  BY <1>4, Fields, Sizes
<1>6. rcvbuf \in Seq(Pieces) /\ sndbuf \in Seq(Pieces)
  BY TypeParts DEF BufType
<1>7. /\ In => rcvbuf' = Append(rcvbuf, q) /\ lost' = lost
      /\ ~In => rcvbuf' = rcvbuf
      /\ ~In /\ B < ol.len => lost' = lost \cup Rest(q)
      /\ ~(B < ol.len) => lost' = lost
  BY DEF RecvCopy, Put
<1>8. In => B < ol.len
  OBVIOUS
<1> HIDE DEF In, q
<1>9. ASSUME NEW d \in 1 .. Len(dgram), NEW b \in Nat \ {0}
      PROVE  Moved(d, b, IF In THEN 0 ELSE Behind(d, b))
  <2> DEFINE g == Behind(d, b)
             o == OneAt(ol, d, 0, b)
             c == OneAt(text', d, b - B, b)
             x == IF In THEN 0 ELSE g
  <2>1. g \in Nat /\ o \in Nat /\ c \in Nat
    BY DEF OneAt
  <2>2. o = c + g
    <3>1. At(ol, d, 0, b) <=> ol.id = d /\ ol.off < b
      BY <1>5 DEF At
    <3>2. At(text', d, b - B, b) <=> ol.id = d /\ b - B <= ol.off /\ ol.off < b
      BY <1>3, <1>4 DEF At
    <3>3. CASE ol.id = d /\ ol.off < b /\ ol.off + B < b
      BY <1>5, <3>1, <3>2, <3>3 DEF OneAt
    <3>4. CASE ol.id = d /\ ol.off < b /\ ~(ol.off + B < b)
      BY <1>5, <3>1, <3>2, <3>4 DEF OneAt
    <3>5. CASE ~(ol.id = d /\ ol.off < b)
      BY <1>5, <3>1, <3>2, <3>5 DEF OneAt
    <3> QED BY <3>3, <3>4, <3>5
  <2>3. AtSocket(d, b)' = AtSocket(d, b) + c
    <3>1. PiecesAt(sndbuf, d, b - B, b) \in Nat /\ OneAt(held, d, b - B, b) \in Nat
      BY <1>6, PiecesNat DEF OneAt
    <3>2. OneAt(text, d, b - B, b) = 0
      <4>1. d \in Nat \ {0}
        OBVIOUS
      <4> QED BY <1>3, <4>1, NothingAt
    <3>3. AtSocket(d, b) = OneAt(text, d, b - B, b) + PiecesAt(sndbuf, d, b - B, b) + OneAt(held, d, b - B, b)
      BY DEF AtSocket
    <3>4. AtSocket(d, b)' = c + PiecesAt(sndbuf, d, b - B, b) + OneAt(held, d, b - B, b)
      BY <1>2 DEF AtSocket
    <3> HIDE DEF c
    <3> QED BY <2>1, <3>1, <3>2, <3>3, <3>4
  <2>4. B < ol.len => OneAt(q, d, 0, b) = g
    <3>1. ASSUME B < ol.len PROVE At(q, d, 0, b) <=> ol.id = d /\ ol.off + B < b
      BY <1>4, <1>5, <3>1 DEF At
    <3> QED BY <3>1 DEF OneAt
  <2>5. (In => AtServer(d, b)' = AtServer(d, b) - o + g) /\ (~In => AtServer(d, b)' = AtServer(d, b) - o)
    <3>1. PiecesAt(rcvbuf, d, 0, b) \in Nat
      BY <1>6, PiecesNat
    <3>2. OneAt(ol', d, 0, b) = 0
      <4>1. d \in Nat \ {0}
        OBVIOUS
      <4> QED BY <1>3, <4>1, NothingAt
    <3>3. AtServer(d, b) = PiecesAt(rcvbuf, d, 0, b) + o
      BY DEF AtServer
    <3>4. AtServer(d, b)' = PiecesAt(rcvbuf', d, 0, b) + OneAt(ol', d, 0, b)
      BY DEF AtServer
    <3> HIDE DEF o, g
    <3>5. CASE In
      <4>1. PiecesAt(Append(rcvbuf, q), d, 0, b) = PiecesAt(rcvbuf, d, 0, b) + OneAt(q, d, 0, b)
        BY <1>4, <1>6, <1>8, <3>5, PiecesAppend
      <4>2. PiecesAt(rcvbuf', d, 0, b) = PiecesAt(rcvbuf, d, 0, b) + g
        BY <1>7, <1>8, <2>4, <3>5, <4>1
      <4>3. AtServer(d, b)' = AtServer(d, b) - o + g
        BY <2>1, <3>1, <3>2, <3>3, <3>4, <4>2
      <4> QED BY <3>5, <4>3
    <3>6. CASE ~In
      <4>1. rcvbuf' = rcvbuf
        BY <1>7, <3>6
      <4>2. AtServer(d, b)' = AtServer(d, b) - o
        BY <2>1, <3>1, <3>2, <3>3, <3>4, <4>1
      <4> QED BY <3>6, <4>2
    <3> QED BY <3>5, <3>6
  <2>6. AtPort(d, b)' = AtPort(d, b) /\ AtOut(d, b)' = AtOut(d, b)
    BY <1>2, PartsKept
  <2>7. b <= dgram[d].n /\ B < ol.len => (<<d, b>> \in Rest(q) <=> g > 0)
    <3>1. b <= dgram[d].n /\ B < ol.len => (<<d, b>> \in Rest(q) <=> OneAt(q, d, 0, b) > 0)
      BY <1>1, <1>4, GivenUp
    <3> QED BY <2>4, <3>1
  <2>8. b <= dgram[d].n /\ ~(B < ol.len) => g = 0
    <3>1. ol.off + ol.len = dgram[ol.id].n + H /\ ol.id \in 1 .. Len(dgram)
      BY <1>4 DEF Arrived
    <3>2. dgram[ol.id].n \in Nat
      BY <1>1, <3>1, KnownLength
    <3>3. ol.id = d /\ b <= dgram[d].n /\ ~(B < ol.len) => ~(ol.off + B < b)
      BY <1>5, <3>1, <3>2, SMTT(30)
    <3> QED BY <3>3
  <2> HIDE DEF g, o, c
  <2>9. Total(d, b)' = Total(d, b) - x
    <3>1. /\ AtPort(d, b) \in Nat /\ AtServer(d, b) \in Nat /\ AtSocket(d, b) \in Nat /\ AtOut(d, b) \in Nat
      BY PartsAreNat
    <3>2. CASE In
      BY <2>1, <2>2, <2>3, <2>5, <2>6, <3>1, <3>2 DEF Total
    <3>3. CASE ~In
      BY <2>1, <2>2, <2>3, <2>5, <2>6, <3>1, <3>3 DEF Total
    <3> QED BY <3>2, <3>3
  <2>10. b <= dgram[d].n => (<<d, b>> \in lost' <=> <<d, b>> \in lost \/ x > 0)
    <3>1. CASE In
      BY <1>7, <3>1
    <3>2. CASE ~In /\ B < ol.len
      BY <1>7, <2>7, <3>2
    <3>3. CASE ~In /\ ~(B < ol.len)
      BY <1>7, <2>8, <3>3
    <3> QED BY <3>1, <3>2, <3>3
  <2> HIDE DEF x
  <2>11. Moved(d, b, x)
    BY <2>9, <2>10 DEF Moved
  <2> QED BY <2>11 DEF x, g
<1>10. \A d, b : (IF In THEN 0 ELSE Behind(d, b)) \in Nat
  OBVIOUS
<1>11. \A d \in 1 .. Len(dgram) : \A b \in Nat \ {0} : \E x \in Nat : Moved(d, b, x)
  BY <1>9, <1>10
<1> QED BY <1>1, <1>11, Account

(* No place has a datagram that has not been sent. *)
LEMMA NotSent ==
  ASSUME TypeOK, PlacesOK, NEW d \in Nat, d > Len(dgram), NEW b
  PROVE  Total(d, b) = 0
<1>0. dgram \in Seq(Datagrams) /\ Len(dgram) \in Nat /\ d # 0
  BY TypeParts DEF SentType
<1>1. \A p, lo : (Arrived(p, dgram) \/ Echo(p, dgram)) => ~At(p, d, lo, b)
  <2> SUFFICES ASSUME NEW p, Arrived(p, dgram) \/ Echo(p, dgram) PROVE p.id # d
    BY DEF At
  <2>1. p.id \in 1 .. Len(dgram)
    BY DEF Arrived, Echo
  <2> QED BY <1>0, <2>1
<1>2. FramesAt(rx, d, 0, b) = 0 /\ FramesAt(in, d, 0, b) = 0 /\ FramesAt(burst, d, 0, b) = 0
  <2>1. rx \in Seq(Frames) /\ in \in Seq(Frames) /\ burst \in Seq(Frames)
    BY TypeParts DEF PortType, RingType, WorkerType
  <2>2. ASSUME NEW s \in Seq(Frames), ArrivedFrames(s, dgram) PROVE FramesAt(s, d, 0, b) = 0
    <3>1. \A i \in 1 .. Len(s) : ~(s[i].t = "udp" /\ At(s[i].p, d, 0, b))
      BY <1>1, <2>2 DEF ArrivedFrames
    <3> QED BY <3>1, FramesNat
  <2> QED BY <2>1, <2>2 DEF PlacesOK, PortOK
<1>3. PiecesAt(rcvbuf, d, 0, b) = 0
  <2>1. rcvbuf \in Seq(Pieces) /\ ArrivedPieces(rcvbuf, dgram)
    BY TypeParts DEF BufType, PlacesOK, ServerOK
  <2>2. \A i \in 1 .. Len(rcvbuf) : ~At(rcvbuf[i], d, 0, b)
    BY <1>1, <2>1 DEF ArrivedPieces
  <2> QED BY <2>1, <2>2, PiecesNat
<1>4. PiecesAt(sndbuf, d, b - B, b) = 0
  <2>1. sndbuf \in Seq(Pieces) /\ EchoPieces(sndbuf, dgram)
    BY TypeParts DEF BufType, PlacesOK, BackOK
  <2>2. \A i \in 1 .. Len(sndbuf) : ~At(sndbuf[i], d, b - B, b)
    BY <1>1, <2>1 DEF EchoPieces
  <2> QED BY <2>1, <2>2, PiecesNat
<1>5. FramesAt(out, d, b - B, b) = 0
  <2>1. out \in Seq(Frames) /\ EchoFrames(out, dgram)
    BY TypeParts DEF RingType, PlacesOK, BackOK
  <2>2. \A i \in 1 .. Len(out) : ~(out[i].t = "udp" /\ At(out[i].p, d, b - B, b))
    BY <1>1, <2>1 DEF EchoFrames
  <2> QED BY <2>1, <2>2, FramesNat
<1>6. RepliesAt(got, d, b - B, b) = 0
  <2>1. got \in [Client -> Seq(Pieces)] /\ EchoReplies(got, dgram)
    BY TypeParts DEF SentType, PlacesOK, BackOK
  <2>2. \A c \in Client : \A i \in 1 .. Len(got[c]) : ~At(got[c][i], d, b - B, b)
    BY <1>1, <2>1 DEF EchoReplies
  <2> QED BY <2>1, <2>2, RepliesFinite
<1>7. \A lo : OneAt(None, d, lo, b) = 0
  BY <1>0, NothingAt
<1>8. OneAt(ol, d, 0, b) = 0
  <2>1. ol = None \/ Arrived(ol, dgram)
    BY TypeParts DEF ServerType, PlacesOK, ServerOK
  <2> QED BY <1>1, <1>7, <2>1 DEF OneAt
<1>9. OneAt(text, d, b - B, b) = 0
  <2>1. text = None \/ Echo(text, dgram)
    BY TypeParts DEF ServerType, PlacesOK, ServerOK
  <2> QED BY <1>1, <1>7, <2>1 DEF OneAt
<1>10. OneAt(held, d, b - B, b) = 0
  <2>1. held = None \/ Echo(held, dgram)
    BY TypeParts DEF WorkerType, PlacesOK, BackOK
  <2> QED BY <1>1, <1>7, <2>1 DEF OneAt
<1>11. AtPort(d, b) = 0 /\ AtServer(d, b) = 0
  BY <1>2, <1>3, <1>8 DEF AtPort, AtServer
<1>12. AtSocket(d, b) = 0 /\ AtOut(d, b) = 0
  BY <1>4, <1>5, <1>6, <1>9, <1>10 DEF AtSocket, AtOut
<1> QED BY <1>11, <1>12 DEF Total

(* A datagram arrives at the port, and nowhere else. *)
LEMMA OnceSend ==
  ASSUME TypeOK, PlacesOK, Once, NEW c \in Client, NEW n \in Lens, ClientSends(c, n)
  PROVE  Once'
<1> DEFINE L == Len(dgram)
           f == Frame("udp", Piece(c, L + 1, 0, n + H))
<1>1. TypeOK'
  BY PlacesSend
<1>2. /\ in' = in /\ burst' = burst /\ rcvbuf' = rcvbuf /\ ol' = ol /\ text' = text
      /\ sndbuf' = sndbuf /\ held' = held /\ out' = out /\ got' = got /\ lost' = lost
      /\ rx' = Append(rx, f) /\ dgram' = Append(dgram, [from |-> c, n |-> n])
  BY DEF ClientSends, worker, server
<1>3. rx \in Seq(Frames) /\ dgram \in Seq(Datagrams) /\ L \in Nat
  BY TypeParts DEF PortType, SentType
<1>4. f \in Frames /\ f.t = "udp" /\ f.p.id = L + 1 /\ f.p.off = 0
  <2>1. n + H \in Nat /\ L + 1 \in Nat
    BY <1>3, Sizes, SizeAssumption
  <2> HIDE DEF L
  <2> QED BY <2>1 DEF Frame, Piece, Frames, Pieces, Kind
<1>5. Len(dgram') = L + 1 /\ \A d \in 1 .. L : dgram'[d] = dgram[d]
  <2>1. [from |-> c, n |-> n] \in Datagrams
    BY DEF Datagrams
  <2> QED BY <1>2, <1>3, <2>1
<1> HIDE DEF f, L
<1>6. ASSUME NEW d \in Nat, NEW b \in Nat PROVE Total(d, b)' = Total(d, b) + FrameAt(f, d, 0, b) /\ Total(d, b) \in Nat
  <2>1. FramesAt(rx', d, 0, b) = FramesAt(rx, d, 0, b) + FrameAt(f, d, 0, b)
    BY <1>2, <1>3, <1>4, FramesAppend
  <2>2. FramesAt(rx, d, 0, b) \in Nat /\ FramesAt(in, d, 0, b) \in Nat /\ FramesAt(burst, d, 0, b) \in Nat
    <3>1. CountsNat(d, b)
      BY CountsAreNat DEF TotalNat
    <3> QED BY <3>1 DEF CountsNat
  <2>3. FrameAt(f, d, 0, b) \in Nat
    BY DEF FrameAt, OneAt
  <2>4. AtPort(d, b) = FramesAt(rx, d, 0, b) + FramesAt(in, d, 0, b) + FramesAt(burst, d, 0, b)
    BY DEF AtPort
  <2>5. AtPort(d, b)' = FramesAt(rx', d, 0, b) + FramesAt(in, d, 0, b) + FramesAt(burst, d, 0, b)
    BY <1>2 DEF AtPort
  <2>6. AtPort(d, b)' = AtPort(d, b) + FrameAt(f, d, 0, b)
    BY <2>1, <2>2, <2>3, <2>4, <2>5
  <2>7. AtServer(d, b)' = AtServer(d, b) /\ AtSocket(d, b)' = AtSocket(d, b) /\ AtOut(d, b)' = AtOut(d, b)
    BY <1>2, PartsKept
  <2>8. /\ AtPort(d, b) \in Nat /\ AtServer(d, b) \in Nat /\ AtSocket(d, b) \in Nat /\ AtOut(d, b) \in Nat
    BY PartsAreNat
  <2> QED BY <2>3, <2>6, <2>7, <2>8 DEF Total
<1>7. ASSUME NEW d \in 1 .. L, NEW b \in Nat \ {0} PROVE OnceAt(d, b)'
  <2>1. FrameAt(f, d, 0, b) = 0
    <3>1. f.p.id # d
      BY <1>3, <1>4
    <3> QED BY <3>1 DEF FrameAt, OneAt, At
  <2>2. Total(d, b)' = Total(d, b)
    <3>1. d \in Nat
      BY <1>3
    <3>2. Total(d, b)' = Total(d, b) + FrameAt(f, d, 0, b) /\ Total(d, b) \in Nat
      BY <1>6, <3>1
    <3> QED BY <2>1, <3>2
  <2>3. OnceAt(d, b)
    BY DEF Once, L
  <2>4. dgram'[d] = dgram[d]
    BY <1>5
  <2> QED BY <1>2, <2>2, <2>3, <2>4 DEF OnceAt
<1>8. ASSUME NEW d \in Nat, d = L + 1, NEW b \in Nat \ {0} PROVE OnceAt(d, b)'
  <2>1. FrameAt(f, d, 0, b) = 1
    BY <1>4, <1>8 DEF FrameAt, OneAt, At
  <2>2. d > Len(dgram)
    BY <1>3, <1>8 DEF L
  <2>3. Total(d, b) = 0
    BY <2>2, NotSent
  <2>4. Total(d, b)' = 1
    <3>1. Total(d, b)' = Total(d, b) + FrameAt(f, d, 0, b)
      BY <1>6
    <3> QED BY <2>1, <2>3, <3>1
  <2>5. <<d, b>> \notin lost'
    <3>1. lost \subseteq (1 .. L) \X Nat
      BY TypeParts DEF LostType, L
    <3>2. d \notin 1 .. L
      BY <1>3, <1>8
    <3> QED BY <1>2, <3>1, <3>2
  <2> QED BY <2>4, <2>5 DEF OnceAt
<1>9. ASSUME NEW d \in 1 .. Len(dgram'), NEW b \in Nat \ {0} PROVE OnceAt(d, b)'
  <2>1. d \in 1 .. L \/ (d \in Nat /\ d = L + 1)
    BY <1>3, <1>5
  <2> QED BY <1>7, <1>8, <2>1
<1> QED BY <1>9 DEF Once

-----------------------------------------------------------------------------
(* The invariant *)

(* Each byte stays in one place, whatever the step. *)
LEMMA OnceKept ==
  ASSUME EchoInv, [Next]_vars
  PROVE  Once'
<1> USE DEF EchoInv
<1>1. CASE Network
  BY <1>1, OnceSend, OnceOther DEF Network
<1>2. CASE MainStep
  BY <1>2, OnceMainRx, OnceMainTx, OnceMainTimer DEF MainStep
<1>3. CASE WorkerStep
  <2>1. CASE Poll
    BY <2>1, OncePoll DEF Drained, Poll
  <2>2. CASE UdpSignal
    BY <2>2, OncePlain
  <2>3. CASE UdpOutTake \/ UdpOutMiss \/ UdpOutSend
    BY <2>3, OnceOutTake, OnceOutMiss, OnceOutSend
  <2>4. CASE ArpRequest \/ IcmpRequest \/ ArpReply \/ Skip \/ UdpDrop \/ UdpProcess
    BY <2>4, OnceAnswer, OnceUdp
  <2> QED BY <1>3, <2>1, <2>2, <2>3, <2>4 DEF WorkerStep
<1>4. CASE ServerStep
  BY <1>4, OncePlain, OnceRecvTake, OnceRecvCopy, OnceSendNothing, OnceSendTo DEF ServerStep
<1>5. CASE UNCHANGED vars
  <2>1. /\ rx' = rx /\ in' = in /\ burst' = burst /\ rcvbuf' = rcvbuf /\ ol' = ol /\ text' = text
        /\ sndbuf' = sndbuf /\ held' = held /\ out' = out /\ got' = got /\ dgram' = dgram /\ lost' = lost
    BY <1>5 DEF vars, port, worker, server, sent
  <2>2. \A d, b : Total(d, b)' = Total(d, b)
    BY <2>1, PartsKept DEF Total
  <2>3. TypeOK'
    BY PlacesKept
  <2> QED BY <2>1, <2>2, <2>3, AllKept
<1> QED BY <1>1, <1>2, <1>3, <1>4, <1>5 DEF Next

(* The burst is empty while udp_out runs and until the next one is taken. *)
LEMMA DrainedKept ==
  ASSUME EchoInv, [Next]_vars
  PROVE  Drained'
<1> USE DEF EchoInv, Drained
<1>1. CASE Network
  BY <1>1 DEF Network, ClientSends, ClientAnswersArp, ArpLost, ClientCtl, worker
<1>2. CASE MainStep
  BY <1>2 DEF MainStep, MainRx, MainTx, MainTimer, worker
<1>3. CASE Poll \/ UdpSignal
  BY <1>3 DEF Poll, UdpSignal
<1>4. CASE ArpRequest \/ IcmpRequest \/ ArpReply \/ Skip \/ UdpDrop \/ UdpProcess
  BY <1>4 DEF ArpRequest, IcmpRequest, ArpReply, Skip, UdpDrop, UdpProcess, Answer, Next1
<1>5. CASE UdpOutTake
  BY <1>5 DEF UdpOutTake
<1>6. CASE UdpOutMiss \/ UdpOutSend
  BY <1>6 DEF UdpOutMiss, UdpOutSend
<1>7. CASE ServerStep
  BY <1>7 DEF ServerStep, Socket, Bind, RecvWait, RecvTake, RecvCopy, SendNothing, SendTo, worker
<1>8. CASE UNCHANGED vars
  BY <1>8 DEF vars, worker
<1> QED BY <1>1, <1>2, <1>3, <1>4, <1>5, <1>6, <1>7, <1>8 DEF Next, WorkerStep

(* Nothing has been sent at the start. *)
LEMMA EchoInvInit == Init => EchoInv
<1> SUFFICES ASSUME Init PROVE EchoInv
  OBVIOUS
<1> USE DEF Init
<1>1. PortType /\ RingType /\ WorkerType /\ BufType /\ ServerType /\ LostType
  BY Sizes DEF PortType, RingType, WorkerType, BufType, ServerType, LostType
<1>2. SentType
  BY SizeAssumption DEF SentType
<1>3. PlacesOK
  BY DEF PlacesOK, PortOK, ServerOK, BackOK, ArrivedFrames, ArrivedPieces, EchoFrames, EchoPieces, EchoReplies
<1>4. Once /\ Drained
  BY DEF Once, Drained
<1> QED BY <1>1, <1>2, <1>3, <1>4, TypeParts DEF EchoInv

(* Rings, offloads and replies are of their types, what arrived and what    *)
(* goes back are pieces of datagrams that were sent, and udp_process,       *)
(* nrecvfrom, nsendto and udp_out keep each byte in one place.              *)
THEOREM UdpEchoInv == Spec => []EchoInv
<1>1. EchoInv /\ [Next]_vars => EchoInv'
  <2> SUFFICES ASSUME EchoInv, [Next]_vars PROVE EchoInv'
    OBVIOUS
  <2>1. TypeOK' /\ PlacesOK'
    BY PlacesKept DEF EchoInv
  <2> QED BY <2>1, OnceKept, DrainedKept DEF EchoInv
<1> QED BY <1>1, EchoInvInit, PTL DEF Spec

-----------------------------------------------------------------------------
(* Each byte of a payload is in one place *)

\* The places of a sequence of sets that have x.
Having(s, x) == {i \in 1 .. Len(s) : x \in s[i]}
HavingAt(s, x) == Cardinality(Having(s, x))
\* Sets of bytes, each a datagram's number and a position.
Bytes == SUBSET (Nat \X Int)

(* A function on 1 .. n is a sequence. *)
LEMMA FunctionIsSeq ==
  ASSUME NEW T, NEW n \in Nat, NEW f \in [1 .. n -> T]
  PROVE  f \in Seq(T) /\ Len(f) = n
<1>1. f \in Seq(T)
  BY SeqDef
<1>2. Len(f) \in Nat /\ DOMAIN f = 1 .. Len(f)
  BY <1>1, LenProperties
<1>3. 1 .. n = 1 .. Len(f)
  BY <1>2
<1>4. n = Len(f)
  BY <1>2, <1>3
<1> QED BY <1>1, <1>4

(* The places of a concatenation of sequences of sets. *)
LEMMA HavingConcat ==
  ASSUME NEW s \in Seq(Bytes), NEW t \in Seq(Bytes), NEW x
  PROVE  s \o t \in Seq(Bytes) /\ HavingAt(s \o t, x) = HavingAt(s, x) + HavingAt(t, x)
<1> DEFINE m == Len(s)
           n == Len(t)
           u == s \o t
<1>1. m \in Nat /\ n \in Nat /\ Len(u) = m + n /\ u \in Seq(Bytes)
  OBVIOUS
<1>2. /\ \A i \in 1 .. m : i \in 1 .. m + n /\ u[i] = s[i]
      /\ \A i \in 1 .. n : m + i \in 1 .. m + n /\ u[m + i] = t[i]
  OBVIOUS
<1> HIDE DEF m, n, u
<1> DEFINE P == Having(s, x)
           Q == Having(t, x)
           R == Having(u, x)
<1>3. P \in SUBSET (1 .. m) /\ Q \in SUBSET (1 .. n) /\ R \in SUBSET (1 .. m + n)
  BY <1>1 DEF Having, m, n
<1>4. \A i \in 1 .. m : i \in R <=> i \in P
  BY <1>1, <1>2 DEF Having, m
<1>5. \A i \in 1 .. n : m + i \in R <=> i \in Q
  BY <1>1, <1>2 DEF Having, n
<1>6. Cardinality(R) = Cardinality(P) + Cardinality(Q)
  <2> HIDE DEF P, Q, R
  <2>1. Joined(P, Q, R, m, n)
    BY <1>3, <1>4, <1>5 DEF Joined
  <2> QED BY <1>1, <2>1, Glue
<1> QED BY <1>1, <1>6 DEF HavingAt, u

(* One set, or none. *)
LEMMA HavingOne ==
  ASSUME NEW S, NEW x
  PROVE  HavingAt(<<S>>, x) = (IF x \in S THEN 1 ELSE 0) /\ HavingAt(<<>>, x) = 0
<1>1. CASE x \in S
  <2>1. Having(<<S>>, x) = {1}
    BY <1>1 DEF Having
  <2> QED BY <1>1, <2>1, FS_Singleton, FS_EmptySet DEF HavingAt, Having
<1>2. CASE x \notin S
  <2>1. Having(<<S>>, x) = {}
    BY <1>2 DEF Having
  <2> QED BY <1>2, <2>1, FS_EmptySet DEF HavingAt, Having
<1> QED BY <1>1, <1>2

(* The bytes of the pieces are sets of bytes. *)
LEMMA PieceBytes ==
  ASSUME NEW p \in Pieces
  PROVE  Rest(p) \in Bytes /\ Part(p) \in Bytes
<1>1. p.id \in Nat
  BY Fields
<1> QED BY <1>1 DEF Rest, Part, Bytes

(* Who has a byte of a payload: the counts of the invariant. *)
LEMMA InsideIs ==
  ASSUME TypeOK, NEW d \in 1 .. Len(dgram), NEW b \in Nat \ {0}, b <= dgram[d].n
  PROVE  /\ \A s \in Seq(Frames) :
              /\ OfFrames(s, Rest) \in Seq(Bytes) /\ OfFrames(s, Part) \in Seq(Bytes)
              /\ HavingAt(OfFrames(s, Rest), <<d, b>>) = FramesAt(s, d, 0, b)
              /\ EchoFrames(s, dgram) => HavingAt(OfFrames(s, Part), <<d, b>>) = FramesAt(s, d, b - B, b)
         /\ \A s \in Seq(Pieces) :
              /\ OfPieces(s, Rest) \in Seq(Bytes) /\ OfPieces(s, Part) \in Seq(Bytes)
              /\ HavingAt(OfPieces(s, Rest), <<d, b>>) = PiecesAt(s, d, 0, b)
              /\ EchoPieces(s, dgram) => HavingAt(OfPieces(s, Part), <<d, b>>) = PiecesAt(s, d, b - B, b)
<1> DEFINE x == <<d, b>>
<1>1. /\ \A p \in Pieces : x \in Rest(p) <=> At(p, d, 0, b)
      /\ \A p \in Pieces : Echo(p, dgram) => (x \in Part(p) <=> At(p, d, b - B, b))
  <2>1. SentType
    BY TypeParts
  <2>2. \A p, lo : OneAt(p, d, lo, b) > 0 <=> At(p, d, lo, b)
    BY DEF OneAt
  <2>3. /\ \A p \in Pieces : x \in Rest(p) <=> OneAt(p, d, 0, b) > 0
        /\ \A p \in Pieces : Echo(p, dgram) => (x \in Part(p) <=> OneAt(p, d, b - B, b) > 0)
    BY <2>1, GivenUp
  <2> HIDE DEF x
  <2> QED BY <2>2, <2>3
<1> HIDE DEF x
<1>2. ASSUME NEW s \in Seq(Frames)
      PROVE  /\ OfFrames(s, Rest) \in Seq(Bytes) /\ OfFrames(s, Part) \in Seq(Bytes)
             /\ HavingAt(OfFrames(s, Rest), x) = FramesAt(s, d, 0, b)
             /\ EchoFrames(s, dgram) => HavingAt(OfFrames(s, Part), x) = FramesAt(s, d, b - B, b)
  <2> DEFINE R == OfFrames(s, Rest)
             P == OfFrames(s, Part)
  <2>1. \A i \in 1 .. Len(s) : s[i].p \in Pieces
    <3>1. \A i \in 1 .. Len(s) : s[i] \in Frames
      OBVIOUS
    <3> QED BY <3>1, Fields
  <2>2. /\ R = [i \in 1 .. Len(s) |-> IF s[i].t = "udp" THEN Rest(s[i].p) ELSE {}]
        /\ P = [i \in 1 .. Len(s) |-> IF s[i].t = "udp" THEN Part(s[i].p) ELSE {}]
    BY DEF OfFrames
  <2> HIDE DEF R, P
  <2>3. \A i \in 1 .. Len(s) : R[i] \in Bytes /\ P[i] \in Bytes
    <3>1. \A i \in 1 .. Len(s) : Rest(s[i].p) \in Bytes /\ Part(s[i].p) \in Bytes
      BY <2>1, PieceBytes
    <3>2. {} \in Bytes
      BY DEF Bytes
    <3> QED BY <2>2, <3>1, <3>2
  <2>4. R \in Seq(Bytes) /\ P \in Seq(Bytes) /\ Len(R) = Len(s) /\ Len(P) = Len(s)
    <3>1. Len(s) \in Nat
      OBVIOUS
    <3>2. R \in [1 .. Len(s) -> Bytes] /\ P \in [1 .. Len(s) -> Bytes]
      BY <2>2, <2>3
    <3> QED BY <3>1, <3>2, FunctionIsSeq
  <2>5. Having(R, x) = HitsF(s, d, 0, b)
    <3>1. \A i \in 1 .. Len(s) : x \in R[i] <=> s[i].t = "udp" /\ At(s[i].p, d, 0, b)
      BY <1>1, <2>1, <2>2
    <3> QED BY <2>4, <3>1 DEF Having, HitsF
  <2>6. EchoFrames(s, dgram) => Having(P, x) = HitsF(s, d, b - B, b)
    <3> SUFFICES ASSUME EchoFrames(s, dgram) PROVE Having(P, x) = HitsF(s, d, b - B, b)
      OBVIOUS
    <3>1. \A i \in 1 .. Len(s) : s[i].t = "udp" => (x \in Part(s[i].p) <=> At(s[i].p, d, b - B, b))
      BY <1>1, <2>1 DEF EchoFrames
    <3>2. \A i \in 1 .. Len(s) : x \in P[i] <=> s[i].t = "udp" /\ At(s[i].p, d, b - B, b)
      BY <2>2, <3>1
    <3> QED BY <2>4, <3>2 DEF Having, HitsF
  <2>7. HavingAt(R, x) = FramesAt(s, d, 0, b)
    BY <2>5 DEF HavingAt, FramesAt
  <2>8. EchoFrames(s, dgram) => HavingAt(P, x) = FramesAt(s, d, b - B, b)
    BY <2>6 DEF HavingAt, FramesAt
  <2> QED BY <2>4, <2>7, <2>8 DEF R, P
<1>3. ASSUME NEW s \in Seq(Pieces)
      PROVE  /\ OfPieces(s, Rest) \in Seq(Bytes) /\ OfPieces(s, Part) \in Seq(Bytes)
             /\ HavingAt(OfPieces(s, Rest), x) = PiecesAt(s, d, 0, b)
             /\ EchoPieces(s, dgram) => HavingAt(OfPieces(s, Part), x) = PiecesAt(s, d, b - B, b)
  <2> DEFINE R == OfPieces(s, Rest)
             P == OfPieces(s, Part)
  <2>1. \A i \in 1 .. Len(s) : s[i] \in Pieces
    OBVIOUS
  <2>2. /\ R = [i \in 1 .. Len(s) |-> Rest(s[i])]
        /\ P = [i \in 1 .. Len(s) |-> Part(s[i])]
    BY DEF OfPieces
  <2> HIDE DEF R, P
  <2>3. \A i \in 1 .. Len(s) : R[i] \in Bytes /\ P[i] \in Bytes
    <3>1. \A i \in 1 .. Len(s) : Rest(s[i]) \in Bytes /\ Part(s[i]) \in Bytes
      BY <2>1, PieceBytes
    <3> QED BY <2>2, <3>1
  <2>4. R \in Seq(Bytes) /\ P \in Seq(Bytes) /\ Len(R) = Len(s) /\ Len(P) = Len(s)
    <3>1. Len(s) \in Nat
      OBVIOUS
    <3>2. R \in [1 .. Len(s) -> Bytes] /\ P \in [1 .. Len(s) -> Bytes]
      BY <2>2, <2>3
    <3> QED BY <3>1, <3>2, FunctionIsSeq
  <2>5. Having(R, x) = HitsP(s, d, 0, b)
    <3>1. \A i \in 1 .. Len(s) : x \in R[i] <=> At(s[i], d, 0, b)
      BY <1>1, <2>1, <2>2
    <3> QED BY <2>4, <3>1 DEF Having, HitsP
  <2>6. EchoPieces(s, dgram) => Having(P, x) = HitsP(s, d, b - B, b)
    <3> SUFFICES ASSUME EchoPieces(s, dgram) PROVE Having(P, x) = HitsP(s, d, b - B, b)
      OBVIOUS
    <3>1. \A i \in 1 .. Len(s) : x \in Part(s[i]) <=> At(s[i], d, b - B, b)
      BY <1>1, <2>1 DEF EchoPieces
    <3>2. \A i \in 1 .. Len(s) : x \in P[i] <=> At(s[i], d, b - B, b)
      BY <2>2, <3>1
    <3> QED BY <2>4, <3>2 DEF Having, HitsP
  <2>7. HavingAt(R, x) = PiecesAt(s, d, 0, b)
    BY <2>5 DEF HavingAt, PiecesAt
  <2>8. EchoPieces(s, dgram) => HavingAt(P, x) = PiecesAt(s, d, b - B, b)
    BY <2>6 DEF HavingAt, PiecesAt
  <2> QED BY <2>4, <2>7, <2>8 DEF R, P
<1> QED BY <1>2, <1>3 DEF x

(* The replies that carry a byte. *)
LEMMA RepliesWith ==
  ASSUME TypeOK, PlacesOK, NEW d \in 1 .. Len(dgram), NEW b \in Nat \ {0}, b <= dgram[d].n
  PROVE  Cardinality({r \in Replies : <<d, b>> \in Part(got[r[1]][r[2]])}) = RepliesAt(got, d, b - B, b)
<1>1. got \in [Client -> Seq(Pieces)] /\ EchoReplies(got, dgram) /\ SentType
  BY TypeParts DEF SentType, PlacesOK, BackOK
<1>2. Replies = RepliesOf(got)
  BY DEF Replies, RepliesOf
<1>3. ASSUME NEW r \in RepliesOf(got) PROVE <<d, b>> \in Part(got[r[1]][r[2]]) <=> At(got[r[1]][r[2]], d, b - B, b)
  <2>1. r[1] \in Client /\ r[2] \in 1 .. Len(got[r[1]])
    BY ReplyIs
  <2> DEFINE p == got[r[1]][r[2]]
  <2>2. p \in Pieces /\ Echo(p, dgram)
    <3>1. got[r[1]] \in Seq(Pieces)
      BY <1>1, <2>1
    <3> QED BY <1>1, <2>1, <3>1 DEF EchoReplies
  <2> HIDE DEF p
  <2>3. <<d, b>> \in Part(p) <=> OneAt(p, d, b - B, b) > 0
    BY <1>1, <2>2, GivenUp
  <2>4. <<d, b>> \in Part(p) <=> At(p, d, b - B, b)
    BY <2>3 DEF OneAt
  <2> QED BY <2>4 DEF p
<1>4. {r \in Replies : <<d, b>> \in Part(got[r[1]][r[2]])} = HitsR(got, d, b - B, b)
  BY <1>2, <1>3 DEF HitsR
<1> QED BY <1>4 DEF RepliesAt

(* The copies of a byte are those the invariant counts, and one if it was   *)
(* given up.                                                                *)
LEMMA CopiesAre ==
  ASSUME TypeOK, PlacesOK, NEW d \in 1 .. Len(dgram), NEW b \in Nat \ {0}, b <= dgram[d].n
  PROVE  Copies(Inside, <<d, b>>) = Total(d, b) + IF <<d, b>> \in lost THEN 1 ELSE 0
<1> DEFINE x == <<d, b>>
           c1 == OfFrames(rx, Rest)
           c2 == OfFrames(in, Rest)
           c3 == OfFrames(burst, Rest)
           c4 == OfPieces(rcvbuf, Rest)
           c5 == IF spc = "copy" THEN <<Rest(ol)>> ELSE <<>>
           c6 == IF spc = "send" THEN <<Part(text)>> ELSE <<>>
           c7 == OfPieces(sndbuf, Part)
           c8 == IF wpc = "out" THEN <<Part(held)>> ELSE <<>>
           c9 == OfFrames(out, Part)
           c10 == <<lost>>
           s2 == c1 \o c2
           s3 == s2 \o c3
           s4 == s3 \o c4
           s5 == s4 \o c5
           s6 == s5 \o c6
           s7 == s6 \o c7
           s8 == s7 \o c8
           s9 == s8 \o c9
           s10 == s9 \o c10
<1>1. Inside = s10
  BY DEF Inside
<1>2. /\ rx \in Seq(Frames) /\ in \in Seq(Frames) /\ burst \in Seq(Frames) /\ out \in Seq(Frames)
      /\ rcvbuf \in Seq(Pieces) /\ sndbuf \in Seq(Pieces)
      /\ EchoFrames(out, dgram) /\ EchoPieces(sndbuf, dgram) /\ SentType /\ LostType
  BY TypeParts DEF PortType, RingType, WorkerType, BufType, PlacesOK, BackOK
<1>3. /\ c1 \in Seq(Bytes) /\ c2 \in Seq(Bytes) /\ c3 \in Seq(Bytes) /\ c4 \in Seq(Bytes)
      /\ c7 \in Seq(Bytes) /\ c9 \in Seq(Bytes)
      /\ HavingAt(c1, x) = FramesAt(rx, d, 0, b) /\ HavingAt(c2, x) = FramesAt(in, d, 0, b)
      /\ HavingAt(c3, x) = FramesAt(burst, d, 0, b) /\ HavingAt(c4, x) = PiecesAt(rcvbuf, d, 0, b)
      /\ HavingAt(c7, x) = PiecesAt(sndbuf, d, b - B, b) /\ HavingAt(c9, x) = FramesAt(out, d, b - B, b)
  BY <1>2, InsideIs
<1>4. /\ \A p \in Pieces : x \in Rest(p) <=> OneAt(p, d, 0, b) = 1
      /\ \A p \in Pieces : Echo(p, dgram) => (x \in Part(p) <=> OneAt(p, d, b - B, b) = 1)
  <2>1. /\ \A p \in Pieces : x \in Rest(p) <=> OneAt(p, d, 0, b) > 0
        /\ \A p \in Pieces : Echo(p, dgram) => (x \in Part(p) <=> OneAt(p, d, b - B, b) > 0)
    BY <1>2, GivenUp
  <2>2. \A p, lo : OneAt(p, d, lo, b) > 0 <=> OneAt(p, d, lo, b) = 1
    BY DEF OneAt
  <2> HIDE DEF x
  <2> QED BY <2>1, <2>2
<1>5. \A p, lo : OneAt(p, d, lo, b) \in {0, 1}
  BY DEF OneAt
<1>6. \A lo : OneAt(None, d, lo, b) = 0
  <2>1. d \in Nat \ {0}
    OBVIOUS
  <2> QED BY <2>1, NothingAt
<1>7. <<>> \in Seq(Bytes) /\ \A S \in Bytes : <<S>> \in Seq(Bytes)
  OBVIOUS
<1>8. c5 \in Seq(Bytes) /\ HavingAt(c5, x) = OneAt(ol, d, 0, b)
  <2>1. CASE spc = "copy"
    <3>1. ol \in Pieces
      BY <2>1, TypeParts DEF ServerType
    <3>2. HavingAt(<<Rest(ol)>>, x) = IF x \in Rest(ol) THEN 1 ELSE 0
      BY HavingOne
    <3>3. Rest(ol) \in Bytes
      BY <3>1, PieceBytes
    <3> HIDE DEF x
    <3> QED BY <1>4, <1>5, <1>7, <2>1, <3>1, <3>2, <3>3
  <2>2. CASE spc # "copy"
    <3>1. ol = None
      BY <2>2, TypeParts DEF ServerType
    <3> HIDE DEF x
    <3> QED BY <1>6, <1>7, <2>2, <3>1, HavingOne
  <2> QED BY <2>1, <2>2
<1>9. c6 \in Seq(Bytes) /\ HavingAt(c6, x) = OneAt(text, d, b - B, b)
  <2>1. CASE spc = "send"
    <3>1. text \in Pieces /\ Echo(text, dgram)
      BY <2>1, TypeParts DEF ServerType, PlacesOK, ServerOK
    <3>2. HavingAt(<<Part(text)>>, x) = IF x \in Part(text) THEN 1 ELSE 0
      BY HavingOne
    <3>3. Part(text) \in Bytes
      BY <3>1, PieceBytes
    <3> HIDE DEF x
    <3> QED BY <1>4, <1>5, <1>7, <2>1, <3>1, <3>2, <3>3
  <2>2. CASE spc # "send"
    <3>1. text = None
      BY <2>2, TypeParts DEF ServerType
    <3> HIDE DEF x
    <3> QED BY <1>6, <1>7, <2>2, <3>1, HavingOne
  <2> QED BY <2>1, <2>2
<1>10. c8 \in Seq(Bytes) /\ HavingAt(c8, x) = OneAt(held, d, b - B, b)
  <2>1. CASE wpc = "out"
    <3>1. held \in Pieces /\ Echo(held, dgram)
      BY <2>1, TypeParts DEF WorkerType, PlacesOK, BackOK
    <3>2. HavingAt(<<Part(held)>>, x) = IF x \in Part(held) THEN 1 ELSE 0
      BY HavingOne
    <3>3. Part(held) \in Bytes
      BY <3>1, PieceBytes
    <3> HIDE DEF x
    <3> QED BY <1>4, <1>5, <1>7, <2>1, <3>1, <3>2, <3>3
  <2>2. CASE wpc # "out"
    <3>1. held = None
      BY <2>2, TypeParts DEF WorkerType
    <3> HIDE DEF x
    <3> QED BY <1>6, <1>7, <2>2, <3>1, HavingOne
  <2> QED BY <2>1, <2>2
<1>11. c10 \in Seq(Bytes) /\ HavingAt(c10, x) = IF x \in lost THEN 1 ELSE 0
  <2>1. lost \in Bytes
    BY <1>2 DEF LostType, Bytes
  <2> QED BY <1>7, <2>1, HavingOne
<1> HIDE DEF c1, c2, c3, c4, c5, c6, c7, c8, c9, c10, x
<1>12. s2 \in Seq(Bytes) /\ HavingAt(s2, x) = HavingAt(c1, x) + HavingAt(c2, x)
  BY <1>3, HavingConcat
<1> HIDE DEF s2
<1>13. s3 \in Seq(Bytes) /\ HavingAt(s3, x) = HavingAt(s2, x) + HavingAt(c3, x)
  BY <1>3, <1>12, HavingConcat
<1> HIDE DEF s3
<1>14. s4 \in Seq(Bytes) /\ HavingAt(s4, x) = HavingAt(s3, x) + HavingAt(c4, x)
  BY <1>3, <1>13, HavingConcat
<1> HIDE DEF s4
<1>15. s5 \in Seq(Bytes) /\ HavingAt(s5, x) = HavingAt(s4, x) + HavingAt(c5, x)
  BY <1>8, <1>14, HavingConcat
<1> HIDE DEF s5
<1>16. s6 \in Seq(Bytes) /\ HavingAt(s6, x) = HavingAt(s5, x) + HavingAt(c6, x)
  BY <1>9, <1>15, HavingConcat
<1> HIDE DEF s6
<1>17. s7 \in Seq(Bytes) /\ HavingAt(s7, x) = HavingAt(s6, x) + HavingAt(c7, x)
  BY <1>3, <1>16, HavingConcat
<1> HIDE DEF s7
<1>18. s8 \in Seq(Bytes) /\ HavingAt(s8, x) = HavingAt(s7, x) + HavingAt(c8, x)
  BY <1>10, <1>17, HavingConcat
<1> HIDE DEF s8
<1>19. s9 \in Seq(Bytes) /\ HavingAt(s9, x) = HavingAt(s8, x) + HavingAt(c9, x)
  BY <1>3, <1>18, HavingConcat
<1> HIDE DEF s9
<1>20. HavingAt(s10, x) = HavingAt(s9, x) + HavingAt(c10, x)
  BY <1>11, <1>19, HavingConcat
<1> HIDE DEF s10
<1>21. CountsNat(d, b)
  BY CountsAreNat DEF TotalNat
<1>22. HavingAt(s3, x) = AtPort(d, b) /\ AtPort(d, b) \in Nat
  BY <1>3, <1>12, <1>13, <1>21, PartsAreNat DEF AtPort, CountsNat
<1>23. HavingAt(s5, x) = AtPort(d, b) + AtServer(d, b) /\ AtServer(d, b) \in Nat
  <2>1. HavingAt(s5, x) = AtPort(d, b) + PiecesAt(rcvbuf, d, 0, b) + OneAt(ol, d, 0, b)
    BY <1>3, <1>8, <1>14, <1>15, <1>22
  <2>2. PiecesAt(rcvbuf, d, 0, b) \in Nat /\ OneAt(ol, d, 0, b) \in Nat
    BY <1>21 DEF CountsNat
  <2> QED BY <1>22, <2>1, <2>2, PartsAreNat DEF AtServer
<1> DEFINE k == HavingAt(s5, x)
<1>24. HavingAt(s8, x) = k + AtSocket(d, b) /\ AtSocket(d, b) \in Nat /\ k \in Nat
  <2>1. k \in Nat
    BY <1>22, <1>23
  <2> HIDE DEF k
  <2>2. HavingAt(s8, x) = k + OneAt(text, d, b - B, b) + PiecesAt(sndbuf, d, b - B, b) + OneAt(held, d, b - B, b)
    BY <1>3, <1>9, <1>10, <1>16, <1>17, <1>18 DEF k
  <2>3. /\ OneAt(text, d, b - B, b) \in Nat /\ PiecesAt(sndbuf, d, b - B, b) \in Nat
        /\ OneAt(held, d, b - B, b) \in Nat
    BY <1>21 DEF CountsNat
  <2> QED BY <2>1, <2>2, <2>3, PartsAreNat, SMTT(30) DEF AtSocket
<1> HIDE DEF k
<1>25. HavingAt(s9, x) + RepliesAt(got, d, b - B, b) = k + AtSocket(d, b) + AtOut(d, b) /\ HavingAt(s9, x) \in Nat
  <2>1. FramesAt(out, d, b - B, b) \in Nat /\ RepliesAt(got, d, b - B, b) \in Nat
    BY <1>21 DEF CountsNat
  <2>2. HavingAt(s9, x) = k + AtSocket(d, b) + FramesAt(out, d, b - B, b)
    BY <1>3, <1>19, <1>24
  <2> QED BY <1>24, <2>1, <2>2 DEF AtOut
<1>26. HavingAt(s9, x) + RepliesAt(got, d, b - B, b) = Total(d, b)
  BY <1>22, <1>23, <1>25 DEF Total, k
<1>27. Copies(Inside, x) = HavingAt(s10, x) + RepliesAt(got, d, b - B, b)
  <2>1. Cardinality({r \in Replies : x \in Part(got[r[1]][r[2]])}) = RepliesAt(got, d, b - B, b)
    BY RepliesWith DEF x
  <2>2. HavingAt(s10, x) = Cardinality({i \in 1 .. Len(Inside) : x \in Inside[i]})
    BY <1>1 DEF HavingAt, Having
  <2> QED BY <2>1, <2>2 DEF Copies
<1>28. RepliesAt(got, d, b - B, b) \in Nat
  BY <1>21 DEF CountsNat
<1>29. CASE x \in lost
  <2>1. HavingAt(c10, x) = 1
    BY <1>11, <1>29
  <2>2. Copies(Inside, x) = Total(d, b) + 1
    BY <1>20, <1>25, <1>26, <1>27, <1>28, <2>1
  <2> QED BY <1>29, <2>2 DEF x
<1>30. CASE x \notin lost
  <2>1. HavingAt(c10, x) = 0
    BY <1>11, <1>30
  <2>2. Copies(Inside, x) = Total(d, b) + 0
    BY <1>20, <1>25, <1>26, <1>27, <1>28, <2>1
  <2> QED BY <1>30, <2>2 DEF x
<1> QED BY <1>29, <1>30

(* However a datagram is split by nrecvfrom, put back behind others and     *)
(* dropped at a full ring, each byte of its payload is in one place.        *)
THEOREM UdpEveryByteOnce == Spec => []EveryByteOnce
<1>1. EchoInv => EveryByteOnce
  <2> SUFFICES ASSUME EchoInv, NEW d \in 1 .. Len(dgram), NEW b \in 1 .. dgram[d].n
               PROVE  Copies(Inside, <<d, b>>) = 1
    BY DEF EveryByteOnce
  <2>1. TypeOK /\ PlacesOK /\ Once
    BY DEF EchoInv
  <2>2. dgram[d].n \in Nat
    BY <2>1, TypeParts, KnownLength
  <2>3. b \in Nat \ {0} /\ b <= dgram[d].n
    BY <2>2
  <2>4. Total(d, b) = IF <<d, b>> \in lost THEN 0 ELSE 1
    BY <2>1, <2>3 DEF Once, OnceAt
  <2>5. Copies(Inside, <<d, b>>) = Total(d, b) + IF <<d, b>> \in lost THEN 1 ELSE 0
    BY <2>1, <2>3, CopiesAre
  <2> QED BY <2>4, <2>5
<1> QED BY <1>1, UdpEchoInv, PTL

-----------------------------------------------------------------------------
(* Replies keep their order *)

\* The pieces of a sequence of offloads, and of the UDP frames of a ring.
PiecesIn(s) == {s[i] : i \in 1 .. Len(s)}
UdpIn(s) == {s[i].p : i \in {j \in 1 .. Len(s) : s[j].t = "udp"}}
\* The piece of one frame.
UdpOf(f) == IF f.t = "udp" THEN {f.p} ELSE {}
\* Every piece is related to those behind it, in one place and in two.
InTurn(s, R) == \A i, j \in 1 .. Len(s) : i < j => <<s[i], s[j]>> \in R
FramesInTurn(s, R) ==
  \A i, j \in 1 .. Len(s) : i < j /\ s[i].t = "udp" /\ s[j].t = "udp" => <<s[i].p, s[j].p>> \in R
Before(P, Q, R) == \A p \in P : \A q \in Q : <<p, q>> \in R

\* What waits for nrecvfrom: in rcvbuf a round of pieces that start alike
\* follows the one before, and in each round datagrams keep their order.
Turn == {r \in Pieces \X Pieces : IF r[1].off < r[2].off THEN r[2].id < r[1].id ELSE r[1].id < r[2].id}
\* What has been read before what has not.
Passed == {r \in Pieces \X Pieces : r[1].off >= r[2].off => r[1].id < r[2].id}
\* What goes back to a client none of whose replies has met no MAC.
Ahead(ms) ==
  {r \in Pieces \X Pieces :
     r[1].who = r[2].who /\ r[1].who \notin ms =>
       /\ r[1].id = r[2].id => r[1].off < r[2].off
       /\ r[1].off = r[2].off => r[1].id < r[2].id}

Reading == IF spc = "copy" THEN {ol} ELSE {}
Echoed == IF spc = "send" THEN {text} ELSE {}
Held == IF wpc = "out" THEN {held} ELSE {}
AllReplies(g) == UNION {PiecesIn(g[c]) : c \in Client}
Port == UdpIn(burst) \cup UdpIn(in) \cup UdpIn(rx)
Unread == Reading \cup PiecesIn(rcvbuf)
Read == AllReplies(got) \cup UdpIn(out) \cup Held \cup PiecesIn(sndbuf) \cup Echoed

PortOrder ==
  /\ FramesInTurn(burst, Turn) /\ FramesInTurn(in, Turn) /\ FramesInTurn(rx, Turn)
  /\ Before(UdpIn(burst), UdpIn(in), Turn) /\ Before(UdpIn(burst), UdpIn(rx), Turn)
  /\ Before(UdpIn(in), UdpIn(rx), Turn)
  /\ \A p \in Port : p.off = 0
ServerOrder ==
  /\ InTurn(rcvbuf, Turn)
  /\ Before(Reading, PiecesIn(rcvbuf), Turn)
  /\ Before(Unread, Port, Turn)
  /\ \A p \in Unread : \E m \in Nat : p.off = m * B
BackOrder ==
  /\ \A c \in Client : InTurn(got[c], Ahead(missed))
  /\ FramesInTurn(out, Ahead(missed)) /\ InTurn(sndbuf, Ahead(missed))
  /\ Before(AllReplies(got), UdpIn(out) \cup Held \cup PiecesIn(sndbuf) \cup Echoed, Ahead(missed))
  /\ Before(UdpIn(out), Held \cup PiecesIn(sndbuf) \cup Echoed, Ahead(missed))
  /\ Before(Held, PiecesIn(sndbuf) \cup Echoed, Ahead(missed))
  /\ Before(PiecesIn(sndbuf), Echoed, Ahead(missed))
PassOrder == Before(Read, Unread \cup Port, Passed)
OrderInv == PortOrder /\ ServerOrder /\ BackOrder /\ PassOrder

(* The pieces of a sequence and its order, in the parts of the sequence. *)
LEMMA FramesPlaced ==
  ASSUME NEW T, NEW s \in Seq(T), NEW t \in Seq(T), NEW R
  PROVE  /\ UdpIn(s \o t) = UdpIn(s) \cup UdpIn(t)
         /\ FramesInTurn(s \o t, R) <=> FramesInTurn(s, R) /\ FramesInTurn(t, R) /\ Before(UdpIn(s), UdpIn(t), R)
<1> DEFINE m == Len(s)
           n == Len(t)
           u == s \o t
<1>1. m \in Nat /\ n \in Nat /\ Len(u) = m + n
  OBVIOUS
<1>2. /\ \A i \in 1 .. m : i \in 1 .. m + n /\ u[i] = s[i]
      /\ \A i \in 1 .. n : m + i \in 1 .. m + n /\ u[m + i] = t[i]
      /\ \A i \in 1 .. m + n : i \in 1 .. m \/ (i - m \in 1 .. n /\ u[i] = t[i - m])
  OBVIOUS
<1> HIDE DEF m, n, u
<1>3. /\ \A q : q \in UdpIn(s) <=> \E i \in 1 .. m : s[i].t = "udp" /\ q = s[i].p
      /\ \A q : q \in UdpIn(t) <=> \E i \in 1 .. n : t[i].t = "udp" /\ q = t[i].p
      /\ \A q : q \in UdpIn(u) <=> \E i \in 1 .. m + n : u[i].t = "udp" /\ q = u[i].p
  BY <1>1 DEF UdpIn, m, n
<1>4. UdpIn(u) = UdpIn(s) \cup UdpIn(t)
  <2>1. \A q : q \in UdpIn(u) => q \in UdpIn(s) \/ q \in UdpIn(t)
    BY <1>2, <1>3, SMTT(30)
  <2>2. \A q : q \in UdpIn(s) \/ q \in UdpIn(t) => q \in UdpIn(u)
    BY <1>2, <1>3
  <2> QED BY <2>1, <2>2
<1>5. ASSUME FramesInTurn(u, R) PROVE FramesInTurn(s, R) /\ FramesInTurn(t, R) /\ Before(UdpIn(s), UdpIn(t), R)
  <2>1. \A i, j \in 1 .. m + n : i < j /\ u[i].t = "udp" /\ u[j].t = "udp" => <<u[i].p, u[j].p>> \in R
    BY <1>1, <1>5 DEF FramesInTurn
  <2>2. FramesInTurn(s, R)
    BY <1>2, <2>1 DEF FramesInTurn, m
  <2>3. FramesInTurn(t, R)
    <3> SUFFICES ASSUME NEW i \in 1 .. n, NEW j \in 1 .. n, i < j, t[i].t = "udp", t[j].t = "udp"
                 PROVE  <<t[i].p, t[j].p>> \in R
      BY DEF FramesInTurn, n
    <3>1. m + i \in 1 .. m + n /\ m + j \in 1 .. m + n /\ m + i < m + j /\ u[m + i] = t[i] /\ u[m + j] = t[j]
      BY <1>1, <1>2
    <3> QED BY <2>1, <3>1
  <2>4. Before(UdpIn(s), UdpIn(t), R)
    <3> SUFFICES ASSUME NEW i \in 1 .. m, NEW j \in 1 .. n, s[i].t = "udp", t[j].t = "udp"
                 PROVE  <<s[i].p, t[j].p>> \in R
      BY <1>3 DEF Before
    <3>1. i \in 1 .. m + n /\ m + j \in 1 .. m + n /\ i < m + j /\ u[i] = s[i] /\ u[m + j] = t[j]
      BY <1>1, <1>2
    <3> QED BY <2>1, <3>1
  <2> QED BY <2>2, <2>3, <2>4
<1>6. ASSUME FramesInTurn(s, R), FramesInTurn(t, R), Before(UdpIn(s), UdpIn(t), R) PROVE FramesInTurn(u, R)
  <2> SUFFICES ASSUME NEW i \in 1 .. m + n, NEW j \in 1 .. m + n, i < j, u[i].t = "udp", u[j].t = "udp"
               PROVE  <<u[i].p, u[j].p>> \in R
    BY <1>1 DEF FramesInTurn
  <2>1. CASE i \in 1 .. m /\ j \in 1 .. m
    BY <1>2, <1>6, <2>1 DEF FramesInTurn, m
  <2>2. CASE i \in 1 .. m /\ j \notin 1 .. m
    <3>1. u[i].p \in UdpIn(s) /\ u[j].p \in UdpIn(t)
      BY <1>2, <1>3, <2>2
    <3> QED BY <1>6, <3>1 DEF Before
  <2>3. CASE i \notin 1 .. m
    <3>1. i - m \in 1 .. n /\ j - m \in 1 .. n /\ i - m < j - m /\ u[i] = t[i - m] /\ u[j] = t[j - m]
      BY <1>1, <1>2, <2>3, SMTT(30)
    <3> QED BY <1>6, <3>1 DEF FramesInTurn, n
  <2> QED BY <2>1, <2>2, <2>3
<1> QED BY <1>4, <1>5, <1>6 DEF u

(* The same for a sequence of offloads. *)
LEMMA PiecesPlaced ==
  ASSUME NEW T, NEW s \in Seq(T), NEW t \in Seq(T), NEW R
  PROVE  /\ PiecesIn(s \o t) = PiecesIn(s) \cup PiecesIn(t)
         /\ InTurn(s \o t, R) <=> InTurn(s, R) /\ InTurn(t, R) /\ Before(PiecesIn(s), PiecesIn(t), R)
<1> DEFINE m == Len(s)
           n == Len(t)
           u == s \o t
<1>1. m \in Nat /\ n \in Nat /\ Len(u) = m + n
  OBVIOUS
<1>2. /\ \A i \in 1 .. m : i \in 1 .. m + n /\ u[i] = s[i]
      /\ \A i \in 1 .. n : m + i \in 1 .. m + n /\ u[m + i] = t[i]
      /\ \A i \in 1 .. m + n : i \in 1 .. m \/ (i - m \in 1 .. n /\ u[i] = t[i - m])
  OBVIOUS
<1> HIDE DEF m, n, u
<1>3. /\ \A q : q \in PiecesIn(s) <=> \E i \in 1 .. m : q = s[i]
      /\ \A q : q \in PiecesIn(t) <=> \E i \in 1 .. n : q = t[i]
      /\ \A q : q \in PiecesIn(u) <=> \E i \in 1 .. m + n : q = u[i]
  BY <1>1 DEF PiecesIn, m, n
<1>4. PiecesIn(u) = PiecesIn(s) \cup PiecesIn(t)
  <2>1. \A q : q \in PiecesIn(u) => q \in PiecesIn(s) \/ q \in PiecesIn(t)
    BY <1>2, <1>3
  <2>2. \A q : q \in PiecesIn(s) \/ q \in PiecesIn(t) => q \in PiecesIn(u)
    BY <1>2, <1>3
  <2> QED BY <2>1, <2>2
<1>5. ASSUME InTurn(u, R) PROVE InTurn(s, R) /\ InTurn(t, R) /\ Before(PiecesIn(s), PiecesIn(t), R)
  <2>1. \A i, j \in 1 .. m + n : i < j => <<u[i], u[j]>> \in R
    BY <1>1, <1>5 DEF InTurn
  <2>2. InTurn(s, R)
    BY <1>2, <2>1 DEF InTurn, m
  <2>3. InTurn(t, R)
    <3> SUFFICES ASSUME NEW i \in 1 .. n, NEW j \in 1 .. n, i < j
                 PROVE  <<t[i], t[j]>> \in R
      BY DEF InTurn, n
    <3>1. m + i \in 1 .. m + n /\ m + j \in 1 .. m + n /\ m + i < m + j /\ u[m + i] = t[i] /\ u[m + j] = t[j]
      BY <1>1, <1>2
    <3> QED BY <2>1, <3>1
  <2>4. Before(PiecesIn(s), PiecesIn(t), R)
    <3> SUFFICES ASSUME NEW i \in 1 .. m, NEW j \in 1 .. n
                 PROVE  <<s[i], t[j]>> \in R
      BY <1>3 DEF Before
    <3>1. i \in 1 .. m + n /\ m + j \in 1 .. m + n /\ i < m + j /\ u[i] = s[i] /\ u[m + j] = t[j]
      BY <1>1, <1>2
    <3> QED BY <2>1, <3>1
  <2> QED BY <2>2, <2>3, <2>4
<1>6. ASSUME InTurn(s, R), InTurn(t, R), Before(PiecesIn(s), PiecesIn(t), R) PROVE InTurn(u, R)
  <2> SUFFICES ASSUME NEW i \in 1 .. m + n, NEW j \in 1 .. m + n, i < j
               PROVE  <<u[i], u[j]>> \in R
    BY <1>1 DEF InTurn
  <2>1. CASE i \in 1 .. m /\ j \in 1 .. m
    BY <1>2, <1>6, <2>1 DEF InTurn, m
  <2>2. CASE i \in 1 .. m /\ j \notin 1 .. m
    <3>1. u[i] \in PiecesIn(s) /\ u[j] \in PiecesIn(t)
      BY <1>2, <1>3, <2>2
    <3> QED BY <1>6, <3>1 DEF Before
  <2>3. CASE i \notin 1 .. m
    <3>1. i - m \in 1 .. n /\ j - m \in 1 .. n /\ i - m < j - m /\ u[i] = t[i - m] /\ u[j] = t[j - m]
      BY <1>1, <1>2, <2>3
    <3> QED BY <1>6, <3>1 DEF InTurn, n
  <2> QED BY <2>1, <2>2, <2>3
<1> QED BY <1>4, <1>5, <1>6 DEF u

(* One more frame at the end. *)
LEMMA FrameAppended ==
  ASSUME NEW T, NEW s \in Seq(T), NEW x \in T, NEW R
  PROVE  /\ UdpIn(Append(s, x)) = UdpIn(s) \cup UdpOf(x)
         /\ FramesInTurn(Append(s, x), R) <=> FramesInTurn(s, R) /\ Before(UdpIn(s), UdpOf(x), R)
<1> DEFINE y == <<x>>
<1>1. y \in Seq(T) /\ Append(s, x) = s \o y /\ Len(y) = 1 /\ y[1] = x
  OBVIOUS
<1> HIDE DEF y
<1>2. UdpIn(y) = UdpOf(x)
  BY <1>1 DEF UdpIn, UdpOf
<1>3. FramesInTurn(y, R)
  BY <1>1 DEF FramesInTurn
<1>4. /\ UdpIn(s \o y) = UdpIn(s) \cup UdpIn(y)
      /\ FramesInTurn(s \o y, R) <=> FramesInTurn(s, R) /\ FramesInTurn(y, R) /\ Before(UdpIn(s), UdpIn(y), R)
  BY <1>1, FramesPlaced
<1> QED BY <1>1, <1>2, <1>3, <1>4, Zenon

(* The first frame and the others. *)
LEMMA FrameTaken ==
  ASSUME NEW T, NEW s \in Seq(T), s # <<>>, NEW R
  PROVE  /\ UdpIn(s) = UdpOf(Head(s)) \cup UdpIn(Tail(s))
         /\ FramesInTurn(s, R) <=> FramesInTurn(Tail(s), R) /\ Before(UdpOf(Head(s)), UdpIn(Tail(s)), R)
<1> DEFINE h == Head(s)
           x == <<h>>
           y == Tail(s)
<1>1. x \in Seq(T) /\ y \in Seq(T) /\ s = x \o y /\ Len(x) = 1 /\ x[1] = h
  OBVIOUS
<1> HIDE DEF x, y, h
<1>2. UdpIn(x) = UdpOf(h)
  BY <1>1 DEF UdpIn, UdpOf
<1>3. FramesInTurn(x, R)
  BY <1>1 DEF FramesInTurn
<1>4. /\ UdpIn(x \o y) = UdpIn(x) \cup UdpIn(y)
      /\ FramesInTurn(x \o y, R) <=> FramesInTurn(x, R) /\ FramesInTurn(y, R) /\ Before(UdpIn(x), UdpIn(y), R)
  BY <1>1, FramesPlaced
<1>5. UdpIn(s) = UdpIn(x \o y) /\ (FramesInTurn(s, R) <=> FramesInTurn(x \o y, R))
  BY <1>1, Zenon
<1> QED BY <1>2, <1>3, <1>4, <1>5 DEF h, y

(* One more offload at the end. *)
LEMMA PieceAppended ==
  ASSUME NEW T, NEW s \in Seq(T), NEW x \in T, NEW R
  PROVE  /\ PiecesIn(Append(s, x)) = PiecesIn(s) \cup {x}
         /\ InTurn(Append(s, x), R) <=> InTurn(s, R) /\ Before(PiecesIn(s), {x}, R)
<1> DEFINE y == <<x>>
<1>1. y \in Seq(T) /\ Append(s, x) = s \o y /\ Len(y) = 1 /\ y[1] = x
  OBVIOUS
<1> HIDE DEF y
<1>2. PiecesIn(y) = {x}
  BY <1>1 DEF PiecesIn
<1>3. InTurn(y, R)
  BY <1>1 DEF InTurn
<1>4. /\ PiecesIn(s \o y) = PiecesIn(s) \cup PiecesIn(y)
      /\ InTurn(s \o y, R) <=> InTurn(s, R) /\ InTurn(y, R) /\ Before(PiecesIn(s), PiecesIn(y), R)
  BY <1>1, PiecesPlaced
<1> QED BY <1>1, <1>2, <1>3, <1>4, Zenon

(* The first offload and the others. *)
LEMMA PieceTaken ==
  ASSUME NEW T, NEW s \in Seq(T), s # <<>>, NEW R
  PROVE  /\ PiecesIn(s) = {Head(s)} \cup PiecesIn(Tail(s))
         /\ InTurn(s, R) <=> InTurn(Tail(s), R) /\ Before({Head(s)}, PiecesIn(Tail(s)), R)
<1> DEFINE h == Head(s)
           x == <<h>>
           y == Tail(s)
<1>1. x \in Seq(T) /\ y \in Seq(T) /\ s = x \o y /\ Len(x) = 1 /\ x[1] = h
  OBVIOUS
<1> HIDE DEF x, y, h
<1>2. PiecesIn(x) = {h}
  BY <1>1 DEF PiecesIn
<1>3. InTurn(x, R)
  BY <1>1 DEF InTurn
<1>4. /\ PiecesIn(x \o y) = PiecesIn(x) \cup PiecesIn(y)
      /\ InTurn(x \o y, R) <=> InTurn(x, R) /\ InTurn(y, R) /\ Before(PiecesIn(x), PiecesIn(y), R)
  BY <1>1, PiecesPlaced
<1>5. PiecesIn(s) = PiecesIn(x \o y) /\ (InTurn(s, R) <=> InTurn(x \o y, R))
  BY <1>1, Zenon
<1> QED BY <1>2, <1>3, <1>4, <1>5 DEF h, y

(* A burst sent to the clients: their replies are among its pieces, in its  *)
(* order, behind the replies they have.                                     *)
LEMMA RepliesPlaced ==
  ASSUME NEW s \in Seq(Frames), NEW c, NEW R
  PROVE  /\ PiecesIn(RepliesTo(c, s)) \subseteq UdpIn(s)
         /\ FramesInTurn(s, R) => InTurn(RepliesTo(c, s), R)
<1> DEFINE r == RepliesTo(c, s)
           f == Source(c, s)
           n == Len(r)
           m == Len(s)
<1>1. /\ r \in Seq(Pieces) /\ f \in [1 .. n -> 1 .. m]
      /\ \A j \in 1 .. n : s[f[j]].t = "udp" /\ r[j] = s[f[j]].p
      /\ \A i, j \in 1 .. n : i < j => f[i] < f[j]
  BY RepliesToIs
<1> HIDE DEF r, f, n, m
<1>2. PiecesIn(r) \subseteq UdpIn(s)
  <2> SUFFICES ASSUME NEW j \in 1 .. n PROVE r[j] \in UdpIn(s)
    BY DEF PiecesIn, n
  <2>1. f[j] \in 1 .. m /\ s[f[j]].t = "udp" /\ r[j] = s[f[j]].p
    BY <1>1
  <2> QED BY <2>1 DEF UdpIn, m
<1>3. ASSUME FramesInTurn(s, R) PROVE InTurn(r, R)
  <2> SUFFICES ASSUME NEW i \in 1 .. n, NEW j \in 1 .. n, i < j PROVE <<r[i], r[j]>> \in R
    BY DEF InTurn, n
  <2>1. f[i] \in 1 .. m /\ s[f[i]].t = "udp" /\ r[i] = s[f[i]].p
    BY <1>1
  <2>2. f[j] \in 1 .. m /\ s[f[j]].t = "udp" /\ r[j] = s[f[j]].p /\ f[i] < f[j]
    BY <1>1
  <2> QED BY <1>3, <2>1, <2>2 DEF FramesInTurn, m
<1> QED BY <1>2, <1>3 DEF r

(* The same for all clients. *)
LEMMA RepliesKeepOrder ==
  ASSUME NEW g \in [Client -> Seq(Pieces)], NEW s \in Seq(Frames), NEW R,
         \A c \in Client : InTurn(g[c], R), FramesInTurn(s, R), Before(AllReplies(g), UdpIn(s), R),
         NEW h, h = [c \in Client |-> g[c] \o RepliesTo(c, s)]
  PROVE  /\ AllReplies(h) \subseteq AllReplies(g) \cup UdpIn(s)
         /\ \A c \in Client : InTurn(h[c], R)
<1>1. ASSUME NEW c \in Client
      PROVE  PiecesIn(h[c]) \subseteq AllReplies(g) \cup UdpIn(s) /\ InTurn(h[c], R)
  <2> DEFINE a == g[c]
             r == RepliesTo(c, s)
  <2>1. a \in Seq(Pieces) /\ r \in Seq(Pieces) /\ h[c] = a \o r
    BY RepliesToIs
  <2>2. PiecesIn(r) \subseteq UdpIn(s) /\ InTurn(r, R)
    BY RepliesPlaced
  <2>3. PiecesIn(a) \subseteq AllReplies(g) /\ InTurn(a, R)
    BY DEF AllReplies
  <2> HIDE DEF a, r
  <2>4. /\ PiecesIn(a \o r) = PiecesIn(a) \cup PiecesIn(r)
        /\ InTurn(a \o r, R) <=> InTurn(a, R) /\ InTurn(r, R) /\ Before(PiecesIn(a), PiecesIn(r), R)
    BY <2>1, PiecesPlaced
  <2>5. Before(PiecesIn(a), PiecesIn(r), R)
    BY <2>2, <2>3 DEF Before
  <2> QED BY <2>1, <2>2, <2>3, <2>4, <2>5
<1> QED BY <1>1 DEF AllReplies

(* Pieces on their way in are pieces of datagrams that were sent.           *)
LEMMA WaitingIs ==
  ASSUME TypeOK, PlacesOK
  PROVE  \A p \in Unread \cup Port : p \in Pieces /\ Arrived(p, dgram)
<1>1. /\ rx \in Seq(Frames) /\ in \in Seq(Frames) /\ burst \in Seq(Frames) /\ rcvbuf \in Seq(Pieces)
      /\ spc = "copy" => ol \in Pieces
  BY TypeParts DEF PortType, RingType, WorkerType, BufType, ServerType
<1>2. /\ ArrivedFrames(rx, dgram) /\ ArrivedFrames(in, dgram) /\ ArrivedFrames(burst, dgram)
      /\ ArrivedPieces(rcvbuf, dgram) /\ (spc = "copy" => Arrived(ol, dgram))
  BY DEF PlacesOK, PortOK, ServerOK
<1>3. ASSUME NEW s \in Seq(Frames), ArrivedFrames(s, dgram), NEW p \in UdpIn(s)
      PROVE  p \in Pieces /\ Arrived(p, dgram)
  <2>1. PICK i \in 1 .. Len(s) : s[i].t = "udp" /\ p = s[i].p
    BY <1>3 DEF UdpIn
  <2>2. s[i] \in Frames /\ Arrived(s[i].p, dgram)
    BY <1>3, <2>1 DEF ArrivedFrames
  <2> QED BY <2>1, <2>2, Fields
<1>4. ASSUME NEW p \in PiecesIn(rcvbuf)
      PROVE  p \in Pieces /\ Arrived(p, dgram)
  BY <1>1, <1>2, <1>4 DEF PiecesIn, ArrivedPieces
<1> QED BY <1>1, <1>2, <1>3, <1>4 DEF Unread, Port, Reading

(* Pieces on their way back carry datagrams that were sent.                 *)
LEMMA ReadIs ==
  ASSUME TypeOK, PlacesOK
  PROVE  /\ \A p \in Read : p \in Pieces /\ Echo(p, dgram)
         /\ \A c \in Client : \A i \in 1 .. Len(got[c]) : got[c][i] \in Pieces /\ got[c][i].who = c
<1>1. /\ out \in Seq(Frames) /\ sndbuf \in Seq(Pieces) /\ got \in [Client -> Seq(Pieces)]
      /\ (spc = "send" => text \in Pieces) /\ (wpc = "out" => held \in Pieces)
  BY TypeParts DEF RingType, WorkerType, BufType, ServerType, SentType
<1>2. /\ EchoFrames(out, dgram) /\ EchoPieces(sndbuf, dgram) /\ EchoReplies(got, dgram)
      /\ (spc = "send" => Echo(text, dgram)) /\ (wpc = "out" => Echo(held, dgram))
  BY DEF PlacesOK, ServerOK, BackOK
<1>3. ASSUME NEW p \in UdpIn(out)
      PROVE  p \in Pieces /\ Echo(p, dgram)
  <2>1. PICK i \in 1 .. Len(out) : out[i].t = "udp" /\ p = out[i].p
    BY <1>3 DEF UdpIn
  <2>2. out[i] \in Frames /\ Echo(out[i].p, dgram)
    BY <1>1, <1>2, <2>1 DEF EchoFrames
  <2> QED BY <2>1, <2>2, Fields
<1>4. ASSUME NEW p \in PiecesIn(sndbuf)
      PROVE  p \in Pieces /\ Echo(p, dgram)
  BY <1>1, <1>2, <1>4 DEF PiecesIn, EchoPieces
<1>5. ASSUME NEW c \in Client, NEW i \in 1 .. Len(got[c])
      PROVE  got[c][i] \in Pieces /\ Echo(got[c][i], dgram) /\ got[c][i].who = c
  <2>1. got[c] \in Seq(Pieces)
    BY <1>1
  <2> QED BY <1>2, <2>1 DEF EchoReplies
<1>6. \A p \in AllReplies(got) : p \in Pieces /\ Echo(p, dgram)
  BY <1>5 DEF AllReplies, PiecesIn
<1> QED BY <1>1, <1>2, <1>3, <1>4, <1>5, <1>6 DEF Read, Echoed, Held

(* In the initial state there is no piece.                                  *)
LEMMA OrderInit == Init => OrderInv
<1> SUFFICES ASSUME Init PROVE OrderInv
  OBVIOUS
<1>1. /\ burst = <<>> /\ in = <<>> /\ rx = <<>> /\ rcvbuf = <<>> /\ sndbuf = <<>> /\ out = <<>>
      /\ spc = "socket" /\ wpc = "poll" /\ \A c \in Client : got[c] = <<>>
  BY DEF Init
<1>2. UdpIn(<<>>) = {} /\ PiecesIn(<<>>) = {} /\ \A R : FramesInTurn(<<>>, R) /\ InTurn(<<>>, R)
  BY DEF UdpIn, PiecesIn, FramesInTurn, InTurn
<1>3. Reading = {} /\ Echoed = {} /\ Held = {} /\ Port = {} /\ Unread = {} /\ AllReplies(got) = {}
  BY <1>1, <1>2 DEF Reading, Echoed, Held, Port, Unread, AllReplies
<1>4. PortOrder /\ ServerOrder
  BY <1>1, <1>2, <1>3 DEF PortOrder, ServerOrder, Before
<1>5. BackOrder /\ PassOrder
  BY <1>1, <1>2, <1>3 DEF BackOrder, PassOrder, Before, Read
<1> QED BY <1>4, <1>5 DEF OrderInv

(* What concerns only other variables is kept.                              *)
LEMMA OrderParts ==
  /\ burst' = burst /\ in' = in /\ rx' = rx /\ PortOrder => PortOrder'
  /\ UdpIn(burst') \cup UdpIn(in') \cup UdpIn(rx') \subseteq Port /\ spc' = spc /\ ol' = ol /\ rcvbuf' = rcvbuf /\ ServerOrder => ServerOrder'
  /\ got' = got /\ out' = out /\ wpc' = wpc /\ held' = held /\ sndbuf' = sndbuf /\ spc' = spc /\ text' = text /\ missed' = missed /\ BackOrder => BackOrder'
  /\ Read' \subseteq Read /\ Unread' \cup Port' \subseteq Unread \cup Port /\ PassOrder => PassOrder'
<1>1. burst' = burst /\ in' = in /\ rx' = rx /\ PortOrder => PortOrder'
  BY DEF PortOrder, Port
<1>2. UdpIn(burst') \cup UdpIn(in') \cup UdpIn(rx') \subseteq Port /\ spc' = spc /\ ol' = ol /\ rcvbuf' = rcvbuf /\ ServerOrder => ServerOrder'
  BY DEF ServerOrder, Port, Unread, Reading, Before
<1>3. got' = got /\ out' = out /\ wpc' = wpc /\ held' = held /\ sndbuf' = sndbuf /\ spc' = spc /\ text' = text /\ missed' = missed /\ BackOrder => BackOrder'
  BY DEF BackOrder, Held, Echoed
<1>4. Read' \subseteq Read /\ Unread' \cup Port' \subseteq Unread \cup Port /\ PassOrder => PassOrder'
  BY DEF PassOrder, Before
<1> QED BY <1>1, <1>2, <1>3, <1>4

(* A datagram arrives behind the others, and has the largest number.        *)
LEMMA OrderSend ==
  ASSUME TypeOK, PlacesOK, OrderInv, NEW c \in Client, NEW n \in Lens, ClientSends(c, n)
  PROVE  OrderInv'
<1> DEFINE new == Piece(c, Len(dgram) + 1, 0, n + H)
<1>1. /\ rx \in Seq(Frames) /\ dgram \in Seq(Datagrams) /\ n \in Nat /\ H \in Nat
  BY TypeParts, Sizes DEF PortType, SentType
<1>2. new \in Pieces /\ new.id = Len(dgram) + 1 /\ new.off = 0
  BY <1>1 DEF Pieces, Piece
<1>3. Frame("udp", new) \in Frames /\ UdpOf(Frame("udp", new)) = {new}
  BY <1>2, Fields DEF UdpOf, Kind
<1>4. rx' = Append(rx, Frame("udp", new))
  BY DEF ClientSends
<1> HIDE DEF new
<1>5. /\ UdpIn(rx') = UdpIn(rx) \cup {new}
      /\ FramesInTurn(rx', Turn) <=> FramesInTurn(rx, Turn) /\ Before(UdpIn(rx), {new}, Turn)
  <2> DEFINE f == Frame("udp", new)
  <2>1. f \in Frames /\ UdpOf(f) = {new} /\ rx' = Append(rx, f)
    BY <1>3, <1>4
  <2> HIDE DEF f
  <2>2. /\ UdpIn(Append(rx, f)) = UdpIn(rx) \cup UdpOf(f)
        /\ FramesInTurn(Append(rx, f), Turn) <=> FramesInTurn(rx, Turn) /\ Before(UdpIn(rx), UdpOf(f), Turn)
    BY <1>1, <2>1, FrameAppended, Zenon
  <2> QED BY <2>1, <2>2, Zenon
<1>6. /\ \A p \in Unread \cup Port : p \in Pieces /\ p.id < new.id /\ p.off >= new.off
      /\ \A p \in Read : p \in Pieces /\ p.id < new.id
  <2>1. Len(dgram) \in Nat
    BY <1>1
  <2>2. \A p \in Pieces : p.id \in Nat /\ p.off \in Nat
    BY Fields
  <2>3. \A p \in Unread \cup Port : p \in Pieces /\ p.id \in 1 .. Len(dgram)
    BY WaitingIs DEF Arrived
  <2>4. \A p \in Read : p \in Pieces /\ p.id \in 1 .. Len(dgram)
    BY ReadIs DEF Echo
  <2> QED BY <1>2, <2>1, <2>2, <2>3, <2>4
<1>7. \A p \in Unread \cup Port : <<p, new>> \in Turn
  <2>1. \A p \in Unread \cup Port : p.off \in Nat
    BY <1>6, Fields
  <2> QED BY <1>2, <1>6, <2>1 DEF Turn
<1>8. \A p \in Read : <<p, new>> \in Passed
  BY <1>2, <1>6 DEF Passed
<1>9. /\ burst' = burst /\ in' = in /\ rcvbuf' = rcvbuf /\ spc' = spc /\ ol' = ol /\ text' = text
      /\ got' = got /\ out' = out /\ wpc' = wpc /\ held' = held /\ sndbuf' = sndbuf /\ missed' = missed
  BY DEF ClientSends, worker, server
<1>10. Reading' = Reading /\ Unread' = Unread /\ Read' = Read /\ Port' = Port \cup {new}
  BY <1>5, <1>9 DEF Reading, Unread, Read, Echoed, Held, Port
<1>11. PortOrder'
  BY <1>2, <1>5, <1>7, <1>9, <1>10 DEF OrderInv, PortOrder, Port, Before
<1>12. ServerOrder'
  BY <1>7, <1>9, <1>10 DEF OrderInv, ServerOrder, Before
<1>13. BackOrder'
  BY <1>9, OrderParts DEF OrderInv
<1>14. PassOrder'
  BY <1>8, <1>10 DEF OrderInv, PassOrder, Before
<1> QED BY <1>11, <1>12, <1>13, <1>14 DEF OrderInv

(* Other frames carry no piece.                                             *)
LEMMA OrderOther ==
  ASSUME TypeOK, PlacesOK, OrderInv, NEW c \in Client,
         ClientAnswersArp(c) \/ ArpLost(c) \/ \E t \in {"arpreq", "icmp", "other"} : ClientCtl(c, t)
  PROVE  OrderInv'
<1>1. /\ burst' = burst /\ in' = in /\ rcvbuf' = rcvbuf /\ spc' = spc /\ ol' = ol /\ text' = text
      /\ got' = got /\ out' = out /\ wpc' = wpc /\ held' = held /\ sndbuf' = sndbuf /\ missed' = missed
  BY DEF ClientAnswersArp, ArpLost, ClientCtl, worker, server, port
<1>2. UdpIn(rx') = UdpIn(rx) /\ (FramesInTurn(rx, Turn) => FramesInTurn(rx', Turn))
  <2>1. rx \in Seq(Frames)
    BY TypeParts DEF PortType
  <2>2. \A x \in Frames : x.t # "udp" => UdpOf(x) = {}
    BY DEF UdpOf
  <2>3. rx' = rx \/ \E x \in Frames : x.t # "udp" /\ rx' = Append(rx, x)
    <3>1. \A t \in {"arpreply", "arpreq", "icmp", "other"} : Frame(t, NoPiece(c)) \in Frames /\ Frame(t, NoPiece(c)).t # "udp"
      BY Fields DEF Kind
    <3> QED BY <3>1 DEF ClientAnswersArp, ArpLost, ClientCtl
  <2>4. ASSUME NEW x \in Frames, x.t # "udp", rx' = Append(rx, x)
        PROVE  UdpIn(rx') = UdpIn(rx) /\ (FramesInTurn(rx, Turn) => FramesInTurn(rx', Turn))
    <3>1. /\ UdpIn(Append(rx, x)) = UdpIn(rx) \cup UdpOf(x)
          /\ FramesInTurn(Append(rx, x), Turn) <=> FramesInTurn(rx, Turn) /\ Before(UdpIn(rx), UdpOf(x), Turn)
      BY <2>1, FrameAppended, Zenon
    <3>2. UdpOf(x) = {} /\ Before(UdpIn(rx), {}, Turn)
      BY <2>2, <2>4 DEF Before
    <3>3. UdpIn(rx') = UdpIn(Append(rx, x)) /\ (FramesInTurn(rx', Turn) <=> FramesInTurn(Append(rx, x), Turn))
      BY <2>4, Zenon
    <3> QED BY <3>1, <3>2, <3>3
  <2> QED BY <2>3, <2>4
<1>3. Port' = Port /\ Unread' = Unread /\ Read' = Read
  BY <1>1, <1>2 DEF Reading, Unread, Read, Echoed, Held, Port
<1>4. PortOrder'
  BY <1>1, <1>2, <1>3 DEF OrderInv, PortOrder
<1>5. ServerOrder' /\ BackOrder' /\ PassOrder'
  BY <1>1, <1>2, <1>3, OrderParts DEF OrderInv, Port
<1> QED BY <1>4, <1>5 DEF OrderInv

(* The ring in takes the first frames of the burst; the others are freed.   *)
LEMMA OrderMainRx ==
  ASSUME TypeOK, PlacesOK, OrderInv, MainRx
  PROVE  OrderInv'
<1> DEFINE tx == Taken(rx)
           ok == Accepted(in, RingSize, tx)
           no == Refused(in, RingSize, tx)
           rest == Left(rx)
<1>1. /\ rx \in Seq(Frames) /\ in \in Seq(Frames) /\ Len(in) <= RingSize /\ RingSize \in Nat
  BY TypeParts, Sizes DEF PortType, RingType
<1>2. tx \in Seq(Frames) /\ rest \in Seq(Frames) /\ rx = tx \o rest /\ rx' = rest
  BY <1>1, BurstIs DEF MainRx
<1>3. in' = PutBurst(in, RingSize, tx)
  BY DEF MainRx
<1> HIDE DEF tx, rest
<1>4. ok \in Seq(Frames) /\ no \in Seq(Frames) /\ in' = in \o ok /\ tx = ok \o no
  BY <1>1, <1>2, <1>3, PutBurstIs, ZenonT(60)
<1> HIDE DEF ok, no
<1>5. /\ UdpIn(rx) = UdpIn(tx) \cup UdpIn(rx')
      /\ FramesInTurn(rx, Turn) <=> FramesInTurn(tx, Turn) /\ FramesInTurn(rx', Turn) /\ Before(UdpIn(tx), UdpIn(rx'), Turn)
  <2>1. /\ UdpIn(tx \o rest) = UdpIn(tx) \cup UdpIn(rest)
        /\ FramesInTurn(tx \o rest, Turn) <=> FramesInTurn(tx, Turn) /\ FramesInTurn(rest, Turn) /\ Before(UdpIn(tx), UdpIn(rest), Turn)
    BY <1>2, FramesPlaced, Zenon
  <2> QED BY <1>2, <2>1, Zenon
<1>6. /\ UdpIn(tx) = UdpIn(ok) \cup UdpIn(no)
      /\ FramesInTurn(tx, Turn) <=> FramesInTurn(ok, Turn) /\ FramesInTurn(no, Turn) /\ Before(UdpIn(ok), UdpIn(no), Turn)
  BY <1>4, FramesPlaced, ZenonT(60)
<1>7. /\ UdpIn(in') = UdpIn(in) \cup UdpIn(ok)
      /\ FramesInTurn(in', Turn) <=> FramesInTurn(in, Turn) /\ FramesInTurn(ok, Turn) /\ Before(UdpIn(in), UdpIn(ok), Turn)
  BY <1>1, <1>4, FramesPlaced, ZenonT(60)
<1>8. /\ burst' = burst /\ rcvbuf' = rcvbuf /\ spc' = spc /\ ol' = ol /\ text' = text
      /\ got' = got /\ out' = out /\ wpc' = wpc /\ held' = held /\ sndbuf' = sndbuf /\ missed' = missed
  BY DEF MainRx, worker, server
<1>9. Unread' = Unread /\ Read' = Read /\ Port' = UdpIn(burst') \cup UdpIn(in') \cup UdpIn(rx') /\ Port' \subseteq Port
  BY <1>5, <1>6, <1>7, <1>8 DEF Reading, Unread, Read, Echoed, Held, Port
<1>10. PortOrder'
  BY <1>5, <1>6, <1>7, <1>8, <1>9 DEF OrderInv, PortOrder, Before
<1>11. ServerOrder' /\ BackOrder' /\ PassOrder'
  BY <1>8, <1>9, OrderParts DEF OrderInv
<1> QED BY <1>10, <1>11 DEF OrderInv

(* What a ring that may be full holds after an enqueue.                     *)
LEMMA FramePut ==
  ASSUME NEW T, NEW ring \in Seq(T), NEW x \in T, NEW size, NEW R,
         FramesInTurn(ring, R), Before(UdpIn(ring), UdpOf(x), R)
  PROVE  /\ UdpIn(Put(ring, size, x)) \subseteq UdpIn(ring) \cup UdpOf(x)
         /\ FramesInTurn(Put(ring, size, x), R)
<1>1. UdpIn(Append(ring, x)) = UdpIn(ring) \cup UdpOf(x) /\ FramesInTurn(Append(ring, x), R)
  BY FrameAppended, Zenon
<1>2. Put(ring, size, x) = ring \/ Put(ring, size, x) = Append(ring, x)
  BY DEF Put
<1> QED BY <1>1, <1>2

(* The same for a socket's ring.                                            *)
LEMMA PiecePut ==
  ASSUME NEW T, NEW ring \in Seq(T), NEW x \in T, NEW size, NEW R,
         InTurn(ring, R), Before(PiecesIn(ring), {x}, R)
  PROVE  /\ PiecesIn(Put(ring, size, x)) \subseteq PiecesIn(ring) \cup {x}
         /\ InTurn(Put(ring, size, x), R)
<1>1. /\ PiecesIn(Append(ring, x)) = PiecesIn(ring) \cup {x}
      /\ InTurn(Append(ring, x), R) <=> InTurn(ring, R) /\ Before(PiecesIn(ring), {x}, R)
  BY PieceAppended, Zenon
<1>2. Put(ring, size, x) = ring \/ Put(ring, size, x) = Append(ring, x)
  BY DEF Put
<1> QED BY <1>1, <1>2

(* The ring out is given no piece.                                          *)
LEMMA NoneSent ==
  ASSUME BackOrder, UdpIn(out') \subseteq UdpIn(out), FramesInTurn(out', Ahead(missed)),
         got' = got, wpc' = wpc, held' = held, sndbuf' = sndbuf, spc' = spc, text' = text, missed' = missed
  PROVE  BackOrder' /\ Read' \subseteq Read
<1>1. Held' = Held /\ Echoed' = Echoed
  BY DEF Held, Echoed
<1>2. BackOrder'
  BY <1>1 DEF BackOrder, Before
<1>3. Read' \subseteq Read
  BY <1>1 DEF Read
<1> QED BY <1>2, <1>3

(* The ARP timer asks for every address.                                    *)
LEMMA OrderMainTimer ==
  ASSUME TypeOK, PlacesOK, OrderInv, MainTimer
  PROVE  OrderInv'
<1>1. PICK order \in [1 .. Cardinality(Client) -> Client] :
        out' = PutBurst(out, RingSize, [i \in DOMAIN order |-> ArpFrame(order[i])])
  BY DEF MainTimer, TimerCallback
<1> DEFINE xs == [i \in DOMAIN order |-> ArpFrame(order[i])]
           ok == Accepted(out, RingSize, xs)
           no == Refused(out, RingSize, xs)
<1>2. Cardinality(Client) \in Nat
  BY ClientAssumption, FS_CardinalityType
<1>3. \A c \in Client : ArpFrame(c) \in Frames /\ ArpFrame(c).t # "udp"
  <2>1. \A c \in Client : ArpFrame(c) \in Frames /\ ArpFrame(c).t = "arp"
    BY Fields DEF ArpFrame, Kind
  <2> QED BY <2>1
<1>4. xs \in Seq(Frames)
  BY <1>2, <1>3
<1>5. UdpIn(xs) = {}
  <2>1. \A i \in 1 .. Len(xs) : xs[i].t # "udp"
    BY <1>2, <1>3
  <2> HIDE DEF xs
  <2> QED BY <2>1 DEF UdpIn
<1>6. out \in Seq(Frames) /\ Len(out) <= RingSize /\ RingSize \in Nat
  BY TypeParts, Sizes DEF RingType
<1>7. out' = PutBurst(out, RingSize, xs)
  BY <1>1
<1> HIDE DEF xs
<1>8. ok \in Seq(Frames) /\ no \in Seq(Frames) /\ out' = out \o ok /\ xs = ok \o no
  BY <1>4, <1>6, <1>7, PutBurstIs, SMTT(30)
<1> HIDE DEF ok, no
<1>9. UdpIn(ok) = {}
  <2>1. UdpIn(ok \o no) = UdpIn(ok) \cup UdpIn(no)
    BY <1>8, FramesPlaced, ZenonT(60)
  <2> QED BY <1>5, <1>8, <2>1
<1>10. /\ UdpIn(out') = UdpIn(out) \cup UdpIn(ok)
       /\ FramesInTurn(out', Ahead(missed)) <=> /\ FramesInTurn(out, Ahead(missed)) /\ FramesInTurn(ok, Ahead(missed))
                                                /\ Before(UdpIn(out), UdpIn(ok), Ahead(missed))
  <2>1. /\ UdpIn(out \o ok) = UdpIn(out) \cup UdpIn(ok)
        /\ FramesInTurn(out \o ok, Ahead(missed)) <=> /\ FramesInTurn(out, Ahead(missed)) /\ FramesInTurn(ok, Ahead(missed))
                                                      /\ Before(UdpIn(out), UdpIn(ok), Ahead(missed))
    BY <1>6, <1>8, FramesPlaced, Zenon
  <2> QED BY <1>8, <2>1, Zenon
<1>11. FramesInTurn(ok, Ahead(missed))
  BY <1>9 DEF FramesInTurn, UdpIn
<1>12. UdpIn(out') \subseteq UdpIn(out) /\ FramesInTurn(out', Ahead(missed))
  BY <1>9, <1>10, <1>11 DEF OrderInv, BackOrder, Before
<1>13. /\ burst' = burst /\ in' = in /\ rx' = rx /\ rcvbuf' = rcvbuf /\ spc' = spc /\ ol' = ol /\ text' = text
       /\ got' = got /\ wpc' = wpc /\ held' = held /\ sndbuf' = sndbuf /\ missed' = missed
  BY DEF MainTimer, port, worker, server
<1>14. Port' = Port /\ Unread' = Unread
  BY <1>13 DEF Reading, Unread, Port
<1>15. BackOrder' /\ Read' \subseteq Read
  BY <1>12, <1>13, NoneSent DEF OrderInv
<1> QED BY <1>13, <1>14, <1>15, OrderParts DEF OrderInv, Port

(* Replies go to their clients in the order of the ring out.                *)
LEMMA OrderMainTx ==
  ASSUME TypeOK, PlacesOK, OrderInv, MainTx
  PROVE  OrderInv'
<1> DEFINE tx == Taken(out)
           rest == Left(out)
<1>1. out \in Seq(Frames) /\ got \in [Client -> Seq(Pieces)]
  BY TypeParts DEF RingType, SentType
<1>2. tx \in Seq(Frames) /\ rest \in Seq(Frames) /\ out = tx \o rest /\ out' = rest
  BY <1>1, BurstIs DEF MainTx
<1>3. PICK k \in 0 .. Len(tx) : got' = [c \in Client |-> got[c] \o RepliesTo(c, SubSeq(tx, 1, k))]
  <2>1. Len(tx) \in Nat
    BY <1>2
  <2>2. \A k \in (IF MayFail THEN 0 .. Len(tx) ELSE {Len(tx)}) : k \in 0 .. Len(tx)
    BY <2>1
  <2>3. \E k \in (IF MayFail THEN 0 .. Len(tx) ELSE {Len(tx)}) :
          got' = [c \in Client |-> got[c] \o RepliesTo(c, SubSeq(tx, 1, k))]
    BY DEF MainTx
  <2> HIDE DEF tx
  <2> QED BY <2>2, <2>3
<1> HIDE DEF tx, rest
<1> DEFINE s == SubSeq(tx, 1, k)
           no == SubSeq(tx, k + 1, Len(tx))
           R == Ahead(missed)
<1>4. s \in Seq(Frames) /\ no \in Seq(Frames) /\ tx = s \o no
  BY <1>2, Cut
<1>5. got' = [c \in Client |-> got[c] \o RepliesTo(c, s)]
  BY <1>3
<1> HIDE DEF s, no, R
<1>6. /\ UdpIn(out) = UdpIn(tx) \cup UdpIn(rest)
      /\ FramesInTurn(out, R) <=> FramesInTurn(tx, R) /\ FramesInTurn(rest, R) /\ Before(UdpIn(tx), UdpIn(rest), R)
  <2>1. /\ UdpIn(tx \o rest) = UdpIn(tx) \cup UdpIn(rest)
        /\ FramesInTurn(tx \o rest, R) <=> FramesInTurn(tx, R) /\ FramesInTurn(rest, R) /\ Before(UdpIn(tx), UdpIn(rest), R)
    BY <1>2, FramesPlaced, Zenon
  <2> QED BY <1>2, <2>1, Zenon
<1>7. /\ UdpIn(tx) = UdpIn(s) \cup UdpIn(no)
      /\ FramesInTurn(tx, R) <=> FramesInTurn(s, R) /\ FramesInTurn(no, R) /\ Before(UdpIn(s), UdpIn(no), R)
  <2>1. /\ UdpIn(s \o no) = UdpIn(s) \cup UdpIn(no)
        /\ FramesInTurn(s \o no, R) <=> FramesInTurn(s, R) /\ FramesInTurn(no, R) /\ Before(UdpIn(s), UdpIn(no), R)
    BY <1>4, FramesPlaced, Zenon
  <2> QED BY <1>4, <2>1, Zenon
<1>8. /\ burst' = burst /\ in' = in /\ rx' = rx /\ rcvbuf' = rcvbuf /\ spc' = spc /\ ol' = ol /\ text' = text
      /\ wpc' = wpc /\ held' = held /\ sndbuf' = sndbuf /\ missed' = missed
  BY DEF MainTx, worker, server
<1>9. Port' = Port /\ Unread' = Unread /\ Held' = Held /\ Echoed' = Echoed
  BY <1>8 DEF Reading, Unread, Port, Held, Echoed
<1>10. BackOrder
  BY DEF OrderInv
<1>11. /\ \A c \in Client : InTurn(got[c], R)
       /\ FramesInTurn(out, R) /\ Before(AllReplies(got), UdpIn(out), R)
  BY <1>10 DEF BackOrder, Before, R
<1>12. /\ AllReplies(got') \subseteq AllReplies(got) \cup UdpIn(s)
       /\ \A c \in Client : InTurn(got'[c], R)
  <2> DEFINE h == got'
  <2>1. h = [c \in Client |-> got[c] \o RepliesTo(c, s)]
    BY <1>5
  <2>2. Before(AllReplies(got), UdpIn(s), R) /\ FramesInTurn(s, R)
    BY <1>6, <1>7, <1>11 DEF Before
  <2> HIDE DEF h
  <2>3. AllReplies(h) \subseteq AllReplies(got) \cup UdpIn(s) /\ \A c \in Client : InTurn(h[c], R)
    BY <1>1, <1>4, <1>11, <2>1, <2>2, RepliesKeepOrder
  <2> QED BY <2>3 DEF h
<1>13. UdpIn(out') = UdpIn(rest) /\ FramesInTurn(out', R) /\ Before(UdpIn(s), UdpIn(out'), R)
  BY <1>2, <1>6, <1>7, <1>11 DEF Before
<1>14. UdpIn(s) \subseteq UdpIn(out) /\ UdpIn(out') \subseteq UdpIn(out)
  BY <1>6, <1>7, <1>13
<1>15. BackOrder'
  <2>1. Before(AllReplies(got'), UdpIn(out') \cup Held \cup PiecesIn(sndbuf) \cup Echoed, R)
    BY <1>10, <1>12, <1>13, <1>14 DEF BackOrder, Before, R
  <2>2. Before(UdpIn(out'), Held \cup PiecesIn(sndbuf) \cup Echoed, R)
    BY <1>10, <1>14 DEF BackOrder, Before, R
  <2> QED BY <1>8, <1>9, <1>10, <1>12, <1>13, <2>1, <2>2 DEF BackOrder, R
<1>16. Read' \subseteq Read
  BY <1>8, <1>9, <1>12, <1>14 DEF Read
<1> QED BY <1>8, <1>9, <1>15, <1>16, OrderParts DEF OrderInv, Port

(* pkt_process takes a burst when the one before has been handled.          *)
LEMMA OrderPoll ==
  ASSUME TypeOK, PlacesOK, OrderInv, burst = <<>>, Poll
  PROVE  OrderInv'
<1> DEFINE tx == Taken(in)
           rest == Left(in)
<1>1. in \in Seq(Frames)
  BY TypeParts DEF RingType
<1>2. tx \in Seq(Frames) /\ rest \in Seq(Frames) /\ in = tx \o rest /\ burst' = tx /\ in' = rest
  BY <1>1, BurstIs DEF Poll
<1> HIDE DEF tx, rest
<1>3. /\ UdpIn(in) = UdpIn(burst') \cup UdpIn(in')
      /\ FramesInTurn(in, Turn) <=> /\ FramesInTurn(burst', Turn) /\ FramesInTurn(in', Turn)
                                    /\ Before(UdpIn(burst'), UdpIn(in'), Turn)
  <2>1. /\ UdpIn(tx \o rest) = UdpIn(tx) \cup UdpIn(rest)
        /\ FramesInTurn(tx \o rest, Turn) <=> FramesInTurn(tx, Turn) /\ FramesInTurn(rest, Turn) /\ Before(UdpIn(tx), UdpIn(rest), Turn)
    BY <1>2, FramesPlaced, Zenon
  <2> QED BY <1>2, <2>1, Zenon
<1>4. /\ rx' = rx /\ rcvbuf' = rcvbuf /\ spc' = spc /\ ol' = ol /\ text' = text
      /\ got' = got /\ out' = out /\ held' = held /\ sndbuf' = sndbuf /\ missed' = missed
      /\ wpc = "poll" /\ wpc' = "frames"
  BY DEF Poll, port, server
<1>5. Held' = Held /\ Echoed' = Echoed /\ Unread' = Unread /\ Port' \subseteq Port
  BY <1>3, <1>4 DEF Held, Echoed, Unread, Reading, Port
<1>6. PortOrder'
  BY <1>3, <1>4, <1>5 DEF OrderInv, PortOrder, Before
<1>7. ServerOrder' /\ PassOrder'
  <2>1. Read' = Read /\ UdpIn(burst') \cup UdpIn(in') \cup UdpIn(rx') \subseteq Port
    BY <1>3, <1>4, <1>5 DEF Read, Port
  <2> QED BY <1>4, <1>5, <2>1, OrderParts DEF OrderInv
<1>8. BackOrder'
  BY <1>4, <1>5 DEF OrderInv, BackOrder
<1> QED BY <1>6, <1>7, <1>8 DEF OrderInv

(* The head of the burst goes; its piece is ahead of those behind it.       *)
LEMMA HeadGone ==
  ASSUME TypeOK, PlacesOK, OrderInv, NEW t, Next1(t), in' = in, rx' = rx
  PROVE  /\ PortOrder' /\ Port' \subseteq Port /\ UdpIn(burst') \cup UdpIn(in') \cup UdpIn(rx') \subseteq Port
         /\ t = "udp" => Head(burst).p \in Port /\ Before({Head(burst).p}, Port', Turn)
<1> DEFINE h == Head(burst)
<1>1. burst \in Seq(Frames) /\ burst # <<>> /\ h.t = t /\ burst' = Tail(burst)
  BY NextFrame
<1>2. /\ UdpIn(burst) = UdpOf(h) \cup UdpIn(burst')
      /\ FramesInTurn(burst, Turn) <=> FramesInTurn(burst', Turn) /\ Before(UdpOf(h), UdpIn(burst'), Turn)
  <2>1. /\ UdpIn(burst) = UdpOf(h) \cup UdpIn(Tail(burst))
        /\ FramesInTurn(burst, Turn) <=> FramesInTurn(Tail(burst), Turn) /\ Before(UdpOf(h), UdpIn(Tail(burst)), Turn)
    BY <1>1, FrameTaken, Zenon
  <2> QED BY <1>1, <2>1, Zenon
<1>3. t = "udp" => UdpOf(h) = {h.p}
  BY <1>1 DEF UdpOf
<1> HIDE DEF h
<1>4. Port' \subseteq Port /\ UdpIn(burst') \cup UdpIn(in') \cup UdpIn(rx') \subseteq Port
  BY <1>2 DEF Port
<1>5. PortOrder'
  BY <1>2, <1>4 DEF OrderInv, PortOrder, Before
<1>6. ASSUME t = "udp" PROVE h.p \in Port /\ Before({h.p}, Port', Turn)
  BY <1>2, <1>3, <1>6 DEF OrderInv, PortOrder, Before, Port
<1> QED BY <1>4, <1>5, <1>6 DEF h

(* Answers to ARP and ICMP carry no piece; other frames are dropped.        *)
LEMMA OrderAnswer ==
  ASSUME TypeOK, PlacesOK, OrderInv, ArpRequest \/ IcmpRequest \/ ArpReply \/ Skip \/ UdpDrop
  PROVE  OrderInv'
<1>1. PICK t \in {"arpreq", "icmp", "arpreply", "other", "udp"} : Next1(t)
  BY DEF ArpRequest, IcmpRequest, ArpReply, Skip, UdpDrop
<1>2. /\ in' = in /\ rx' = rx /\ rcvbuf' = rcvbuf /\ spc' = spc /\ ol' = ol /\ text' = text
      /\ got' = got /\ wpc' = wpc /\ held' = held /\ sndbuf' = sndbuf /\ missed' = missed
  BY DEF ArpRequest, IcmpRequest, ArpReply, Skip, UdpDrop, Answer, port, server
<1>3. PortOrder' /\ Port' \subseteq Port /\ UdpIn(burst') \cup UdpIn(in') \cup UdpIn(rx') \subseteq Port
  BY <1>1, <1>2, HeadGone
<1>4. UdpIn(out') \subseteq UdpIn(out) /\ FramesInTurn(out', Ahead(missed))
  <2>1. out \in Seq(Frames) /\ FramesInTurn(out, Ahead(missed))
    BY TypeParts DEF RingType, OrderInv, BackOrder
  <2>2. Head(burst).p \in Pieces
    BY <1>1, NextFrame
  <2>3. \/ out' = out
        \/ \E f \in Frames : f.t # "udp" /\ out' = Put(out, RingSize, f)
    <3>1. ArpAnswer(Head(burst).p) \in Frames /\ ArpAnswer(Head(burst).p).t = "arpanswer"
      BY <2>2, Fields DEF ArpAnswer, Kind
    <3>2. IcmpAnswer(Head(burst).p) \in Frames /\ IcmpAnswer(Head(burst).p).t = "icmpanswer"
      BY <2>2, Fields DEF IcmpAnswer, Kind
    <3>3. CASE ArpRequest
      BY <3>1, <3>3 DEF ArpRequest, Answer
    <3>4. CASE IcmpRequest
      BY <3>2, <3>4 DEF IcmpRequest, Answer
    <3>5. CASE ArpReply \/ Skip \/ UdpDrop
      BY <3>5 DEF ArpReply, Skip, UdpDrop
    <3> QED BY <3>3, <3>4, <3>5
  <2>4. ASSUME NEW f \in Frames, f.t # "udp", out' = Put(out, RingSize, f)
        PROVE  UdpIn(out') \subseteq UdpIn(out) /\ FramesInTurn(out', Ahead(missed))
    <3>1. UdpOf(f) = {} /\ Before(UdpIn(out), UdpOf(f), Ahead(missed))
      BY <2>4 DEF UdpOf, Before
    <3>2. /\ UdpIn(Put(out, RingSize, f)) \subseteq UdpIn(out) \cup UdpOf(f)
          /\ FramesInTurn(Put(out, RingSize, f), Ahead(missed))
      BY <2>1, <3>1, FramePut, Zenon
    <3> QED BY <2>4, <3>1, <3>2
  <2> QED BY <2>1, <2>3, <2>4
<1>5. BackOrder' /\ Read' \subseteq Read
  BY <1>2, <1>4, NoneSent DEF OrderInv
<1>6. Unread' = Unread
  BY <1>2 DEF Unread, Reading
<1> QED BY <1>2, <1>3, <1>5, <1>6, OrderParts DEF OrderInv

(* udp_process puts a datagram behind what waits in rcvbuf.                 *)
LEMMA OrderUdpProcess ==
  ASSUME TypeOK, PlacesOK, OrderInv, UdpProcess
  PROVE  OrderInv'
<1> DEFINE q == Head(burst).p
<1>1. /\ in' = in /\ rx' = rx /\ spc' = spc /\ ol' = ol /\ text' = text /\ out' = out
      /\ got' = got /\ held' = held /\ sndbuf' = sndbuf /\ missed' = missed
      /\ wpc = "frames" /\ wpc' = "signal" /\ rcvbuf' = Put(rcvbuf, BufSize, q)
  BY DEF UdpProcess, Next1, port, server
<1>2. Next1("udp")
  BY DEF UdpProcess
<1>3. /\ PortOrder' /\ Port' \subseteq Port /\ UdpIn(burst') \cup UdpIn(in') \cup UdpIn(rx') \subseteq Port
      /\ q \in Port /\ Before({q}, Port', Turn)
  BY <1>1, <1>2, HeadGone
<1>4. q \in Pieces /\ rcvbuf \in Seq(Pieces)
  BY <1>2, NextFrame, TypeParts DEF BufType
<1> HIDE DEF q
<1>5. InTurn(rcvbuf, Turn) /\ Before(PiecesIn(rcvbuf), {q}, Turn) /\ Before(Reading, {q}, Turn)
  BY <1>3 DEF OrderInv, ServerOrder, Before, Unread
<1>6. PiecesIn(rcvbuf') \subseteq PiecesIn(rcvbuf) \cup {q} /\ InTurn(rcvbuf', Turn)
  <2>1. /\ PiecesIn(Put(rcvbuf, BufSize, q)) \subseteq PiecesIn(rcvbuf) \cup {q}
        /\ InTurn(Put(rcvbuf, BufSize, q), Turn)
    BY <1>4, <1>5, PiecePut, Zenon
  <2> QED BY <1>1, <2>1, Zenon
<1>7. Reading' = Reading /\ Unread' \subseteq Unread \cup {q} /\ Held' = Held /\ Echoed' = Echoed
  BY <1>1, <1>6 DEF Unread, Reading, Held, Echoed
<1>8. \E m \in Nat : q.off = m * B
  <2>1. q.off = 0 * B
    BY <1>3, Sizes DEF OrderInv, PortOrder
  <2> QED BY <2>1
<1>9. ServerOrder'
  <2>1. Before(Reading', PiecesIn(rcvbuf'), Turn)
    BY <1>5, <1>6, <1>7 DEF OrderInv, ServerOrder, Before
  <2>2. Before(Unread', Port', Turn)
    BY <1>3, <1>7 DEF OrderInv, ServerOrder, Before
  <2>3. \A p \in Unread' : \E m \in Nat : p.off = m * B
    BY <1>7, <1>8 DEF OrderInv, ServerOrder
  <2> QED BY <1>6, <2>1, <2>2, <2>3 DEF ServerOrder
<1>10. BackOrder' /\ Read' = Read
  BY <1>1, <1>7 DEF OrderInv, BackOrder, Read
<1>11. Unread' \cup Port' \subseteq Unread \cup Port
  BY <1>3, <1>7
<1>12. PassOrder'
  BY <1>10, <1>11, OrderParts DEF OrderInv
<1> QED BY <1>3, <1>9, <1>10, <1>12 DEF OrderInv

(* Steps that move no piece.                                                *)
LEMMA OrderPlain ==
  ASSUME TypeOK, OrderInv, UdpSignal \/ Socket \/ Bind \/ RecvWait \/ UNCHANGED vars
  PROVE  OrderInv'
<1>1. /\ burst' = burst /\ in' = in /\ rx' = rx /\ rcvbuf' = rcvbuf /\ ol' = ol /\ text' = text
      /\ got' = got /\ out' = out /\ held' = held /\ sndbuf' = sndbuf /\ missed' = missed
  BY DEF UdpSignal, Socket, Bind, RecvWait, vars, port, worker, server
<1>2. Reading' = Reading /\ Held' = Held /\ Echoed' = Echoed
  BY DEF UdpSignal, Socket, Bind, RecvWait, vars, port, worker, server, Reading, Held, Echoed
<1>3. Unread' = Unread /\ Port' = Port /\ Read' = Read
  BY <1>1, <1>2 DEF Unread, Port, Read
<1>4. PortOrder' /\ ServerOrder'
  BY <1>1, <1>2, <1>3 DEF OrderInv, PortOrder, ServerOrder
<1>5. BackOrder' /\ PassOrder'
  BY <1>1, <1>2, <1>3 DEF OrderInv, BackOrder, PassOrder
<1> QED BY <1>4, <1>5 DEF OrderInv

(* udp_out takes the first offload of sndbuf.                               *)
LEMMA OrderOutTake ==
  ASSUME TypeOK, PlacesOK, OrderInv, UdpOutTake
  PROVE  OrderInv'
<1>1. /\ burst' = burst /\ in' = in /\ rx' = rx /\ rcvbuf' = rcvbuf /\ spc' = spc /\ ol' = ol /\ text' = text
      /\ got' = got /\ out' = out /\ missed' = missed /\ wpc = "frames"
  BY DEF UdpOutTake, port, server
<1>2. Held = {} /\ Echoed' = Echoed /\ Unread' = Unread /\ Port' = Port
  BY <1>1 DEF Held, Echoed, Unread, Reading, Port
<1>3. PiecesIn(sndbuf) = Held' \cup PiecesIn(sndbuf') /\ InTurn(sndbuf', Ahead(missed)) /\ Before(Held', PiecesIn(sndbuf'), Ahead(missed))
  <2>1. sndbuf \in Seq(Pieces) /\ InTurn(sndbuf, Ahead(missed))
    BY TypeParts DEF BufType, OrderInv, BackOrder
  <2>2. CASE sndbuf = <<>>
    <3>1. Held' = {} /\ sndbuf' = sndbuf
      BY <2>2 DEF UdpOutTake, Held
    <3> QED BY <2>1, <3>1 DEF Before
  <2>3. CASE sndbuf # <<>>
    <3>1. Held' = {Head(sndbuf)} /\ sndbuf' = Tail(sndbuf)
      BY <2>3 DEF UdpOutTake, Held
    <3>2. /\ PiecesIn(sndbuf) = {Head(sndbuf)} \cup PiecesIn(Tail(sndbuf))
          /\ InTurn(sndbuf, Ahead(missed)) <=> /\ InTurn(Tail(sndbuf), Ahead(missed))
                                               /\ Before({Head(sndbuf)}, PiecesIn(Tail(sndbuf)), Ahead(missed))
      BY <2>1, <2>3, PieceTaken, Zenon
    <3> QED BY <2>1, <3>1, <3>2
  <2> QED BY <2>2, <2>3
<1>4. Read' = Read
  BY <1>1, <1>2, <1>3 DEF Read
<1>5. PortOrder' /\ ServerOrder' /\ PassOrder'
  BY <1>1, <1>2, <1>4, OrderParts DEF OrderInv, Port
<1>6. BackOrder'
  BY <1>1, <1>2, <1>3 DEF OrderInv, BackOrder, Before
<1> QED BY <1>5, <1>6 DEF OrderInv

(* A miss only takes a client away from those whose replies are in order.   *)
LEMMA MissesGrow ==
  ASSUME NEW ms, NEW ns, ms \subseteq ns
  PROVE  /\ Ahead(ms) \subseteq Ahead(ns)
         /\ \A s : FramesInTurn(s, Ahead(ms)) => FramesInTurn(s, Ahead(ns))
         /\ \A s : InTurn(s, Ahead(ms)) => InTurn(s, Ahead(ns))
         /\ \A P, Q : Before(P, Q, Ahead(ms)) => Before(P, Q, Ahead(ns))
<1>1. Ahead(ms) \subseteq Ahead(ns)
  BY DEF Ahead
<1> QED BY <1>1 DEF FramesInTurn, InTurn, Before

(* udp_out finds no MAC: the offload goes behind the others, and whose it   *)
(* is has missed.                                                           *)
LEMMA OrderOutMiss ==
  ASSUME TypeOK, PlacesOK, OrderInv, UdpOutMiss
  PROVE  OrderInv'
<1> DEFINE R == Ahead(missed')
<1>1. /\ burst' = burst /\ in' = in /\ rx' = rx /\ rcvbuf' = rcvbuf /\ spc' = spc /\ ol' = ol /\ text' = text
      /\ got' = got /\ wpc = "out" /\ wpc' = "poll" /\ missed' = missed \cup {held.who}
      /\ out' = Put(out, RingSize, ArpFrame(held.who)) /\ sndbuf' = Put(sndbuf, BufSize, held)
  BY DEF UdpOutMiss, port, server
<1>2. /\ held \in Pieces /\ sndbuf \in Seq(Pieces) /\ out \in Seq(Frames) /\ held.who \in Client
  BY <1>1, TypeParts, Fields DEF WorkerType, BufType, RingType
<1>3. Held = {held} /\ Held' = {} /\ Echoed' = Echoed /\ Unread' = Unread /\ Port' = Port
  BY <1>1 DEF Held, Echoed, Unread, Reading, Port
<1>4. BackOrder
  BY DEF OrderInv
<1>5. /\ \A c \in Client : InTurn(got[c], R)
      /\ FramesInTurn(out, R) /\ InTurn(sndbuf, R)
      /\ Before(AllReplies(got), UdpIn(out) \cup Held \cup PiecesIn(sndbuf) \cup Echoed, R)
      /\ Before(UdpIn(out), Held \cup PiecesIn(sndbuf) \cup Echoed, R)
      /\ Before(Held, PiecesIn(sndbuf) \cup Echoed, R)
      /\ Before(PiecesIn(sndbuf), Echoed, R)
  <2>1. missed \subseteq missed'
    BY <1>1
  <2> QED BY <1>4, <2>1, MissesGrow DEF BackOrder
<1>6. Before(PiecesIn(sndbuf), {held}, R)
  <2>1. \A p \in PiecesIn(sndbuf) : p \in Pieces
    BY <1>2 DEF PiecesIn
  <2>2. held.who \in missed'
    BY <1>1
  <2> QED BY <1>2, <2>1, <2>2 DEF Before, Ahead
<1> HIDE DEF R
<1>7. PiecesIn(sndbuf') \subseteq PiecesIn(sndbuf) \cup {held} /\ InTurn(sndbuf', R)
  <2>1. PiecesIn(Put(sndbuf, BufSize, held)) \subseteq PiecesIn(sndbuf) \cup {held} /\ InTurn(Put(sndbuf, BufSize, held), R)
    BY <1>2, <1>5, <1>6, PiecePut, Zenon
  <2> QED BY <1>1, <2>1, Zenon
<1>8. UdpIn(out') \subseteq UdpIn(out) /\ FramesInTurn(out', R)
  <2> DEFINE f == ArpFrame(held.who)
  <2>1. f \in Frames /\ f.t = "arp"
    BY <1>2, Fields DEF ArpFrame, Kind
  <2>2. out' = Put(out, RingSize, f)
    BY <1>1
  <2> HIDE DEF f
  <2>3. UdpOf(f) = {} /\ Before(UdpIn(out), UdpOf(f), R)
    BY <2>1 DEF UdpOf, Before
  <2>4. UdpIn(Put(out, RingSize, f)) \subseteq UdpIn(out) \cup UdpOf(f) /\ FramesInTurn(Put(out, RingSize, f), R)
    BY <1>2, <1>5, <2>1, <2>3, FramePut, Zenon
  <2> QED BY <2>2, <2>3, <2>4
<1>9. BackOrder'
  <2>1. Before(AllReplies(got'), UdpIn(out') \cup Held' \cup PiecesIn(sndbuf') \cup Echoed', R)
    BY <1>1, <1>3, <1>5, <1>7, <1>8 DEF Before
  <2>2. Before(UdpIn(out'), Held' \cup PiecesIn(sndbuf') \cup Echoed', R)
    BY <1>3, <1>5, <1>7, <1>8 DEF Before
  <2>3. Before(Held', PiecesIn(sndbuf') \cup Echoed', R) /\ Before(PiecesIn(sndbuf'), Echoed', R)
    BY <1>3, <1>5, <1>7 DEF Before
  <2> QED BY <1>1, <1>5, <1>7, <1>8, <2>1, <2>2, <2>3 DEF BackOrder, R
<1>10. Read' \subseteq Read
  BY <1>1, <1>3, <1>7, <1>8 DEF Read
<1> QED BY <1>1, <1>3, <1>9, <1>10, OrderParts DEF OrderInv, Port

(* udp_out sends the offload behind what is in the ring out.                *)
LEMMA OrderOutSend ==
  ASSUME TypeOK, PlacesOK, OrderInv, UdpOutSend
  PROVE  OrderInv'
<1> DEFINE R == Ahead(missed)
           f == UdpFrame(held)
<1>1. /\ burst' = burst /\ in' = in /\ rx' = rx /\ rcvbuf' = rcvbuf /\ spc' = spc /\ ol' = ol /\ text' = text
      /\ got' = got /\ wpc = "out" /\ wpc' = "poll" /\ missed' = missed /\ sndbuf' = sndbuf
      /\ out' = Put(out, RingSize, f)
  BY DEF UdpOutSend, port, server
<1>2. held \in Pieces /\ out \in Seq(Frames) /\ f \in Frames /\ UdpOf(f) = {held}
  BY <1>1, TypeParts, Fields DEF WorkerType, RingType, UdpFrame, UdpOf, Kind
<1> HIDE DEF f, R
<1>3. Held = {held} /\ Held' = {} /\ Echoed' = Echoed /\ Unread' = Unread /\ Port' = Port
  BY <1>1 DEF Held, Echoed, Unread, Reading, Port
<1>4. /\ \A c \in Client : InTurn(got[c], R)
      /\ FramesInTurn(out, R) /\ InTurn(sndbuf, R)
      /\ Before(AllReplies(got), UdpIn(out) \cup {held} \cup PiecesIn(sndbuf) \cup Echoed, R)
      /\ Before(UdpIn(out), {held} \cup PiecesIn(sndbuf) \cup Echoed, R)
      /\ Before({held}, PiecesIn(sndbuf) \cup Echoed, R)
      /\ Before(PiecesIn(sndbuf), Echoed, R)
  BY <1>3 DEF OrderInv, BackOrder, R
<1>5. UdpIn(out') \subseteq UdpIn(out) \cup {held} /\ FramesInTurn(out', R)
  <2>1. Before(UdpIn(out), UdpOf(f), R)
    BY <1>2, <1>4 DEF Before
  <2>2. UdpIn(Put(out, RingSize, f)) \subseteq UdpIn(out) \cup UdpOf(f) /\ FramesInTurn(Put(out, RingSize, f), R)
    BY <1>2, <1>4, <2>1, FramePut, Zenon
  <2> QED BY <1>1, <1>2, <2>2
<1>6. BackOrder'
  <2>1. Before(AllReplies(got'), UdpIn(out') \cup Held' \cup PiecesIn(sndbuf') \cup Echoed', R)
    BY <1>1, <1>3, <1>4, <1>5 DEF Before
  <2>2. Before(UdpIn(out'), Held' \cup PiecesIn(sndbuf') \cup Echoed', R)
    BY <1>1, <1>3, <1>4, <1>5 DEF Before
  <2>3. Before(Held', PiecesIn(sndbuf') \cup Echoed', R) /\ Before(PiecesIn(sndbuf'), Echoed', R)
    BY <1>1, <1>3, <1>4 DEF Before
  <2> QED BY <1>1, <1>4, <1>5, <2>1, <2>2, <2>3 DEF BackOrder, R
<1>7. Read' \subseteq Read
  BY <1>1, <1>3, <1>5 DEF Read
<1> QED BY <1>1, <1>3, <1>6, <1>7, OrderParts DEF OrderInv, Port

(* nrecvfrom takes the first offload of rcvbuf.                             *)
LEMMA OrderRecvTake ==
  ASSUME TypeOK, PlacesOK, OrderInv, RecvTake
  PROVE  OrderInv'
<1>1. /\ burst' = burst /\ in' = in /\ rx' = rx /\ got' = got /\ out' = out /\ wpc' = wpc /\ held' = held
      /\ sndbuf' = sndbuf /\ text' = text /\ missed' = missed /\ spc = "recv" /\ spc' = "copy" /\ rcvbuf # <<>>
      /\ ol' = Head(rcvbuf) /\ rcvbuf' = Tail(rcvbuf)
  BY DEF RecvTake, port, worker
<1>2. Reading = {} /\ Reading' = {ol'} /\ Echoed = {} /\ Echoed' = {} /\ Held' = Held /\ Port' = Port
  BY <1>1 DEF Reading, Echoed, Held, Port
<1>3. PiecesIn(rcvbuf) = Reading' \cup PiecesIn(rcvbuf') /\ InTurn(rcvbuf', Turn) /\ Before(Reading', PiecesIn(rcvbuf'), Turn)
  <2>1. rcvbuf \in Seq(Pieces) /\ InTurn(rcvbuf, Turn)
    BY TypeParts DEF BufType, OrderInv, ServerOrder
  <2>2. /\ PiecesIn(rcvbuf) = {Head(rcvbuf)} \cup PiecesIn(Tail(rcvbuf))
        /\ InTurn(rcvbuf, Turn) <=> InTurn(Tail(rcvbuf), Turn) /\ Before({Head(rcvbuf)}, PiecesIn(Tail(rcvbuf)), Turn)
    BY <1>1, <2>1, PieceTaken, Zenon
  <2> QED BY <1>1, <1>2, <2>1, <2>2
<1>4. Unread' = Unread /\ Read' = Read
  BY <1>1, <1>2, <1>3 DEF Unread, Read
<1>5. PortOrder' /\ PassOrder'
  BY <1>1, <1>2, <1>4, OrderParts DEF OrderInv
<1>6. ServerOrder'
  BY <1>2, <1>3, <1>4 DEF OrderInv, ServerOrder
<1>7. BackOrder'
  BY <1>1, <1>2 DEF OrderInv, BackOrder
<1> QED BY <1>5, <1>6, <1>7 DEF OrderInv

(* Multiples of B that differ are at least B apart.                         *)
LEMMA Apart ==
  ASSUME NEW a \in Nat, NEW b \in Nat, \E m \in Nat : a = m * B, \E m \in Nat : b = m * B, a < b
  PROVE  a + B <= b
<1>1. PICK m \in Nat : a = m * B
  OBVIOUS
<1>2. PICK n \in Nat : b = n * B
  OBVIOUS
<1>3. B \in Nat /\ B > 0
  BY Sizes
<1>4. m < n
  <2>1. SUFFICES ASSUME n <= m PROVE FALSE
    OBVIOUS
  <2>2. PICK d \in Nat : m = n + d
    <3>1. m - n \in Nat /\ m = n + (m - n)
      BY <2>1
    <3> QED BY <3>1
  <2>3. a = n * B + d * B /\ d * B \in Nat /\ n * B \in Nat
    BY <1>1, <1>3, <2>2
  <2> QED BY <1>2, <2>3
<1>5. PICK d \in Nat : n = m + 1 + d
  <2>1. n - m - 1 \in Nat /\ n = m + 1 + (n - m - 1)
    BY <1>4
  <2> QED BY <2>1
<1>6. b = m * B + B + d * B /\ d * B \in Nat /\ m * B \in Nat
  BY <1>2, <1>3, <1>5
<1> QED BY <1>1, <1>3, <1>6

(* nrecvfrom copies a buffer: what it has read comes behind all that went   *)
(* before, and the rest of the datagram behind all that waits.              *)
LEMMA OrderRecvCopy ==
  ASSUME TypeOK, PlacesOK, OrderInv, RecvCopy
  PROVE  OrderInv'
<1> DEFINE new == Copied(ol)
           rest == Forward(ol)
<1>1. /\ burst' = burst /\ in' = in /\ rx' = rx /\ got' = got /\ out' = out /\ wpc' = wpc /\ held' = held
      /\ sndbuf' = sndbuf /\ missed' = missed /\ spc = "copy" /\ spc' = "send" /\ text' = new
      /\ rcvbuf' = IF B < ol.len THEN Put(rcvbuf, BufSize, rest) ELSE rcvbuf
  BY DEF RecvCopy, port, worker
<1>2. /\ ol \in Pieces /\ new \in Pieces /\ new.id = ol.id /\ new.off = ol.off
      /\ B < ol.len => rest \in Pieces /\ rest.id = ol.id /\ rest.off = ol.off + B
  BY <1>1, CopiedIs
<1> HIDE DEF new, rest
<1>3. Reading = {ol} /\ Reading' = {} /\ Echoed = {} /\ Echoed' = {new} /\ Held' = Held /\ Port' = Port
  BY <1>1 DEF Reading, Echoed, Held, Port
<1>4. /\ B \in Nat /\ B > 0 /\ ol.id \in Nat /\ ol.off \in Nat
      /\ \A p \in Pieces : p.id \in Nat /\ p.off \in Nat
  BY <1>2, Sizes, Fields
<1>5. /\ ol \in Unread /\ \A q \in PiecesIn(rcvbuf) : q \in Unread
      /\ \A q \in Unread \cup Port : q \in Pieces
      /\ \A q \in Read : q \in Pieces
  BY <1>3, WaitingIs, ReadIs DEF Unread
<1>6. \A q \in PiecesIn(rcvbuf) \cup Port : <<ol, q>> \in Turn
  BY <1>3, <1>5 DEF OrderInv, ServerOrder, Before
<1>7. ASSUME B < ol.len
      PROVE  Before(PiecesIn(rcvbuf), {rest}, Turn) /\ Before({rest}, Port, Turn) /\ \E m \in Nat : rest.off = m * B
  <2>1. ASSUME NEW q \in PiecesIn(rcvbuf) PROVE <<q, rest>> \in Turn
    <3>1. q \in Pieces /\ q.id \in Nat /\ q.off \in Nat /\ IF ol.off < q.off THEN q.id < ol.id ELSE ol.id < q.id
      BY <1>4, <1>5, <1>6, <2>1 DEF Turn
    <3>2. ol.off < q.off => ol.off + B <= q.off
      <4>1. (\E m \in Nat : ol.off = m * B) /\ \E m \in Nat : q.off = m * B
        BY <1>5, <2>1 DEF OrderInv, ServerOrder
      <4> QED BY <1>4, <3>1, <4>1, Apart
    <3>3. IF q.off < rest.off THEN rest.id < q.id ELSE q.id < rest.id
      BY <1>2, <1>4, <1>7, <3>1, <3>2
    <3> QED BY <1>2, <1>7, <3>1, <3>3 DEF Turn
  <2>2. ASSUME NEW q \in Port PROVE <<rest, q>> \in Turn
    <3>1. q \in Pieces /\ q.off = 0 /\ q.id \in Nat
      BY <1>4, <1>5, <2>2 DEF OrderInv, PortOrder
    <3>2. ol.id < q.id
      <4>1. <<ol, q>> \in Turn
        BY <1>6, <2>2
      <4>2. IF ol.off < q.off THEN q.id < ol.id ELSE ol.id < q.id
        BY <4>1 DEF Turn
      <4> QED BY <1>4, <3>1, <4>2
    <3>3. ~(rest.off < q.off) /\ rest.id < q.id
      BY <1>2, <1>4, <1>7, <3>1, <3>2
    <3> QED BY <1>2, <1>7, <3>1, <3>3 DEF Turn
  <2>3. \E m \in Nat : rest.off = m * B
    <3>1. PICK m \in Nat : ol.off = m * B
      BY <1>5 DEF OrderInv, ServerOrder
    <3>2. m + 1 \in Nat /\ rest.off = (m + 1) * B
      BY <1>2, <1>4, <1>7, <3>1
    <3> QED BY <3>2
  <2> QED BY <2>1, <2>2, <2>3 DEF Before
<1>8. /\ PiecesIn(rcvbuf') \subseteq PiecesIn(rcvbuf) \cup (IF B < ol.len THEN {rest} ELSE {})
      /\ InTurn(rcvbuf', Turn)
  <2>1. rcvbuf \in Seq(Pieces) /\ InTurn(rcvbuf, Turn)
    BY TypeParts DEF BufType, OrderInv, ServerOrder
  <2>2. CASE B < ol.len
    <3>1. PiecesIn(Put(rcvbuf, BufSize, rest)) \subseteq PiecesIn(rcvbuf) \cup {rest} /\ InTurn(Put(rcvbuf, BufSize, rest), Turn)
      BY <1>2, <1>7, <2>1, <2>2, PiecePut, Zenon
    <3> QED BY <1>1, <2>2, <3>1
  <2>3. CASE ~(B < ol.len)
    BY <1>1, <2>1, <2>3
  <2> QED BY <2>2, <2>3
<1>9. \A q \in Unread' : q \in PiecesIn(rcvbuf) \/ (B < ol.len /\ q = rest)
  BY <1>3, <1>8 DEF Unread
<1>10. Read' = Read \cup {new}
  BY <1>1, <1>3 DEF Read
<1>11. \A s \in Read : <<s, ol>> \in Passed
  BY <1>5 DEF OrderInv, PassOrder, Before
<1>12. Before(Read, {new}, Ahead(missed))
  <2> SUFFICES ASSUME NEW s \in Read PROVE <<s, new>> \in Ahead(missed)
    BY DEF Before
  <2>1. s \in Pieces /\ s.id \in Nat /\ s.off \in Nat /\ (s.off >= ol.off => s.id < ol.id)
    BY <1>4, <1>5, <1>11 DEF Passed
  <2>2. (s.id = new.id => s.off < new.off) /\ (s.off = new.off => s.id < new.id)
    BY <1>2, <1>4, <2>1
  <2> QED BY <1>2, <2>1, <2>2 DEF Ahead
<1>13. PortOrder'
  BY <1>1, OrderParts DEF OrderInv
<1>14. ServerOrder'
  <2>1. Before(Reading', PiecesIn(rcvbuf'), Turn)
    BY <1>3 DEF Before
  <2>2. Before(Unread', Port', Turn)
    BY <1>3, <1>5, <1>7, <1>9 DEF OrderInv, ServerOrder, Before
  <2>3. \A p \in Unread' : \E m \in Nat : p.off = m * B
    BY <1>5, <1>7, <1>9 DEF OrderInv, ServerOrder
  <2> QED BY <1>8, <2>1, <2>2, <2>3 DEF ServerOrder
<1>15. BackOrder'
  <2>1. /\ Before(AllReplies(got), {new}, Ahead(missed)) /\ Before(UdpIn(out), {new}, Ahead(missed))
        /\ Before(Held, {new}, Ahead(missed)) /\ Before(PiecesIn(sndbuf), {new}, Ahead(missed))
    BY <1>12 DEF Before, Read
  <2> QED BY <1>1, <1>3, <2>1 DEF OrderInv, BackOrder, Before
<1>16. PassOrder'
  <2> SUFFICES ASSUME NEW s \in Read \cup {new}, NEW q \in Unread' \cup Port PROVE <<s, q>> \in Passed
    BY <1>3, <1>10 DEF PassOrder, Before
  <2>1. CASE s \in Read /\ q \in PiecesIn(rcvbuf) \cup Port
    BY <1>5, <2>1 DEF OrderInv, PassOrder, Before
  <2>2. CASE s \in Read /\ q = rest /\ B < ol.len
    <3>1. s \in Pieces /\ s.id \in Nat /\ s.off \in Nat /\ (s.off >= ol.off => s.id < ol.id)
      BY <1>4, <1>5, <1>11, <2>2 DEF Passed
    <3>2. s.off >= rest.off => s.id < rest.id
      BY <1>2, <1>4, <2>2, <3>1
    <3> QED BY <1>2, <2>2, <3>1, <3>2 DEF Passed
  <2>3. CASE s = new /\ q \in PiecesIn(rcvbuf) \cup Port
    <3>1. q \in Pieces /\ q.id \in Nat /\ q.off \in Nat /\ IF ol.off < q.off THEN q.id < ol.id ELSE ol.id < q.id
      BY <1>4, <1>5, <1>6, <2>3 DEF Turn
    <3>2. new.off >= q.off => new.id < q.id
      BY <1>2, <1>4, <3>1
    <3> QED BY <1>2, <2>3, <3>1, <3>2 DEF Passed
  <2>4. CASE s = new /\ q = rest /\ B < ol.len
    <3>1. ~(new.off >= rest.off)
      BY <1>2, <1>4, <2>4
    <3> QED BY <1>2, <2>4, <3>1 DEF Passed
  <2> QED BY <1>9, <2>1, <2>2, <2>3, <2>4
<1> QED BY <1>13, <1>14, <1>15, <1>16 DEF OrderInv

(* nsendto queues what was read behind the other replies, or gives it up.   *)
LEMMA OrderSendTo ==
  ASSUME TypeOK, PlacesOK, OrderInv, SendNothing \/ SendTo
  PROVE  OrderInv'
<1>1. /\ burst' = burst /\ in' = in /\ rx' = rx /\ rcvbuf' = rcvbuf /\ ol' = ol /\ got' = got /\ out' = out
      /\ wpc' = wpc /\ held' = held /\ missed' = missed /\ spc = "send" /\ spc' = "recv"
      /\ (sndbuf' = sndbuf \/ sndbuf' = Append(sndbuf, text))
  BY DEF SendNothing, SendTo, PutBack, port, worker
<1>2. Reading = {} /\ Reading' = {} /\ Echoed = {text} /\ Echoed' = {} /\ Held' = Held /\ Port' = Port
  BY <1>1 DEF Reading, Echoed, Held, Port
<1>3. text \in Pieces /\ sndbuf \in Seq(Pieces) /\ InTurn(sndbuf, Ahead(missed)) /\ Before(PiecesIn(sndbuf), {text}, Ahead(missed))
  BY <1>1, <1>2, TypeParts DEF ServerType, BufType, OrderInv, BackOrder
<1>4. PiecesIn(sndbuf') \subseteq PiecesIn(sndbuf) \cup {text} /\ InTurn(sndbuf', Ahead(missed))
  <2>1. /\ PiecesIn(Append(sndbuf, text)) = PiecesIn(sndbuf) \cup {text}
        /\ InTurn(Append(sndbuf, text), Ahead(missed)) <=> /\ InTurn(sndbuf, Ahead(missed))
                                                           /\ Before(PiecesIn(sndbuf), {text}, Ahead(missed))
    BY <1>3, PieceAppended, Zenon
  <2> QED BY <1>1, <1>3, <2>1
<1>5. Unread' = Unread /\ Read' \subseteq Read
  BY <1>1, <1>2, <1>4 DEF Unread, Read
<1>6. PortOrder' /\ PassOrder'
  BY <1>1, <1>2, <1>5, OrderParts DEF OrderInv
<1>7. ServerOrder'
  BY <1>1, <1>2, <1>5 DEF OrderInv, ServerOrder
<1>8. BackOrder'
  BY <1>1, <1>2, <1>4 DEF OrderInv, BackOrder, Before
<1> QED BY <1>6, <1>7, <1>8 DEF OrderInv

(* Every step keeps the order.                                              *)
LEMMA OrderKept ==
  ASSUME EchoInv, OrderInv, [Next]_vars
  PROVE  OrderInv'
<1>1. TypeOK /\ PlacesOK /\ Drained
  BY DEF EchoInv
<1>2. CASE Network
  BY <1>1, <1>2, OrderSend, OrderOther DEF Network
<1>3. CASE MainStep
  BY <1>1, <1>3, OrderMainRx, OrderMainTx, OrderMainTimer DEF MainStep
<1>4. CASE WorkerStep
  <2>1. CASE Poll
    <3>1. burst = <<>>
      BY <1>1, <2>1 DEF Poll, Drained
    <3> QED BY <1>1, <2>1, <3>1, OrderPoll
  <2>2. CASE ~Poll
    BY <1>1, <1>4, <2>2, OrderAnswer, OrderUdpProcess, OrderPlain, OrderOutTake, OrderOutMiss, OrderOutSend DEF WorkerStep
  <2> QED BY <2>1, <2>2
<1>5. CASE ServerStep
  BY <1>1, <1>5, OrderPlain, OrderRecvTake, OrderRecvCopy, OrderSendTo DEF ServerStep
<1>6. CASE UNCHANGED vars
  BY <1>1, <1>6, OrderPlain
<1> QED BY <1>2, <1>3, <1>4, <1>5, <1>6 DEF Next

(* While udp_out has always found a client's MAC its replies keep their     *)
(* order: what nrecvfrom puts back goes behind what has come in, so rcvbuf   *)
(* holds the rests of one round, then those of the next, each by the         *)
(* numbers of their datagrams; whatever was read earlier starts earlier in  *)
(* its datagram or belongs to an earlier one; and the rings on the way back *)
(* are first in, first out.                                                 *)
THEOREM UdpRepliesInOrder == Spec => []OrderedUnlessMissed
<1>1. EchoInv /\ OrderInv /\ [Next]_vars => (EchoInv /\ OrderInv)'
  <2> SUFFICES ASSUME EchoInv, OrderInv, [Next]_vars PROVE EchoInv' /\ OrderInv'
    OBVIOUS
  <2>1. TypeOK' /\ PlacesOK'
    BY PlacesKept DEF EchoInv
  <2> QED BY <2>1, OnceKept, DrainedKept, OrderKept DEF EchoInv
<1>2. EchoInv /\ OrderInv => OrderedUnlessMissed
  <2> SUFFICES ASSUME EchoInv, OrderInv, NEW c \in Client \ missed,
                      NEW i \in 1 .. Len(got[c]), NEW j \in 1 .. Len(got[c]), i < j
               PROVE  /\ got[c][i].id = got[c][j].id => got[c][i].off < got[c][j].off
                      /\ got[c][i].off = got[c][j].off => got[c][i].id < got[c][j].id
    BY DEF OrderedUnlessMissed
  <2>1. got[c][i].who = c /\ got[c][j].who = c
    BY ReadIs DEF EchoInv
  <2>2. <<got[c][i], got[c][j]>> \in Ahead(missed)
    BY DEF OrderInv, BackOrder, InTurn
  <2> QED BY <2>1, <2>2 DEF Ahead
<1> QED BY <1>1, <1>2, EchoInvInit, OrderInit, PTL DEF Spec

-----------------------------------------------------------------------------
(* Replies *)

(* Two replies do not overlap, not even behind the payload. *)
LEMMA RepliesApart ==
  ASSUME EchoInv, NEW d \in 1 .. Len(dgram), NEW b \in Nat \ {0}, NEW c \in Client,
         NEW i \in 1 .. Len(got[c]), NEW j \in 1 .. Len(got[c]),
         At(got[c][i], d, b - B, b), At(got[c][j], d, b - B, b)
  PROVE  i = j
<1>1. TypeOK /\ Total(d, b) <= 1 /\ got \in [Client -> Seq(Pieces)]
  BY TypeParts DEF EchoInv, Once, OnceAt, SentType
<1> DEFINE R == HitsR(got, d, b - B, b)
<1>2. <<c, i>> \in R /\ <<c, j>> \in R
  <2>1. <<c, i>> \in RepliesOf(got) /\ <<c, j>> \in RepliesOf(got)
    BY ReplyIs
  <2> QED BY <2>1 DEF HitsR
<1>3. IsFiniteSet(R) /\ Cardinality(R) = RepliesAt(got, d, b - B, b)
  BY <1>1, RepliesFinite DEF RepliesAt
<1>4. RepliesAt(got, d, b - B, b) <= 1 /\ RepliesAt(got, d, b - B, b) \in Nat
  <2>1. FramesAt(out, d, b - B, b) \in Nat /\ RepliesAt(got, d, b - B, b) \in Nat
    <3>1. CountsNat(d, b)
      BY <1>1, CountsAreNat DEF TotalNat
    <3> QED BY <3>1 DEF CountsNat
  <2>2. AtOut(d, b) = FramesAt(out, d, b - B, b) + RepliesAt(got, d, b - B, b)
    BY DEF AtOut
  <2>3. /\ AtPort(d, b) \in Nat /\ AtServer(d, b) \in Nat /\ AtSocket(d, b) \in Nat /\ AtOut(d, b) \in Nat
    BY <1>1, PartsAreNat
  <2>4. AtOut(d, b) <= 1
    BY <1>1, <2>3 DEF Total
  <2> QED BY <2>1, <2>2, <2>4
<1> HIDE DEF R
<1>5. Cardinality(R) # 0
  BY <1>2, <1>3, FS_EmptySet
<1>6. Cardinality(R) = 1
  BY <1>3, <1>4, <1>5
<1>7. \E x : R = {x}
  BY <1>3, <1>6, FS_Singleton
<1>8. <<c, i>> = <<c, j>>
  BY <1>2, <1>7
<1> QED BY <1>8

(* The bytes that the buffers of a datagram's replies have room for are     *)
(* different ones; fewer than B of them lie behind what ol->length counts.  *)
LEMMA RepliesFit ==
  ASSUME EchoInv, NEW c \in Client, NEW d \in 1 .. Len(dgram)
  PROVE  Cardinality({i \in 1 .. Len(got[c]) : got[c][i].id = d}) * B < dgram[d].n + H + B
<1> DEFINE g == got[c]
           r == {i \in 1 .. Len(g) : g[i].id = d}
           n == dgram[d].n
           top == n + H + B - 1
           f == [y \in r \X (1 .. B) |-> g[y[1]].off + y[2]]
<1>1. TypeOK /\ PlacesOK /\ SentType
  BY TypeParts DEF EchoInv
<1>2. g \in Seq(Pieces) /\ Len(g) \in Nat /\ \A i \in 1 .. Len(g) : Echo(g[i], dgram) /\ g[i] \in Pieces
  <2>1. g \in Seq(Pieces) /\ EchoReplies(got, dgram)
    BY <1>1 DEF SentType, PlacesOK, BackOK
  <2> QED BY <2>1 DEF EchoReplies
<1>3. n \in Nat /\ H \in Nat /\ H > 0 /\ B \in Nat /\ B > 0 /\ d \in Nat
  BY <1>1, KnownLength, Sizes
<1> HIDE DEF g, n
<1>4. top \in Nat /\ 1 .. Len(g) \in SUBSET Nat
  BY <1>3
<1>5. IsFiniteSet(r) /\ Cardinality(r) \in Nat
  BY <1>2, IndexSetFinite
<1>6. \A i \in r : g[i].off \in Nat /\ g[i].off < n + H /\ i \in 1 .. Len(g) /\ g[i].id = d
  <2>1. \A i \in r : Echo(g[i], dgram) /\ g[i] \in Pieces /\ i \in 1 .. Len(g) /\ g[i].id = d
    BY <1>2
  <2>2. \A i \in r : g[i].off \in Nat
    BY <2>1, Fields
  <2> QED BY <2>1, <2>2 DEF Echo, n
<1> HIDE DEF r
<1>7. f \in [r \X (1 .. B) -> 1 .. top]
  <2>1. \A y \in r \X (1 .. B) : y[1] \in r /\ y[2] \in 1 .. B
    OBVIOUS
  <2>2. \A y \in r \X (1 .. B) : g[y[1]].off + y[2] \in 1 .. top
    BY <1>3, <1>6, <2>1
  <2> HIDE DEF top
  <2> QED BY <2>2
<1>8. ASSUME NEW y \in r \X (1 .. B), NEW z \in r \X (1 .. B), f[y] = f[z] PROVE y = z
  <2> DEFINE i == y[1]
             j == z[1]
             b == g[i].off + y[2]
  <2>1. i \in r /\ j \in r /\ y[2] \in 1 .. B /\ z[2] \in 1 .. B /\ y = <<i, y[2]>> /\ z = <<j, z[2]>>
    OBVIOUS
  <2>2. b = g[j].off + z[2]
    BY <1>8
  <2> HIDE DEF i, j
  <2>3. b \in Nat \ {0}
    BY <1>3, <1>6, <2>1, SMTT(30)
  <2>4. At(g[i], d, b - B, b)
    BY <1>3, <1>6, <2>1, SMTT(30) DEF At
  <2> HIDE DEF b
  <2>5. At(g[j], d, b - B, b)
    <3>1. g[j].off \in Nat /\ g[j].id = d /\ z[2] \in 1 .. B
      BY <1>6, <2>1
    <3>2. b - B <= g[j].off /\ g[j].off < b
      BY <1>3, <2>2, <3>1
    <3> QED BY <3>1, <3>2 DEF At
  <2>6. i = j
    <3>1. i \in 1 .. Len(got[c]) /\ j \in 1 .. Len(got[c])
      BY <1>6, <2>1 DEF g
    <3> QED BY <2>3, <2>4, <2>5, <3>1, RepliesApart DEF g
  <2>7. y[2] = z[2]
    BY <1>6, <2>1, <2>2, <2>6 DEF b
  <2> QED BY <2>1, <2>6, <2>7
<1>9. IsFiniteSet(1 .. top) /\ Cardinality(1 .. top) = top /\ IsFiniteSet(1 .. B) /\ Cardinality(1 .. B) = B
  <2> HIDE DEF top
  <2> QED BY <1>3, <1>4, FS_Interval
<1>10. Cardinality(r \X (1 .. B)) <= top
  <2>1. f \in Injection(r \X (1 .. B), 1 .. top)
    <3> HIDE DEF f, top
    <3> QED BY <1>7, <1>8 DEF Injection, IsInjective
  <2> HIDE DEF f, top
  <2> QED BY <1>9, <2>1, FS_Injection
<1>11. Cardinality(r \X (1 .. B)) = Cardinality(r) * B
  <2>1. Cardinality(r \X (1 .. B)) = Cardinality(r) * Cardinality(1 .. B)
    BY <1>5, <1>9, FS_Product
  <2> QED BY <1>9, <2>1
<1>12. Cardinality(r) * B <= top
  BY <1>10, <1>11
<1>13. Cardinality(r) * B \in Int
  BY <1>3, <1>5
<1> DEFINE m == Cardinality(r) * B
<1>14. m < n + H + B
  <2> HIDE DEF m
  <2>1. m \in Int /\ m <= top
    BY <1>12, <1>13 DEF m
  <2> QED BY <1>3, <2>1
<1> QED BY <1>14 DEF g, r, n

(* Although nrecvfrom keeps one clientaddr and nsendto takes it from there, *)
(* a reply goes to the client it answers; a datagram of n bytes has at most *)
(* (n + H) / B replies, rounded up, and only one behind its payload is      *)
(* empty; and replies keep their order unless a MAC was missing.            *)
THEOREM UdpRepliesRight == Spec => []RepliesRight
<1>1. EchoInv /\ OrderedUnlessMissed => RepliesRight
  <2> SUFFICES ASSUME EchoInv, OrderedUnlessMissed PROVE RepliesRight
    OBVIOUS
  <2>1. TypeOK /\ PlacesOK /\ SentType
    BY TypeParts DEF EchoInv
  <2>2. ASSUME NEW c \in Client, NEW i \in 1 .. Len(got[c])
        PROVE  Echo(got[c][i], dgram) /\ got[c][i].who = c /\ got[c][i] \in Pieces
    <3>1. got[c] \in Seq(Pieces) /\ EchoReplies(got, dgram)
      BY <2>1 DEF SentType, PlacesOK, BackOK
    <3> QED BY <3>1 DEF EchoReplies
  <2>3. RepliesToSender
    BY <2>2 DEF RepliesToSender, Echo
  <2>4. ASSUME NEW c \in Client, NEW d \in 1 .. Len(dgram), NEW i \in 1 .. Len(got[c]),
               got[c][i].id = d, got[c][i].len = 0
        PROVE  got[c][i].off >= dgram[d].n
    <3> DEFINE p == got[c][i]
    <3>1. p.off \in Nat /\ dgram[d].n \in Nat /\ B \in Nat /\ B > 0
      BY <2>1, <2>2, KnownLength, Fields, Sizes
    <3>2. p.len = IF dgram[d].n < p.off THEN 0 ELSE AtMost(B, dgram[d].n - p.off)
      BY <2>2, <2>4 DEF Echo
    <3>3. p.len = 0
      BY <2>4
    <3> HIDE DEF p
    <3>4. p.off >= dgram[d].n
      BY <3>1, <3>2, <3>3 DEF AtMost
    <3> QED BY <3>4 DEF p
  <2>5. RepliesBounded
    <3> SUFFICES ASSUME NEW c \in Client, NEW d \in 1 .. Len(dgram)
                 PROVE  /\ Cardinality({i \in 1 .. Len(got[c]) : got[c][i].id = d}) * B < dgram[d].n + H + B
                        /\ \A i \in {k \in 1 .. Len(got[c]) : got[c][k].id = d} :
                             got[c][i].len = 0 => got[c][i].off >= dgram[d].n
      BY DEF RepliesBounded
    <3>1. \A i \in {k \in 1 .. Len(got[c]) : got[c][k].id = d} :
            got[c][i].len = 0 => got[c][i].off >= dgram[d].n
      BY <2>4
    <3> QED BY <3>1, RepliesFit
  <2> QED BY <2>1, <2>3, <2>5 DEF RepliesRight
<1> QED BY <1>1, UdpEchoInv, UdpRepliesInOrder, PTL

=============================================================================
