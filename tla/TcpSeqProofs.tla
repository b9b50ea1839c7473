---------------------------- MODULE TcpSeqProofs ----------------------------
(***************************************************************************)
(* Proofs about the stream of lessons 08 and 09, for every size of the     *)
(* number space, of segments and of rings and for any number of losses,    *)
(* repeats and failed allocations.                                         *)
(***************************************************************************)
EXTENDS TcpSeqProps, TLAPS, FiniteSetTheorems

-----------------------------------------------------------------------------
(* The invariant of what is counted and acknowledged *)

\* Bytes that follow each other.
Run(d) == \A k \in 1 .. Len(d) : d[k] = d[1] + (k - 1)

\* What the client says: a SYN has its initial number, and a segment has bytes
\* that follow each other and were sent, at least one if it has PSH.
FromClient(m) ==
  /\ "syn" \in m.flags => m.seq = isn
  /\ "psh" \in m.flags => m.data # <<>>
  /\ m.data \in Seq(1 .. pnxt) /\ Run(m.data)

\* An acknowledgement of no more than what was counted.
Told(ack) == ~twice => Covers(ack) <= Cardinality(taken)

Answer == [flags : Flags, seqnum : Number, acknum : Number, data : Data]
Frame == [to : {"client", "server"}, flags : Flags, seq : Number, ack : Number, data : Data]
MsgOK(m) == m \in Frame /\ IF m.to = "server" THEN FromClient(m) ELSE Told(m.ack)
FragOK(f) == f \in Answer /\ Told(f.acknum)

NetOK == \A m \in net : MsgOK(m)
RingOK == sndbuf \in Seq(Answer) /\ Len(sndbuf) <= BufSize /\ \A i \in 1 .. Len(sndbuf) : FragOK(sndbuf[i])
StreamOK ==
  /\ status \in {"none", "LISTEN", "SYN_RCVD", "ESTABLISHED", "CLOSE_WAIT"}
  /\ snd_nxt \in Number /\ rcv_nxt \in Number /\ rcvbuf \in 0 .. BufSize
  /\ taken \subseteq 1 .. pnxt /\ twice \in BOOLEAN /\ disorder \in BOOLEAN
ClientOK ==
  /\ isn \in Number /\ pst \in {"closed", "syn", "open", "fin"}
  /\ una \in 0 .. pnxt /\ pnxt \in 0 .. MaxBytes /\ prcv \in Number /\ got \in Data
  /\ piped \in BOOLEAN
RestOK ==
  /\ lesson \in Lessons /\ crashed \in BOOLEAN /\ arp \in {"unknown", "asked", "known"}
  /\ lost \subseteq {"nomem", "synack", "answer"} /\ faults \in 0 .. MaxFaults

\* rcv_nxt is as far from the client's number as bytes were counted.
CountInv ==
  /\ status \in {"none", "LISTEN", "SYN_RCVD"} => taken = {}
  /\ status \in {"SYN_RCVD", "ESTABLISHED", "CLOSE_WAIT"} /\ lesson = 9 /\ ~twice
       => Covers(rcv_nxt) = Cardinality(taken) % SeqSpace
  /\ ~disorder => ~twice /\ taken = 1 .. Cardinality(taken)

AckInv == NetOK /\ RingOK /\ StreamOK /\ ClientOK /\ RestOK /\ CountInv

-----------------------------------------------------------------------------
(* Numbers *)

(* The sizes are numbers. *)
LEMMA Sizes ==
  /\ SeqSpace \in Nat /\ SeqSpace > 0 /\ BufSize \in Nat /\ BufSize > 0 /\ MaxBytes \in Nat
  /\ Mss \in Nat /\ MaxFaults \in Nat /\ Lessons \subseteq {8, 9}
  /\ PeerIsn \subseteq Number /\ OwnIss \subseteq Number /\ 0 \in Number
BY SizeAssumption DEF Number

(* Numbers that differ by a multiple of SeqSpace have the same remainder. *)
LEMMA SameMod ==
  ASSUME NEW x \in Int, NEW y \in Int, NEW k \in Int, x = y + SeqSpace * k
  PROVE  x % SeqSpace = y % SeqSpace
<1> USE Sizes
<1> DEFINE S == SeqSpace
           q == x \div S
           r == y \div S
           a == x % S
           b == y % S
<1>1. /\ q \in Int /\ r \in Int /\ a \in 0 .. S - 1 /\ b \in 0 .. S - 1
      /\ x = S * q + a /\ y = S * r + b
  OBVIOUS
<1> DEFINE j == k + r - q
<1>2. a - b = S * j /\ j \in Int
  <2> HIDE DEF q, r, a, b
  <2>1. S * q + a = S * r + b + S * k
    BY <1>1
  <2>2. S * j = S * k + S * r - S * q
    BY <1>1
  <2> QED BY <1>1, <2>1, <2>2
<1> HIDE DEF q, r, a, b, j
<1>3. CASE j >= 1
  BY <1>1, <1>2, <1>3
<1>4. CASE j <= -1
  BY <1>1, <1>2, <1>4
<1>5. CASE j = 0
  BY <1>1, <1>2, <1>5 DEF a, b
<1> QED BY <1>2, <1>3, <1>4, <1>5

(* The remainder is a sequence number; a number that is one is itself. *)
LEMMA ModIs ==
  ASSUME NEW x \in Int
  PROVE  /\ x % SeqSpace \in Number /\ x % SeqSpace \in Nat
         /\ x \in Number => x % SeqSpace = x
         /\ x \in Nat => x % SeqSpace <= x
         /\ \E k \in Int : x = (x % SeqSpace) + SeqSpace * k
<1> USE Sizes
<1>1. x = SeqSpace * (x \div SeqSpace) + (x % SeqSpace) /\ x \div SeqSpace \in Int
  OBVIOUS
<1>2. x % SeqSpace \in Number /\ x % SeqSpace \in Nat
  BY DEF Number
<1>3. x \in Number => x % SeqSpace = x
  BY DEF Number
<1>4. x \in Nat => x % SeqSpace <= x
  OBVIOUS
<1>5. \E k \in Int : x = (x % SeqSpace) + SeqSpace * k
  BY <1>1, <1>2
<1> QED BY <1>2, <1>3, <1>4, <1>5

(* rcv_nxt moves as far as the count does. *)
LEMMA CoversMoves ==
  ASSUME NEW r \in Number, isn \in Number, NEW n \in Nat, NEW t \in Nat,
         Covers(r) = t % SeqSpace
  PROVE  Covers(Plus(r, n)) = (t + n) % SeqSpace
<1> DEFINE x == r + n
           y == r - isn - 1
           a == x % SeqSpace
           b == t % SeqSpace
           z == a - isn - 1
<1>1. r \in Int /\ isn \in Int /\ x \in Int /\ y \in Int /\ t \in Int
  BY Sizes DEF Number
<1>2. a \in Nat /\ \E k \in Int : x = a + SeqSpace * k
  <2> HIDE DEF x
  <2> QED BY <1>1, ModIs, Zenon
<1>3. \E i \in Int : y = (y % SeqSpace) + SeqSpace * i
  <2> HIDE DEF y
  <2> QED BY <1>1, ModIs, Zenon
<1>4. b \in Nat /\ \E j \in Int : t = b + SeqSpace * j
  BY <1>1, ModIs, Zenon
<1>5. y % SeqSpace = b
  BY DEF Covers
<1>6. PICK k \in Int : x = a + SeqSpace * k
  BY <1>2
<1>7. PICK i \in Int : y = b + SeqSpace * i
  BY <1>3, <1>5
<1>8. PICK j \in Int : t = b + SeqSpace * j
  BY <1>4
<1> HIDE DEF a, b
<1>9. z = (t + n) + SeqSpace * (i - j - k)
  <2>1. SeqSpace * (i - j - k) = SeqSpace * i - SeqSpace * j - SeqSpace * k
    BY Sizes
  <2> QED BY Sizes, <1>1, <1>2, <1>4, <1>6, <1>7, <1>8, <2>1
<1>10. z \in Int /\ t + n \in Int /\ i - j - k \in Int
  BY <1>1, <1>2
<1>11. z % SeqSpace = (t + n) % SeqSpace
  <2> DEFINE c == t + n
             d == i - j - k
  <2> HIDE DEF z, c, d
  <2>1. z \in Int /\ c \in Int /\ d \in Int /\ z = c + SeqSpace * d
    BY <1>9, <1>10 DEF c, d
  <2>2. z % SeqSpace = c % SeqSpace
    BY <2>1, SameMod, Zenon
  <2> QED BY <2>2 DEF c
<1> QED BY <1>11 DEF Covers, Plus, a

(* The acknowledgement of the SYN covers nothing. *)
LEMMA CoversSyn ==
  ASSUME isn \in Number
  PROVE  Covers(Plus(isn, 1)) = 0 /\ Plus(isn, 1) \in Number
<1> DEFINE x == isn + 1
           a == x % SeqSpace
           z == a - isn - 1
<1>1. isn \in Int /\ x \in Int
  BY Sizes DEF Number
<1>2. a \in Number /\ a \in Nat /\ \E k \in Int : x = a + SeqSpace * k
  <2> HIDE DEF x
  <2> QED BY <1>1, ModIs, Zenon
<1>3. PICK k \in Int : x = a + SeqSpace * k
  BY <1>2
<1> HIDE DEF a
<1>4. z = 0 + SeqSpace * (0 - k) /\ z \in Int /\ 0 - k \in Int
  <2>1. SeqSpace * (0 - k) = 0 - SeqSpace * k
    BY Sizes
  <2> QED BY Sizes, <1>1, <1>2, <1>3, <2>1
<1>5. z % SeqSpace = 0
  <2>1. z % SeqSpace = 0 % SeqSpace
    <3> DEFINE d == 0 - k
    <3> HIDE DEF z, d
    <3>1. z \in Int /\ 0 \in Int /\ d \in Int /\ z = 0 + SeqSpace * d
      BY <1>4 DEF d
    <3> QED BY <3>1, SameMod, Zenon
  <2>2. 0 % SeqSpace = 0
    BY Sizes
  <2> QED BY <2>1, <2>2
<1> QED BY <1>2, <1>5 DEF Covers, Plus, a

-----------------------------------------------------------------------------
(* Bytes *)

(* Bytes that were sent are finitely many. *)
LEMMA CountOf ==
  ASSUME NEW n \in Nat, NEW T \in SUBSET (1 .. n)
  PROVE  IsFiniteSet(T) /\ Cardinality(T) \in Nat /\ Cardinality(T) <= n
<1>1. IsFiniteSet(1 .. n) /\ Cardinality(1 .. n) = n
  BY FS_Interval
<1>2. IsFiniteSet(T) /\ Cardinality(T) <= Cardinality(1 .. n)
  BY <1>1, FS_Subset
<1> QED BY <1>1, <1>2, FS_CardinalityType

(* The bytes of a segment are an interval. *)
LEMMA BytesOf ==
  ASSUME NEW d \in Seq(Nat), d # <<>>, Run(d)
  PROVE  /\ Bytes(d) = d[1] .. d[1] + (Len(d) - 1) /\ d[1] \in Nat /\ Len(d) \in Nat /\ Len(d) > 0
         /\ IsFiniteSet(Bytes(d)) /\ Cardinality(Bytes(d)) = Len(d)
         /\ d[Len(d)] = d[1] + (Len(d) - 1)
<1> DEFINE n == Len(d)
           a == d[1]
<1>1. n \in Nat /\ n > 0 /\ a \in Nat
  OBVIOUS
<1>2. \A k \in 1 .. n : d[k] = a + (k - 1)
  BY DEF Run
<1>3. Bytes(d) = {d[k] : k \in 1 .. n}
  BY DEF Bytes
<1> HIDE DEF n, a
<1>4. Bytes(d) = a .. a + (n - 1)
  <2>1. ASSUME NEW b \in Bytes(d) PROVE b \in a .. a + (n - 1)
    <3>1. PICK k \in 1 .. n : b = d[k]
      BY <1>3
    <3> QED BY <1>1, <1>2, <3>1
  <2>2. ASSUME NEW b \in a .. a + (n - 1) PROVE b \in Bytes(d)
    <3>1. b - a + 1 \in 1 .. n /\ b = a + ((b - a + 1) - 1)
      BY <1>1
    <3>2. d[b - a + 1] = b
      BY <1>2, <3>1
    <3> QED BY <1>3, <3>1, <3>2
  <2> QED BY <2>1, <2>2
<1>5. IsFiniteSet(a .. a + (n - 1)) /\ Cardinality(a .. a + (n - 1)) = n
  <2>1. a \in Int /\ a + (n - 1) \in Int /\ ~(a > a + (n - 1)) /\ (a + (n - 1)) - a + 1 = n
    BY <1>1
  <2> DEFINE e == a + (n - 1)
  <2> HIDE DEF e
  <2>2. IsFiniteSet(a .. e) /\ Cardinality(a .. e) = IF a > e THEN 0 ELSE e - a + 1
    BY <2>1, FS_Interval DEF e
  <2> QED BY <2>1, <2>2 DEF e
<1>6. d[n] = a + (n - 1)
  BY <1>1, <1>2
<1> QED BY <1>1, <1>4, <1>5, <1>6 DEF n, a

(* What a segment adds to the bytes counted. *)
LEMMA CountGrows ==
  ASSUME NEW p \in Nat, NEW T \in SUBSET (1 .. p), NEW d \in Seq(1 .. p), d # <<>>, Run(d)
  PROVE  /\ T \cup Bytes(d) \subseteq 1 .. p
         /\ Cardinality(T) <= Cardinality(T \cup Bytes(d))
         /\ Bytes(d) \cap T = {} => Cardinality(T \cup Bytes(d)) = Cardinality(T) + Len(d)
<1>1. d \in Seq(Nat) /\ Bytes(d) \subseteq 1 .. p
  BY DEF Bytes
<1>2. IsFiniteSet(Bytes(d)) /\ Cardinality(Bytes(d)) = Len(d) /\ Len(d) \in Nat
  BY <1>1, BytesOf
<1>3. T \cup Bytes(d) \subseteq 1 .. p
  BY <1>1
<1>4. IsFiniteSet(T) /\ IsFiniteSet(T \cup Bytes(d)) /\ Cardinality(T) \in Nat
  BY <1>3, CountOf
<1>5. Cardinality(T) <= Cardinality(T \cup Bytes(d))
  BY <1>4, FS_Subset
<1>6. ASSUME Bytes(d) \cap T = {} PROVE Cardinality(T \cup Bytes(d)) = Cardinality(T) + Len(d)
  <2>1. Cardinality(T \cup Bytes(d)) = Cardinality(T) + Cardinality(Bytes(d)) - Cardinality(T \cap Bytes(d))
    BY <1>2, <1>4, FS_Union
  <2>2. T \cap Bytes(d) = {}
    BY <1>6
  <2>3. Cardinality(T \cap Bytes(d)) = 0
    BY <2>2, FS_EmptySet
  <2> QED BY <1>2, <1>4, <2>1, <2>3
<1> QED BY <1>3, <1>5, <1>6

(* A segment that continues what was counted adds bytes of its own. *)
LEMMA CountContinues ==
  ASSUME NEW t \in Nat, NEW d \in Seq(Nat), d # <<>>, Run(d), d[1] = t + 1
  PROVE  Bytes(d) \cap (1 .. t) = {} /\ (1 .. t) \cup Bytes(d) = 1 .. t + Len(d)
<1>1. Bytes(d) = d[1] .. d[1] + (Len(d) - 1) /\ Len(d) \in Nat /\ Len(d) > 0
  BY BytesOf
<1>2. Bytes(d) = t + 1 .. t + Len(d)
  BY <1>1
<1> DEFINE n == Len(d)
<1> HIDE DEF n
<1>3. n \in Nat /\ Bytes(d) = t + 1 .. t + n
  BY <1>1, <1>2 DEF n
<1> QED BY <1>3 DEF n

(* The positions the client sends. *)
LEMMA PositionsAre ==
  ASSUME NEW f \in Nat, NEW n \in Nat, n > 0
  PROVE  LET d == Positions(f, n)
         IN  d \in Seq(1 .. f + n) /\ d # <<>> /\ Len(d) = n /\ d[1] = f + 1 /\ Run(d)
<1> DEFINE d == Positions(f, n)
<1>1. d = [i \in 1 .. n |-> f + i]
  BY DEF Positions
<1>2. \A i \in 1 .. n : f + i \in 1 .. f + n
  OBVIOUS
<1>3. d \in Seq(1 .. f + n) /\ Len(d) = n
  BY <1>1, <1>2
<1>4. d # <<>>
  BY <1>3
<1>5. \A i \in 1 .. n : d[i] = f + i
  BY <1>1
<1>6. d[1] = f + 1
  BY <1>5
<1> HIDE DEF d
<1>7. Run(d)
  BY <1>3, <1>5, <1>6 DEF Run
<1> QED BY <1>3, <1>4, <1>6, <1>7 DEF d

-----------------------------------------------------------------------------
(* The steps keep the invariant *)

(* What holds of a segment still holds when more has been counted and sent. *)
LEMMA StillOK ==
  ASSUME AckInv, isn' = isn, pnxt' \in 0 .. MaxBytes, pnxt <= pnxt', taken' \subseteq 1 .. pnxt',
         Cardinality(taken) <= Cardinality(taken'), twice => twice'
  PROVE  /\ \A m : MsgOK(m) => MsgOK(m)'
         /\ \A f : FragOK(f) => FragOK(f)'
<1>1. pnxt \in Nat /\ isn \in Number /\ taken \subseteq 1 .. pnxt /\ pnxt' \in Nat
  BY Sizes DEF AckInv, ClientOK, StreamOK
<1>2. Cardinality(taken) \in Nat /\ Cardinality(taken') \in Nat
  BY <1>1, CountOf
<1>3. ASSUME NEW a \in Number, Told(a) PROVE Told(a)'
  <2> SUFFICES ASSUME ~twice' PROVE Covers(a)' <= Cardinality(taken')
    BY DEF Told
  <2>1. Covers(a) <= Cardinality(taken)
    BY <1>3 DEF Told
  <2>2. Covers(a)' = Covers(a)
    BY DEF Covers
  <2>3. Covers(a) \in Nat
    <3>1. a - isn - 1 \in Int
      BY <1>1, Sizes DEF Number
    <3> QED BY <3>1, ModIs DEF Covers
  <2> QED BY <1>2, <2>1, <2>2, <2>3
<1>4. ASSUME NEW m, FromClient(m) PROVE FromClient(m)'
  <2>1. 1 .. pnxt \subseteq 1 .. pnxt'
    BY <1>1
  <2>2. m.data \in Seq(1 .. pnxt')
    <3>1. m.data \in Seq(1 .. pnxt)
      BY <1>4 DEF FromClient
    <3> DEFINE A == 1 .. pnxt
               B == 1 .. pnxt'
               d == m.data
    <3>2. d \in Seq(A) /\ A \subseteq B
      BY <2>1, <3>1
    <3> HIDE DEF A, B, d
    <3>3. d \in Seq(B)
      BY <3>2
    <3> QED BY <3>3 DEF B, d
  <2> QED BY <1>4, <2>2 DEF FromClient, Run
<1>5. \A m : MsgOK(m) => MsgOK(m)'
  <2> SUFFICES ASSUME NEW m, MsgOK(m) PROVE MsgOK(m)'
    OBVIOUS
  <2>1. m \in Frame
    BY DEF MsgOK
  <2>2. m.ack \in Number
    BY <2>1 DEF Frame
  <2> QED BY <1>3, <1>4, <2>1, <2>2 DEF MsgOK, Frame, Data, Flags, Number
<1>6. \A f : FragOK(f) => FragOK(f)'
  <2> SUFFICES ASSUME NEW f, FragOK(f) PROVE FragOK(f)'
    OBVIOUS
  <2>1. f \in Answer
    BY DEF FragOK
  <2>2. f.acknum \in Number
    BY <2>1 DEF Answer
  <2> QED BY <1>3, <2>1, <2>2 DEF FragOK, Answer, Data, Flags, Number
<1> QED BY <1>5, <1>6

(* What the client sends is what it may say. *)
LEMMA SaysOK ==
  ASSUME AckInv, NEW flags \in Flags, NEW seq \in Number, NEW data,
         data = <<>> \/ (data \in Seq(1 .. pnxt) /\ data # <<>> /\ Run(data)),
         "syn" \in flags => seq = isn, "psh" \in flags => data # <<>>
  PROVE  \A a \in Number : MsgOK(Segment("server", flags, seq, a, data))
<1> SUFFICES ASSUME NEW a \in Number PROVE MsgOK(Segment("server", flags, seq, a, data))
  OBVIOUS
<1> DEFINE m == Segment("server", flags, seq, a, data)
<1>1. m = [to |-> "server", flags |-> flags, seq |-> seq, ack |-> a, data |-> data]
  BY DEF Segment
<1>2. data \in Seq(1 .. pnxt) /\ Run(data)
  <2>1. CASE data = <<>>
    BY <2>1 DEF Run
  <2> QED BY <2>1
<1>3. data \in Data
  <2>1. pnxt \in 0 .. MaxBytes
    BY DEF AckInv, ClientOK
  <2>2. 1 .. pnxt \subseteq 1 .. MaxBytes
    BY <2>1, Sizes
  <2> DEFINE A == 1 .. pnxt
             B == 1 .. MaxBytes
  <2>3. data \in Seq(A) /\ A \subseteq B
    BY <1>2, <2>2
  <2> HIDE DEF A, B
  <2>4. data \in Seq(B)
    BY <2>3
  <2> QED BY <2>4 DEF B, Data
<1>4. m \in Frame
  BY <1>1, <1>3 DEF Frame
<1>5. FromClient(m)
  BY <1>1, <1>2 DEF FromClient
<1> HIDE DEF m
<1>6. m.to = "server"
  BY <1>1
<1> QED BY <1>4, <1>5, <1>6 DEF MsgOK, m

(* Sums of numbers are numbers. *)
LEMMA PlusIs ==
  ASSUME NEW a \in Number, NEW n \in Nat
  PROVE  Plus(a, n) \in Number
<1> DEFINE x == a + n
<1>1. x \in Int
  BY Sizes DEF Number
<1> HIDE DEF x
<1>2. x % SeqSpace \in Number
  BY <1>1, ModIs, Zenon
<1> QED BY <1>2 DEF Plus, x

(* The client connects, sends, repeats and ends. *)
LEMMA ClientKeeps ==
  ASSUME AckInv, Connect \/ SendFin \/ \E n \in 1 .. Mss : SendData(n) \/ Resend(n)
  PROVE  AckInv'
<1>1. NetOK /\ RingOK /\ StreamOK /\ ClientOK /\ RestOK /\ CountInv
  BY DEF AckInv
<1>2. UNCHANGED <<lesson, crashed, stream, arp, isn, una, prcv, got, counted, lost, faults>>
  BY DEF Connect, SendFin, SendData, Resend, client
<1>3. UNCHANGED <<status, snd_nxt, rcv_nxt, sndbuf, rcvbuf, taken, twice, disorder>>
  BY <1>2 DEF stream, counted
<1>4. /\ isn \in Number /\ una \in 0 .. pnxt /\ pnxt \in 0 .. MaxBytes /\ pnxt \in Nat /\ una \in Nat
      /\ prcv \in Number /\ piped \in BOOLEAN
  BY <1>1, Sizes DEF ClientOK
<1>5. pnxt' \in 0 .. MaxBytes /\ pnxt <= pnxt'
  <2>1. CASE UNCHANGED pnxt
    BY <1>4, <2>1
  <2>2. CASE \E n \in 1 .. Mss : SendData(n)
    <3>1. PICK n \in 1 .. Mss : pnxt + n <= MaxBytes /\ pnxt' = pnxt + n
      BY <2>2 DEF SendData
    <3> QED BY <1>4, <3>1, Sizes
  <2> QED BY <2>1, <2>2 DEF Connect, SendFin, Resend, client
<1>6. taken' \subseteq 1 .. pnxt'
  <2>1. taken \subseteq 1 .. pnxt
    BY <1>1 DEF StreamOK
  <2>2. 1 .. pnxt \subseteq 1 .. pnxt'
    BY <1>4, <1>5
  <2> QED BY <1>3, <2>1, <2>2
<1>7. Cardinality(taken) <= Cardinality(taken')
  <2>1. taken \subseteq 1 .. pnxt
    BY <1>1 DEF StreamOK
  <2>2. Cardinality(taken) \in Nat
    BY <1>4, <2>1, CountOf
  <2> QED BY <1>3, <2>2
<1>8. \A m : MsgOK(m) => MsgOK(m)'
  BY <1>2, <1>3, <1>5, <1>6, <1>7, StillOK
<1>9. \A f : FragOK(f) => FragOK(f)'
  BY <1>2, <1>3, <1>5, <1>6, <1>7, StillOK
<1>10. \A n \in 1 .. Mss : n \in Nat /\ n > 0
  BY Sizes
<1>11. pst' \in {"closed", "syn", "open", "fin"} /\ piped' \in BOOLEAN
  <2>1. pst \in {"closed", "syn", "open", "fin"}
    BY <1>1 DEF ClientOK
  <2>2. pst' \in {pst, "syn", "fin"}
    BY DEF Connect, SendFin, SendData, Resend, client
  <2>3. piped' \in BOOLEAN
    BY <1>4 DEF Connect, SendFin, SendData, Resend
  <2> QED BY <2>1, <2>2, <2>3
<1>12. \E m : net' = net \cup {m} /\ MsgOK(m)'
  <2> USE DEF Says, Flags
  <2>1. CASE Connect
    <3>1. net' = net \cup {Segment("server", {"syn"}, isn, prcv, <<>>)}
      BY <2>1 DEF Connect
    <3>2. MsgOK(Segment("server", {"syn"}, isn, prcv, <<>>))
      BY <1>4, SaysOK
    <3> QED BY <1>8, <3>1, <3>2
  <2>2. CASE SendFin
    <3>1. net' = net \cup {Segment("server", {"ack", "fin"}, NumberOf(pnxt + 1), prcv, <<>>)}
      BY <2>2 DEF SendFin
    <3>2. NumberOf(pnxt + 1) \in Number
      BY <1>4, PlusIs DEF NumberOf
    <3>3. MsgOK(Segment("server", {"ack", "fin"}, NumberOf(pnxt + 1), prcv, <<>>))
      BY <1>4, <3>2, SaysOK
    <3> QED BY <1>8, <3>1, <3>3
  <2>3. ASSUME NEW n \in 1 .. Mss, SendData(n)
        PROVE  \E m : net' = net \cup {m} /\ MsgOK(m)'
    <3> DEFINE d == Positions(pnxt, n)
               m == Segment("server", {"ack", "psh"}, NumberOf(pnxt + 1), prcv, d)
    <3>1. net' = net \cup {m} /\ pnxt' = pnxt + n
      BY <2>3 DEF SendData
    <3>2. d \in Seq(1 .. pnxt') /\ d # <<>> /\ Run(d)
      BY <1>4, <1>10, <3>1, PositionsAre
    <3>3. NumberOf(pnxt + 1) \in Number
      BY <1>4, PlusIs DEF NumberOf
    <3>4. d \in Data
      <4>1. 1 .. pnxt' \subseteq 1 .. MaxBytes
        BY <1>5, Sizes
      <4> DEFINE A == 1 .. pnxt'
                 B == 1 .. MaxBytes
      <4>2. d \in Seq(A) /\ A \subseteq B
        BY <3>2, <4>1
      <4> HIDE DEF A, B, d
      <4>3. d \in Seq(B)
        BY <4>2
      <4> QED BY <4>3 DEF B, Data
    <3> HIDE DEF d
    <3>5. PICK x : x = m
      OBVIOUS
    <3>6. x = [to |-> "server", flags |-> {"ack", "psh"}, seq |-> NumberOf(pnxt + 1), ack |-> prcv,
               data |-> d]
      BY <3>5 DEF Segment
    <3>7. x \in Frame
      BY <1>4, <3>3, <3>4, <3>6 DEF Frame
    <3>8. /\ x.to = "server" /\ x.data \in Seq(1 .. pnxt') /\ x.data # <<>> /\ Run(x.data)
          /\ "syn" \notin x.flags
      BY <3>2, <3>6
    <3>9. FromClient(x)'
      BY <3>8 DEF FromClient, Run
    <3>10. MsgOK(x)'
      BY <3>7, <3>8, <3>9 DEF MsgOK, Frame, Data, Flags, Number
    <3> QED BY <3>1, <3>5, <3>10
  <2>4. ASSUME NEW n \in 1 .. Mss, Resend(n)
        PROVE  \E m : net' = net \cup {m} /\ MsgOK(m)'
    <3> DEFINE d == Positions(una, n)
               m == Segment("server", {"ack", "psh"}, NumberOf(una + 1), prcv, d)
    <3>1. net' = net \cup {m} /\ una + n <= pnxt
      BY <2>4 DEF Resend
    <3>2. d \in Seq(1 .. una + n) /\ d # <<>> /\ Run(d)
      BY <1>4, <1>10, <3>1, PositionsAre
    <3>3. NumberOf(una + 1) \in Number
      BY <1>4, PlusIs DEF NumberOf
    <3>4. d \in Seq(1 .. pnxt)
      <4>1. 1 .. una + n \subseteq 1 .. pnxt
        BY <1>4, <3>1, Sizes
      <4> DEFINE A == 1 .. una + n
                 B == 1 .. pnxt
      <4>2. d \in Seq(A) /\ A \subseteq B
        BY <3>2, <4>1
      <4> HIDE DEF A, B, d
      <4>3. d \in Seq(B)
        BY <4>2
      <4> QED BY <4>3 DEF B
    <3> HIDE DEF d
    <3>5. MsgOK(m)
      BY <1>4, <3>2, <3>3, <3>4, SaysOK
    <3> QED BY <1>8, <3>1, <3>5
  <2> QED BY <2>1, <2>2, <2>3, <2>4
<1>13. NetOK'
  BY <1>1, <1>8, <1>12 DEF NetOK
<1>14. RingOK'
  BY <1>1, <1>3, <1>9 DEF RingOK, Answer, Flags, Number, Data
<1>15. StreamOK' /\ RestOK'
  BY <1>1, <1>2, <1>3, <1>6 DEF StreamOK, RestOK, Number
<1>16. ClientOK'
  <2>1. una' \in 0 .. pnxt'
    BY <1>2, <1>4, <1>5
  <2> QED BY <1>1, <1>2, <1>5, <1>11, <2>1 DEF ClientOK, Number, Data
<1>17. CountInv'
  BY <1>1, <1>2, <1>3 DEF CountInv, Covers
<1> QED BY <1>13, <1>14, <1>15, <1>16, <1>17 DEF AckInv

(* The client takes a segment of the server. *)
LEMMA ReceiveKeeps ==
  ASSUME AckInv, NEW m \in net, NEW rest \in SUBSET net, ClientReceives(m, rest),
         faults' \in 0 .. MaxFaults
  PROVE  AckInv'
<1>1. NetOK /\ RingOK /\ StreamOK /\ ClientOK /\ RestOK /\ CountInv
  BY DEF AckInv
<1>2. /\ UNCHANGED <<lesson, crashed, arp, isn, pnxt, piped, lost>>
      /\ UNCHANGED <<status, snd_nxt, rcv_nxt, sndbuf, rcvbuf, taken, twice, disorder>>
  BY DEF ClientReceives, stream, counted
<1>3. /\ isn \in Number /\ una \in 0 .. pnxt /\ pnxt \in 0 .. MaxBytes /\ pnxt \in Nat /\ una \in Nat
      /\ prcv \in Number /\ got \in Data /\ pst \in {"closed", "syn", "open", "fin"}
      /\ taken \subseteq 1 .. pnxt
  BY <1>1, Sizes DEF ClientOK, StreamOK
<1>4. \A x : MsgOK(x) => MsgOK(x)'
  <2>1. Cardinality(taken) \in Nat
    BY <1>3, CountOf
  <2> QED BY <1>2, <1>3, <2>1, StillOK
<1>5. \A f : FragOK(f) => FragOK(f)'
  <2>1. Cardinality(taken) \in Nat
    BY <1>3, CountOf
  <2> QED BY <1>2, <1>3, <2>1, StillOK
<1>6. m \in Frame /\ m.seq \in Number /\ m.ack \in Number /\ m.data \in Data /\ Len(m.data) \in Nat
  <2>1. m \in Frame
    BY <1>1 DEF NetOK, MsgOK
  <2>2. m.seq \in Number /\ m.ack \in Number /\ m.data \in Data
    BY <2>1 DEF Frame
  <2> QED BY <2>1, <2>2 DEF Data
<1>7. Covers(m.ack) \in Nat
  <2>1. m.ack - isn - 1 \in Int
    BY <1>3, <1>6, Sizes DEF Number
  <2> QED BY <2>1, ModIs DEF Covers
<1>8. ClientTakes(m, rest)
  BY DEF ClientReceives
<1>9. NetOK' /\ ClientOK'
  <2>1. CASE "syn" \in m.flags
    <3> DEFINE s == Segment("server", {"ack"}, NumberOf(1), Plus(m.seq, 1), <<>>)
    <3>1. /\ net' = rest \cup {s} /\ una' = una /\ got' = got
          /\ pst' \in {pst, "open"} /\ prcv' \in {prcv, Plus(m.seq, 1)}
      BY <1>8, <2>1 DEF ClientTakes
    <3>2. NumberOf(1) \in Number /\ Plus(m.seq, 1) \in Number
      BY <1>3, <1>6, PlusIs DEF NumberOf
    <3>3. MsgOK(s)
      BY <3>2, SaysOK DEF Flags
    <3> HIDE DEF s
    <3>4. NetOK'
      <4>1. PICK x : x = s
        OBVIOUS
      <4>2. MsgOK(x)' /\ net' = rest \cup {x}
        BY <1>4, <3>1, <3>3, <4>1
      <4> QED BY <1>1, <1>4, <4>2 DEF NetOK
    <3>5. ClientOK'
      BY <1>1, <1>2, <1>3, <3>1, <3>2 DEF ClientOK, Number, Data
    <3> QED BY <3>4, <3>5
  <2>2. CASE "syn" \notin m.flags
    <3>1. net' = rest /\ pst' = pst
      BY <1>8, <2>2 DEF ClientTakes
    <3>2. NetOK'
      BY <1>1, <1>4, <3>1 DEF NetOK
    <3>3. una' \in 0 .. pnxt
      <4>1. una' = una \/ (Covers(m.ack) <= pnxt /\ una' = Covers(m.ack))
        BY <1>8, <2>2 DEF ClientTakes
      <4> QED BY <1>3, <1>7, <4>1
    <3>4. got' \in Data /\ prcv' \in Number
      <4>1. (got' = got /\ prcv' = prcv) \/ (got' = got \o m.data /\ prcv' = Plus(prcv, Len(m.data)))
        BY <1>8, <2>2 DEF ClientTakes
      <4>2. Plus(prcv, Len(m.data)) \in Number
        BY <1>3, <1>6, PlusIs
      <4>3. got \o m.data \in Data
        BY <1>3, <1>6 DEF Data
      <4> QED BY <1>3, <4>1, <4>2, <4>3
    <3>5. ClientOK'
      BY <1>1, <1>2, <1>3, <3>1, <3>3, <3>4 DEF ClientOK, Number, Data
    <3> QED BY <3>2, <3>5
  <2> QED BY <2>1, <2>2
<1>10. RingOK'
  BY <1>1, <1>2, <1>5 DEF RingOK, Answer, Flags, Number, Data
<1>11. StreamOK' /\ RestOK'
  BY <1>1, <1>2 DEF StreamOK, RestOK, Number
<1>12. CountInv'
  BY <1>1, <1>2 DEF CountInv, Covers
<1> QED BY <1>9, <1>10, <1>11, <1>12 DEF AckInv

(* What is in a ring after something was put into it. *)
LEMMA PutIs ==
  ASSUME NEW r \in Seq(Answer), Len(r) <= BufSize, NEW f \in Answer
  PROVE  /\ Put(r, f) \in Seq(Answer) /\ Len(Put(r, f)) <= BufSize
         /\ \A i \in 1 .. Len(Put(r, f)) : Put(r, f)[i] = f \/ \E j \in 1 .. Len(r) : Put(r, f)[i] = r[j]
<1>1. Len(r) \in Nat
  OBVIOUS
<1>2. CASE Len(r) < BufSize
  <2>1. Put(r, f) = Append(r, f)
    BY <1>2 DEF Put
  <2> DEFINE u == Append(r, f)
             L == Len(r)
  <2>2. u \in Seq(Answer) /\ Len(u) = L + 1 /\ u[L + 1] = f /\ \A j \in 1 .. L : u[j] = r[j]
    OBVIOUS
  <2> HIDE DEF u, L
  <2>3. L \in Nat /\ L < BufSize
    BY <1>1, <1>2 DEF L
  <2>4. \A i \in 1 .. L + 1 : i = L + 1 \/ i \in 1 .. L
    BY <2>3
  <2>5. L + 1 <= BufSize
    BY <2>3, Sizes
  <2> QED BY <2>1, <2>2, <2>4, <2>5 DEF u, L
<1>3. CASE ~(Len(r) < BufSize)
  BY <1>3 DEF Put
<1> QED BY <1>2, <1>3

(* A SYN is answered once, and only its acknowledgement moves rcv_nxt. *)
LEMMA ListenKeeps ==
  ASSUME AckInv, NEW m \in net, m.to = "server", NEW nomem \in BOOLEAN, Listening(m, nomem),
         UNCHANGED <<lesson, client>>
  PROVE  RingOK' /\ StreamOK' /\ CountInv'
<1>1. NetOK /\ RingOK /\ StreamOK /\ ClientOK /\ RestOK /\ CountInv
  BY DEF AckInv
<1>2. UNCHANGED <<lesson, isn, pnxt, rcvbuf, taken, twice, disorder>>
  BY DEF Listening, counted, client
<1>3. status \in {"none", "LISTEN"} /\ taken = {}
  BY <1>1 DEF Listening, CountInv
<1>4. /\ isn \in Number /\ pnxt \in Nat /\ snd_nxt \in Number /\ rcv_nxt \in Number
      /\ pnxt \in 0 .. MaxBytes /\ taken \subseteq 1 .. pnxt
  BY <1>1, Sizes DEF ClientOK, StreamOK
<1>5. Cardinality(taken) = 0
  BY <1>3, FS_EmptySet
<1>6. \A f : FragOK(f) => FragOK(f)'
  BY <1>2, <1>4, <1>5, StillOK
<1>7. PICK own \in Number : snd_nxt' = own /\ ng_tcp_handle_listen(m, own, nomem)
  BY <1>4, Sizes DEF Listening
<1>8. CASE "syn" \in m.flags /\ ~nomem
  <2>1. m.seq = isn
    BY <1>1, <1>8 DEF NetOK, MsgOK, FromClient
  <2>2. Covers(Plus(isn, 1)) = 0 /\ Plus(isn, 1) \in Number
    BY <1>4, CoversSyn
  <2>3. PICK f : f = Fragment({"syn", "ack"}, own, Plus(m.seq, 1), <<>>)
    OBVIOUS
  <2>4. sndbuf' = Put(sndbuf, f) /\ status' = "SYN_RCVD" /\ rcv_nxt' = IF lesson = 9 THEN Plus(isn, 1) ELSE rcv_nxt
    BY <1>7, <1>8, <2>1, <2>3 DEF ng_tcp_handle_listen
  <2>5. f \in Answer /\ f.acknum = Plus(isn, 1)
    BY <2>1, <2>2, <2>3 DEF Fragment, Answer, Flags, Data
  <2>6. FragOK(f)
    BY <1>5, <2>2, <2>5 DEF FragOK, Told
  <2>7. RingOK'
    <3>1. /\ sndbuf' \in Seq(Answer) /\ Len(sndbuf') <= BufSize
          /\ \A i \in 1 .. Len(sndbuf') : sndbuf'[i] = f \/ \E j \in 1 .. Len(sndbuf) : sndbuf'[i] = sndbuf[j]
      BY <1>1, <2>4, <2>5, PutIs DEF RingOK
    <3>2. \A i \in 1 .. Len(sndbuf') : FragOK(sndbuf'[i])
      BY <1>1, <2>6, <3>1 DEF RingOK
    <3> QED BY <1>6, <3>1, <3>2 DEF RingOK, Answer, Flags, Number, Data
  <2>8. StreamOK'
    BY <1>1, <1>2, <1>7, <2>2, <2>4 DEF StreamOK, Number
  <2>9. CountInv'
    <3>1. 0 % SeqSpace = 0
      BY Sizes
    <3>2. lesson = 9 => Covers(rcv_nxt)' = 0
      BY <1>2, <2>2, <2>4 DEF Covers
    <3>3. taken' = {} /\ Cardinality(taken') = 0
      BY <1>2, <1>3, <1>5
    <3>4. ~disorder => ~twice /\ taken = 1 .. Cardinality(taken)
      BY <1>1 DEF CountInv
    <3> QED BY <1>2, <3>1, <3>2, <3>3, <3>4 DEF CountInv
  <2> QED BY <2>7, <2>8, <2>9
<1>9. CASE ~("syn" \in m.flags /\ ~nomem)
  <2>1. sndbuf' = sndbuf /\ status' = "LISTEN" /\ rcv_nxt' = rcv_nxt
    BY <1>7, <1>9 DEF ng_tcp_handle_listen
  <2>2. RingOK'
    BY <1>1, <1>6, <2>1 DEF RingOK, Answer, Flags, Number, Data
  <2>3. StreamOK'
    BY <1>1, <1>2, <1>7, <2>1 DEF StreamOK, Number
  <2>4. CountInv'
    BY <1>1, <1>2, <1>3, <2>1 DEF CountInv
  <2> QED BY <2>2, <2>3, <2>4
<1> QED BY <1>8, <1>9

(* rcv_nxt grows by the bytes of a segment and so does the count, unless    *)
(* one of them is counted again; the answers say no more.                   *)
LEMMA EstablishedKeeps ==
  ASSUME AckInv, NEW m \in net, m.to = "server", NEW failed, ng_tcp_handle_established(m, failed),
         UNCHANGED <<lesson, client>>
  PROVE  /\ RingOK' /\ StreamOK' /\ CountInv'
         /\ Cardinality(taken) <= Cardinality(taken') /\ (twice => twice')
<1>1. NetOK /\ RingOK /\ StreamOK /\ ClientOK /\ RestOK /\ CountInv
  BY DEF AckInv
<1>2. UNCHANGED <<lesson, isn, pnxt>> /\ status = "ESTABLISHED" /\ lesson = 9
      /\ status' \in {"ESTABLISHED", "CLOSE_WAIT"}
  BY DEF ng_tcp_handle_established, FinHeard, client
<1>3. /\ isn \in Number /\ pnxt \in Nat /\ snd_nxt \in Number /\ rcv_nxt \in Number
      /\ pnxt \in 0 .. MaxBytes /\ taken \subseteq 1 .. pnxt /\ rcvbuf \in 0 .. BufSize
  BY <1>1, Sizes DEF ClientOK, StreamOK
<1>4. Cardinality(taken) \in Nat /\ twice \in BOOLEAN /\ disorder \in BOOLEAN
  BY <1>1, <1>3, CountOf DEF StreamOK
<1>5. rcvbuf' \in 0 .. BufSize
  <2>1. rcvbuf' = rcvbuf \/ (rcvbuf # BufSize /\ rcvbuf' = rcvbuf + 1)
    BY DEF ng_tcp_handle_established
  <2> QED BY <1>3, <2>1, Sizes
<1>6. CASE UNCHANGED <<snd_nxt, rcv_nxt, sndbuf, taken, twice, disorder>>
  <2>1. \A f : FragOK(f) => FragOK(f)'
    BY <1>2, <1>3, <1>4, <1>6, StillOK
  <2>2. RingOK'
    BY <1>1, <1>6, <2>1 DEF RingOK, Answer, Flags, Number, Data
  <2>3. StreamOK'
    BY <1>1, <1>2, <1>5, <1>6 DEF StreamOK, Number
  <2>4. CountInv'
    BY <1>1, <1>2, <1>6 DEF CountInv, Covers
  <2> QED BY <1>4, <1>6, <2>2, <2>3, <2>4
<1>7. CASE /\ "psh" \in m.flags /\ rcv_nxt' = RcvNxt(m) /\ snd_nxt' = SndNxt(m) /\ Counts(m)
           /\ \/ sndbuf' = Put(sndbuf, Acknowledged(m))
              \/ sndbuf' = Put(Put(sndbuf, Acknowledged(m)), Echo(m))
  <2> DEFINE d == m.data
             t == Cardinality(taken)
  <2>1. m \in Frame /\ m.ack \in Number /\ d \in Data /\ FromClient(m)
    <3>1. m \in Frame /\ FromClient(m)
      BY <1>1 DEF NetOK, MsgOK
    <3> QED BY <3>1 DEF Frame
  <2>2. d \in Seq(1 .. pnxt) /\ d # <<>> /\ Run(d)
    BY <1>7, <2>1 DEF FromClient
  <2>3. d \in Seq(Nat) /\ Len(d) \in Nat
    <3> HIDE DEF d
    <3>1. 1 .. pnxt \subseteq Nat
      OBVIOUS
    <3> DEFINE A == 1 .. pnxt
               B == Nat
    <3>2. d \in Seq(A) /\ A \subseteq B
      BY <2>2, <3>1
    <3> HIDE DEF A, B
    <3>3. d \in Seq(B)
      BY <3>2
    <3>4. Len(d) \in Nat
      BY <3>2
    <3> QED BY <3>3, <3>4 DEF B
  <2>4. /\ taken' = taken \cup Bytes(d) /\ twice' = (twice \/ Bytes(d) \cap taken # {})
        /\ disorder' = (disorder \/ d[1] # t + 1)
    BY <1>7 DEF Counts
  <2>5. taken' \subseteq 1 .. pnxt /\ t <= Cardinality(taken')
        /\ (Bytes(d) \cap taken = {} => Cardinality(taken') = t + Len(d))
    BY <1>3, <2>2, <2>4, CountGrows
  <2>6. twice => twice'
    BY <2>4
  <2>7. twice' \in BOOLEAN /\ disorder' \in BOOLEAN
    BY <1>4, <2>4
  <2>8. PICK a : a = RcvNxt(m)
    OBVIOUS
  <2>9. a = Plus(rcv_nxt, Len(d)) /\ a \in Number
    BY <1>3, <2>3, <2>8, PlusIs DEF RcvNxt
  <2> HIDE DEF d
  <2>10. ASSUME ~twice'
         PROVE  /\ Covers(a) = Cardinality(taken') % SeqSpace
                /\ Covers(a) <= Cardinality(taken')
    <3>1. ~twice /\ Bytes(d) \cap taken = {}
      BY <2>4, <2>10
    <3>2. Covers(rcv_nxt) = t % SeqSpace
      BY <1>1, <1>2, <3>1 DEF CountInv
    <3>3. Cardinality(taken') = t + Len(d)
      BY <2>5, <3>1
    <3> HIDE DEF t
    <3>4. t \in Nat
      BY <1>4 DEF t
    <3>5. Covers(a) = (t + Len(d)) % SeqSpace
      <4> DEFINE n == Len(d)
      <4>1. n \in Nat
        BY <2>3
      <4> HIDE DEF n
      <4>2. Covers(Plus(rcv_nxt, n)) = (t + n) % SeqSpace
        BY <1>3, <3>2, <3>4, <4>1, CoversMoves
      <4> QED BY <2>9, <4>2 DEF n
    <3>6. t + Len(d) \in Nat
      BY <2>3, <3>4
    <3>7. (t + Len(d)) % SeqSpace <= t + Len(d)
      BY <3>6, Sizes
    <3> QED BY <3>3, <3>5, <3>7
  <2>11. Told(a)'
    <3>1. Covers(a)' = Covers(a)
      BY <1>2 DEF Covers
    <3> QED BY <2>10, <3>1 DEF Told
  <2>12. \A f : FragOK(f) => FragOK(f)'
    BY <1>2, <1>3, <2>5, <2>6, StillOK
  <2>13. PICK f : f = Acknowledged(m)
    OBVIOUS
  <2>14. PICK g : g = Echo(m)
    OBVIOUS
  <2>15. f \in Answer /\ g \in Answer /\ f.acknum = a /\ g.acknum = a
    <3>1. f = [flags |-> {"ack"}, seqnum |-> m.ack, acknum |-> a, data |-> <<>>]
      BY <2>8, <2>13 DEF Acknowledged, SndNxt, Fragment
    <3>2. g = [flags |-> {"ack", "psh"}, seqnum |-> m.ack, acknum |-> a, data |-> d]
      BY <2>8, <2>14 DEF Echo, SndNxt, Fragment, d
    <3>3. f \in Answer
      BY <2>1, <2>9, <3>1 DEF Answer, Flags, Data
    <3>4. g \in Answer
      BY <2>1, <2>9, <3>2 DEF Answer, Flags
    <3> QED BY <3>1, <3>2, <3>3, <3>4
  <2>16. FragOK(f)' /\ FragOK(g)'
    BY <2>11, <2>15 DEF FragOK, Answer, Flags, Number, Data
  <2>17. RingOK'
    <3>1. sndbuf' = Put(sndbuf, f) \/ sndbuf' = Put(Put(sndbuf, f), g)
      BY <1>7, <2>13, <2>14
    <3>2. sndbuf \in Seq(Answer) /\ Len(sndbuf) <= BufSize
      BY <1>1 DEF RingOK
    <3> DEFINE r == Put(sndbuf, f)
    <3>3. /\ r \in Seq(Answer) /\ Len(r) <= BufSize
          /\ \A i \in 1 .. Len(r) : r[i] = f \/ \E j \in 1 .. Len(sndbuf) : r[i] = sndbuf[j]
      BY <2>15, <3>2, PutIs
    <3> HIDE DEF r
    <3>4. /\ sndbuf' \in Seq(Answer) /\ Len(sndbuf') <= BufSize
          /\ \A i \in 1 .. Len(sndbuf') : \/ sndbuf'[i] = f \/ sndbuf'[i] = g
                                         \/ \E j \in 1 .. Len(sndbuf) : sndbuf'[i] = sndbuf[j]
      <4>1. CASE sndbuf' = r
        BY <3>3, <4>1
      <4>2. CASE sndbuf' = Put(r, g)
        <5>1. /\ Put(r, g) \in Seq(Answer) /\ Len(Put(r, g)) <= BufSize
              /\ \A i \in 1 .. Len(Put(r, g)) : Put(r, g)[i] = g \/ \E j \in 1 .. Len(r) : Put(r, g)[i] = r[j]
          BY <2>15, <3>3, PutIs
        <5> QED BY <3>3, <4>2, <5>1
      <4> QED BY <3>1, <4>1, <4>2 DEF r
    <3>5. \A j \in 1 .. Len(sndbuf) : FragOK(sndbuf[j])
      BY <1>1 DEF RingOK
    <3>6. \A j \in 1 .. Len(sndbuf) : \A h : h = sndbuf[j] => FragOK(h)'
      BY <2>12, <3>5
    <3> QED BY <2>16, <3>4, <3>6 DEF RingOK, Answer, Flags, Number, Data
  <2>18. StreamOK'
    <3>1. rcv_nxt' \in Number /\ snd_nxt' \in Number
      BY <1>7, <2>1, <2>8, <2>9 DEF SndNxt
    <3> QED BY <1>2, <1>5, <2>5, <2>7, <3>1 DEF StreamOK, Number
  <2>19. CountInv'
    <3>1. ~twice' => Covers(rcv_nxt)' = Cardinality(taken') % SeqSpace
      <4>1. Covers(rcv_nxt)' = Covers(a)
        BY <1>2, <1>7, <2>8 DEF Covers
      <4> QED BY <2>10, <4>1
    <3>2. ASSUME ~disorder' PROVE ~twice' /\ taken' = 1 .. Cardinality(taken')
      <4>1. ~disorder /\ d[1] = t + 1
        BY <2>4, <3>2
      <4>2. ~twice /\ taken = 1 .. t
        BY <1>1, <4>1 DEF CountInv
      <4> HIDE DEF t
      <4>3. t \in Nat
        BY <1>4 DEF t
      <4>4. Bytes(d) \cap (1 .. t) = {} /\ (1 .. t) \cup Bytes(d) = 1 .. t + Len(d)
        BY <2>2, <2>3, <4>1, <4>3, CountContinues DEF d
      <4>5. Bytes(d) \cap taken = {} /\ taken' = 1 .. t + Len(d)
        BY <2>4, <4>2, <4>4
      <4>6. Cardinality(taken') = t + Len(d)
        BY <2>5, <4>5
      <4>7. ~twice'
        BY <2>4, <4>2, <4>5
      <4> QED BY <4>5, <4>6, <4>7
    <3> QED BY <1>2, <3>1, <3>2 DEF CountInv
  <2> QED BY <2>5, <2>6, <2>17, <2>18, <2>19
<1>8. \/ UNCHANGED <<snd_nxt, rcv_nxt, sndbuf, taken, twice, disorder>>
      \/ /\ "psh" \in m.flags /\ rcv_nxt' = RcvNxt(m) /\ snd_nxt' = SndNxt(m) /\ Counts(m)
         /\ \/ sndbuf' = Put(sndbuf, Acknowledged(m))
            \/ sndbuf' = Put(Put(sndbuf, Acknowledged(m)), Echo(m))
  <2>1. CASE "psh" \notin m.flags \/ failed \in {"recv", "ack"}
    BY <2>1 DEF ng_tcp_handle_established, counted
  <2>2. CASE "psh" \in m.flags /\ failed \notin {"recv", "ack"}
    BY <2>2 DEF ng_tcp_handle_established
  <2> QED BY <2>1, <2>2
<1> QED BY <1>6, <1>7, <1>8

(* ng_tcp_process on any segment, whether memory fails or not. *)
LEMMA ProcessKeeps ==
  ASSUME AckInv, NEW m \in net, m.to = "server", NEW failed, ng_tcp_process(m, failed),
         net' \subseteq net, UNCHANGED <<lesson, crashed, arp, client, piped>>,
         lost' \subseteq lost \cup {"nomem"}, faults' \in 0 .. MaxFaults
  PROVE  AckInv'
<1>1. NetOK /\ RingOK /\ StreamOK /\ ClientOK /\ RestOK /\ CountInv
  BY DEF AckInv
<1>2. UNCHANGED <<isn, pst, una, pnxt, prcv, got>>
  BY DEF client
<1>3. isn \in Number /\ pnxt \in Nat /\ pnxt \in 0 .. MaxBytes /\ taken \subseteq 1 .. pnxt
  BY <1>1, Sizes DEF ClientOK, StreamOK
<1>4. Cardinality(taken) \in Nat
  BY <1>3, CountOf
<1>5. /\ RingOK' /\ StreamOK' /\ CountInv'
      /\ Cardinality(taken) <= Cardinality(taken') /\ (twice => twice')
  <2>1. CASE Listening(m, failed # "none")
    <3>1. (failed # "none") \in BOOLEAN
      OBVIOUS
    <3>2. UNCHANGED <<taken, twice>>
      BY <2>1 DEF Listening, counted
    <3>3. RingOK' /\ StreamOK' /\ CountInv'
      BY <2>1, <3>1, ListenKeeps
    <3>4. Cardinality(taken) <= Cardinality(taken')
      BY <1>4, <3>2
    <3>5. twice => twice'
      BY <3>2
    <3> QED BY <3>3, <3>4, <3>5
  <2>2. CASE ng_tcp_handle_established(m, failed)
    BY <2>2, EstablishedKeeps
  <2>3. CASE ng_tcp_handle_syn_rcvd(m) \/ Ignored
    <3>1. UNCHANGED <<snd_nxt, rcv_nxt, sndbuf, rcvbuf, taken, twice, disorder>>
      BY <2>3 DEF ng_tcp_handle_syn_rcvd, Ignored, stream, counted
    <3>2. status' = status \/ (status = "SYN_RCVD" /\ status' = "ESTABLISHED")
      BY <2>3 DEF ng_tcp_handle_syn_rcvd, Ignored, stream
    <3>3. \A f : FragOK(f) => FragOK(f)'
      BY <1>2, <1>3, <1>4, <3>1, StillOK
    <3>4. RingOK'
      BY <1>1, <3>1, <3>3 DEF RingOK, Answer, Flags, Number, Data
    <3>5. StreamOK'
      BY <1>1, <1>2, <3>1, <3>2 DEF StreamOK, Number
    <3>6. CountInv'
      BY <1>1, <1>2, <3>1, <3>2 DEF CountInv, Covers
    <3> QED BY <1>4, <3>1, <3>4, <3>5, <3>6
  <2> QED BY <2>1, <2>2, <2>3 DEF ng_tcp_process
<1>6. taken' \subseteq 1 .. pnxt'
  BY <1>5 DEF StreamOK
<1>7. \A x : MsgOK(x) => MsgOK(x)'
  BY <1>2, <1>3, <1>5, <1>6, StillOK
<1>8. NetOK'
  BY <1>1, <1>7 DEF NetOK
<1>9. ClientOK'
  BY <1>1, <1>2 DEF ClientOK, Number, Data
<1>10. RestOK'
  BY <1>1 DEF RestOK
<1> QED BY <1>5, <1>8, <1>9, <1>10 DEF AckInv

(* ng_tcp_out, the second stream and the network. *)
LEMMA OthersKeep ==
  ASSUME AckInv, \/ SecondStream \/ TcpOut \/ TcpOutMiss \/ ArpAnswered \/ ArpLost \/ UNCHANGED vars
                 \/ \E m \in net : Lose(m)
  PROVE  AckInv'
<1>1. NetOK /\ RingOK /\ StreamOK /\ ClientOK /\ RestOK /\ CountInv
  BY DEF AckInv
<1>2. UNCHANGED <<lesson, status, snd_nxt, rcv_nxt, rcvbuf, client, taken, twice, disorder, piped>>
  BY DEF SecondStream, TcpOut, TcpOutMiss, ArpAnswered, ArpLost, Lose, stream, counted, vars
<1>3. UNCHANGED <<isn, pst, una, pnxt, prcv, got>>
  BY <1>2 DEF client
<1>4. isn \in Number /\ pnxt \in Nat /\ pnxt \in 0 .. MaxBytes /\ taken \subseteq 1 .. pnxt
  BY <1>1, Sizes DEF ClientOK, StreamOK
<1>5. Cardinality(taken) \in Nat
  BY <1>4, CountOf
<1>6. \A x : MsgOK(x) => MsgOK(x)'
  BY <1>2, <1>3, <1>4, <1>5, StillOK
<1>7. \A f : FragOK(f) => FragOK(f)'
  BY <1>2, <1>3, <1>4, <1>5, StillOK
<1>8. StreamOK' /\ ClientOK' /\ CountInv'
  BY <1>1, <1>2, <1>3 DEF StreamOK, ClientOK, CountInv, Covers, Number, Data
<1>9. RestOK'
  <2>1. faults \in 0 .. MaxFaults /\ lost \subseteq {"nomem", "synack", "answer"}
        /\ arp \in {"unknown", "asked", "known"} /\ crashed \in BOOLEAN
    BY <1>1 DEF RestOK
  <2>2. faults' = faults \/ (faults < MaxFaults /\ faults' = faults + 1)
    BY DEF SecondStream, TcpOut, TcpOutMiss, ArpAnswered, ArpLost, Lose, vars
  <2>3. faults' \in 0 .. MaxFaults
    BY <2>1, <2>2, Sizes
  <2>4. lost' \subseteq lost \cup {"synack", "answer"} /\ arp' \in {arp, "unknown", "asked", "known"}
        /\ crashed' \in {crashed, TRUE}
    BY DEF SecondStream, TcpOut, TcpOutMiss, ArpAnswered, ArpLost, Lose, vars
  <2>5. crashed' \in BOOLEAN
    BY <2>1, <2>4
  <2> QED BY <1>1, <1>2, <2>1, <2>3, <2>4, <2>5 DEF RestOK
<1>10. CASE sndbuf' = sndbuf
  <2>1. net' \subseteq net \/ (TcpOut /\ sndbuf # <<>>)
    BY DEF SecondStream, TcpOut, TcpOutMiss, ArpAnswered, ArpLost, Lose, vars
  <2>2. RingOK'
    BY <1>1, <1>7, <1>10 DEF RingOK, Answer, Flags, Number, Data
  <2>3. CASE net' \subseteq net
    <3>1. NetOK'
      BY <1>1, <1>6, <2>3 DEF NetOK
    <3> QED BY <1>8, <1>9, <2>2, <3>1 DEF AckInv
  <2>4. CASE TcpOut /\ sndbuf # <<>>
    <3>1. sndbuf \in Seq(Answer)
      BY <1>1 DEF RingOK
    <3>2. sndbuf' = Tail(sndbuf)
      BY <2>4 DEF TcpOut
    <3>3. Len(sndbuf') # Len(sndbuf)
      BY <2>4, <3>1, <3>2
    <3> QED BY <1>10, <3>3
  <2> QED BY <2>1, <2>3, <2>4
<1>11. CASE TcpOut
  <2>1. sndbuf # <<>> /\ sndbuf' = Tail(sndbuf) /\ net' = net \cup {Encoded(Head(sndbuf))}
    BY <1>11 DEF TcpOut
  <2>2. sndbuf \in Seq(Answer) /\ Len(sndbuf) <= BufSize
    BY <1>1 DEF RingOK
  <2>3. /\ Len(sndbuf) \in Nat /\ 1 \in 1 .. Len(sndbuf) /\ Head(sndbuf) = sndbuf[1]
        /\ Tail(sndbuf) \in Seq(Answer) /\ Len(Tail(sndbuf)) = Len(sndbuf) - 1
        /\ \A i \in 1 .. Len(sndbuf) - 1 : Tail(sndbuf)[i] = sndbuf[i + 1] /\ i + 1 \in 1 .. Len(sndbuf)
    BY <2>1, <2>2
  <2>4. PICK f : f = Head(sndbuf)
    OBVIOUS
  <2>5. FragOK(f)
    BY <1>1, <2>3, <2>4 DEF RingOK
  <2>6. PICK x : x = Encoded(f)
    OBVIOUS
  <2>7. MsgOK(x)
    <3>1. f \in Answer /\ Told(f.acknum)
      BY <2>5 DEF FragOK
    <3>2. x \in Frame /\ x.to = "client" /\ x.ack = f.acknum
      BY <2>6, <3>1 DEF Encoded, Segment, Frame, Answer
    <3> QED BY <3>1, <3>2 DEF MsgOK
  <2>8. NetOK'
    BY <1>1, <1>6, <2>1, <2>4, <2>6, <2>7 DEF NetOK
  <2>9. RingOK'
    <3>1. sndbuf' \in Seq(Answer) /\ Len(sndbuf') <= BufSize
      BY <2>1, <2>2, <2>3, Sizes
    <3>2. \A i \in 1 .. Len(sndbuf') : FragOK(sndbuf'[i])
      BY <1>1, <2>1, <2>3 DEF RingOK
    <3> QED BY <1>7, <3>1, <3>2 DEF RingOK, Answer, Flags, Number, Data
  <2> QED BY <1>8, <1>9, <2>8, <2>9 DEF AckInv
<1>12. CASE TcpOutMiss
  <2>1. sndbuf # <<>> /\ sndbuf' = Append(Tail(sndbuf), Head(sndbuf)) /\ net' = net
    BY <1>12 DEF TcpOutMiss, PutBack
  <2>2. sndbuf \in Seq(Answer) /\ Len(sndbuf) <= BufSize
    BY <1>1 DEF RingOK
  <2>3. /\ Len(sndbuf) \in Nat /\ Len(sndbuf) > 0 /\ Head(sndbuf) = sndbuf[1] /\ sndbuf[1] \in Answer
        /\ Tail(sndbuf) \in Seq(Answer) /\ Len(Tail(sndbuf)) = Len(sndbuf) - 1
        /\ \A i \in 1 .. Len(sndbuf) - 1 : Tail(sndbuf)[i] = sndbuf[i + 1] /\ i + 1 \in 1 .. Len(sndbuf)
    BY <2>1, <2>2
  <2> DEFINE L == Len(sndbuf)
             u == Tail(sndbuf)
             f == sndbuf[1]
  <2>4. /\ L \in Nat /\ L > 0 /\ f \in Answer /\ u \in Seq(Answer) /\ Len(u) = L - 1
        /\ sndbuf' = Append(u, f) /\ \A i \in 1 .. L - 1 : u[i] = sndbuf[i + 1] /\ i + 1 \in 1 .. L
    BY <2>1, <2>3
  <2> HIDE DEF L, u, f
  <2>5. /\ sndbuf' \in Seq(Answer) /\ Len(sndbuf') = L
        /\ sndbuf'[L] = f /\ \A i \in 1 .. L - 1 : sndbuf'[i] = u[i]
    BY <2>4
  <2>6. \A i \in 1 .. L : i = L \/ i \in 1 .. L - 1
    BY <2>4
  <2>7. \A i \in 1 .. L : \E j \in 1 .. L : sndbuf'[i] = sndbuf[j]
    <3>1. 1 \in 1 .. L /\ f = sndbuf[1]
      BY <2>4 DEF f
    <3> QED BY <2>4, <2>5, <2>6, <3>1
  <2>8. RingOK'
    <3>1. \A j \in 1 .. L : FragOK(sndbuf[j])
      BY <1>1 DEF RingOK, L
    <3>2. \A i \in 1 .. Len(sndbuf') : FragOK(sndbuf'[i])
      BY <2>5, <2>7, <3>1
    <3>3. Len(sndbuf') <= BufSize
      BY <2>2, <2>5 DEF L
    <3> QED BY <1>7, <2>5, <3>2, <3>3 DEF RingOK, Answer, Flags, Number, Data
  <2>9. NetOK'
    BY <1>1, <1>6, <2>1 DEF NetOK
  <2> QED BY <1>8, <1>9, <2>8, <2>9 DEF AckInv
<1> QED BY <1>10, <1>11, <1>12 DEF SecondStream, ArpAnswered, ArpLost, Lose, stream, vars

(* The invariant holds from the start. *)
LEMMA AckInvHolds == Spec => []AckInv
<1>1. Init => AckInv
  <2> SUFFICES ASSUME Init PROVE AckInv
    OBVIOUS
  <2> USE Sizes DEF Init
  <2>1. StreamOK
    <3>1. 0 \in 0 .. BufSize /\ {} \subseteq 1 .. pnxt
      OBVIOUS
    <3> QED BY <3>1 DEF StreamOK
  <2>6. RestOK
    <3>1. 0 \in 0 .. MaxFaults
      OBVIOUS
    <3> QED BY <3>1 DEF RestOK
  <2>2. ClientOK
    <3>1. 0 \in 0 .. 0 /\ 0 \in 0 .. MaxBytes /\ <<>> \in Data
      BY DEF Data
    <3>2. isn \in Number /\ una = 0 /\ pnxt = 0 /\ prcv = 0 /\ got = <<>> /\ piped = FALSE /\ pst = "closed"
      OBVIOUS
    <3> QED BY <3>1, <3>2 DEF ClientOK
  <2>3. RingOK
    BY DEF RingOK
  <2>4. CountInv
    <3>1. Cardinality({}) = 0
      BY FS_EmptySet
    <3> QED BY <3>1 DEF CountInv
  <2>5. NetOK
    <3>1. ASSUME NEW m \in net PROVE MsgOK(m)
      <4>1. m = [to |-> "server", flags |-> {"ack"}, seq |-> 0, ack |-> 0, data |-> <<>>]
        BY <3>1 DEF Stray, Segment
      <4>2. m \in Frame
        BY <4>1 DEF Frame, Flags, Data
      <4>3. FromClient(m)
        BY <4>1 DEF FromClient, Run
      <4> QED BY <4>1, <4>2, <4>3 DEF MsgOK
    <3> QED BY <3>1 DEF NetOK
  <2> QED BY <2>1, <2>2, <2>3, <2>4, <2>5, <2>6 DEF AckInv
<1>2. AckInv /\ [Next]_vars => AckInv'
  <2> SUFFICES ASSUME AckInv, [Next]_vars PROVE AckInv'
    OBVIOUS
  <2>1. faults \in 0 .. MaxFaults
    BY DEF AckInv, RestOK
  <2>2. ASSUME NEW m \in net, Deliver(m) PROVE AckInv'
    <3>1. net \ {m} \in SUBSET net /\ faults' = faults
      BY <2>2 DEF Deliver
    <3>2. CASE ClientReceives(m, net \ {m})
      BY <2>1, <3>1, <3>2, ReceiveKeeps
    <3>3. CASE ServerReceives(m, net \ {m})
      BY <2>1, <3>1, <3>3, ProcessKeeps DEF ServerReceives
    <3> QED BY <2>2, <3>2, <3>3 DEF Deliver
  <2>3. ASSUME NEW m \in net, Repeat(m) PROVE AckInv'
    <3>1. faults' \in 0 .. MaxFaults
      BY <2>1, <2>3, Sizes DEF Repeat
    <3>2. CASE ClientReceives(m, net)
      BY <3>1, <3>2, ReceiveKeeps
    <3>3. CASE ServerReceives(m, net)
      BY <3>1, <3>3, ProcessKeeps DEF ServerReceives
    <3> QED BY <2>3, <3>2, <3>3 DEF Repeat
  <2>4. ASSUME NEW m \in net, ServerOutOfMemory(m) PROVE AckInv'
    <3>1. faults' \in 0 .. MaxFaults
      BY <2>1, <2>4, Sizes DEF ServerOutOfMemory
    <3>2. PICK failed : ng_tcp_process(m, failed)
      BY <2>4 DEF ServerOutOfMemory
    <3> QED BY <2>4, <3>1, <3>2, ProcessKeeps DEF ServerOutOfMemory
  <2> QED BY <2>2, <2>3, <2>4, ClientKeeps, OthersKeep DEF Next, Arrival, Network, ClientStep
<1> QED BY <1>1, <1>2, PTL DEF Spec

(* For any loss, repetition, reordering and wrap of the numbers: the server *)
(* acknowledges only bytes it has as long as they came in order, and none   *)
(* that was not sent unless it counted one twice.                           *)
THEOREM AcknowledgesHonestly == Spec => []AcksHonest
<1>1. AckInv => AcksHonest
  <2> SUFFICES ASSUME AckInv PROVE AcksHonest
    OBVIOUS
  <2>1. NetOK /\ RingOK /\ StreamOK /\ ClientOK /\ RestOK /\ CountInv
    BY DEF AckInv
  <2>2. TypeOK
    <3>1. \A m \in net : m \in Frame
      BY <2>1 DEF NetOK, MsgOK
    <3> QED BY <2>1, <3>1 DEF TypeOK, RingOK, StreamOK, ClientOK, RestOK, Answer, Frame
  <2>3. ASSUME NEW ack \in Acks PROVE Told(ack) /\ ack \in Number
    <3>1. CASE ack \in {sndbuf[i].acknum : i \in 1 .. Len(sndbuf)}
      <4>1. PICK i \in 1 .. Len(sndbuf) : ack = sndbuf[i].acknum
        BY <3>1
      <4>2. FragOK(sndbuf[i])
        BY <2>1 DEF RingOK
      <4> QED BY <4>1, <4>2 DEF FragOK, Answer
    <3>2. CASE ack \in {m.ack : m \in {x \in net : x.to = "client"}}
      <4>1. PICK m \in net : m.to = "client" /\ ack = m.ack
        BY <3>2
      <4>2. MsgOK(m)
        BY <2>1 DEF NetOK
      <4> QED BY <4>1, <4>2 DEF MsgOK, Frame
    <3> QED BY <3>1, <3>2 DEF Acks
  <2>4. Cardinality(taken) \in Nat /\ Cardinality(taken) <= pnxt /\ pnxt \in Nat /\ isn \in Number
    <3>1. taken \subseteq 1 .. pnxt /\ pnxt \in Nat /\ isn \in Number
      BY <2>1, Sizes DEF StreamOK, ClientOK
    <3> QED BY <3>1, CountOf
  <2>5. ASSUME NEW ack \in Acks
        PROVE  (~disorder => Covers(ack) <= Cardinality(taken)) /\ (~twice => Covers(ack) <= pnxt)
    <3>1. ~disorder => ~twice
      BY <2>1 DEF CountInv
    <3>2. ~twice => Covers(ack) <= Cardinality(taken)
      BY <2>3 DEF Told
    <3>3. Covers(ack) \in Nat
      <4>1. ack \in Number
        BY <2>3
      <4>2. ack - isn - 1 \in Int
        BY <2>4, <4>1, Sizes DEF Number
      <4> QED BY <4>2, ModIs DEF Covers
    <3> QED BY <2>4, <3>1, <3>2, <3>3
  <2> QED BY <2>2, <2>5 DEF AcksHonest
<1> QED BY <1>1, AckInvHolds, PTL

-----------------------------------------------------------------------------
(* The order of the echoes, with a client that waits for them *)

\* The number the client expects when it has n bytes.
Expected(n) == (prcv - Len(got) + n) % SeqSpace
\* Data was sent when the client had what precedes it.
Waited(ack, d) == d[1] - 1 <= Len(got) /\ ack = Expected(d[1] - 1)
\* An echo has the number at which the client expects its bytes, which were
\* counted, and it acknowledges them.
EchoOf(seq, ack, d) ==
  /\ d \in Seq(taken) /\ Run(d) /\ Waited(seq, d)
  /\ ~twice => d[Len(d)] <= Covers(ack)

InPlace(m) == m.data # <<>> => IF m.to = "server" THEN Waited(m.ack, m.data) ELSE EchoOf(m.seq, m.ack, m.data)
FragInPlace(f) == f.data # <<>> => EchoOf(f.seqnum, f.acknum, f.data)

\* What the client has is in order, was counted and, unless something was
\* counted twice, is acknowledged.
GotInOrder ==
  /\ \A k \in 1 .. Len(got) : got[k] = k
  /\ Len(got) <= pnxt /\ 1 .. Len(got) \subseteq taken
  /\ ~twice => Len(got) <= una
Placed == (\A m \in net : InPlace(m)) /\ \A i \in 1 .. Len(sndbuf) : FragInPlace(sndbuf[i])
EchoInv == (pst \in {"closed", "syn"} => pnxt = 0) /\ (~piped => GotInOrder /\ Placed)

(* A segment stays in place when more is received, counted or sent. *)
LEMMA StillInPlace ==
  ASSUME AckInv, isn' = isn, taken \subseteq taken', twice => twice',
         Len(got) \in Nat, Len(got') \in Nat, Len(got) <= Len(got'),
         \A n \in Nat : Expected(n)' = Expected(n)
  PROVE  /\ \A m : MsgOK(m) /\ InPlace(m) => InPlace(m)'
         /\ \A f : FragInPlace(f) => FragInPlace(f)'
<1>1. taken \subseteq Nat /\ \A x \in taken : x >= 1
  <2>1. taken \subseteq 1 .. pnxt /\ pnxt \in Nat
    BY Sizes DEF AckInv, StreamOK, ClientOK
  <2> QED BY <2>1
<1>2. ASSUME NEW a, NEW d, d[1] \in Nat, d[1] >= 1, Waited(a, d) PROVE Waited(a, d)'
  <2>1. d[1] - 1 \in Nat
    BY <1>2
  <2>2. Expected(d[1] - 1)' = Expected(d[1] - 1)
    BY <2>1
  <2>3. d[1] - 1 <= Len(got')
    BY <1>2, <2>1 DEF Waited
  <2> QED BY <1>2, <2>2, <2>3 DEF Waited
<1>3. ASSUME NEW q, NEW a, NEW d, d # <<>>, EchoOf(q, a, d) PROVE EchoOf(q, a, d)'
  <2>1. d \in Seq(taken) /\ Run(d) /\ Waited(q, d)
    BY <1>3 DEF EchoOf
  <2>2. d[1] \in taken
    <3>1. Len(d) \in Nat /\ Len(d) > 0
      BY <1>3, <2>1
    <3> QED BY <2>1, <3>1
  <2>3. d[1] \in Nat /\ d[1] >= 1
    BY <1>1, <2>2
  <2>4. Waited(q, d)'
    BY <1>2, <2>1, <2>3
  <2>5. d \in Seq(taken')
    BY <2>1
  <2>6. ~twice' => d[Len(d)] <= Covers(a)'
    BY <1>3 DEF EchoOf, Covers
  <2> QED BY <2>1, <2>4, <2>5, <2>6 DEF EchoOf, Run
<1>4. \A m : MsgOK(m) /\ InPlace(m) => InPlace(m)'
  <2> SUFFICES ASSUME NEW m, MsgOK(m), InPlace(m), m.data # <<>>
               PROVE  IF m.to = "server" THEN Waited(m.ack, m.data)' ELSE EchoOf(m.seq, m.ack, m.data)'
    BY DEF InPlace
  <2>1. CASE m.to = "server"
    <3>1. m.data \in Data
      BY DEF MsgOK, Frame
    <3>2. m.data[1] \in Nat /\ m.data[1] >= 1
      <4> DEFINE d == m.data
                 B == 1 .. MaxBytes
      <4>1. d \in Seq(B) /\ d # <<>>
        BY <3>1 DEF Data
      <4> HIDE DEF d, B
      <4>2. d[1] \in B
        <5>1. Len(d) \in Nat /\ Len(d) > 0
          BY <4>1
        <5> QED BY <4>1, <5>1
      <4> QED BY <4>2, Sizes DEF B, d
    <3> QED BY <1>2, <2>1, <3>2 DEF InPlace
  <2>2. CASE m.to # "server"
    BY <1>3, <2>2 DEF InPlace
  <2> QED BY <2>1, <2>2
<1>5. \A f : FragInPlace(f) => FragInPlace(f)'
  BY <1>3 DEF FragInPlace
<1> QED BY <1>4, <1>5

(* The client is at the number it expects for what follows. *)
LEMMA ExpectedHere ==
  ASSUME prcv \in Number, Len(got) \in Nat
  PROVE  Expected(Len(got)) = prcv
<1> DEFINE L == Len(got)
<1>1. L \in Nat /\ prcv \in Int
  BY Sizes DEF Number
<1>2. prcv - L + L = prcv
  BY <1>1
<1>3. prcv % SeqSpace = prcv
  BY <1>1, ModIs
<1> QED BY <1>2, <1>3 DEF Expected

(* With fewer bytes than numbers the number tells the position. *)
LEMMA ExpectedOnce ==
  ASSUME prcv \in Number, Len(got) \in Nat, Len(got) < SeqSpace, NEW f \in Nat, f <= Len(got),
         prcv = Expected(f)
  PROVE  f = Len(got)
<1> DEFINE L == Len(got)
           x == prcv - L + f
<1>1. L \in Nat /\ prcv \in Int /\ x \in Int /\ L < SeqSpace /\ f <= L
  BY Sizes DEF Number
<1>2. \E k \in Int : x = (x % SeqSpace) + SeqSpace * k
  <2> HIDE DEF x
  <2> QED BY <1>1, ModIs, Zenon
<1>3. prcv = x % SeqSpace
  BY DEF Expected
<1>4. PICK k \in Int : x = prcv + SeqSpace * k
  BY <1>2, <1>3
<1> HIDE DEF L
<1>5. f - L = SeqSpace * k
  BY <1>1, <1>4, Sizes
<1>6. CASE k >= 1
  BY <1>1, <1>5, <1>6, Sizes
<1>7. CASE k <= -1
  BY <1>1, <1>5, <1>7, Sizes
<1>8. CASE k = 0
  BY <1>1, <1>5, <1>8, Sizes DEF L
<1> QED BY <1>6, <1>7, <1>8

(* What the client expects does not depend on how much it has. *)
LEMMA ExpectedMoves ==
  ASSUME prcv \in Number, Len(got) \in Nat, NEW n \in Nat,
         prcv' = Plus(prcv, n), Len(got') = Len(got) + n
  PROVE  \A j \in Nat : Expected(j)' = Expected(j)
<1> SUFFICES ASSUME NEW j \in Nat PROVE Expected(j)' = Expected(j)
  OBVIOUS
<1> DEFINE L == Len(got)
           w == prcv + n
           p == w % SeqSpace
           x == p - (L + n) + j
           y == prcv - L + j
<1>1. L \in Nat /\ prcv \in Int /\ w \in Int /\ y \in Int
  BY Sizes DEF Number
<1>2. p \in Nat /\ \E k \in Int : w = p + SeqSpace * k
  <2> HIDE DEF w
  <2> QED BY <1>1, ModIs, Zenon
<1>3. PICK k \in Int : w = p + SeqSpace * k
  BY <1>2
<1>4. Expected(j) = y % SeqSpace /\ Expected(j)' = x % SeqSpace
  BY DEF Expected, Plus
<1> HIDE DEF p, L
<1>5. x = y + SeqSpace * (0 - k) /\ x \in Int /\ 0 - k \in Int
  <2>1. SeqSpace * (0 - k) = 0 - SeqSpace * k
    BY Sizes
  <2> QED BY <1>1, <1>2, <1>3, <2>1, Sizes
<1>6. x % SeqSpace = y % SeqSpace
  <2> DEFINE d == 0 - k
  <2>1. x = y + SeqSpace * d /\ d \in Int
    BY <1>5
  <2> HIDE DEF x, y, d
  <2> QED BY <1>1, <1>5, <2>1, SameMod, Zenon
<1> QED BY <1>4, <1>6

(* Nothing moves for the client and the server. *)
LEMMA SameEcho ==
  ASSUME AckInv, UNCHANGED <<isn, prcv, got>>, taken \subseteq taken', twice => twice'
  PROVE  /\ \A m : MsgOK(m) /\ InPlace(m) => InPlace(m)'
         /\ \A f : FragInPlace(f) => FragInPlace(f)'
<1>1. Len(got) \in Nat
  <2>1. got \in Data
    BY DEF AckInv, ClientOK
  <2> QED BY <2>1 DEF Data
<1>2. Len(got') = Len(got)
  OBVIOUS
<1>3. \A n \in Nat : Expected(n)' = Expected(n)
  BY DEF Expected
<1> QED BY <1>1, <1>2, <1>3, StillInPlace

(* A client that waits sends what follows the bytes it has. *)
LEMMA ClientInOrder ==
  ASSUME AckInv, EchoInv, Connect \/ SendFin \/ \E n \in 1 .. Mss : SendData(n) \/ Resend(n)
  PROVE  EchoInv'
<1>1. UNCHANGED <<sndbuf, isn, una, prcv, got, taken, twice>>
  BY DEF Connect, SendFin, SendData, Resend, client, counted, stream
<1>2. /\ pnxt \in Nat /\ una \in Nat /\ prcv \in Number /\ Len(got) \in Nat /\ NetOK
      /\ piped \in BOOLEAN
  <2>1. got \in Data /\ NetOK
    BY DEF AckInv, ClientOK
  <2>2. Len(got) \in Nat
    BY <2>1 DEF Data
  <2> QED BY <2>1, <2>2, Sizes DEF AckInv, ClientOK
<1>3. pst' \in {"closed", "syn"} => pnxt' = 0
  BY DEF EchoInv, Connect, SendFin, SendData, Resend, client
<1>4. piped => piped'
  BY DEF Connect, SendFin, SendData, Resend
<1>5. pnxt <= pnxt' /\ pnxt' \in Nat
  <2>1. pnxt' = pnxt \/ \E n \in 1 .. Mss : pnxt' = pnxt + n
    BY DEF Connect, SendFin, SendData, Resend, client
  <2> QED BY <1>2, <2>1, Sizes
<1>6. SUFFICES ASSUME ~piped' PROVE (GotInOrder /\ Placed)'
  BY <1>3 DEF EchoInv
<1>7. GotInOrder /\ Placed
  BY <1>4, <1>6 DEF EchoInv
<1>8. GotInOrder'
  <2>1. Len(got) <= pnxt'
    BY <1>2, <1>5, <1>7 DEF GotInOrder
  <2> QED BY <1>1, <1>7, <2>1 DEF GotInOrder
<1>9. /\ \A m : MsgOK(m) /\ InPlace(m) => InPlace(m)'
      /\ \A f : FragInPlace(f) => FragInPlace(f)'
  BY <1>1, SameEcho
<1>10. PICK m : net' = net \cup {m} /\ m.to = "server"
                /\ (m.data # <<>> => m.data[1] = Len(got) + 1 /\ m.ack = prcv)
  <2> USE DEF Says, Segment
  <2>1. CASE Connect
    <3>1. PICK s : s = Segment("server", {"syn"}, isn, prcv, <<>>)
      OBVIOUS
    <3>2. net' = net \cup {s} /\ s.to = "server" /\ s.data = <<>>
      BY <2>1, <3>1 DEF Connect
    <3> QED BY <3>2
  <2>2. CASE SendFin
    <3>1. PICK s : s = Segment("server", {"ack", "fin"}, NumberOf(pnxt + 1), prcv, <<>>)
      OBVIOUS
    <3>2. net' = net \cup {s} /\ s.to = "server" /\ s.data = <<>>
      BY <2>2, <3>1 DEF SendFin
    <3> QED BY <3>2
  <2>3. ASSUME NEW n \in 1 .. Mss, SendData(n)
        PROVE  \E m : /\ net' = net \cup {m} /\ m.to = "server"
                      /\ (m.data # <<>> => m.data[1] = Len(got) + 1 /\ m.ack = prcv)
    <3>1. n \in Nat /\ n > 0
      BY Sizes
    <3>2. ~(Len(got) < pnxt) /\ Len(got) <= pnxt
      BY <1>6, <1>7, <2>3 DEF SendData, GotInOrder
    <3>3. Len(got) = pnxt
      BY <1>2, <3>2
    <3>4. Positions(pnxt, n)[1] = pnxt + 1
      BY <1>2, <3>1, PositionsAre
    <3>5. PICK s : s = Segment("server", {"ack", "psh"}, NumberOf(pnxt + 1), prcv, Positions(pnxt, n))
      OBVIOUS
    <3>6. net' = net \cup {s} /\ s.to = "server" /\ s.ack = prcv /\ s.data = Positions(pnxt, n)
      BY <2>3, <3>5 DEF SendData
    <3>7. s.data[1] = Len(got) + 1
      BY <3>3, <3>4, <3>6
    <3> QED BY <3>6, <3>7
  <2>4. ASSUME NEW n \in 1 .. Mss, Resend(n)
        PROVE  \E m : /\ net' = net \cup {m} /\ m.to = "server"
                      /\ (m.data # <<>> => m.data[1] = Len(got) + 1 /\ m.ack = prcv)
    <3>1. n \in Nat /\ n > 0
      BY Sizes
    <3>2. ~(Len(got) < una) /\ Len(got) <= una
      BY <1>6, <1>7, <2>4 DEF Resend, GotInOrder
    <3>3. Len(got) = una
      BY <1>2, <3>2
    <3>4. Positions(una, n)[1] = una + 1
      BY <1>2, <3>1, PositionsAre
    <3>5. PICK s : s = Segment("server", {"ack", "psh"}, NumberOf(una + 1), prcv, Positions(una, n))
      OBVIOUS
    <3>6. net' = net \cup {s} /\ s.to = "server" /\ s.ack = prcv /\ s.data = Positions(una, n)
      BY <2>4, <3>5 DEF Resend
    <3>7. s.data[1] = Len(got) + 1
      BY <3>3, <3>4, <3>6
    <3> QED BY <3>6, <3>7
  <2> QED BY <2>1, <2>2, <2>3, <2>4
<1>11. InPlace(m)'
  <2> SUFFICES ASSUME m.data # <<>> PROVE Waited(m.ack, m.data)'
    BY <1>10 DEF InPlace
  <2>1. m.data[1] - 1 = Len(got) /\ m.ack = prcv
    BY <1>2, <1>10
  <2>2. Expected(Len(got)) = prcv
    BY <1>2, ExpectedHere
  <2>3. Waited(m.ack, m.data)
    BY <1>2, <2>1, <2>2 DEF Waited
  <2> QED BY <1>1, <2>3 DEF Waited, Expected
<1>12. Placed'
  <2>1. \A x \in net : InPlace(x) /\ MsgOK(x)
    BY <1>2, <1>7 DEF Placed, NetOK
  <2>2. \A x \in net' : InPlace(x)'
    BY <1>9, <1>10, <1>11, <2>1
  <2>3. \A i \in 1 .. Len(sndbuf') : FragInPlace(sndbuf'[i])
    BY <1>1, <1>7 DEF Placed
  <2> QED BY <1>9, <2>2, <2>3 DEF Placed
<1> QED BY <1>8, <1>12

(* An echo the client takes continues what it has. *)
LEMMA ReceiveInOrder ==
  ASSUME AckInv, AckInv', EchoInv, MaxBytes < SeqSpace,
         NEW m \in net, NEW rest \in SUBSET net, ClientReceives(m, rest)
  PROVE  EchoInv'
<1>1. UNCHANGED <<sndbuf, isn, pnxt, taken, twice, piped>> /\ ClientTakes(m, rest)
  BY DEF ClientReceives, stream, counted
<1>2. /\ pnxt \in Nat /\ pnxt <= MaxBytes /\ una \in Nat /\ prcv \in Number /\ Len(got) \in Nat
      /\ NetOK /\ taken \subseteq 1 .. pnxt /\ got \in Seq(Nat) /\ Len(got') \in Nat
  <2>1. got \in Data /\ got' \in Data
    BY DEF AckInv, ClientOK, Data
  <2>2. Len(got) \in Nat /\ Len(got') \in Nat
    BY <2>1 DEF Data
  <2>3. got \in Seq(Nat)
    <3> DEFINE A == 1 .. MaxBytes
               B == Nat
    <3>1. got \in Seq(A) /\ A \subseteq B
      BY <2>1, Sizes DEF Data
    <3> HIDE DEF A, B
    <3>2. got \in Seq(B)
      BY <3>1
    <3> QED BY <3>2 DEF B
  <2> QED BY <2>2, <2>3, Sizes DEF AckInv, ClientOK, StreamOK
<1>3. MsgOK(m) /\ m \in Frame
  BY <1>2 DEF NetOK, MsgOK
<1>4. pst' \in {"closed", "syn"} => pnxt' = 0
  BY <1>1 DEF EchoInv, ClientTakes
<1>5. SUFFICES ASSUME ~piped PROVE (GotInOrder /\ Placed)'
  BY <1>1, <1>4 DEF EchoInv
<1>6. GotInOrder /\ Placed
  BY <1>5 DEF EchoInv
<1>7. \A x \in net : InPlace(x) /\ MsgOK(x)
  BY <1>2, <1>6 DEF Placed, NetOK
<1>8. \A i \in 1 .. Len(sndbuf) : FragInPlace(sndbuf[i])
  BY <1>6 DEF Placed
<1>9. CASE "syn" \in m.flags
  <2>1. PICK s : s = Segment("server", {"ack"}, NumberOf(1), Plus(m.seq, 1), <<>>)
    OBVIOUS
  <2>2. net' = rest \cup {s} /\ UNCHANGED <<una, got>> /\ s.data = <<>>
        /\ (prcv' = prcv \/ pst = "syn")
    BY <1>1, <1>9, <2>1 DEF ClientTakes, Segment
  <2>3. GotInOrder'
    BY <1>1, <1>6, <2>2 DEF GotInOrder
  <2>4. InPlace(s)'
    BY <2>2 DEF InPlace
  <2>5. CASE prcv' = prcv
    <3>1. /\ \A x : MsgOK(x) /\ InPlace(x) => InPlace(x)'
          /\ \A f : FragInPlace(f) => FragInPlace(f)'
      BY <1>1, <2>2, <2>5, SameEcho
    <3>2. Placed'
      BY <1>1, <1>7, <1>8, <2>2, <2>4, <3>1 DEF Placed
    <3> QED BY <2>3, <3>2
  <2>6. CASE pst = "syn"
    <3>1. pnxt = 0 /\ taken = {}
      BY <1>2, <2>6 DEF EchoInv
    <3>2. ASSUME NEW x \in net PROVE x.data = <<>>
      <4>1. CASE x.to = "server"
        <5>1. x.data \in Seq(1 .. pnxt)
          BY <1>7, <4>1 DEF MsgOK, FromClient
        <5>2. 1 .. pnxt = {}
          BY <3>1
        <5>3. x.data \in Seq({})
          BY <5>1, <5>2
        <5> DEFINE d == x.data
        <5> HIDE DEF d
        <5>4. d \in Seq({})
          BY <5>3 DEF d
        <5>5. d = <<>>
          BY <5>4
        <5> QED BY <5>5 DEF d
      <4>2. CASE x.to # "server" /\ x.data # <<>>
        <5> DEFINE d == x.data
        <5>1. d \in Seq(taken) /\ d # <<>>
          BY <1>7, <4>2 DEF InPlace, EchoOf
        <5> HIDE DEF d
        <5>2. Len(d) \in Nat /\ Len(d) > 0
          BY <5>1
        <5>3. d[1] \in taken
          BY <5>1, <5>2
        <5> QED BY <3>1, <5>3
      <4> QED BY <4>1, <4>2
    <3>3. ASSUME NEW i \in 1 .. Len(sndbuf) PROVE sndbuf[i].data = <<>>
      <4> SUFFICES ASSUME sndbuf[i].data # <<>> PROVE FALSE
        OBVIOUS
      <4> DEFINE d == sndbuf[i].data
      <4>1. d \in Seq(taken) /\ d # <<>>
        BY <1>8 DEF FragInPlace, EchoOf
      <4> HIDE DEF d
      <4>2. Len(d) \in Nat /\ Len(d) > 0
        BY <4>1
      <4>3. d[1] \in taken
        BY <4>1, <4>2
      <4> QED BY <3>1, <4>3
    <3>4. \A x \in net' : InPlace(x)'
      BY <2>2, <2>4, <3>2 DEF InPlace
    <3>5. (\A i \in 1 .. Len(sndbuf) : FragInPlace(sndbuf[i]))'
      BY <1>1, <3>3 DEF FragInPlace
    <3>6. Placed'
      BY <3>4, <3>5 DEF Placed
    <3> QED BY <2>3, <3>6
  <2> QED BY <2>2, <2>5, <2>6
<1>10. CASE "syn" \notin m.flags
  <2>1. net' = rest
    BY <1>1, <1>10 DEF ClientTakes
  <2>2. Covers(m.ack) \in Nat
    <3>1. m.ack - isn - 1 \in Int
      <4>1. m.ack \in Number /\ isn \in Number
        BY <1>3 DEF Frame, AckInv, ClientOK
      <4> QED BY <4>1, Sizes DEF Number
    <3> QED BY <3>1, ModIs DEF Covers
  <2>3. una' \in Nat /\ una <= una' /\ (una' = una \/ Covers(m.ack) <= pnxt)
        /\ (Covers(m.ack) <= pnxt => Covers(m.ack) <= una')
    <3>1. IF Covers(m.ack) <= pnxt
          THEN una' = IF Covers(m.ack) > una THEN Covers(m.ack) ELSE una
          ELSE una' = una
      BY <1>1, <1>10 DEF ClientTakes
    <3> QED BY <1>2, <2>2, <3>1
  <2>4. CASE got' = got /\ prcv' = prcv
    <3>1. /\ \A x : MsgOK(x) /\ InPlace(x) => InPlace(x)'
          /\ \A f : FragInPlace(f) => FragInPlace(f)'
      BY <1>1, <2>4, SameEcho
    <3>2. Placed'
      BY <1>1, <1>7, <1>8, <2>1, <3>1 DEF Placed
    <3>3. GotInOrder'
      <4>1. ~twice => Len(got) <= una'
        BY <1>2, <1>6, <2>3 DEF GotInOrder
      <4> QED BY <1>1, <1>6, <2>4, <4>1 DEF GotInOrder
    <3> QED BY <3>2, <3>3
  <2>5. CASE /\ Covers(m.ack) <= pnxt /\ m.seq = prcv /\ m.data # <<>>
             /\ got' = got \o m.data /\ prcv' = Plus(prcv, Len(m.data))
    <3> DEFINE d == m.data
               L == Len(got)
               n == Len(d)
    <3>1. EchoOf(m.seq, m.ack, d)
      BY <1>7, <2>5 DEF InPlace, ClientReceives
    <3>2. d \in Seq(taken) /\ d # <<>> /\ Run(d) /\ Waited(prcv, d) /\ (~twice => d[Len(d)] <= Covers(m.ack))
      BY <2>5, <3>1 DEF EchoOf
    <3> HIDE DEF d
    <3>3. n \in Nat /\ n > 0 /\ \A k \in 1 .. n : d[k] \in taken
      BY <3>2
    <3>4. \A k \in 1 .. n : d[k] \in Nat /\ d[k] >= 1 /\ d[k] <= pnxt
      <4>1. \A x \in taken : x \in Nat /\ x >= 1 /\ x <= pnxt
        BY <1>2
      <4> HIDE DEF n
      <4> QED BY <3>3, <4>1
    <3>5. d[1] - 1 \in Nat /\ d[1] \in Nat
      BY <3>3, <3>4
    <3>6. d[1] = L + 1
      <4>1. d[1] - 1 <= L /\ prcv = Expected(d[1] - 1)
        BY <3>2 DEF Waited
      <4>2. L < SeqSpace
        <5>1. L <= pnxt
          BY <1>6 DEF GotInOrder
        <5> QED BY <1>2, <5>1, Sizes
      <4>3. d[1] - 1 = L
        BY <1>2, <3>5, <4>1, <4>2, ExpectedOnce
      <4> QED BY <1>2, <3>5, <4>3
    <3>7. d \in Seq(Nat)
      BY <3>2, <3>4
    <3>8. /\ Len(got') = L + n /\ \A k \in 1 .. L : got'[k] = got[k]
          /\ \A k \in 1 .. n : got'[L + k] = d[k]
      <4>1. got' = got \o d
        BY <2>5 DEF d
      <4> QED BY <1>2, <3>7, <4>1
    <3> HIDE DEF L, n
    <3>9. L \in Nat
      BY <1>2 DEF L
    <3>10. \A k \in 1 .. n : d[k] = L + k
      <4>1. \A k \in 1 .. n : d[k] = d[1] + (k - 1)
        BY <3>2 DEF Run, n
      <4> QED BY <3>3, <3>6, <3>9, <4>1
    <3>11. d[n] = L + n /\ d[n] <= pnxt
      BY <3>3, <3>4, <3>10
    <3>12. \A k \in 1 .. L + n : k \in 1 .. L \/ \E j \in 1 .. n : k = L + j
      <4> SUFFICES ASSUME NEW k \in 1 .. L + n, k \notin 1 .. L PROVE \E j \in 1 .. n : k = L + j
        OBVIOUS
      <4>1. k - L \in 1 .. n /\ k = L + (k - L)
        BY <3>3, <3>9
      <4> QED BY <4>1
    <3>13. \A k \in 1 .. L : got[k] = k /\ k \in taken
      BY <1>6 DEF GotInOrder, L
    <3>14. \A k \in 1 .. L + n : got'[k] = k /\ k \in taken
      BY <3>3, <3>8, <3>10, <3>12, <3>13
    <3>15. ~twice => L + n <= una'
      <4>1. ~twice => L + n <= Covers(m.ack)
        BY <3>2, <3>11 DEF n
      <4>2. Covers(m.ack) <= una'
        BY <2>3, <2>5
      <4> QED BY <2>2, <2>3, <3>3, <3>9, <4>1, <4>2
    <3>16. GotInOrder'
      <4>1. 1 .. L + n \subseteq taken /\ L + n <= pnxt
        BY <3>11, <3>14
      <4> QED BY <1>1, <3>8, <3>14, <3>15, <4>1 DEF GotInOrder
    <3>17. \A j \in Nat : Expected(j)' = Expected(j)
      <4>1. prcv' = Plus(prcv, n) /\ Len(got') = Len(got) + n
        BY <2>5, <3>8 DEF n, d, L
      <4> QED BY <1>2, <3>3, <4>1, ExpectedMoves
    <3>18. Len(got) <= Len(got')
      BY <3>3, <3>8, <3>9 DEF L
    <3>19. /\ \A x : MsgOK(x) /\ InPlace(x) => InPlace(x)'
           /\ \A f : FragInPlace(f) => FragInPlace(f)'
      BY <1>1, <1>2, <3>17, <3>18, StillInPlace
    <3>20. Placed'
      BY <1>1, <1>7, <1>8, <2>1, <3>19 DEF Placed
    <3> QED BY <3>16, <3>20
  <2>6. \/ got' = got /\ prcv' = prcv
        \/ /\ Covers(m.ack) <= pnxt /\ m.seq = prcv /\ m.data # <<>>
           /\ got' = got \o m.data /\ prcv' = Plus(prcv, Len(m.data))
    <3>1. \/ got' = got /\ prcv' = prcv
          \/ /\ Covers(m.ack) <= pnxt /\ m.seq = prcv
             /\ got' = got \o m.data /\ prcv' = Plus(prcv, Len(m.data))
      BY <1>1, <1>10 DEF ClientTakes
    <3>2. CASE got' = got \o m.data /\ prcv' = Plus(prcv, Len(m.data)) /\ m.data = <<>>
      <4>1. got' = got
        BY <1>2, <3>2
      <4>2. Plus(prcv, 0) = prcv
        <5>1. prcv + 0 = prcv /\ prcv \in Int
          BY <1>2, Sizes DEF Number
        <5>2. prcv % SeqSpace = prcv
          BY <1>2, <5>1, ModIs
        <5> QED BY <5>1, <5>2 DEF Plus
      <4>3. Len(m.data) = 0
        BY <3>2
      <4> QED BY <3>2, <4>1, <4>2, <4>3
    <3> QED BY <3>1, <3>2
  <2> QED BY <2>4, <2>5, <2>6
<1> QED BY <1>9, <1>10

(* An echo is made of a segment that came in its place, and acknowledges    *)
(* what was counted.                                                        *)
LEMMA ProcessInOrder ==
  ASSUME AckInv, AckInv', EchoInv, MaxBytes < SeqSpace, NEW m \in net, m.to = "server", NEW failed,
         ng_tcp_process(m, failed), net' \subseteq net, UNCHANGED <<lesson, client, piped>>
  PROVE  EchoInv'
<1>1. UNCHANGED <<lesson, isn, pst, una, pnxt, prcv, got, piped>>
  BY DEF client
<1>2. pst' \in {"closed", "syn"} => pnxt' = 0
  BY <1>1 DEF EchoInv
<1>3. SUFFICES ASSUME ~piped PROVE (GotInOrder /\ Placed)'
  BY <1>1, <1>2 DEF EchoInv
<1>4. GotInOrder /\ Placed /\ NetOK
  BY <1>3 DEF EchoInv, AckInv
<1>5. CASE UNCHANGED <<taken, twice>> /\ (\A i \in 1 .. Len(sndbuf') : sndbuf'[i].data = <<>>
                                          \/ \E j \in 1 .. Len(sndbuf) : sndbuf'[i] = sndbuf[j])
  <2>1. /\ \A x : MsgOK(x) /\ InPlace(x) => InPlace(x)'
        /\ \A f : FragInPlace(f) => FragInPlace(f)'
    BY <1>1, <1>5, SameEcho
  <2>2. GotInOrder'
    BY <1>1, <1>4, <1>5 DEF GotInOrder
  <2>3. \A x \in net' : InPlace(x)'
    BY <1>4, <2>1 DEF Placed, NetOK
  <2>4. \A i \in 1 .. Len(sndbuf') : \A f : f = sndbuf'[i] => FragInPlace(f)'
    <3> SUFFICES ASSUME NEW i \in 1 .. Len(sndbuf'), NEW f, f = sndbuf'[i] PROVE FragInPlace(f)'
      OBVIOUS
    <3>1. CASE f.data = <<>>
      BY <3>1 DEF FragInPlace
    <3>2. CASE \E j \in 1 .. Len(sndbuf) : f = sndbuf[j]
      BY <1>4, <2>1, <3>2 DEF Placed
    <3> QED BY <1>5, <3>1, <3>2
  <2> QED BY <2>2, <2>3, <2>4 DEF Placed
<1>6. CASE /\ ng_tcp_handle_established(m, failed) /\ Counts(m) /\ rcv_nxt' = RcvNxt(m)
           /\ "psh" \in m.flags
           /\ \/ sndbuf' = Put(sndbuf, Acknowledged(m))
              \/ sndbuf' = Put(Put(sndbuf, Acknowledged(m)), Echo(m))
  <2> DEFINE d == m.data
             a == RcvNxt(m)
  <2>1. MsgOK(m) /\ InPlace(m) /\ m \in Frame /\ FromClient(m)
    BY <1>4 DEF NetOK, MsgOK, Placed
  <2>2. d \in Seq(1 .. pnxt) /\ d # <<>> /\ Run(d) /\ Waited(m.ack, d) /\ d \in Data /\ m.ack \in Number
    BY <1>6, <2>1 DEF FromClient, InPlace, Frame
  <2>3. /\ taken' = taken \cup Bytes(d) /\ (twice => twice')
    BY <1>6 DEF Counts
  <2>4. status' \in {"ESTABLISHED", "CLOSE_WAIT"} /\ lesson = 9
    BY <1>6 DEF ng_tcp_handle_established, FinHeard
  <2>5. ~twice' => Covers(a) = Cardinality(taken') % SeqSpace
    <3>1. ~twice' => Covers(rcv_nxt)' = Cardinality(taken') % SeqSpace
      BY <1>1, <2>4 DEF AckInv, CountInv
    <3>2. Covers(rcv_nxt)' = Covers(a)
      BY <1>1, <1>6 DEF Covers
    <3> QED BY <3>1, <3>2
  <2> HIDE DEF a, d
  <2>6. /\ pnxt \in Nat /\ pnxt <= MaxBytes /\ taken' \subseteq 1 .. pnxt /\ Len(got) \in Nat
        /\ sndbuf \in Seq(Answer) /\ Len(sndbuf) <= BufSize /\ rcv_nxt' \in Number
    <3>1. got \in Data /\ pnxt \in 0 .. MaxBytes
      BY DEF AckInv, ClientOK
    <3>2. Len(got) \in Nat
      BY <3>1 DEF Data
    <3>3. taken' \subseteq 1 .. pnxt /\ rcv_nxt' \in Number
      BY <1>1 DEF AckInv, StreamOK, Number
    <3>4. sndbuf \in Seq(Answer) /\ Len(sndbuf) <= BufSize
      BY DEF AckInv, RingOK
    <3> QED BY <3>1, <3>2, <3>3, <3>4, Sizes
  <2>7. d \in Seq(Nat) /\ \A k \in 1 .. Len(d) : d[k] \in Nat /\ d[k] >= 1
    <3> DEFINE A == 1 .. pnxt
               B == Nat
    <3>1. d \in Seq(A) /\ A \subseteq B /\ \A x \in A : x \in Nat /\ x >= 1
      BY <2>2, <2>6
    <3> HIDE DEF A, B
    <3>2. d \in Seq(B) /\ \A k \in 1 .. Len(d) : d[k] \in A
      BY <3>1
    <3>3. \A k \in 1 .. Len(d) : d[k] \in Nat /\ d[k] >= 1
      BY <3>1, <3>2
    <3> QED BY <3>2, <3>3 DEF B
  <2>8. /\ Bytes(d) = d[1] .. d[1] + (Len(d) - 1) /\ d[1] \in Nat /\ Len(d) \in Nat /\ Len(d) > 0
        /\ d[Len(d)] = d[1] + (Len(d) - 1)
    BY <2>2, <2>7, BytesOf
  <2>9. d[Len(d)] <= Cardinality(taken') /\ Cardinality(taken') \in Nat /\ Cardinality(taken') <= pnxt
    <3> DEFINE e == d[Len(d)]
    <3>1. e \in Nat
      BY <2>8
    <3>2. 1 .. e \subseteq taken'
      <4>1. ASSUME NEW k \in 1 .. e PROVE k \in taken'
        <5>1. CASE k < d[1]
          <6>1. d[1] - 1 <= Len(got)
            BY <2>2 DEF Waited
          <6>2. k \in 1 .. Len(got)
            BY <2>6, <2>8, <3>1, <5>1, <6>1
          <6> QED BY <1>4, <2>3, <6>2 DEF GotInOrder
        <5>2. CASE k >= d[1]
          <6>1. k \in d[1] .. d[1] + (Len(d) - 1)
            BY <2>8, <3>1, <5>2
          <6> QED BY <2>3, <2>8, <6>1
        <5> QED BY <2>8, <5>1, <5>2
      <4> QED BY <4>1
    <3> HIDE DEF e
    <3>3. IsFiniteSet(taken') /\ Cardinality(taken') \in Nat /\ Cardinality(taken') <= pnxt
      BY <2>6, CountOf
    <3>4. Cardinality(1 .. e) <= Cardinality(taken')
      BY <3>2, <3>3, FS_Subset
    <3>5. Cardinality(1 .. e) = e
      <4>1. 1 \in Int /\ e \in Int
        BY <3>1
      <4>2. Cardinality(1 .. e) = IF 1 > e THEN 0 ELSE e - 1 + 1
        BY <4>1, FS_Interval
      <4> QED BY <3>1, <4>2
    <3> QED BY <3>3, <3>4, <3>5 DEF e
  <2>10. ~twice' => d[Len(d)] <= Covers(a)
    <3> DEFINE c == Cardinality(taken')
    <3>1. c \in Nat /\ c < SeqSpace /\ d[Len(d)] <= c
      BY <2>6, <2>9, Sizes
    <3>2. c % SeqSpace = c
      <4> HIDE DEF c
      <4>1. c \in Number /\ c \in Int
        BY <3>1, Sizes DEF Number
      <4> QED BY <4>1, ModIs
    <3> QED BY <2>5, <3>1, <3>2
  <2>11. /\ \A x : MsgOK(x) /\ InPlace(x) => InPlace(x)'
         /\ \A f : FragInPlace(f) => FragInPlace(f)'
    <3>1. taken \subseteq taken'
      BY <2>3
    <3> QED BY <1>1, <2>3, <3>1, SameEcho
  <2>12. PICK f : f = Acknowledged(m)
    OBVIOUS
  <2>13. PICK g : g = Echo(m)
    OBVIOUS
  <2>14. a \in Number
    BY <1>6, <2>6 DEF a
  <2>15. f \in Answer /\ g \in Answer /\ f.data = <<>> /\ g.seqnum = m.ack /\ g.acknum = a /\ g.data = d
    <3>1. f = [flags |-> {"ack"}, seqnum |-> m.ack, acknum |-> a, data |-> <<>>]
      BY <2>12 DEF Acknowledged, SndNxt, Fragment, a
    <3>2. g = [flags |-> {"ack", "psh"}, seqnum |-> m.ack, acknum |-> a, data |-> d]
      BY <2>13 DEF Echo, SndNxt, Fragment, d, a
    <3>3. f \in Answer
      BY <2>2, <2>14, <3>1 DEF Answer, Flags, Data
    <3>4. g \in Answer
      BY <2>2, <2>14, <3>2 DEF Answer, Flags
    <3> QED BY <3>1, <3>2, <3>3, <3>4
  <2>16. PICK b : b = a
    OBVIOUS
  <2>17. PICK e : e = d
    OBVIOUS
  <2>18. EchoOf(m.ack, b, e)'
    <3>1. e \in Seq(taken')
      <4>1. \A k \in 1 .. Len(d) : d[k] \in Bytes(d)
        BY DEF Bytes
      <4>2. \A k \in 1 .. Len(d) : d[k] \in taken'
        BY <2>3, <4>1
      <4> QED BY <2>7, <2>17, <4>2
    <3>2. Waited(m.ack, e)'
      BY <1>1, <2>2, <2>17 DEF Waited, Expected
    <3>3. ~twice' => e[Len(e)] <= Covers(b)'
      <4>1. Covers(b)' = Covers(b)
        BY <1>1 DEF Covers
      <4> QED BY <2>10, <2>16, <2>17, <4>1
    <3>4. Run(e)
      BY <2>2, <2>17
    <3> QED BY <3>1, <3>2, <3>3, <3>4 DEF EchoOf, Run
  <2>19. FragInPlace(f)' /\ FragInPlace(g)'
    BY <2>15, <2>16, <2>17, <2>18 DEF FragInPlace
  <2>20. \A i \in 1 .. Len(sndbuf') : \/ sndbuf'[i] = f \/ sndbuf'[i] = g
                                      \/ \E j \in 1 .. Len(sndbuf) : sndbuf'[i] = sndbuf[j]
    <3> DEFINE r == Put(sndbuf, f)
    <3>1. /\ r \in Seq(Answer) /\ Len(r) <= BufSize
          /\ \A i \in 1 .. Len(r) : r[i] = f \/ \E j \in 1 .. Len(sndbuf) : r[i] = sndbuf[j]
      BY <2>6, <2>15, PutIs
    <3>2. sndbuf' = r \/ sndbuf' = Put(r, g)
      BY <1>6, <2>12, <2>13
    <3> HIDE DEF r
    <3>3. CASE sndbuf' = r
      BY <3>1, <3>3
    <3>4. CASE sndbuf' = Put(r, g)
      <4>1. \A i \in 1 .. Len(Put(r, g)) : Put(r, g)[i] = g \/ \E j \in 1 .. Len(r) : Put(r, g)[i] = r[j]
        BY <2>15, <3>1, PutIs
      <4> QED BY <3>1, <3>4, <4>1
    <3> QED BY <3>2, <3>3, <3>4
  <2>21. \A i \in 1 .. Len(sndbuf') : \A h : h = sndbuf'[i] => FragInPlace(h)'
    <3>1. \A j \in 1 .. Len(sndbuf) : \A h : h = sndbuf[j] => FragInPlace(h)'
      BY <1>4, <2>11 DEF Placed
    <3> QED BY <2>19, <2>20, <3>1
  <2>22. \A x \in net' : InPlace(x)'
    BY <1>4, <2>11 DEF Placed, NetOK
  <2>23. GotInOrder'
    BY <1>1, <1>4, <2>3 DEF GotInOrder
  <2> QED BY <2>21, <2>22, <2>23 DEF Placed
<1>7. \/ UNCHANGED <<taken, twice>> /\ (\A i \in 1 .. Len(sndbuf') : sndbuf'[i].data = <<>>
                                        \/ \E j \in 1 .. Len(sndbuf) : sndbuf'[i] = sndbuf[j])
      \/ /\ ng_tcp_handle_established(m, failed) /\ Counts(m) /\ rcv_nxt' = RcvNxt(m)
         /\ "psh" \in m.flags
         /\ \/ sndbuf' = Put(sndbuf, Acknowledged(m))
            \/ sndbuf' = Put(Put(sndbuf, Acknowledged(m)), Echo(m))
  <2>1. CASE ng_tcp_handle_syn_rcvd(m) \/ Ignored
    BY <2>1 DEF ng_tcp_handle_syn_rcvd, Ignored, stream, counted
  <2>2. CASE ng_tcp_handle_established(m, failed)
    <3>1. CASE "psh" \notin m.flags \/ failed \in {"recv", "ack"}
      BY <2>2, <3>1 DEF ng_tcp_handle_established, counted
    <3>2. CASE "psh" \in m.flags /\ failed \notin {"recv", "ack"}
      BY <2>2, <3>2 DEF ng_tcp_handle_established
    <3> QED BY <3>1, <3>2
  <2>3. CASE Listening(m, failed # "none")
    <3>1. UNCHANGED <<taken, twice>>
      BY <2>3 DEF Listening, counted
    <3>2. PICK own : ng_tcp_handle_listen(m, own, failed # "none")
      BY <2>3 DEF Listening
    <3>3. CASE sndbuf' = sndbuf
      BY <3>1, <3>3
    <3>4. CASE sndbuf' = Put(sndbuf, Fragment({"syn", "ack"}, own, Plus(m.seq, 1), <<>>))
      <4>1. PICK f : f = Fragment({"syn", "ack"}, own, Plus(m.seq, 1), <<>>)
        OBVIOUS
      <4>2. f.data = <<>>
        BY <4>1 DEF Fragment
      <4>3. sndbuf \in Seq(Answer)
        BY DEF AckInv, RingOK
      <4>4. CASE sndbuf' = Append(sndbuf, f)
        <5> DEFINE L == Len(sndbuf)
        <5>1. L \in Nat /\ Len(sndbuf') = L + 1 /\ sndbuf'[L + 1] = f /\ \A j \in 1 .. L : sndbuf'[j] = sndbuf[j]
          BY <4>3, <4>4
        <5> HIDE DEF L
        <5>2. \A i \in 1 .. L + 1 : i = L + 1 \/ i \in 1 .. L
          BY <5>1
        <5> QED BY <3>1, <4>2, <5>1, <5>2 DEF L
      <4>5. CASE sndbuf' = sndbuf
        BY <3>1, <4>5
      <4> QED BY <3>4, <4>1, <4>4, <4>5 DEF Put
    <3> QED BY <3>2, <3>3, <3>4 DEF ng_tcp_handle_listen
  <2> QED BY <2>1, <2>2, <2>3 DEF ng_tcp_process
<1> QED BY <1>5, <1>6, <1>7

(* ng_tcp_out sends what is in the ring as it is. *)
LEMMA OthersInOrder ==
  ASSUME AckInv, EchoInv,
         \/ SecondStream \/ TcpOut \/ TcpOutMiss \/ ArpAnswered \/ ArpLost \/ UNCHANGED vars
         \/ \E m \in net : Lose(m)
  PROVE  EchoInv'
<1>1. UNCHANGED <<isn, pst, una, pnxt, prcv, got, taken, twice, piped>>
  BY DEF SecondStream, TcpOut, TcpOutMiss, ArpAnswered, ArpLost, Lose, client, counted, vars
<1>2. pst' \in {"closed", "syn"} => pnxt' = 0
  BY <1>1 DEF EchoInv
<1>3. SUFFICES ASSUME ~piped PROVE (GotInOrder /\ Placed)'
  BY <1>1, <1>2 DEF EchoInv
<1>4. GotInOrder /\ Placed /\ NetOK /\ sndbuf \in Seq(Answer)
  BY <1>3 DEF EchoInv, AckInv, RingOK
<1>5. GotInOrder'
  BY <1>1, <1>4 DEF GotInOrder
<1>6. /\ \A x : MsgOK(x) /\ InPlace(x) => InPlace(x)'
      /\ \A f : FragInPlace(f) => FragInPlace(f)'
  BY <1>1, SameEcho
<1>7. \A j \in 1 .. Len(sndbuf) : \A h : h = sndbuf[j] => FragInPlace(h)'
  BY <1>4, <1>6 DEF Placed
<1>8. \A x \in net : InPlace(x)'
  BY <1>4, <1>6 DEF Placed, NetOK
<1>9. CASE sndbuf' = sndbuf /\ net' \subseteq net
  BY <1>5, <1>7, <1>8, <1>9 DEF Placed
<1>10. CASE TcpOut
  <2>1. sndbuf # <<>> /\ sndbuf' = Tail(sndbuf) /\ net' = net \cup {Encoded(Head(sndbuf))}
    BY <1>10 DEF TcpOut
  <2>2. /\ Len(sndbuf) \in Nat /\ 1 \in 1 .. Len(sndbuf) /\ Head(sndbuf) = sndbuf[1]
        /\ Len(Tail(sndbuf)) = Len(sndbuf) - 1
        /\ \A i \in 1 .. Len(sndbuf) - 1 : Tail(sndbuf)[i] = sndbuf[i + 1] /\ i + 1 \in 1 .. Len(sndbuf)
    BY <1>4, <2>1
  <2>3. PICK f : f = Head(sndbuf)
    OBVIOUS
  <2>4. PICK x : x = Encoded(f)
    OBVIOUS
  <2>5. FragInPlace(f)'
    BY <1>7, <2>2, <2>3
  <2>6. x.to = "client" /\ x.seq = f.seqnum /\ x.ack = f.acknum /\ x.data = f.data
    BY <2>4 DEF Encoded, Segment
  <2>7. InPlace(x)'
    BY <2>5, <2>6 DEF InPlace, FragInPlace
  <2>8. \A y \in net' : InPlace(y)'
    BY <1>8, <2>1, <2>3, <2>4, <2>7
  <2>9. \A i \in 1 .. Len(sndbuf') : \E j \in 1 .. Len(sndbuf) : sndbuf'[i] = sndbuf[j]
    BY <2>1, <2>2
  <2> QED BY <1>5, <1>7, <2>8, <2>9 DEF Placed
<1>11. CASE TcpOutMiss
  <2>1. sndbuf # <<>> /\ sndbuf' = Append(Tail(sndbuf), Head(sndbuf)) /\ net' = net
    BY <1>11 DEF TcpOutMiss, PutBack
  <2> DEFINE L == Len(sndbuf)
             u == Tail(sndbuf)
             f == sndbuf[1]
  <2>2. /\ L \in Nat /\ L > 0 /\ f \in Answer /\ u \in Seq(Answer) /\ Len(u) = L - 1
        /\ sndbuf' = Append(u, f) /\ \A i \in 1 .. L - 1 : u[i] = sndbuf[i + 1] /\ i + 1 \in 1 .. L
    BY <1>4, <2>1
  <2> HIDE DEF L, u, f
  <2>3. Len(sndbuf') = L /\ sndbuf'[L] = f /\ \A i \in 1 .. L - 1 : sndbuf'[i] = u[i]
    BY <2>2
  <2>4. \A i \in 1 .. L : i = L \/ i \in 1 .. L - 1
    BY <2>2
  <2>5. \A i \in 1 .. L : \E j \in 1 .. L : sndbuf'[i] = sndbuf[j]
    <3>1. 1 \in 1 .. L /\ f = sndbuf[1]
      BY <2>2 DEF f
    <3> QED BY <2>2, <2>3, <2>4, <3>1
  <2> QED BY <1>5, <1>7, <1>8, <2>1, <2>3, <2>5 DEF Placed, L
<1>12. \/ sndbuf' = sndbuf /\ net' \subseteq net
       \/ TcpOut \/ TcpOutMiss
  BY DEF SecondStream, ArpAnswered, ArpLost, Lose, stream, vars
<1> QED BY <1>9, <1>10, <1>11, <1>12

(* A client that waits for an echo before it sends more receives its bytes  *)
(* in order and once, whatever the network loses, repeats or reorders, as   *)
(* long as it sends fewer bytes than there are sequence numbers.            *)
THEOREM EchoesInOrder == MaxBytes < SeqSpace => (Spec => []EchoInOrder)
<1> SUFFICES ASSUME MaxBytes < SeqSpace PROVE Spec => []EchoInOrder
  OBVIOUS
<1>1. Init => EchoInv
  BY DEF Init, EchoInv, GotInOrder, Placed, InPlace, Stray, Segment
<1>2. AckInv /\ AckInv' /\ EchoInv /\ [Next]_vars => EchoInv'
  <2> SUFFICES ASSUME AckInv, AckInv', EchoInv, [Next]_vars PROVE EchoInv'
    OBVIOUS
  <2>1. ASSUME NEW m \in net, Deliver(m) \/ Repeat(m) PROVE EchoInv'
    <3>1. PICK rest \in SUBSET net : ClientReceives(m, rest) \/ ServerReceives(m, rest)
      BY <2>1 DEF Deliver, Repeat
    <3>2. CASE ClientReceives(m, rest)
      BY <3>2, ReceiveInOrder
    <3>3. CASE ServerReceives(m, rest)
      BY <3>3, ProcessInOrder DEF ServerReceives
    <3> QED BY <3>1, <3>2, <3>3
  <2>2. ASSUME NEW m \in net, ServerOutOfMemory(m) PROVE EchoInv'
    <3>1. PICK failed : ng_tcp_process(m, failed)
      BY <2>2 DEF ServerOutOfMemory
    <3> QED BY <2>2, <3>1, ProcessInOrder DEF ServerOutOfMemory
  <2> QED BY <2>1, <2>2, ClientInOrder, OthersInOrder DEF Next, Arrival, Network, ClientStep
<1>3. EchoInv => EchoInOrder
  BY DEF EchoInv, GotInOrder, EchoInOrder
<1> QED BY <1>1, <1>2, <1>3, AckInvHolds, PTL DEF Spec
=============================================================================
