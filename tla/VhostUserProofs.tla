-------------------------- MODULE VhostUserProofs --------------------------
(***************************************************************************)
(* Proofs about the vhost-user server of vring_test, for any length of its  *)
(* list of descriptors and any number of clients and packets.               *)
(***************************************************************************)
EXTENDS VhostUserProps, FiniteSetTheorems, FunctionTheorems, SequenceTheorems, TLAPS

-----------------------------------------------------------------------------
(* The setup messages *)

\* The places of the messages the server's state depends on.
MemAt == 3
BaseAt == 10
KickAt == 11
AddrAt == 13

(* The elements of two lists of messages, one after the other.             *)
LEMMA Joined ==
  ASSUME NEW s \in Seq(Msgs), NEW t \in Seq(Msgs)
  PROVE  /\ s \o t \in Seq(Msgs) /\ Len(s \o t) = Len(s) + Len(t)
         /\ \A k \in 1..Len(s) : (s \o t)[k] = s[k]
         /\ \A k \in 1..Len(t) : (s \o t)[Len(s) + k] = t[k]
<1> DEFINE m == Len(s)
           o == Len(t)
<1>0. m \in Nat /\ o \in Nat
  BY LenProperties
<1>1. /\ s \o t \in Seq(Msgs) /\ Len(s \o t) = m + o
      /\ \A j \in 1..m + o : (s \o t)[j] = IF j <= m THEN s[j] ELSE t[j - m]
  BY ConcatProperties
<1> HIDE DEF m, o
<1>2. ASSUME NEW k \in 1..m PROVE (s \o t)[k] = s[k]
  BY <1>0, <1>1
<1>3. ASSUME NEW k \in 1..o PROVE (s \o t)[m + k] = t[k]
  <2>1. m + k \in 1..m + o /\ ~(m + k <= m) /\ (m + k) - m = k
    BY <1>0
  <2> QED BY <1>1, <2>1
<1> QED BY <1>1, <1>2, <1>3 DEF m, o

(* The table comes before the rings, and of the ring TX the index before    *)
(* the eventfd and the addresses last.                                      *)
LEMMA SetupSays ==
  /\ Setup \in Seq(Msgs) /\ Len(Setup) = 13
  /\ \A k \in 1..13 :
       /\ Setup[k].req = "mem" <=> k = MemAt
       /\ Setup[k] = Msg("base", TX) <=> k = BaseAt
       /\ Setup[k] = Msg("kick", TX) <=> k = KickAt
       /\ Setup[k] = Msg("addr", TX) <=> k = AddrAt
<1> DEFINE first == <<Msg("owner", RX), Msg("features", RX), Msg("mem", RX)>>
<1>1. /\ first \in Seq(Msgs) /\ Len(first) = 3
      /\ \A k \in 1..3 : (first[k].req = "mem" <=> k = 3) /\ first[k].ring = RX
  BY DEF Msg, Msgs, RX, TX
<1>2. ASSUME NEW r \in {RX, TX}
      PROVE  /\ RingSetup(r) \in Seq(Msgs) /\ Len(RingSetup(r)) = 5
             /\ \A j \in 1..5 : /\ RingSetup(r)[j].req # "mem" /\ RingSetup(r)[j].ring = r
                                /\ (RingSetup(r)[j] = Msg("base", r) <=> j = 2)
                                /\ (RingSetup(r)[j] = Msg("kick", r) <=> j = 3)
                                /\ (RingSetup(r)[j] = Msg("addr", r) <=> j = 5)
  BY DEF RingSetup, Msg, Msgs, RX, TX
<1>3. \A q : Msg(q, TX).ring # RX
  BY DEF Msg, TX, RX
<1> DEFINE rx == RingSetup(RX)
           tx == RingSetup(TX)
           both == first \o rx
<1>4. Setup = both \o tx
  BY DEF Setup
<1>5. /\ rx \in Seq(Msgs) /\ Len(rx) = 5 /\ tx \in Seq(Msgs) /\ Len(tx) = 5
      /\ \A j \in 1..5 : /\ rx[j].req # "mem" /\ rx[j].ring = RX /\ tx[j].req # "mem"
                         /\ (tx[j] = Msg("base", TX) <=> j = 2)
                         /\ (tx[j] = Msg("kick", TX) <=> j = 3)
                         /\ (tx[j] = Msg("addr", TX) <=> j = 5)
  BY <1>2
<1> HIDE DEF first, rx, tx
<1>6. /\ both \in Seq(Msgs) /\ Len(both) = 8
      /\ \A k \in 1..3 : both[k] = first[k]
      /\ \A k \in 1..5 : both[3 + k] = rx[k]
  <2>1. /\ both \in Seq(Msgs) /\ Len(both) = Len(first) + Len(rx)
        /\ \A k \in 1..Len(first) : both[k] = first[k]
        /\ \A k \in 1..Len(rx) : both[Len(first) + k] = rx[k]
    BY <1>1, <1>5, Joined
  <2> QED BY <1>1, <1>5, <2>1
<1> HIDE DEF both
<1>7. /\ Setup \in Seq(Msgs) /\ Len(Setup) = 13
      /\ \A k \in 1..8 : Setup[k] = both[k]
      /\ \A k \in 1..5 : Setup[8 + k] = tx[k]
  <2>1. /\ Setup \in Seq(Msgs) /\ Len(Setup) = Len(both) + Len(tx)
        /\ \A k \in 1..Len(both) : Setup[k] = both[k]
        /\ \A k \in 1..Len(tx) : Setup[Len(both) + k] = tx[k]
    BY <1>4, <1>5, <1>6, Joined, ZenonT(60)
  <2> QED BY <1>5, <1>6, <2>1
<1>8. ASSUME NEW k \in 1..3
      PROVE  (Setup[k].req = "mem" <=> k = 3) /\ Setup[k].ring = RX
  BY <1>1, <1>6, <1>7
<1>9. ASSUME NEW k \in 4..8
      PROVE  Setup[k].req # "mem" /\ Setup[k].ring = RX
  <2>1. k - 3 \in 1..5 /\ 3 + (k - 3) = k /\ k \in 1..8
    OBVIOUS
  <2>2. Setup[k] = rx[k - 3]
    BY <1>6, <1>7, <2>1
  <2> QED BY <1>5, <2>1, <2>2
<1>10. ASSUME NEW k \in 9..13
       PROVE  /\ Setup[k].req # "mem" /\ (Setup[k] = Msg("base", TX) <=> k = 10)
              /\ (Setup[k] = Msg("kick", TX) <=> k = 11) /\ (Setup[k] = Msg("addr", TX) <=> k = 13)
  <2>1. /\ k - 8 \in 1..5 /\ 8 + (k - 8) = k
        /\ (k - 8 = 2 <=> k = 10) /\ (k - 8 = 3 <=> k = 11) /\ (k - 8 = 5 <=> k = 13)
    OBVIOUS
  <2>2. Setup[k] = tx[k - 8]
    BY <1>7, <2>1
  <2> QED BY <1>5, <2>1, <2>2
<1> QED BY <1>3, <1>7, <1>8, <1>9, <1>10 DEF MemAt, BaseAt, KickAt, AddrAt

-----------------------------------------------------------------------------
(* The list of descriptors *)

(* Of the places of the list some are first.                                *)
LEMMA FirstSlot ==
  ASSUME NEW S \in SUBSET Slot, S # {}
  PROVE  \E i \in S : \A j \in S : i <= j
<1> DEFINE Below(i) == {j \in S : j < i}
           T == {Below(i) : i \in S}
<1>1. IsFiniteSet(Slot)
  BY FS_Interval, SizeAssumption DEF Slot
<1>2. T \subseteq FiniteSubsetsOf(Slot) /\ T # {}
  <2>1. \A i \in S : Below(i) \subseteq Slot /\ IsFiniteSet(Below(i))
    BY <1>1, FS_Subset
  <2> QED BY <2>1 DEF FiniteSubsetsOf
<1>3. PICK U \in T : \A V \in T : ~(<<V, U>> \in StrictSubsetOrdering(Slot))
  BY <1>2, FS_StrictSubsetOrderingWellFounded, WFMin
<1>4. PICK i \in S : U = Below(i)
  BY <1>3
<1>5. ASSUME NEW j \in S, ~(i <= j) PROVE FALSE
  <2>1. i \in Int /\ j \in Int
    BY DEF Slot
  <2>2. Below(j) \subseteq Below(i) /\ j \in Below(i)
    <3>1. j < i
      BY <1>5, <2>1
    <3>2. \A k \in S : k \in Int /\ (k < j => k < i)
      BY <2>1, <3>1 DEF Slot
    <3> QED BY <3>1, <3>2
  <2>3. j \notin Below(j)
    BY <2>1
  <2>4. Below(j) \in T /\ Below(j) \in SUBSET Slot /\ Below(i) \in SUBSET Slot /\ Below(j) # Below(i)
    BY <2>2, <2>3
  <2> QED BY <1>3, <1>4, <2>2, <2>4 DEF StrictSubsetOrdering
<1> QED BY <1>5

(* Where Add puts a descriptor. *)
LEMMA AddIs ==
  ASSUME NEW e
  PROVE  /\ FreeSlots = {} => Add(e) = slots
         /\ FreeSlots # {} => \E i \in FreeSlots : Add(e) = [slots EXCEPT ![i] = e]
<1>1. FreeSlots # {} => \E i \in FreeSlots : \A j \in FreeSlots : i <= j
  BY FirstSlot DEF FreeSlots
<1> QED BY <1>1 DEF Add

\* The types of the list: nothing is in it twice, the listening socket is first.
ListOK ==
  /\ slots \in [Slot -> Entry] /\ slots[1] = Listen
  /\ \A i, j \in Slot : slots[i] = slots[j] /\ slots[i] # Free => i = j

(* Adding a descriptor that is not in the list.                             *)
LEMMA Added ==
  ASSUME ListOK, NEW e \in Entry, e # Free, ~InList(e), slots' = Add(e)
  PROVE  /\ ListOK'
         /\ \A z : z # Free /\ InList(z)' => InList(z) \/ z = e
         /\ \A z : z # Free /\ InList(z) => InList(z)'
         /\ FreeSlots # {} => InList(e)'
         /\ FreeSlots = {} => slots' = slots
<1>1. CASE FreeSlots = {}
  BY <1>1, AddIs DEF ListOK, InList
<1>2. CASE FreeSlots # {}
  <2>1. PICK i \in Slot : slots[i] = Free /\ slots' = [slots EXCEPT ![i] = e]
    BY <1>2, AddIs DEF FreeSlots
  <2>2. i # 1 /\ 1 \in Slot
    BY <2>1, SizeAssumption DEF ListOK, Free, Listen, Slot
  <2>3. slots' \in [Slot -> Entry] /\ slots'[1] = Listen
    BY <2>1, <2>2 DEF ListOK
  <2>4. \A j \in Slot : slots'[j] = IF j = i THEN e ELSE slots[j]
    BY <2>1 DEF ListOK
  <2>5. \A j \in Slot : slots[j] # e
    BY DEF InList
  <2>6. \A j, k \in Slot : slots'[j] = slots'[k] /\ slots'[j] # Free => j = k
    BY <2>4, <2>5 DEF ListOK
  <2>7. \A z : z # Free /\ InList(z)' => InList(z) \/ z = e
    BY <2>4 DEF InList
  <2>8. \A z : z # Free /\ InList(z) => InList(z)'
    BY <2>1, <2>4 DEF InList
  <2>9. InList(e)'
    BY <2>4 DEF InList
  <2> QED BY <1>2, <2>3, <2>6, <2>7, <2>8, <2>9 DEF ListOK
<1> QED BY <1>1, <1>2
-----------------------------------------------------------------------------
(* The invariant *)

\* Who is in the list, on the network and in the shared memory: of the clients
\* before the running one only eventfds that are not read any more.
Sessions ==
  /\ backlog \subseteq {client} /\ open \subseteq {client}
  /\ cpc \in {"gone", "killed"} => open = {}
  /\ client \in backlog => ~InList(Sock(client))
  /\ \A s \in Session : s # client => ~InList(Sock(s))
  /\ \A s \in Session : s < client /\ InList(KickFd(s)) => s \notin kick
  /\ \A s \in Session : s > client =>
       /\ ~InList(KickFd(s)) /\ s \notin announced /\ msgs[s] = <<>> /\ taken[s] = 0
  /\ \A s \in Session : s <= client => obj[s] \in 1..client
  /\ mem <= client /\ desc <= client /\ announced \subseteq 1..client

\* A pass of the loop handles what was readable when select returned.
Pass ==
  /\ pos = 0 => fdset = {}
  /\ fdset \subseteq {Listen, Sock(client), KickFd(client)}

\* The server has read the n - 1 first setup messages of the running client;
\* the others it sent are in the socket, and the last one if it has ended.
ReadTo(n) ==
  /\ \/ Len(msgs[client]) = step - n
     \/ /\ Len(msgs[client]) = step - n + 1 /\ cpc = "gone"
        /\ msgs[client][step - n + 1] = Msg("reset", RX)
  /\ \A k \in 1..step - n : msgs[client][k] = Setup[n + k - 1]

\* What the server's state has of the running client at this message.
Effects(n) ==
  /\ n > MemAt => mem = client
  /\ n > BaseAt /\ strayed = "no" => last_avail = taken[client]
  /\ n <= KickAt => ~InList(KickFd(client)) /\ taken[client] = 0
  /\ client \in announced => n > KickAt
  /\ desc = client => n > AddrAt

\* The first client finds a server without a ring and an index, and has an
\* object of its own.
First ==
  /\ client = 0 => cpc = "gone" /\ mem = 0 /\ desc = 0 /\ last_avail = 0
  /\ client = 1 => obj[1] = 1 /\ last_avail <= avail[1]

Reading == client > 0 => \E n \in 1..step : ReadTo(n) /\ Effects(n)

Core == TypeOK /\ FirstClientSafe /\ ListenedUnlessFull /\ Sessions /\ Pass /\ First /\ Reading

(* That no packet is skipped follows from where the index was reset.        *)
LEMMA CoreSays == Core => SessionsSafe
<1> SUFFICES ASSUME Core PROVE NoneSkipped
  BY DEF Core, SessionsSafe
<1> SUFFICES ASSUME desc # 0, desc = client, strayed = "no" PROVE last_avail = taken[client]
  BY DEF NoneSkipped
<1>1. client \in Nat /\ step \in Nat
  BY SetupSays, SizeAssumption DEF Core, TypeOK
<1>2. PICK n \in 1..step : Effects(n)
  BY <1>1 DEF Core, Reading
<1>3. n > BaseAt
  BY <1>1, <1>2 DEF Effects, AddrAt, BaseAt
<1> QED BY <1>2, <1>3 DEF Effects

(* A step that only the running client and what it has in the list take     *)
(* part in.                                                                 *)
LEMMA SessionsKept ==
  ASSUME TypeOK, Sessions, UNCHANGED <<client, obj>>, backlog' \subseteq backlog, open' \subseteq open,
         cpc' \in {"gone", "killed"} => open' = {},
         client \in backlog' => ~InList(Sock(client))',
         \A t \in Session : t # client => /\ InList(Sock(t))' => InList(Sock(t))
                                          /\ InList(KickFd(t))' => InList(KickFd(t)),
         kick' \subseteq kick \union {client}, announced' \subseteq announced \union ({client} \cap Session),
         \A t \in Session : t > client => msgs'[t] = <<>> /\ taken'[t] = 0,
         mem' <= client, desc' <= client
  PROVE  Sessions'
<1>1. client \in Nat /\ \A t \in Session : t \in Nat /\ t >= 1
  BY SizeAssumption DEF TypeOK, Session
<1>2. backlog' \subseteq {client'} /\ open' \subseteq {client'}
  BY DEF Sessions
<1>3. \A t \in Session : t # client' => ~InList(Sock(t))'
  BY DEF Sessions
<1>4. \A t \in Session : t < client' /\ InList(KickFd(t))' => t \notin kick'
  BY <1>1 DEF Sessions
<1>5. \A t \in Session : t > client' => ~InList(KickFd(t))' /\ t \notin announced'
  BY <1>1 DEF Sessions
<1>6. \A t \in Session : t <= client' => obj'[t] \in 1..client'
  BY DEF Sessions
<1>7. announced' \subseteq 1..client'
  BY <1>1 DEF Sessions
<1>8. \A t \in Session : t > client' => msgs'[t] = <<>> /\ taken'[t] = 0
  OBVIOUS
<1>9. (client \in backlog => ~InList(Sock(client)))' /\ mem' <= client' /\ desc' <= client'
  OBVIOUS
<1> QED BY <1>2, <1>3, <1>4, <1>5, <1>6, <1>7, <1>8, <1>9 DEF Sessions

(* Eventfds stay in the list.                                               *)
LEMMA ListenedKept ==
  ASSUME TypeOK, ListenedUnlessFull, UNCHANGED <<client, announced>>,
         \A t \in Session : InList(KickFd(t)) => InList(KickFd(t))'
  PROVE  ListenedUnlessFull'
<1> SUFFICES ASSUME NEW s \in announced, s = client, ~InList(KickFd(s))'
             PROVE  Cardinality({t \in Session : t # s /\ InList(KickFd(t))'}) >= FdListSize - 2
  BY DEF ListenedUnlessFull
<1> DEFINE Others == {t \in Session : t # s /\ InList(KickFd(t))}
           Others2 == {t \in Session : t # s /\ InList(KickFd(t))'}
<1>1. Cardinality(Others) >= FdListSize - 2
  BY DEF ListenedUnlessFull, TypeOK
<1>2. Others \subseteq Others2 /\ IsFiniteSet(Others2)
  <2>1. IsFiniteSet(Session)
    BY FS_Interval, SizeAssumption DEF Session
  <2> QED BY <2>1, FS_Subset
<1>3. /\ Cardinality(Others) \in Nat /\ Cardinality(Others2) \in Nat
      /\ Cardinality(Others) <= Cardinality(Others2)
  BY <1>2, FS_Subset, FS_CardinalityType
<1> HIDE DEF Others, Others2
<1>4. Cardinality(Others2) >= FdListSize - 2
  BY <1>1, <1>3, SizeAssumption
<1> QED BY <1>4 DEF Others2

(* The server's state says as much of the client as before.                 *)
LEMMA EffectsKept ==
  ASSUME NEW n, Effects(n), UNCHANGED <<client, mem, desc, announced>>,
         InList(KickFd(client))' => InList(KickFd(client)), taken'[client] = taken[client],
         strayed' = "no" => strayed = "no" /\ last_avail' = last_avail
  PROVE  Effects(n)'
  BY DEF Effects

(* Nothing is sent or read.                                                 *)
LEMMA ReadingKept ==
  ASSUME Reading, UNCHANGED <<client, step, msgs, mem, desc, announced>>, cpc = "gone" => cpc' = "gone",
         InList(KickFd(client))' => InList(KickFd(client)), taken'[client] = taken[client],
         strayed' = "no" => strayed = "no" /\ last_avail' = last_avail
  PROVE  Reading'
<1>1. ASSUME NEW n \in 1..step, ReadTo(n), Effects(n) PROVE ReadTo(n)' /\ Effects(n)'
  <2>1. Effects(n)'
    BY <1>1, EffectsKept
  <2>2. ReadTo(n)'
    BY <1>1 DEF ReadTo
  <2> QED BY <2>1, <2>2
<1> QED BY <1>1 DEF Reading
-----------------------------------------------------------------------------
(* Steps of the clients *)

(* Types that arithmetic needs. *)
LEMMA SmallTypes ==
  ASSUME TypeOK
  PROVE  /\ client \in Nat /\ client <= MaxClients /\ step \in 1..14 /\ MaxClients \in Nat /\ MaxPkts \in Nat
         /\ \A t \in Session : t \in Nat /\ t >= 1 /\ t <= MaxClients
         /\ client \in Session <=> client > 0
  BY SetupSays, SizeAssumption DEF TypeOK, Session

(* The next client starts with the server at rest, and has to set up all of *)
(* its own.                                                                 *)
LEMMA StartCore ==
  ASSUME Core, NEW fresh, Start(fresh)
  PROVE  Core'
<1> DEFINE s == client + 1
<1>1. /\ TypeOK /\ Sessions /\ Pass /\ First /\ FirstClientSafe /\ ListenedUnlessFull
      /\ cpc \in {"gone", "killed"} /\ client < MaxClients /\ pos = 0
      /\ \A i \in Slot : ~Readable(slots[i])
      /\ fresh = (client = 0 \/ (cpc = "gone" /\ DefaultPath))
      /\ client' = s /\ cpc' = "setup" /\ step' = 1
      /\ obj' = [obj EXCEPT ![s] = IF fresh THEN s ELSE obj[client]]
      /\ avail' = [avail EXCEPT ![obj'[s]] = 0]
      /\ backlog' = backlog \cup {s} /\ open' = open \cup {s} /\ reply' = FALSE
      /\ UNCHANGED <<kick, msgs, slots, fdset, pos, mem, desc, last_avail, announced, taken, strayed>>
  BY DEF Core, Start, Quiet, loop, backend, history
<1>2. client \in Nat /\ s \in Session /\ s \in Nat /\ client < s /\ \A t \in Session : t \in Nat /\ t >= 1
  BY <1>1, SmallTypes DEF Session
<1>3. \A z : InList(z)' <=> InList(z)
  BY <1>1 DEF InList
<1>4. open = {} /\ backlog = {}
  <2>1. Listen = slots[1] /\ 1 \in Slot
    BY <1>1, SizeAssumption DEF TypeOK, Slot
  <2> QED BY <1>1, <2>1 DEF Sessions, Readable, Listen
<1>5. \A t \in Session : ~InList(Sock(t)) /\ (InList(KickFd(t)) => t \notin kick)
  BY <1>1, <1>4 DEF InList, Readable, Sock, KickFd
<1>6. /\ obj' \in [Session -> 0..MaxClients] /\ obj'[s] \in 1..s
      /\ \A t \in Session : t <= s => obj'[t] \in 1..s
  <2>1. CASE fresh
    <3>1. \A t \in Session : obj'[t] = IF t = s THEN s ELSE obj[t]
      BY <1>1, <1>2, <2>1 DEF TypeOK
    <3>2. \A t \in Session : t <= s /\ t # s => t <= client
      BY <1>2
    <3>3. \A t \in Session : t <= client => obj[t] \in 1..client
      BY <1>1 DEF Sessions
    <3>4. obj' \in [Session -> 0..MaxClients]
      BY <1>1, <1>2, <2>1, SmallTypes DEF TypeOK
    <3> QED BY <1>2, <3>1, <3>2, <3>3, <3>4
  <2>2. CASE ~fresh
    <3>1. client \in Session /\ client >= 1
      <4>1. client # 0
        BY <1>1, <2>2, Zenon
      <4> QED BY <1>1, <1>2, <4>1, SmallTypes
    <3>2. \A t \in Session : t <= client => obj[t] \in 1..client
      BY <1>1 DEF Sessions
    <3>3. obj[client] \in 1..client
      BY <1>2, <3>1, <3>2
    <3>4. \A t \in Session : obj'[t] = IF t = s THEN obj[client] ELSE obj[t]
      BY <1>1, <1>2, <2>2 DEF TypeOK
    <3>5. \A t \in Session : t <= s /\ t # s => t <= client
      BY <1>2
    <3>6. obj' \in [Session -> 0..MaxClients]
      BY <1>1, <1>2, <2>2, <3>1 DEF TypeOK
    <3> QED BY <1>2, <3>2, <3>3, <3>4, <3>5, <3>6
  <2> QED BY <2>1, <2>2
<1>7. TypeOK'
  <2>1. client' \in 0..MaxClients
    BY <1>1, <1>2, SmallTypes
  <2>2. avail' \in [Session -> 0..MaxPkts]
    <3>1. 0 \in 0..MaxPkts
      BY SizeAssumption
    <3>2. avail \in [Session -> 0..MaxPkts] /\ avail' = [avail EXCEPT ![obj'[s]] = 0]
      BY <1>1 DEF TypeOK
    <3> QED BY <3>1, <3>2
  <2>3. step' \in 1..Len(Setup) + 1
    BY <1>1, SetupSays
  <2>4. (\A i, j \in Slot : slots[i] = slots[j] /\ slots[i] # Free => i = j)'
    BY <1>1 DEF TypeOK
  <2> QED BY <1>1, <1>2, <1>6, <2>1, <2>2, <2>3, <2>4 DEF TypeOK
<1>8. Sessions'
  <2>1. backlog' \subseteq {client'} /\ open' \subseteq {client'}
    BY <1>1, <1>4
  <2>2. \A t \in Session : t > client' => t > client
    BY <1>1, <1>2
  <2>3. \A t \in Session : t > client' => ~InList(KickFd(t))' /\ t \notin announced' /\ msgs'[t] = <<>> /\ taken'[t] = 0
    BY <1>1, <1>3, <2>2 DEF Sessions
  <2>4. \A t \in Session : t < client' /\ InList(KickFd(t))' => t \notin kick'
    BY <1>1, <1>3, <1>5
  <2>5. \A t \in Session : ~InList(Sock(t))'
    BY <1>3, <1>5
  <2>6. ~InList(Sock(client))'
    BY <1>1, <1>2, <2>5
  <2>7. mem' <= client' /\ desc' <= client' /\ announced' \subseteq 1..client'
    <3>1. mem \in Nat /\ desc \in Nat /\ mem <= client /\ desc <= client
      BY <1>1, SmallTypes DEF TypeOK, Sessions
    <3>2. announced \subseteq 1..client
      BY <1>1 DEF Sessions
    <3> QED BY <1>1, <1>2, <3>1, <3>2
  <2> QED BY <1>1, <1>6, <2>1, <2>3, <2>4, <2>5, <2>6, <2>7 DEF Sessions
<1>9. Pass'
  BY <1>1 DEF Pass
<1>10. First'
  <2>1. client' # 0
    BY <1>1, <1>2
  <2>2. ASSUME client' = 1 PROVE obj'[1] = 1 /\ last_avail' <= avail'[1]
    <3>1. client = 0 /\ s = 1
      BY <1>1, <1>2, <2>2
    <3>2. obj'[s] = s /\ avail'[s] = 0
      BY <1>1, <1>2, <3>1 DEF TypeOK
    <3> QED BY <1>1, <3>1, <3>2 DEF First
  <2> QED BY <2>1, <2>2 DEF First
<1>11. FirstClientSafe'
  <2>1. client' <= 1 => client <= 1
    BY <1>1, <1>2
  <2> QED BY <1>1, <2>1 DEF FirstClientSafe
<1>12. s \notin announced /\ desc < s /\ msgs[s] = <<>> /\ ~InList(KickFd(s)) /\ taken[s] = 0
  <2>1. desc \in Nat /\ desc <= client
    BY <1>1, SmallTypes DEF TypeOK, Sessions
  <2>2. s \notin announced /\ msgs[s] = <<>> /\ ~InList(KickFd(s)) /\ taken[s] = 0
    BY <1>1, <1>2 DEF Sessions
  <2> QED BY <1>2, <2>1, <2>2
<1>13. ListenedUnlessFull'
  BY <1>1, <1>12 DEF ListenedUnlessFull
<1>14. Reading'
  <2>1. ReadTo(1)'
    <3>1. msgs'[client'] = <<>> /\ Len(msgs'[client']) = step' - 1
      BY <1>1, <1>12, EmptySeq
    <3>2. 1..step' - 1 = {}
      BY <1>1
    <3> QED BY <3>1, <3>2 DEF ReadTo
  <2>2. Effects(1)'
    <3>1. ~InList(KickFd(client))' /\ taken'[client'] = 0
      BY <1>1, <1>3, <1>12
    <3>2. client' \notin announced' /\ desc' # client'
      <4>1. desc # s
        BY <1>2, <1>12, SmallTypes, <1>1 DEF TypeOK
      <4> QED BY <1>1, <1>12, <4>1
    <3> QED BY <3>1, <3>2 DEF Effects, MemAt, BaseAt, KickAt, AddrAt
  <2>3. 1 \in 1..step'
    BY <1>1
  <2> QED BY <2>1, <2>2, <2>3 DEF Reading
<1> QED BY <1>7, <1>8, <1>9, <1>10, <1>11, <1>13, <1>14 DEF Core

(* A step of the client that sends nothing.                                 *)
LEMMA MoveCore ==
  ASSUME Core, TypeOK', UNCHANGED <<client, step, obj, backlog, msgs, slots, loop, backend, history, strayed>>,
         open' \subseteq open, cpc' \in {"gone", "killed"} => open' = {}, cpc = "gone" => cpc' = "gone",
         kick' \subseteq kick \union {client}, client = 1 => avail'[1] \in Nat /\ avail'[1] >= avail[1]
  PROVE  Core'
<1>1. /\ TypeOK /\ Sessions /\ Pass /\ First /\ FirstClientSafe /\ ListenedUnlessFull /\ Reading
      /\ UNCHANGED <<fdset, pos, mem, desc, last_avail, announced, taken>>
  BY DEF Core, loop, backend, history
<1>2. \A z : InList(z)' <=> InList(z)
  BY DEF InList
<1>3. Sessions'
  <2>1. \A t \in Session : t > client => msgs'[t] = <<>> /\ taken'[t] = 0
    BY <1>1 DEF Sessions
  <2>2. mem' <= client /\ desc' <= client /\ backlog' \subseteq backlog
        /\ announced' \subseteq announced \union ({client} \cap Session)
    BY <1>1 DEF Sessions
  <2>3. client \in backlog' => ~InList(Sock(client))'
    BY <1>1, <1>2 DEF Sessions
  <2> QED BY <1>1, <1>2, <2>1, <2>2, <2>3, SessionsKept
<1>4. ListenedUnlessFull'
  BY <1>1, <1>2, ListenedKept
<1>5. Reading'
  BY <1>1, <1>2, ReadingKept
<1>6. Pass' /\ FirstClientSafe'
  BY <1>1 DEF Pass, FirstClientSafe
<1>7. First'
  <2>1. CASE client = 1
    <3>1. 1 \in Session
      BY <1>1, <2>1, SmallTypes
    <3>2. last_avail \in Nat /\ avail[1] \in Nat /\ last_avail <= avail[1]
      BY <1>1, <2>1, <3>1, SizeAssumption DEF TypeOK, First
    <3>3. last_avail <= avail'[1]
      BY <2>1, <3>2
    <3> QED BY <1>1, <2>1, <3>3 DEF First
  <2>2. CASE client # 1
    BY <1>1, <2>2 DEF First
  <2> QED BY <2>1, <2>2
<1> QED BY <1>3, <1>4, <1>5, <1>6, <1>7 DEF Core

(* Waiting for the reply, putting packets, kicking and being killed.        *)
LEMMA MovesCore ==
  ASSUME Core, IoctlReply \/ SetupDone \/ PutPacket \/ KickServer \/ Killed
  PROVE  Core'
<1>1. TypeOK /\ Sessions
  BY DEF Core
<1>2. UNCHANGED <<client, step, obj, backlog, msgs, slots, loop, backend, history, strayed>>
  BY DEF IoctlReply, SetupDone, PutPacket, KickServer, Killed, wires
<1>3. /\ open' \subseteq open /\ (cpc' \in {"gone", "killed"} => open' = {})
      /\ cpc = "gone" => cpc' = "gone"
  <2>1. CASE Killed
    BY <1>1, <2>1 DEF Killed, Sessions
  <2>2. CASE IoctlReply \/ SetupDone \/ PutPacket \/ KickServer
    BY <2>2 DEF IoctlReply, SetupDone, PutPacket, KickServer, wires
  <2> QED BY <2>1, <2>2
<1>4. kick' \subseteq kick \union {client}
  BY DEF IoctlReply, SetupDone, PutPacket, KickServer, Killed
<1>5. /\ avail' \in [Session -> 0..MaxPkts] /\ (client = 1 => avail'[1] \in Nat /\ avail'[1] >= avail[1])
  <2>1. CASE PutPacket
    <3>1. client # 0
      BY <2>1 DEF Core, First, PutPacket
    <3>2. client \in Session /\ client \in Nat
      BY <1>1, <3>1, SmallTypes
    <3>3. obj[client] \in 1..client /\ obj[client] \in Session
      <4>1. obj[client] \in 1..client
        BY <1>1, <3>2 DEF Sessions
      <4> QED BY <1>1, <3>2, <4>1, SmallTypes DEF Session
    <3>4. /\ avail[obj[client]] \in 0..MaxPkts /\ avail[obj[client]] < MaxPkts
          /\ avail' = [avail EXCEPT ![obj[client]] = avail[obj[client]] + 1]
      BY <1>1, <2>1, <3>3 DEF PutPacket, TypeOK
    <3>5. avail[obj[client]] + 1 \in 0..MaxPkts
      BY <3>4, SizeAssumption
    <3>6. avail' \in [Session -> 0..MaxPkts]
      BY <1>1, <3>3, <3>4, <3>5 DEF TypeOK
    <3>7. ASSUME client = 1 PROVE avail'[1] \in Nat /\ avail'[1] >= avail[1]
      <4>1. obj[client] = 1 /\ 1 \in Session
        BY <3>2, <3>3, <3>7
      <4>2. avail'[1] = avail[1] + 1 /\ avail[1] \in Nat
        BY <1>1, <3>4, <4>1 DEF TypeOK
      <4> QED BY <4>2
    <3> QED BY <3>6, <3>7
  <2>2. CASE IoctlReply \/ SetupDone \/ KickServer \/ Killed
    <3>1. avail' = avail
      BY <2>2 DEF IoctlReply, SetupDone, KickServer, Killed
    <3>2. client = 1 => avail[1] \in Nat
      BY <1>1, SmallTypes DEF TypeOK
    <3> QED BY <1>1, <3>1, <3>2 DEF TypeOK
  <2> QED BY <2>1, <2>2
<1>6. TypeOK'
  <2>1. kick' \subseteq Session
    <3>1. cpc = "kick" => client \in Session
      BY <1>1, SmallTypes DEF Core, First
    <3> QED BY <1>1, <3>1 DEF IoctlReply, SetupDone, PutPacket, KickServer, Killed, TypeOK
  <2>2. cpc' \in {"gone", "killed", "setup", "await", "put", "kick"} /\ reply' \in BOOLEAN
    BY <1>1 DEF IoctlReply, SetupDone, PutPacket, KickServer, Killed, TypeOK, wires
  <2>3. open' \subseteq Session
    BY <1>1, <1>3 DEF TypeOK
  <2> QED BY <1>1, <1>2, <1>5, <2>1, <2>2, <2>3 DEF TypeOK, loop, backend, history
<1> QED BY <1>2, <1>3, <1>4, <1>5, <1>6, MoveCore

(* A message is sent, the setup in its order and RESET_OWNER at the end.    *)
LEMMA SendsCore ==
  ASSUME Core, Ioctl \/ Stop
  PROVE  Core'
<1>1. TypeOK /\ Sessions /\ Pass /\ First /\ FirstClientSafe /\ ListenedUnlessFull /\ Reading
  BY DEF Core
<1>2. UNCHANGED <<client, obj, avail, kick, backlog, reply, slots, fdset, pos, mem, desc, last_avail,
                  announced, taken, strayed>>
  BY DEF Ioctl, Stop, loop, backend, history
<1>3. PICK m \in Msgs : /\ msgs' = [msgs EXCEPT ![client] = Append(msgs[client], m)]
                        /\ \/ /\ m = Setup[step] /\ step' = step + 1 /\ step <= 13
                              /\ cpc' \in {"setup", "await"} /\ open' = open
                           \/ /\ m = Msg("reset", RX) /\ step' = step /\ cpc' = "gone"
                              /\ open' = open \ {client}
  <2>1. CASE Ioctl
    <3>1. step \in 1..13
      BY <1>1, <2>1, SetupSays, SmallTypes DEF Ioctl
    <3>2. Setup[step] \in Msgs
      BY <3>1, SetupSays, ElementOfSeq
    <3>3. msgs' = [msgs EXCEPT ![client] = Append(msgs[client], Setup[step])]
      BY <2>1 DEF Ioctl
    <3>4. step' = step + 1 /\ step <= 13 /\ cpc' \in {"setup", "await"} /\ open' = open
      BY <2>1, <3>1 DEF Ioctl
    <3> QED BY <3>2, <3>3, <3>4
  <2>2. CASE Stop
    <3>1. Msg("reset", RX) \in Msgs
      BY DEF Msg, Msgs
    <3> QED BY <2>2, <3>1 DEF Stop
  <2> QED BY <2>1, <2>2
<1>4. client \in Session /\ client \in Nat /\ client > 0 /\ cpc # "gone" /\ step \in 1..14
  BY <1>1, SmallTypes DEF Ioctl, Stop, First
<1>5. /\ msgs[client] \in Seq(Msgs) /\ msgs' \in [Session -> Seq(Msgs)]
      /\ msgs'[client] = Append(msgs[client], m)
      /\ \A t \in Session : t # client => msgs'[t] = msgs[t]
  BY <1>1, <1>3, <1>4, AppendProperties DEF TypeOK
<1>6. \A z : InList(z)' <=> InList(z)
  BY <1>2 DEF InList
<1>7. TypeOK'
  <2>1. step' \in 1..Len(Setup) + 1
    BY <1>3, <1>4, SetupSays
  <2>2. open' \subseteq Session /\ cpc' \in {"gone", "killed", "setup", "await", "put", "kick"}
    BY <1>1, <1>3 DEF TypeOK
  <2> QED BY <1>1, <1>2, <1>5, <2>1, <2>2 DEF TypeOK
<1>8. Sessions'
  <2>1. \A t \in Session : t > client => msgs'[t] = <<>> /\ taken'[t] = 0
    BY <1>1, <1>2, <1>4, <1>5 DEF Sessions
  <2>2. open' \subseteq open /\ (cpc' \in {"gone", "killed"} => open' = {})
    BY <1>1, <1>3 DEF Sessions
  <2>3. mem' <= client /\ desc' <= client
    BY <1>1, <1>2 DEF Sessions
  <2>4. client \in backlog' => ~InList(Sock(client))'
    BY <1>1, <1>2, <1>6 DEF Sessions
  <2> QED BY <1>1, <1>2, <1>6, <2>1, <2>2, <2>3, <2>4, SessionsKept
<1>9. ListenedUnlessFull'
  BY <1>1, <1>2, <1>6, ListenedKept
<1>10. Pass' /\ FirstClientSafe' /\ First'
  BY <1>1, <1>2, <1>4 DEF Pass, FirstClientSafe, First
<1>11. Reading'
  <2>1. PICK n \in 1..step : ReadTo(n) /\ Effects(n)
    BY <1>1, <1>4 DEF Reading
  <2>2. Effects(n)'
    BY <1>2, <1>6, <2>1, EffectsKept
  <2>3. /\ Len(msgs[client]) = step - n /\ n \in Nat /\ step \in Nat
        /\ \A k \in 1..step - n : msgs[client][k] = Setup[n + k - 1]
    BY <1>4, <2>1 DEF ReadTo
  <2>4. /\ Len(msgs'[client]) = (step - n) + 1 /\ msgs'[client][(step - n) + 1] = m
        /\ \A k \in 1..step - n : msgs'[client][k] = msgs[client][k]
    <3>1. PICK q \in Seq(Msgs) : q = msgs[client]
      BY <1>5
    <3>2. msgs'[client] = Append(q, m) /\ Len(q) = step - n /\ Len(q) \in Nat
      BY <1>5, <2>3, <3>1, LenProperties
    <3>3. /\ Len(Append(q, m)) = Len(q) + 1 /\ Append(q, m)[Len(q) + 1] = m
          /\ \A k \in 1..Len(q) : Append(q, m)[k] = q[k]
      BY AppendProperties
    <3> QED BY <3>1, <3>2, <3>3
  <2>5. ReadTo(n)'
    <3>1. CASE m = Setup[step] /\ step' = step + 1
      <4>1. Len(msgs'[client]) = step' - n
        BY <2>3, <2>4, <3>1
      <4>2. ASSUME NEW k \in 1..step' - n PROVE msgs'[client][k] = Setup[n + k - 1]
        <5>1. CASE k \in 1..step - n
          BY <2>3, <2>4, <5>1
        <5>2. CASE k \notin 1..step - n
          <6>1. k \in 1..(step - n) + 1 /\ n \in Int /\ step \in Int
            <7>1. step' - n = (step - n) + 1
              BY <2>3, <3>1
            <7> QED BY <2>3, <7>1
          <6>2. k = (step - n) + 1
            BY <5>2, <6>1
          <6>3. n + k - 1 = step
            BY <6>1, <6>2
          <6> QED BY <2>4, <3>1, <6>2, <6>3
        <5> QED BY <5>1, <5>2
      <4> QED BY <1>2, <4>1, <4>2 DEF ReadTo
    <3>2. CASE m = Msg("reset", RX) /\ step' = step /\ cpc' = "gone"
      <4>1. Len(msgs'[client]) = step' - n + 1 /\ msgs'[client][step' - n + 1] = Msg("reset", RX)
        BY <2>3, <2>4, <3>2
      <4>2. \A k \in 1..step' - n : msgs'[client][k] = Setup[n + k - 1]
        BY <2>3, <2>4, <3>2
      <4> QED BY <1>2, <3>2, <4>1, <4>2 DEF ReadTo
    <3> QED BY <1>3, <3>1, <3>2
  <2>6. n \in 1..step'
    BY <1>3, <1>4
  <2> QED BY <2>2, <2>5, <2>6 DEF Reading
<1> QED BY <1>7, <1>8, <1>9, <1>10, <1>11 DEF Core
-----------------------------------------------------------------------------
(* Steps of the server *)

(* The descriptor at hand is in the list and was readable; of connections   *)
(* and eventfds it is the running client's.                                 *)
LEMMA AtWhere ==
  ASSUME Core, NEW kind, NEW s, At(kind, s)
  PROVE  /\ pos' \in 1..FdListSize + 1 /\ fdset' = fdset
         /\ InList(<<kind, s>>) /\ <<kind, s>> \in {Listen, Sock(client), KickFd(client)}
<1> DEFINE i == CHOOSE j \in Marked : \A k \in Marked : j <= k
<1>1. /\ pos > 0 /\ Marked # {} /\ slots[i] = <<kind, s>> /\ pos' = i + 1 /\ fdset' = fdset
  BY DEF At
<1>2. pos \in 0..FdListSize + 1
  BY DEF Core, TypeOK
<1>3. Marked \in SUBSET Slot
  BY <1>1, <1>2, SizeAssumption DEF Marked, Slot
<1>4. i \in Marked
  BY <1>1, <1>3, FirstSlot
<1> HIDE DEF i
<1>5. i \in Slot /\ slots[i] \in fdset
  BY <1>3, <1>4 DEF Marked
<1>6. pos' \in 1..FdListSize + 1
  BY <1>1, <1>5, SizeAssumption DEF Slot
<1> QED BY <1>1, <1>5, <1>6 DEF InList, Core, Pass

(* A message is read: the next one of the setup, or RESET_OWNER behind it.  *)
LEMMA Receives ==
  ASSUME Core, NEW s \in Session, NEW reqs, Receive(s, reqs), UNCHANGED clients
  PROVE  /\ s = client /\ InList(Sock(s)) /\ pos' \in 1..FdListSize + 1 /\ fdset' = fdset
         /\ msgs' \in [Session -> Seq(Msgs)] /\ \A t \in Session : t # s => msgs'[t] = msgs[t]
         /\ Head(msgs[s]) \in Msgs /\ Head(msgs[s]).req \in reqs
         /\ \E n \in 1..step :
              /\ Effects(n)
              /\ \/ n \in 1..13 /\ n + 1 \in 1..step /\ Head(msgs[s]) = Setup[n] /\ ReadTo(n + 1)'
                 \/ Head(msgs[s]) = Msg("reset", RX) /\ ReadTo(n)'
<1>1. /\ TypeOK /\ Reading /\ At("sock", s) /\ msgs[s] # <<>> /\ Head(msgs[s]).req \in reqs
      /\ msgs' = [msgs EXCEPT ![s] = Tail(msgs[s])]
  BY DEF Core, Receive
<1>2. s = client /\ InList(Sock(s)) /\ pos' \in 1..FdListSize + 1 /\ fdset' = fdset
  <2>1. /\ pos' \in 1..FdListSize + 1 /\ fdset' = fdset /\ InList(<<"sock", s>>)
        /\ <<"sock", s>> \in {Listen, Sock(client), KickFd(client)}
    BY <1>1, AtWhere
  <2> QED BY <2>1 DEF Sock, Listen, KickFd
<1>3. msgs[s] \in Seq(Msgs)
  BY <1>1 DEF TypeOK
<1> DEFINE q == msgs[s]
<1>4. /\ Head(q) = q[1] /\ Head(q) \in Msgs /\ Len(q) \in Nat \ {0} /\ Tail(q) \in Seq(Msgs)
      /\ Len(Tail(q)) = Len(q) - 1 /\ \A k \in 1..Len(Tail(q)) : Tail(q)[k] = q[k + 1]
  BY <1>1, <1>3, HeadTailProperties, LenProperties, EmptySeq
<1>5. /\ msgs' \in [Session -> Seq(Msgs)] /\ msgs'[s] = Tail(q)
      /\ \A t \in Session : t # s => msgs'[t] = msgs[t]
  BY <1>1, <1>4 DEF TypeOK
<1>6. client > 0 /\ step \in 1..14 /\ step' = step /\ cpc' = cpc /\ client' = client
  BY <1>1, <1>2, SmallTypes DEF clients
<1>7. PICK n \in 1..step : ReadTo(n) /\ Effects(n)
  BY <1>1, <1>6 DEF Reading
<1>8. /\ \/ Len(q) = step - n
         \/ Len(q) = step - n + 1 /\ cpc = "gone" /\ q[step - n + 1] = Msg("reset", RX)
      /\ \A k \in 1..step - n : q[k] = Setup[n + k - 1]
  BY <1>2, <1>7 DEF ReadTo
<1>9. msgs'[client'] = Tail(q)
  BY <1>2, <1>5, <1>6
<1> HIDE DEF q
<1>10. CASE n < step
  <2>1. n \in 1..13 /\ n + 1 \in 1..step /\ 1 \in 1..step - n /\ n + 1 - 1 = n
    BY <1>6, <1>10
  <2>2. Head(q) = Setup[n]
    BY <1>4, <1>8, <2>1
  <2>3. step - (n + 1) = (step - n) - 1 /\ n \in Nat /\ step \in Nat
    BY <1>6, <2>1
  <2>4. /\ Len(q) = step - n => Len(Tail(q)) = step - (n + 1)
        /\ Len(q) = step - n + 1 => Len(Tail(q)) = step - (n + 1) + 1
                                     /\ Tail(q)[step - (n + 1) + 1] = q[step - n + 1]
    <3>1. ASSUME Len(q) = step - n + 1 PROVE Tail(q)[step - (n + 1) + 1] = q[step - n + 1]
      <4>1. step - (n + 1) + 1 \in 1..Len(Tail(q)) /\ (step - (n + 1) + 1) + 1 = step - n + 1
        BY <1>4, <1>10, <2>3, <3>1
      <4> QED BY <1>4, <4>1
    <3>2. Len(Tail(q)) = Len(q) - 1 /\ Len(q) \in Nat
      BY <1>4
    <3>3. Len(q) = step - n => Len(Tail(q)) = step - (n + 1)
      BY <2>3, <3>2
    <3>4. Len(q) = step - n + 1 => Len(Tail(q)) = step - (n + 1) + 1
      BY <2>3, <3>2
    <3> QED BY <3>1, <3>3, <3>4
  <2>5. ASSUME NEW k \in 1..step - (n + 1) PROVE Tail(q)[k] = Setup[(n + 1) + k - 1]
    <3>1. k \in 1..Len(Tail(q)) /\ k + 1 \in 1..step - n /\ n + (k + 1) - 1 = (n + 1) + k - 1
      BY <1>4, <1>8, <2>3
    <3> QED BY <1>4, <1>8, <3>1
  <2>6. ReadTo(n + 1)'
    BY <1>6, <1>8, <1>9, <2>4, <2>5 DEF ReadTo
  <2> QED BY <1>1, <1>2, <1>4, <1>5, <1>7, <2>1, <2>2, <2>6 DEF q
<1>11. CASE ~(n < step)
  <2>1. n = step /\ step - n = 0 /\ step - n + 1 = 1
    BY <1>6, <1>11
  <2>2. Len(q) = 1 /\ cpc = "gone" /\ Head(q) = Msg("reset", RX)
    BY <1>4, <1>8, <2>1
  <2>3. Len(Tail(q)) = step - n
    BY <1>4, <2>1, <2>2
  <2>4. 1..step - n = {}
    BY <2>1
  <2>5. ReadTo(n)'
    BY <1>6, <1>9, <2>3, <2>4 DEF ReadTo
  <2> QED BY <1>1, <1>2, <1>4, <1>5, <1>7, <2>2, <2>5 DEF q
<1> QED BY <1>10, <1>11

\* The state the server has after a message is the right one for the next.
Follows(s) ==
  /\ \A n \in 1..13 : Effects(n) /\ Head(msgs[s]) = Setup[n] => Effects(n + 1)'
  /\ Head(msgs[s]) = Msg("reset", RX) => \A n \in 1..step : Effects(n) => Effects(n)'

(* A message that does not change the list of descriptors.                  *)
LEMMA MessageCore ==
  ASSUME Core, NEW s \in Session, NEW reqs, Receive(s, reqs), Follows(s),
         UNCHANGED <<clients, kick, backlog, open, slots, announced, taken>>, reply' \in BOOLEAN,
         mem' \in {mem, s}, desc' \in {desc, s}, last_avail' \in {last_avail, 0},
         strayed' \in {strayed, "sigpipe"}
  PROVE  Core'
<1>1. /\ TypeOK /\ Sessions /\ Pass /\ First /\ FirstClientSafe /\ ListenedUnlessFull /\ Reading
      /\ UNCHANGED <<client, cpc, step, obj, avail>>
  BY DEF Core, clients
<1>2. /\ s = client /\ pos' \in 1..FdListSize + 1 /\ fdset' = fdset
      /\ msgs' \in [Session -> Seq(Msgs)] /\ \A t \in Session : t # s => msgs'[t] = msgs[t]
  BY Receives
<1>3. \A z : InList(z)' <=> InList(z)
  BY DEF InList
<1>4. client \in Nat /\ client > 0 /\ client <= MaxClients /\ MaxClients \in Nat /\ MaxPkts \in Nat
  BY <1>1, <1>2, SmallTypes
<1>5. mem' \in 0..MaxClients /\ desc' \in 0..MaxClients /\ mem' <= client /\ desc' <= client
      /\ last_avail' \in 0..MaxPkts
  <2>1. mem \in 0..MaxClients /\ desc \in 0..MaxClients /\ mem <= client /\ desc <= client
        /\ last_avail \in 0..MaxPkts /\ s \in 0..MaxClients /\ s <= client /\ 0 \in 0..MaxPkts
    BY <1>1, <1>2, <1>4 DEF TypeOK, Sessions
  <2> QED BY <2>1
<1>6. TypeOK'
  <2>1. pos' \in 0..FdListSize + 1
    BY <1>2, SizeAssumption
  <2>2. strayed' \in {"no", "unmapped", "runaway", "unset", "sigpipe"}
    BY <1>1 DEF TypeOK
  <2> QED BY <1>1, <1>2, <1>5, <2>1, <2>2 DEF TypeOK
<1>7. Sessions'
  <2>1. \A t \in Session : t > client => msgs'[t] = <<>> /\ taken'[t] = 0
    BY <1>1, <1>2, <1>4 DEF Sessions
  <2>2. cpc' \in {"gone", "killed"} => open' = {}
    BY <1>1 DEF Sessions
  <2>3. client \in backlog' => ~InList(Sock(client))'
    BY <1>1, <1>3 DEF Sessions
  <2> QED BY <1>1, <1>3, <1>5, <2>1, <2>2, <2>3, SessionsKept
<1>8. ListenedUnlessFull'
  BY <1>1, <1>3, ListenedKept
<1>9. Pass'
  BY <1>1, <1>2 DEF Pass
<1>10. FirstClientSafe'
  BY <1>1 DEF FirstClientSafe
<1>11. First'
  <2>1. client = 1 => 0 <= avail[1]
    BY <1>1, <1>2, SizeAssumption DEF TypeOK
  <2> QED BY <1>1, <1>4, <2>1 DEF First
<1>12. Reading'
  <2>1. PICK n \in 1..step :
          /\ Effects(n)
          /\ \/ n \in 1..13 /\ n + 1 \in 1..step /\ Head(msgs[s]) = Setup[n] /\ ReadTo(n + 1)'
             \/ Head(msgs[s]) = Msg("reset", RX) /\ ReadTo(n)'
    BY Receives
  <2>2. CASE n \in 1..13 /\ n + 1 \in 1..step /\ Head(msgs[s]) = Setup[n] /\ ReadTo(n + 1)'
    <3>1. Effects(n + 1)'
      BY <2>1, <2>2 DEF Follows
    <3> QED BY <1>1, <2>2, <3>1 DEF Reading
  <2>3. CASE Head(msgs[s]) = Msg("reset", RX) /\ ReadTo(n)'
    <3>1. Effects(n)'
      BY <2>1, <2>3 DEF Follows
    <3> QED BY <1>1, <2>3, <3>1 DEF Reading
  <2> QED BY <2>1, <2>2, <2>3
<1> QED BY <1>6, <1>7, <1>8, <1>9, <1>10, <1>11, <1>12 DEF Core

(* A message the server only notes.                                         *)
LEMMA EffectsNext ==
  ASSUME NEW n \in 1..13, n \notin {MemAt, BaseAt, KickAt, AddrAt}, Effects(n)
  PROVE  Effects(n + 1)
<1>1. /\ n + 1 > MemAt <=> n > MemAt
      /\ n + 1 > BaseAt <=> n > BaseAt
      /\ n + 1 > KickAt <=> n > KickAt
      /\ n + 1 <= KickAt <=> n <= KickAt
      /\ n + 1 > AddrAt <=> n > AddrAt
  BY DEF MemAt, BaseAt, KickAt, AddrAt
<1> QED BY <1>1 DEF Effects

\* Setup messages that leave the back end as it is.
Plain == [req : {"owner", "features", "num", "call"}, ring : {RX, TX}]
           \union {Msg("base", RX), Msg("kick", RX), Msg("addr", RX), Msg("reset", RX), Msg("reset", TX)}

(* After them the server's state is as right as before.                     *)
LEMMA PlainFollows ==
  ASSUME NEW s \in Session, Head(msgs[s]) \in Plain, UNCHANGED <<client, backend, slots, announced, taken>>,
         strayed' \in {strayed, "sigpipe"}
  PROVE  Follows(s)
<1>1. InList(KickFd(client))' => InList(KickFd(client))
  BY DEF InList
<1>2. ASSUME NEW n, Effects(n) PROVE Effects(n)'
  BY <1>1, <1>2, EffectsKept DEF backend
<1>3. ASSUME NEW n \in 1..13, Effects(n), Head(msgs[s]) = Setup[n] PROVE Effects(n + 1)'
  <2>1. n \notin {MemAt, BaseAt, KickAt, AddrAt}
    <3>1. \A m \in Plain : /\ m.req # "mem" /\ m # Msg("base", TX)
                           /\ m # Msg("kick", TX) /\ m # Msg("addr", TX)
      <4>1. TX # RX
        BY DEF TX, RX
      <4> QED BY <4>1 DEF Plain, Msg
    <3>2. Setup[n] \in Plain
      BY <1>3
    <3> QED BY <3>1, <3>2, SetupSays
  <2>2. Effects(n + 1)
    BY <1>3, <2>1, EffectsNext
  <2> QED BY <1>2, <2>2
<1> QED BY <1>2, <1>3 DEF Follows

(* The messages that are only noted, and the one that asks for a reply.     *)
LEMMA PlainCore ==
  ASSUME Core, NEW s \in Session, Noted(s) \/ GetFeatures(s)
  PROVE  Core'
<1>1. PICK reqs \in {{"owner", "reset", "num", "call"}, {"features"}} : Receive(s, reqs)
  BY DEF Noted, GetFeatures
<1>2. UNCHANGED <<clients, kick, backlog, open, slots, announced, taken, mem, desc, last_avail>>
  BY DEF Noted, GetFeatures, backend, history
<1>3. strayed' \in {strayed, "sigpipe"} /\ reply' \in BOOLEAN
  BY DEF Noted, GetFeatures, Core, TypeOK
<1>4. Head(msgs[s]) \in Plain
  <2>1. Head(msgs[s]) \in Msgs /\ Head(msgs[s]).req \in reqs
    BY <1>1, <1>2, Receives
  <2> QED BY <1>1, <2>1 DEF Msgs, Plain, Msg, RX, TX
<1>5. Follows(s)
  BY <1>2, <1>3, <1>4, PlainFollows DEF backend, clients
<1> QED BY <1>1, <1>2, <1>3, <1>5, MessageCore

(* The memory table of the running client.                                  *)
LEMMA SetMemTableCore ==
  ASSUME Core, NEW s \in Session, SetMemTable(s)
  PROVE  Core'
<1>1. /\ Receive(s, {"mem"}) /\ mem' = s
      /\ UNCHANGED <<clients, kick, backlog, open, slots, announced, taken, desc, last_avail, strayed, reply>>
  BY DEF SetMemTable, history
<1>2. s = client /\ Head(msgs[s]).req = "mem" /\ client' = client
  BY <1>1, Receives DEF clients
<1>3. Follows(s)
  <2>1. ASSUME NEW n \in 1..13, Effects(n), Head(msgs[s]) = Setup[n] PROVE Effects(n + 1)'
    <3>1. n = MemAt
      BY <1>2, <2>1, SetupSays
    <3>2. n + 1 <= KickAt /\ ~(n + 1 > BaseAt) /\ n <= KickAt /\ ~(n > AddrAt) /\ ~(n > KickAt)
      BY <3>1 DEF MemAt, BaseAt, KickAt, AddrAt
    <3>3. ~InList(KickFd(client)) /\ taken[client] = 0 /\ client \notin announced /\ desc # client
      BY <2>1, <3>2 DEF Effects
    <3> QED BY <1>1, <1>2, <3>2, <3>3 DEF Effects, InList
  <2>2. Head(msgs[s]) # Msg("reset", RX)
    BY <1>2 DEF Msg
  <2> QED BY <2>1, <2>2 DEF Follows
<1>4. strayed' \in {strayed, "sigpipe"} /\ reply' \in BOOLEAN
  BY <1>1 DEF Core, TypeOK
<1> QED BY <1>1, <1>3, <1>4, MessageCore

(* The index starts over, before anything of this client was handed on.     *)
LEMMA SetVringBaseCore ==
  ASSUME Core, NEW s \in Session, SetVringBase(s)
  PROVE  Core'
<1>1. /\ Receive(s, {"base"}) /\ last_avail' = IF Ring(s) = TX THEN 0 ELSE last_avail
      /\ UNCHANGED <<clients, kick, backlog, open, slots, announced, taken, mem, desc, strayed, reply>>
  BY DEF SetVringBase, history
<1>2. s = client /\ Head(msgs[s]).req = "base" /\ Head(msgs[s]) \in Msgs /\ client' = client
  BY <1>1, Receives DEF clients
<1>3. Follows(s)
  <2>1. CASE Ring(s) = TX
    <3>1. Head(msgs[s]) = Msg("base", TX) /\ last_avail' = 0
      BY <1>1, <1>2, <2>1 DEF Ring, Msg, Msgs
    <3>2. ASSUME NEW n \in 1..13, Effects(n), Head(msgs[s]) = Setup[n] PROVE Effects(n + 1)'
      <4>1. n = BaseAt
        BY <3>1, <3>2, SetupSays
      <4>2. /\ n + 1 <= KickAt /\ n <= KickAt /\ ~(n > AddrAt) /\ ~(n > KickAt) /\ n > MemAt
        BY <4>1 DEF MemAt, BaseAt, KickAt, AddrAt
      <4>3. /\ ~InList(KickFd(client)) /\ taken[client] = 0 /\ client \notin announced /\ desc # client
            /\ mem = client
        BY <3>2, <4>2 DEF Effects
      <4> QED BY <1>1, <1>2, <3>1, <4>2, <4>3 DEF Effects, InList
    <3>3. Head(msgs[s]) # Msg("reset", RX)
      BY <1>2 DEF Msg
    <3> QED BY <3>2, <3>3 DEF Follows
  <2>2. CASE Ring(s) # TX
    <3>1. Head(msgs[s]) = Msg("base", RX)
      BY <1>2, <2>2 DEF Ring, Msg, Msgs
    <3> QED BY <1>1, <1>2, <2>2, <3>1, PlainFollows DEF Plain, backend
  <2> QED BY <2>1, <2>2
<1>4. strayed' \in {strayed, "sigpipe"} /\ reply' \in BOOLEAN /\ last_avail' \in {last_avail, 0}
  BY <1>1 DEF Core, TypeOK
<1> QED BY <1>1, <1>3, <1>4, MessageCore

(* The ring is set last.                                                    *)
LEMMA SetVringAddrCore ==
  ASSUME Core, NEW s \in Session, SetVringAddr(s)
  PROVE  Core'
<1>1. /\ Receive(s, {"addr"}) /\ desc' = IF Ring(s) = TX THEN s ELSE desc
      /\ UNCHANGED <<clients, kick, backlog, open, slots, announced, taken, mem, last_avail, strayed, reply>>
  BY DEF SetVringAddr, history
<1>2. s = client /\ Head(msgs[s]).req = "addr" /\ Head(msgs[s]) \in Msgs /\ client' = client
  BY <1>1, Receives DEF clients
<1>3. Follows(s)
  <2>1. CASE Ring(s) = TX
    <3>1. Head(msgs[s]) = Msg("addr", TX)
      BY <1>2, <2>1 DEF Ring, Msg, Msgs
    <3>2. ASSUME NEW n \in 1..13, Effects(n), Head(msgs[s]) = Setup[n] PROVE Effects(n + 1)'
      <4>1. n = AddrAt
        BY <3>1, <3>2, SetupSays
      <4>2. n > MemAt /\ n > BaseAt /\ n + 1 > KickAt /\ n + 1 > AddrAt /\ ~(n + 1 <= KickAt)
        BY <4>1 DEF MemAt, BaseAt, KickAt, AddrAt
      <4>3. mem = client /\ (strayed = "no" => last_avail = taken[client])
        BY <3>2, <4>2 DEF Effects
      <4> QED BY <1>1, <1>2, <4>2, <4>3 DEF Effects
    <3>3. Head(msgs[s]) # Msg("reset", RX)
      BY <1>2 DEF Msg
    <3> QED BY <3>2, <3>3 DEF Follows
  <2>2. CASE Ring(s) # TX
    <3>1. Head(msgs[s]) = Msg("addr", RX)
      BY <1>2, <2>2 DEF Ring, Msg, Msgs
    <3> QED BY <1>1, <1>2, <2>2, <3>1, PlainFollows DEF Plain, backend
  <2> QED BY <2>1, <2>2
<1>4. strayed' \in {strayed, "sigpipe"} /\ reply' \in BOOLEAN /\ desc' \in {desc, s}
  BY <1>1 DEF Core, TypeOK
<1> QED BY <1>1, <1>3, <1>4, MessageCore

(* A step of the loop that reads no message and no eventfd.                 *)
LEMMA LoopCore ==
  ASSUME Core, TypeOK', Pass', UNCHANGED <<clients, kick, msgs, open, backend, history, strayed>>,
         backlog' \subseteq backlog, client \in backlog' => ~InList(Sock(client))',
         \A t \in Session : InList(KickFd(t))' <=> InList(KickFd(t)),
         \A t \in Session : t # client /\ InList(Sock(t))' => InList(Sock(t))
  PROVE  Core'
<1>1. /\ TypeOK /\ Sessions /\ First /\ FirstClientSafe /\ ListenedUnlessFull /\ Reading
      /\ UNCHANGED <<client, cpc, step, obj, avail, mem, desc, last_avail, announced, taken>>
  BY DEF Core, clients, backend, history
<1>2. Sessions'
  <2>1. \A t \in Session : t > client => msgs'[t] = <<>> /\ taken'[t] = 0
    BY <1>1 DEF Sessions
  <2>2. cpc' \in {"gone", "killed"} => open' = {}
    BY <1>1 DEF Sessions
  <2>3. mem' <= client /\ desc' <= client
    BY <1>1 DEF Sessions
  <2> QED BY <1>1, <2>1, <2>2, <2>3, SessionsKept
<1>3. ListenedUnlessFull'
  BY <1>1, ListenedKept
<1>4. FirstClientSafe' /\ First'
  BY <1>1 DEF FirstClientSafe, First
<1>5. Reading'
  <2>1. CASE client \in Session
    BY <1>1, <2>1, ReadingKept
  <2>2. CASE client \notin Session
    BY <1>1, <2>2, SmallTypes DEF Reading
  <2> QED BY <2>1, <2>2
<1> QED BY <1>2, <1>3, <1>4, <1>5 DEF Core

(* select and the end of a pass.                                            *)
LEMMA PassCore ==
  ASSUME Core, Select \/ EndTraverse
  PROVE  Core'
<1>1. /\ UNCHANGED <<clients, kick, msgs, open, backlog, reply, slots, backend, history, strayed>>
      /\ UNCHANGED <<client, cpc, step, obj, avail, mem, desc, last_avail, announced, taken>>
  BY DEF Select, EndTraverse, wires, clients, backend, history
<1>2. TypeOK /\ Sessions /\ Pass
  BY DEF Core
<1>3. fdset' \subseteq Entry \ {Free} /\ pos' \in 0..FdListSize + 1 /\ Pass'
  <2>1. CASE Select
    <3>1. ASSUME NEW i \in Slot, Readable(slots[i])
          PROVE  slots[i] \in Entry \ {Free} /\ slots[i] \in {Listen, Sock(client), KickFd(client)}
      <4>1. slots[i] \in Entry /\ InList(slots[i])
        BY <1>2 DEF TypeOK, InList
      <4>2. slots[i] # Free
        BY <3>1 DEF Readable, Free
      <4>3. ASSUME NEW t \in Session, slots[i] = Sock(t) PROVE t = client
        BY <1>2, <4>1, <4>3 DEF Sessions
      <4>4. ASSUME NEW t \in Session, slots[i] = KickFd(t) PROVE t = client
        <5>1. t \in kick /\ InList(KickFd(t))
          BY <3>1, <4>1, <4>4 DEF Readable, KickFd
        <5>2. ~(t < client) /\ ~(t > client)
          BY <1>2, <5>1 DEF Sessions
        <5> QED BY <1>2, <5>2, SmallTypes
      <4> QED BY <4>1, <4>2, <4>3, <4>4 DEF Entry
    <3>2. fdset' = {slots[i] : i \in {j \in Slot : Readable(slots[j])}} /\ pos' = 1
      BY <2>1 DEF Select
    <3>3. fdset' \subseteq Entry \ {Free} /\ fdset' \subseteq {Listen, Sock(client), KickFd(client)}
      BY <3>1, <3>2
    <3>4. 1 \in 0..FdListSize + 1
      BY SizeAssumption
    <3> QED BY <1>1, <3>2, <3>3, <3>4 DEF Pass
  <2>2. CASE EndTraverse
    <3>1. fdset' = {} /\ pos' = 0 /\ 0 \in 0..FdListSize + 1
      BY <2>2, SizeAssumption DEF EndTraverse
    <3> QED BY <3>1 DEF Pass
  <2> QED BY <2>1, <2>2
<1>4. TypeOK'
  BY <1>1, <1>2, <1>3 DEF TypeOK
<1>5. \A z : InList(z)' <=> InList(z)
  BY <1>1 DEF InList
<1>6. client \in backlog' => ~InList(Sock(client))'
  BY <1>1, <1>2, <1>5 DEF Sessions
<1> QED BY <1>1, <1>3, <1>4, <1>5, <1>6, LoopCore

(* The connection of the running client is accepted and listed once.        *)
LEMMA AcceptCore ==
  ASSUME Core, Accept
  PROVE  Core'
<1>1. TypeOK /\ Sessions /\ Pass
  BY DEF Core
<1>2. PICK s \in backlog : backlog' = backlog \ {s} /\ slots' = Add(Sock(s))
  BY DEF Accept
<1>3. s = client /\ s \in Session /\ ~InList(Sock(s)) /\ client \notin backlog'
  BY <1>1, <1>2 DEF Sessions, TypeOK
<1>4. At("listen", 0) /\ UNCHANGED <<clients, kick, msgs, open, reply, backend, history, strayed>>
  BY DEF Accept
<1>5. pos' \in 1..FdListSize + 1 /\ fdset' = fdset
  BY <1>4, AtWhere
<1>6. ListOK /\ Sock(s) \in Entry /\ Sock(s) # Free
  BY <1>1, <1>3 DEF TypeOK, ListOK, Entry, Sock, Free
<1>7. /\ ListOK'
      /\ \A z : z # Free /\ InList(z)' => InList(z) \/ z = Sock(s)
      /\ \A z : z # Free /\ InList(z) => InList(z)'
  BY <1>2, <1>3, <1>6, Added
<1>8. TypeOK'
  <2>1. pos' \in 0..FdListSize + 1
    BY <1>5, SizeAssumption
  <2>2. UNCHANGED <<client, cpc, step, obj, avail, mem, desc, last_avail, announced, taken>>
    BY <1>4 DEF clients, backend, history
  <2> QED BY <1>1, <1>2, <1>4, <1>5, <1>7, <2>1, <2>2 DEF TypeOK, ListOK
<1>9. Pass'
  <2>1. client' = client /\ pos' # 0
    BY <1>4, <1>5 DEF clients
  <2> QED BY <1>1, <1>5, <2>1 DEF Pass
<1>10. \A t \in Session : InList(KickFd(t))' <=> InList(KickFd(t))
  BY <1>7 DEF KickFd, Sock, Free
<1>11. \A t \in Session : t # client /\ InList(Sock(t))' => InList(Sock(t))
  BY <1>3, <1>7 DEF Sock, Free
<1>12. backlog' \subseteq backlog
  BY <1>2
<1> QED BY <1>3, <1>4, <1>8, <1>9, <1>10, <1>11, <1>12, LoopCore

(* The place of a closed connection is free again.                          *)
LEMMA HangupCore ==
  ASSUME Core, NEW s \in Session, Hangup(s)
  PROVE  Core'
<1>1. TypeOK /\ Sessions /\ Pass
  BY DEF Core
<1>2. /\ At("sock", s) /\ UNCHANGED <<clients, kick, msgs, open, backlog, reply, backend, history, strayed>>
      /\ slots' = [i \in Slot |-> IF slots[i] = Sock(s) THEN Free ELSE slots[i]]
  BY DEF Hangup, wires
<1>3. pos' \in 1..FdListSize + 1 /\ fdset' = fdset
  BY <1>2, AtWhere
<1>4. \A z : z # Free /\ InList(z)' => InList(z)
  BY <1>2 DEF InList
<1>5. \A t \in Session : InList(KickFd(t)) => InList(KickFd(t))'
  <2>1. ASSUME NEW t \in Session, NEW i \in Slot, slots[i] = KickFd(t) PROVE slots'[i] = KickFd(t)
    <3>1. KickFd(t) # Sock(s)
      BY DEF KickFd, Sock
    <3> QED BY <1>2, <2>1, <3>1
  <2> QED BY <2>1 DEF InList
<1>6. ListOK'
  <2>1. slots \in [Slot -> Entry] /\ slots[1] = Listen /\ Free \in Entry /\ Listen # Sock(s) /\ 1 \in Slot
    BY <1>1, SizeAssumption DEF TypeOK, Entry, Listen, Sock, Slot
  <2>2. slots' \in [Slot -> Entry] /\ slots'[1] = Listen
    BY <1>2, <2>1
  <2>3. \A i, j \in Slot : slots'[i] = slots'[j] /\ slots'[i] # Free => i = j
    BY <1>1, <1>2 DEF TypeOK
  <2> QED BY <2>2, <2>3 DEF ListOK
<1>7. TypeOK'
  <2>1. pos' \in 0..FdListSize + 1
    BY <1>3, SizeAssumption
  <2>2. UNCHANGED <<client, cpc, step, obj, avail, mem, desc, last_avail, announced, taken>>
    BY <1>2 DEF clients, backend, history
  <2> QED BY <1>1, <1>2, <1>3, <1>6, <2>1, <2>2 DEF TypeOK, ListOK
<1>8. Pass'
  <2>1. client' = client /\ pos' # 0
    BY <1>2, <1>3 DEF clients
  <2> QED BY <1>1, <1>3, <2>1 DEF Pass
<1>9. \A t \in Session : KickFd(t) # Free /\ Sock(t) # Free
  BY DEF KickFd, Sock, Free
<1>10. client \in backlog' => ~InList(Sock(client))'
  <2>1. client \in backlog => ~InList(Sock(client)) /\ client \in Session
    BY <1>1 DEF Sessions, TypeOK
  <2>2. client' = client
    BY <1>2 DEF clients
  <2> QED BY <1>2, <1>4, <1>9, <2>1, <2>2
<1>11. \A t \in Session : InList(KickFd(t))' <=> InList(KickFd(t))
  BY <1>4, <1>5, <1>9
<1> QED BY <1>2, <1>4, <1>7, <1>8, <1>9, <1>10, <1>11, LoopCore

(* A full list in which the kick eventfd of the running client is not has   *)
(* one of a former client everywhere but in two places.                     *)
LEMMA FullList ==
  ASSUME TypeOK, Sessions, NEW s \in Session, s = client, FreeSlots = {}, ~InList(KickFd(s))
  PROVE  Cardinality({t \in Session : t # s /\ InList(KickFd(t))}) >= FdListSize - 2
<1> DEFINE Others == {t \in Session : t # s /\ InList(KickFd(t))}
           Socks == {i \in Slot : slots[i] = Sock(s)}
<1>1. /\ slots \in [Slot -> Entry] /\ slots[1] = Listen
      /\ \A i, j \in Slot : slots[i] = slots[j] /\ slots[i] # Free => i = j
      /\ \A i \in Slot : slots[i] # Free
  BY DEF TypeOK, FreeSlots
<1>2. ASSUME NEW i \in Slot, i # 1, slots[i] # Sock(s)
      PROVE  \E t \in Others : slots[i] = KickFd(t)
  <2>1. slots[i] \in Entry /\ slots[i] # Free /\ InList(slots[i])
    BY <1>1 DEF InList
  <2>2. slots[i] # Listen
    <3>1. 1 \in Slot
      BY SizeAssumption DEF Slot
    <3>2. slots[i] # slots[1]
      BY <1>1, <1>2, <3>1
    <3> QED BY <1>1, <3>2
  <2>3. \A t \in Session : slots[i] # Sock(t)
    <3>1. \A t \in Session : t # s => ~InList(Sock(t))
      BY DEF Sessions
    <3> QED BY <1>2, <2>1, <3>1
  <2>4. PICK t \in Session : slots[i] = KickFd(t)
    BY <2>1, <2>2, <2>3 DEF Entry
  <2>5. t # s /\ InList(KickFd(t))
    BY <2>1, <2>4
  <2> QED BY <2>4, <2>5
<1>3. \E e : Socks \subseteq {e}
  <2>1. \A i, j \in Socks : i = j
    BY <1>1
  <2>2. CASE Socks = {}
    BY <2>2
  <2>3. CASE Socks # {}
    <3>1. PICK e : e \in Socks
      BY <2>3
    <3>2. Socks \subseteq {e}
      BY <2>1, <3>1
    <3> QED BY <3>2
  <2> QED BY <2>2, <2>3
<1>4. PICK e : Socks \subseteq {e}
  BY <1>3
<1> DEFINE Rest == (Slot \ {1}) \ {e}
           f == [i \in Rest |-> slots[i][2]]
<1>5. /\ IsFiniteSet(Slot) /\ Cardinality(Slot) = FdListSize /\ 1 \in Slot
      /\ FdListSize \in Nat /\ FdListSize >= 2
  <2>1. FdListSize \in Nat /\ FdListSize >= 2 /\ 1 \in Int /\ FdListSize \in Int
    BY SizeAssumption
  <2>2. IsFiniteSet(1..FdListSize) /\ Cardinality(1..FdListSize) = IF 1 > FdListSize THEN 0 ELSE FdListSize - 1 + 1
    BY <2>1, FS_Interval
  <2>3. Cardinality(1..FdListSize) = FdListSize
    BY <2>1, <2>2
  <2>4. 1 \in 1..FdListSize
    BY <2>1
  <2> QED BY <2>1, <2>2, <2>3, <2>4 DEF Slot
<1>6. Cardinality(Rest) >= FdListSize - 2 /\ Cardinality(Rest) \in Nat
  <2>1. IsFiniteSet(Slot \ {1}) /\ Cardinality(Slot \ {1}) = FdListSize - 1
    <3>1. /\ IsFiniteSet(Slot \ {1})
          /\ Cardinality(Slot \ {1}) = IF 1 \in Slot THEN Cardinality(Slot) - 1 ELSE Cardinality(Slot)
      BY <1>5, FS_RemoveElement
    <3> QED BY <1>5, <3>1
  <2>2. PICK A : A = Slot \ {1}
    OBVIOUS
  <2>3. /\ IsFiniteSet(A \ {e})
        /\ Cardinality(A \ {e}) = IF e \in A THEN Cardinality(A) - 1 ELSE Cardinality(A)
    BY <2>1, <2>2, FS_RemoveElement
  <2>4. Cardinality(A \ {e}) \in {FdListSize - 2, FdListSize - 1}
    <3>1. Cardinality(A) = FdListSize - 1
      BY <2>1, <2>2
    <3>2. CASE e \in A
      <4>1. Cardinality(A \ {e}) = (FdListSize - 1) - 1
        BY <2>3, <3>1, <3>2
      <4> QED BY <1>5, <4>1
    <3>3. CASE e \notin A
      BY <2>3, <3>1, <3>3
    <3> QED BY <3>2, <3>3
  <2>5. Cardinality(Rest) \in {FdListSize - 2, FdListSize - 1}
    BY <2>2, <2>4
  <2> HIDE DEF Rest
  <2> QED BY <1>5, <2>5
<1>7. ASSUME NEW i \in Rest PROVE i \in Slot /\ slots[i][2] \in Others /\ slots[i] = KickFd(slots[i][2])
  <2>1. i \in Slot /\ i # 1 /\ slots[i] # Sock(s)
    BY <1>4
  <2>2. PICK t \in Others : slots[i] = KickFd(t)
    BY <1>2, <2>1
  <2>3. KickFd(t)[2] = t
    BY DEF KickFd
  <2> QED BY <2>1, <2>2, <2>3
<1>8. IsFiniteSet(Others)
  <2>1. IsFiniteSet(Session)
    BY FS_Interval, SizeAssumption DEF Session
  <2> QED BY <2>1, FS_Subset
<1> HIDE DEF Rest, Others
<1>9. f \in Injection(Rest, Others)
  <2>1. f \in [Rest -> Others] /\ \A i \in Rest : f[i] = slots[i][2]
    BY <1>7
  <2> HIDE DEF f
  <2>2. ASSUME NEW i \in Rest, NEW j \in Rest, f[i] = f[j] PROVE i = j
    <3>1. slots[i] = slots[j] /\ i \in Slot /\ j \in Slot
      BY <1>7, <2>1, <2>2
    <3> QED BY <1>1, <3>1
  <2> QED BY <2>1, <2>2 DEF Injection, IsInjective
<1>10. Cardinality(Rest) <= Cardinality(Others) /\ Cardinality(Others) \in Nat
  BY <1>8, <1>9, FS_Injection, FS_CardinalityType
<1>11. Cardinality(Others) >= FdListSize - 2
  BY <1>5, <1>6, <1>10
<1> QED BY <1>11 DEF Others

(* The kick eventfd of the running client, which the list has no place for  *)
(* only when former clients' fill it.                                       *)
LEMMA SetVringKickCore ==
  ASSUME Core, NEW s \in Session, SetVringKick(s)
  PROVE  Core'
<1>1. /\ Receive(s, {"kick"})
      /\ UNCHANGED <<clients, kick, backlog, open, taken, mem, desc, last_avail, strayed, reply>>
      /\ IF Ring(s) = TX THEN slots' = Add(KickFd(s)) /\ announced' = announced \cup {s}
                         ELSE UNCHANGED <<slots, announced>>
  BY DEF SetVringKick, backend
<1>2. /\ s = client /\ Head(msgs[s]).req = "kick" /\ Head(msgs[s]) \in Msgs
      /\ pos' \in 1..FdListSize + 1 /\ fdset' = fdset
      /\ msgs' \in [Session -> Seq(Msgs)] /\ \A t \in Session : t # s => msgs'[t] = msgs[t]
  BY <1>1, Receives
<1>3. /\ TypeOK /\ Sessions /\ Pass /\ First /\ FirstClientSafe /\ ListenedUnlessFull
      /\ UNCHANGED <<client, cpc, step, obj, avail>>
  BY <1>1 DEF Core, clients
<1>4. CASE Ring(s) # TX
  <2>1. Head(msgs[s]) = Msg("kick", RX)
    BY <1>2, <1>4 DEF Ring, Msg, Msgs
  <2>2. Follows(s)
    BY <1>1, <1>3, <1>4, <2>1, PlainFollows DEF Plain, backend
  <2>3. strayed' \in {strayed, "sigpipe"} /\ reply' \in BOOLEAN
    BY <1>1, <1>3 DEF TypeOK
  <2> QED BY <1>1, <1>4, <2>2, <2>3, MessageCore
<1>5. CASE Ring(s) = TX
  <2>1. slots' = Add(KickFd(s)) /\ announced' = announced \cup {s} /\ Head(msgs[s]) = Msg("kick", TX)
    BY <1>1, <1>2, <1>5 DEF Ring, Msg, Msgs
  <2>2. PICK n \in 1..step :
          /\ Effects(n)
          /\ \/ n \in 1..13 /\ n + 1 \in 1..step /\ Head(msgs[s]) = Setup[n] /\ ReadTo(n + 1)'
             \/ Head(msgs[s]) = Msg("reset", RX) /\ ReadTo(n)'
    BY <1>1, Receives
  <2>3. n = KickAt /\ n + 1 \in 1..step /\ ReadTo(n + 1)'
    <3>1. Head(msgs[s]) # Msg("reset", RX)
      BY <1>2 DEF Msg
    <3> QED BY <2>1, <2>2, <3>1, SetupSays
  <2>4. n > MemAt /\ n > BaseAt /\ n <= KickAt /\ ~(n > KickAt) /\ ~(n > AddrAt) /\ ~(n + 1 <= KickAt) /\ n + 1 > KickAt
    BY <2>3 DEF MemAt, BaseAt, KickAt, AddrAt
  <2>5. /\ mem = client /\ (strayed = "no" => last_avail = taken[client]) /\ ~InList(KickFd(client))
        /\ desc # client
    BY <2>2, <2>4 DEF Effects
  <2>6. ListOK /\ KickFd(s) \in Entry /\ KickFd(s) # Free
    BY <1>3 DEF TypeOK, ListOK, Entry, KickFd, Free
  <2>7. /\ ListOK'
        /\ \A z : z # Free /\ InList(z)' => InList(z) \/ z = KickFd(s)
        /\ \A z : z # Free /\ InList(z) => InList(z)'
        /\ FreeSlots # {} => InList(KickFd(s))'
        /\ FreeSlots = {} => slots' = slots
    BY <1>2, <2>1, <2>5, <2>6, Added
  <2>8. client \in Nat /\ client > 0
    BY <1>2, <1>3, SmallTypes
  <2>9. TypeOK'
    <3>1. pos' \in 0..FdListSize + 1
      BY <1>2, SizeAssumption
    <3>2. announced' \subseteq Session
      BY <1>3, <2>1 DEF TypeOK
    <3> QED BY <1>1, <1>2, <1>3, <2>7, <3>1, <3>2 DEF TypeOK, ListOK
  <2>10. Sessions'
    <3>1. \A t \in Session : t > client => msgs'[t] = <<>> /\ taken'[t] = 0
      BY <1>1, <1>2, <1>3, <2>8 DEF Sessions
    <3>2. \A t \in Session : t # client => /\ InList(Sock(t))' => InList(Sock(t))
                                           /\ InList(KickFd(t))' => InList(KickFd(t))
      <4>1. ASSUME NEW t \in Session, t # client
            PROVE  Sock(t) # Free /\ KickFd(t) # Free /\ Sock(t) # KickFd(s) /\ KickFd(t) # KickFd(s)
        BY <1>2, <4>1 DEF Sock, KickFd, Free
      <4> QED BY <2>7, <4>1
    <3>3. client \in backlog' => ~InList(Sock(client))'
      <4>1. Sock(client) # Free /\ Sock(client) # KickFd(s)
        BY DEF Sock, KickFd, Free
      <4>2. client \in backlog => ~InList(Sock(client))
        BY <1>3 DEF Sessions
      <4> QED BY <1>1, <1>3, <2>7, <4>1, <4>2
    <3>4. cpc' \in {"gone", "killed"} => open' = {}
      BY <1>1, <1>3 DEF Sessions
    <3>5. mem' <= client /\ desc' <= client
      BY <1>1, <1>3 DEF Sessions
    <3>6. announced' \subseteq announced \union ({client} \cap Session)
      BY <1>2, <2>1
    <3> QED BY <1>1, <1>3, <3>1, <3>2, <3>3, <3>4, <3>5, <3>6, SessionsKept
  <2>11. ListenedUnlessFull'
    <3>1. SUFFICES ASSUME ~InList(KickFd(s))'
                   PROVE  Cardinality({t \in Session : t # s /\ InList(KickFd(t))'}) >= FdListSize - 2
      BY <1>2, <1>3 DEF ListenedUnlessFull
    <3>2. FreeSlots = {} /\ slots' = slots
      BY <2>7, <3>1
    <3>3. \A z : InList(z)' <=> InList(z)
      BY <3>2 DEF InList
    <3>4. Cardinality({t \in Session : t # s /\ InList(KickFd(t))}) >= FdListSize - 2
      BY <1>2, <1>3, <3>2, <2>5, FullList
    <3>5. {t \in Session : t # s /\ InList(KickFd(t))'} = {t \in Session : t # s /\ InList(KickFd(t))}
      BY <3>3
    <3> QED BY <3>4, <3>5
  <2>12. Pass' /\ FirstClientSafe' /\ First'
    BY <1>1, <1>2, <1>3 DEF Pass, FirstClientSafe, First
  <2>13. Reading'
    <3>1. Effects(n + 1)'
      BY <1>1, <1>3, <2>4, <2>5 DEF Effects
    <3> QED BY <1>3, <2>3, <3>1 DEF Reading
  <2> QED BY <2>9, <2>10, <2>11, <2>12, <2>13 DEF Core
<1> QED BY <1>4, <1>5

(* The eventfd of the running client is read: it is in the list only when   *)
(* the table and the index are this client's.                               *)
LEMMA KickCore ==
  ASSUME Core, NEW s \in Session, Kick(s)
  PROVE  Core'
<1> DEFINE o == obj[desc]
           a == avail[obj[desc]]
<1>1. /\ At("kick", s) /\ kick' = kick \ {s} /\ strayed = "no"
      /\ UNCHANGED <<client, cpc, step, obj, avail, backlog, msgs, open, reply, slots, mem, desc, announced>>
  BY DEF Kick, At, clients, wires
<1>2. /\ TypeOK /\ Sessions /\ Pass /\ First /\ FirstClientSafe /\ ListenedUnlessFull /\ Reading
  BY DEF Core
<1>3. s = client /\ InList(KickFd(client)) /\ pos' \in 1..FdListSize + 1 /\ fdset' = fdset
  <2>1. /\ pos' \in 1..FdListSize + 1 /\ fdset' = fdset /\ InList(<<"kick", s>>)
        /\ <<"kick", s>> \in {Listen, Sock(client), KickFd(client)}
    BY <1>1, AtWhere
  <2> QED BY <2>1 DEF Sock, Listen, KickFd
<1>4. client \in Nat /\ client \in Session /\ client > 0 /\ step \in 1..14
  BY <1>2, <1>3, SmallTypes
<1>5. PICK n \in 1..step : ReadTo(n) /\ Effects(n)
  BY <1>2, <1>4 DEF Reading
<1>6. n > KickAt /\ n > MemAt /\ n > BaseAt /\ ~(n <= KickAt)
  <2>1. ~(n <= KickAt)
    BY <1>3, <1>5 DEF Effects
  <2> QED BY <1>4, <2>1 DEF MemAt, BaseAt, KickAt
<1>7. mem = client /\ last_avail = taken[client]
  BY <1>1, <1>5, <1>6 DEF Effects
<1>8. ASSUME desc # 0
      PROVE  desc \in Session /\ o \in Session /\ o \in 1..client /\ a \in 0..MaxPkts
  <2>1. desc \in Session /\ desc <= client
    BY <1>2, <1>8, SizeAssumption DEF TypeOK, Sessions, Session
  <2>2. o \in 1..client
    BY <1>2, <2>1 DEF Sessions
  <2>3. o \in Session
    BY <1>2, <1>4, <2>2, SmallTypes DEF Session
  <2> QED BY <1>2, <2>1, <2>2, <2>3 DEF TypeOK
<1>9. ASSUME desc # 0, client = 1
      PROVE  Owner(o) = mem /\ o = 1 /\ last_avail <= a
  <2>1. o = 1 /\ obj[1] = 1 /\ last_avail <= avail[1]
    BY <1>2, <1>8, <1>9 DEF First
  <2>2. \A t \in 1..client : t = 1
    BY <1>9
  <2>3. \A t \in 1 + 1..client : FALSE
    BY <1>9
  <2>4. 1 \in 1..client
    BY <1>9
  <2>5. Owner(1) = 1
    BY <2>1, <2>2, <2>3, <2>4 DEF Owner
  <2> QED BY <1>7, <1>9, <2>1, <2>5
<1>10. /\ last_avail' \in 0..MaxPkts /\ taken' \in [Session -> Nat]
       /\ \A t \in Session : t # client => taken'[t] = taken[t]
       /\ strayed' \in {"no", "unmapped", "runaway"}
       /\ strayed' = "no" => last_avail' = taken'[client]
       /\ client = 1 => strayed' = "no" /\ last_avail' <= avail[1]
  <2>1. /\ last_avail \in 0..MaxPkts /\ taken \in [Session -> Nat]
        /\ client = 1 => last_avail <= avail[1]
    BY <1>2 DEF TypeOK, First
  <2>2. CASE UNCHANGED <<last_avail, taken, strayed>>
    BY <1>1, <1>7, <2>1, <2>2
  <2>3. CASE /\ desc # 0 /\ Owner(o) # mem
             /\ strayed' = "unmapped" /\ UNCHANGED <<last_avail, taken>>
    BY <1>9, <2>1, <2>3
  <2>4. CASE /\ desc # 0 /\ a < last_avail
             /\ strayed' = "runaway" /\ UNCHANGED <<last_avail, taken>>
    <3>1. client # 1
      <4>1. SUFFICES ASSUME client = 1 PROVE FALSE
        OBVIOUS
      <4>2. PICK k \in Int : k = a
        BY <1>8, <2>4
      <4>3. PICK l \in Int : l = last_avail
        BY <2>1
      <4> QED BY <1>9, <2>4, <4>1, <4>2, <4>3
    <3> QED BY <2>1, <2>4, <3>1
  <2>5. CASE /\ desc # 0 /\ Owner(o) = mem /\ last_avail' = a /\ UNCHANGED strayed
             /\ taken' = [taken EXCEPT ![Owner(o)] = taken[Owner(o)] + a - last_avail]
    <3>1. PICK k \in Nat : k = a /\ k \in 0..MaxPkts
      BY <1>8, <2>5
    <3>2. PICK l \in Nat : l = last_avail
      BY <2>1
    <3>3. taken' = [taken EXCEPT ![client] = l + k - l]
      BY <1>7, <2>5, <3>1, <3>2
    <3>4. l + k - l = k
      OBVIOUS
    <3>5. taken'[client] = k /\ taken' \in [Session -> Nat] /\ \A t \in Session : t # client => taken'[t] = taken[t]
      BY <1>4, <2>1, <3>3, <3>4
    <3>6. last_avail' = k /\ strayed' = "no"
      BY <1>1, <2>5, <3>1
    <3>7. client = 1 => k <= avail[1]
      <4>1. SUFFICES ASSUME client = 1 PROVE k <= avail[1]
        OBVIOUS
      <4>2. k = avail[1]
        BY <1>9, <2>5, <3>1, <4>1
      <4> QED BY <4>2
    <3> QED BY <3>1, <3>5, <3>6, <3>7
  <2>6. \/ UNCHANGED <<last_avail, taken, strayed>>
        \/ desc # 0 /\ Owner(o) # mem /\ strayed' = "unmapped" /\ UNCHANGED <<last_avail, taken>>
        \/ desc # 0 /\ a < last_avail /\ strayed' = "runaway" /\ UNCHANGED <<last_avail, taken>>
        \/ /\ desc # 0 /\ Owner(o) = mem /\ last_avail' = a /\ UNCHANGED strayed
           /\ taken' = [taken EXCEPT ![Owner(o)] = taken[Owner(o)] + a - last_avail]
    BY DEF Kick
  <2> QED BY <2>2, <2>3, <2>4, <2>5, <2>6
<1>11. \A z : InList(z)' <=> InList(z)
  BY <1>1 DEF InList
<1>12. TypeOK'
  <2>1. pos' \in 0..FdListSize + 1
    BY <1>3, SizeAssumption
  <2>2. kick' \subseteq Session /\ strayed' \in {"no", "unmapped", "runaway", "unset", "sigpipe"}
    BY <1>1, <1>2, <1>10 DEF TypeOK
  <2> QED BY <1>1, <1>2, <1>3, <1>10, <2>1, <2>2 DEF TypeOK
<1>13. Sessions'
  <2>1. \A t \in Session : t > client => msgs'[t] = <<>> /\ taken'[t] = 0
    BY <1>1, <1>2, <1>4, <1>10, SmallTypes DEF Sessions
  <2>2. (cpc' \in {"gone", "killed"} => open' = {}) /\ (client \in backlog' => ~InList(Sock(client))')
    BY <1>1, <1>2, <1>11 DEF Sessions
  <2>3. mem' <= client /\ desc' <= client /\ announced' \subseteq announced \union ({client} \cap Session)
        /\ kick' \subseteq kick \union {client}
    BY <1>1, <1>2 DEF Sessions
  <2> QED BY <1>1, <1>2, <1>11, <2>1, <2>2, <2>3, SessionsKept
<1>14. ListenedUnlessFull'
  BY <1>1, <1>2, <1>11, ListenedKept
<1>15. Pass'
  BY <1>1, <1>2, <1>3 DEF Pass
<1>16. FirstClientSafe' /\ First'
  <2>1. client <= 1 => client = 1
    BY <1>4
  <2> QED BY <1>1, <1>2, <1>4, <1>10, <2>1 DEF FirstClientSafe, First
<1>17. Reading'
  <2>1. Effects(n)'
    BY <1>1, <1>5, <1>6, <1>10 DEF Effects
  <2>2. ReadTo(n)'
    BY <1>1, <1>5 DEF ReadTo
  <2> QED BY <1>1, <1>5, <2>1, <2>2 DEF Reading
<1> QED BY <1>12, <1>13, <1>14, <1>15, <1>16, <1>17 DEF Core

-----------------------------------------------------------------------------
(* The specification *)

(* The server starts with nothing but its listening socket in the list.     *)
LEMMA InitCore == Init => Core
<1> SUFFICES ASSUME Init PROVE Core
  OBVIOUS
<1>1. /\ client = 0 /\ cpc = "gone" /\ step = 1
      /\ obj = [t \in Session |-> 0] /\ avail = [t \in Session |-> 0] /\ kick = {}
      /\ backlog = {} /\ msgs = [t \in Session |-> <<>>] /\ open = {} /\ reply = FALSE
      /\ slots = [i \in Slot |-> IF i = 1 THEN Listen ELSE Free]
      /\ fdset = {} /\ pos = 0 /\ mem = 0 /\ desc = 0 /\ last_avail = 0
      /\ announced = {} /\ taken = [t \in Session |-> 0] /\ strayed = "no"
  BY DEF Init
<1>2. \A t \in Session : ~InList(Sock(t)) /\ ~InList(KickFd(t))
  <2>1. \A i \in Slot : slots[i] \in {Listen, Free}
    BY <1>1
  <2>2. \A t \in Session : {Sock(t), KickFd(t)} \cap {Listen, Free} = {}
    BY DEF Sock, KickFd, Listen, Free
  <2> QED BY <2>1, <2>2 DEF InList
<1>3. TypeOK
  <2>1. /\ 0 \in 0..MaxClients /\ 0 \in 0..MaxPkts /\ 1 \in 1..Len(Setup) + 1 /\ 0 \in 0..FdListSize + 1
        /\ 1 \in Slot
    BY SetupSays, SizeAssumption DEF Slot
  <2>2. slots \in [Slot -> Entry] /\ slots[1] = Listen
    BY <1>1, <2>1 DEF Entry
  <2>3. \A i, j \in Slot : slots[i] = slots[j] /\ slots[i] # Free => i = j
    BY <1>1
  <2>4. msgs \in [Session -> Seq(Msgs)] /\ taken \in [Session -> Nat]
    BY <1>1, EmptySeq
  <2> QED BY <1>1, <2>1, <2>2, <2>3, <2>4 DEF TypeOK
<1>4. Sessions
  <2>1. \A t \in Session : t >= 1 /\ t \in Nat
    BY <1>3, SmallTypes
  <2>2. \A t \in Session : ~(t < client) /\ ~(t <= client) /\ client \notin backlog
    BY <1>1, <2>1
  <2> QED BY <1>1, <1>2, <2>2 DEF Sessions
<1> QED BY <1>1, <1>3, <1>4 DEF Core, FirstClientSafe, ListenedUnlessFull, Pass, First, Reading

(* Every step of clients and server keeps the invariant.                    *)
LEMMA NextCore == Core /\ [Next]_vars => Core'
<1> SUFFICES ASSUME Core, [Next]_vars PROVE Core'
  OBVIOUS
<1>1. CASE \E fresh \in BOOLEAN : Start(fresh)
  BY <1>1, StartCore
<1>2. CASE IoctlReply \/ SetupDone \/ PutPacket \/ KickServer \/ Killed
  BY <1>2, MovesCore
<1>3. CASE Ioctl \/ Stop
  BY <1>3, SendsCore
<1>4. CASE Select \/ EndTraverse
  BY <1>4, PassCore
<1>5. CASE Accept
  BY <1>5, AcceptCore
<1>6. ASSUME NEW s \in Session, Handle(s) PROVE Core'
  <2>1. CASE Noted(s) \/ GetFeatures(s)
    BY <2>1, PlainCore
  <2>2. CASE Hangup(s)
    BY <2>2, HangupCore
  <2>3. CASE SetMemTable(s)
    BY <2>3, SetMemTableCore
  <2>4. CASE SetVringBase(s)
    BY <2>4, SetVringBaseCore
  <2>5. CASE SetVringKick(s)
    BY <2>5, SetVringKickCore
  <2>6. CASE SetVringAddr(s)
    BY <2>6, SetVringAddrCore
  <2>7. CASE Kick(s)
    BY <2>7, KickCore
  <2> QED BY <1>6, <2>1, <2>2, <2>3, <2>4, <2>5, <2>6, <2>7 DEF Handle
<1>7. CASE UNCHANGED vars
  <2>1. UNCHANGED <<clients, kick, msgs, open, backlog, reply, slots, fdset, pos, backend, history, strayed>>
    BY <1>7 DEF vars, wires, loop
  <2>2. UNCHANGED <<client, cpc, step, obj, avail, mem, desc, last_avail, announced, taken>>
    BY <2>1 DEF clients, backend, history
  <2>3. \A z : InList(z)' <=> InList(z)
    BY <2>1 DEF InList
  <2>4. TypeOK'
    BY <2>1, <2>2 DEF Core, TypeOK
  <2>5. Pass' /\ (client \in backlog' => ~InList(Sock(client))')
    BY <2>1, <2>2, <2>3 DEF Core, Pass, Sessions
  <2> QED BY <2>1, <2>3, <2>4, <2>5, LoopCore
<1> QED BY <1>1, <1>2, <1>3, <1>4, <1>5, <1>6, <1>7 DEF Next, ClientStep, Ends, ServerStep

(* Whatever ends a session and wherever, the server's list of descriptors   *)
(* and its device are left in a state the next client can be served from:   *)
(* of a list of any length, for any number of clients and packets, no       *)
(* packet of the running client is skipped, the first client is served from *)
(* its own memory, and the running client's kicks are listened for unless   *)
(* former clients' eventfds fill the list.                                  *)
THEOREM SessionsStaySafe == Spec => []SessionsSafe
<1>1. Core => SessionsSafe
  BY CoreSays
<1>2. Spec => []Core
  BY InitCore, NextCore, PTL DEF Spec
<1> QED BY <1>1, <1>2, PTL
=============================================================================
