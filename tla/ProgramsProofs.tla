--------------------------- MODULE ProgramsProofs ---------------------------
(***************************************************************************)
(* Proofs about the smaller programs, for every size of their tables, rings *)
(* and buffers and every number of clients, addresses and packets.          *)
(***************************************************************************)
EXTENDS Programs, TLAPS, FiniteSetTheorems, FunctionTheorems, SequenceTheorems

(* A step of Programs is a step of one of them, and leaves the others alone *)
(* (a program of its own process, or main of its own lesson).               *)
LEMMA StepOfOne ==
  ASSUME [Next]_vars
  PROVE  /\ Server!Next \/ UNCHANGED dnsVars
         /\ Arps!Next \/ UNCHANGED arpVars
         /\ Detector!Next \/ UNCHANGED ddosVars
         /\ Points!Next \/ UNCHANGED rcuVars
         /\ Port!Next \/ UNCHANGED kniVars
         /\ Disks!Next \/ UNCHANGED nvmeVars
         /\ Reactor!Next \/ UNCHANGED spdkVars
         /\ Echo!Next \/ UNCHANGED echoVars
<1> USE DEF older, newer
<1>1. CASE UNCHANGED vars
  BY <1>1 DEF vars
<1>2. CASE FramesStep \/ DnsStep
  BY <1>2 DEF FramesStep, DnsStep
<1>3. CASE ArpStep
  BY <1>3 DEF ArpStep
<1>4. CASE DdosStep
  BY <1>4 DEF DdosStep
<1>5. CASE RcuUpdate \/ RcuRead
  BY <1>5 DEF RcuUpdate, RcuRead, Points!Next
<1>6. CASE KniAsk \/ KniKernel \/ KniHandle \/ KniMonitor
  BY <1>6 DEF KniAsk, KniKernel, KniHandle, KniMonitor, Port!Next
<1>7. CASE NvmeAttach \/ NvmeRun
  BY <1>7 DEF NvmeAttach, NvmeRun, Disks!Next
<1>8. CASE SpdkClient \/ SpdkPoll
  BY <1>8 DEF SpdkClient, SpdkPoll, Reactor!Next
<1>9. CASE EchoClient \/ EchoServer
  BY <1>9 DEF EchoClient, EchoServer, Echo!Next
<1> QED BY <1>1, <1>2, <1>3, <1>4, <1>5, <1>6, <1>7, <1>8, <1>9 DEF Next

-----------------------------------------------------------------------------
(* The window of ddos_detect (lesson 12). *)

\* The slot that is written next.
Slot == IF pkt_idx >= Window THEN pkt_idx - Window ELSE pkt_idx
\* The slot of the frame that came d frames before the last one.
Back(d) == IF Slot > d THEN Slot - 1 - d ELSE Slot - 1 - d + Window

\* The index counts the frames of the first window and stays above it later;
\* the slots behind it, once around, are the frames before it.
DdosInv ==
  /\ seen \in Seq(Detector!Kinds)
  /\ p_entropy \in [0..Window - 1 -> Detector!Kinds]
  /\ pkt_idx \in 0..2 * Window - 1
  /\ Len(seen) <= Window => pkt_idx = Len(seen)
  /\ Len(seen) > Window => pkt_idx >= Window
  /\ \A d \in 0..Window - 1 : d < Len(seen) => p_entropy[Back(d)] = seen[Len(seen) - d]
\* The verdict is on the whole array.
DdosVerdict == exited <=> Len(seen) > Window /\ Detector!Exceeds(p_entropy)

(* pkt_idx % Window is the next slot, and the index moves to the slot after *)
(* it, in the first window and in every later one.                          *)
LEMMA SlotAdvances ==
  ASSUME pkt_idx \in 0..2 * Window - 1
  PROVE  /\ Slot \in 0..Window - 1
         /\ pkt_idx % Window = Slot
         /\ Detector!Advanced(pkt_idx) \in 0..2 * Window - 1
         /\ pkt_idx < Window => Detector!Advanced(pkt_idx) = pkt_idx + 1
         /\ pkt_idx >= Window => Detector!Advanced(pkt_idx) =
                                   (IF Slot = Window - 1 THEN Window ELSE pkt_idx + 1)
<1> USE WindowAssumption
<1>1. Slot \in 0..Window - 1
  BY DEF Slot
<1>2. pkt_idx % Window = Slot
  <2>1. CASE pkt_idx < Window
    BY <2>1 DEF Slot
  <2>2. CASE pkt_idx >= Window
    BY <2>2 DEF Slot
  <2> QED BY <2>1, <2>2
<1>3. CASE pkt_idx < Window
  BY <1>1, <1>2, <1>3 DEF Detector!Advanced
<1>4. CASE pkt_idx >= Window
  <2>1. CASE pkt_idx = 2 * Window - 1
    <3>1. (pkt_idx + 1) % Window = 0
      BY <2>1
    <3> QED BY <1>1, <1>2, <1>4, <2>1, <3>1 DEF Detector!Advanced, Slot
  <2>2. CASE pkt_idx + 1 < 2 * Window
    <3>1. (pkt_idx + 1) % Window = pkt_idx + 1 - Window
      BY <1>4, <2>2
    <3> QED BY <1>1, <1>2, <1>4, <2>2, <3>1 DEF Detector!Advanced, Slot
  <2> QED BY <2>1, <2>2
<1> QED BY <1>3, <1>4

(* A frame takes the slot of the one that leaves the window, and every      *)
(* other frame of the window is now one further back.                       *)
LEMMA DdosStepKeeps ==
  ASSUME DdosInv, NEW kind \in Detector!Kinds, Detector!ddos_detect(kind)
  PROVE  DdosInv' /\ DdosVerdict'
<1> USE WindowAssumption
<1> DEFINE L == Len(seen)
<1>1. L \in Nat /\ Len(seen') = L + 1 /\ seen' \in Seq(Detector!Kinds)
  BY DEF DdosInv, Detector!ddos_detect
<1>2. seen'[L + 1] = kind /\ \A k \in 1..L : seen'[k] = seen[k]
  BY <1>1 DEF DdosInv, Detector!ddos_detect
<1>3. /\ Slot \in 0..Window - 1
      /\ p_entropy' = [p_entropy EXCEPT ![Slot] = kind]
      /\ pkt_idx' \in 0..2 * Window - 1
      /\ pkt_idx < Window => pkt_idx' = pkt_idx + 1
      /\ pkt_idx >= Window => pkt_idx' = IF Slot = Window - 1 THEN Window ELSE pkt_idx + 1
  BY SlotAdvances DEF DdosInv, Detector!ddos_detect
<1>4. p_entropy' \in [0..Window - 1 -> Detector!Kinds]
  BY <1>3 DEF DdosInv
<1>5. /\ Len(seen') <= Window => pkt_idx' = Len(seen')
      /\ Len(seen') > Window => pkt_idx' >= Window
  BY <1>1, <1>3 DEF DdosInv, Slot
<1>6. Slot' = IF Slot = Window - 1 THEN 0 ELSE Slot + 1
  <2>1. CASE pkt_idx < Window
    BY <1>3, <2>1 DEF Slot, DdosInv
  <2>2. CASE pkt_idx >= Window
    <3>1. Slot = pkt_idx - Window /\ pkt_idx \in Nat
      BY <2>2 DEF Slot, DdosInv
    <3>2. CASE Slot = Window - 1
      <4>1. pkt_idx' = Window
        BY <1>3, <2>2, <3>2
      <4> QED BY <3>2, <4>1 DEF Slot
    <3>3. CASE Slot # Window - 1
      <4>1. pkt_idx' = pkt_idx + 1
        BY <1>3, <2>2, <3>3
      <4> QED BY <2>2, <3>1, <3>3, <4>1 DEF Slot
    <3> QED BY <3>2, <3>3
  <2> QED BY <2>1, <2>2 DEF DdosInv
<1>7. ASSUME NEW d \in 0..Window - 1, d < Len(seen')
      PROVE  p_entropy'[Back(d)'] = seen'[Len(seen') - d]
  <2>1. CASE d = 0
    BY <1>1, <1>2, <1>3, <1>6, <2>1 DEF Back, DdosInv
  <2>2. CASE d > 0
    <3>1. Back(d)' = Back(d - 1) /\ Back(d - 1) \in 0..Window - 1 /\ Back(d - 1) # Slot
      BY <1>3, <1>6, <2>2 DEF Back
    <3>2. d - 1 \in 0..Window - 1 /\ d - 1 < L /\ L - (d - 1) = L + 1 - d /\ L + 1 - d \in 1..L
      BY <1>1, <1>7, <2>2
    <3>3. p_entropy[Back(d - 1)] = seen[L + 1 - d]
      BY <3>2 DEF DdosInv
    <3>4. p_entropy'[Back(d)'] = p_entropy[Back(d - 1)]
      BY <1>3, <3>1 DEF DdosInv
    <3> QED BY <1>1, <1>2, <3>2, <3>3, <3>4
  <2> QED BY <2>1, <2>2
<1>8. exited' <=> Len(seen') > Window /\ Detector!Exceeds(p_entropy')
  <2>1. exited' <=> pkt_idx >= Window /\ Detector!Exceeds(p_entropy')
    BY DEF Detector!ddos_detect
  <2>2. pkt_idx >= Window <=> Len(seen') > Window
    BY <1>1 DEF DdosInv
  <2> QED BY <2>1, <2>2
<1>9. Detector!Exceeds(p_entropy)' <=> Detector!Exceeds(p_entropy')
  BY DEF Detector!Exceeds
<1> QED BY <1>1, <1>3, <1>4, <1>5, <1>7, <1>8, <1>9 DEF DdosInv, DdosVerdict

(* Ddos counts with the Cardinality of its own instance of FiniteSets. *)
LEMMA SameCardinality ==
  ASSUME NEW S
  PROVE  Detector!Cardinality(S) = Cardinality(S)
BY DEF Detector!Cardinality, Cardinality

(* The array and the last Window frames exceed the threshold together: one  *)
(* is a permutation of the other.                                           *)
LEMMA SameWindow ==
  ASSUME DdosInv, Len(seen) >= Window
  PROVE  Detector!Exceeds(p_entropy)
           <=> Detector!Exceeds(SubSeq(seen, Len(seen) - Window + 1, Len(seen)))
<1> USE WindowAssumption
<1> DEFINE L == Len(seen)
           w == SubSeq(seen, L - Window + 1, L)
           f == [k \in 1..Window |-> Back(Window - k)]
           A == {k \in 1..Window : w[k] = "suspicious"}
           B == {k \in 0..Window - 1 : p_entropy[k] = "suspicious"}
           g == [k \in A |-> f[k]]
<1>1. L \in Nat /\ Slot \in 0..Window - 1 /\ DOMAIN p_entropy = 0..Window - 1
  BY SlotAdvances DEF DdosInv
<1>2. DOMAIN w = 1..Window /\ \A k \in 1..Window : w[k] = seen[L - Window + k]
  BY <1>1 DEF DdosInv
<1>3. f \in [1..Window -> 0..Window - 1]
  BY <1>1 DEF Back
<1>4. \A j, k \in 1..Window : j # k => f[j] # f[k]
  BY <1>1 DEF Back
<1>5. \A m \in 0..Window - 1 : \E k \in 1..Window : f[k] = m
  <2> SUFFICES ASSUME NEW m \in 0..Window - 1
               PROVE  \E k \in 1..Window : f[k] = m
    OBVIOUS
  <2>1. CASE m < Slot
    <3> DEFINE k == Window - (Slot - 1 - m)
    <3>1. k \in 1..Window /\ f[k] = m
      BY <1>1, <2>1 DEF Back
    <3> QED BY <3>1
  <2>2. CASE m >= Slot
    <3> DEFINE k == m + 1 - Slot
    <3>1. k \in 1..Window /\ f[k] = m
      BY <1>1, <2>2 DEF Back
    <3> QED BY <3>1
  <2> QED BY <1>1, <2>1, <2>2
<1>6. \A k \in 1..Window : p_entropy[f[k]] = w[k]
  <2> SUFFICES ASSUME NEW k \in 1..Window PROVE p_entropy[f[k]] = w[k]
    OBVIOUS
  <2>1. p_entropy[Back(Window - k)] = seen[L - (Window - k)]
    BY <1>1 DEF DdosInv
  <2> QED BY <1>1, <1>2, <2>1
<1>7. (\A k \in DOMAIN w : w[k] # "nan") <=> (\A k \in DOMAIN p_entropy : p_entropy[k] # "nan")
  <2> HIDE DEF f, w
  <2>1. ASSUME \A k \in DOMAIN w : w[k] # "nan", NEW m \in DOMAIN p_entropy
        PROVE  p_entropy[m] # "nan"
    <3>1. PICK k \in 1..Window : f[k] = m
      BY <1>1, <1>5, <2>1
    <3>2. w[k] # "nan"
      BY <1>2, <2>1
    <3> QED BY <1>6, <3>1, <3>2
  <2>2. ASSUME \A k \in DOMAIN p_entropy : p_entropy[k] # "nan", NEW m \in DOMAIN w
        PROVE  w[m] # "nan"
    BY <1>1, <1>2, <1>3, <1>6, <2>2
  <2> QED BY <2>1, <2>2
<1>8. Cardinality(A) = Cardinality(B)
  <2> HIDE DEF f, w
  <2>1. IsFiniteSet(A)
    <3>1. IsFiniteSet(1..Window)
      BY FS_Interval
    <3>2. A \in SUBSET (1..Window)
      OBVIOUS
    <3> QED BY <3>1, <3>2, FS_Subset
  <2>2. g \in Bijection(A, B)
    <3>1. g \in [A -> B]
      BY <1>3, <1>6
    <3>2. \A j, k \in A : g[j] = g[k] => j = k
      BY <1>4
    <3>3. \A m \in B : \E k \in A : g[k] = m
      BY <1>5, <1>6
    <3> QED BY <3>1, <3>2, <3>3 DEF Bijection, Injection, Surjection, IsInjective
  <2>3. ExistsBijection(A, B)
    BY <2>2 DEF ExistsBijection
  <2> HIDE DEF A, B
  <2> QED BY <2>1, <2>3, FS_Bijection
<1>9. A = {k \in DOMAIN w : w[k] = "suspicious"}
      /\ B = {k \in DOMAIN p_entropy : p_entropy[k] = "suspicious"}
  BY <1>1, <1>2
<1> HIDE DEF w, A, B
<1>10. Detector!Exceeds(p_entropy) <=> Detector!Exceeds(w)
  BY <1>7, <1>8, <1>9, SameCardinality DEF Detector!Exceeds
<1> QED BY <1>10 DEF w

(* ddos_detect judges exactly the last CAPTURE_WINDOWS frames, however      *)
(* often its index has gone around the array.                               *)
THEOREM WindowJudged == Spec => []VerdictOnLast
<1> USE WindowAssumption
<1>1. Init => DdosInv /\ DdosVerdict
  <2> SUFFICES ASSUME Init PROVE DdosInv /\ DdosVerdict
    OBVIOUS
  <2>1. seen = <<>> /\ pkt_idx = 0 /\ exited = FALSE
        /\ p_entropy = [k \in 0..Window - 1 |-> "ordinary"]
    BY DEF Init, Detector!Init, Detector!Unset
  <2> QED BY <2>1 DEF DdosInv, DdosVerdict, Detector!Kinds
<1>2. DdosInv /\ DdosVerdict /\ [Next]_vars => DdosInv' /\ DdosVerdict'
  <2> SUFFICES ASSUME DdosInv, DdosVerdict, [Next]_vars PROVE DdosInv' /\ DdosVerdict'
    OBVIOUS
  <2>1. CASE UNCHANGED ddosVars
    BY <2>1 DEF ddosVars, DdosInv, DdosVerdict, Back, Slot, Detector!Exceeds
  <2> QED BY <2>1, StepOfOne, DdosStepKeeps DEF Detector!Next
<1>3. DdosInv /\ DdosVerdict => VerdictOnLast
  <2> SUFFICES ASSUME DdosInv, DdosVerdict PROVE VerdictOnLast
    OBVIOUS
  <2>1. Len(seen) \in Nat
    BY DEF DdosInv
  <2>2. exited <=> Len(seen) > Window /\ Detector!Exceeds(p_entropy)
    BY DEF DdosVerdict
  <2>3. CASE Len(seen) > Window
    <3>1. Detector!Exceeds(p_entropy)
            <=> Detector!Exceeds(SubSeq(seen, Len(seen) - Window + 1, Len(seen)))
      BY <2>1, <2>3, SameWindow
    <3> QED BY <2>2, <2>3, <3>1 DEF VerdictOnLast, Detector!VerdictOnLast
  <2>4. CASE ~(Len(seen) > Window)
    BY <2>2, <2>4 DEF VerdictOnLast, Detector!VerdictOnLast
  <2> QED BY <2>3, <2>4
<1> QED BY <1>1, <1>2, <1>3, PTL DEF Spec

-----------------------------------------------------------------------------
(* The search of the ARP table without its lock (lessons 11 and 12). *)

\* The inserter: count lags behind the list by the entry that was linked and
\* not yet counted, which is the first one; what it is about to link is new.
ArpInsertInv ==
  /\ entries \in Seq(Ips) /\ adding \in Ips \union {None} /\ linked \in BOOLEAN
  /\ count = Len(entries) - (IF linked THEN 1 ELSE 0)
  /\ linked => adding # None /\ Len(entries) > 0
  /\ adding # None /\ ~linked => ~Arps!HasIp(entries, adding)
  /\ \A j, k \in 1..Len(entries) : j # k => entries[j] # entries[k]

\* The search between its two reads: the list it started with is the tail of
\* the list now, and what its bound leaves out was linked since or not counted.
ArpSearchInv ==
  /\ started \in Seq(Ips) /\ raced \in Nat /\ bound \in Int
  /\ pc = "counted" =>
       /\ bound + raced = Len(entries)
       /\ Len(entries) - Len(started) \in 0..raced
       /\ \A k \in 1..Len(started) : entries[k + (Len(entries) - Len(started))] = started[k]
  /\ pc = "done" =>
       /\ Arps!HasIp(Arps!Prefix(started, Len(started) - raced), want) => found
       /\ found => Arps!HasIp(entries, want)

(* A walk of at most m entries finds an address at one of the first m places. *)
LEMMA PrefixHas ==
  ASSUME NEW S, NEW s \in Seq(S), NEW m \in Int, NEW ip
  PROVE  Arps!HasIp(Arps!Prefix(s, m), ip) <=> \E k \in 1..Len(s) : k <= m /\ s[k] = ip
<1> DEFINE q == IF m < Len(s) THEN m ELSE Len(s)
           w == SubSeq(s, 1, q)
<1>1. q \in Int /\ q <= Len(s) /\ Len(s) \in Nat
  OBVIOUS
<1> HIDE DEF q
<1>2. Len(w) = (IF q < 0 THEN 0 ELSE q) /\ \A k \in 1..q : w[k] = s[k]
  BY <1>1
<1>3. \A k \in 1..Len(s) : k <= m <=> k <= q
  BY DEF q
<1> HIDE DEF w
<1>4. (\E k \in 1..Len(w) : w[k] = ip) <=> \E k \in 1..Len(s) : k <= m /\ s[k] = ip
  BY <1>1, <1>2, <1>3
<1> QED BY <1>4 DEF Arps!HasIp, Arps!Prefix, w, q

(* Linking puts the new entry before the others. *)
LEMMA Linked ==
  ASSUME NEW s \in Seq(Ips), NEW ip \in Ips
  PROVE  /\ <<ip>> \o s \in Seq(Ips) /\ Len(<<ip>> \o s) = Len(s) + 1
         /\ (<<ip>> \o s)[1] = ip
         /\ \A k \in 1..Len(s) : (<<ip>> \o s)[k + 1] = s[k]
         /\ \A k \in 2..Len(s) + 1 : (<<ip>> \o s)[k] = s[k - 1]
OBVIOUS

(* Every step of pkt_process and of the search keeps both parts. *)
LEMMA ArpStepKeeps ==
  ASSUME ArpInsertInv, ArpSearchInv, Arps!Next
  PROVE  ArpInsertInv' /\ ArpSearchInv'
<1> USE NoneAssumption
<1> DEFINE L == Len(entries)
<1>0. L \in Nat /\ count \in Int
  BY DEF ArpInsertInv
<1>1. ASSUME NEW ip \in Ips, Arps!InsertBegins(ip)
      PROVE  ArpInsertInv' /\ ArpSearchInv'
  <2>1. ~linked /\ count = L
    BY <1>0, <1>1 DEF ArpInsertInv, Arps!InsertBegins
  <2>2. ~Arps!HasIp(entries, ip)
    <3>1. ~\E k \in 1..L : k <= L /\ entries[k] = ip
      BY <1>0, <1>1, <2>1, PrefixHas DEF ArpInsertInv, Arps!InsertBegins, Arps!Absent, Arps!Walk
    <3> QED BY <1>0, <3>1 DEF Arps!HasIp
  <2>3. ArpInsertInv'
    BY <1>1, <2>1, <2>2 DEF ArpInsertInv, Arps!InsertBegins, Arps!HasIp, Arps!search
  <2> QED BY <1>1, <2>3 DEF ArpSearchInv, Arps!InsertBegins, Arps!HasIp, Arps!Prefix, Arps!search
<1>2. CASE Arps!LinkEntry
  <2> DEFINE E == entries'
  <2>1. adding \in Ips /\ ~linked /\ count = L /\ linked' /\ adding' = adding /\ count' = count
    BY <1>2 DEF ArpInsertInv, Arps!LinkEntry
  <2>2. /\ E \in Seq(Ips) /\ Len(E) = L + 1 /\ E[1] = adding
        /\ \A k \in 1..L : E[k + 1] = entries[k]
        /\ \A k \in 2..L + 1 : E[k] = entries[k - 1]
    BY <1>2, <2>1, Linked DEF ArpInsertInv, Arps!LinkEntry
  <2>3. \A k \in 1..L : entries[k] # adding
    BY <1>2, <2>1 DEF ArpInsertInv, Arps!HasIp
  <2>4. \A j, k \in 1..L + 1 : j # k => E[j] # E[k]
    <3> SUFFICES ASSUME NEW j \in 1..L + 1, NEW k \in 1..L + 1, j # k
                 PROVE  E[j] # E[k]
      OBVIOUS
    <3>1. CASE j = 1
      BY <1>0, <2>2, <2>3, <3>1
    <3>2. CASE k = 1
      BY <1>0, <2>2, <2>3, <3>2
    <3>3. CASE j # 1 /\ k # 1
      <4>1. j - 1 \in 1..L /\ k - 1 \in 1..L /\ j - 1 # k - 1
        BY <1>0, <3>3
      <4>2. entries[j - 1] # entries[k - 1]
        BY <4>1 DEF ArpInsertInv
      <4> QED BY <1>0, <2>2, <3>3, <4>2
    <3> QED BY <3>1, <3>2, <3>3
  <2>5. ArpInsertInv'
    BY <1>0, <1>2, <2>1, <2>2, <2>4 DEF ArpInsertInv
  <2>6. ArpSearchInv'
    <3>1. /\ started' = started /\ bound' = bound /\ pc' = pc /\ want' = want /\ found' = found
          /\ raced' = IF pc = "counted" THEN raced + 1 ELSE raced
      BY <1>2 DEF Arps!LinkEntry
    <3>2. started' \in Seq(Ips) /\ raced' \in Nat /\ bound' \in Int
      BY <3>1 DEF ArpSearchInv
    <3>3. CASE pc = "counted"
      <4>1. raced' = raced + 1 /\ pc' # "done"
        BY <3>1, <3>3
      <4>2. /\ bound + raced = L /\ L - Len(started) \in 0..raced
            /\ \A k \in 1..Len(started) : entries[k + (L - Len(started))] = started[k]
        BY <3>3 DEF ArpSearchInv
      <4>3. Len(started) \in Nat /\ raced \in Nat /\ bound \in Int
        BY DEF ArpSearchInv
      <4>4. bound + (raced + 1) = L + 1 /\ L + 1 - Len(started) \in 0..raced + 1
        BY <1>0, <4>2, <4>3
      <4>5. \A k \in 1..Len(started) : E[k + (L + 1 - Len(started))] = started[k]
        <5> SUFFICES ASSUME NEW k \in 1..Len(started)
                     PROVE  E[k + (L + 1 - Len(started))] = started[k]
          OBVIOUS
        <5>1. k + (L - Len(started)) \in 1..L
              /\ k + (L + 1 - Len(started)) = k + (L - Len(started)) + 1
          BY <1>0, <4>2, <4>3
        <5> QED BY <2>2, <4>2, <5>1
      <4> QED BY <2>2, <3>1, <3>2, <4>1, <4>4, <4>5 DEF ArpSearchInv
    <3>4. CASE pc # "counted"
      <4>1. Arps!HasIp(entries, want) => Arps!HasIp(E, want)
        BY <1>0, <2>2 DEF Arps!HasIp
      <4> QED BY <3>1, <3>2, <3>4, <4>1 DEF ArpSearchInv, Arps!HasIp, Arps!Prefix
    <3> QED BY <3>3, <3>4
  <2> QED BY <2>5, <2>6
<1>3. CASE Arps!CountEntry
  <2>1. ArpInsertInv'
    <3>1. count = L - 1 /\ entries' = entries /\ count' = count + 1
      BY <1>3 DEF ArpInsertInv, Arps!CountEntry
    <3>2. ~linked' /\ linked' \in BOOLEAN /\ adding' = None
      BY <1>3 DEF Arps!CountEntry
    <3> QED BY <1>0, <3>1, <3>2 DEF ArpInsertInv
  <2>2. ArpSearchInv'
    BY <1>3 DEF ArpSearchInv, Arps!CountEntry, Arps!HasIp, Arps!Prefix, Arps!search
  <2> QED BY <2>1, <2>2
<1>4. ASSUME NEW ip \in Ips, Arps!SearchBegins(ip)
      PROVE  ArpInsertInv' /\ ArpSearchInv'
  <2>1. ArpInsertInv'
    BY <1>4 DEF ArpInsertInv, Arps!SearchBegins, Arps!HasIp, Arps!insert
  <2>2. ArpSearchInv'
    BY <1>0, <1>4 DEF ArpInsertInv, ArpSearchInv, Arps!SearchBegins, Arps!insert
  <2> QED BY <2>1, <2>2
<1>5. CASE Arps!SearchWalks
  <2>1. ArpInsertInv'
    BY <1>5 DEF ArpInsertInv, Arps!SearchWalks, Arps!HasIp, Arps!insert
  <2>2. /\ bound + raced = L /\ L - Len(started) \in 0..raced
        /\ \A k \in 1..Len(started) : entries[k + (L - Len(started))] = started[k]
        /\ started \in Seq(Ips) /\ raced \in Nat /\ bound \in Int
    BY <1>5 DEF ArpSearchInv, Arps!SearchWalks
  <2>3. found' <=> \E k \in 1..L : k <= bound /\ entries[k] = want
    BY <1>5, <2>2, PrefixHas, SMTT(30) DEF Arps!SearchWalks, Arps!Walk, ArpInsertInv
  <2>4. ASSUME Arps!HasIp(Arps!Prefix(started, Len(started) - raced), want)
        PROVE  found'
    <3>1. Len(started) \in Nat /\ Len(started) - raced \in Int
      BY <2>2
    <3>2. PICK k \in 1..Len(started) : k <= Len(started) - raced /\ started[k] = want
      BY <2>2, <2>4, <3>1, PrefixHas
    <3> DEFINE j == k + (L - Len(started))
    <3>3. j \in 1..L /\ j <= bound /\ entries[j] = want
      BY <1>0, <2>2, <3>1, <3>2, SMTT(30)
    <3> QED BY <2>3, <3>3
  <2>5. found' => Arps!HasIp(entries, want)
    BY <2>3 DEF Arps!HasIp
  <2>6. pc' = "done" /\ UNCHANGED <<entries, want, bound, started, raced>>
    BY <1>5 DEF Arps!SearchWalks, Arps!insert
  <2> QED BY <2>1, <2>2, <2>4, <2>5, <2>6 DEF ArpSearchInv, Arps!HasIp, Arps!Prefix
<1> QED BY <1>1, <1>2, <1>3, <1>4, <1>5 DEF Arps!Next

(* A search of the ARP table that runs beside the insertions misses at most *)
(* the oldest entries, as many as were linked and not counted in its bound, *)
(* and finds nothing that was not inserted; an address has one entry.       *)
THEOREM UnlockedSearch == Spec => []SearchRight
<1>1. Init => ArpInsertInv /\ ArpSearchInv
  <2> SUFFICES ASSUME Arps!Init PROVE ArpInsertInv /\ ArpSearchInv
    BY DEF Init
  <2>1. entries = <<>> /\ count = 0 /\ adding = None /\ ~linked /\ linked \in BOOLEAN
    BY DEF Arps!Init
  <2>2. started = <<>> /\ raced = 0 /\ bound = 0 /\ pc = "idle"
    BY DEF Arps!Init
  <2>3. ArpInsertInv
    BY <2>1 DEF ArpInsertInv
  <2>4. ArpSearchInv
    BY <2>2 DEF ArpSearchInv
  <2> QED BY <2>3, <2>4
<1>2. ArpInsertInv /\ ArpSearchInv /\ [Next]_vars => ArpInsertInv' /\ ArpSearchInv'
  <2> SUFFICES ASSUME ArpInsertInv, ArpSearchInv, [Next]_vars
               PROVE  ArpInsertInv' /\ ArpSearchInv'
    OBVIOUS
  <2>1. CASE UNCHANGED arpVars
    BY <2>1 DEF arpVars, ArpInsertInv, ArpSearchInv, Arps!HasIp, Arps!Prefix
  <2> QED BY <2>1, StepOfOne, ArpStepKeeps
<1>3. ArpInsertInv /\ ArpSearchInv => SearchRight
  BY DEF ArpInsertInv, ArpSearchInv, SearchRight, Arps!SearchRight
<1> QED BY <1>1, <1>2, <1>3, PTL DEF Spec

-----------------------------------------------------------------------------
(* rcu.c *)

\* A point whose fields belong to one update.
Whole(c) == heap[c].y = heap[c].x + 1

RcuTypeOK ==
  /\ gp \in Cells /\ p \in Cells /\ old \in Cells /\ rp \in Cells
  /\ live \subseteq Cells /\ heap \in [Cells -> [x : Int, y : Int]]
  /\ n \in Nat /\ x \in Int /\ y \in Int
  /\ waiting \in BOOLEAN /\ inside \in BOOLEAN
\* The updater fills a point nobody else has, and keeps the one it replaced
\* until it frees it.
RcuUpdaterInv ==
  /\ gp \in live /\ Whole(gp)
  /\ upc \in {"x", "y", "assign"} => p \in live /\ p # gp
  /\ upc \in {"y", "assign"} => heap[p].x = n
  /\ upc = "assign" => heap[p].y = n + 1
  /\ upc \in {"sync", "wait"} => old \in live /\ old # gp /\ Whole(old)
\* The reader holds the point gp shows, or the one before it while the updater
\* has not yet looked for readers or waits for this one.
RcuReaderInv ==
  /\ ~done
  /\ rpc \in {"deref", "x", "y", "unlock"} => inside
  /\ rpc \in {"x", "y"} => \/ rp = gp
                           \/ rp = old /\ (upc = "sync" \/ (upc = "wait" /\ waiting))
  /\ rpc = "y" => x = heap[rp].x
  /\ rpc \in {"unlock", "check"} => y = x + 1

RcuInv == RcuTypeOK /\ RcuUpdaterInv /\ RcuReaderInv

(* Every step of the updater keeps what both threads rely on. *)
LEMMA RcuUpdateKeeps ==
  ASSUME RcuInv, Points!Update
  PROVE  RcuInv'
<1> USE DEF RcuInv, RcuTypeOK, RcuUpdaterInv, RcuReaderInv, Whole, Points!reader
<1>1. CASE Points!Alloc
  BY <1>1 DEF Points!Alloc
<1>2. CASE Points!SetX
  BY <1>2 DEF Points!SetX
<1>3. CASE Points!SetY
  BY <1>3 DEF Points!SetY
<1>4. CASE Points!rcu_assign_pointer
  BY <1>4 DEF Points!rcu_assign_pointer
<1>5. CASE Points!synchronize_rcu
  BY <1>5 DEF Points!synchronize_rcu
<1>6. CASE Points!Free
  BY <1>6 DEF Points!Free, Points!Freed
<1> QED BY <1>1, <1>2, <1>3, <1>4, <1>5, <1>6 DEF Points!Update

(* So does every step of the reader. *)
LEMMA RcuReadKeeps ==
  ASSUME RcuInv, Points!Read
  PROVE  RcuInv'
<1> USE DEF RcuInv, RcuTypeOK, RcuUpdaterInv, RcuReaderInv, Whole, Points!updater
<1>1. CASE Points!Enter
  BY <1>1 DEF Points!Enter, Points!rcu_read_lock
<1>2. CASE Points!rcu_dereference
  BY <1>2 DEF Points!rcu_dereference
<1>3. CASE Points!ReadX
  BY <1>3 DEF Points!ReadX
<1>4. CASE Points!ReadY
  BY <1>4 DEF Points!ReadY
<1>5. CASE Points!rcu_read_unlock
  BY <1>5 DEF Points!rcu_read_unlock
<1>6. CASE Points!Check
  BY <1>6 DEF Points!Check
<1> QED BY <1>1, <1>2, <1>3, <1>4, <1>5, <1>6 DEF Points!Read

(* The reader of rcu.c never touches a point that was freed and never sees  *)
(* the fields of two updates, however malloc uses freed memory again.       *)
THEOREM ReadsWholePoints == Spec => []Points!ReadsWhole
<1>1. Init => RcuInv
  <2> SUFFICES ASSUME Points!Init PROVE RcuInv
    BY DEF Init
  <2>1. gp \in Cells
    BY CellsAssumption DEF Points!Init
  <2>2. heap[gp] = [x |-> 1, y |-> 2] /\ heap \in [Cells -> [x : Int, y : Int]]
    BY <2>1 DEF Points!Init, Points!Freed
  <2>3. RcuTypeOK
    <3>1. /\ live = {gp} /\ p = gp /\ old = gp /\ rp = gp /\ n = 0 /\ x = 0 /\ y = 0
          /\ waiting \in BOOLEAN /\ inside \in BOOLEAN
      BY DEF Points!Init
    <3> QED BY <2>1, <2>2, <3>1 DEF RcuTypeOK
  <2>4. RcuUpdaterInv
    BY <2>1, <2>2 DEF Points!Init, RcuUpdaterInv, Whole
  <2>5. RcuReaderInv
    BY DEF Points!Init, RcuReaderInv
  <2> QED BY <2>3, <2>4, <2>5 DEF RcuInv
<1>2. RcuInv /\ [Next]_vars => RcuInv'
  <2> SUFFICES ASSUME RcuInv, [Next]_vars PROVE RcuInv'
    OBVIOUS
  <2>1. CASE UNCHANGED rcuVars
    BY <2>1 DEF rcuVars, RcuInv, RcuTypeOK, RcuUpdaterInv, RcuReaderInv, Whole
  <2> QED BY <2>1, StepOfOne, RcuUpdateKeeps, RcuReadKeeps DEF Points!Next
<1>3. RcuInv => Points!ReadsWhole
  BY DEF RcuInv, RcuTypeOK, RcuUpdaterInv, RcuReaderInv, Points!ReadsWhole
<1> QED BY <1>1, <1>2, <1>3, PTL DEF Spec

-----------------------------------------------------------------------------
(* The requests of the kernel to a KNI program (lessons 11, 12, DNS). *)

Requested == {Port!IfUp, Port!IfDown} \union {Port!Change(m) : m \in Mtus}
\* Where a request is while the kernel waits: not looked at, in the handler, answered.
Waits == req_q = 1 /\ resp_q = 0 /\ handling = Port!NoReq
Worked == req_q = 0 /\ resp_q = 0 /\ handling = req
Done == req_q = 0 /\ resp_q = 1 /\ handling = Port!NoReq
Nowhere == req_q = 0 /\ resp_q = 0 /\ handling = Port!NoReq
\* The MTU the kernel has or is about to take over.
Granted == IF asking /\ Done /\ req.op = "mtu" THEN req.mtu ELSE mtu

\* Until it gives one up, the kernel's request is in one place.  An answer tells
\* what the handler did to the port; the MTU of the port is that of the kernel, or
\* the one about to be granted.
KniInv ==
  /\ late \in BOOLEAN /\ eager \in BOOLEAN /\ refused \in {"no", "start", "mtu"}
  /\ up \in BOOLEAN /\ result \in BOOLEAN
  /\ ~late =>
       /\ ~asking => Nowhere
       /\ asking => req \in Requested /\ (Waits \/ Worked \/ Done)
       /\ asking /\ req.op = "up" => ~up
       /\ asking /\ Worked /\ req.op = "mtu" => ~eager
       /\ ~eager /\ refused # "mtu" => len = Granted
       /\ refused = "no" /\ up /\ (asking => Waits) => port = "started"
       /\ asking /\ Done /\ refused = "no" =>
            /\ req.op = "up" => port = "started"
            /\ req.op = "mtu" => port = "started" \/ (eager /\ ~up)
       /\ asking /\ Done /\ req.op = "mtu" /\ refused # "mtu" /\ ~eager => result

(* Until the kernel has given up a request, the port of a KNI program is     *)
(* started whenever the interface is up, unless it could not be, and it runs *)
(* with the MTU of the kernel where the program can change it; whatever the  *)
(* order of the requests and the failures of the handlers.                   *)
THEOREM PortFollowsKernel == Spec => []Port!PortFollows
<1> USE DEF Port!NoReq, Port!IfUp, Port!IfDown, Port!Change, Requested, Waits, Worked, Done,
            Nowhere, Granted, Port!interface, Port!area
<1>1. Init => KniInv
  BY DEF Init, Port!Init, Port!init_kni, KniInv
<1>2. KniInv /\ [Next]_vars => KniInv'
  <2> SUFFICES ASSUME KniInv, [Next]_vars PROVE KniInv'
    OBVIOUS
  <2>1. CASE UNCHANGED kniVars
    BY <2>1 DEF kniVars, KniInv
  <2>2. CASE Port!Ifconfig
    <3>1. PICK r \in Requested : Port!Request(r)
      BY <2>2 DEF Port!Ifconfig
    <3> QED BY <3>1 DEF Port!Request, KniInv
  <2>3. CASE Port!Handler
    <3>1. CASE Port!NotSupported
      BY <3>1 DEF Port!NotSupported, Port!Looks, KniInv
    <3>2. CASE Port!rte_eth_dev_stop
      BY <3>2 DEF Port!rte_eth_dev_stop, Port!Looks, KniInv
    <3>3. CASE Port!MtuChanged
      BY <3>3 DEF Port!MtuChanged, Port!Answer, KniInv
    <3>4. CASE Port!MtuFails
      <4>1. /\ handling.op = "mtu" /\ port' = port /\ refused' = "mtu" /\ result' = FALSE
            /\ resp_q' = resp_q + 1 /\ handling' = Port!NoReq
            /\ UNCHANGED <<eager, up, mtu, req, req_q, asking, late>>
        BY <3>4 DEF Port!MtuFails, Port!Answer
      <4>2. ASSUME ~late
            PROVE  asking /\ req.op = "mtu" /\ req \in Requested /\ ~eager
                   /\ req_q = 0 /\ resp_q = 0
        BY <4>1, <4>2 DEF KniInv
      <4>3. ~late => Done' /\ ~Worked' /\ asking'
        BY <4>1, <4>2
      <4> QED BY <4>1, <4>2, <4>3 DEF KniInv
    <3>5. CASE Port!MtuExits
      BY <3>5 DEF Port!MtuExits, KniInv
    <3>6. CASE Port!IfConfigured
      BY <3>6 DEF Port!IfConfigured, Port!Answer, KniInv
    <3>7. CASE Port!BurstEnds
      BY <3>7 DEF Port!BurstEnds, KniInv
    <3> QED BY <2>3, <3>1, <3>2, <3>3, <3>4, <3>5, <3>6, <3>7 DEF Port!Handler
  <2>4. CASE Port!Monitor
    BY <2>4 DEF Port!Monitor, KniInv
  <2>5. CASE Port!Answered
    <3>1. /\ asking /\ resp_q > 0 /\ resp_q' = resp_q - 1 /\ asking' = FALSE
          /\ mtu' = IF result /\ req.op = "mtu" THEN req.mtu ELSE mtu
          /\ up' = IF req.op = "down" THEN FALSE ELSE up \/ (result /\ req.op = "up")
          /\ UNCHANGED <<eager, port, len, req, result, req_q, handling, refused, late>>
      BY <2>5 DEF Port!Answered, Port!Concluded
    <3>2. ASSUME ~late
          PROVE  Done /\ Nowhere'
      BY <3>1, <3>2 DEF KniInv
    <3>3. up' \in BOOLEAN
      BY <3>1 DEF KniInv
    <3>4. ASSUME ~late, ~eager, refused # "mtu"
          PROVE  len' = Granted'
      BY <3>1, <3>2, <3>4 DEF KniInv
    <3>5. ASSUME ~late, refused = "no", up'
          PROVE  port' = "started"
      <4>1. CASE req.op = "up"
        BY <3>1, <3>2, <3>5, <4>1 DEF KniInv
      <4>2. CASE req.op = "mtu"
        BY <3>1, <3>2, <3>5, <4>2 DEF KniInv
      <4>3. CASE req.op = "down"
        BY <3>1, <3>5, <4>3
      <4>4. req.op \in {"up", "down", "mtu"}
        <5>1. req \in Requested
          BY <3>1, <3>5 DEF KniInv
        <5> QED BY <5>1
      <4> QED BY <4>1, <4>2, <4>3, <4>4
    <3> QED BY <3>1, <3>2, <3>3, <3>4, <3>5 DEF KniInv
  <2>6. CASE Port!GivesUp
    BY <2>6 DEF Port!GivesUp, Port!Concluded, KniInv
  <2> QED BY <2>1, <2>2, <2>3, <2>4, <2>5, <2>6, StepOfOne DEF Port!Next, Port!Kernel
<1>3. KniInv => Port!PortFollows
  BY DEF KniInv, Port!PortFollows
<1> QED BY <1>1, <1>2, <1>3, PTL DEF Spec

-----------------------------------------------------------------------------
(* spdk_nvme.c *)

\* Where the program is tells what the device has and how far it has come.
NvmeInv ==
  /\ cur \in Nat \ {0} /\ g_namespaces \in Seq({"zns", "plain"})
  /\ is_completed \in BOOLEAN /\ nomem \in BOOLEAN
  /\ npc = "probe" => cur = 1
  /\ npc \in {"probe", "next", "reset", "resetwait", "write", "cleanup"} => served = 1..cur - 1
  /\ npc \in {"probe", "next", "reset", "write", "cleanup", "returned"} => inflight = "none"
  /\ npc = "next" => cur <= Len(g_namespaces) + 1
  /\ npc \in {"reset", "resetwait", "write", "wait"} =>
       cur \in qpairs /\ cur <= Len(g_namespaces)
  /\ npc \in {"reset", "write"} => ~is_completed
  /\ npc = "resetwait" => inflight = IF is_completed THEN "none" ELSE "reset"
  /\ npc = "wait" => IF is_completed THEN inflight = "none" /\ served = 1..cur
                                    ELSE inflight \in {"write", "read"} /\ served = 1..cur - 1
  /\ npc \in {"probe", "next", "reset", "resetwait", "write", "wait"} => status = 0
  /\ npc \in {"probe", "next", "reset", "resetwait", "write", "wait", "cleanup",
              "returned", "exited"}

(* The steps between the loop over the namespaces and the end. *)
LEMMA NvmeStepKeeps ==
  ASSUME NvmeInv, Disks!InOrder, Disks!Next
  PROVE  NvmeInv' /\ Disks!InOrder'
<1> USE DEF NvmeInv, Disks!InOrder, Disks!Ended
<1>1. ASSUME NEW c \in Ctrlrs, Disks!Attach(c)
      PROVE  NvmeInv' /\ Disks!InOrder'
  <2>1. g_namespaces' \in Seq({"zns", "plain"})
    <3>1. PICK s \in Disks!Seqs({"zns", "plain"}, MaxNs) : g_namespaces' = g_namespaces \o s
      BY <1>1 DEF Disks!Attach
    <3>2. s \in Seq({"zns", "plain"})
      BY <3>1, NsAssumption, SeqDef DEF Disks!Seqs
    <3> QED BY <3>1, <3>2
  <2> QED BY <1>1, <2>1 DEF Disks!Attach, Disks!io
<1>2. ASSUME NEW ok \in BOOLEAN, Disks!Probed(ok)
      PROVE  NvmeInv' /\ Disks!InOrder'
  BY <1>2 DEF Disks!Probed, Disks!lists, Disks!io
<1>3. CASE Disks!Dies
  BY <1>3 DEF Disks!Dies, Disks!Exits, Disks!lists, Disks!io
<1>4. CASE Disks!NextNs
  BY <1>4 DEF Disks!NextNs, Disks!lists
<1>5. CASE Disks!NextNsFails
  BY <1>5 DEF Disks!NextNsFails, Disks!lists
<1>6. CASE Disks!NoneLeft
  BY <1>6 DEF Disks!NoneLeft, Disks!lists, Disks!io
<1>7. CASE Disks!SubmitReset
  BY <1>7 DEF Disks!SubmitReset, Disks!Submit, Disks!lists
<1>8. CASE Disks!ResetWaited
  BY <1>8 DEF Disks!ResetWaited, Disks!lists
<1>9. CASE Disks!SubmitWrite
  BY <1>9 DEF Disks!SubmitWrite, Disks!Submit, Disks!lists
<1>10. CASE Disks!spdk_nvme_reset_zone_complete
  BY <1>10 DEF Disks!spdk_nvme_reset_zone_complete, Disks!lists
<1>11. CASE Disks!spdk_nvme_write_complete
  BY <1>11 DEF Disks!spdk_nvme_write_complete, Disks!Submit, Disks!lists
<1>12. CASE Disks!spdk_nvme_read_complete
  BY <1>12 DEF Disks!spdk_nvme_read_complete, Disks!lists
<1>13. CASE Disks!NsDone
  BY <1>13 DEF Disks!NsDone, Disks!lists
<1>14. CASE Disks!cleanup
  BY <1>14 DEF Disks!cleanup, Disks!io
<1> QED BY <1>1, <1>2, <1>3, <1>4, <1>5, <1>6, <1>7, <1>8, <1>9, <1>10, <1>11, <1>12, <1>13, <1>14
        DEF Disks!Next, Disks!Program

(* spdk_nvme.c goes on to the next namespace only when the block of this    *)
(* one was written and read back, whenever the completions come; it returns *)
(* 0 only if it has served them all or was short of memory.                 *)
THEOREM NamespacesInOrder == Spec => []Disks!InOrder
<1>1. Init => NvmeInv /\ Disks!InOrder
  <2> SUFFICES ASSUME Disks!Init PROVE NvmeInv /\ Disks!InOrder
    BY DEF Init
  <2>1. npc = "probe" /\ g_namespaces = <<>> /\ cur = 1 /\ inflight = "none" /\ status = 0
        /\ served = {}
    BY DEF Disks!Init
  <2>2. is_completed \in BOOLEAN /\ nomem \in BOOLEAN
    BY DEF Disks!Init
  <2>3. served = 1..cur - 1
    BY <2>1
  <2>4. g_namespaces \in Seq({"zns", "plain"})
    BY <2>1
  <2>5. NvmeInv
    BY <2>1, <2>2, <2>3, <2>4 DEF NvmeInv
  <2>6. Disks!InOrder
    BY <2>1, <2>3 DEF Disks!InOrder
  <2> QED BY <2>5, <2>6
<1>2. NvmeInv /\ Disks!InOrder /\ [Next]_vars => NvmeInv' /\ Disks!InOrder'
  <2> SUFFICES ASSUME NvmeInv, Disks!InOrder, [Next]_vars
               PROVE  NvmeInv' /\ Disks!InOrder'
    OBVIOUS
  <2>1. CASE UNCHANGED nvmeVars
    BY <2>1 DEF nvmeVars, NvmeInv, Disks!InOrder
  <2> QED BY <2>1, StepOfOne, NvmeStepKeeps
<1> QED BY <1>1, <1>2, PTL DEF Spec

-----------------------------------------------------------------------------
(* spdk_server.c *)

SpdkTypeOK ==
  /\ unread \in [Clients -> Nat] /\ sends \in [Clients -> Nat] /\ gone \in [Clients -> Nat]
  /\ back \in [Clients -> Nat] /\ short \in [Clients -> Nat]
  /\ bytes_in \in Nat /\ bytes_out \in Nat
  /\ cst \in [Clients -> {"new", "open", "closed", "reset"}]

(* Of the bytes that spdk_server.c has read it writes back all but at most a *)
(* buffer for each write that was not taken whole, and none twice; only a    *)
(* reset or a socket that could not be added loses bytes before they are     *)
(* read; and a socket of the group is one the server has not closed: for any *)
(* number of clients and any size of the buffer.                             *)
THEOREM ServerKeepsBytes == Spec => []Reactor!BytesKept
<1> USE BufferAssumption DEF SpdkTypeOK, Reactor!BytesKept, Reactor!Read
<1>1. Init => SpdkTypeOK /\ Reactor!BytesKept
  BY DEF Init, Reactor!Init, Reactor!Zeros
<1>2. SpdkTypeOK /\ Reactor!BytesKept /\ [Next]_vars => SpdkTypeOK' /\ Reactor!BytesKept'
  <2> SUFFICES ASSUME SpdkTypeOK, Reactor!BytesKept, [Next]_vars
               PROVE  SpdkTypeOK' /\ Reactor!BytesKept'
    OBVIOUS
  <2> USE DEF Reactor!clients, Reactor!echo
  <2>1. CASE UNCHANGED spdkVars
    BY <2>1 DEF spdkVars
  <2>2. CASE Reactor!Shutdown \/ Reactor!AcceptBegins \/ Reactor!AcceptEnds \/ Reactor!AcceptCrashes
    BY <2>2 DEF Reactor!Shutdown, Reactor!AcceptBegins, Reactor!AcceptEnds, Reactor!AcceptCrashes
  <2>3. ASSUME NEW c \in Clients, Reactor!Connect(c) \/ Reactor!CloseSocket(c)
        PROVE  SpdkTypeOK' /\ Reactor!BytesKept'
    BY <2>3 DEF Reactor!Connect, Reactor!CloseSocket
  <2>4. ASSUME NEW c \in Clients, Reactor!SendByte(c)
        PROVE  SpdkTypeOK' /\ Reactor!BytesKept'
    BY <2>4 DEF Reactor!SendByte
  <2>5. ASSUME NEW c \in Clients, Reactor!Reset(c)
        PROVE  SpdkTypeOK' /\ Reactor!BytesKept'
    <3>1. PICK kept \in {0, unread[c]} : /\ unread' = [unread EXCEPT ![c] = kept]
                                         /\ gone' = [gone EXCEPT ![c] = @ + (unread[c] - kept)]
      BY <2>5 DEF Reactor!Reset
    <3>2. /\ cst' = [cst EXCEPT ![c] = "reset"]
          /\ UNCHANGED <<group, owned, turnedaway, sends, back, short, bytes_in, bytes_out>>
      BY <2>5 DEF Reactor!Reset
    <3>3. kept \in Nat /\ kept <= unread[c] /\ unread[c] - kept \in Nat
      OBVIOUS
    <3> QED BY <3>1, <3>2, <3>3
  <2>6. ASSUME NEW c \in Clients, Reactor!Accepted(c) \/ Reactor!GetaddrFails(c)
        PROVE  SpdkTypeOK' /\ Reactor!BytesKept'
    BY <2>6 DEF Reactor!Accepted, Reactor!GetaddrFails
  <2>7. ASSUME NEW c \in Clients, Reactor!AddSockFails(c)
        PROVE  SpdkTypeOK' /\ Reactor!BytesKept'
    BY <2>7 DEF Reactor!AddSockFails
  <2>8. ASSUME NEW c \in Clients, Reactor!Echoes(c)
        PROVE  SpdkTypeOK' /\ Reactor!BytesKept'
    <3> DEFINE m == Reactor!Min2(unread[c], BufferSize)
    <3>1. m \in Nat /\ m <= unread[c] /\ m <= BufferSize
      BY DEF Reactor!Min2
    <3>2. PICK k \in 0..m : /\ back' = [back EXCEPT ![c] = @ + k]
                            /\ short' = [short EXCEPT ![c] = IF k < m THEN @ + 1 ELSE @]
                            /\ bytes_out' = bytes_out + k
      <4>1. PICK k \in 0..(IF cst[c] = "reset" THEN 0 ELSE m) :
                    /\ back' = [back EXCEPT ![c] = @ + k]
                    /\ short' = [short EXCEPT ![c] = IF k < m THEN @ + 1 ELSE @]
                    /\ bytes_out' = bytes_out + k
        BY <2>8 DEF Reactor!Echoes, Reactor!IovLen
      <4> HIDE DEF m
      <4>2. k \in 0..m
        BY <3>1
      <4> QED BY <4>1, <4>2
    <3>3. /\ unread' = [unread EXCEPT ![c] = @ - m] /\ bytes_in' = bytes_in + m
          /\ UNCHANGED <<group, owned, turnedaway, cst, sends, gone>>
      BY <2>8 DEF Reactor!Echoes
    <3> HIDE DEF m
    <3>4. SpdkTypeOK' /\ bytes_out' <= bytes_in'
      BY <3>1, <3>2, <3>3
    <3>5. BufferSize * (short[c] + 1) = BufferSize * short[c] + BufferSize
      OBVIOUS
    <3>6. k <= m /\ BufferSize * short'[c] >= BufferSize * short[c] + (m - k)
      <4>1. CASE k < m
        <5>1. short'[c] = short[c] + 1
          BY <3>2, <4>1
        <5>2. BufferSize * short'[c] = BufferSize * short[c] + BufferSize
          BY <3>5, <5>1
        <5>3. BufferSize * short[c] \in Nat
          OBVIOUS
        <5>4. k <= m /\ m - k <= BufferSize
          BY <3>1, <4>1
        <5>5. ASSUME NEW lo \in Nat, NEW hi \in Nat, hi = lo + BufferSize
              PROVE  hi >= lo + (m - k)
          BY <3>1, <3>2, <5>4, <5>5
        <5>6. BufferSize * short'[c] \in Nat
          BY <3>4
        <5> QED BY <5>2, <5>3, <5>4, <5>5, <5>6
      <4>2. CASE k = m
        <5>1. short'[c] = short[c]
          BY <3>1, <3>2, <4>2
        <5>2. BufferSize * short'[c] = BufferSize * short[c] /\ BufferSize * short[c] \in Nat
          BY <5>1
        <5>3. m - k = 0
          BY <3>1, <4>2
        <5>4. k <= m
          BY <3>1, <4>2
        <5>5. ASSUME NEW lo \in Nat, NEW hi \in Nat, hi = lo
              PROVE  hi >= lo + (m - k)
          BY <5>3, <5>5
        <5>6. BufferSize * short'[c] \in Nat
          BY <3>4
        <5> QED BY <5>2, <5>4, <5>5, <5>6
      <4>3. k < m \/ k = m
        BY <3>1, <3>2
      <4> QED BY <4>1, <4>2, <4>3
    <3>7. ASSUME NEW d \in Clients
          PROVE  /\ back'[d] <= sends'[d] - unread'[d] - gone'[d]
                 /\ sends'[d] - unread'[d] - gone'[d] <= back'[d] + BufferSize * short'[d]
      <4>1. CASE d = c
        <5>1. /\ back'[c] = back[c] + k /\ unread'[c] = unread[c] - m
              /\ sends'[c] = sends[c] /\ gone'[c] = gone[c]
          BY <3>2, <3>3
        <5>2. /\ back[c] <= sends[c] - unread[c] - gone[c]
              /\ sends[c] - unread[c] - gone[c] <= back[c] + BufferSize * short[c]
          OBVIOUS
        <5>3. BufferSize * short[c] \in Nat /\ BufferSize * short'[c] \in Nat
          BY <3>4
        <5> QED BY <3>1, <3>6, <4>1, <5>1, <5>2, <5>3
      <4>2. CASE d # c
        <5>1. back'[d] = back[d] /\ short'[d] = short[d] /\ unread'[d] = unread[d]
              /\ sends'[d] = sends[d] /\ gone'[d] = gone[d]
          BY <3>2, <3>3, <4>2
        <5> QED BY <5>1
      <4> QED BY <4>1, <4>2
    <3> QED BY <3>3, <3>4, <3>7
  <2>9. ASSUME NEW c \in Clients, Reactor!EndOfStream(c) \/ Reactor!RecvFails(c)
        PROVE  SpdkTypeOK' /\ Reactor!BytesKept'
    BY <2>9 DEF Reactor!EndOfStream, Reactor!RecvFails
  <2> QED BY <2>1, <2>2, <2>3, <2>4, <2>5, <2>6, <2>7, <2>8, <2>9, StepOfOne
          DEF Reactor!Next, Reactor!Poller, Reactor!Client
<1> QED BY <1>1, <1>2, PTL DEF Spec

-----------------------------------------------------------------------------
(* The way back of vring_test *)

\* The buffer holds the packet taken last, or nothing; it is newer than every
\* packet in the RX ring until poll_server has put it there.
EchoInv ==
  /\ taken \in Nat /\ received \in Nat /\ echoed \in Seq(Nat)
  /\ buffer \in {0, taken}
  /\ serverAt = "traverse" => buffer = 0
  /\ buffer # 0 /\ serverAt # "signal" =>
       \A k \in 1..Len(echoed) : echoed[k] < buffer

(* The client of vring_test gets its packets back in order and none twice,  *)
(* and an echo that it has not received has a kick on its way, for rings of *)
(* any size.                                                                *)
THEOREM EchoedOnce == Spec => []Echo!EchoOnce
<1> USE DEF EchoInv, Echo!EchoOnce
<1>1. Init => EchoInv /\ Echo!EchoOnce
  BY DEF Init, Echo!Init
<1>2. EchoInv /\ Echo!EchoOnce /\ [Next]_vars => EchoInv' /\ Echo!EchoOnce'
  <2> SUFFICES ASSUME EchoInv, Echo!EchoOnce, [Next]_vars
               PROVE  EchoInv' /\ Echo!EchoOnce'
    OBVIOUS
  <2>1. CASE UNCHANGED echoVars
    BY <2>1 DEF echoVars
  <2>2. CASE Echo!ClientStep
    BY <2>2, SMTT(30) DEF Echo!ClientStep, Echo!ClientTraverse, Echo!ClientTakes, Echo!ClientPuts,
         Echo!ClientKicks, Echo!ClientRests, Echo!server
  <2>3. CASE Echo!ServerStep
    <3> USE DEF Echo!client
    <3>1. CASE Echo!ServerTraverse
      BY <3>1 DEF Echo!ServerTraverse
    <3>2. CASE Echo!ServerTakes
      BY <3>2 DEF Echo!ServerTakes
    <3>3. CASE Echo!ServerEchoes
      <4>1. /\ buffer = taken /\ \A k \in 1..Len(echoed) : echoed[k] < buffer
            /\ serverAt' = "signal" /\ UNCHANGED <<taken, buffer, received>>
        BY <3>3 DEF Echo!ServerEchoes
      <4>2. CASE UNCHANGED echoed
        BY <4>1, <4>2
      <4>3. CASE echoed' = Append(echoed, buffer)
        <5>1. /\ echoed' \in Seq(Nat) /\ Len(echoed) \in Nat /\ Len(echoed') = Len(echoed) + 1
              /\ echoed'[Len(echoed) + 1] = buffer
              /\ \A k \in 1..Len(echoed) : echoed'[k] = echoed[k] /\ echoed[k] \in Nat
          BY <4>1, <4>3
        <5>2. \A j, k \in 1..Len(echoed') : j < k => echoed'[j] < echoed'[k]
          <6> SUFFICES ASSUME NEW j \in 1..Len(echoed'), NEW k \in 1..Len(echoed'), j < k
                       PROVE  echoed'[j] < echoed'[k]
            OBVIOUS
          <6>1. j \in 1..Len(echoed) /\ echoed'[j] = echoed[j]
            BY <5>1, SMTT(30)
          <6>2. CASE k = Len(echoed) + 1
            BY <4>1, <5>1, <6>1, <6>2
          <6>3. CASE k \in 1..Len(echoed)
            BY <5>1, <6>1, <6>3
          <6>4. k = Len(echoed) + 1 \/ k \in 1..Len(echoed)
            <7> HIDE DEF EchoInv, Echo!EchoOnce
            <7> QED BY <5>1
          <6> QED BY <6>2, <6>3, <6>4
        <5>3. \A k \in 1..Len(echoed') : echoed'[k] <= taken
          BY <4>1, <5>1, SMTT(30)
        <5> QED BY <4>1, <5>1, <5>2, <5>3
      <4> QED BY <3>3, <4>2, <4>3 DEF Echo!ServerEchoes
    <3>4. CASE Echo!ServerIdle \/ Echo!ServerSignals
      BY <3>4 DEF Echo!ServerIdle, Echo!ServerSignals
    <3> QED BY <2>3, <3>1, <3>2, <3>3, <3>4 DEF Echo!ServerStep
  <2> QED BY <2>1, <2>2, <2>3, StepOfOne DEF Echo!Next
<1> QED BY <1>1, <1>2, PTL DEF Spec

-----------------------------------------------------------------------------
(***************************************************************************)
(* The receive loops of the lessons and of the DNS server: what leaves the *)
(* card is the answer to a frame received, an mbuf in use has one owner,   *)
(* and none is lost without a cause, for any size of the pool, the rings   *)
(* and the card's queue and any finite set of hosts.                       *)
(***************************************************************************)

(* A step of Programs is a step of the receive loops or leaves them alone:   *)
(* another program runs in a process of its own.                            *)
LEMMA StepOfLoops ==
  ASSUME [Next]_vars
  PROVE  Loops!Next \/ UNCHANGED framesVars
BY DEF Next, vars, older, FramesStep, DnsStep, ArpStep, DdosStep, RcuUpdate, RcuRead, KniAsk,
  KniKernel, KniHandle, KniMonitor, NvmeAttach, NvmeRun, SpdkClient, SpdkPoll, EchoClient, EchoServer

-----------------------------------------------------------------------------
(* The receive loops: what an mbuf holds. *)

Address == Peers \union {Me, Else, Zero}
\* What an mbuf may hold.
Kind == {"udp", "tcp", "dns", "icmp", "echo", "echo_rep", "arp_req", "arp_rep", "other", "none"}
Shape == [type : Kind, smac : Address, dmac : Address, sip : Address, dip : Address, len : Nat]
Mbuf == 1..NumMbufs
Handover == [m : Mbuf, want : Shape]

(* Every frame of the network and the empty mbuf have the shape of a frame. *)
LEMMA WireShaped ==
  ASSUME lesson \in Lessons
  PROVE  Loops!Wire \subseteq Shape /\ Loops!NoFrame \in Shape
<1>1. Loops!FrameTypes \subseteq Kind
  BY FramesAssumption DEF Loops!FrameTypes, Loops!WithKni, Kind
<1>2. Loops!NoFrame \in Shape
  BY DEF Loops!NoFrame, Shape, Address, Kind
<1>3. ASSUME NEW t \in Kind, NEW p1 \in Peers, NEW d \in {Me, Else}
      PROVE  Loops!Frame(t, p1, d) \in Shape
  BY <1>3 DEF Loops!Frame, Shape, Address
<1> QED BY <1>1, <1>2, <1>3 DEF Loops!Wire

\* What Handled returns: at most one answer, and whether the frame is freed.
Doing(d) == /\ d.free \in BOOLEAN /\ Len(d.out) \in {0, 1}
            /\ Len(d.out) = 1 => d.out[1] \in Shape

(* Whatever an mbuf holds, a program answers with at most one frame. *)
LEMMA HandledTypes ==
  ASSUME lesson \in Lessons, NEW f \in Shape
  PROVE  Doing(Loops!Handled(f))
<1>1. /\ f.type \in Kind /\ f.smac \in Address /\ f.dmac \in Address
      /\ f.sip \in Address /\ f.dip \in Address /\ f.len \in Nat
  BY DEF Shape
<1>2. ASSUME NEW a \in Shape, NEW b \in BOOLEAN
      PROVE  Doing(Loops!Does(<<a>>, b))
  BY <1>2 DEF Doing, Loops!Does
<1>3. ASSUME NEW b \in BOOLEAN
      PROVE  Doing(Loops!Does(<<>>, b))
  BY <1>3 DEF Doing, Loops!Does
<1>4. Loops!ng_encode_udp_pkt(f) \in Shape
  BY <1>1 DEF Loops!ng_encode_udp_pkt, Shape, Address, Kind
<1>5. Loops!ng_encode_arp_pkt(f) \in Shape
  BY <1>1 DEF Loops!ng_encode_arp_pkt, Shape, Address, Kind
<1>6. Loops!ng_encode_icmp_pkt(f) \in Shape
  BY <1>1 DEF Loops!ng_encode_icmp_pkt, Shape, Address, Kind
<1>7. Loops!ng_encode_arp_pkt05("arp_rep", f.smac, f.sip) \in Shape
  BY <1>1 DEF Loops!ng_encode_arp_pkt05, Shape, Address, Kind
<1>8. Loops!create_eth_ip_udp_pkt(f) \in Shape
  BY <1>1 DEF Loops!create_eth_ip_udp_pkt, Shape, Address, Kind
<1>n. Doing(Loops!Nothing)
  BY <1>3 DEF Loops!Nothing
<1>a. Doing(Loops!Lesson01(f))
  BY <1>3 DEF Loops!Lesson01
<1>b. Doing(Loops!Lesson02(f))
  BY <1>2, <1>4, <1>n DEF Loops!Lesson02
<1>c. Doing(Loops!Lesson03(f))
  BY <1>2, <1>5, <1>b, <1>n DEF Loops!Lesson03
<1>d. Doing(Loops!Lesson04(f))
  BY <1>2, <1>6, <1>c DEF Loops!Lesson04
<1>e. Doing(Loops!Lesson05(f))
  <2>1. CASE f.type \in Loops!Arp
    <3>1. Doing(Loops!Lesson05Arp(f))
      BY <1>2, <1>3, <1>7, <1>n, <2>1 DEF Loops!Lesson05Arp, Loops!Arp
    <3> QED BY <2>1, <3>1 DEF Loops!Lesson05
  <2>2. CASE f.type \notin Loops!Arp
    BY <1>d, <2>2 DEF Loops!Lesson05
  <2> QED BY <2>1, <2>2
<1>f. Doing(Loops!Lesson08(f))
  BY <1>3, <1>n, <1>e DEF Loops!Lesson08, Loops!Lesson06
<1>g. Doing(Loops!Lesson11(f)) /\ Doing(Loops!Lesson12(f))
  BY DEF Loops!Lesson11, Loops!Lesson12, Loops!Does, Doing
<1>h. Doing(Loops!Lesson53(f))
  BY <1>2, <1>3, <1>8 DEF Loops!Lesson53
<1> QED
  BY <1>a, <1>b, <1>c, <1>d, <1>e, <1>f, <1>g, <1>h, FramesAssumption
  DEF Loops!Handled, Loops!Lesson06, Loops!Lesson09, Loops!Lesson10, Loops!Lesson14

(* The answer to a frame of the network goes back to its sender. *)
LEMMA HandledRight ==
  ASSUME lesson \in Lessons, NEW f \in Loops!Wire, Len(Loops!Handled(f).out) = 1
  PROVE  Loops!AnswerTo(f, Loops!Handled(f).out[1])
<1> DEFINE R(d) == Len(d.out) = 1 => Loops!AnswerTo(f, d.out[1])
<1>1. f.smac \in Peers /\ f.sip = f.smac /\ f.dip \in {Me, Else}
  BY DEF Loops!Wire, Loops!Frame
<1>0. f.smac # Else
  BY <1>1, FramesAssumption
<1>2. ASSUME NEW b \in BOOLEAN PROVE R(Loops!Does(<<>>, b))
  BY <1>2 DEF Loops!Does
<1>3. ASSUME NEW b \in BOOLEAN, NEW a, Loops!AnswerTo(f, a) PROVE R(Loops!Does(<<a>>, b))
  BY <1>3 DEF Loops!Does
<1>n. R(Loops!Nothing)
  BY <1>2 DEF Loops!Nothing
<1>4. f.type = "udp" => Loops!AnswerTo(f, Loops!ng_encode_udp_pkt(f))
  BY DEF Loops!AnswerTo, Loops!ng_encode_udp_pkt, Loops!Arp
<1>5. f.type \in Loops!Arp => Loops!AnswerTo(f, Loops!ng_encode_arp_pkt(f))
  BY DEF Loops!AnswerTo, Loops!ng_encode_arp_pkt, Loops!Arp
<1>6. f.type = "echo" => Loops!AnswerTo(f, Loops!ng_encode_icmp_pkt(f))
  BY DEF Loops!AnswerTo, Loops!ng_encode_icmp_pkt, Loops!Arp
<1>7. f.type \in Loops!Arp /\ f.dip = Me
        => Loops!AnswerTo(f, Loops!ng_encode_arp_pkt05("arp_rep", f.smac, f.sip))
  BY <1>0 DEF Loops!AnswerTo, Loops!ng_encode_arp_pkt05, Loops!Arp
<1>8. f.type = "dns" => Loops!AnswerTo(f, Loops!create_eth_ip_udp_pkt(f))
  BY DEF Loops!AnswerTo, Loops!create_eth_ip_udp_pkt, Loops!Arp
<1> HIDE DEF R
<1>a. R(Loops!Lesson01(f))
  BY <1>2 DEF Loops!Lesson01
<1>b. R(Loops!Lesson02(f))
  BY <1>3, <1>4, <1>n DEF Loops!Lesson02
<1>c. R(Loops!Lesson03(f))
  BY <1>3, <1>5, <1>b, <1>n DEF Loops!Lesson03
<1>d. R(Loops!Lesson04(f))
  BY <1>3, <1>6, <1>c DEF Loops!Lesson04
<1>e. R(Loops!Lesson05(f))
  <2>1. CASE f.type \in Loops!Arp
    <3>1. R(Loops!Lesson05Arp(f))
      BY <1>2, <1>3, <1>7, <1>n, <2>1 DEF Loops!Lesson05Arp, Loops!Arp
    <3> QED BY <2>1, <3>1 DEF Loops!Lesson05
  <2>2. CASE f.type \notin Loops!Arp
    BY <1>d, <2>2 DEF Loops!Lesson05
  <2> QED BY <2>1, <2>2
<1>f. R(Loops!Lesson08(f))
  BY <1>2, <1>n, <1>e DEF Loops!Lesson08, Loops!Lesson06
<1>g. R(Loops!Lesson11(f)) /\ R(Loops!Lesson12(f))
  BY DEF Loops!Lesson11, Loops!Lesson12, Loops!Does, R
<1>h. R(Loops!Lesson53(f))
  BY <1>2, <1>3, <1>8 DEF Loops!Lesson53
<1>i. R(Loops!Handled(f))
  BY <1>a, <1>b, <1>c, <1>d, <1>e, <1>f, <1>g, <1>h, FramesAssumption
  DEF Loops!Handled, Loops!Lesson06, Loops!Lesson09, Loops!Lesson10, Loops!Lesson14
<1> QED BY <1>i DEF R

-----------------------------------------------------------------------------
(* Queues of mbufs. *)

(* A queue is what is taken from its front and what is left. *)
LEMMA Split ==
  ASSUME NEW S, NEW s \in Seq(S), NEW k \in 0..Len(s)
  PROVE  /\ SubSeq(s, 1, k) \in Seq(S) /\ Len(SubSeq(s, 1, k)) = k
         /\ \A j \in 1..k : SubSeq(s, 1, k)[j] = s[j]
         /\ SubSeq(s, k + 1, Len(s)) \in Seq(S) /\ Len(SubSeq(s, k + 1, Len(s))) = Len(s) - k
         /\ \A j \in 1..Len(s) - k : SubSeq(s, k + 1, Len(s))[j] = s[k + j]
         /\ SubSeq(s, 1, k) \o SubSeq(s, k + 1, Len(s)) = s
<1>1. /\ Len(s) \in Nat /\ k \in Nat /\ k <= Len(s)
      /\ \A j \in 1..Len(s) : s[j] \in S
  BY LenProperties, ElementOfSeq
<1>2. \A j \in 1..k : s[j] \in S
  BY <1>1
<1>3. \A j \in k + 1..Len(s) : s[j] \in S
  BY <1>1
<1>4. /\ SubSeq(s, 1, k) \in Seq(S)
      /\ Len(SubSeq(s, 1, k)) = (IF 1 <= k THEN k - 1 + 1 ELSE 0)
      /\ \A j \in 1..k - 1 + 1 : SubSeq(s, 1, k)[j] = s[1 + j - 1]
  BY <1>1, <1>2, SubSeqProperties
<1>5. /\ SubSeq(s, k + 1, Len(s)) \in Seq(S)
      /\ Len(SubSeq(s, k + 1, Len(s))) = (IF k + 1 <= Len(s) THEN Len(s) - (k + 1) + 1 ELSE 0)
      /\ \A j \in 1..Len(s) - (k + 1) + 1 : SubSeq(s, k + 1, Len(s))[j] = s[(k + 1) + j - 1]
  <2>1. k + 1 \in Int /\ Len(s) \in Int
    BY <1>1
  <2> QED BY <1>3, <2>1, SubSeqProperties
<1>6. SubSeq(s, 1, k) \o SubSeq(s, k + 1, Len(s)) = s
  <2>1. 1 \in 1..Len(s) + 1 /\ k \in 1 - 1..Len(s) /\ Len(s) \in k..Len(s)
    BY <1>1
  <2>2. SubSeq(s, 1, k) \o SubSeq(s, k + 1, Len(s)) = SubSeq(s, 1, Len(s))
    BY <2>1, ConcatAdjacentSubSeq
  <2> QED BY <2>2, SubSeqFull
<1>7. \A j \in 1..k : SubSeq(s, 1, k)[j] = s[j]
  BY <1>1, <1>4
<1>8. \A j \in 1..Len(s) - k : SubSeq(s, k + 1, Len(s))[j] = s[k + j]
  BY <1>1, <1>5
<1>9. Len(SubSeq(s, 1, k)) = k /\ Len(SubSeq(s, k + 1, Len(s))) = Len(s) - k
  BY <1>1, <1>4, <1>5
<1> QED BY <1>4, <1>5, <1>6, <1>7, <1>8, <1>9

(* The pool takes what fits and refuses the rest. *)
LEMMA PutFits ==
  ASSUME NEW S, NEW q \in Seq(S), NEW s \in Seq(S)
  PROVE  LET k == Loops!Least(NumMbufs, Len(q \o s))
         IN /\ q \o s \in Seq(S) /\ k \in 0..Len(q \o s) /\ k <= NumMbufs
            /\ Loops!Put(q, s) = SubSeq(q \o s, 1, k)
            /\ Loops!Put(q, s) \in Seq(S) /\ Len(Loops!Put(q, s)) = k
<1>1. q \o s \in Seq(S) /\ Len(q \o s) \in Nat
  BY ConcatProperties, LenProperties
<1>2. Loops!Least(NumMbufs, Len(q \o s)) \in 0..Len(q \o s)
  BY <1>1, FramesAssumption DEF Loops!Least
<1>3. Loops!Least(NumMbufs, Len(q \o s)) <= NumMbufs
  BY <1>1, FramesAssumption DEF Loops!Least
<1> QED BY <1>1, <1>2, <1>3, Split DEF Loops!Put

(* Freeing keeps the pool a queue within its size. *)
LEMMA FreeTypes ==
  ASSUME NEW q \in Seq(Mbuf), NEW s \in Seq(Mbuf), NEW lost \in Nat, forgot \in Nat,
         Loops!Free(q, s, lost)
  PROVE  pool' \in Seq(Mbuf) /\ Len(pool') <= NumMbufs /\ forgot' \in Nat
<1>1. /\ Loops!Put(q, s) \in Seq(Mbuf) /\ Len(Loops!Put(q, s)) <= NumMbufs
      /\ Len(Loops!Put(q, s)) \in 0..Len(q \o s) /\ q \o s \in Seq(Mbuf)
  BY PutFits
<1>2. Len(q \o s) \in Nat
  BY <1>1, LenProperties
<1>3. pool' = Loops!Put(q, s) /\ forgot' = forgot + lost + (Len(q \o s) - Len(Loops!Put(q, s)))
  BY DEF Loops!Free
<1>4. Len(q \o s) - Len(Loops!Put(q, s)) \in Nat
  BY <1>1, <1>2
<1> QED BY <1>1, <1>3, <1>4

\* Types of what the receive loops keep.
LoopTypes ==
  /\ lesson \in Lessons
  /\ mem \in [Mbuf -> Shape]
  /\ pool \in Seq(Mbuf) /\ Len(pool) <= NumMbufs
  /\ posted \in Seq(Mbuf) /\ filled \in Seq(Mbuf)
  /\ inring \in Seq(Mbuf) /\ Len(inring) <= RingSize /\ burst \in Seq(Mbuf)
  /\ kni \in Seq(Mbuf) /\ Len(kni) <= KniSize /\ knifree \in Seq(Mbuf) /\ txdone \in Seq(Mbuf)
  /\ outring \in Seq(Handover) /\ txq \in Seq(Handover)
  /\ asks \in Seq(Peers) /\ table \in Seq([ip : Address, mac : Address])
  /\ i \in Nat /\ (burst # <<>> => i \in 1..Len(burst)) /\ (burst = <<>> => i = 1)
  /\ got \in 0..NumMbufs + 1 /\ forgot \in Nat
  /\ heard \subseteq Loops!Wire

(* The first frames the card holds are the first mbufs. *)
LEMMA LoopsStart == Loops!Init => LoopTypes
<1> SUFFICES ASSUME Loops!Init PROVE LoopTypes
  OBVIOUS
<1> USE FramesAssumption
<1>1. lesson \in Lessons
  BY DEF Loops!Init
<1>2. Loops!NoFrame \in Shape
  BY <1>1, WireShaped
<1>3. mem \in [Mbuf -> Shape]
  BY <1>2 DEF Loops!Init, Loops!PoolCreated, Loops!Mbufs, Mbuf
<1>4. posted \in Seq(Mbuf)
  <2>1. RxDescs \in Nat /\ [k \in 1..RxDescs |-> k] \in [1..RxDescs -> Mbuf]
    BY DEF Mbuf
  <2> QED BY <2>1, SeqDef DEF Loops!Init, Loops!PoolCreated
<1>5. pool \in Seq(Mbuf) /\ Len(pool) = NumMbufs - RxDescs
  <2> DEFINE N == NumMbufs - RxDescs
  <2>1. /\ N \in Nat
        /\ [k \in 1..N |-> k + RxDescs] \in [1..N -> Mbuf]
    BY DEF Mbuf
  <2>2. pool = [k \in 1..N |-> k + RxDescs]
    BY DEF Loops!Init, Loops!PoolCreated
  <2> HIDE DEF N
  <2>6. pool \in [1..N -> Mbuf]
    BY <2>1, <2>2
  <2>3. pool \in Seq(Mbuf)
    BY <2>1, <2>6, SeqDef
  <2>4. DOMAIN pool = 1..N
    BY <2>2
  <2>5. Len(pool) = N
    BY <2>1, <2>3, <2>4, LenProperties
  <2> QED BY <2>3, <2>5 DEF N
<1>6. /\ filled = <<>> /\ inring = <<>> /\ burst = <<>> /\ kni = <<>> /\ knifree = <<>> /\ txdone = <<>>
      /\ outring = <<>> /\ txq = <<>> /\ asks = <<>> /\ table = <<>> /\ i = 1
      /\ got = RxDescs /\ forgot = 0 /\ heard = {}
  BY DEF Loops!Init, Loops!RingsCreated, Loops!arp_table_instance
<1>7. Len(inring) <= RingSize /\ Len(kni) <= KniSize
  BY <1>6
<1> QED BY <1>1, <1>3, <1>4, <1>5, <1>6, <1>7 DEF LoopTypes

(* The card receives a frame. *)
LEMMA ArriveTypes ==
  ASSUME LoopTypes, NEW f \in Loops!Wire, Loops!Arrive(f)
  PROVE  LoopTypes'
<1>1. /\ mem' = [mem EXCEPT ![Head(posted)] = f] /\ posted # <<>>
      /\ filled' = Append(filled, Head(posted)) /\ posted' = Tail(posted)
      /\ heard' = heard \union {f}
      /\ UNCHANGED <<lesson, pool, txq, txdone, inring, outring, burst, i, asks, table, kni, knifree,
                     got, forgot>>
  BY DEF Loops!Arrive, Loops!rings, Loops!kernel
<1>2. Head(posted) \in Mbuf /\ Tail(posted) \in Seq(Mbuf)
  BY <1>1, HeadTailProperties DEF LoopTypes
<1>3. Append(filled, Head(posted)) \in Seq(Mbuf)
  BY <1>2, AppendProperties DEF LoopTypes
<1>4. f \in Shape /\ mem' \in [Mbuf -> Shape]
  BY <1>1, <1>2, WireShaped DEF LoopTypes
<1>5. Loops!Wire' = Loops!Wire
  BY <1>1 DEF Loops!Wire, Loops!FrameTypes, Loops!WithKni, Loops!Frame, Loops!Arp
<1> QED BY <1>1, <1>2, <1>3, <1>4, <1>5 DEF LoopTypes

(* What a poll takes out of the card, and the mbufs that replace it. *)
LEMMA RxBurst ==
  ASSUME LoopTypes, Loops!rx_burst
  PROVE  /\ Loops!Polled \in 0..Len(filled) /\ Loops!Polled \in 0..Len(pool)
         /\ filled' = SubSeq(filled, Loops!Polled + 1, Len(filled))
         /\ posted' = posted \o SubSeq(pool, 1, Loops!Polled)
         /\ pool' = SubSeq(pool, Loops!Polled + 1, Len(pool))
         /\ got' = Loops!Least(got + Loops!Polled, NumMbufs + 1)
         /\ filled' \in Seq(Mbuf) /\ posted' \in Seq(Mbuf)
         /\ pool' \in Seq(Mbuf) /\ Len(pool') = Len(pool) - Loops!Polled
         /\ SubSeq(filled, 1, Loops!Polled) \in Seq(Mbuf)
         /\ Len(SubSeq(filled, 1, Loops!Polled)) = Loops!Polled
         /\ SubSeq(pool, 1, Loops!Polled) \in Seq(Mbuf)
         /\ got' \in 0..NumMbufs + 1
<1>1. Len(filled) \in Nat /\ Len(pool) \in Nat /\ filled \in Seq(Mbuf) /\ pool \in Seq(Mbuf)
  BY LenProperties DEF LoopTypes
<1>2. Loops!Polled \in 0..Len(filled) /\ Loops!Polled \in 0..Len(pool)
  BY <1>1 DEF Loops!Polled, Loops!Least
<1>3. /\ filled' = SubSeq(filled, Loops!Polled + 1, Len(filled))
      /\ posted' = posted \o SubSeq(pool, 1, Loops!Polled)
      /\ pool' = SubSeq(pool, Loops!Polled + 1, Len(pool))
      /\ got' = Loops!Least(got + Loops!Polled, NumMbufs + 1)
  BY DEF Loops!rx_burst, Loops!Taken
<1>4. /\ SubSeq(filled, 1, Loops!Polled) \in Seq(Mbuf)
      /\ Len(SubSeq(filled, 1, Loops!Polled)) = Loops!Polled
      /\ filled' \in Seq(Mbuf)
  BY <1>1, <1>2, <1>3, Split
<1>5. /\ SubSeq(pool, 1, Loops!Polled) \in Seq(Mbuf)
      /\ pool' \in Seq(Mbuf) /\ Len(pool') = Len(pool) - Loops!Polled
  BY <1>1, <1>2, <1>3, Split
<1>6. posted' \in Seq(Mbuf)
  BY <1>3, <1>5, ConcatProperties DEF LoopTypes
<1>7. got' \in 0..NumMbufs + 1
  <2>1. got \in 0..NumMbufs + 1 /\ Loops!Polled \in Nat
    BY <1>1, <1>2 DEF LoopTypes
  <2> QED BY <1>3, <2>1, FramesAssumption DEF Loops!Least
<1> QED BY <1>2, <1>3, <1>4, <1>5, <1>6, <1>7

(* The loop of lessons 01 to 05 takes a burst. *)
LEMMA PollAndHandleTypes ==
  ASSUME LoopTypes, Loops!PollAndHandle
  PROVE  LoopTypes'
<1>1. /\ Loops!rx_burst /\ Loops!Polled > 0 /\ burst = <<>>
      /\ burst' = SubSeq(filled, 1, Loops!Polled) /\ i' = 1
      /\ UNCHANGED <<lesson, mem, txq, txdone, inring, outring, asks, table, kni, knifree,
                     forgot, heard>>
  BY DEF Loops!PollAndHandle, Loops!rings, Loops!kernel, Loops!history
<1>2. /\ filled' \in Seq(Mbuf) /\ posted' \in Seq(Mbuf) /\ burst' \in Seq(Mbuf)
      /\ pool' \in Seq(Mbuf) /\ Len(pool') = Len(pool) - Loops!Polled
      /\ Len(burst') = Loops!Polled /\ got' \in 0..NumMbufs + 1
      /\ Loops!Polled \in 0..Len(pool)
  BY <1>1, RxBurst
<1>3. Len(pool') <= NumMbufs /\ Loops!Polled \in Nat
  <2>1. Len(pool) \in Nat /\ Len(pool) <= NumMbufs
    BY LenProperties DEF LoopTypes
  <2> QED BY <1>2, <2>1, FramesAssumption
<1>4. i' \in 1..Len(burst')
  BY <1>1, <1>2, <1>3
<1>5. burst' # <<>>
  <2>1. Len(burst') # 0
    BY <1>1, <1>2, <1>3
  <2> QED BY <2>1, EmptySeq
<1>6. Loops!Wire' = Loops!Wire
  BY <1>1 DEF Loops!Wire, Loops!FrameTypes, Loops!WithKni, Loops!Frame, Loops!Arp
<1> QED BY <1>1, <1>2, <1>3, <1>4, <1>5, <1>6 DEF LoopTypes

(* The main loop takes a burst into the ring. *)
LEMMA PollToRingTypes ==
  ASSUME LoopTypes, Loops!PollToRing
  PROVE  /\ LoopTypes'
         /\ Loops!Least(RingSize - Len(inring), Loops!Polled) \in 0..Loops!Polled
<1> DEFINE room == Loops!Least(RingSize - Len(inring), Loops!Polled)
<1>1. /\ Loops!rx_burst
      /\ inring' = inring \o SubSeq(filled, 1, room)
      /\ forgot' = forgot + (Loops!Polled - room)
      /\ UNCHANGED <<lesson, mem, txq, txdone, outring, burst, i, asks, table, kni, knifree, heard>>
  BY DEF Loops!PollToRing, Loops!kernel, Loops!history
<1>2. /\ filled' \in Seq(Mbuf) /\ posted' \in Seq(Mbuf)
      /\ pool' \in Seq(Mbuf) /\ Len(pool') = Len(pool) - Loops!Polled
      /\ got' \in 0..NumMbufs + 1
      /\ Loops!Polled \in 0..Len(pool) /\ Loops!Polled \in 0..Len(filled)
  BY <1>1, RxBurst
<1>3. Len(pool') <= NumMbufs /\ Loops!Polled \in Nat /\ Len(filled) \in Nat
  <2>1. Len(pool) \in Nat /\ Len(pool) <= NumMbufs /\ Len(filled) \in Nat
    BY LenProperties DEF LoopTypes
  <2> QED BY <1>2, <2>1, FramesAssumption
<1>4. room \in 0..Loops!Polled /\ room <= RingSize - Len(inring) /\ Len(inring) \in Nat
  <2>1. Len(inring) \in Nat /\ Len(inring) <= RingSize
    BY LenProperties DEF LoopTypes
  <2> QED BY <1>3, <2>1, FramesAssumption DEF Loops!Least
<1> HIDE DEF room
<1>5. forgot' \in Nat
  BY <1>1, <1>3, <1>4 DEF LoopTypes
<1>6. SubSeq(filled, 1, room) \in Seq(Mbuf) /\ Len(SubSeq(filled, 1, room)) = room
  <2>1. room \in 0..Len(filled) /\ filled \in Seq(Mbuf)
    BY <1>2, <1>3, <1>4 DEF LoopTypes
  <2> QED BY <2>1, Split
<1>7. inring' \in Seq(Mbuf) /\ Len(inring') <= RingSize
  <2>1. inring' \in Seq(Mbuf) /\ Len(inring') = Len(inring) + room
    BY <1>1, <1>6, ConcatProperties DEF LoopTypes
  <2> QED BY <1>3, <1>4, <2>1, FramesAssumption
<1>8. Loops!Wire' = Loops!Wire
  BY <1>1 DEF Loops!Wire, Loops!FrameTypes, Loops!WithKni, Loops!Frame, Loops!Arp
<1>9. LoopTypes'
  BY <1>1, <1>2, <1>3, <1>5, <1>7, <1>8 DEF LoopTypes
<1> QED BY <1>4, <1>9 DEF room

\* The mbufs of a ring or queue of answers.
MbufsOf(s) == [k \in 1..Len(s) |-> s[k].m]

(* They are as many as the answers. *)
LEMMA MbufsOfSeq ==
  ASSUME NEW s \in Seq(Handover)
  PROVE  /\ MbufsOf(s) \in Seq(Mbuf) /\ Len(MbufsOf(s)) = Len(s) /\ Len(s) \in Nat
         /\ \A k \in 1..Len(s) : MbufsOf(s)[k] = s[k].m /\ s[k].m \in Mbuf /\ s[k].want \in Shape
<1>1. Len(s) \in Nat /\ \A k \in 1..Len(s) : s[k] \in Handover
  BY LenProperties, ElementOfSeq
<1>2. \A k \in 1..Len(s) : s[k].m \in Mbuf /\ s[k].want \in Shape
  BY <1>1 DEF Handover
<1>3. MbufsOf(s) \in [1..Len(s) -> Mbuf]
  BY <1>2 DEF MbufsOf
<1>4. MbufsOf(s) \in Seq(Mbuf) /\ DOMAIN MbufsOf(s) = 1..Len(s)
  BY <1>1, <1>3, SeqDef
<1>5. Len(MbufsOf(s)) = Len(s)
  BY <1>1, <1>4, LenProperties
<1> QED BY <1>1, <1>2, <1>4, <1>5 DEF MbufsOf

(* The main loop sends what is in the out ring. *)
LEMMA SendFromRingTypes ==
  ASSUME LoopTypes, Loops!SendFromRing
  PROVE  LoopTypes'
<1>1. /\ txq' = txq \o outring /\ outring' = <<>>
      /\ IF outring = <<>> THEN UNCHANGED <<pool, forgot, txdone>>
         ELSE Loops!Free(pool, txdone \o MbufsOf(outring), 0) /\ txdone' = <<>>
      /\ UNCHANGED <<lesson, mem, posted, filled, inring, burst, i, asks, table, kni, knifree,
                     got, heard>>
  BY DEF Loops!SendFromRing, Loops!kernel, Loops!history, MbufsOf
<1>2. txq' \in Seq(Handover)
  BY <1>1, ConcatProperties DEF LoopTypes
<1>3. MbufsOf(outring) \in Seq(Mbuf)
  BY MbufsOfSeq DEF LoopTypes
<1>4. txdone \o MbufsOf(outring) \in Seq(Mbuf)
  BY <1>3, ConcatProperties DEF LoopTypes
<1>5. pool' \in Seq(Mbuf) /\ Len(pool') <= NumMbufs /\ forgot' \in Nat
  BY <1>1, <1>4, FreeTypes DEF LoopTypes
<1>6. txdone' \in Seq(Mbuf) /\ outring' \in Seq(Handover)
  <2>1. txdone' = txdone \/ txdone' = <<>>
    BY <1>1
  <2> QED BY <1>1, <2>1, EmptySeq DEF LoopTypes
<1>7. Loops!Wire' = Loops!Wire
  BY <1>1 DEF Loops!Wire, Loops!FrameTypes, Loops!WithKni, Loops!Frame, Loops!Arp
<1> QED BY <1>1, <1>2, <1>5, <1>6, <1>7 DEF LoopTypes

(* The worker takes a burst from the in ring. *)
LEMMA DequeueTypes ==
  ASSUME LoopTypes, Loops!Dequeue
  PROVE  LoopTypes'
<1>1. /\ burst = <<>> /\ inring # <<>> /\ burst' = inring /\ i' = 1 /\ inring' = <<>>
      /\ UNCHANGED <<lesson, mem, pool, posted, filled, txq, txdone, outring, asks, table,
                     kni, knifree, got, forgot, heard>>
  BY DEF Loops!Dequeue, Loops!card, Loops!kernel, Loops!history
<1>2. Len(inring) \in Nat \ {0} /\ Len(inring') <= RingSize
  BY <1>1, EmptySeq, FramesAssumption DEF LoopTypes
<1>3. i' \in 1..Len(burst')
  BY <1>1, <1>2
<1>4. Loops!Wire' = Loops!Wire
  BY <1>1 DEF Loops!Wire, Loops!FrameTypes, Loops!WithKni, Loops!Frame, Loops!Arp
<1> QED BY <1>1, <1>2, <1>3, <1>4 DEF LoopTypes

(* An answer takes an mbuf and goes to the card or to the out ring, if there *)
(* is room.                                                                 *)
LEMMA SendTypes ==
  ASSUME LoopTypes, pool # <<>>, NEW f \in Shape, Loops!Send(f)
  PROVE  /\ Head(pool) \in Mbuf /\ Tail(pool) \in Seq(Mbuf) /\ Loops!FreedBySend \in Seq(Mbuf)
         /\ mem' = [mem EXCEPT ![Head(pool)] = f] /\ mem' \in [Mbuf -> Shape]
         /\ got' = Loops!Least(got + 1, NumMbufs + 1) /\ got' \in 0..NumMbufs + 1
         /\ outring' \in Seq(Handover) /\ txq' \in Seq(Handover) /\ txdone' \in Seq(Mbuf)
         /\ Loops!NoRoom \in {0, 1}
<1> DEFINE new == [m |-> Head(pool), want |-> f]
<1>1. Head(pool) \in Mbuf /\ Tail(pool) \in Seq(Mbuf)
  BY HeadTailProperties DEF LoopTypes
<1>2. new \in Handover
  BY <1>1 DEF Handover
<1>3. Append(outring, new) \in Seq(Handover) /\ Append(txq, new) \in Seq(Handover)
  BY <1>2, AppendProperties DEF LoopTypes
<1>4. <<Head(pool)>> \in Seq(Mbuf)
  BY <1>1
<1>5. Loops!FreedBySend \in Seq(Mbuf)
  BY <1>4, ConcatProperties DEF Loops!FreedBySend, LoopTypes
<1>6. /\ mem' = [mem EXCEPT ![Head(pool)] = f]
      /\ got' = Loops!Least(got + 1, NumMbufs + 1)
  BY DEF Loops!Send, Loops!Taken
<1>7. mem' \in [Mbuf -> Shape]
  BY <1>1, <1>6 DEF LoopTypes
<1>8. got' \in 0..NumMbufs + 1
  BY <1>6, FramesAssumption, SMTT(30) DEF LoopTypes, Loops!Least
<1>9. outring' \in Seq(Handover) /\ txq' \in Seq(Handover) /\ txdone' \in Seq(Mbuf)
  <2>1. CASE Loops!Pipelined
    <3>1. /\ outring' = Append(outring, new) \/ outring' = outring
          /\ txq' = txq /\ txdone' = txdone
      BY <2>1 DEF Loops!Send
    <3> QED BY <1>3, <3>1 DEF LoopTypes
  <2>2. CASE ~Loops!Pipelined
    <3>1. txq' = Append(txq, new) /\ txdone' = <<>> /\ outring' = outring
      BY <2>2 DEF Loops!Send
    <3> QED BY <1>3, <3>1, EmptySeq DEF LoopTypes
  <2> QED BY <2>1, <2>2
<1> QED BY <1>1, <1>5, <1>6, <1>7, <1>8, <1>9 DEF Loops!NoRoom

(* The loop comes to the next frame, or to its end. *)
LEMMA AdvanceTypes ==
  ASSUME LoopTypes, burst # <<>>, NEW q \in Seq(Mbuf), NEW s \in Seq(Mbuf), NEW lost \in Nat,
         Loops!Advance(q, s, lost)
  PROVE  /\ pool' \in Seq(Mbuf) /\ Len(pool') <= NumMbufs /\ forgot' \in Nat
         /\ burst' \in Seq(Mbuf) /\ i' \in Nat
         /\ burst' # <<>> => i' \in 1..Len(burst')
         /\ burst' = <<>> => i' = 1
<1>1. i \in 1..Len(burst) /\ Len(burst) \in Nat /\ forgot \in Nat /\ burst \in Seq(Mbuf)
  BY LenProperties DEF LoopTypes
<1>2. CASE i < Len(burst)
  <2>1. i' = i + 1 /\ burst' = burst /\ Loops!Free(q, s, lost)
    BY <1>2 DEF Loops!Advance
  <2>2. i' \in Nat /\ i' \in 1..Len(burst)
    BY <1>1, <1>2, <2>1
  <2> QED BY <1>1, <2>1, <2>2, FreeTypes
<1>3. CASE ~(i < Len(burst))
  <2>1. /\ i' = 1 /\ burst' = <<>>
        /\ Loops!Free(q, IF lesson = 53 THEN s \o burst ELSE s, lost)
    BY <1>3 DEF Loops!Advance
  <2>2. s \o burst \in Seq(Mbuf)
    BY <1>1, ConcatProperties
  <2>3. (IF lesson = 53 THEN s \o burst ELSE s) \in Seq(Mbuf)
    BY <2>2
  <2>4. pool' \in Seq(Mbuf) /\ Len(pool') <= NumMbufs /\ forgot' \in Nat
    BY <1>1, <2>1, <2>3, FreeTypes
  <2>5. burst' \in Seq(Mbuf) /\ i' \in Nat
    BY <2>1, EmptySeq
  <2> QED BY <2>1, <2>4, <2>5
<1> QED BY <1>2, <1>3

(* What the ARP table learns. *)
LEMMA LearnTypes ==
  ASSUME LoopTypes, NEW f \in Shape, Loops!Learn(f)
  PROVE  /\ table' \in Seq([ip : Address, mac : Address])
         /\ \/ table' = table
            \/ Loops!Teaches(f) /\ table' = <<[ip |-> f.sip, mac |-> f.smac]>> \o table
<1>1. [ip |-> f.sip, mac |-> f.smac] \in [ip : Address, mac : Address]
  BY DEF Shape
<1>2. <<[ip |-> f.sip, mac |-> f.smac]>> \in Seq([ip : Address, mac : Address])
  BY <1>1
<1>3. <<[ip |-> f.sip, mac |-> f.smac]>> \o table \in Seq([ip : Address, mac : Address])
  BY <1>2, ConcatProperties DEF LoopTypes
<1> QED BY <1>3 DEF Loops!Learn, LoopTypes

\* The frame in hand, what is freed of it and whether it is forgotten.
Current == mem[burst[i]]
FreedNow == IF Loops!Handled(Current).free THEN <<burst[i]>> ELSE <<>>
LostNow == IF Loops!Forgets(Current) THEN 1 ELSE 0

(* The loop answers a frame or just goes on. *)
LEMMA HandleCases ==
  ASSUME LoopTypes, Loops!Handle
  PROVE  /\ burst # <<>> /\ i \in 1..Len(burst) /\ burst[i] \in Mbuf /\ Current \in Shape
         /\ ~Loops!ToKni(Current) /\ Loops!Learn(Current) /\ Doing(Loops!Handled(Current))
         /\ FreedNow \in Seq(Mbuf) /\ LostNow \in {0, 1}
         /\ UNCHANGED <<lesson, posted, filled, inring, at, asks, kni, knifree, dead, whole,
                        frames, timers, heard, last>>
         /\ \/ /\ Len(Loops!Handled(Current).out) = 1 /\ pool # <<>>
               /\ Loops!Send(Loops!Handled(Current).out[1])
               /\ Loops!Advance(Tail(pool), Loops!FreedBySend \o FreedNow, LostNow + Loops!NoRoom)
            \/ /\ Loops!Advance(pool, FreedNow, LostNow)
               /\ UNCHANGED <<mem, got, txq, txdone, outring>>
<1>1. burst # <<>>
  BY DEF Loops!Handle
<1>2. i \in 1..Len(burst) /\ burst \in Seq(Mbuf)
  BY <1>1 DEF LoopTypes
<1>3. burst[i] \in Mbuf
  BY <1>2, ElementOfSeq
<1>4. Current \in Shape
  BY <1>3 DEF LoopTypes, Current
<1>5. Doing(Loops!Handled(Current))
  BY <1>4, HandledTypes DEF LoopTypes
<1>6. FreedNow \in Seq(Mbuf)
  <2>1. <<burst[i]>> \in Seq(Mbuf) /\ <<>> \in Seq(Mbuf)
    BY <1>3, EmptySeq
  <2> QED BY <2>1 DEF FreedNow
<1>7. /\ ~Loops!ToKni(Current) /\ Loops!Learn(Current)
      /\ UNCHANGED <<lesson, posted, filled, inring, at, asks, kni, knifree, dead, whole,
                     frames, timers, heard, last>>
  BY DEF Loops!Handle, Current, Loops!kernel, Loops!history
<1>8. CASE Len(Loops!Handled(Current).out) = 1
  <2>1. /\ pool # <<>> /\ Loops!Send(Loops!Handled(Current).out[1])
        /\ Loops!Advance(Tail(pool), Loops!FreedBySend \o FreedNow, LostNow + Loops!NoRoom)
    BY <1>8 DEF Loops!Handle, Current, FreedNow, LostNow
  <2> QED BY <1>1, <1>2, <1>3, <1>4, <1>5, <1>6, <1>7, <1>8, <2>1 DEF LostNow
<1>9. CASE Len(Loops!Handled(Current).out) # 1
  <2>1. /\ Loops!Advance(pool, FreedNow, LostNow)
        /\ UNCHANGED <<mem, got, txq, txdone, outring>>
    BY <1>9 DEF Loops!Handle, Current, FreedNow, LostNow
  <2> QED BY <1>1, <1>2, <1>3, <1>4, <1>5, <1>6, <1>7, <2>1 DEF LostNow
<1> QED BY <1>8, <1>9

(* Handling a frame keeps the types. *)
LEMMA HandleTypes ==
  ASSUME LoopTypes, Loops!Handle
  PROVE  LoopTypes'
<1>1. /\ burst # <<>> /\ Current \in Shape
      /\ Loops!Learn(Current) /\ Doing(Loops!Handled(Current))
      /\ FreedNow \in Seq(Mbuf) /\ LostNow \in {0, 1}
      /\ UNCHANGED <<lesson, posted, filled, inring, asks, kni, knifree, heard>>
  BY HandleCases
<1>2. table' \in Seq([ip : Address, mac : Address])
  BY <1>1, LearnTypes
<1>3. Loops!Wire' = Loops!Wire
  BY <1>1 DEF Loops!Wire, Loops!FrameTypes, Loops!WithKni, Loops!Frame, Loops!Arp
<1>4. CASE /\ Len(Loops!Handled(Current).out) = 1 /\ pool # <<>>
           /\ Loops!Send(Loops!Handled(Current).out[1])
           /\ Loops!Advance(Tail(pool), Loops!FreedBySend \o FreedNow, LostNow + Loops!NoRoom)
  <2>1. Loops!Handled(Current).out[1] \in Shape
    BY <1>1, <1>4 DEF Doing
  <2>2. /\ Tail(pool) \in Seq(Mbuf) /\ Loops!FreedBySend \in Seq(Mbuf)
        /\ mem' \in [Mbuf -> Shape] /\ got' \in 0..NumMbufs + 1
        /\ outring' \in Seq(Handover) /\ txq' \in Seq(Handover) /\ txdone' \in Seq(Mbuf)
        /\ Loops!NoRoom \in {0, 1}
    BY <1>4, <2>1, SendTypes
  <2>3. Loops!FreedBySend \o FreedNow \in Seq(Mbuf) /\ LostNow + Loops!NoRoom \in Nat
    BY <1>1, <2>2, ConcatProperties
  <2>4. /\ pool' \in Seq(Mbuf) /\ Len(pool') <= NumMbufs /\ forgot' \in Nat
        /\ burst' \in Seq(Mbuf) /\ i' \in Nat
        /\ burst' # <<>> => i' \in 1..Len(burst')
        /\ burst' = <<>> => i' = 1
    BY <1>1, <1>4, <2>2, <2>3, AdvanceTypes
  <2> QED BY <1>1, <1>2, <1>3, <2>2, <2>4 DEF LoopTypes
<1>5. CASE /\ Loops!Advance(pool, FreedNow, LostNow)
           /\ UNCHANGED <<mem, got, txq, txdone, outring>>
  <2>1. pool \in Seq(Mbuf) /\ LostNow \in Nat
    BY <1>1 DEF LoopTypes
  <2>4. /\ pool' \in Seq(Mbuf) /\ Len(pool') <= NumMbufs /\ forgot' \in Nat
        /\ burst' \in Seq(Mbuf) /\ i' \in Nat
        /\ burst' # <<>> => i' \in 1..Len(burst')
        /\ burst' = <<>> => i' = 1
    BY <1>1, <1>5, <2>1, AdvanceTypes
  <2> QED BY <1>1, <1>2, <1>3, <1>5, <2>4 DEF LoopTypes
<1> QED BY <1>4, <1>5, HandleCases

\* What the KNI queue takes of a burst, and what is lost of it.
KniRoom == Loops!Least(KniSize - Len(kni), Len(burst))
KniLost == IF lesson = 53 THEN 0 ELSE Len(burst) - KniRoom

(* The whole burst goes to the kernel, as far as there is room. *)
LEMMA KniTxCases ==
  ASSUME LoopTypes, Loops!KniTx
  PROVE  /\ burst # <<>> /\ i \in 1..Len(burst) /\ burst[i] \in Mbuf /\ Current \in Shape
         /\ Loops!ToKni(Current) /\ Loops!Learn(Current)
         /\ KniRoom \in 0..Len(burst) /\ KniRoom <= KniSize - Len(kni) /\ KniLost \in Nat
         /\ kni' = kni \o SubSeq(burst, 1, KniRoom) /\ knifree' = <<>>
         /\ Loops!Advance(pool, knifree, KniLost)
         /\ UNCHANGED <<lesson, mem, posted, filled, txq, txdone, inring, outring, at, asks, dead,
                        got, whole, frames, timers, heard, last>>
<1>1. burst # <<>>
  BY DEF Loops!KniTx
<1>2. /\ i \in 1..Len(burst) /\ burst \in Seq(Mbuf) /\ Len(burst) \in Nat
      /\ Len(kni) \in Nat /\ Len(kni) <= KniSize
  BY <1>1, LenProperties DEF LoopTypes
<1>3. burst[i] \in Mbuf
  BY <1>2, ElementOfSeq
<1>4. Current \in Shape
  BY <1>3 DEF LoopTypes, Current
<1>5. KniRoom \in 0..Len(burst) /\ KniRoom <= KniSize - Len(kni) /\ KniLost \in Nat
  BY <1>2, FramesAssumption DEF KniRoom, KniLost, Loops!Least
<1>6. /\ Loops!ToKni(Current) /\ Loops!Learn(Current)
      /\ kni' = kni \o SubSeq(burst, 1, KniRoom) /\ knifree' = <<>>
      /\ Loops!Advance(pool, knifree, KniLost)
      /\ UNCHANGED <<lesson, mem, posted, filled, txq, txdone, inring, outring, at, asks, dead,
                     got, whole, frames, timers, heard, last>>
  BY DEF Loops!KniTx, Current, KniRoom, KniLost, Loops!card, Loops!rings, Loops!history
<1> QED BY <1>1, <1>2, <1>3, <1>4, <1>5, <1>6

(* So does handing a burst to the kernel. *)
LEMMA KniTxTypes ==
  ASSUME LoopTypes, Loops!KniTx
  PROVE  LoopTypes'
<1>1. /\ burst # <<>> /\ Current \in Shape /\ Loops!Learn(Current)
      /\ KniRoom \in 0..Len(burst) /\ KniRoom <= KniSize - Len(kni) /\ KniLost \in Nat
      /\ kni' = kni \o SubSeq(burst, 1, KniRoom) /\ knifree' = <<>>
      /\ Loops!Advance(pool, knifree, KniLost)
      /\ UNCHANGED <<lesson, mem, posted, filled, txq, txdone, inring, outring, asks, got, heard>>
  BY KniTxCases
<1>2. table' \in Seq([ip : Address, mac : Address])
  BY <1>1, LearnTypes
<1>3. Loops!Wire' = Loops!Wire
  BY <1>1 DEF Loops!Wire, Loops!FrameTypes, Loops!WithKni, Loops!Frame, Loops!Arp
<1>4. SubSeq(burst, 1, KniRoom) \in Seq(Mbuf) /\ Len(SubSeq(burst, 1, KniRoom)) = KniRoom
  BY <1>1, Split DEF LoopTypes
<1>5. kni' \in Seq(Mbuf) /\ Len(kni') <= KniSize
  <2>1. kni' \in Seq(Mbuf) /\ Len(kni') = Len(kni) + KniRoom /\ Len(kni) \in Nat /\ Len(burst) \in Nat
    BY <1>1, <1>4, ConcatProperties, LenProperties DEF LoopTypes
  <2> QED BY <1>1, <2>1, FramesAssumption
<1>6. knifree' \in Seq(Mbuf)
  BY <1>1, EmptySeq
<1>7. /\ pool' \in Seq(Mbuf) /\ Len(pool') <= NumMbufs /\ forgot' \in Nat
      /\ burst' \in Seq(Mbuf) /\ i' \in Nat
      /\ burst' # <<>> => i' \in 1..Len(burst')
      /\ burst' = <<>> => i' = 1
  <2>1. pool \in Seq(Mbuf) /\ knifree \in Seq(Mbuf)
    BY DEF LoopTypes
  <2> QED BY <1>1, <2>1, AdvanceTypes
<1> QED BY <1>1, <1>2, <1>3, <1>5, <1>6, <1>7 DEF LoopTypes

(* Frames counts with the Cardinality of its own instance of FiniteSets. *)
LEMMA LoopsCardinality ==
  ASSUME NEW S
  PROVE  Loops!Cardinality(S) = Cardinality(S)
BY DEF Loops!Cardinality, Cardinality

(* The timer asks for every host of the net. *)
LEMMA AskedForAll == Loops!AskedFor \in Seq(Peers)
<1> DEFINE c == Cardinality(Peers)
<1>1. c \in Nat /\ ExistsBijection(1..c, Peers)
  BY FramesAssumption, FS_CardinalityType
<1> HIDE DEF c
<1>2. PICK s \in Bijection(1..c, Peers) : TRUE
  BY <1>1 DEF ExistsBijection
<1>3. s \in [1..c -> Peers] /\ \A a, b \in 1..c : a # b => s[a] # s[b]
  BY <1>2 DEF Bijection, Injection, Surjection, IsInjective
<1>4. \E t \in [1..Cardinality(Peers) -> Peers] : Loops!AllDiffer(t)
  BY <1>3 DEF c, Loops!AllDiffer
<1>6. Loops!AskedFor \in [1..Cardinality(Peers) -> Peers]
  BY <1>4, LoopsCardinality DEF Loops!AskedFor
<1> QED BY <1>1, <1>6, SeqDef DEF c

(* The address asked for, and the question. *)
LEMMA AskAddress ==
  ASSUME LoopTypes, asks # <<>>
  PROVE  /\ Head(asks) \in Peers /\ Tail(asks) \in Seq(Peers)
         /\ Loops!ng_get_dst_macaddr(Head(asks)) \in Address
         /\ Loops!ng_encode_arp_pkt05("arp_req", Loops!ng_get_dst_macaddr(Head(asks)), Head(asks)) \in Shape
<1>1. Head(asks) \in Peers /\ Tail(asks) \in Seq(Peers)
  BY HeadTailProperties DEF LoopTypes
<1>2. Loops!ng_get_dst_macaddr(Head(asks)) \in Address
  <2> DEFINE ip == Head(asks)
             k == CHOOSE k \in 1..Len(table) : table[k].ip = ip
  <2>1. CASE \E j \in 1..Len(table) : table[j].ip = ip
    <3>1. k \in 1..Len(table)
      BY <2>1
    <3>2. table[k] \in [ip : Address, mac : Address]
      BY <3>1, ElementOfSeq DEF LoopTypes
    <3> QED BY <2>1, <3>2 DEF Loops!ng_get_dst_macaddr
  <2>2. CASE ~\E j \in 1..Len(table) : table[j].ip = ip
    BY <2>2 DEF Loops!ng_get_dst_macaddr, Address
  <2> QED BY <2>1, <2>2
<1>3. ASSUME NEW mac \in Address, NEW ip \in Peers
      PROVE  Loops!ng_encode_arp_pkt05("arp_req", mac, ip) \in Shape
  BY <1>3 DEF Loops!ng_encode_arp_pkt05, Shape, Address, Kind
<1> QED BY <1>1, <1>2, <1>3

(* A question of the timer goes out as an answer does. *)
LEMMA AskCases ==
  ASSUME LoopTypes, Loops!Ask
  PROVE  LET f == Loops!ng_encode_arp_pkt05("arp_req", Loops!ng_get_dst_macaddr(Head(asks)), Head(asks))
         IN /\ asks # <<>> /\ pool # <<>> /\ f \in Shape /\ Loops!Send(f)
            /\ Loops!Free(Tail(pool), Loops!FreedBySend, Loops!NoRoom)
            /\ asks' = Tail(asks)
            /\ UNCHANGED <<lesson, posted, filled, inring, at, burst, i, table, kni, knifree, dead,
                           whole, frames, timers, heard, last>>
  BY AskAddress DEF Loops!Ask, Loops!kernel, Loops!history

(* Asking keeps the types. *)
LEMMA AskTypes ==
  ASSUME LoopTypes, Loops!Ask
  PROVE  LoopTypes'
<1> DEFINE f == Loops!ng_encode_arp_pkt05("arp_req", Loops!ng_get_dst_macaddr(Head(asks)), Head(asks))
<1>1. /\ asks # <<>> /\ pool # <<>> /\ f \in Shape /\ Loops!Send(f)
      /\ Loops!Free(Tail(pool), Loops!FreedBySend, Loops!NoRoom)
      /\ asks' = Tail(asks)
      /\ UNCHANGED <<lesson, posted, filled, inring, burst, i, table, kni, knifree, heard>>
  BY AskCases
<1> HIDE DEF f
<1>2. /\ Tail(pool) \in Seq(Mbuf) /\ Loops!FreedBySend \in Seq(Mbuf)
      /\ mem' \in [Mbuf -> Shape] /\ got' \in 0..NumMbufs + 1
      /\ outring' \in Seq(Handover) /\ txq' \in Seq(Handover) /\ txdone' \in Seq(Mbuf)
      /\ Loops!NoRoom \in {0, 1}
  BY <1>1, SendTypes
<1>3. forgot \in Nat /\ Loops!NoRoom \in Nat
  BY <1>2 DEF LoopTypes
<1>4. pool' \in Seq(Mbuf) /\ Len(pool') <= NumMbufs /\ forgot' \in Nat
  BY <1>1, <1>2, <1>3, FreeTypes
<1>5. asks' \in Seq(Peers)
  BY <1>1, AskAddress
<1>6. Loops!Wire' = Loops!Wire
  BY <1>1 DEF Loops!Wire, Loops!FrameTypes, Loops!WithKni, Loops!Frame, Loops!Arp
<1> QED BY <1>1, <1>2, <1>4, <1>5, <1>6 DEF LoopTypes

(* The card sends an answer. *)
LEMMA CardSendsTypes ==
  ASSUME LoopTypes, Loops!CardSends
  PROVE  LoopTypes'
<1>1. /\ txq # <<>> /\ txq' = Tail(txq) /\ txdone' = Append(txdone, Head(txq).m)
      /\ UNCHANGED <<lesson, mem, pool, posted, filled, inring, outring, burst, i, asks, table,
                     kni, knifree, got, forgot, heard>>
  BY DEF Loops!CardSends, Loops!rings, Loops!kernel
<1>2. Head(txq) \in Handover /\ Tail(txq) \in Seq(Handover)
  BY <1>1, HeadTailProperties DEF LoopTypes
<1>3. Head(txq).m \in Mbuf
  BY <1>2 DEF Handover
<1>4. txdone' \in Seq(Mbuf)
  BY <1>1, <1>3, AppendProperties DEF LoopTypes
<1>5. Loops!Wire' = Loops!Wire
  BY <1>1 DEF Loops!Wire, Loops!FrameTypes, Loops!WithKni, Loops!Frame, Loops!Arp
<1> QED BY <1>1, <1>2, <1>4, <1>5 DEF LoopTypes

(* The kernel consumes a frame. *)
LEMMA KernelTakesTypes ==
  ASSUME LoopTypes, Loops!KernelTakes
  PROVE  LoopTypes'
<1>1. /\ kni # <<>> /\ kni' = Tail(kni) /\ knifree' = Append(knifree, Head(kni))
      /\ UNCHANGED <<lesson, mem, pool, posted, filled, txq, txdone, inring, outring, burst, i,
                     asks, table, got, forgot, heard>>
  BY DEF Loops!KernelTakes, Loops!card, Loops!rings, Loops!history
<1>2. Head(kni) \in Mbuf /\ Tail(kni) \in Seq(Mbuf) /\ Len(Tail(kni)) = Len(kni) - 1
  BY <1>1, HeadTailProperties DEF LoopTypes
<1>3. knifree' \in Seq(Mbuf)
  BY <1>1, <1>2, AppendProperties DEF LoopTypes
<1>4. Len(kni') <= KniSize
  <2>1. Len(kni) \in Nat /\ Len(kni) <= KniSize
    BY LenProperties DEF LoopTypes
  <2> QED BY <1>1, <1>2, <2>1, FramesAssumption
<1>5. Loops!Wire' = Loops!Wire
  BY <1>1 DEF Loops!Wire, Loops!FrameTypes, Loops!WithKni, Loops!Frame, Loops!Arp
<1> QED BY <1>1, <1>2, <1>3, <1>4, <1>5 DEF LoopTypes

(* What is left: the timer expires, or the program ends for want of an mbuf. *)
LEMMA TimerTypes ==
  ASSUME LoopTypes, Loops!TimerExpires \/ Loops!HandleFails \/ Loops!AskFails
  PROVE  /\ LoopTypes'
         /\ UNCHANGED <<lesson, mem, pool, posted, filled, txq, txdone, inring, outring, burst, i,
                        table, kni, knifree, got, forgot, heard, whole, last>>
<1>1. asks' = asks \/ asks' = Loops!AskedFor
  BY DEF Loops!TimerExpires, Loops!HandleFails, Loops!AskFails, Loops!rte_exit
<1>2. UNCHANGED <<lesson, mem, pool, posted, filled, txq, txdone, inring, outring, burst, i,
                  table, kni, knifree, got, forgot, heard, whole, last>>
  BY DEF Loops!TimerExpires, Loops!HandleFails, Loops!AskFails, Loops!rte_exit,
         Loops!card, Loops!rings, Loops!kernel, Loops!history
<1>3. asks' \in Seq(Peers)
  BY <1>1, AskedForAll DEF LoopTypes
<1>4. Loops!Wire' = Loops!Wire
  BY <1>2 DEF Loops!Wire, Loops!FrameTypes, Loops!WithKni, Loops!Frame, Loops!Arp
<1> QED BY <1>2, <1>3, <1>4 DEF LoopTypes

(* Every step keeps the types. *)
LEMMA LoopTypesKept ==
  ASSUME LoopTypes, Loops!Next
  PROVE  LoopTypes'
  BY ArriveTypes, PollAndHandleTypes, PollToRingTypes, SendFromRingTypes, DequeueTypes, HandleTypes,
     KniTxTypes, AskTypes, CardSendsTypes, KernelTakesTypes, TimerTypes DEF Loops!Next

-----------------------------------------------------------------------------
(* What leaves the card. *)

(* What is in a queue of one. *)
LEMMA RangeOne ==
  ASSUME NEW S, NEW e \in S
  PROVE  <<e>> \in Seq(S) /\ Range(<<e>>) = {e}
<1>1. Len(<<e>>) = 1 /\ <<e>>[1] = e /\ <<e>> \in Seq(S)
  OBVIOUS
<1>2. Range(<<e>>) = {<<e>>[k] : k \in 1..Len(<<e>>)}
  BY <1>1, RangeEquality
<1> QED BY <1>1, <1>2

(* What is in a queue that grows at its end. *)
LEMMA RangeAppend ==
  ASSUME NEW S, NEW s \in Seq(S), NEW e \in S
  PROVE  Range(Append(s, e)) = Range(s) \union {e}
<1>1. Append(s, e) = s \o <<e>>
  BY AppendIsConcat
<1>2. <<e>> \in Seq(S) /\ Range(<<e>>) = {e}
  BY RangeOne
<1>3. Range(s \o <<e>>) = Range(s) \union Range(<<e>>)
  BY <1>2, RangeConcatenation, ZenonT(60)
<1> QED BY <1>1, <1>2, <1>3

(* A queue without its head. *)
LEMMA RangeTail ==
  ASSUME NEW S, NEW s \in Seq(S), s # <<>>
  PROVE  Range(s) = Range(Tail(s)) \union {Head(s)}
<1>1. /\ Head(s) \in S /\ Tail(s) \in Seq(S) /\ Len(Tail(s)) = Len(s) - 1 /\ Head(s) = s[1]
      /\ Len(s) \in Nat /\ Len(s) >= 1
      /\ \A k \in 1..Len(Tail(s)) : Tail(s)[k] = s[k + 1]
  BY HeadTailProperties, EmptySeq, LenProperties
<1>2. Range(s) = {s[k] : k \in 1..Len(s)} /\ Range(Tail(s)) = {Tail(s)[k] : k \in 1..Len(Tail(s))}
  BY <1>1, RangeEquality, ZenonT(60)
<1>3. ASSUME NEW k \in 1..Len(s) PROVE s[k] = Head(s) \/ s[k] \in Range(Tail(s))
  <2>1. CASE k = 1
    BY <1>1, <2>1
  <2>2. CASE k # 1
    <3>1. k - 1 \in 1..Len(Tail(s)) /\ (k - 1) + 1 = k
      BY <1>1, <2>2
    <3>2. Tail(s)[k - 1] = s[k]
      BY <1>1, <3>1
    <3> QED BY <1>2, <3>1, <3>2
  <2> QED BY <2>1, <2>2
<1>4. ASSUME NEW k \in 1..Len(Tail(s)) PROVE Tail(s)[k] \in Range(s)
  <2>1. k + 1 \in 1..Len(s) /\ Tail(s)[k] = s[k + 1]
    BY <1>1
  <2> QED BY <1>2, <2>1
<1>5. Head(s) \in Range(s)
  <2>1. 1 \in 1..Len(s)
    BY <1>1
  <2> QED BY <1>1, <1>2, <2>1
<1> QED BY <1>2, <1>3, <1>4, <1>5

(* The two parts of a queue. *)
LEMMA RangeSplit ==
  ASSUME NEW S, NEW s \in Seq(S), NEW k \in 0..Len(s)
  PROVE  Range(s) = Range(SubSeq(s, 1, k)) \union Range(SubSeq(s, k + 1, Len(s)))
<1>1. /\ SubSeq(s, 1, k) \in Seq(S) /\ SubSeq(s, k + 1, Len(s)) \in Seq(S)
      /\ SubSeq(s, 1, k) \o SubSeq(s, k + 1, Len(s)) = s
  BY Split
<1> QED BY <1>1, RangeConcatenation, ZenonT(60)

(* Nothing is in an empty queue. *)
LEMMA RangeEmpty == Range(<<>>) = {}
<1>1. <<>> \in Seq({}) /\ Len(<<>>) = 0
  BY EmptySeq
<1>2. Range(<<>>) = {<<>>[k] : k \in 1..Len(<<>>)}
  BY <1>1, RangeEquality
<1>3. 1..Len(<<>>) = {}
  BY <1>1
<1> QED BY <1>2, <1>3

\* While an mbuf is not taken for the first time it stays where it was in the
\* pool, in front of those that were freed.
FreshFrom(q, g) == NumMbufs - g <= Len(q) /\ \A k \in 1..NumMbufs - g : q[k] = g + k

(* Freeing does not touch the fresh mbufs. *)
LEMMA FreshFree ==
  ASSUME NEW q \in Seq(Mbuf), NEW s \in Seq(Mbuf), NEW lost \in Nat, Loops!Free(q, s, lost),
         NEW g \in 0..NumMbufs, FreshFrom(q, g)
  PROVE  FreshFrom(pool', g)
<1> DEFINE k == Loops!Least(NumMbufs, Len(q \o s))
<1>1. /\ q \o s \in Seq(Mbuf) /\ k \in 0..Len(q \o s) /\ k <= NumMbufs
      /\ Loops!Put(q, s) = SubSeq(q \o s, 1, k) /\ Len(Loops!Put(q, s)) = k
  BY PutFits
<1>2. pool' = Loops!Put(q, s)
  BY DEF Loops!Free
<1>3. /\ Len(q) \in Nat /\ Len(s) \in Nat /\ Len(q \o s) = Len(q) + Len(s)
      /\ \A j \in 1..Len(q) + Len(s) :
           (q \o s)[j] = IF j <= Len(q) THEN q[j] ELSE s[j - Len(q)]
  BY ConcatProperties, LenProperties
<1>4. \A j \in 1..k : Loops!Put(q, s)[j] = (q \o s)[j]
  BY <1>1, Split
<1>5. NumMbufs - g <= k
  BY <1>3, FramesAssumption DEF FreshFrom, Loops!Least
<1> HIDE DEF k
<1>6. ASSUME NEW j \in 1..NumMbufs - g PROVE pool'[j] = g + j
  <2>1. j \in 1..k /\ j \in 1..Len(q) + Len(s) /\ j <= Len(q)
    BY <1>1, <1>3, <1>5, FramesAssumption DEF FreshFrom
  <2>2. pool'[j] = q[j]
    BY <1>2, <1>3, <1>4, <2>1
  <2> QED BY <2>2 DEF FreshFrom
<1> QED BY <1>1, <1>2, <1>5, <1>6 DEF FreshFrom

(* What is taken from the pool is fresh, and the next ones are. *)
LEMMA FreshTaken ==
  ASSUME pool \in Seq(Mbuf), NEW k \in 0..Len(pool), got \in 0..NumMbufs, got + k <= NumMbufs,
         FreshFrom(pool, got)
  PROVE  /\ FreshFrom(SubSeq(pool, k + 1, Len(pool)), got + k)
         /\ \A j \in 1..k : SubSeq(pool, 1, k)[j] = got + j
         /\ Range(SubSeq(pool, 1, k)) \subseteq got + 1..got + k
<1>1. /\ SubSeq(pool, 1, k) \in Seq(Mbuf) /\ Len(SubSeq(pool, 1, k)) = k
      /\ \A j \in 1..k : SubSeq(pool, 1, k)[j] = pool[j]
      /\ Len(SubSeq(pool, k + 1, Len(pool))) = Len(pool) - k
      /\ \A j \in 1..Len(pool) - k : SubSeq(pool, k + 1, Len(pool))[j] = pool[k + j]
  BY Split
<1>2. /\ Len(pool) \in Nat /\ k \in Nat /\ got \in Nat /\ NumMbufs \in Nat
      /\ NumMbufs - got <= Len(pool) /\ got + k <= NumMbufs
  BY LenProperties, FramesAssumption DEF FreshFrom
<1>3. ASSUME NEW j \in 1..NumMbufs - (got + k)
      PROVE  SubSeq(pool, k + 1, Len(pool))[j] = got + k + j
  <2>1. j \in 1..Len(pool) - k /\ k + j \in 1..NumMbufs - got
    BY <1>2
  <2>2. pool[k + j] = got + (k + j)
    BY <2>1 DEF FreshFrom
  <2> QED BY <1>1, <1>2, <2>1, <2>2
<1>4. NumMbufs - (got + k) <= Len(SubSeq(pool, k + 1, Len(pool)))
  BY <1>1, <1>2
<1>5. ASSUME NEW j \in 1..k PROVE SubSeq(pool, 1, k)[j] = got + j
  <2>1. j \in 1..NumMbufs - got
    BY <1>2
  <2> QED BY <1>1, <2>1 DEF FreshFrom
<1>6. Range(SubSeq(pool, 1, k)) = {SubSeq(pool, 1, k)[j] : j \in 1..k}
  BY <1>1, RangeEquality
<1>7. \A j \in 1..k : got + j \in got + 1..got + k
  BY <1>2
<1> QED BY <1>3, <1>4, <1>5, <1>6, <1>7 DEF FreshFrom

(* One mbuf is taken. *)
LEMMA FreshHead ==
  ASSUME pool \in Seq(Mbuf), pool # <<>>, got \in 0..NumMbufs, got < NumMbufs,
         FreshFrom(pool, got)
  PROVE  Head(pool) = got + 1 /\ FreshFrom(Tail(pool), got + 1)
<1>1. /\ Head(pool) = pool[1] /\ Len(Tail(pool)) = Len(pool) - 1 /\ Len(pool) \in Nat
      /\ \A k \in 1..Len(Tail(pool)) : Tail(pool)[k] = pool[k + 1]
  BY HeadTailProperties, LenProperties
<1>2. NumMbufs \in Nat /\ got \in Nat /\ NumMbufs - got <= Len(pool)
  BY FramesAssumption DEF FreshFrom
<1>3. 1 \in 1..NumMbufs - got
  BY <1>2
<1>4. ASSUME NEW j \in 1..NumMbufs - (got + 1) PROVE Tail(pool)[j] = got + 1 + j
  <2>1. j \in 1..Len(Tail(pool)) /\ j + 1 \in 1..NumMbufs - got
    BY <1>1, <1>2
  <2>2. pool[j + 1] = got + (j + 1)
    BY <2>1 DEF FreshFrom
  <2> QED BY <1>1, <1>2, <2>1, <2>2
<1>5. NumMbufs - (got + 1) <= Len(Tail(pool))
  BY <1>1, <1>2
<1> QED BY <1>1, <1>3, <1>4, <1>5 DEF FreshFrom

\* An answer to a frame received, or a question of the ARP timer.
Rightly(a) == \/ \E f \in heard : Loops!AnswerTo(f, a)
              \/ a.type = "arp_req" /\ a.sip = Me /\ a.dmac \in {Zero, a.dip}

\* An answer on its way is as it was encoded, in an mbuf the card will not
\* receive into.
OnItsWay(h) == /\ h.m \in 1..got /\ h.m \notin Range(posted)
               /\ mem[h.m] = h.want /\ Rightly(h.want)

\* Until the pool has been gone through once, every mbuf in use was taken once:
\* what was received stays in it, and so does what is to be sent.
AnswerFacts ==
  /\ FreshFrom(pool, got)
  /\ Range(posted) \subseteq 1..got /\ Range(filled) \subseteq 1..got
  /\ Range(inring) \subseteq 1..got /\ Range(burst) \subseteq 1..got
  /\ \A h \in Range(outring) \union Range(txq) : OnItsWay(h)
  /\ \A m \in Range(filled) \union Range(inring) \union Range(burst) : mem[m] \in heard
  /\ \A e \in Range(table) : e.mac = e.ip
LoopsAnswer == got <= NumMbufs => AnswerFacts

(* A queue of mbufs or answers has mbufs or answers in it. *)
LEMMA RangesTyped ==
  ASSUME LoopTypes
  PROVE  /\ Range(posted) \subseteq Mbuf /\ Range(filled) \subseteq Mbuf
         /\ Range(inring) \subseteq Mbuf /\ Range(burst) \subseteq Mbuf
         /\ Range(outring) \subseteq Handover /\ Range(txq) \subseteq Handover
  BY RangeOfSeq DEF LoopTypes

(* At the start only the card has mbufs. *)
LEMMA AnswerStart ==
  ASSUME Loops!Init
  PROVE  LoopsAnswer /\ Loops!AnswersRight
<1>1. /\ filled = <<>> /\ inring = <<>> /\ burst = <<>> /\ outring = <<>> /\ txq = <<>>
      /\ table = <<>> /\ got = RxDescs /\ last.sent = Loops!NoFrame
      /\ posted = [k \in 1..RxDescs |-> k]
      /\ pool = [k \in 1..(NumMbufs - RxDescs) |-> k + RxDescs]
  BY DEF Loops!Init, Loops!RingsCreated, Loops!arp_table_instance, Loops!PoolCreated
<1>2. Range(posted) \subseteq 1..got
  BY <1>1 DEF Range
<1>3. FreshFrom(pool, got)
  <2> DEFINE N == NumMbufs - RxDescs
  <2>1. pool \in Seq(Mbuf) /\ DOMAIN pool = 1..N /\ N \in Nat
    BY <1>1, LoopsStart, FramesAssumption DEF LoopTypes
  <2>2. Len(pool) \in Nat /\ DOMAIN pool = 1..Len(pool)
    BY <2>1, LenProperties
  <2>3. \A k \in 1..N : pool[k] = k + RxDescs
    BY <1>1
  <2> HIDE DEF N
  <2>4. Len(pool) = N
    BY <2>1, <2>2
  <2>5. \A k \in 1..N : pool[k] = RxDescs + k
    BY <2>1, <2>3, FramesAssumption
  <2> QED BY <1>1, <2>1, <2>4, <2>5 DEF FreshFrom, N
<1>4. AnswerFacts
  BY <1>1, <1>2, <1>3, RangeEmpty DEF AnswerFacts
<1> QED BY <1>1, <1>4 DEF LoopsAnswer, Loops!AnswersRight

(* Nothing is encoded into an mbuf and no new one is posted: what is on its *)
(* way stays right.                                                         *)
LEMMA OnItsWayKept ==
  ASSUME NEW h, OnItsWay(h), got' \in Nat, got \in Nat, got <= got',
         h.m \notin Range(posted'), mem'[h.m] = mem[h.m], heard \subseteq heard'
  PROVE  OnItsWay(h)'
<1>1. Rightly(h.want) => Rightly(h.want)'
  BY DEF Rightly, Loops!AnswerTo, Loops!Arp
<1> QED BY <1>1 DEF OnItsWay

(* The frame is received into an mbuf that nothing else is in. *)
LEMMA ArriveAnswers ==
  ASSUME LoopTypes, LoopsAnswer, NEW f \in Loops!Wire, Loops!Arrive(f)
  PROVE  LoopsAnswer'
<1>1. /\ mem' = [mem EXCEPT ![Head(posted)] = f] /\ posted # <<>> /\ got <= NumMbufs
      /\ filled' = Append(filled, Head(posted)) /\ posted' = Tail(posted)
      /\ heard' = heard \union {f}
      /\ UNCHANGED <<pool, txq, inring, outring, burst, table, got>>
  BY DEF Loops!Arrive, Loops!rings
<1>2. AnswerFacts
  BY <1>1 DEF LoopsAnswer
<1>3. Head(posted) \in Mbuf /\ Tail(posted) \in Seq(Mbuf)
  BY <1>1, HeadTailProperties DEF LoopTypes
<1>4. Range(posted) = Range(posted') \union {Head(posted)}
  BY <1>1, RangeTail DEF LoopTypes
<1>5. Range(filled') = Range(filled) \union {Head(posted)}
  BY <1>1, <1>3, RangeAppend, SMTT(30) DEF LoopTypes
<1>6. \A m \in Mbuf : mem'[m] = IF m = Head(posted) THEN f ELSE mem[m]
  BY <1>1, <1>3 DEF LoopTypes
<1>7. \A m \in Range(filled') \union Range(inring') \union Range(burst') : mem'[m] \in heard'
  <2>1. \A m \in Range(filled) \union Range(inring) \union Range(burst) : m \in Mbuf /\ mem[m] \in heard
    BY <1>2, RangesTyped DEF AnswerFacts
  <2> QED BY <1>1, <1>3, <1>5, <1>6, <2>1
<1>8. ASSUME NEW h \in Range(outring') \union Range(txq') PROVE OnItsWay(h)'
  <2>1. OnItsWay(h) /\ h.m \in Mbuf
    BY <1>1, <1>2, <1>8, RangesTyped DEF AnswerFacts, Handover
  <2>2. h.m \notin Range(posted') /\ h.m # Head(posted)
    BY <1>4, <2>1 DEF OnItsWay
  <2>3. got \in Nat /\ got' \in Nat /\ got <= got'
    BY <1>1, FramesAssumption DEF LoopTypes
  <2>4. mem'[h.m] = mem[h.m]
    BY <1>6, <2>1, <2>2
  <2> QED BY <1>1, <2>1, <2>2, <2>3, <2>4, OnItsWayKept
<1>9. FreshFrom(pool, got)'
  BY <1>1, <1>2 DEF AnswerFacts, FreshFrom
<1> QED BY <1>1, <1>2, <1>4, <1>5, <1>7, <1>8, <1>9 DEF LoopsAnswer, AnswerFacts

(* The driver takes fresh mbufs for the card. *)
LEMMA RxBurstAnswers ==
  ASSUME LoopTypes, LoopsAnswer, Loops!rx_burst, got' <= NumMbufs, UNCHANGED <<mem, outring, heard>>,
         txq' = txq
  PROVE  /\ AnswerFacts /\ got' = got + Loops!Polled /\ got \in Nat /\ got' \in Nat /\ got <= got'
         /\ FreshFrom(pool, got)'
         /\ Range(SubSeq(pool, 1, Loops!Polled)) \subseteq got + 1..got'
         /\ Range(posted') = Range(posted) \union Range(SubSeq(pool, 1, Loops!Polled))
         /\ Range(posted') \subseteq 1..got'
         /\ Range(filled) = Range(SubSeq(filled, 1, Loops!Polled)) \union Range(filled')
         /\ \A h \in Range(outring') \union Range(txq') : OnItsWay(h)'
<1>1. /\ Loops!Polled \in 0..Len(filled) /\ Loops!Polled \in 0..Len(pool)
      /\ filled' = SubSeq(filled, Loops!Polled + 1, Len(filled))
      /\ posted' = posted \o SubSeq(pool, 1, Loops!Polled)
      /\ pool' = SubSeq(pool, Loops!Polled + 1, Len(pool))
      /\ got' = Loops!Least(got + Loops!Polled, NumMbufs + 1)
      /\ SubSeq(pool, 1, Loops!Polled) \in Seq(Mbuf)
  BY RxBurst
<1>2. /\ got \in Nat /\ NumMbufs \in Nat /\ Loops!Polled \in Nat /\ posted \in Seq(Mbuf)
      /\ pool \in Seq(Mbuf) /\ filled \in Seq(Mbuf)
  BY <1>1, LenProperties, FramesAssumption DEF LoopTypes
<1>3. got' = got + Loops!Polled /\ got <= NumMbufs /\ got <= got' /\ got' \in Nat
  BY <1>1, <1>2 DEF Loops!Least
<1>4. AnswerFacts
  BY <1>3 DEF LoopsAnswer
<1>5. /\ FreshFrom(pool', got')
      /\ Range(SubSeq(pool, 1, Loops!Polled)) \subseteq got + 1..got'
  <2>1. got \in 0..NumMbufs /\ FreshFrom(pool, got) /\ got + Loops!Polled <= NumMbufs
    BY <1>2, <1>3, <1>4 DEF AnswerFacts
  <2> QED BY <1>1, <1>2, <1>3, <2>1, FreshTaken
<1>6. Range(posted') = Range(posted) \union Range(SubSeq(pool, 1, Loops!Polled))
  BY <1>1, <1>2, RangeConcatenation, ZenonT(60)
<1>7. Range(filled) = Range(SubSeq(filled, 1, Loops!Polled)) \union Range(filled')
  BY <1>1, <1>2, RangeSplit
<1>8. Range(posted') \subseteq 1..got'
  <2>1. Range(posted) \subseteq 1..got
    BY <1>4 DEF AnswerFacts
  <2>2. 1..got \subseteq 1..got' /\ got + 1..got' \subseteq 1..got'
    BY <1>2, <1>3
  <2> QED BY <1>5, <1>6, <2>1, <2>2
<1>9. ASSUME NEW h \in Range(outring') \union Range(txq') PROVE OnItsWay(h)'
  <2>1. OnItsWay(h)
    BY <1>4, <1>9 DEF AnswerFacts
  <2>2. h.m \notin got + 1..got'
    BY <1>2, <1>3, <2>1 DEF OnItsWay
  <2>3. h.m \notin Range(posted')
    BY <1>5, <1>6, <2>1, <2>2 DEF OnItsWay
  <2>4. mem'[h.m] = mem[h.m] /\ heard \subseteq heard'
    OBVIOUS
  <2> QED BY <1>2, <1>3, <2>1, <2>3, <2>4, OnItsWayKept
<1>10. FreshFrom(pool, got)'
  BY <1>5 DEF FreshFrom
<1> QED BY <1>2, <1>3, <1>4, <1>5, <1>6, <1>7, <1>8, <1>9, <1>10

(* The burst of lessons 01 to 05. *)
LEMMA PollAndHandleAnswers ==
  ASSUME LoopTypes, LoopsAnswer, Loops!PollAndHandle
  PROVE  LoopsAnswer'
<1> SUFFICES ASSUME got' <= NumMbufs PROVE AnswerFacts'
  BY DEF LoopsAnswer
<1>1. /\ Loops!rx_burst /\ burst = <<>> /\ burst' = SubSeq(filled, 1, Loops!Polled)
      /\ UNCHANGED <<mem, txq, inring, outring, table, heard>>
  BY DEF Loops!PollAndHandle, Loops!rings, Loops!history
<1>2. /\ AnswerFacts /\ got \in Nat /\ got' \in Nat /\ got <= got'
      /\ FreshFrom(pool, got)' /\ Range(posted') \subseteq 1..got'
      /\ Range(filled) = Range(SubSeq(filled, 1, Loops!Polled)) \union Range(filled')
      /\ \A h \in Range(outring') \union Range(txq') : OnItsWay(h)'
  BY <1>1, RxBurstAnswers
<1>3. Range(burst') \subseteq Range(filled) /\ Range(filled') \subseteq Range(filled)
  BY <1>1, <1>2
<1>4. 1..got \subseteq 1..got'
  BY <1>2
<1> QED BY <1>1, <1>2, <1>3, <1>4 DEF AnswerFacts

(* The burst of the later lessons. *)
LEMMA PollToRingAnswers ==
  ASSUME LoopTypes, LoopsAnswer, Loops!PollToRing
  PROVE  LoopsAnswer'
<1> DEFINE room == Loops!Least(RingSize - Len(inring), Loops!Polled)
<1> SUFFICES ASSUME got' <= NumMbufs PROVE AnswerFacts'
  BY DEF LoopsAnswer
<1>1. /\ Loops!rx_burst /\ inring' = inring \o SubSeq(filled, 1, room)
      /\ UNCHANGED <<mem, txq, outring, burst, table, heard>>
  BY DEF Loops!PollToRing, Loops!kernel, Loops!history
<1>2. /\ AnswerFacts /\ got \in Nat /\ got' \in Nat /\ got <= got'
      /\ FreshFrom(pool, got)' /\ Range(posted') \subseteq 1..got'
      /\ Range(filled) = Range(SubSeq(filled, 1, Loops!Polled)) \union Range(filled')
      /\ \A h \in Range(outring') \union Range(txq') : OnItsWay(h)'
  BY <1>1, RxBurstAnswers
<1>3. room \in 0..Loops!Polled /\ Loops!Polled \in 0..Len(filled) /\ Len(filled) \in Nat
  BY <1>1, PollToRingTypes, RxBurst, LenProperties DEF LoopTypes
<1> HIDE DEF room
<1>4. /\ SubSeq(filled, 1, room) \in Seq(Mbuf)
      /\ Range(SubSeq(filled, 1, room)) \subseteq Range(filled)
  <2>1. room \in 0..Len(filled) /\ filled \in Seq(Mbuf)
    BY <1>3 DEF LoopTypes
  <2>2. SubSeq(filled, 1, room) \in Seq(Mbuf)
    BY <2>1, Split
  <2>3. Range(SubSeq(filled, 1, room)) \subseteq Range(filled)
    BY <2>1, RangeSplit
  <2> QED BY <2>2, <2>3
<1>5. Range(inring') = Range(inring) \union Range(SubSeq(filled, 1, room))
  <2>1. inring \in Seq(Mbuf)
    BY DEF LoopTypes
  <2> QED BY <1>1, <1>4, <2>1, RangeConcatenation, ZenonT(60)
<1>6. 1..got \subseteq 1..got'
  BY <1>2
<1>7. Range(filled') \subseteq Range(filled) /\ Range(inring') \subseteq Range(inring) \union Range(filled)
  BY <1>2, <1>4, <1>5
<1> QED BY <1>1, <1>2, <1>6, <1>7 DEF AnswerFacts

(* What is in the out ring goes to the card as it is. *)
LEMMA SendFromRingAnswers ==
  ASSUME LoopTypes, LoopsAnswer, Loops!SendFromRing
  PROVE  LoopsAnswer'
<1> SUFFICES ASSUME got' <= NumMbufs PROVE AnswerFacts'
  BY DEF LoopsAnswer
<1>1. /\ txq' = txq \o outring /\ outring' = <<>>
      /\ IF outring = <<>> THEN UNCHANGED <<pool, forgot, txdone>>
         ELSE Loops!Free(pool, txdone \o MbufsOf(outring), 0) /\ txdone' = <<>>
      /\ UNCHANGED <<mem, posted, filled, inring, burst, table, got, heard>>
  BY DEF Loops!SendFromRing, Loops!kernel, Loops!history, MbufsOf
<1>2. AnswerFacts /\ got \in 0..NumMbufs
  BY <1>1, FramesAssumption DEF LoopsAnswer, LoopTypes
<1>3. Range(txq') = Range(txq) \union Range(outring) /\ Range(outring') = {}
  <2>1. txq \in Seq(Handover) /\ outring \in Seq(Handover)
    BY DEF LoopTypes
  <2>2. Range(txq \o outring) = Range(txq) \union Range(outring)
    BY <2>1, RangeConcatenation
  <2> QED BY <1>1, <2>2, RangeEmpty
<1>4. FreshFrom(pool', got)
  <2>1. CASE outring = <<>>
    BY <1>1, <1>2, <2>1 DEF AnswerFacts
  <2>2. CASE outring # <<>>
    <3>1. MbufsOf(outring) \in Seq(Mbuf)
      BY MbufsOfSeq DEF LoopTypes
    <3>2. txdone \o MbufsOf(outring) \in Seq(Mbuf) /\ pool \in Seq(Mbuf)
      BY <3>1, ConcatProperties DEF LoopTypes
    <3>3. Loops!Free(pool, txdone \o MbufsOf(outring), 0) /\ FreshFrom(pool, got)
      BY <1>1, <1>2, <2>2 DEF AnswerFacts
    <3> QED BY <1>2, <3>2, <3>3, FreshFree
  <2> QED BY <2>1, <2>2
<1>5. ASSUME NEW h \in Range(outring') \union Range(txq') PROVE OnItsWay(h)'
  <2>1. OnItsWay(h)
    BY <1>2, <1>3, <1>5 DEF AnswerFacts
  <2> QED BY <1>1, <2>1 DEF OnItsWay, Rightly, Loops!AnswerTo, Loops!Arp
<1>6. FreshFrom(pool, got)'
  BY <1>1, <1>4 DEF FreshFrom
<1> QED BY <1>1, <1>2, <1>5, <1>6 DEF AnswerFacts

(* The worker takes over what is in the ring. *)
LEMMA DequeueAnswers ==
  ASSUME LoopTypes, LoopsAnswer, Loops!Dequeue
  PROVE  LoopsAnswer'
<1>1. /\ burst' = inring /\ inring' = <<>>
      /\ UNCHANGED <<mem, pool, posted, filled, txq, outring, table, got, heard>>
  BY DEF Loops!Dequeue, Loops!card, Loops!kernel, Loops!history
<1>2. Range(burst') = Range(inring) /\ Range(inring') = {}
  BY <1>1, RangeEmpty
<1> QED BY <1>1, <1>2 DEF LoopsAnswer, AnswerFacts, FreshFrom, OnItsWay, Rightly, Loops!AnswerTo, Loops!Arp

(* An answer is encoded into a fresh mbuf. *)
LEMMA SendAnswers ==
  ASSUME LoopTypes, LoopsAnswer, pool # <<>>, NEW f \in Shape, Loops!Send(f), Rightly(f),
         got' <= NumMbufs, UNCHANGED <<posted, heard>>
  PROVE  /\ AnswerFacts /\ got \in Nat /\ got' = got + 1 /\ FreshFrom(Tail(pool), got')
         /\ \A m \in 1..got : mem'[m] = mem[m]
         /\ \A h \in Range(outring') \union Range(txq') : OnItsWay(h)'
<1>1. /\ Head(pool) \in Mbuf /\ mem' = [mem EXCEPT ![Head(pool)] = f]
      /\ got' = Loops!Least(got + 1, NumMbufs + 1)
  BY SendTypes
<1>2. /\ got \in Nat /\ NumMbufs \in Nat /\ pool \in Seq(Mbuf) /\ mem \in [Mbuf -> Shape]
      /\ outring \in Seq(Handover) /\ txq \in Seq(Handover)
  BY FramesAssumption DEF LoopTypes
<1>3. got' = got + 1 /\ got < NumMbufs /\ got \in 0..NumMbufs
  BY <1>1, <1>2 DEF Loops!Least
<1>4. AnswerFacts
  BY <1>2, <1>3 DEF LoopsAnswer
<1>5. Head(pool) = got + 1 /\ FreshFrom(Tail(pool), got')
  BY <1>2, <1>3, <1>4, FreshHead DEF AnswerFacts
<1>6. \A m \in Mbuf : mem'[m] = IF m = got + 1 THEN f ELSE mem[m]
  BY <1>1, <1>2, <1>5
<1>7. ASSUME NEW m \in 1..got PROVE mem'[m] = mem[m]
  <2>1. m \in Mbuf /\ m # got + 1
    BY <1>2, <1>3 DEF Mbuf
  <2> QED BY <1>6, <2>1
<1>8. PICK new \in Handover : new = [m |-> Head(pool), want |-> f]
  BY <1>1 DEF Handover
<1>m. new.m = got + 1 /\ new.want = f
  BY <1>5, <1>8
<1>9. Range(outring') \union Range(txq') \subseteq Range(outring) \union Range(txq) \union {new}
  <2>1. /\ Range(Append(outring, new)) = Range(outring) \union {new}
        /\ Range(Append(txq, new)) = Range(txq) \union {new}
    BY <1>2, <1>8, RangeAppend
  <2>2. CASE Loops!Pipelined
    <3>1. (outring' = Append(outring, new) \/ outring' = outring) /\ txq' = txq
      BY <1>8, <2>2 DEF Loops!Send
    <3> QED BY <2>1, <3>1
  <2>3. CASE ~Loops!Pipelined
    <3>1. txq' = Append(txq, new) /\ outring' = outring
      BY <1>8, <2>3 DEF Loops!Send
    <3> QED BY <2>1, <3>1
  <2> QED BY <2>2, <2>3
<1>10. ASSUME NEW h \in Range(outring) \union Range(txq) PROVE OnItsWay(h)'
  <2>1. OnItsWay(h)
    BY <1>4, <1>10 DEF AnswerFacts
  <2>2. /\ h.m \notin Range(posted') /\ mem'[h.m] = mem[h.m] /\ heard \subseteq heard'
        /\ got' \in Nat /\ got <= got'
    BY <1>2, <1>3, <1>7, <2>1 DEF OnItsWay
  <2> QED BY <1>2, <2>1, <2>2, OnItsWayKept
<1>11. OnItsWay(new)'
  <2>1. got' = got + 1 /\ new.m \in 1..got'
    BY <1>2, <1>3, <1>m
  <2>2. new.m \notin Range(posted')
    <3>1. Range(posted) \subseteq 1..got
      BY <1>4 DEF AnswerFacts
    <3> QED BY <1>2, <1>m, <3>1
  <2>3. mem'[new.m] = new.want
    BY <1>1, <1>2, <1>5, <1>m
  <2>4. Rightly(new.want)'
    BY <1>m DEF Rightly, Loops!AnswerTo, Loops!Arp
  <2> QED BY <2>1, <2>2, <2>3, <2>4 DEF OnItsWay
<1> QED BY <1>2, <1>3, <1>4, <1>5, <1>7, <1>9, <1>10, <1>11

(* Going on in the burst frees mbufs behind the fresh ones. *)
LEMMA AdvanceAnswers ==
  ASSUME LoopTypes, burst # <<>>, NEW q \in Seq(Mbuf), NEW s \in Seq(Mbuf), NEW lost \in Nat,
         Loops!Advance(q, s, lost), NEW g \in 0..NumMbufs, FreshFrom(q, g)
  PROVE  FreshFrom(pool', g) /\ Range(burst') \subseteq Range(burst)
<1>1. burst \in Seq(Mbuf)
  BY DEF LoopTypes
<1>2. CASE i < Len(burst)
  <2>1. burst' = burst /\ Loops!Free(q, s, lost)
    BY <1>2 DEF Loops!Advance
  <2> QED BY <2>1, FreshFree
<1>3. CASE ~(i < Len(burst))
  <2>1. burst' = <<>> /\ Loops!Free(q, IF lesson = 53 THEN s \o burst ELSE s, lost)
    BY <1>3 DEF Loops!Advance
  <2>2. (IF lesson = 53 THEN s \o burst ELSE s) \in Seq(Mbuf)
    BY <1>1, ConcatProperties
  <2> QED BY <2>1, <2>2, FreshFree, RangeEmpty
<1> QED BY <1>2, <1>3

(* What the table learns of a frame of the network is the address and MAC of *)
(* one host.                                                                *)
LEMMA LearnAnswers ==
  ASSUME LoopTypes, NEW f \in Loops!Wire, Loops!Learn(f), \A e \in Range(table) : e.mac = e.ip
  PROVE  \A e \in Range(table') : e.mac = e.ip
<1> DEFINE Entry == [ip : Address, mac : Address]
<1>1. f \in Shape /\ f.smac = f.sip
  BY WireShaped DEF LoopTypes, Loops!Wire, Loops!Frame
<1>2. CASE table' = table
  BY <1>2
<1>3. CASE table' = <<[ip |-> f.sip, mac |-> f.smac]>> \o table
  <2>1. PICK e \in Entry : e = [ip |-> f.sip, mac |-> f.smac]
    BY <1>1 DEF Shape
  <2>2. <<e>> \in Seq(Entry) /\ table \in Seq(Entry) /\ <<>> \in Seq(Entry)
    BY <2>1, EmptySeq DEF LoopTypes
  <2> HIDE DEF Entry
  <2>3. Range(<<e>>) = {e}
    BY RangeOne
  <2>4. Range(<<e>> \o table) = Range(<<e>>) \union Range(table)
    BY <2>2, RangeConcatenation, ZenonT(60)
  <2>5. e.mac = e.ip
    BY <1>1, <2>1
  <2> QED BY <1>3, <2>1, <2>3, <2>4, <2>5
<1> QED BY <1>1, <1>2, <1>3, LearnTypes

(* A frame of the burst is answered. *)
LEMMA HandleAnswers ==
  ASSUME LoopTypes, LoopsAnswer, Loops!Handle
  PROVE  LoopsAnswer'
<1> SUFFICES ASSUME got' <= NumMbufs PROVE AnswerFacts'
  BY DEF LoopsAnswer
<1>1. /\ burst # <<>> /\ i \in 1..Len(burst) /\ burst[i] \in Mbuf /\ Current \in Shape
      /\ Loops!Learn(Current) /\ Doing(Loops!Handled(Current))
      /\ FreedNow \in Seq(Mbuf) /\ LostNow \in {0, 1}
      /\ UNCHANGED <<lesson, posted, filled, inring, heard>>
  BY HandleCases
<1>2. /\ got \in 0..NumMbufs + 1 /\ NumMbufs \in Nat /\ pool \in Seq(Mbuf) /\ lesson \in Lessons
      /\ heard \subseteq Loops!Wire /\ burst \in Seq(Mbuf)
  BY FramesAssumption DEF LoopTypes
<1>3. got <= got' /\ got' \in Nat
  <2>1. CASE UNCHANGED got
    BY <1>2, <2>1
  <2>2. CASE /\ Len(Loops!Handled(Current).out) = 1 /\ pool # <<>>
             /\ Loops!Send(Loops!Handled(Current).out[1])
    <3>1. got' = Loops!Least(got + 1, NumMbufs + 1)
      BY <2>2 DEF Loops!Send, Loops!Taken
    <3> QED BY <1>2, <3>1 DEF Loops!Least
  <2> QED BY <2>1, <2>2, HandleCases
<1>4. AnswerFacts /\ got \in 0..NumMbufs
  BY <1>2, <1>3 DEF LoopsAnswer
<1>5. burst[i] \in Range(burst)
  <2>1. Range(burst) = {burst[k] : k \in 1..Len(burst)}
    BY <1>2, RangeEquality
  <2> QED BY <1>1, <2>1
<1>6. Current \in heard
  BY <1>4, <1>5 DEF AnswerFacts, Current
<1>7. \A e \in Range(table') : e.mac = e.ip
  BY <1>1, <1>2, <1>4, <1>6, LearnAnswers DEF AnswerFacts
<1>8. CASE /\ Len(Loops!Handled(Current).out) = 1 /\ pool # <<>>
           /\ Loops!Send(Loops!Handled(Current).out[1])
           /\ Loops!Advance(Tail(pool), Loops!FreedBySend \o FreedNow, LostNow + Loops!NoRoom)
  <2> DEFINE a == Loops!Handled(Current).out[1]
  <2>1. a \in Shape
    BY <1>1, <1>8 DEF Doing
  <2>2. Rightly(a)
    BY <1>2, <1>6, <1>8, HandledRight DEF Rightly
  <2>3. Loops!Send(a)
    BY <1>8
  <2>4. UNCHANGED <<posted, heard>>
    BY <1>1
  <2> HIDE DEF a
  <2>5. /\ got' = got + 1 /\ FreshFrom(Tail(pool), got')
        /\ \A m \in 1..got : mem'[m] = mem[m]
        /\ \A h \in Range(outring') \union Range(txq') : OnItsWay(h)'
    BY <1>8, <2>1, <2>2, <2>3, <2>4, SendAnswers
  <2>6. /\ Tail(pool) \in Seq(Mbuf) /\ Loops!FreedBySend \in Seq(Mbuf)
        /\ Loops!NoRoom \in {0, 1}
    BY <1>8, <2>1, <2>3, SendTypes
  <2>7. /\ Loops!FreedBySend \o FreedNow \in Seq(Mbuf) /\ LostNow + Loops!NoRoom \in Nat
        /\ got' \in 0..NumMbufs
    BY <1>1, <1>4, <2>5, <2>6, ConcatProperties
  <2>8. FreshFrom(pool', got') /\ Range(burst') \subseteq Range(burst)
    BY <1>1, <1>8, <2>5, <2>6, <2>7, AdvanceAnswers
  <2>9. FreshFrom(pool, got)'
    BY <2>8 DEF FreshFrom
  <2>10. 1..got \subseteq 1..got'
    BY <1>4, <2>5
  <2>11. \A m \in Range(filled') \union Range(inring') \union Range(burst') : mem'[m] \in heard'
    <3>1. \A m \in Range(filled) \union Range(inring) \union Range(burst) : m \in 1..got /\ mem[m] \in heard
      BY <1>4 DEF AnswerFacts
    <3> QED BY <1>1, <2>5, <2>8, <3>1
  <2>12. /\ Range(posted') \subseteq 1..got' /\ Range(filled') \subseteq 1..got'
         /\ Range(inring') \subseteq 1..got' /\ Range(burst') \subseteq 1..got'
    BY <1>1, <1>4, <2>8, <2>10 DEF AnswerFacts
  <2> QED BY <1>7, <2>5, <2>9, <2>11, <2>12 DEF AnswerFacts
<1>9. CASE /\ Loops!Advance(pool, FreedNow, LostNow)
           /\ UNCHANGED <<mem, got, txq, txdone, outring>>
  <2>1. LostNow \in Nat /\ FreshFrom(pool, got)
    BY <1>1, <1>4 DEF AnswerFacts
  <2>2. FreshFrom(pool', got) /\ Range(burst') \subseteq Range(burst)
    BY <1>1, <1>2, <1>4, <1>9, <2>1, AdvanceAnswers
  <2>3. FreshFrom(pool, got)'
    BY <1>9, <2>2 DEF FreshFrom
  <2>4. \A h \in Range(outring') \union Range(txq') : OnItsWay(h)'
    BY <1>1, <1>4, <1>9 DEF AnswerFacts, OnItsWay, Rightly, Loops!AnswerTo, Loops!Arp
  <2> QED BY <1>1, <1>4, <1>7, <1>9, <2>2, <2>3, <2>4 DEF AnswerFacts
<1> QED BY <1>8, <1>9, HandleCases

(* The burst goes to the kernel too. *)
LEMMA KniTxAnswers ==
  ASSUME LoopTypes, LoopsAnswer, Loops!KniTx
  PROVE  LoopsAnswer'
<1> SUFFICES ASSUME got' <= NumMbufs PROVE AnswerFacts'
  BY DEF LoopsAnswer
<1>1. /\ burst # <<>> /\ i \in 1..Len(burst) /\ Loops!Learn(Current) /\ KniLost \in Nat
      /\ Loops!Advance(pool, knifree, KniLost)
      /\ UNCHANGED <<lesson, mem, posted, filled, txq, txdone, inring, outring, got, heard>>
  BY KniTxCases
<1>2. /\ AnswerFacts /\ got \in 0..NumMbufs /\ pool \in Seq(Mbuf) /\ knifree \in Seq(Mbuf)
      /\ heard \subseteq Loops!Wire /\ burst \in Seq(Mbuf)
  BY <1>1, FramesAssumption DEF LoopsAnswer, LoopTypes
<1>3. Current \in heard
  <2>1. Range(burst) = {burst[k] : k \in 1..Len(burst)}
    BY <1>2, RangeEquality
  <2> QED BY <1>1, <1>2, <2>1 DEF AnswerFacts, Current
<1>4. \A e \in Range(table') : e.mac = e.ip
  BY <1>1, <1>2, <1>3, LearnAnswers DEF AnswerFacts
<1>5. FreshFrom(pool', got) /\ Range(burst') \subseteq Range(burst)
  BY <1>1, <1>2, AdvanceAnswers DEF AnswerFacts
<1>6. FreshFrom(pool, got)'
  BY <1>1, <1>5 DEF FreshFrom
<1>7. \A h \in Range(outring') \union Range(txq') : OnItsWay(h)'
  BY <1>1, <1>2 DEF AnswerFacts, OnItsWay, Rightly, Loops!AnswerTo, Loops!Arp
<1> QED BY <1>1, <1>2, <1>4, <1>5, <1>6, <1>7 DEF AnswerFacts

(* A question of the timer is for MAC zero, or for the MAC that was learnt. *)
LEMMA AskRight ==
  ASSUME LoopTypes, AnswerFacts, asks # <<>>
  PROVE  Rightly(Loops!ng_encode_arp_pkt05("arp_req", Loops!ng_get_dst_macaddr(Head(asks)), Head(asks)))
<1> DEFINE ip == Head(asks)
           mac == Loops!ng_get_dst_macaddr(ip)
<1>1. mac = Else \/ mac = ip
  <2> DEFINE k == CHOOSE k \in 1..Len(table) : table[k].ip = ip
  <2>1. CASE \E j \in 1..Len(table) : table[j].ip = ip
    <3>1. k \in 1..Len(table) /\ table[k].ip = ip
      BY <2>1
    <3>2. mac = table[k].mac
      BY <2>1 DEF Loops!ng_get_dst_macaddr
    <3> HIDE DEF k
    <3>3. table[k] \in Range(table)
      <4>1. Range(table) = {table[j] : j \in 1..Len(table)}
        BY RangeEquality DEF LoopTypes
      <4> QED BY <3>1, <4>1
    <3>4. table[k].mac = table[k].ip
      BY <3>3 DEF AnswerFacts
    <3> QED BY <3>1, <3>2, <3>4
  <2>2. CASE ~\E j \in 1..Len(table) : table[j].ip = ip
    BY <2>2 DEF Loops!ng_get_dst_macaddr
  <2> QED BY <2>1, <2>2
<1> HIDE DEF mac, ip
<1>2. Rightly(Loops!ng_encode_arp_pkt05("arp_req", mac, ip))
  BY <1>1 DEF Rightly, Loops!ng_encode_arp_pkt05
<1> QED BY <1>2 DEF mac, ip

(* Asking is sending too. *)
LEMMA AskAnswers ==
  ASSUME LoopTypes, LoopsAnswer, Loops!Ask
  PROVE  LoopsAnswer'
<1> DEFINE f == Loops!ng_encode_arp_pkt05("arp_req", Loops!ng_get_dst_macaddr(Head(asks)), Head(asks))
<1> SUFFICES ASSUME got' <= NumMbufs PROVE AnswerFacts'
  BY DEF LoopsAnswer
<1>1. /\ asks # <<>> /\ pool # <<>> /\ f \in Shape /\ Loops!Send(f)
      /\ Loops!Free(Tail(pool), Loops!FreedBySend, Loops!NoRoom)
      /\ UNCHANGED <<posted, filled, inring, burst, table, heard>>
  BY AskCases
<1>2. got <= NumMbufs
  <2>1. got' = Loops!Least(got + 1, NumMbufs + 1) /\ got \in 0..NumMbufs + 1
    BY <1>1 DEF Loops!Send, Loops!Taken, LoopTypes
  <2> QED BY <2>1, FramesAssumption DEF Loops!Least
<1>3. Rightly(f)
  BY <1>1, <1>2, AskRight DEF LoopsAnswer
<1> HIDE DEF f
<1>4. /\ AnswerFacts /\ got \in Nat /\ got' = got + 1 /\ FreshFrom(Tail(pool), got')
      /\ \A m \in 1..got : mem'[m] = mem[m]
      /\ \A h \in Range(outring') \union Range(txq') : OnItsWay(h)'
  BY <1>1, <1>3, SendAnswers
<1>5. /\ Tail(pool) \in Seq(Mbuf) /\ Loops!FreedBySend \in Seq(Mbuf)
      /\ Loops!NoRoom \in {0, 1}
  BY <1>1, SendTypes
<1>6. Loops!NoRoom \in Nat /\ got' \in 0..NumMbufs
  BY <1>4, <1>5, FramesAssumption
<1>7. FreshFrom(pool', got')
  BY <1>1, <1>4, <1>5, <1>6, FreshFree
<1>8. FreshFrom(pool, got)'
  BY <1>7 DEF FreshFrom
<1>9. 1..got \subseteq 1..got'
  BY <1>4
<1>10. \A m \in Range(filled') \union Range(inring') \union Range(burst') : mem'[m] \in heard'
  <2>1. \A m \in Range(filled) \union Range(inring) \union Range(burst) : m \in 1..got /\ mem[m] \in heard
    BY <1>4 DEF AnswerFacts
  <2> QED BY <1>1, <1>4, <2>1
<1> QED BY <1>1, <1>4, <1>8, <1>9, <1>10 DEF AnswerFacts

(* What the card sends now is right, and what waits stays so. *)
LEMMA CardSendsAnswers ==
  ASSUME LoopTypes, LoopsAnswer, Loops!CardSends
  PROVE  LoopsAnswer' /\ Loops!AnswersRight'
<1>1. /\ txq # <<>> /\ txq' = Tail(txq)
      /\ last' = [sent |-> mem[Head(txq).m], want |-> Head(txq).want, first |-> got <= NumMbufs]
      /\ UNCHANGED <<mem, pool, posted, filled, inring, outring, burst, table, got, heard>>
  BY DEF Loops!CardSends, Loops!rings
<1>2. Range(txq) = Range(txq') \union {Head(txq)}
  BY <1>1, RangeTail DEF LoopTypes
<1>3. got <= NumMbufs => OnItsWay(Head(txq))
  BY <1>2 DEF LoopsAnswer, AnswerFacts
<1>4. Loops!AnswersRight'
  <2>1. last'.first = (got <= NumMbufs) /\ last'.sent = mem[Head(txq).m] /\ last'.want = Head(txq).want
    BY <1>1
  <2> SUFFICES ASSUME got <= NumMbufs
               PROVE  /\ last'.sent = last'.want
                      /\ \/ \E f \in heard' : Loops!AnswerTo(f, last'.sent)
                         \/ last'.sent.type = "arp_req" /\ last'.sent.sip = Me
                            /\ last'.sent.dmac \in {Zero, last'.sent.dip}
    BY <2>1 DEF Loops!AnswersRight, Loops!AnswerTo, Loops!Arp
  <2> QED BY <1>1, <1>3, <2>1 DEF OnItsWay, Rightly
<1>5. LoopsAnswer'
  BY <1>1, <1>2 DEF LoopsAnswer, AnswerFacts, FreshFrom, OnItsWay, Rightly, Loops!AnswerTo, Loops!Arp
<1> QED BY <1>4, <1>5

(* The other steps touch none of it. *)
LEMMA RestAnswers ==
  ASSUME LoopTypes, LoopsAnswer,
         Loops!KernelTakes \/ Loops!TimerExpires \/ Loops!HandleFails \/ Loops!AskFails
  PROVE  LoopsAnswer'
<1>1. UNCHANGED <<mem, pool, posted, filled, txq, inring, outring, burst, table, got, heard>>
  <2>1. CASE Loops!KernelTakes
    BY <2>1 DEF Loops!KernelTakes, Loops!card, Loops!rings, Loops!history
  <2>2. CASE Loops!TimerExpires \/ Loops!HandleFails \/ Loops!AskFails
    BY <2>2, TimerTypes
  <2> QED BY <2>1, <2>2
<1> QED BY <1>1 DEF LoopsAnswer, AnswerFacts, FreshFrom, OnItsWay, Rightly, Loops!AnswerTo, Loops!Arp

(* Until something else is sent, what was sent stays right. *)
LEMMA LastKept ==
  ASSUME Loops!AnswersRight, Loops!Next, ~Loops!CardSends
  PROVE  Loops!AnswersRight'
<1>1. last' = last /\ heard \subseteq heard'
  BY DEF Loops!Next, Loops!Arrive, Loops!PollAndHandle, Loops!PollToRing, Loops!SendFromRing,
         Loops!Dequeue, Loops!Handle, Loops!HandleFails, Loops!KniTx, Loops!TimerExpires, Loops!Ask,
         Loops!AskFails, Loops!KernelTakes, Loops!rte_exit, Loops!history
<1> QED BY <1>1 DEF Loops!AnswersRight, Loops!AnswerTo, Loops!Arp

(* A step of any program keeps the types and the answers on their way right. *)
LEMMA AnswersKept ==
  ASSUME LoopTypes, LoopsAnswer, [Next]_vars
  PROVE  LoopTypes' /\ LoopsAnswer'
<1>1. CASE UNCHANGED framesVars
  <2>1. LoopTypes'
    <3>1. UNCHANGED <<lesson, mem, pool, posted, filled, txq, txdone, inring, outring, burst, i,
                      asks, table, kni, knifree, got, forgot, heard>>
      BY <1>1 DEF framesVars
    <3>2. Loops!Wire' = Loops!Wire
      BY <3>1 DEF Loops!Wire, Loops!FrameTypes, Loops!WithKni, Loops!Frame, Loops!Arp
    <3> QED BY <3>1, <3>2 DEF LoopTypes
  <2>2. LoopsAnswer'
    BY <1>1 DEF framesVars, LoopsAnswer, AnswerFacts, FreshFrom, OnItsWay, Rightly,
                Loops!AnswerTo, Loops!Arp
  <2> QED BY <2>1, <2>2
<1>2. CASE Loops!Next
  <2>1. LoopTypes'
    BY <1>2, LoopTypesKept
  <2>2. LoopsAnswer'
    BY <1>2, ArriveAnswers, PollAndHandleAnswers, PollToRingAnswers, SendFromRingAnswers,
       DequeueAnswers, HandleAnswers, KniTxAnswers, AskAnswers, CardSendsAnswers, RestAnswers
    DEF Loops!Next
  <2> QED BY <2>1, <2>2
<1> QED BY <1>1, <1>2, StepOfLoops

(* Until the pool has been gone through once, what leaves the card is the   *)
(* answer as it was encoded, to a frame received, or a question of the ARP  *)
(* timer: for every program, any pool, rings of any size, any hosts.        *)
THEOREM EveryAnswerRight == Spec => []AnswersRight
<1> DEFINE I == LoopTypes /\ LoopsAnswer /\ Loops!AnswersRight
<1>1. Init => I
  BY LoopsStart, AnswerStart DEF Init
<1>2. I /\ [Next]_vars => I'
  <2> SUFFICES ASSUME I, [Next]_vars PROVE I'
    OBVIOUS
  <2>1. LoopTypes' /\ LoopsAnswer'
    BY AnswersKept
  <2>2. CASE UNCHANGED framesVars
    <3>1. Loops!AnswersRight'
      BY <2>2 DEF framesVars, Loops!AnswersRight, Loops!AnswerTo, Loops!Arp
    <3> QED BY <2>1, <3>1
  <2>3. CASE Loops!Next
    <3>1. Loops!AnswersRight'
      BY <2>3, LastKept, CardSendsAnswers
    <3> QED BY <2>1, <3>1
  <2> QED BY <2>2, <2>3, StepOfLoops
<1>3. I => AnswersRight
  BY DEF AnswersRight
<1> QED BY <1>1, <1>2, <1>3, PTL DEF Spec

-----------------------------------------------------------------------------
(* What is lost of the pool. *)

\* Everything that is somewhere.
SentIn(s) == {h.m : h \in Range(s)}
Reached ==
  Range(pool) \union Range(posted) \union Range(filled) \union Range(inring) \union SentIn(outring)
    \union Range(Loops!InHand) \union Range(kni) \union Range(knifree) \union SentIn(txq)
    \union Range(txdone)

(* Numbers of places in a queue. *)
LEMMA HoldsZero ==
  ASSUME NEW S, NEW s \in Seq(S), NEW m
  PROVE  Loops!Holds(s, m) \in Nat /\ (Loops!Holds(s, m) = 0 <=> m \notin Range(s))
<1> DEFINE P == {k \in 1..Len(s) : s[k] = m}
<1>1. Len(s) \in Nat /\ Range(s) = {s[k] : k \in 1..Len(s)}
  BY LenProperties, RangeEquality
<1>2. IsFiniteSet(1..Len(s))
  BY <1>1, FS_Interval
<1>3. IsFiniteSet(P)
  BY <1>2, FS_Subset
<1>4. Cardinality(P) \in Nat /\ (Cardinality(P) = 0 <=> P = {})
  BY <1>3, FS_CardinalityType, FS_EmptySet
<1>5. Loops!Holds(s, m) = Cardinality(P)
  BY LoopsCardinality DEF Loops!Holds
<1>6. P = {} <=> m \notin Range(s)
  BY <1>1
<1> QED BY <1>4, <1>5, <1>6

(* So for the answers of a ring or queue. *)
LEMMA HoldsSentZero ==
  ASSUME NEW s \in Seq(Handover), NEW m
  PROVE  Loops!HoldsSent(s, m) \in Nat /\ (Loops!HoldsSent(s, m) = 0 <=> m \notin SentIn(s))
<1> DEFINE P == {k \in 1..Len(s) : s[k].m = m}
<1>1. Len(s) \in Nat /\ Range(s) = {s[k] : k \in 1..Len(s)}
  BY LenProperties, RangeEquality
<1>2. IsFiniteSet(1..Len(s))
  BY <1>1, FS_Interval
<1>3. IsFiniteSet(P)
  BY <1>2, FS_Subset
<1>4. Cardinality(P) \in Nat /\ (Cardinality(P) = 0 <=> P = {})
  BY <1>3, FS_CardinalityType, FS_EmptySet
<1>5. Loops!HoldsSent(s, m) = Cardinality(P)
  BY LoopsCardinality DEF Loops!HoldsSent
<1>6. P = {} <=> m \notin SentIn(s)
  BY <1>1 DEF SentIn
<1> QED BY <1>4, <1>5, <1>6

(* The frames still in hand are a queue too. *)
LEMMA InHandSeq ==
  ASSUME LoopTypes
  PROVE  /\ Loops!InHand \in Seq(Mbuf)
         /\ burst = <<>> => Loops!InHand = <<>>
         /\ Range(Loops!InHand) \subseteq Range(burst)
<1>1. CASE lesson = 53 \/ burst = <<>>
  BY <1>1 DEF Loops!InHand, LoopTypes
<1>2. CASE ~(lesson = 53 \/ burst = <<>>)
  <2>1. i \in 1..Len(burst) /\ burst \in Seq(Mbuf) /\ Len(burst) \in Nat
    BY <1>2, LenProperties DEF LoopTypes
  <2>2. i - 1 \in 0..Len(burst) /\ (i - 1) + 1 = i
    BY <2>1
  <2>3. Loops!InHand = SubSeq(burst, (i - 1) + 1, Len(burst))
    BY <1>2, <2>2 DEF Loops!InHand
  <2>4. Loops!InHand \in Seq(Mbuf)
    BY <2>1, <2>2, <2>3, Split
  <2>5. Range(Loops!InHand) \subseteq Range(burst)
    <3>1. Range(burst) = Range(SubSeq(burst, 1, i - 1))
                           \union Range(SubSeq(burst, (i - 1) + 1, Len(burst)))
      BY <2>1, <2>2, RangeSplit
    <3> QED BY <2>3, <3>1
  <2> QED BY <1>2, <2>4, <2>5
<1> QED BY <1>1, <1>2

(* What is lost is what is nowhere. *)
LEMMA LostIsUnreached ==
  ASSUME LoopTypes
  PROVE  Loops!Lost = Mbuf \ Reached
<1> SUFFICES ASSUME NEW m \in Mbuf PROVE m \in Loops!Lost <=> m \notin Reached
  BY DEF Loops!Lost, Mbuf, Loops!Mbufs
<1>1. /\ Loops!Holds(posted, m) \in Nat /\ (Loops!Holds(posted, m) = 0 <=> m \notin Range(posted))
      /\ Loops!Holds(filled, m) \in Nat /\ (Loops!Holds(filled, m) = 0 <=> m \notin Range(filled))
  BY HoldsZero DEF LoopTypes
<1>2. /\ Loops!Holds(inring, m) \in Nat /\ (Loops!Holds(inring, m) = 0 <=> m \notin Range(inring))
      /\ Loops!HoldsSent(outring, m) \in Nat
      /\ (Loops!HoldsSent(outring, m) = 0 <=> m \notin SentIn(outring))
  BY HoldsZero, HoldsSentZero DEF LoopTypes
<1>3. /\ Loops!Holds(Loops!InHand, m) \in Nat
      /\ (Loops!Holds(Loops!InHand, m) = 0 <=> m \notin Range(Loops!InHand))
  BY HoldsZero, InHandSeq
<1>4. /\ Loops!Holds(kni, m) \in Nat /\ (Loops!Holds(kni, m) = 0 <=> m \notin Range(kni))
      /\ Loops!Holds(knifree, m) \in Nat /\ (Loops!Holds(knifree, m) = 0 <=> m \notin Range(knifree))
  BY HoldsZero DEF LoopTypes
<1>5. /\ Loops!Holds(pool, m) = 0 <=> m \notin Range(pool)
      /\ Loops!Holds(txdone, m) = 0 <=> m \notin Range(txdone)
      /\ Loops!HoldsSent(txq, m) = 0 <=> m \notin SentIn(txq)
  BY HoldsZero, HoldsSentZero DEF LoopTypes
<1>7. Loops!Users(m) = 0 <=>
        /\ m \notin Range(posted) /\ m \notin Range(filled) /\ m \notin Range(inring)
        /\ m \notin SentIn(outring) /\ m \notin Range(Loops!InHand) /\ m \notin Range(kni)
        /\ m \notin Range(knifree)
  <2> DEFINE a == Loops!Holds(posted, m)
             b == Loops!Holds(filled, m)
             c == Loops!Holds(inring, m)
             d == Loops!HoldsSent(outring, m)
             e == Loops!Holds(Loops!InHand, m)
             f == Loops!Holds(kni, m)
             g == Loops!Holds(knifree, m)
  <2>1. Loops!Users(m) = a + b + c + d + e + f + g
    BY DEF Loops!Users
  <2>2. a \in Nat /\ b \in Nat /\ c \in Nat /\ d \in Nat /\ e \in Nat /\ f \in Nat /\ g \in Nat
    BY <1>1, <1>2, <1>3, <1>4
  <2>3. /\ (a = 0 <=> m \notin Range(posted)) /\ (b = 0 <=> m \notin Range(filled))
        /\ (c = 0 <=> m \notin Range(inring)) /\ (d = 0 <=> m \notin SentIn(outring))
        /\ (e = 0 <=> m \notin Range(Loops!InHand))
        /\ (f = 0 <=> m \notin Range(kni)) /\ (g = 0 <=> m \notin Range(knifree))
    BY <1>1, <1>2, <1>3, <1>4
  <2> HIDE DEF a, b, c, d, e, f, g
  <2>4. a + b + c + d + e + f + g = 0
          <=> a = 0 /\ b = 0 /\ c = 0 /\ d = 0 /\ e = 0 /\ f = 0 /\ g = 0
    BY <2>2
  <2> QED BY <2>1, <2>3, <2>4
<1> QED BY <1>5, <1>7 DEF Loops!Lost, Reached, Mbuf, Loops!Mbufs

(* A set grows by no more than what is added. *)
LEMMA GrowsBy ==
  ASSUME NEW A \in SUBSET Mbuf, NEW B \in SUBSET Mbuf, NEW X, IsFiniteSet(X), NEW num \in Nat,
         NEW d \in Nat, Cardinality(B) <= num, Cardinality(X) <= d, A \subseteq B \union X
  PROVE  Cardinality(A) <= num + d
<1>1. IsFiniteSet(Mbuf)
  BY FS_Interval, FramesAssumption DEF Mbuf
<1>2. IsFiniteSet(B) /\ Cardinality(B) \in Nat /\ Cardinality(X) \in Nat
  BY <1>1, FS_Subset, FS_CardinalityType
<1>3. IsFiniteSet(B \union X) /\ IsFiniteSet(B \cap X)
  BY <1>2, FS_Union, FS_Subset
<1>4. Cardinality(B \union X) = Cardinality(B) + Cardinality(X) - Cardinality(B \cap X)
  BY <1>2, FS_Union
<1>5. Cardinality(A) <= Cardinality(B \union X) /\ Cardinality(A) \in Nat /\ Cardinality(B \cap X) \in Nat
      /\ Cardinality(B \union X) \in Nat
  BY <1>3, FS_Subset, FS_CardinalityType
<1> QED BY <1>2, <1>4, <1>5

(* A queue has no more mbufs in it than its length. *)
LEMMA RangeCount ==
  ASSUME NEW S, NEW s \in Seq(S)
  PROVE  IsFiniteSet(Range(s)) /\ Cardinality(Range(s)) \in Nat /\ Cardinality(Range(s)) <= Len(s)
<1>1. Len(s) \in Nat /\ s \in [1..Len(s) -> S] /\ DOMAIN s = 1..Len(s)
  BY LenProperties
<1>2. s \in Surjection(1..Len(s), Range(s))
  BY <1>1 DEF Surjection, Range
<1>3. IsFiniteSet(1..Len(s)) /\ Cardinality(1..Len(s)) = Len(s)
  <2>1. Cardinality(1..Len(s)) = IF 1 > Len(s) THEN 0 ELSE Len(s) - 1 + 1
    BY <1>1, FS_Interval, SMTT(30)
  <2> QED BY <1>1, <2>1, FS_Interval, SMTT(30)
<1> QED BY <1>2, <1>3, FS_Surjection, FS_CardinalityType

\* No more mbufs are lost than were forgotten or refused.
LostBound == Cardinality(Mbuf \ Reached) <= forgot

(* A step that leaves everything reachable but d mbufs counts them. *)
LEMMA LostStep ==
  ASSUME LostBound, forgot \in Nat, NEW X, IsFiniteSet(X), NEW d \in Nat, Cardinality(X) <= d,
         Reached \subseteq Reached' \union X, forgot' = forgot + d
  PROVE  LostBound'
<1>1. Mbuf \ Reached' \subseteq (Mbuf \ Reached) \union X
  OBVIOUS
<1>2. Cardinality(Mbuf \ Reached') <= forgot + d
  <2>1. Mbuf \ Reached' \in SUBSET Mbuf /\ Mbuf \ Reached \in SUBSET Mbuf
    OBVIOUS
  <2>2. Cardinality(Mbuf \ Reached) <= forgot
    BY DEF LostBound
  <2> QED BY <1>1, <2>1, <2>2, GrowsBy
<1> QED BY <1>2 DEF LostBound

\* What the pool refuses of what is freed.
Refused(q, s) == Range(SubSeq(q \o s, Len(Loops!Put(q, s)) + 1, Len(q \o s)))
Over(q, s) == Len(q \o s) - Len(Loops!Put(q, s))

(* What was in the pool or is freed is in the pool or refused. *)
LEMMA FreeCover ==
  ASSUME NEW q \in Seq(Mbuf), NEW s \in Seq(Mbuf), NEW lost \in Nat, Loops!Free(q, s, lost)
  PROVE  /\ Range(q) \union Range(s) \subseteq Range(pool') \union Refused(q, s)
         /\ IsFiniteSet(Refused(q, s)) /\ Cardinality(Refused(q, s)) \in Nat
         /\ Over(q, s) \in Nat /\ Cardinality(Refused(q, s)) <= Over(q, s)
         /\ forgot' = forgot + lost + Over(q, s)
<1> DEFINE k == Loops!Least(NumMbufs, Len(q \o s))
           t == q \o s
           r == SubSeq(t, k + 1, Len(t))
<1>1. /\ t \in Seq(Mbuf) /\ k \in 0..Len(t)
      /\ Loops!Put(q, s) = SubSeq(t, 1, k) /\ Len(Loops!Put(q, s)) = k
  BY PutFits
<1>2. pool' = Loops!Put(q, s) /\ forgot' = forgot + lost + Over(q, s)
  BY DEF Loops!Free, Over
<1>3. Refused(q, s) = Range(r) /\ Over(q, s) = Len(t) - k
  BY <1>1 DEF Refused, Over
<1>4. Range(t) = Range(q) \union Range(s)
  BY RangeConcatenation
<1> HIDE DEF k, t
<1>5. r \in Seq(Mbuf) /\ Len(r) = Len(t) - k
  BY <1>1, Split
<1>6. Range(t) = Range(SubSeq(t, 1, k)) \union Range(r)
  BY <1>1, RangeSplit
<1>7. IsFiniteSet(Range(r)) /\ Cardinality(Range(r)) \in Nat /\ Cardinality(Range(r)) <= Len(r)
  BY <1>5, RangeCount
<1>8. Len(t) - k \in Nat
  BY <1>1, LenProperties
<1> QED BY <1>1, <1>2, <1>3, <1>4, <1>5, <1>6, <1>7, <1>8

(* What is left of a burst. *)
LEMMA HandRange ==
  ASSUME NEW b \in Seq(Mbuf), NEW k \in 1..Len(b)
  PROVE  Range(SubSeq(b, k, Len(b))) = {b[j] : j \in k..Len(b)}
<1> DEFINE s == SubSeq(b, (k - 1) + 1, Len(b))
<1>1. Len(b) \in Nat /\ k - 1 \in 0..Len(b) /\ (k - 1) + 1 = k
  BY LenProperties
<1>2. /\ s \in Seq(Mbuf) /\ Len(s) = Len(b) - (k - 1)
      /\ \A j \in 1..Len(b) - (k - 1) : s[j] = b[(k - 1) + j]
  BY <1>1, Split
<1>3. Range(s) = {s[j] : j \in 1..Len(s)}
  BY <1>2, RangeEquality
<1> HIDE DEF s
<1>4. ASSUME NEW j \in k..Len(b) PROVE b[j] \in Range(s)
  <2>1. j - (k - 1) \in 1..Len(s) /\ (k - 1) + (j - (k - 1)) = j
    BY <1>1, <1>2, SMTT(30)
  <2> QED BY <1>2, <1>3, <2>1
<1>5. ASSUME NEW j \in 1..Len(s) PROVE s[j] \in {b[n1] : n1 \in k..Len(b)}
  <2>1. (k - 1) + j \in k..Len(b) /\ s[j] = b[(k - 1) + j]
    BY <1>1, <1>2
  <2> QED BY <2>1
<1>6. Range(s) = {b[j] : j \in k..Len(b)}
  BY <1>3, <1>4, <1>5
<1> QED BY <1>1, <1>6 DEF s

\* What is freed with a step of the burst loop.
GoneWith(s) == IF lesson = 53 /\ ~(i < Len(burst)) THEN s \o burst ELSE s

(* The burst loop drops the frame it was at, the DNS server nothing. *)
LEMMA AdvanceCover ==
  ASSUME LoopTypes, burst # <<>>, NEW q \in Seq(Mbuf), NEW s \in Seq(Mbuf), NEW lost \in Nat,
         Loops!Advance(q, s, lost), lesson' = lesson
  PROVE  /\ Range(q) \union Range(s) \subseteq Range(pool') \union Refused(q, GoneWith(s))
         /\ Range(Loops!InHand) \subseteq Range(Loops!InHand') \union Range(pool')
                       \union Refused(q, GoneWith(s)) \union (IF lesson = 53 THEN {} ELSE {burst[i]})
         /\ IsFiniteSet(Refused(q, GoneWith(s)))
         /\ Cardinality(Refused(q, GoneWith(s))) \in Nat /\ Over(q, GoneWith(s)) \in Nat
         /\ Cardinality(Refused(q, GoneWith(s))) <= Over(q, GoneWith(s))
         /\ forgot' = forgot + lost + Over(q, GoneWith(s))
<1>1. burst \in Seq(Mbuf) /\ i \in 1..Len(burst) /\ Len(burst) \in Nat
  BY LenProperties DEF LoopTypes
<1>2. GoneWith(s) \in Seq(Mbuf) /\ Range(s) \subseteq Range(GoneWith(s))
  <2>1. s \o burst \in Seq(Mbuf) /\ Range(s \o burst) = Range(s) \union Range(burst)
    BY <1>1, ConcatProperties, RangeConcatenation
  <2> QED BY <2>1 DEF GoneWith
<1>3. Loops!Free(q, GoneWith(s), lost)
  BY DEF Loops!Advance, GoneWith
<1>4. /\ Range(q) \union Range(GoneWith(s)) \subseteq Range(pool') \union Refused(q, GoneWith(s))
      /\ IsFiniteSet(Refused(q, GoneWith(s))) /\ Cardinality(Refused(q, GoneWith(s))) \in Nat
      /\ Over(q, GoneWith(s)) \in Nat /\ Cardinality(Refused(q, GoneWith(s))) <= Over(q, GoneWith(s))
      /\ forgot' = forgot + lost + Over(q, GoneWith(s))
  BY <1>2, <1>3, FreeCover
<1>5. Range(Loops!InHand) \subseteq Range(Loops!InHand') \union Range(pool')
                       \union Refused(q, GoneWith(s)) \union (IF lesson = 53 THEN {} ELSE {burst[i]})
  <2>1. CASE lesson = 53 /\ i < Len(burst)
    <3>1. burst' = burst
      BY <2>1 DEF Loops!Advance
    <3>2. Loops!InHand = burst /\ Loops!InHand' = burst
      BY <2>1, <3>1 DEF Loops!InHand
    <3> QED BY <3>2
  <2>2. CASE lesson = 53 /\ ~(i < Len(burst))
    <3>1. Range(s \o burst) = Range(s) \union Range(burst)
      BY <1>1, RangeConcatenation
    <3>2. GoneWith(s) = s \o burst /\ Loops!InHand = burst
      BY <2>2 DEF GoneWith, Loops!InHand
    <3> QED BY <1>4, <3>1, <3>2
  <2>3. CASE lesson # 53
    <3>1. Loops!InHand = SubSeq(burst, i, Len(burst))
      BY <2>3 DEF Loops!InHand
    <3>2. Range(Loops!InHand) = {burst[j] : j \in i..Len(burst)}
      BY <1>1, <3>1, HandRange
    <3>3. CASE i < Len(burst)
      <4>1. burst' = burst /\ i' = i + 1
        BY <3>3 DEF Loops!Advance
      <4>2. Loops!InHand' = SubSeq(burst, i + 1, Len(burst))
        BY <2>3, <4>1 DEF Loops!InHand
      <4>3. i + 1 \in 1..Len(burst)
        BY <1>1, <3>3
      <4>4. Range(Loops!InHand') = {burst[j] : j \in i + 1..Len(burst)}
        BY <1>1, <4>2, <4>3, HandRange
      <4>5. \A j \in i..Len(burst) : j = i \/ j \in i + 1..Len(burst)
        BY <1>1
      <4> QED BY <2>3, <3>2, <4>4, <4>5
    <3>4. CASE ~(i < Len(burst))
      <4>1. \A j \in i..Len(burst) : j = i
        BY <1>1, <3>4
      <4> QED BY <2>3, <3>2, <4>1
    <3> QED BY <3>3, <3>4
  <2> QED BY <2>1, <2>2, <2>3
<1> QED BY <1>2, <1>4, <1>5

(* The mbufs of answers in a queue. *)
LEMMA SentInRing ==
  ASSUME NEW s \in Seq(Handover)
  PROVE  Range(MbufsOf(s)) = SentIn(s)
<1>1. /\ MbufsOf(s) \in Seq(Mbuf) /\ Len(MbufsOf(s)) = Len(s) /\ Len(s) \in Nat
      /\ \A k \in 1..Len(s) : MbufsOf(s)[k] = s[k].m
  BY MbufsOfSeq
<1>2. Range(MbufsOf(s)) = {MbufsOf(s)[k] : k \in 1..Len(s)} /\ Range(s) = {s[k] : k \in 1..Len(s)}
  BY <1>1, RangeEquality
<1> QED BY <1>1, <1>2 DEF SentIn

(* A step in which nothing is lost. *)
LEMMA NothingLost ==
  ASSUME LostBound, forgot \in Nat, Reached \subseteq Reached', forgot' = forgot
  PROVE  LostBound'
<1>1. IsFiniteSet({}) /\ Cardinality({}) <= 0 /\ 0 \in Nat
  BY FS_EmptySet
<1>2. Reached \subseteq Reached' \union {} /\ forgot' = forgot + 0
  OBVIOUS
<1> QED BY <1>1, <1>2, LostStep

(* A frame goes from one queue of the card to the next. *)
LEMMA ArriveLost ==
  ASSUME LoopTypes, LostBound, NEW f \in Loops!Wire, Loops!Arrive(f)
  PROVE  LostBound'
<1>1. /\ posted # <<>> /\ filled' = Append(filled, Head(posted)) /\ posted' = Tail(posted)
      /\ UNCHANGED <<lesson, pool, txq, txdone, inring, outring, burst, i, kni, knifree, forgot>>
  BY DEF Loops!Arrive, Loops!rings, Loops!kernel
<1>2. Head(posted) \in Mbuf
  BY <1>1, HeadTailProperties DEF LoopTypes
<1>3. Range(posted) = Range(posted') \union {Head(posted)}
  BY <1>1, RangeTail DEF LoopTypes
<1>4. Range(filled') = Range(filled) \union {Head(posted)}
  BY <1>1, <1>2, RangeAppend, SMTT(30) DEF LoopTypes
<1>5. Loops!InHand' = Loops!InHand
  BY <1>1 DEF Loops!InHand
<1>6. Reached \subseteq Reached'
  BY <1>1, <1>3, <1>4, <1>5 DEF Reached, SentIn
<1> QED BY <1>1, <1>6, NothingLost DEF LoopTypes

(* What the driver takes goes to the card, what it hands over is in a burst. *)
LEMMA RxBurstLost ==
  ASSUME LoopTypes, Loops!rx_burst
  PROVE  /\ Range(pool) \subseteq Range(pool') \union Range(posted')
         /\ Range(posted) \subseteq Range(posted')
         /\ Range(filled) = Range(SubSeq(filled, 1, Loops!Polled)) \union Range(filled')
<1>1. /\ Loops!Polled \in 0..Len(filled) /\ Loops!Polled \in 0..Len(pool)
      /\ filled' = SubSeq(filled, Loops!Polled + 1, Len(filled))
      /\ posted' = posted \o SubSeq(pool, 1, Loops!Polled)
      /\ pool' = SubSeq(pool, Loops!Polled + 1, Len(pool))
      /\ SubSeq(pool, 1, Loops!Polled) \in Seq(Mbuf)
  BY RxBurst
<1>2. posted \in Seq(Mbuf) /\ pool \in Seq(Mbuf) /\ filled \in Seq(Mbuf)
  BY DEF LoopTypes
<1>3. Range(posted') = Range(posted) \union Range(SubSeq(pool, 1, Loops!Polled))
  BY <1>1, <1>2, RangeConcatenation, ZenonT(60)
<1>4. Range(pool) = Range(SubSeq(pool, 1, Loops!Polled)) \union Range(pool')
  BY <1>1, <1>2, RangeSplit
<1>5. Range(filled) = Range(SubSeq(filled, 1, Loops!Polled)) \union Range(filled')
  BY <1>1, <1>2, RangeSplit
<1> QED BY <1>3, <1>4, <1>5

(* Frames that are read from the card and handled in the same pass. *)
LEMMA PollAndHandleLost ==
  ASSUME LoopTypes, LostBound, Loops!PollAndHandle
  PROVE  LostBound'
<1>1. /\ Loops!rx_burst /\ burst = <<>> /\ burst' = SubSeq(filled, 1, Loops!Polled) /\ i' = 1
      /\ UNCHANGED <<lesson, txq, txdone, inring, outring, kni, knifree, forgot>>
  BY DEF Loops!PollAndHandle, Loops!rings, Loops!kernel, Loops!history
<1>2. /\ Range(pool) \subseteq Range(pool') \union Range(posted')
      /\ Range(posted) \subseteq Range(posted')
      /\ Range(filled) = Range(burst') \union Range(filled')
  BY <1>1, RxBurstLost
<1>3. burst' \in Seq(Mbuf)
  BY <1>1, RxBurst
<1>4. Loops!InHand = <<>> /\ Loops!InHand' = burst'
  <2>1. SubSeq(burst', 1, Len(burst')) = burst'
    BY <1>3, SubSeqFull
  <2> QED BY <1>1, <2>1 DEF Loops!InHand
<1>5. Reached \subseteq Reached'
  BY <1>1, <1>2, <1>4, RangeEmpty DEF Reached, SentIn
<1> QED BY <1>1, <1>5, NothingLost DEF LoopTypes

(* What the in ring has no room for is lost, and counted. *)
LEMMA PollToRingLost ==
  ASSUME LoopTypes, LostBound, Loops!PollToRing
  PROVE  LostBound'
<1> DEFINE room == Loops!Least(RingSize - Len(inring), Loops!Polled)
           P == Loops!Polled
           b == SubSeq(filled, 1, P)
           r == SubSeq(b, room + 1, Len(b))
<1>1. /\ Loops!rx_burst /\ inring' = inring \o SubSeq(filled, 1, room)
      /\ forgot' = forgot + (P - room)
      /\ UNCHANGED <<lesson, txq, txdone, outring, burst, i, kni, knifree>>
  BY DEF Loops!PollToRing, Loops!kernel, Loops!history
<1>2. /\ Range(pool) \subseteq Range(pool') \union Range(posted')
      /\ Range(posted) \subseteq Range(posted')
      /\ Range(filled) = Range(b) \union Range(filled')
  BY <1>1, RxBurstLost
<1>3. /\ room \in 0..P /\ P \in 0..Len(filled) /\ Len(filled) \in Nat
      /\ filled \in Seq(Mbuf) /\ inring \in Seq(Mbuf)
  BY <1>1, PollToRingTypes, RxBurst, LenProperties DEF LoopTypes
<1> HIDE DEF room, P
<1>4. b \in Seq(Mbuf) /\ Len(b) = P /\ \A j \in 1..P : b[j] = filled[j]
  BY <1>3, Split
<1>5. /\ SubSeq(filled, 1, room) \in Seq(Mbuf) /\ Len(SubSeq(filled, 1, room)) = room
      /\ \A j \in 1..room : SubSeq(filled, 1, room)[j] = filled[j]
  <2>1. room \in 0..Len(filled)
    BY <1>3
  <2> QED BY <1>3, <2>1, Split
<1> HIDE DEF b
<1>6. /\ SubSeq(b, 1, room) \in Seq(Mbuf) /\ Len(SubSeq(b, 1, room)) = room
      /\ \A j \in 1..room : SubSeq(b, 1, room)[j] = b[j]
      /\ r \in Seq(Mbuf) /\ Len(r) = P - room
  BY <1>3, <1>4, Split
<1>7. SubSeq(b, 1, room) = SubSeq(filled, 1, room)
  <2>1. \A j \in 1..room : SubSeq(b, 1, room)[j] = SubSeq(filled, 1, room)[j]
    BY <1>3, <1>4, <1>5, <1>6
  <2> QED BY <1>5, <1>6, <2>1, SeqEqual
<1>8. Range(b) = Range(SubSeq(filled, 1, room)) \union Range(r)
  BY <1>3, <1>4, <1>7, RangeSplit
<1>9. Range(inring') = Range(inring) \union Range(SubSeq(filled, 1, room))
  BY <1>1, <1>3, <1>5, RangeConcatenation, ZenonT(60)
<1>10. IsFiniteSet(Range(r)) /\ Cardinality(Range(r)) <= P - room
  BY <1>6, RangeCount
<1>11. Loops!InHand' = Loops!InHand
  BY <1>1 DEF Loops!InHand
<1>12. Reached \subseteq Reached' \union Range(r)
  BY <1>1, <1>2, <1>8, <1>9, <1>11 DEF Reached, SentIn
<1>13. P - room \in Nat
  BY <1>3
<1> QED BY <1>1, <1>10, <1>12, <1>13, LostStep DEF LoopTypes

(* The out ring's mbufs go to the card and to the pool. *)
LEMMA SendFromRingLost ==
  ASSUME LoopTypes, LostBound, Loops!SendFromRing
  PROVE  LostBound'
<1>1. /\ txq' = txq \o outring /\ outring' = <<>>
      /\ IF outring = <<>> THEN UNCHANGED <<pool, forgot, txdone>>
         ELSE Loops!Free(pool, txdone \o MbufsOf(outring), 0) /\ txdone' = <<>>
      /\ UNCHANGED <<lesson, posted, filled, inring, burst, i, kni, knifree>>
  BY DEF Loops!SendFromRing, Loops!kernel, Loops!history, MbufsOf
<1>2. Loops!InHand' = Loops!InHand
  BY <1>1 DEF Loops!InHand
<1>3. /\ outring \in Seq(Handover) /\ txq \in Seq(Handover) /\ txdone \in Seq(Mbuf)
      /\ pool \in Seq(Mbuf) /\ forgot \in Nat
  BY DEF LoopTypes
<1>4. SentIn(txq') = SentIn(txq) \union SentIn(outring) /\ SentIn(outring') = {}
  <2>1. Range(txq \o outring) = Range(txq) \union Range(outring)
    BY <1>3, RangeConcatenation
  <2> QED BY <1>1, <2>1, RangeEmpty DEF SentIn
<1>5. CASE outring = <<>>
  <2>1. Reached \subseteq Reached' /\ forgot' = forgot
    BY <1>1, <1>2, <1>4, <1>5 DEF Reached
  <2> QED BY <1>3, <2>1, NothingLost
<1>6. CASE outring # <<>>
  <2> DEFINE s == txdone \o MbufsOf(outring)
  <2>1. MbufsOf(outring) \in Seq(Mbuf)
    BY <1>3, MbufsOfSeq
  <2>2. s \in Seq(Mbuf) /\ Range(s) = Range(txdone) \union Range(MbufsOf(outring))
    BY <1>3, <2>1, ConcatProperties, RangeConcatenation
  <2>3. Loops!Free(pool, s, 0) /\ 0 \in Nat
    BY <1>1, <1>6
  <2> HIDE DEF s
  <2>4. /\ Range(pool) \union Range(s) \subseteq Range(pool') \union Refused(pool, s)
        /\ IsFiniteSet(Refused(pool, s)) /\ Over(pool, s) \in Nat
        /\ Cardinality(Refused(pool, s)) <= Over(pool, s)
        /\ forgot' = forgot + 0 + Over(pool, s)
    BY <1>3, <2>2, <2>3, FreeCover
  <2>5. Reached \subseteq Reached' \union Refused(pool, s)
    BY <1>1, <1>2, <1>4, <2>2, <2>4 DEF Reached
  <2>6. forgot' = forgot + Over(pool, s)
    BY <1>3, <2>4
  <2> QED BY <1>3, <2>4, <2>5, <2>6, LostStep
<1> QED BY <1>5, <1>6

(* Frames the worker of lesson 07 takes from the ring. *)
LEMMA DequeueLost ==
  ASSUME LoopTypes, LostBound, Loops!Dequeue
  PROVE  LostBound'
<1>1. /\ burst = <<>> /\ burst' = inring /\ i' = 1 /\ inring' = <<>>
      /\ UNCHANGED <<lesson, pool, posted, filled, txq, txdone, outring, kni, knifree, forgot>>
  BY DEF Loops!Dequeue, Loops!card, Loops!kernel, Loops!history
<1>2. Loops!InHand = <<>> /\ Loops!InHand' = inring
  <2>1. SubSeq(inring, 1, Len(inring)) = inring
    BY SubSeqFull DEF LoopTypes
  <2> QED BY <1>1, <2>1 DEF Loops!InHand
<1>3. Reached \subseteq Reached'
  BY <1>1, <1>2, RangeEmpty DEF Reached, SentIn
<1> QED BY <1>1, <1>3, NothingLost DEF LoopTypes

(* Counting what two causes lose. *)
LEMMA CountUnion ==
  ASSUME NEW X, NEW Y, IsFiniteSet(X), IsFiniteSet(Y), NEW a \in Nat, NEW b \in Nat,
         Cardinality(X) <= a, Cardinality(Y) <= b
  PROVE  IsFiniteSet(X \union Y) /\ Cardinality(X \union Y) <= a + b
<1>1. IsFiniteSet(X \union Y) /\ IsFiniteSet(X \cap Y)
  BY FS_Union, FS_Subset
<1>2. Cardinality(X \union Y) = Cardinality(X) + Cardinality(Y) - Cardinality(X \cap Y)
  BY FS_Union
<1>3. /\ Cardinality(X) \in Nat /\ Cardinality(Y) \in Nat /\ Cardinality(X \cap Y) \in Nat
      /\ Cardinality(X \union Y) \in Nat
  BY <1>1, FS_CardinalityType
<1> QED BY <1>1, <1>2, <1>3

\* The mbuf of a cause that loses at most one.
AtMost(c, e) == IF c THEN {e} ELSE {}

(* It is none or one. *)
LEMMA CountOne ==
  ASSUME NEW c \in BOOLEAN, NEW e, NEW num \in Nat, c => num >= 1
  PROVE  IsFiniteSet(AtMost(c, e)) /\ Cardinality(AtMost(c, e)) <= num
<1>1. /\ IsFiniteSet({e}) /\ Cardinality({e}) = 1 /\ IsFiniteSet({}) /\ Cardinality({}) = 0
  BY FS_EmptySet, FS_Singleton
<1>2. CASE c
  <2>1. AtMost(c, e) = {e} /\ num >= 1
    BY <1>2 DEF AtMost
  <2> QED BY <1>1, <2>1
<1>3. CASE ~c
  <2>1. AtMost(c, e) = {}
    BY <1>3 DEF AtMost
  <2> QED BY <1>1, <2>1
<1> QED BY <1>2, <1>3

(* A frame that is neither freed nor for the kernel is one that is forgotten. *)
LEMMA KeptIsForgotten ==
  ASSUME lesson \in Lessons, lesson # 53, NEW f \in Shape, ~Loops!ToKni(f),
         ~Loops!Handled(f).free
  PROVE  Loops!Forgets(f)
<1>0. ASSUME NEW a, NEW b \in BOOLEAN PROVE Loops!Does(a, b).free = b
  BY DEF Loops!Does
<1>1. CASE lesson = 1
  <2>1. Loops!Handled(f) = Loops!Does(<<>>, f.type = "udp")
    BY <1>1 DEF Loops!Handled, Loops!Lesson01
  <2>2. (f.type = "udp") \in BOOLEAN
    OBVIOUS
  <2>3. Loops!Handled(f).free = (f.type = "udp")
    BY <1>0, <2>1, <2>2
  <2>4. f.type # "udp"
    BY <2>3
  <2> QED BY <1>1, <2>4 DEF Loops!Forgets, Loops!Useful
<1>2. f.type # "udp" \/ Loops!Lesson02(f).free
  BY DEF Loops!Lesson02, Loops!Does
<1>3. CASE lesson = 2
  <2>1. f.type # "udp"
    BY <1>2, <1>3 DEF Loops!Handled
  <2> QED BY <1>3, <2>1 DEF Loops!Forgets, Loops!Useful
<1>4. Loops!Lesson03(f).free \/ f.type \notin {"udp"} \union Loops!Arp
        \/ (f.type \in Loops!Arp /\ f.dip # Me)
  BY <1>2 DEF Loops!Lesson03, Loops!Does
<1>5. CASE lesson = 3
  <2>1. ~Loops!Lesson03(f).free
    BY <1>5 DEF Loops!Handled
  <2> QED BY <1>4, <1>5, <2>1 DEF Loops!Forgets, Loops!Useful
<1>6. Loops!Lesson04(f).free \/ f.type \notin {"udp", "echo"} \union Loops!Arp
        \/ (f.type \in Loops!Arp /\ f.dip # Me)
  BY <1>4 DEF Loops!Lesson04, Loops!Does
<1>7. CASE lesson = 4
  <2>1. ~Loops!Lesson04(f).free
    BY <1>7 DEF Loops!Handled
  <2> QED BY <1>6, <1>7, <2>1 DEF Loops!Forgets, Loops!Useful
<1>8. Loops!Lesson05(f).free \/ f.type \notin {"udp", "echo", "arp_rep"}
        \/ (f.type \in Loops!Arp /\ f.dip # Me)
  <2>1. CASE f.type \in Loops!Arp
    <3>1. Loops!Lesson05(f) = Loops!Lesson05Arp(f) /\ f.type \in {"arp_req", "arp_rep"}
      BY <2>1 DEF Loops!Lesson05, Loops!Arp
    <3>2. CASE f.dip = Me /\ f.type = "arp_rep"
      <4>1. Loops!Lesson05Arp(f) = Loops!Does(<<>>, TRUE)
        BY <3>2 DEF Loops!Lesson05Arp
      <4>2. Loops!Does(<<>>, TRUE).free = TRUE
        BY DEF Loops!Does
      <4>3. Loops!Lesson05(f).free = TRUE
        BY <3>1, <4>1, <4>2
      <4>4. Loops!Lesson05(f).free
        BY <4>3, Zenon
      <4> QED BY <4>4
    <3>3. CASE ~(f.dip = Me /\ f.type = "arp_rep")
      <4>1. f.type = "arp_req" \/ f.dip # Me
        BY <3>1, <3>3
      <4>2. f.type = "arp_req" => f.type \notin {"udp", "echo", "arp_rep"}
        OBVIOUS
      <4> QED BY <2>1, <4>1, <4>2
    <3> QED BY <3>2, <3>3
  <2>2. CASE f.type \notin Loops!Arp
    <3>1. Loops!Lesson05(f) = Loops!Lesson04(f)
      BY <2>2 DEF Loops!Lesson05
    <3>2. CASE f.type \in {"udp", "echo"}
      <4>1. Loops!Lesson04(f).free
        BY <1>6, <2>2, <3>2
      <4>2. Loops!Lesson05(f).free
        BY <3>1, <4>1, Zenon
      <4> QED BY <4>2
    <3>3. CASE f.type \notin {"udp", "echo"}
      <4>1. f.type # "arp_rep"
        BY <2>2 DEF Loops!Arp
      <4> QED BY <3>3, <4>1
    <3> QED BY <3>2, <3>3
  <2> QED BY <2>1, <2>2
<1>9. CASE lesson \in {5, 6}
  <2>1. ~Loops!Lesson05(f).free
    BY <1>9 DEF Loops!Handled, Loops!Lesson06
  <2> QED BY <1>8, <1>9, <2>1 DEF Loops!Forgets, Loops!Useful
<1>10. CASE lesson \in {8, 9, 10}
  <2>1. ~Loops!Lesson08(f).free
    BY <1>10 DEF Loops!Handled, Loops!Lesson09, Loops!Lesson10
  <2>2. f.type = "tcp" \/ (f.type # "udp" /\ ~Loops!Lesson05(f).free)
    BY <2>1 DEF Loops!Lesson08, Loops!Lesson06, Loops!Does
  <2> QED BY <1>8, <1>10, <2>2 DEF Loops!Forgets, Loops!Useful
<1>11. CASE lesson = 11
  <2>2. Loops!Handled(f) = Loops!Does(<<>>, f.type = "udp")
    BY <1>11 DEF Loops!Handled, Loops!Lesson11
  <2>3. Loops!Handled(f).free = (f.type = "udp")
    <3>1. (f.type = "udp") \in BOOLEAN
      OBVIOUS
    <3> QED BY <1>0, <2>2, <3>1
  <2>1. f.type # "udp"
    BY <2>3
  <2> QED BY <1>11, <2>1 DEF Loops!Forgets, Loops!Useful
<1>12. CASE lesson \in {12, 14}
  <2>2. Loops!Handled(f) = Loops!Does(<<>>, f.type \in {"udp", "tcp"})
    BY <1>12 DEF Loops!Handled, Loops!Lesson12, Loops!Lesson14
  <2>3. Loops!Handled(f).free = (f.type \in {"udp", "tcp"})
    <3>1. (f.type \in {"udp", "tcp"}) \in BOOLEAN
      OBVIOUS
    <3> QED BY <1>0, <2>2, <3>1
  <2>1. f.type \notin {"udp", "tcp"}
    BY <2>3
  <2> QED BY <1>12, <2>1 DEF Loops!Forgets, Loops!Useful
<1> QED
  BY <1>1, <1>3, <1>5, <1>7, <1>9, <1>10, <1>11, <1>12, FramesAssumption

\* The mbuf that finds no room in the out ring.
Unsent == AtMost(Loops!NoRoom = 1, Head(pool))

(* What is taken to send, and what the card has sent, does not get lost, unless *)
(* the out ring is full.                                                       *)
LEMMA SendCover ==
  ASSUME LoopTypes, pool # <<>>, NEW f \in Shape, Loops!Send(f)
  PROVE  /\ SentIn(txq) \subseteq SentIn(txq') /\ SentIn(outring) \subseteq SentIn(outring')
         /\ Range(pool) \union Range(txdone) \subseteq
              Range(Tail(pool)) \union Range(Loops!FreedBySend) \union Range(txdone')
                \union SentIn(outring') \union Unsent
<1> DEFINE new == [m |-> Head(pool), want |-> f]
<1>1. Head(pool) \in Mbuf /\ Tail(pool) \in Seq(Mbuf)
  BY HeadTailProperties DEF LoopTypes
<1>2. new \in Handover /\ new.m = Head(pool)
  BY <1>1 DEF Handover
<1>3. Range(pool) = Range(Tail(pool)) \union {Head(pool)}
  BY RangeTail DEF LoopTypes
<1>4. /\ Range(Append(outring, new)) = Range(outring) \union {new}
      /\ Range(Append(txq, new)) = Range(txq) \union {new}
  BY <1>2, RangeAppend, SMTT(30) DEF LoopTypes
<1>5. CASE Loops!Pipelined
  <2>1. txq' = txq /\ txdone' = txdone
    BY <1>5 DEF Loops!Send
  <2>2. CASE Len(outring) < RingSize
    <3>1. outring' = Append(outring, new)
      BY <1>5, <2>2 DEF Loops!Send
    <3>2. Head(pool) \in SentIn(outring')
      BY <1>2, <1>4, <3>1 DEF SentIn
    <3> QED BY <1>3, <1>4, <2>1, <3>1, <3>2 DEF SentIn
  <2>3. CASE ~(Len(outring) < RingSize)
    <3>1. outring' = outring
      BY <1>5, <2>3 DEF Loops!Send
    <3>2. Len(outring) >= RingSize
      <4>1. Len(outring) \in Nat /\ RingSize \in Nat
        BY LenProperties, FramesAssumption DEF LoopTypes
      <4> QED BY <2>3, <4>1
    <3>3. Unsent = {Head(pool)}
      BY <1>5, <3>2 DEF Unsent, AtMost, Loops!NoRoom
    <3> QED BY <1>3, <2>1, <3>1, <3>3
  <2> QED BY <2>2, <2>3
<1>6. CASE ~Loops!Pipelined
  <2>1. txq' = Append(txq, new) /\ outring' = outring
    BY <1>6 DEF Loops!Send
  <2>2. Loops!FreedBySend = txdone \o <<Head(pool)>>
    BY <1>6 DEF Loops!FreedBySend
  <2>3. Range(txdone \o <<Head(pool)>>) = Range(txdone) \union {Head(pool)}
    <3>1. <<Head(pool)>> \in Seq(Mbuf) /\ Range(<<Head(pool)>>) = {Head(pool)}
      BY <1>1, RangeOne
    <3>2. txdone \in Seq(Mbuf)
      BY DEF LoopTypes
    <3>3. Range(txdone \o <<Head(pool)>>) = Range(txdone) \union Range(<<Head(pool)>>)
      BY <3>1, <3>2, RangeConcatenation, ZenonT(60)
    <3> QED BY <3>1, <3>3
  <2> QED BY <1>3, <1>4, <2>1, <2>2, <2>3 DEF SentIn
<1> QED BY <1>5, <1>6

\* The frame that is neither answered nor freed.
Unfreed == AtMost(lesson # 53 /\ ~Loops!Handled(Current).free, burst[i])

(* Of a frame in hand nothing is lost that is not counted. *)
LEMMA HandleLost ==
  ASSUME LoopTypes, LostBound, Loops!Handle
  PROVE  LostBound'
<1>1. /\ burst # <<>> /\ i \in 1..Len(burst) /\ burst[i] \in Mbuf /\ Current \in Shape
      /\ ~Loops!ToKni(Current) /\ Doing(Loops!Handled(Current))
      /\ FreedNow \in Seq(Mbuf) /\ LostNow \in {0, 1}
      /\ UNCHANGED <<lesson, posted, filled, inring, kni, knifree>>
      /\ \/ /\ Len(Loops!Handled(Current).out) = 1 /\ pool # <<>>
            /\ Loops!Send(Loops!Handled(Current).out[1])
            /\ Loops!Advance(Tail(pool), Loops!FreedBySend \o FreedNow, LostNow + Loops!NoRoom)
         \/ /\ Loops!Advance(pool, FreedNow, LostNow)
            /\ UNCHANGED <<mem, got, txq, txdone, outring>>
  BY HandleCases
<1>2. IsFiniteSet(Unfreed) /\ Cardinality(Unfreed) <= LostNow
  <2>1. lesson # 53 /\ ~Loops!Handled(Current).free => LostNow = 1
    BY <1>1, KeptIsForgotten DEF LoopTypes, LostNow
  <2>2. LostNow \in Nat /\ (lesson # 53 /\ ~Loops!Handled(Current).free) \in BOOLEAN
    BY <1>1
  <2>3. lesson # 53 /\ ~Loops!Handled(Current).free => LostNow >= 1
    BY <2>1
  <2> QED BY <2>2, <2>3, CountOne DEF Unfreed
<1>3. (IF lesson = 53 THEN {} ELSE {burst[i]}) \subseteq Range(FreedNow) \union Unfreed
  <2>1. Range(<<burst[i]>>) = {burst[i]}
    BY <1>1, RangeOne
  <2> QED BY <2>1 DEF FreedNow, Unfreed, AtMost
<1>4. forgot \in Nat /\ pool \in Seq(Mbuf)
  BY DEF LoopTypes
<1>5. CASE /\ Len(Loops!Handled(Current).out) = 1 /\ pool # <<>>
           /\ Loops!Send(Loops!Handled(Current).out[1])
           /\ Loops!Advance(Tail(pool), Loops!FreedBySend \o FreedNow, LostNow + Loops!NoRoom)
  <2> DEFINE q == Tail(pool)
             s == Loops!FreedBySend \o FreedNow
  <2>1. Loops!Handled(Current).out[1] \in Shape
    BY <1>1, <1>5 DEF Doing
  <2>2. /\ q \in Seq(Mbuf) /\ Loops!FreedBySend \in Seq(Mbuf) /\ Loops!NoRoom \in {0, 1}
    BY <1>5, <2>1, SendTypes
  <2>3. /\ SentIn(txq) \subseteq SentIn(txq') /\ SentIn(outring) \subseteq SentIn(outring')
        /\ Range(pool) \union Range(txdone) \subseteq
              Range(q) \union Range(Loops!FreedBySend) \union Range(txdone')
                \union SentIn(outring') \union Unsent
    BY <1>5, <2>1, SendCover
  <2>4. s \in Seq(Mbuf) /\ Range(s) = Range(Loops!FreedBySend) \union Range(FreedNow)
    BY <1>1, <2>2, ConcatProperties, RangeConcatenation
  <2>5. LostNow + Loops!NoRoom \in Nat /\ Loops!Advance(q, s, LostNow + Loops!NoRoom)
    BY <1>1, <1>5, <2>2
  <2> HIDE DEF q, s
  <2>6. /\ Range(q) \union Range(s) \subseteq Range(pool') \union Refused(q, GoneWith(s))
        /\ Range(Loops!InHand) \subseteq Range(Loops!InHand') \union Range(pool')
                       \union Refused(q, GoneWith(s)) \union (IF lesson = 53 THEN {} ELSE {burst[i]})
        /\ IsFiniteSet(Refused(q, GoneWith(s))) /\ Over(q, GoneWith(s)) \in Nat
        /\ Cardinality(Refused(q, GoneWith(s))) <= Over(q, GoneWith(s))
        /\ forgot' = forgot + (LostNow + Loops!NoRoom) + Over(q, GoneWith(s))
    BY <1>1, <2>2, <2>4, <2>5, AdvanceCover
  <2>7. IsFiniteSet(Unsent) /\ Cardinality(Unsent) <= Loops!NoRoom
    <3>1. Loops!NoRoom \in Nat /\ (Loops!NoRoom = 1) \in BOOLEAN /\ (Loops!NoRoom = 1 => Loops!NoRoom >= 1)
      BY <2>2
    <3> QED BY <3>1, CountOne DEF Unsent
  <2>8. /\ IsFiniteSet(Unfreed \union Unsent)
        /\ Cardinality(Unfreed \union Unsent) <= LostNow + Loops!NoRoom
    <3>1. LostNow \in Nat /\ Loops!NoRoom \in Nat
      BY <1>1, <2>2
    <3> QED BY <1>2, <2>7, <3>1, CountUnion
  <2> DEFINE X == (Unfreed \union Unsent) \union Refused(q, GoneWith(s))
             d == (LostNow + Loops!NoRoom) + Over(q, GoneWith(s))
  <2>9. IsFiniteSet(X) /\ Cardinality(X) <= d /\ d \in Nat
    <3> HIDE DEF q
    <3>1. LostNow + Loops!NoRoom \in Nat /\ Over(q, GoneWith(s)) \in Nat
      BY <2>5, <2>6
    <3>2. d \in Nat
      BY <3>1
    <3>3. IsFiniteSet(X) /\ Cardinality(X) <= d
      BY <2>6, <2>8, <3>1, CountUnion
    <3> QED BY <3>2, <3>3
  <2>10. forgot' = forgot + d
    BY <1>4, <2>5, <2>6
  <2>11. Reached \subseteq Reached' \union X
    <3> DEFINE R == Refused(q, GoneWith(s))
    <3> HIDE DEF R
    <3>1. Range(Loops!InHand) \subseteq Range(Loops!InHand') \union Range(pool') \union R
                                    \union Range(FreedNow) \union Unfreed
      BY <1>3, <2>6 DEF R
    <3>2. Range(q) \union Range(s) \subseteq Range(pool') \union R /\ X = Unfreed \union Unsent \union R
      BY <2>6 DEF R
    <3>3. /\ Range(Loops!InHand) \subseteq Reached' \union X
          /\ Range(pool) \union Range(txdone) \subseteq Reached' \union X
      BY <2>3, <2>4, <3>1, <3>2 DEF Reached
    <3>4. /\ posted' = posted /\ filled' = filled /\ inring' = inring /\ kni' = kni
          /\ knifree' = knifree
      BY <1>1
    <3>5. /\ Range(posted) \union Range(filled) \union Range(inring) \union Range(kni)
               \union Range(knifree) \subseteq Reached'
          /\ SentIn(txq) \union SentIn(outring) \subseteq Reached'
      BY <2>3, <3>4 DEF Reached
    <3> HIDE DEF X
    <3> QED BY <3>3, <3>5 DEF Reached
  <2> HIDE DEF X, d
  <2> QED BY <1>4, <2>9, <2>10, <2>11, LostStep
<1>6. CASE /\ Loops!Advance(pool, FreedNow, LostNow)
           /\ UNCHANGED <<mem, got, txq, txdone, outring>>
  <2> DEFINE s == FreedNow
  <2>1. s \in Seq(Mbuf) /\ LostNow \in Nat /\ Loops!Advance(pool, s, LostNow)
    BY <1>1, <1>6
  <2>2. (IF lesson = 53 THEN {} ELSE {burst[i]}) \subseteq Range(s) \union Unfreed
    BY <1>3
  <2> HIDE DEF s
  <2> DEFINE R == Refused(pool, GoneWith(s))
             d == LostNow + Over(pool, GoneWith(s))
             X == Unfreed \union R
  <2>3. /\ Range(pool) \union Range(s) \subseteq Range(pool') \union R
        /\ Range(Loops!InHand) \subseteq Range(Loops!InHand') \union Range(pool')
                       \union R \union (IF lesson = 53 THEN {} ELSE {burst[i]})
        /\ IsFiniteSet(R) /\ Over(pool, GoneWith(s)) \in Nat
        /\ Cardinality(R) <= Over(pool, GoneWith(s))
        /\ forgot' = forgot + LostNow + Over(pool, GoneWith(s))
    BY <1>1, <1>4, <2>1, AdvanceCover
  <2>4. IsFiniteSet(X) /\ Cardinality(X) <= d /\ d \in Nat
    <3> DEFINE o == Over(pool, GoneWith(s))
    <3>1. LostNow \in Nat /\ o \in Nat /\ IsFiniteSet(R) /\ Cardinality(R) <= o
      BY <2>1, <2>3
    <3>2. d \in Nat /\ d = LostNow + o
      BY <3>1
    <3> HIDE DEF R, o, d
    <3>3. IsFiniteSet(X) /\ Cardinality(X) <= LostNow + o
      BY <1>2, <3>1, CountUnion
    <3> QED BY <3>2, <3>3
  <2>5. forgot' = forgot + d
    BY <1>4, <2>1, <2>3
  <2>6. Reached \subseteq Reached' \union X
    <3> HIDE DEF R
    <3>1. Range(Loops!InHand) \union Range(pool) \subseteq Reached' \union X
      BY <2>2, <2>3 DEF Reached
    <3>2. /\ posted' = posted /\ filled' = filled /\ inring' = inring /\ kni' = kni
          /\ knifree' = knifree /\ txq' = txq /\ txdone' = txdone /\ outring' = outring
      BY <1>1, <1>6
    <3>3. Range(posted) \union Range(filled) \union Range(inring) \union Range(kni)
               \union Range(knifree) \union Range(txdone) \union SentIn(txq) \union SentIn(outring)
            \subseteq Reached'
      BY <3>2 DEF Reached
    <3> HIDE DEF X
    <3> QED BY <3>1, <3>3 DEF Reached
  <2> HIDE DEF X, d
  <2> QED BY <1>4, <2>4, <2>5, <2>6, LostStep
<1> QED BY <1>1, <1>5, <1>6

(* What the kernel is not given of a burst is counted. *)
LEMMA KniTxLost ==
  ASSUME LoopTypes, LostBound, Loops!KniTx
  PROVE  LostBound'
<1> DEFINE r == SubSeq(burst, KniRoom + 1, Len(burst))
           Z == IF lesson = 53 THEN {} ELSE Range(r)
           R == Refused(pool, GoneWith(knifree))
           o == Over(pool, GoneWith(knifree))
<1>1. /\ burst # <<>> /\ i \in 1..Len(burst)
      /\ KniRoom \in 0..Len(burst) /\ KniLost \in Nat
      /\ kni' = kni \o SubSeq(burst, 1, KniRoom) /\ knifree' = <<>>
      /\ Loops!Advance(pool, knifree, KniLost)
      /\ UNCHANGED <<lesson, posted, filled, txq, txdone, inring, outring>>
  BY KniTxCases
<1>2. /\ burst \in Seq(Mbuf) /\ pool \in Seq(Mbuf) /\ knifree \in Seq(Mbuf) /\ kni \in Seq(Mbuf)
      /\ forgot \in Nat
  BY DEF LoopTypes
<1>3. /\ SubSeq(burst, 1, KniRoom) \in Seq(Mbuf)
      /\ r \in Seq(Mbuf) /\ Len(r) = Len(burst) - KniRoom
  BY <1>1, <1>2, Split
<1>4. Range(burst) = Range(SubSeq(burst, 1, KniRoom)) \union Range(r)
  BY <1>1, <1>2, RangeSplit
<1>5. Range(kni') = Range(kni) \union Range(SubSeq(burst, 1, KniRoom))
  BY <1>1, <1>2, <1>3, RangeConcatenation, ZenonT(60)
<1>6. burst[i] \in Range(burst)
  BY <1>1, <1>2, RangeEquality
<1>7. IsFiniteSet(Z) /\ Cardinality(Z) <= KniLost
  <2>1. IsFiniteSet(Range(r)) /\ Cardinality(Range(r)) <= Len(r)
    BY <1>3, RangeCount
  <2>2. IsFiniteSet({}) /\ Cardinality({}) = 0
    BY FS_EmptySet
  <2>3. CASE lesson = 53
    BY <1>1, <2>2, <2>3
  <2>4. CASE lesson # 53
    <3>1. KniLost = Len(r) /\ Z = Range(r)
      BY <1>3, <2>4 DEF KniLost
    <3> QED BY <2>1, <3>1
  <2> QED BY <2>3, <2>4
<1>8. /\ Range(pool) \union Range(knifree) \subseteq Range(pool') \union R
      /\ Range(Loops!InHand) \subseteq Range(Loops!InHand') \union Range(pool')
                     \union R \union (IF lesson = 53 THEN {} ELSE {burst[i]})
      /\ IsFiniteSet(R) /\ o \in Nat /\ Cardinality(R) <= o
      /\ forgot' = forgot + KniLost + o
  BY <1>1, <1>2, AdvanceCover
<1> HIDE DEF R, o, r
<1>9. (IF lesson = 53 THEN {} ELSE {burst[i]}) \subseteq Range(kni') \union Z
  BY <1>4, <1>5, <1>6
<1> HIDE DEF Z
<1>10. IsFiniteSet(Z \union R) /\ Cardinality(Z \union R) <= KniLost + o
  BY <1>1, <1>7, <1>8, CountUnion
<1>11. Reached \subseteq Reached' \union (Z \union R)
  <2>1. /\ posted' = posted /\ filled' = filled /\ inring' = inring
        /\ txq' = txq /\ txdone' = txdone /\ outring' = outring
    BY <1>1
  <2>2. Range(posted) \union Range(filled) \union Range(inring) \union Range(txdone)
             \union SentIn(txq) \union SentIn(outring) \subseteq Reached'
    BY <2>1 DEF Reached
  <2>3. Range(pool) \union Range(knifree) \union Range(Loops!InHand) \union Range(kni)
          \subseteq Reached' \union (Z \union R)
    BY <1>5, <1>8, <1>9 DEF Reached
  <2> QED BY <2>2, <2>3 DEF Reached
<1>12. KniLost + o \in Nat /\ forgot' = forgot + (KniLost + o)
  BY <1>1, <1>2, <1>8
<1> QED BY <1>2, <1>10, <1>11, <1>12, LostStep

(* Nor is anything of a question of the timer. *)
LEMMA AskLost ==
  ASSUME LoopTypes, LostBound, Loops!Ask
  PROVE  LostBound'
<1> DEFINE f == Loops!ng_encode_arp_pkt05("arp_req", Loops!ng_get_dst_macaddr(Head(asks)), Head(asks))
<1>1. /\ pool # <<>> /\ f \in Shape /\ Loops!Send(f)
      /\ Loops!Free(Tail(pool), Loops!FreedBySend, Loops!NoRoom)
      /\ UNCHANGED <<lesson, posted, filled, inring, burst, i, kni, knifree>>
  BY AskCases
<1> HIDE DEF f
<1>2. /\ Tail(pool) \in Seq(Mbuf) /\ Loops!FreedBySend \in Seq(Mbuf) /\ Loops!NoRoom \in {0, 1}
  BY <1>1, SendTypes
<1>3. /\ SentIn(txq) \subseteq SentIn(txq') /\ SentIn(outring) \subseteq SentIn(outring')
      /\ Range(pool) \union Range(txdone) \subseteq
            Range(Tail(pool)) \union Range(Loops!FreedBySend) \union Range(txdone')
              \union SentIn(outring') \union Unsent
  BY <1>1, SendCover
<1> DEFINE q == Tail(pool)
           s == Loops!FreedBySend
           R == Refused(q, s)
           o == Over(q, s)
           num == Loops!NoRoom
<1>4. num \in Nat /\ forgot \in Nat
  BY <1>2 DEF LoopTypes
<1>5. /\ Range(q) \union Range(s) \subseteq Range(pool') \union R
      /\ IsFiniteSet(R) /\ o \in Nat /\ Cardinality(R) <= o /\ forgot' = forgot + num + o
  BY <1>1, <1>2, <1>4, FreeCover
<1>6. IsFiniteSet(Unsent) /\ Cardinality(Unsent) <= num
  <2>1. (num = 1) \in BOOLEAN /\ (num = 1 => num >= 1)
    BY <1>2
  <2> QED BY <1>4, <2>1, CountOne DEF Unsent
<1>7. Loops!InHand' = Loops!InHand
  BY <1>1 DEF Loops!InHand
<1> HIDE DEF R, o, num
<1>8. IsFiniteSet(Unsent \union R) /\ Cardinality(Unsent \union R) <= num + o
  BY <1>4, <1>5, <1>6, CountUnion
<1>9. Reached \subseteq Reached' \union (Unsent \union R)
  <2>1. /\ posted' = posted /\ filled' = filled /\ inring' = inring /\ kni' = kni
        /\ knifree' = knifree
    BY <1>1
  <2>2. Range(posted) \union Range(filled) \union Range(inring) \union Range(kni)
             \union Range(knifree) \union SentIn(txq) \union SentIn(outring)
             \union Range(Loops!InHand) \subseteq Reached'
    BY <1>3, <1>7, <2>1 DEF Reached
  <2>3. Range(pool) \union Range(txdone) \subseteq Reached' \union (Unsent \union R)
    BY <1>3, <1>5 DEF Reached
  <2> QED BY <2>2, <2>3 DEF Reached
<1>10. num + o \in Nat /\ forgot' = forgot + (num + o)
  BY <1>4, <1>5
<1> QED BY <1>4, <1>8, <1>9, <1>10, LostStep

(* Nor of what the card sends, the kernel takes, or when nothing moves. *)
LEMMA RestLost ==
  ASSUME LoopTypes, LostBound,
         \/ Loops!CardSends \/ Loops!KernelTakes
         \/ Loops!TimerExpires \/ Loops!HandleFails \/ Loops!AskFails
  PROVE  LostBound'
<1>1. CASE Loops!CardSends
  <2>1. /\ txq # <<>> /\ txq' = Tail(txq) /\ txdone' = Append(txdone, Head(txq).m)
        /\ UNCHANGED <<lesson, pool, posted, filled, inring, outring, burst, i, kni, knifree, forgot>>
    BY <1>1 DEF Loops!CardSends, Loops!rings, Loops!kernel
  <2>2. Range(txq) = Range(txq') \union {Head(txq)} /\ Head(txq) \in Handover
    BY <2>1, RangeTail, HeadTailProperties DEF LoopTypes
  <2>3. Head(txq).m \in Mbuf
    BY <2>2 DEF Handover
  <2>4. Range(txdone') = Range(txdone) \union {Head(txq).m}
    BY <2>1, <2>3, RangeAppend, SMTT(30) DEF LoopTypes
  <2>5. SentIn(txq) = SentIn(txq') \union {Head(txq).m}
    BY <2>2 DEF SentIn
  <2>6. Loops!InHand' = Loops!InHand
    BY <2>1 DEF Loops!InHand
  <2>7. SentIn(outring') = SentIn(outring)
    BY <2>1
  <2>8. Reached \subseteq Reached'
    BY <2>1, <2>4, <2>5, <2>6, <2>7 DEF Reached
  <2> QED BY <2>1, <2>8, NothingLost DEF LoopTypes
<1>2. CASE Loops!KernelTakes
  <2>1. /\ kni # <<>> /\ kni' = Tail(kni) /\ knifree' = Append(knifree, Head(kni))
        /\ UNCHANGED <<lesson, pool, posted, filled, txq, txdone, inring, outring, burst, i, forgot>>
    BY <1>2 DEF Loops!KernelTakes, Loops!card, Loops!rings, Loops!history
  <2>2. Range(kni) = Range(kni') \union {Head(kni)} /\ Head(kni) \in Mbuf
    BY <2>1, RangeTail, HeadTailProperties DEF LoopTypes
  <2>3. Range(knifree') = Range(knifree) \union {Head(kni)}
    BY <2>1, <2>2, RangeAppend, SMTT(30) DEF LoopTypes
  <2>4. Loops!InHand' = Loops!InHand
    BY <2>1 DEF Loops!InHand
  <2>5. SentIn(outring') = SentIn(outring) /\ SentIn(txq') = SentIn(txq)
    BY <2>1
  <2>6. Reached \subseteq Reached'
    BY <2>1, <2>2, <2>3, <2>4, <2>5 DEF Reached
  <2> QED BY <2>1, <2>6, NothingLost DEF LoopTypes
<1>3. CASE Loops!TimerExpires \/ Loops!HandleFails \/ Loops!AskFails
  <2>1. UNCHANGED <<lesson, mem, pool, posted, filled, txq, txdone, inring, outring, burst, i,
                    table, kni, knifree, got, forgot, heard, whole, last>>
    BY <1>3, TimerTypes
  <2>2. Loops!InHand' = Loops!InHand /\ SentIn(outring') = SentIn(outring) /\ SentIn(txq') = SentIn(txq)
    BY <2>1 DEF Loops!InHand
  <2>3. Reached \subseteq Reached'
    BY <2>1, <2>2 DEF Reached
  <2> QED BY <2>1, <2>3, NothingLost DEF LoopTypes
<1> QED BY <1>1, <1>2, <1>3

(* At the start everything is in the pool or with the card. *)
LEMMA LostStart == Loops!Init => LostBound
<1> SUFFICES ASSUME Loops!Init PROVE LostBound
  OBVIOUS
<1>1. LoopTypes
  BY LoopsStart
<1>2. /\ posted = [k \in 1..RxDescs |-> k]
      /\ pool = [k \in 1..(NumMbufs - RxDescs) |-> k + RxDescs] /\ forgot = 0
  BY DEF Loops!Init, Loops!PoolCreated
<1>3. RxDescs \in Nat /\ NumMbufs \in Nat /\ NumMbufs - RxDescs \in Nat
  BY FramesAssumption
<1>4. Range(posted) = {posted[k] : k \in 1..RxDescs}
  BY <1>2 DEF Range
<1>5. Range(pool) = {pool[k] : k \in 1..(NumMbufs - RxDescs)}
  BY <1>2 DEF Range
<1>6. ASSUME NEW m \in Mbuf PROVE m \in Range(posted) \union Range(pool)
  <2>1. CASE m <= RxDescs
    <3>1. m \in 1..RxDescs
      BY <1>3, <2>1 DEF Mbuf
    <3>2. posted[m] = m
      BY <1>2, <3>1
    <3> QED BY <1>4, <3>1, <3>2
  <2>2. CASE ~(m <= RxDescs)
    <3>1. m - RxDescs \in 1..(NumMbufs - RxDescs) /\ (m - RxDescs) + RxDescs = m
      BY <1>3, <2>2 DEF Mbuf
    <3>2. pool[m - RxDescs] = m
      BY <1>2, <3>1
    <3> QED BY <1>5, <3>1, <3>2
  <2> QED BY <2>1, <2>2
<1>7. Mbuf \ Reached = {}
  BY <1>6 DEF Reached
<1>8. Cardinality({}) = 0
  BY FS_EmptySet
<1> QED BY <1>2, <1>7, <1>8 DEF LostBound

(* No step loses more than it counts. *)
LEMMA LostKept ==
  ASSUME LoopTypes, LostBound, Loops!Next
  PROVE  LostBound'
  BY ArriveLost, PollAndHandleLost, PollToRingLost, SendFromRingLost, DequeueLost, HandleLost,
     KniTxLost, AskLost, RestLost DEF Loops!Next

(* The bound says what NothingElseLost says. *)
LEMMA LostBoundSays ==
  ASSUME LoopTypes, LostBound
  PROVE  Loops!NothingElseLost
  BY LostIsUnreached, LoopsCardinality DEF LostBound, Loops!NothingElseLost

-----------------------------------------------------------------------------
(* Owners of an mbuf. *)

(* Two queues together hold what they hold. *)
LEMMA HoldsConcat ==
  ASSUME NEW S, NEW s \in Seq(S), NEW t \in Seq(S), NEW m
  PROVE  Loops!Holds(s \o t, m) = Loops!Holds(s, m) + Loops!Holds(t, m)
<1> DEFINE num == Len(s)
           P == {k \in 1..Len(s) : s[k] = m}
           Q == {k \in 1..Len(t) : t[k] = m}
           U == {k \in 1..Len(s \o t) : (s \o t)[k] = m}
           V == U \ P
           f == [k \in Q |-> k + num]
<1>1. /\ Len(s) \in Nat /\ Len(t) \in Nat /\ Len(s \o t) = Len(s) + Len(t)
      /\ \A k \in 1..Len(s) + Len(t) : (s \o t)[k] = IF k <= Len(s) THEN s[k] ELSE t[k - Len(s)]
  BY ConcatProperties, LenProperties
<1>2. IsFiniteSet(1..Len(s)) /\ IsFiniteSet(1..Len(t)) /\ IsFiniteSet(1..Len(s \o t))
  BY <1>1, FS_Interval
<1>3. IsFiniteSet(P) /\ IsFiniteSet(Q) /\ IsFiniteSet(U)
  BY <1>2, FS_Subset
<1>4. IsFiniteSet(V)
  BY <1>3, FS_Subset
<1>5. P \subseteq U
  <2>1. ASSUME NEW k \in P PROVE k \in U
    <3>1. k \in 1..Len(s) /\ s[k] = m
      OBVIOUS
    <3>2. k \in 1..Len(s) + Len(t) /\ k <= Len(s)
      BY <1>1, <3>1
    <3> QED BY <1>1, <3>1, <3>2
  <2> QED BY <2>1
<1>6. \A k \in Q : k + num \in V
  <2>1. ASSUME NEW k \in Q PROVE k + num \in V
    <3>1. k \in 1..Len(t) /\ t[k] = m
      OBVIOUS
    <3>2. k + num \in 1..Len(s) + Len(t) /\ ~(k + num <= Len(s)) /\ (k + num) - Len(s) = k
      BY <1>1, <3>1
    <3>3. (s \o t)[k + num] = m
      BY <1>1, <3>1, <3>2
    <3>4. k + num \notin P
      BY <3>2
    <3> QED BY <1>1, <3>2, <3>3, <3>4
  <2> QED BY <2>1
<1>7. \A j \in V : j - num \in Q /\ (j - num) + num = j
  <2>1. ASSUME NEW j \in V PROVE j - num \in Q /\ (j - num) + num = j
    <3>1. j \in 1..Len(s) + Len(t) /\ (s \o t)[j] = m /\ j \notin P
      BY <1>1
    <3>2. ~(j <= Len(s))
      <4>1. SUFFICES ASSUME j <= Len(s) PROVE FALSE
        OBVIOUS
      <4>2. j \in 1..Len(s) /\ s[j] = m
        BY <1>1, <3>1, <4>1
      <4> QED BY <3>1, <4>2
    <3>3. j - num \in 1..Len(t) /\ (j - num) + num = j
      BY <1>1, <3>1, <3>2
    <3>4. t[j - num] = m
      BY <1>1, <3>1, <3>2
    <3> QED BY <3>3, <3>4
  <2> QED BY <2>1
<1>8. f \in Bijection(Q, V)
  <2>1. f \in [Q -> V]
    BY <1>6
  <2>2. \A j, k \in Q : f[j] = f[k] => j = k
    <3>1. \A k \in Q : k \in Nat
      BY <1>1
    <3>2. num \in Nat
      BY <1>1
    <3>3. \A k \in Q : f[k] = k + num
      OBVIOUS
    <3> HIDE DEF num, f, Q
    <3> QED BY <3>1, <3>2, <3>3
  <2>3. \A j \in V : \E k \in Q : f[k] = j
    BY <1>7
  <2> HIDE DEF f, Q, V
  <2> QED BY <2>1, <2>2, <2>3 DEF Bijection, Injection, Surjection, IsInjective
<1>9. Cardinality(V) = Cardinality(Q)
  BY <1>3, <1>8, FS_Bijection, ZenonT(60) DEF ExistsBijection
<1>10. U = P \union V /\ P \cap V = {}
  BY <1>5
<1> HIDE DEF P, V
<1>11. Cardinality(U) = Cardinality(P) + Cardinality(V) - Cardinality(P \cap V)
  BY <1>3, <1>4, <1>10, FS_Union
<1>12. Cardinality(P \cap V) = 0 /\ Cardinality(P) \in Nat /\ Cardinality(V) \in Nat
  BY <1>3, <1>4, <1>10, FS_EmptySet, FS_CardinalityType
<1>13. /\ Loops!Holds(s \o t, m) = Cardinality(U) /\ Loops!Holds(s, m) = Cardinality(P)
       /\ Loops!Holds(t, m) = Cardinality(Q)
  BY LoopsCardinality DEF Loops!Holds, P
<1> HIDE DEF U, Q
<1> QED BY <1>9, <1>11, <1>12, <1>13

(* A queue of one. *)
LEMMA HoldsOne ==
  ASSUME NEW e, NEW m
  PROVE  Loops!Holds(<<e>>, m) \in {0, 1} /\ (Loops!Holds(<<e>>, m) = 1 <=> e = m)
<1> DEFINE P == {k \in 1..Len(<<e>>) : <<e>>[k] = m}
<1>1. Loops!Holds(<<e>>, m) = Cardinality(P)
  BY LoopsCardinality DEF Loops!Holds
<1>2. P = IF e = m THEN {1} ELSE {}
  OBVIOUS
<1>3. Cardinality({1}) = 1 /\ Cardinality({}) = 0
  BY FS_EmptySet, FS_Singleton
<1> HIDE DEF P
<1>4. Cardinality(P) \in {0, 1} /\ (Cardinality(P) = 1 <=> e = m)
  <2>1. CASE e = m
    BY <1>2, <1>3, <2>1
  <2>2. CASE e # m
    BY <1>2, <1>3, <2>2
  <2> QED BY <2>1, <2>2
<1> QED BY <1>1, <1>4

(* No queue. *)
LEMMA HoldsEmpty ==
  ASSUME NEW m
  PROVE  Loops!Holds(<<>>, m) = 0
<1>1. <<>> \in Seq({})
  BY EmptySeq
<1> QED BY <1>1, HoldsZero, RangeEmpty

(* A queue that grows at its end. *)
LEMMA HoldsAppend ==
  ASSUME NEW S, NEW s \in Seq(S), NEW e \in S, NEW m
  PROVE  Loops!Holds(Append(s, e), m) = Loops!Holds(s, m) + Loops!Holds(<<e>>, m)
<1>1. Append(s, e) = s \o <<e>>
  BY AppendIsConcat
<1> DEFINE t == <<e>>
<1>2. t \in Seq(S)
  BY RangeOne
<1> HIDE DEF t
<1>3. Loops!Holds(s \o t, m) = Loops!Holds(s, m) + Loops!Holds(t, m)
  BY <1>2, HoldsConcat
<1> QED BY <1>1, <1>3 DEF t

(* A queue cut in two. *)
LEMMA HoldsSplit ==
  ASSUME NEW S, NEW s \in Seq(S), NEW k \in 0..Len(s), NEW m
  PROVE  Loops!Holds(s, m)
           = Loops!Holds(SubSeq(s, 1, k), m) + Loops!Holds(SubSeq(s, k + 1, Len(s)), m)
<1>1. /\ SubSeq(s, 1, k) \in Seq(S) /\ SubSeq(s, k + 1, Len(s)) \in Seq(S)
      /\ SubSeq(s, 1, k) \o SubSeq(s, k + 1, Len(s)) = s
  BY Split
<1> DEFINE a == SubSeq(s, 1, k)
           b == SubSeq(s, k + 1, Len(s))
<1> HIDE DEF a, b
<1>2. a \in Seq(S) /\ b \in Seq(S) /\ a \o b = s
  BY <1>1 DEF a, b
<1>3. Loops!Holds(a \o b, m) = Loops!Holds(a, m) + Loops!Holds(b, m)
  BY <1>2, HoldsConcat
<1> QED BY <1>2, <1>3 DEF a, b

(* A queue without its head. *)
LEMMA HoldsTail ==
  ASSUME NEW S, NEW s \in Seq(S), s # <<>>, NEW m
  PROVE  Loops!Holds(s, m) = Loops!Holds(<<Head(s)>>, m) + Loops!Holds(Tail(s), m)
<1>1. /\ Head(s) \in S /\ Tail(s) \in Seq(S) /\ Len(Tail(s)) = Len(s) - 1 /\ Head(s) = s[1]
      /\ Len(s) \in Nat /\ Len(s) >= 1
      /\ \A k \in 1..Len(Tail(s)) : Tail(s)[k] = s[k + 1]
  BY HeadTailProperties, EmptySeq, LenProperties
<1>2. <<Head(s)>> \in Seq(S) /\ Len(<<Head(s)>>) = 1 /\ <<Head(s)>>[1] = Head(s)
  BY <1>1, RangeOne
<1> DEFINE h == <<Head(s)>>
           t == Tail(s)
<1> HIDE DEF h, t
<1>3. /\ h \o t \in Seq(S) /\ Len(h \o t) = Len(h) + Len(t)
      /\ \A k \in 1..Len(h) + Len(t) : (h \o t)[k] = IF k <= Len(h) THEN h[k] ELSE t[k - Len(h)]
  BY <1>1, <1>2, ConcatProperties DEF h, t
<1>4. Len(h) = 1 /\ h[1] = s[1] /\ Len(t) = Len(s) - 1 /\ \A k \in 1..Len(s) - 1 : t[k] = s[k + 1]
  BY <1>1, <1>2 DEF h, t
<1>5. ASSUME NEW k \in 1..Len(s) PROVE (h \o t)[k] = s[k]
  <2>1. k \in 1..Len(h) + Len(t)
    BY <1>1, <1>4
  <2>2. CASE k = 1
    BY <1>3, <1>4, <2>1, <2>2
  <2>3. CASE k # 1
    <3>1. ~(k <= Len(h)) /\ k - Len(h) \in 1..Len(s) - 1 /\ (k - Len(h)) + 1 = k
      BY <1>1, <1>4, <2>3
    <3> QED BY <1>3, <1>4, <2>1, <3>1
  <2> QED BY <2>2, <2>3
<1>6. Len(h \o t) = Len(s)
  BY <1>1, <1>3, <1>4
<1>7. s = h \o t
  BY <1>3, <1>5, <1>6, SeqEqual
<1>8. Loops!Holds(h \o t, m) = Loops!Holds(h, m) + Loops!Holds(t, m)
  BY <1>1, <1>2, HoldsConcat DEF h, t
<1> QED BY <1>7, <1>8 DEF h, t

(* The answers of a ring that grows at its end. *)
LEMMA HoldsSentAppend ==
  ASSUME NEW s \in Seq(Handover), NEW e \in Handover, NEW m
  PROVE  Loops!HoldsSent(Append(s, e), m) = Loops!HoldsSent(s, m) + Loops!Holds(<<e.m>>, m)
<1>1. /\ MbufsOf(s) \in Seq(Mbuf) /\ Len(MbufsOf(s)) = Len(s) /\ Len(s) \in Nat
      /\ \A k \in 1..Len(s) : MbufsOf(s)[k] = s[k].m
  BY MbufsOfSeq
<1>2. /\ Append(s, e) \in Seq(Handover) /\ Len(Append(s, e)) = Len(s) + 1
      /\ \A k \in 1..Len(s) : Append(s, e)[k] = s[k]
      /\ Append(s, e)[Len(s) + 1] = e
  BY AppendProperties
<1>3. e.m \in Mbuf
  BY DEF Handover
<1> DEFINE a == Append(s, e)
           b == Append(MbufsOf(s), e.m)
<1>4. /\ b \in Seq(Mbuf) /\ Len(b) = Len(s) + 1 /\ \A k \in 1..Len(s) : b[k] = s[k].m
      /\ b[Len(s) + 1] = e.m
  BY <1>1, <1>3, AppendProperties
<1>5. \A k \in 1..Len(s) + 1 : k \in 1..Len(s) \/ k = Len(s) + 1
  BY <1>1
<1> HIDE DEF a, b
<1>6. \A k \in 1..Len(s) + 1 : a[k].m = b[k]
  BY <1>2, <1>4, <1>5 DEF a
<1>7. {k \in 1..Len(a) : a[k].m = m} = {k \in 1..Len(b) : b[k] = m}
  <2>1. Len(a) = Len(s) + 1
    BY <1>2 DEF a
  <2> QED BY <1>4, <1>6, <2>1
<1>8. Loops!HoldsSent(a, m) = Loops!Holds(b, m)
  BY <1>7 DEF Loops!HoldsSent, Loops!Holds
<1>9. Loops!HoldsSent(s, m) = Loops!Holds(MbufsOf(s), m)
  <2>1. {k \in 1..Len(s) : s[k].m = m} = {k \in 1..Len(MbufsOf(s)) : MbufsOf(s)[k] = m}
    BY <1>1
  <2> QED BY <2>1 DEF Loops!HoldsSent, Loops!Holds
<1>10. Loops!Holds(b, m) = Loops!Holds(MbufsOf(s), m) + Loops!Holds(<<e.m>>, m)
  BY <1>1, <1>3, HoldsAppend DEF b
<1> QED BY <1>8, <1>9, <1>10 DEF a

(* An empty ring. *)
LEMMA HoldsSentEmpty ==
  ASSUME NEW m
  PROVE  Loops!HoldsSent(<<>>, m) = 0
<1>1. <<>> \in Seq(Handover)
  BY EmptySeq
<1>2. SentIn(<<>>) = {}
  BY RangeEmpty DEF SentIn
<1> QED BY <1>1, <1>2, HoldsSentZero

\* Every owner has a number of an mbuf's places.
Counted ==
  \A m \in Mbuf :
    /\ Loops!Holds(posted, m) \in Nat /\ Loops!Holds(filled, m) \in Nat
    /\ Loops!Holds(inring, m) \in Nat /\ Loops!HoldsSent(outring, m) \in Nat
    /\ Loops!Holds(Loops!InHand, m) \in Nat /\ Loops!Holds(kni, m) \in Nat
    /\ Loops!Holds(knifree, m) \in Nat /\ Loops!Users(m) \in Nat

(* The numbers are numbers. *)
LEMMA UsersTyped == LoopTypes => Counted
<1> SUFFICES ASSUME LoopTypes, NEW m \in Mbuf
             PROVE  /\ Loops!Holds(posted, m) \in Nat /\ Loops!Holds(filled, m) \in Nat
                    /\ Loops!Holds(inring, m) \in Nat /\ Loops!HoldsSent(outring, m) \in Nat
                    /\ Loops!Holds(Loops!InHand, m) \in Nat /\ Loops!Holds(kni, m) \in Nat
                    /\ Loops!Holds(knifree, m) \in Nat /\ Loops!Users(m) \in Nat
  BY DEF Counted
<1>1. Loops!Holds(posted, m) \in Nat /\ Loops!Holds(filled, m) \in Nat /\ Loops!Holds(inring, m) \in Nat
  BY HoldsZero DEF LoopTypes
<1>2. Loops!Holds(kni, m) \in Nat /\ Loops!Holds(knifree, m) \in Nat
  BY HoldsZero DEF LoopTypes
<1>3. Loops!HoldsSent(outring, m) \in Nat
  BY HoldsSentZero DEF LoopTypes
<1>4. Loops!Holds(Loops!InHand, m) \in Nat
  BY HoldsZero, InHandSeq
<1>5. Loops!Users(m) \in Nat
  BY <1>1, <1>2, <1>3, <1>4 DEF Loops!Users
<1> QED BY <1>1, <1>2, <1>3, <1>4, <1>5

(* After a step too. *)
LEMMA UsersTypedNext == LoopTypes' => Counted'
BY UsersTyped, PTL

\* Mbufs with the card to be sent, in the pool since.
OutThere == SentIn(txq) \union Range(txdone)
\* An mbuf in use has one owner, and is neither in the pool nor to be sent.
OwnedAt(m) ==
  /\ Loops!Users(m) <= 1
  /\ m \in Range(pool) \union OutThere => Loops!Users(m) = 0
  /\ m \in OutThere \/ Loops!Users(m) # 0 => m <= got
\* Behind the fresh mbufs the pool has used ones.
UsedBehind(q, g) == \A k \in NumMbufs - g + 1..Len(q) : q[k] <= g
\* Nothing in a burst of several frames is for the kernel.
HandsUnmixed == Len(burst) > 1 => \A k \in i..Len(burst) : ~Loops!ToKni(mem[burst[k]])
OwnerFacts == (\A m \in Mbuf : OwnedAt(m)) /\ UsedBehind(pool, got) /\ HandsUnmixed
LoopsOwn == got <= NumMbufs /\ whole /\ lesson # 53 => OwnerFacts

(* Freeing used mbufs. *)
LEMMA UsedFree ==
  ASSUME NEW q \in Seq(Mbuf), NEW s \in Seq(Mbuf), NEW lost, Loops!Free(q, s, lost),
         NEW g \in 0..NumMbufs, UsedBehind(q, g), \A e \in Range(s) : e <= g
  PROVE  UsedBehind(pool', g) /\ Range(pool') \subseteq Range(q) \union Range(s)
<1> DEFINE t == q \o s
           num == Loops!Least(NumMbufs, Len(t))
<1>1. t \in Seq(Mbuf) /\ num \in 0..Len(t) /\ Loops!Put(q, s) = SubSeq(t, 1, num)
  BY PutFits
<1>2. pool' = SubSeq(t, 1, num)
  BY <1>1 DEF Loops!Free
<1>3. /\ Len(q) \in Nat /\ Len(s) \in Nat /\ Len(t) = Len(q) + Len(s)
      /\ \A j \in 1..Len(q) + Len(s) : t[j] = IF j <= Len(q) THEN q[j] ELSE s[j - Len(q)]
  BY ConcatProperties, LenProperties
<1>4. Range(t) = Range(q) \union Range(s)
  BY RangeConcatenation
<1>5. Range(s) = {s[j] : j \in 1..Len(s)}
  BY RangeEquality
<1> HIDE DEF t, num
<1>6. Len(SubSeq(t, 1, num)) = num /\ \A j \in 1..num : SubSeq(t, 1, num)[j] = t[j]
  BY <1>1, Split
<1>7. Range(t) = Range(SubSeq(t, 1, num)) \union Range(SubSeq(t, num + 1, Len(t)))
  BY <1>1, RangeSplit
<1>8. ASSUME NEW k \in NumMbufs - g + 1..num PROVE pool'[k] <= g
  <2>1. k \in 1..num /\ k \in 1..Len(q) + Len(s)
    BY <1>1, <1>3, FramesAssumption
  <2>2. pool'[k] = IF k <= Len(q) THEN q[k] ELSE s[k - Len(q)]
    BY <1>2, <1>3, <1>6, <2>1
  <2>3. CASE k <= Len(q)
    <3>1. k \in NumMbufs - g + 1..Len(q)
      BY <1>3, <2>3, FramesAssumption
    <3> QED BY <2>2, <2>3, <3>1 DEF UsedBehind
  <2>4. CASE ~(k <= Len(q))
    <3>1. k - Len(q) \in 1..Len(s)
      BY <1>3, <2>1, <2>4
    <3> QED BY <1>5, <2>2, <2>4, <3>1
  <2> QED BY <2>3, <2>4
<1> QED BY <1>2, <1>4, <1>6, <1>7, <1>8 DEF UsedBehind

(* Taking fresh mbufs from the pool. *)
LEMMA UsedTaken ==
  ASSUME pool \in Seq(Mbuf), NEW k \in 0..Len(pool), got \in 0..NumMbufs, got + k <= NumMbufs,
         FreshFrom(pool, got), UsedBehind(pool, got)
  PROVE  /\ UsedBehind(SubSeq(pool, k + 1, Len(pool)), got + k)
         /\ \A e \in Range(SubSeq(pool, k + 1, Len(pool))) : e \notin got + 1..got + k
<1> DEFINE r == SubSeq(pool, k + 1, Len(pool))
<1>1. /\ Len(pool) \in Nat /\ k \in Nat /\ got \in Nat /\ NumMbufs \in Nat
      /\ NumMbufs - got <= Len(pool) /\ got + k <= NumMbufs /\ k <= Len(pool)
  BY LenProperties, FramesAssumption DEF FreshFrom
<1>2. /\ r \in Seq(Mbuf) /\ Len(r) = Len(pool) - k /\ \A j \in 1..Len(pool) - k : r[j] = pool[k + j]
  BY Split
<1>3. Range(r) = {r[j] : j \in 1..Len(r)}
  BY <1>2, RangeEquality
<1>4. \A j \in 1..Len(r) : r[j] \in Mbuf
  BY <1>2, ElementOfSeq
<1> HIDE DEF r
<1>5. ASSUME NEW j \in NumMbufs - (got + k) + 1..Len(r) PROVE r[j] <= got
  <2>1. j \in 1..Len(pool) - k /\ k + j \in NumMbufs - got + 1..Len(pool)
    BY <1>1, <1>2
  <2>2. pool[k + j] <= got
    BY <2>1 DEF UsedBehind
  <2> QED BY <1>2, <2>1, <2>2
<1>6. ASSUME NEW j \in 1..Len(r) PROVE r[j] \notin got + 1..got + k
  <2>1. r[j] \in Nat
    BY <1>1, <1>4 DEF Mbuf
  <2>2. CASE j \in NumMbufs - (got + k) + 1..Len(r)
    BY <1>1, <1>5, <2>1, <2>2
  <2>3. CASE j \notin NumMbufs - (got + k) + 1..Len(r)
    <3>1. j \in 1..Len(pool) - k /\ k + j \in 1..NumMbufs - got
      BY <1>1, <1>2, <2>3
    <3>2. r[j] = got + (k + j)
      BY <1>2, <3>1 DEF FreshFrom
    <3> QED BY <1>1, <3>1, <3>2
  <2> QED BY <2>2, <2>3
<1>7. ASSUME NEW j \in NumMbufs - (got + k) + 1..Len(r) PROVE r[j] <= got + k
  <2>1. r[j] <= got
    BY <1>5
  <2>2. j \in 1..Len(r)
    BY <1>1
  <2>3. r[j] \in Nat
    BY <1>1, <1>4, <2>2 DEF Mbuf
  <2> QED BY <1>1, <2>1, <2>3
<1> QED BY <1>3, <1>6, <1>7 DEF UsedBehind, r

(* Taking one. *)
LEMMA UsedHead ==
  ASSUME pool \in Seq(Mbuf), pool # <<>>, got \in 0..NumMbufs, got < NumMbufs,
         FreshFrom(pool, got), UsedBehind(pool, got)
  PROVE  UsedBehind(Tail(pool), got + 1) /\ got + 1 \notin Range(Tail(pool))
<1> DEFINE r == Tail(pool)
<1>1. /\ Len(r) = Len(pool) - 1 /\ Len(pool) \in Nat /\ r \in Seq(Mbuf)
      /\ \A k \in 1..Len(r) : r[k] = pool[k + 1]
  BY HeadTailProperties, LenProperties
<1>2. NumMbufs \in Nat /\ got \in Nat /\ NumMbufs - got <= Len(pool)
  BY FramesAssumption DEF FreshFrom
<1>3. Range(r) = {r[j] : j \in 1..Len(r)} /\ \A j \in 1..Len(r) : r[j] \in Mbuf
  BY <1>1, RangeEquality, ElementOfSeq
<1> HIDE DEF r
<1>4. ASSUME NEW j \in NumMbufs - (got + 1) + 1..Len(r) PROVE r[j] <= got
  <2>1. j \in 1..Len(r) /\ j + 1 \in NumMbufs - got + 1..Len(pool)
    BY <1>1, <1>2
  <2> QED BY <1>1, <2>1 DEF UsedBehind
<1>5. ASSUME NEW j \in 1..Len(r) PROVE r[j] # got + 1
  <2>1. CASE j \in NumMbufs - (got + 1) + 1..Len(r)
    BY <1>2, <1>4, <2>1
  <2>2. CASE j \notin NumMbufs - (got + 1) + 1..Len(r)
    <3>1. j + 1 \in 1..NumMbufs - got
      BY <1>1, <1>2, <2>2
    <3>2. r[j] = got + (j + 1)
      BY <1>1, <3>1 DEF FreshFrom
    <3> QED BY <1>1, <1>2, <3>2
  <2> QED BY <2>1, <2>2
<1>6. ASSUME NEW j \in NumMbufs - (got + 1) + 1..Len(r) PROVE r[j] <= got + 1
  <2>1. j \in 1..Len(r) /\ r[j] <= got
    BY <1>2, <1>4
  <2>2. r[j] \in Nat
    BY <1>3, <2>1 DEF Mbuf
  <2> QED BY <1>2, <2>1, <2>2
<1> QED BY <1>3, <1>5, <1>6 DEF UsedBehind, r

(* Fresh mbufs are taken once each. *)
LEMMA TakenOnce ==
  ASSUME NEW s \in Seq(Mbuf), NEW g \in Nat, \A j \in 1..Len(s) : s[j] = g + j, NEW m \in Mbuf
  PROVE  Loops!Holds(s, m) \in {0, 1} /\ (Loops!Holds(s, m) = 1 <=> m \in Range(s))
<1> DEFINE P == {k \in 1..Len(s) : s[k] = m}
<1>1. Len(s) \in Nat /\ m \in Nat
  BY LenProperties, FramesAssumption DEF Mbuf
<1>2. P \subseteq {m - g}
  <2>1. ASSUME NEW k \in P PROVE k = m - g
    BY <1>1
  <2> QED BY <2>1
<1>3. IsFiniteSet({m - g}) /\ Cardinality({m - g}) = 1
  BY FS_Singleton
<1>4. IsFiniteSet(P) /\ Cardinality(P) <= 1 /\ Cardinality(P) \in Nat
  <2>1. IsFiniteSet(P) /\ Cardinality(P) <= 1
    BY <1>2, <1>3, FS_Subset
  <2> QED BY <2>1, FS_CardinalityType
<1>5. Loops!Holds(s, m) = Cardinality(P)
  BY LoopsCardinality DEF Loops!Holds
<1>6. Loops!Holds(s, m) = 0 <=> m \notin Range(s)
  BY HoldsZero
<1> HIDE DEF P
<1> QED BY <1>4, <1>5, <1>6

(* What an mbuf must fulfil when nothing is taken. *)
LEMMA OwnedKept ==
  ASSUME NEW m \in Mbuf, OwnedAt(m), Loops!Users(m) \in Nat, Loops!Users(m)' \in Nat,
         Loops!Users(m)' <= Loops!Users(m), got \in Nat, got' \in Nat, got <= got',
         m \in Range(pool') \union OutThere'
           => m \in Range(pool) \union OutThere \/ Loops!Users(m)' = 0,
         m \in OutThere' => m <= got'
  PROVE  OwnedAt(m)'
<1> DEFINE u == Loops!Users(m)
           v == Loops!Users(m)'
<1>1. /\ u <= 1 /\ (m \in Range(pool) \union OutThere => u = 0)
      /\ (m \in OutThere \/ u # 0 => m <= got) /\ u \in Nat /\ v \in Nat /\ v <= u
  BY DEF OwnedAt
<1>2. m \in Nat
  BY FramesAssumption DEF Mbuf
<1> HIDE DEF u, v
<1>3. v <= 1 /\ (v # 0 => u # 0)
  BY <1>1
<1>4. m \in Range(pool') \union OutThere' => v = 0
  <2>1. u = 0 => v = 0
    BY <1>3
  <2> QED BY <1>1, <2>1 DEF v
<1>5. m \in OutThere' \/ v # 0 => m <= got'
  <2>1. m <= got => m <= got'
    BY <1>2
  <2> QED BY <1>1, <1>3, <2>1
<1> QED BY <1>3, <1>4, <1>5 DEF OwnedAt, v

(* What it must fulfil when it may be taken. *)
LEMMA OwnedTaken ==
  ASSUME NEW m \in Mbuf, OwnedAt(m), Loops!Users(m) \in Nat, Loops!Users(m)' \in Nat,
         NEW num \in {0, 1}, Loops!Users(m)' <= Loops!Users(m) + num,
         got \in Nat, got' \in Nat, got <= got', Range(pool') \subseteq Range(pool),
         OutThere' = OutThere,
         num = 1 => m \in Range(pool) /\ m \notin Range(pool') /\ ~(m <= got) /\ m <= got'
  PROVE  OwnedAt(m)'
<1> DEFINE u == Loops!Users(m)
           v == Loops!Users(m)'
<1>1. /\ u <= 1 /\ (m \in Range(pool) \union OutThere => u = 0)
      /\ (m \in OutThere \/ u # 0 => m <= got) /\ u \in Nat /\ v \in Nat /\ v <= u + num
  BY DEF OwnedAt
<1>2. m \in Nat
  BY FramesAssumption DEF Mbuf
<1> HIDE DEF u, v
<1>3. CASE num = 0
  <2>1. v <= u
    BY <1>1, <1>3
  <2>2. m \in Range(pool') \union OutThere'
           => m \in Range(pool) \union OutThere \/ v = 0
    OBVIOUS
  <2>3. m \in OutThere' => m <= got'
    <3>1. m <= got => m <= got'
      BY <1>2
    <3> QED BY <1>1, <3>1
  <2> QED BY <1>1, <2>1, <2>2, <2>3, OwnedKept DEF u, v
<1>4. CASE num = 1
  <2>1. u = 0 /\ m \notin OutThere' /\ m <= got' /\ m \notin Range(pool')
    BY <1>1, <1>4
  <2>2. v <= 1
    BY <1>1, <1>4, <2>1
  <2> QED BY <2>1, <2>2 DEF OwnedAt, v
<1> QED BY <1>3, <1>4

(* What is in hand stays unmixed. *)
LEMMA UnmixedKept ==
  ASSUME LoopTypes, HandsUnmixed, lesson' = lesson, burst' = burst, NEW j \in Nat, i' = j, i <= j,
         \A k \in i..Len(burst) : mem'[burst[k]] = mem[burst[k]]
  PROVE  HandsUnmixed'
<1>1. i \in Nat /\ Len(burst) \in Nat
  BY LenProperties DEF LoopTypes
<1>2. \A k \in j..Len(burst) : k \in i..Len(burst)
  BY <1>1
<1>3. \A k \in i..Len(burst) : Loops!ToKni(mem[burst[k]])' <=> Loops!ToKni(mem[burst[k]])
  BY DEF Loops!ToKni, Loops!WithKni
<1> QED BY <1>2, <1>3 DEF HandsUnmixed

(* A step that leaves the owners, the pool and what is in hand alone. *)
LEMMA OwnUntouched ==
  ASSUME LoopTypes, LoopsOwn,
         UNCHANGED <<lesson, mem, pool, posted, filled, txq, txdone, inring, outring, burst, i,
                     kni, knifree, got, whole>>
  PROVE  LoopsOwn'
<1>1. Loops!InHand' = Loops!InHand
  BY DEF Loops!InHand
<1>2. \A m : Loops!Users(m)' = Loops!Users(m)
  BY <1>1 DEF Loops!Users
<1>3. OutThere' = OutThere
  BY DEF OutThere, SentIn
<1>4. HandsUnmixed' <=> HandsUnmixed
  BY DEF HandsUnmixed, Loops!ToKni, Loops!WithKni
<1>5. UsedBehind(pool, got)' <=> UsedBehind(pool, got)
  BY DEF UsedBehind
<1>6. \A m \in Mbuf : OwnedAt(m)' <=> OwnedAt(m)
  BY <1>2, <1>3 DEF OwnedAt
<1> QED BY <1>4, <1>5, <1>6 DEF LoopsOwn, OwnerFacts

(* An mbuf that the card may receive into is not in hand. *)
LEMMA PostedNotInHand ==
  ASSUME LoopTypes, NEW m \in Mbuf, OwnedAt(m), m \in Range(posted)
  PROVE  m \notin Range(Loops!InHand)
<1> DEFINE a == Loops!Holds(posted, m)
           b == Loops!Holds(filled, m)
           c == Loops!Holds(inring, m)
           d == Loops!HoldsSent(outring, m)
           e == Loops!Holds(Loops!InHand, m)
           f == Loops!Holds(kni, m)
           g == Loops!Holds(knifree, m)
<1>1. /\ a \in Nat /\ b \in Nat /\ c \in Nat /\ d \in Nat /\ e \in Nat /\ f \in Nat /\ g \in Nat
  BY UsersTyped DEF Counted
<1>2. a + b + c + d + e + f + g <= 1
  BY DEF OwnedAt, Loops!Users
<1>3. a # 0 /\ (e = 0 <=> m \notin Range(Loops!InHand))
  BY HoldsZero, InHandSeq DEF LoopTypes
<1> HIDE DEF a, b, c, d, e, f, g
<1>4. e = 0
  BY <1>1, <1>2, <1>3
<1> QED BY <1>3, <1>4

(* Receiving a frame moves its mbuf. *)
LEMMA ArriveOwn ==
  ASSUME LoopTypes, LoopsOwn, NEW fr \in Loops!Wire, Loops!Arrive(fr)
  PROVE  LoopsOwn'
<1>1. /\ posted # <<>> /\ mem' = [mem EXCEPT ![Head(posted)] = fr]
      /\ filled' = Append(filled, Head(posted)) /\ posted' = Tail(posted)
      /\ UNCHANGED <<lesson, pool, txq, txdone, inring, outring, burst, i, kni, knifree, got, whole>>
  BY DEF Loops!Arrive, Loops!rings, Loops!kernel
<1> SUFFICES ASSUME got' <= NumMbufs, whole', lesson' # 53 PROVE OwnerFacts'
  BY DEF LoopsOwn
<1>2. OwnerFacts
  BY <1>1 DEF LoopsOwn
<1>3. LoopTypes'
  BY ArriveTypes
<1>4. Loops!InHand' = Loops!InHand /\ OutThere' = OutThere
  BY <1>1 DEF Loops!InHand, OutThere, SentIn
<1>5. Head(posted) \in Mbuf
  BY <1>1, HeadTailProperties DEF LoopTypes
<1>6. got \in Nat /\ got' \in Nat /\ got' = got
  BY <1>1, FramesAssumption DEF LoopTypes
<1>7. ASSUME NEW m \in Mbuf PROVE OwnedAt(m)'
  <2> DEFINE a == Loops!Holds(posted, m)
             b == Loops!Holds(filled, m)
             a2 == Loops!Holds(posted', m)
             b2 == Loops!Holds(filled', m)
             c == Loops!Holds(inring, m)
             d == Loops!HoldsSent(outring, m)
             e == Loops!Holds(Loops!InHand, m)
             f == Loops!Holds(kni, m)
             g == Loops!Holds(knifree, m)
             h == Loops!Holds(<<Head(posted)>>, m)
  <2>1. /\ a \in Nat /\ b \in Nat /\ c \in Nat /\ d \in Nat /\ e \in Nat /\ f \in Nat /\ g \in Nat
        /\ Loops!Users(m) \in Nat
    BY UsersTyped DEF Counted
  <2>2. Loops!Users(m)' \in Nat /\ a2 \in Nat /\ b2 \in Nat
    BY <1>3, UsersTypedNext DEF Counted
  <2>3. /\ Loops!Users(m) = a + b + c + d + e + f + g
        /\ Loops!Users(m)' = a2 + b2 + c + d + e + f + g
    BY <1>1, <1>4 DEF Loops!Users
  <2>4. a = h + a2
    BY <1>1, HoldsTail DEF LoopTypes
  <2>5. b2 = b + h
    BY <1>1, <1>5, HoldsAppend DEF LoopTypes
  <2>6. h \in Nat
    BY HoldsOne
  <2> HIDE DEF a, b, a2, b2, c, d, e, f, g, h
  <2>7. Loops!Users(m)' = Loops!Users(m)
    BY <2>1, <2>2, <2>3, <2>4, <2>5, <2>6
  <2>8. OwnedAt(m)
    BY <1>2 DEF OwnerFacts
  <2>9. Loops!Users(m)' <= Loops!Users(m) /\ got <= got'
    BY <1>6, <2>1, <2>7
  <2>10. /\ m \in Range(pool') \union OutThere' => m \in Range(pool) \union OutThere
         /\ m \in OutThere' => m <= got'
    BY <1>1, <1>4, <2>8 DEF OwnedAt
  <2> QED BY <1>6, <2>1, <2>2, <2>8, <2>9, <2>10, OwnedKept
<1>8. UsedBehind(pool', got')
  BY <1>1, <1>2 DEF OwnerFacts
<1>9. HandsUnmixed'
  <2>1. ASSUME NEW k \in i..Len(burst) PROVE mem'[burst[k]] = mem[burst[k]]
    <3>1. burst \in Seq(Mbuf) /\ Len(burst) \in Nat /\ burst # <<>> /\ i \in 1..Len(burst)
      <4>1. i \in Nat /\ Len(burst) \in Nat /\ burst \in Seq(Mbuf)
        BY LenProperties DEF LoopTypes
      <4>2. CASE burst = <<>>
        <5>1. i = 1 /\ Len(burst) = 0
          BY <4>2, EmptySeq DEF LoopTypes
        <5> QED BY <5>1
      <4> QED BY <4>1, <4>2 DEF LoopTypes
    <3>2. Loops!InHand = SubSeq(burst, i, Len(burst))
      BY <1>1, <3>1 DEF Loops!InHand
    <3>3. burst[k] \in Range(Loops!InHand)
      BY <3>1, <3>2, HandRange
    <3>4. k \in 1..Len(burst)
      BY <3>1
    <3>5. burst[k] \in Mbuf
      BY <3>1, <3>4, ElementOfSeq
    <3>6. Head(posted) \in Range(posted)
      BY <1>1, RangeTail DEF LoopTypes
    <3>7. Head(posted) \notin Range(Loops!InHand)
      BY <1>2, <1>5, <3>6, PostedNotInHand DEF OwnerFacts
    <3> QED BY <1>1, <1>5, <3>3, <3>5, <3>7 DEF LoopTypes
  <2>2. i \in Nat /\ i' = i /\ i <= i
    BY <1>1 DEF LoopTypes
  <2> QED BY <1>1, <1>2, <2>1, <2>2, UnmixedKept DEF OwnerFacts
<1> QED BY <1>7, <1>8, <1>9 DEF OwnerFacts

(* What the driver takes of the pool is taken once. *)
LEMMA RxBurstOwn ==
  ASSUME LoopTypes, LoopsAnswer, OwnerFacts, Loops!rx_burst, got' <= NumMbufs
  PROVE  /\ got \in Nat /\ got' \in Nat /\ got <= got' /\ got <= NumMbufs
         /\ UsedBehind(pool', got') /\ Range(pool') \subseteq Range(pool)
         /\ \A m \in Mbuf :
              /\ Loops!Holds(SubSeq(pool, 1, Loops!Polled), m) \in {0, 1}
              /\ Loops!Holds(SubSeq(pool, 1, Loops!Polled), m) = 1
                   => m \in Range(pool) /\ m \notin Range(pool') /\ ~(m <= got) /\ m <= got'
              /\ Loops!Holds(posted', m)
                   = Loops!Holds(posted, m) + Loops!Holds(SubSeq(pool, 1, Loops!Polled), m)
              /\ Loops!Holds(filled, m)
                   = Loops!Holds(SubSeq(filled, 1, Loops!Polled), m) + Loops!Holds(filled', m)
<1> DEFINE host == Loops!Polled
           s == SubSeq(pool, 1, host)
<1>1. /\ host \in 0..Len(filled) /\ host \in 0..Len(pool)
      /\ filled' = SubSeq(filled, host + 1, Len(filled)) /\ posted' = posted \o s
      /\ pool' = SubSeq(pool, host + 1, Len(pool)) /\ got' = Loops!Least(got + host, NumMbufs + 1)
      /\ s \in Seq(Mbuf)
  BY RxBurst
<1>2. /\ got \in 0..NumMbufs + 1 /\ NumMbufs \in Nat /\ host \in Nat
      /\ posted \in Seq(Mbuf) /\ filled \in Seq(Mbuf) /\ pool \in Seq(Mbuf)
  BY <1>1, FramesAssumption, LenProperties DEF LoopTypes
<1>3. got' = got + host /\ got + host <= NumMbufs /\ got <= NumMbufs /\ got \in Nat /\ got \in 0..NumMbufs
  <2> HIDE DEF host
  <2>1. got + host \in Nat
    BY <1>2
  <2> QED BY <1>1, <1>2, <2>1 DEF Loops!Least
<1>4. FreshFrom(pool, got) /\ UsedBehind(pool, got)
  BY <1>3 DEF LoopsAnswer, AnswerFacts, OwnerFacts
<1> HIDE DEF host
<1>5. UsedBehind(pool', got') /\ \A e \in Range(pool') : e \notin got + 1..got + host
  BY <1>1, <1>2, <1>3, <1>4, UsedTaken
<1>6. Range(s) \subseteq got + 1..got + host /\ \A j \in 1..host : s[j] = got + j
  BY <1>1, <1>2, <1>3, <1>4, FreshTaken
<1>7. Range(pool) = Range(s) \union Range(pool')
  BY <1>1, <1>2, RangeSplit
<1>8. Len(s) = host
  BY <1>1, <1>2, Split
<1>9. ASSUME NEW m \in Mbuf
      PROVE  /\ Loops!Holds(s, m) \in {0, 1}
             /\ Loops!Holds(s, m) = 1
                  => m \in Range(pool) /\ m \notin Range(pool') /\ ~(m <= got) /\ m <= got'
             /\ Loops!Holds(posted', m) = Loops!Holds(posted, m) + Loops!Holds(s, m)
             /\ Loops!Holds(filled, m) = Loops!Holds(SubSeq(filled, 1, host), m) + Loops!Holds(filled', m)
  <2> HIDE DEF s
  <2>1. Loops!Holds(s, m) \in {0, 1} /\ (Loops!Holds(s, m) = 1 <=> m \in Range(s))
    BY <1>1, <1>3, <1>6, <1>8, TakenOnce
  <2>2. m \in Range(s) => m \in Range(pool) /\ m \notin Range(pool') /\ ~(m <= got) /\ m <= got'
    <3>1. SUFFICES ASSUME m \in Range(s)
                   PROVE  m \in Range(pool) /\ m \notin Range(pool') /\ ~(m <= got) /\ m <= got'
      OBVIOUS
    <3>2. m \in got + 1..got + host
      BY <1>6, <3>1
    <3> QED BY <1>2, <1>3, <1>5, <1>7, <3>1, <3>2
  <2>3. Loops!Holds(posted', m) = Loops!Holds(posted, m) + Loops!Holds(s, m)
    BY <1>1, <1>2, HoldsConcat
  <2>4. Loops!Holds(filled, m) = Loops!Holds(SubSeq(filled, 1, host), m) + Loops!Holds(filled', m)
    BY <1>1, <1>2, HoldsSplit
  <2> QED BY <2>1, <2>2, <2>3, <2>4
<1>10. got' \in Nat /\ got <= got'
  BY <1>2, <1>3
<1> QED BY <1>3, <1>5, <1>7, <1>9, <1>10 DEF host

(* What the loop of lessons 01 to 05 takes has one owner. *)
LEMMA PollAndHandleOwn ==
  ASSUME LoopTypes, LoopsAnswer, LoopsOwn, Loops!PollAndHandle
  PROVE  LoopsOwn'
<1>1. /\ Loops!rx_burst /\ burst = <<>> /\ burst' = SubSeq(filled, 1, Loops!Polled) /\ i' = 1
      /\ whole' = (whole /\ ~Loops!Mixed(burst'))
      /\ UNCHANGED <<lesson, mem, txq, txdone, inring, outring, kni, knifree>>
  BY DEF Loops!PollAndHandle, Loops!rings, Loops!kernel
<1> SUFFICES ASSUME got' <= NumMbufs, whole', lesson' # 53 PROVE OwnerFacts'
  BY DEF LoopsOwn
<1>2. OwnerFacts
  <2>1. got <= NumMbufs
    <3>1. got' = Loops!Least(got + Loops!Polled, NumMbufs + 1) /\ Loops!Polled \in 0..Len(pool)
      BY <1>1, RxBurst
    <3>2. got \in Nat /\ NumMbufs \in Nat /\ Loops!Polled \in Nat
      BY <3>1, FramesAssumption, LenProperties DEF LoopTypes
    <3> QED BY <3>1, <3>2 DEF Loops!Least
  <2>2. whole
    BY <1>1
  <2> QED BY <1>1, <2>1, <2>2 DEF LoopsOwn
<1>3. LoopTypes'
  BY PollAndHandleTypes
<1>4. burst' \in Seq(Mbuf)
  BY <1>3 DEF LoopTypes
<1>5. Loops!InHand = <<>> /\ Loops!InHand' = burst'
  <2>1. SubSeq(burst', 1, Len(burst')) = burst'
    BY <1>4, SubSeqFull
  <2> QED BY <1>1, <2>1 DEF Loops!InHand
<1>6. OutThere' = OutThere
  BY <1>1 DEF OutThere, SentIn
<1>7. /\ got \in Nat /\ got' \in Nat /\ got <= got'
      /\ UsedBehind(pool', got') /\ Range(pool') \subseteq Range(pool)
  BY <1>1, <1>2, RxBurstOwn
<1>8. ASSUME NEW m \in Mbuf PROVE OwnedAt(m)'
  <2> DEFINE a == Loops!Holds(posted, m)
             b == Loops!Holds(filled, m)
             a2 == Loops!Holds(posted', m)
             b2 == Loops!Holds(filled', m)
             c == Loops!Holds(inring, m)
             d == Loops!HoldsSent(outring, m)
             e == Loops!Holds(Loops!InHand, m)
             e2 == Loops!Holds(burst', m)
             f == Loops!Holds(kni, m)
             g == Loops!Holds(knifree, m)
             num == Loops!Holds(SubSeq(pool, 1, Loops!Polled), m)
  <2>1. /\ a \in Nat /\ b \in Nat /\ c \in Nat /\ d \in Nat /\ f \in Nat /\ g \in Nat
        /\ Loops!Users(m) \in Nat
    BY UsersTyped DEF Counted
  <2>2. Loops!Users(m)' \in Nat /\ a2 \in Nat /\ b2 \in Nat
    BY <1>3, UsersTypedNext DEF Counted
  <2>3. e2 \in Nat
    BY <1>4, HoldsZero
  <2>4. /\ Loops!Users(m) = a + b + c + d + e + f + g
        /\ Loops!Users(m)' = a2 + b2 + c + d + e2 + f + g
    BY <1>1, <1>5 DEF Loops!Users
  <2>5. e = 0
    BY <1>5, HoldsEmpty
  <2>6. /\ num \in {0, 1} /\ a2 = a + num /\ b = e2 + b2
        /\ num = 1 => m \in Range(pool) /\ m \notin Range(pool') /\ ~(m <= got) /\ m <= got'
    BY <1>1, <1>2, RxBurstOwn
  <2> HIDE DEF a, b, a2, b2, c, d, e, e2, f, g, num
  <2>7. Loops!Users(m)' <= Loops!Users(m) + num
    BY <2>1, <2>2, <2>3, <2>4, <2>5, <2>6
  <2>8. OwnedAt(m)
    BY <1>2 DEF OwnerFacts
  <2> QED BY <1>6, <1>7, <2>1, <2>2, <2>6, <2>7, <2>8, OwnedTaken
<1>9. HandsUnmixed'
  <2>1. ~Loops!Mixed(burst')
    BY <1>1
  <2>2. mem' = mem /\ lesson' = lesson /\ i' = 1
    BY <1>1
  <2> QED BY <2>1, <2>2 DEF HandsUnmixed, Loops!Mixed, Loops!ToKni, Loops!WithKni
<1> QED BY <1>7, <1>8, <1>9 DEF OwnerFacts

(* What the in ring takes has one owner, what it refuses none. *)
LEMMA PollToRingOwn ==
  ASSUME LoopTypes, LoopsAnswer, LoopsOwn, Loops!PollToRing
  PROVE  LoopsOwn'
<1> DEFINE room == Loops!Least(RingSize - Len(inring), Loops!Polled)
           host == Loops!Polled
           s == SubSeq(filled, 1, host)
           fst == SubSeq(filled, 1, room)
<1>1. /\ Loops!rx_burst /\ inring' = inring \o fst
      /\ UNCHANGED <<lesson, mem, txq, txdone, outring, burst, i, kni, knifree, whole>>
  BY DEF Loops!PollToRing, Loops!kernel, Loops!history
<1> SUFFICES ASSUME got' <= NumMbufs, whole', lesson' # 53 PROVE OwnerFacts'
  BY DEF LoopsOwn
<1>2. OwnerFacts
  <2>1. got <= NumMbufs
    <3>1. got' = Loops!Least(got + Loops!Polled, NumMbufs + 1) /\ Loops!Polled \in 0..Len(pool)
      BY <1>1, RxBurst
    <3>2. got \in Nat /\ NumMbufs \in Nat /\ Loops!Polled \in Nat
      BY <3>1, FramesAssumption, LenProperties DEF LoopTypes
    <3> QED BY <3>1, <3>2 DEF Loops!Least
  <2> QED BY <1>1, <2>1 DEF LoopsOwn
<1>3. LoopTypes'
  BY PollToRingTypes
<1>4. Loops!InHand' = Loops!InHand /\ OutThere' = OutThere
  BY <1>1 DEF Loops!InHand, OutThere, SentIn
<1>5. /\ got \in Nat /\ got' \in Nat /\ got <= got'
      /\ UsedBehind(pool', got') /\ Range(pool') \subseteq Range(pool)
  BY <1>1, <1>2, RxBurstOwn
<1>6. /\ room \in 0..host /\ host \in 0..Len(filled) /\ Len(filled) \in Nat
      /\ filled \in Seq(Mbuf) /\ inring \in Seq(Mbuf)
  <2>1. host \in 0..Len(filled) /\ Len(filled) \in Nat
    BY <1>1, RxBurst, LenProperties DEF LoopTypes
  <2>2. Len(inring) \in Nat /\ Len(inring) <= RingSize /\ RingSize \in Nat
    BY FramesAssumption, LenProperties DEF LoopTypes
  <2> HIDE DEF host
  <2>3. Loops!Least(RingSize - Len(inring), host) \in 0..host
    BY <2>1, <2>2 DEF Loops!Least
  <2> QED BY <2>1, <2>3 DEF LoopTypes, host
<1> HIDE DEF room, host
<1>7. s \in Seq(Mbuf) /\ Len(s) = host /\ \A j \in 1..host : s[j] = filled[j]
  BY <1>6, Split
<1>8. fst \in Seq(Mbuf) /\ Len(fst) = room /\ \A j \in 1..room : fst[j] = filled[j]
  <2>1. room \in 0..Len(filled)
    BY <1>6
  <2> QED BY <1>6, <2>1, Split
<1> HIDE DEF s, fst
<1>9. SubSeq(s, 1, room) = fst /\ SubSeq(s, room + 1, Len(s)) \in Seq(Mbuf)
  <2>1. /\ SubSeq(s, 1, room) \in Seq(Mbuf) /\ Len(SubSeq(s, 1, room)) = room
        /\ \A j \in 1..room : SubSeq(s, 1, room)[j] = s[j]
        /\ SubSeq(s, room + 1, Len(s)) \in Seq(Mbuf)
    BY <1>6, <1>7, Split
  <2>2. \A j \in 1..room : SubSeq(s, 1, room)[j] = fst[j]
    BY <1>6, <1>7, <1>8, <2>1
  <2> QED BY <1>8, <2>1, <2>2, SeqEqual
<1>10. ASSUME NEW m \in Mbuf PROVE OwnedAt(m)'
  <2> DEFINE a == Loops!Holds(posted, m)
             b == Loops!Holds(filled, m)
             a2 == Loops!Holds(posted', m)
             b2 == Loops!Holds(filled', m)
             c == Loops!Holds(inring, m)
             c2 == Loops!Holds(inring', m)
             d == Loops!HoldsSent(outring, m)
             e == Loops!Holds(Loops!InHand, m)
             f == Loops!Holds(kni, m)
             g == Loops!Holds(knifree, m)
             num == Loops!Holds(SubSeq(pool, 1, Loops!Polled), m)
             snd == Loops!Holds(s, m)
             z == Loops!Holds(fst, m)
             w == Loops!Holds(SubSeq(s, room + 1, Len(s)), m)
  <2>1. /\ a \in Nat /\ b \in Nat /\ c \in Nat /\ d \in Nat /\ e \in Nat /\ f \in Nat /\ g \in Nat
        /\ Loops!Users(m) \in Nat
    BY UsersTyped DEF Counted
  <2>2. Loops!Users(m)' \in Nat /\ a2 \in Nat /\ b2 \in Nat /\ c2 \in Nat
    BY <1>3, UsersTypedNext DEF Counted
  <2>3. /\ Loops!Users(m) = a + b + c + d + e + f + g
        /\ Loops!Users(m)' = a2 + b2 + c2 + d + e + f + g
    BY <1>1, <1>4 DEF Loops!Users
  <2>4. c2 = c + z
    BY <1>1, <1>6, <1>8, HoldsConcat
  <2>5. snd = z + w /\ z \in Nat /\ w \in Nat /\ snd \in Nat
    <3>1. room \in 0..Len(s)
      BY <1>6, <1>7
    <3>2. snd = Loops!Holds(SubSeq(s, 1, room), m) + w
      BY <1>7, <3>1, HoldsSplit
    <3>3. z \in Nat /\ w \in Nat /\ snd \in Nat
      BY <1>7, <1>8, <1>9, HoldsZero
    <3> QED BY <1>9, <3>2, <3>3
  <2>6. /\ num \in {0, 1} /\ a2 = a + num /\ b = snd + b2
        /\ num = 1 => m \in Range(pool) /\ m \notin Range(pool') /\ ~(m <= got) /\ m <= got'
    BY <1>1, <1>2, RxBurstOwn DEF host, s
  <2> HIDE DEF a, b, a2, b2, c, c2, d, e, f, g, num, snd, z, w
  <2>7. Loops!Users(m)' <= Loops!Users(m) + num
    BY <2>1, <2>2, <2>3, <2>4, <2>5, <2>6
  <2>8. OwnedAt(m)
    BY <1>2 DEF OwnerFacts
  <2> QED BY <1>4, <1>5, <2>1, <2>2, <2>6, <2>7, <2>8, OwnedTaken
<1>11. HandsUnmixed'
  BY <1>1, <1>2 DEF OwnerFacts, HandsUnmixed, Loops!ToKni, Loops!WithKni
<1> QED BY <1>5, <1>10, <1>11 DEF OwnerFacts

(* What leaves the out ring is the card's to send, and the pool's. *)
LEMMA SendFromRingOwn ==
  ASSUME LoopTypes, LoopsAnswer, LoopsOwn, Loops!SendFromRing
  PROVE  LoopsOwn'
<1>1. /\ txq' = txq \o outring /\ outring' = <<>>
      /\ IF outring = <<>> THEN UNCHANGED <<pool, forgot, txdone>>
         ELSE Loops!Free(pool, txdone \o MbufsOf(outring), 0) /\ txdone' = <<>>
      /\ UNCHANGED <<lesson, mem, posted, filled, inring, burst, i, kni, knifree, got, whole>>
  BY DEF Loops!SendFromRing, Loops!kernel, Loops!history, MbufsOf
<1> SUFFICES ASSUME got' <= NumMbufs, whole', lesson' # 53 PROVE OwnerFacts'
  BY DEF LoopsOwn
<1>2. OwnerFacts
  BY <1>1 DEF LoopsOwn
<1>3. LoopTypes'
  BY SendFromRingTypes
<1>4. Loops!InHand' = Loops!InHand
  BY <1>1 DEF Loops!InHand
<1>5. /\ outring \in Seq(Handover) /\ txq \in Seq(Handover) /\ txdone \in Seq(Mbuf)
      /\ pool \in Seq(Mbuf)
  BY DEF LoopTypes
<1>6. got \in Nat /\ got' = got /\ got \in 0..NumMbufs
  BY <1>1, FramesAssumption DEF LoopTypes
<1>7. OutThere' \subseteq OutThere \union SentIn(outring)
  <2>1. Range(txq \o outring) = Range(txq) \union Range(outring)
    BY <1>5, RangeConcatenation
  <2>2. txdone' = txdone \/ txdone' = <<>>
    BY <1>1
  <2> QED BY <1>1, <2>1, <2>2, RangeEmpty DEF SentIn, OutThere
<1>8. \A m \in OutThere \union SentIn(outring) : m \in Mbuf /\ m <= got
  <2>1. \A h \in Range(outring) \union Range(txq) : h.m \in 1..got /\ h.m \in Mbuf
    <3>1. AnswerFacts
      BY <1>6 DEF LoopsAnswer
    <3> QED BY <3>1, RangesTyped DEF AnswerFacts, OnItsWay, Handover
  <2>2. \A m \in Range(txdone) : m \in Mbuf
    BY <1>5, RangeOfSeq
  <2>3. \A m \in Range(txdone) : m <= got
    BY <1>2, <2>2 DEF OwnerFacts, OwnedAt, OutThere
  <2>4. \A h \in Range(outring) \union Range(txq) : h.m <= got
    BY <1>6, <2>1
  <2> QED BY <2>1, <2>2, <2>3, <2>4 DEF SentIn, OutThere
<1>9. UsedBehind(pool', got') /\ Range(pool') \subseteq Range(pool) \union Range(txdone) \union SentIn(outring)
  <2>1. CASE outring = <<>>
    BY <1>1, <1>2, <2>1 DEF OwnerFacts
  <2>2. CASE outring # <<>>
    <3> DEFINE s == txdone \o MbufsOf(outring)
    <3>1. MbufsOf(outring) \in Seq(Mbuf)
      BY <1>5, MbufsOfSeq
    <3>2. s \in Seq(Mbuf) /\ Range(s) = Range(txdone) \union SentIn(outring)
      BY <1>5, <3>1, ConcatProperties, RangeConcatenation, SentInRing
    <3>3. Loops!Free(pool, s, 0) /\ \A e \in Range(s) : e <= got
      BY <1>1, <1>8, <2>2, <3>2 DEF OutThere
    <3> HIDE DEF s
    <3>4. UsedBehind(pool, got)
      BY <1>2 DEF OwnerFacts
    <3> QED BY <1>5, <1>6, <3>2, <3>3, <3>4, UsedFree
  <2> QED BY <2>1, <2>2
<1>10. ASSUME NEW m \in Mbuf PROVE OwnedAt(m)'
  <2> DEFINE a == Loops!Holds(posted, m)
             b == Loops!Holds(filled, m)
             c == Loops!Holds(inring, m)
             d == Loops!HoldsSent(outring, m)
             d2 == Loops!HoldsSent(outring', m)
             e == Loops!Holds(Loops!InHand, m)
             f == Loops!Holds(kni, m)
             g == Loops!Holds(knifree, m)
  <2>1. /\ a \in Nat /\ b \in Nat /\ c \in Nat /\ d \in Nat /\ e \in Nat /\ f \in Nat /\ g \in Nat
        /\ Loops!Users(m) \in Nat
    BY UsersTyped DEF Counted
  <2>2. Loops!Users(m)' \in Nat
    BY <1>3, UsersTypedNext DEF Counted
  <2>3. /\ Loops!Users(m) = a + b + c + d + e + f + g
        /\ Loops!Users(m)' = a + b + c + d2 + e + f + g
    BY <1>1, <1>4 DEF Loops!Users
  <2>4. d2 = 0
    BY <1>1, HoldsSentEmpty
  <2>5. d = 0 <=> m \notin SentIn(outring)
    BY <1>5, HoldsSentZero
  <2>6. OwnedAt(m)
    BY <1>2 DEF OwnerFacts
  <2>7. Loops!Users(m) <= 1
    BY <2>6 DEF OwnedAt
  <2> HIDE DEF a, b, c, d, d2, e, f, g
  <2>8. Loops!Users(m)' <= Loops!Users(m) /\ (m \in SentIn(outring) => Loops!Users(m)' = 0)
    BY <2>1, <2>2, <2>3, <2>4, <2>5, <2>7
  <2>9. m \in Range(pool') \union OutThere'
           => m \in Range(pool) \union OutThere \/ Loops!Users(m)' = 0
    BY <1>7, <1>9, <2>8 DEF OutThere
  <2>10. m \in OutThere' => m <= got'
    BY <1>6, <1>7, <1>8
  <2>11. got' \in Nat /\ got <= got'
    BY <1>6
  <2> QED BY <1>6, <2>1, <2>2, <2>6, <2>8, <2>9, <2>10, <2>11, OwnedKept
<1>11. HandsUnmixed'
  BY <1>1, <1>2 DEF OwnerFacts, HandsUnmixed, Loops!ToKni, Loops!WithKni
<1> QED BY <1>9, <1>10, <1>11 DEF OwnerFacts

(* What the worker takes of the in ring is in its hands. *)
LEMMA DequeueOwn ==
  ASSUME LoopTypes, LoopsOwn, Loops!Dequeue
  PROVE  LoopsOwn'
<1>1. /\ burst = <<>> /\ burst' = inring /\ i' = 1 /\ inring' = <<>>
      /\ whole' = (whole /\ ~Loops!Mixed(inring))
      /\ UNCHANGED <<lesson, mem, pool, posted, filled, txq, txdone, outring, kni, knifree, got>>
  BY DEF Loops!Dequeue, Loops!card, Loops!kernel
<1> SUFFICES ASSUME got' <= NumMbufs, whole', lesson' # 53 PROVE OwnerFacts'
  BY DEF LoopsOwn
<1>2. OwnerFacts
  BY <1>1 DEF LoopsOwn
<1>3. LoopTypes'
  BY DequeueTypes
<1>4. Loops!InHand = <<>> /\ Loops!InHand' = inring
  <2>1. SubSeq(inring, 1, Len(inring)) = inring
    BY SubSeqFull DEF LoopTypes
  <2> QED BY <1>1, <2>1 DEF Loops!InHand
<1>5. OutThere' = OutThere
  BY <1>1 DEF OutThere, SentIn
<1>6. got \in Nat /\ got' = got
  BY <1>1, FramesAssumption DEF LoopTypes
<1>7. ASSUME NEW m \in Mbuf PROVE OwnedAt(m)'
  <2> DEFINE a == Loops!Holds(posted, m)
             b == Loops!Holds(filled, m)
             c == Loops!Holds(inring, m)
             c2 == Loops!Holds(inring', m)
             d == Loops!HoldsSent(outring, m)
             e == Loops!Holds(Loops!InHand, m)
             f == Loops!Holds(kni, m)
             g == Loops!Holds(knifree, m)
  <2>1. /\ a \in Nat /\ b \in Nat /\ c \in Nat /\ d \in Nat /\ f \in Nat /\ g \in Nat
        /\ Loops!Users(m) \in Nat
    BY UsersTyped DEF Counted
  <2>2. Loops!Users(m)' \in Nat
    BY <1>3, UsersTypedNext DEF Counted
  <2>3. /\ Loops!Users(m) = a + b + c + d + e + f + g
        /\ Loops!Users(m)' = a + b + c2 + d + c + f + g
    BY <1>1, <1>4 DEF Loops!Users
  <2>4. c2 = 0 /\ e = 0
    BY <1>1, <1>4, HoldsEmpty
  <2> HIDE DEF a, b, c, c2, d, e, f, g
  <2>5. Loops!Users(m)' <= Loops!Users(m)
    BY <2>1, <2>2, <2>3, <2>4
  <2>6. OwnedAt(m)
    BY <1>2 DEF OwnerFacts
  <2>7. /\ m \in Range(pool') \union OutThere' => m \in Range(pool) \union OutThere
        /\ m \in OutThere' => m <= got'
    BY <1>1, <1>5, <2>6 DEF OwnedAt
  <2>8. got' \in Nat /\ got <= got'
    BY <1>6
  <2> QED BY <1>6, <2>1, <2>2, <2>5, <2>6, <2>7, <2>8, OwnedKept
<1>8. UsedBehind(pool', got')
  BY <1>1, <1>2 DEF OwnerFacts
<1>9. HandsUnmixed'
  <2>1. ~Loops!Mixed(inring)
    BY <1>1
  <2>2. mem' = mem /\ lesson' = lesson /\ i' = 1 /\ burst' = inring
    BY <1>1
  <2> QED BY <2>1, <2>2 DEF HandsUnmixed, Loops!Mixed, Loops!ToKni, Loops!WithKni
<1> QED BY <1>7, <1>8, <1>9 DEF OwnerFacts

(* The card's and the kernel's steps. *)
LEMMA RestOwn ==
  ASSUME LoopTypes, LoopsOwn,
         \/ Loops!CardSends \/ Loops!KernelTakes
         \/ Loops!TimerExpires \/ Loops!HandleFails \/ Loops!AskFails
  PROVE  LoopsOwn'
<1>1. CASE Loops!CardSends
  <2>1. /\ txq # <<>> /\ txq' = Tail(txq) /\ txdone' = Append(txdone, Head(txq).m)
        /\ UNCHANGED <<lesson, mem, pool, posted, filled, inring, outring, burst, i, kni, knifree,
                       got, whole>>
    BY <1>1 DEF Loops!CardSends, Loops!rings, Loops!kernel
  <2>2. OutThere' = OutThere
    <3>1. Range(txq) = Range(txq') \union {Head(txq)} /\ Head(txq) \in Handover
      BY <2>1, RangeTail, HeadTailProperties DEF LoopTypes
    <3>2. Head(txq).m \in Mbuf
      BY <3>1 DEF Handover
    <3>3. Range(txdone') = Range(txdone) \union {Head(txq).m}
      BY <2>1, <3>2, RangeAppend, SMTT(30) DEF LoopTypes
    <3>4. SentIn(txq) = SentIn(txq') \union {Head(txq).m}
      BY <3>1 DEF SentIn
    <3> QED BY <3>3, <3>4 DEF OutThere, SentIn
  <2>3. Loops!InHand' = Loops!InHand
    BY <2>1 DEF Loops!InHand
  <2>4. \A m : Loops!Users(m)' = Loops!Users(m)
    BY <2>1, <2>3 DEF Loops!Users
  <2>5. HandsUnmixed' <=> HandsUnmixed
    BY <2>1 DEF HandsUnmixed, Loops!ToKni, Loops!WithKni
  <2>6. UsedBehind(pool, got)' <=> UsedBehind(pool, got)
    BY <2>1 DEF UsedBehind
  <2>7. \A m \in Mbuf : OwnedAt(m)' <=> OwnedAt(m)
    BY <2>1, <2>2, <2>4 DEF OwnedAt
  <2>8. lesson' = lesson /\ got' = got /\ whole' = whole
    BY <2>1
  <2> QED BY <2>5, <2>6, <2>7, <2>8 DEF LoopsOwn, OwnerFacts
<1>2. CASE Loops!KernelTakes
  <2>1. /\ kni # <<>> /\ kni' = Tail(kni) /\ knifree' = Append(knifree, Head(kni))
        /\ UNCHANGED <<lesson, mem, pool, posted, filled, txq, txdone, inring, outring, burst, i,
                       got, whole>>
    BY <1>2 DEF Loops!KernelTakes, Loops!card, Loops!rings, Loops!history
  <2>2. OutThere' = OutThere /\ Loops!InHand' = Loops!InHand
    BY <2>1 DEF OutThere, SentIn, Loops!InHand
  <2>3. LoopTypes'
    BY <1>2, KernelTakesTypes
  <2>4. Head(kni) \in Mbuf
    BY <2>1, HeadTailProperties DEF LoopTypes
  <2>5. ASSUME NEW m \in Mbuf PROVE Loops!Users(m)' = Loops!Users(m)
    <3> DEFINE a == Loops!Holds(posted, m)
               b == Loops!Holds(filled, m)
               c == Loops!Holds(inring, m)
               d == Loops!HoldsSent(outring, m)
               e == Loops!Holds(Loops!InHand, m)
               f == Loops!Holds(kni, m)
               f2 == Loops!Holds(kni', m)
               g == Loops!Holds(knifree, m)
               g2 == Loops!Holds(knifree', m)
               h == Loops!Holds(<<Head(kni)>>, m)
    <3>1. /\ a \in Nat /\ b \in Nat /\ c \in Nat /\ d \in Nat /\ e \in Nat /\ f \in Nat /\ g \in Nat
      BY UsersTyped DEF Counted
    <3>2. f2 \in Nat /\ g2 \in Nat
      BY <2>3, UsersTypedNext DEF Counted
    <3>3. /\ Loops!Users(m) = a + b + c + d + e + f + g
          /\ Loops!Users(m)' = a + b + c + d + e + f2 + g2
      BY <2>1, <2>2 DEF Loops!Users
    <3>4. f = h + f2
      BY <2>1, HoldsTail DEF LoopTypes
    <3>5. g2 = g + h
      BY <2>1, <2>4, HoldsAppend DEF LoopTypes
    <3>6. h \in Nat
      BY HoldsOne
    <3> HIDE DEF a, b, c, d, e, f, f2, g, g2, h
    <3> QED BY <3>1, <3>2, <3>3, <3>4, <3>5, <3>6
  <2>6. HandsUnmixed' <=> HandsUnmixed
    BY <2>1 DEF HandsUnmixed, Loops!ToKni, Loops!WithKni
  <2>7. UsedBehind(pool, got)' <=> UsedBehind(pool, got)
    BY <2>1 DEF UsedBehind
  <2>8. \A m \in Mbuf : OwnedAt(m)' <=> OwnedAt(m)
    BY <2>1, <2>2, <2>5 DEF OwnedAt
  <2>9. lesson' = lesson /\ got' = got /\ whole' = whole
    BY <2>1
  <2> QED BY <2>6, <2>7, <2>8, <2>9 DEF LoopsOwn, OwnerFacts
<1>3. CASE Loops!TimerExpires \/ Loops!HandleFails \/ Loops!AskFails
  <2>1. UNCHANGED <<lesson, mem, pool, posted, filled, txq, txdone, inring, outring, burst, i,
                    table, kni, knifree, got, forgot, heard, whole, last>>
    BY <1>3, TimerTypes
  <2> QED BY <2>1, OwnUntouched
<1> QED BY <1>1, <1>2, <1>3

(* The loop drops the frame it was at. *)
LEMMA AdvanceHand ==
  ASSUME LoopTypes, burst # <<>>, lesson # 53, lesson' = lesson, NEW q, NEW s, NEW lost,
         Loops!Advance(q, s, lost)
  PROVE  /\ Loops!Free(q, s, lost)
         /\ (i < Len(burst) /\ burst' = burst /\ i' = i + 1) \/ burst' = <<>>
         /\ \A m \in Mbuf : Loops!Holds(Loops!InHand, m)
                              = Loops!Holds(<<burst[i]>>, m) + Loops!Holds(Loops!InHand, m)'
<1>1. burst \in Seq(Mbuf) /\ i \in 1..Len(burst) /\ Len(burst) \in Nat
  BY LenProperties DEF LoopTypes
<1> DEFINE b == SubSeq(burst, (i - 1) + 1, Len(burst))
<1>2. i - 1 \in 0..Len(burst) /\ (i - 1) + 1 = i
  BY <1>1
<1>3. /\ b \in Seq(Mbuf) /\ Len(b) = Len(burst) - (i - 1)
      /\ \A j \in 1..Len(burst) - (i - 1) : b[j] = burst[(i - 1) + j]
  BY <1>1, <1>2, Split
<1>4. Loops!InHand = b
  BY <1>2 DEF Loops!InHand
<1> HIDE DEF b
<1>5. b # <<>> /\ Head(b) = burst[i] /\ Len(b) >= 1
  <2>1. Len(b) \in Nat \ {0} /\ 1 \in 1..Len(burst) - (i - 1) /\ (i - 1) + 1 = i
    BY <1>1, <1>3
  <2>2. b # <<>> /\ Head(b) = b[1]
    BY <1>3, <2>1, EmptySeq, HeadTailProperties
  <2>3. b[1] = burst[(i - 1) + 1]
    BY <1>3, <2>1
  <2> QED BY <2>1, <2>2, <2>3
<1>6. /\ Tail(b) \in Seq(Mbuf) /\ Len(Tail(b)) = Len(b) - 1
      /\ \A j \in 1..Len(Tail(b)) : Tail(b)[j] = b[j + 1]
  BY <1>3, <1>5, HeadTailProperties
<1>7. CASE i < Len(burst)
  <2>1. burst' = burst /\ i' = i + 1 /\ Loops!Free(q, s, lost)
    BY <1>7 DEF Loops!Advance
  <2>2. Loops!InHand' = SubSeq(burst, i + 1, Len(burst))
    BY <2>1 DEF Loops!InHand
  <2> DEFINE r == SubSeq(burst, i + 1, Len(burst))
  <2>3. /\ r \in Seq(Mbuf) /\ Len(r) = Len(burst) - i
        /\ \A j \in 1..Len(burst) - i : r[j] = burst[i + j]
    <3>1. i \in 0..Len(burst)
      BY <1>1
    <3> QED BY <1>1, <3>1, Split
  <2> HIDE DEF r
  <2>4. Len(Tail(b)) = Len(r)
    BY <1>1, <1>3, <1>6, <2>3
  <2>5. ASSUME NEW j \in 1..Len(r) PROVE Tail(b)[j] = r[j]
    <3>1. j \in 1..Len(Tail(b)) /\ j + 1 \in 1..Len(burst) - (i - 1) /\ j \in 1..Len(burst) - i
      BY <1>1, <2>3, <2>4
    <3>2. (i - 1) + (j + 1) = i + j
      BY <1>1, <3>1
    <3>3. Tail(b)[j] = burst[(i - 1) + (j + 1)] /\ r[j] = burst[i + j]
      BY <1>3, <1>6, <2>3, <3>1
    <3> QED BY <3>2, <3>3
  <2>6. Tail(b) = r
    BY <1>6, <2>3, <2>4, <2>5, SeqEqual
  <2>7. Loops!InHand' = Tail(b)
    BY <2>2, <2>6 DEF r
  <2>8. \A m \in Mbuf : Loops!Holds(b, m) = Loops!Holds(<<burst[i]>>, m) + Loops!Holds(Tail(b), m)
    BY <1>3, <1>5, HoldsTail
  <2> QED BY <1>4, <1>7, <2>1, <2>7, <2>8
<1>8. CASE ~(i < Len(burst))
  <2>1. burst' = <<>> /\ i' = 1 /\ Loops!Free(q, s, lost)
    BY <1>8 DEF Loops!Advance
  <2>2. Loops!InHand' = <<>>
    BY <2>1 DEF Loops!InHand
  <2>3. Tail(b) = <<>>
    <3>1. Len(Tail(b)) = 0
      <4>1. i = Len(burst)
        BY <1>1, <1>8
      <4>2. Len(b) = 1
        BY <1>1, <1>3, <4>1
      <4> QED BY <1>6, <4>2
    <3> QED BY <1>6, <3>1, EmptySeq
  <2>4. \A m \in Mbuf : Loops!Holds(b, m) = Loops!Holds(<<burst[i]>>, m) + Loops!Holds(Tail(b), m)
    BY <1>3, <1>5, HoldsTail
  <2> QED BY <1>4, <2>1, <2>2, <2>3, <2>4
<1> QED BY <1>7, <1>8

(* What is taken to send is fresh, and has at most one owner afterwards. *)
LEMMA SendOwn ==
  ASSUME LoopTypes, LoopsAnswer, OwnerFacts, pool # <<>>, NEW fr \in Shape, Loops!Send(fr),
         got' <= NumMbufs
  PROVE  /\ got \in Nat /\ got' = got + 1 /\ got' \in 0..NumMbufs /\ got <= NumMbufs
         /\ Head(pool) = got' /\ got' \in Range(pool) /\ got' \notin Range(Tail(pool))
         /\ Range(Tail(pool)) \subseteq Range(pool) /\ UsedBehind(Tail(pool), got')
         /\ Range(Loops!FreedBySend) \subseteq Range(txdone) \union {got'}
         /\ OutThere' \subseteq OutThere \union {got'}
         /\ \A m \in Mbuf : \E c \in {0, 1} :
              /\ Loops!HoldsSent(outring', m) = Loops!HoldsSent(outring, m) + c
              /\ c = 1 => m = got' /\ m \notin Range(Loops!FreedBySend) /\ OutThere' = OutThere
<1> DEFINE new == [m |-> Head(pool), want |-> fr]
<1>1. /\ Head(pool) \in Mbuf /\ Tail(pool) \in Seq(Mbuf)
      /\ got' = Loops!Least(got + 1, NumMbufs + 1)
  BY SendTypes
<1>2. got \in Nat /\ got' = got + 1 /\ got < NumMbufs /\ got \in 0..NumMbufs /\ got' \in 0..NumMbufs
  <2>1. got \in 0..NumMbufs + 1 /\ NumMbufs \in Nat
    BY FramesAssumption DEF LoopTypes
  <2> QED BY <1>1, <2>1 DEF Loops!Least
<1>3. FreshFrom(pool, got) /\ UsedBehind(pool, got) /\ pool \in Seq(Mbuf)
  BY <1>2 DEF LoopsAnswer, AnswerFacts, OwnerFacts, LoopTypes
<1>4. Head(pool) = got'
  BY <1>2, <1>3, FreshHead
<1>5. UsedBehind(Tail(pool), got') /\ got' \notin Range(Tail(pool))
  BY <1>2, <1>3, UsedHead
<1>6. Range(pool) = Range(Tail(pool)) \union {Head(pool)}
  BY <1>3, RangeTail
<1>7. new \in Handover /\ new.m = Head(pool)
  BY <1>1 DEF Handover
<1>8. CASE Loops!Pipelined
  <2>1. txq' = txq /\ txdone' = txdone
    BY <1>8 DEF Loops!Send
  <2>2. Loops!FreedBySend = <<>>
    BY <1>8 DEF Loops!FreedBySend
  <2>3. OutThere' = OutThere
    BY <2>1 DEF OutThere, SentIn
  <2>4. outring' = outring \/ outring' = Append(outring, new)
    BY <1>8 DEF Loops!Send
  <2>5. ASSUME NEW m \in Mbuf
        PROVE  \E c \in {0, 1} :
                 /\ Loops!HoldsSent(outring', m) = Loops!HoldsSent(outring, m) + c
                 /\ c = 1 => m = got' /\ m \notin Range(Loops!FreedBySend) /\ OutThere' = OutThere
    <3>1. CASE outring' = outring
      <4>1. Loops!HoldsSent(outring, m) \in Nat
        BY HoldsSentZero DEF LoopTypes
      <4>2. Loops!HoldsSent(outring', m) = Loops!HoldsSent(outring, m) + 0
        BY <3>1, <4>1
      <4> QED BY <4>2
    <3>2. CASE outring' = Append(outring, new)
      <4> DEFINE c == Loops!Holds(<<new.m>>, m)
      <4>1. Loops!HoldsSent(outring', m) = Loops!HoldsSent(outring, m) + c
        <5> HIDE DEF new
        <5> QED BY <1>7, <3>2, HoldsSentAppend DEF LoopTypes
      <4>2. c \in {0, 1} /\ (c = 1 => m = got')
        BY <1>4, <1>7, HoldsOne
      <4>3. m \notin Range(Loops!FreedBySend)
        BY <2>2, RangeEmpty
      <4> QED BY <2>3, <4>1, <4>2, <4>3
    <3> QED BY <2>4, <3>1, <3>2
  <2>6. Range(Loops!FreedBySend) = {}
    BY <2>2, RangeEmpty
  <2> QED BY <1>2, <1>4, <1>5, <1>6, <2>3, <2>5, <2>6
<1>9. CASE ~Loops!Pipelined
  <2>1. txq' = Append(txq, new) /\ txdone' = <<>> /\ outring' = outring
    BY <1>9 DEF Loops!Send
  <2>2. Loops!FreedBySend = txdone \o <<Head(pool)>>
    BY <1>9 DEF Loops!FreedBySend
  <2>3. Range(Loops!FreedBySend) = Range(txdone) \union {got'}
    <3>1. <<Head(pool)>> \in Seq(Mbuf) /\ Range(<<Head(pool)>>) = {Head(pool)}
      BY <1>1, RangeOne
    <3>2. txdone \in Seq(Mbuf)
      BY DEF LoopTypes
    <3>3. Range(txdone \o <<Head(pool)>>) = Range(txdone) \union Range(<<Head(pool)>>)
      BY <3>1, <3>2, RangeConcatenation, ZenonT(60)
    <3> QED BY <1>4, <2>2, <3>1, <3>3
  <2>4. OutThere' \subseteq OutThere \union {got'}
    <3>1. Range(txq') = Range(txq) \union {new}
      BY <1>7, <2>1, RangeAppend, SMTT(30) DEF LoopTypes
    <3> QED BY <1>4, <1>7, <2>1, <3>1, RangeEmpty DEF OutThere, SentIn
  <2>5. ASSUME NEW m \in Mbuf
        PROVE  \E c \in {0, 1} :
                 /\ Loops!HoldsSent(outring', m) = Loops!HoldsSent(outring, m) + c
                 /\ c = 1 => m = got' /\ m \notin Range(Loops!FreedBySend) /\ OutThere' = OutThere
    <3>1. Loops!HoldsSent(outring, m) \in Nat
      BY HoldsSentZero DEF LoopTypes
    <3>2. Loops!HoldsSent(outring', m) = Loops!HoldsSent(outring, m) + 0
      BY <2>1, <3>1
    <3> QED BY <3>2
  <2> QED BY <1>2, <1>4, <1>5, <1>6, <2>3, <2>4, <2>5
<1> QED BY <1>8, <1>9

(* An mbuf after something was sent: h is what the loop drops of it, c what the *)
(* out ring takes.                                                             *)
LEMMA OwnedSent ==
  ASSUME NEW m \in Mbuf, OwnedAt(m), Loops!Users(m) \in Nat, Loops!Users(m)' \in Nat,
         NEW h \in {0, 1}, NEW c \in {0, 1}, Loops!Users(m)' + h = Loops!Users(m) + c,
         got \in Nat, got' = got + 1, got' \in Range(pool), got' \notin Range(Tail(pool)),
         Range(Tail(pool)) \subseteq Range(pool), NEW F, NEW G,
         c = 1 => m = got' /\ m \notin F /\ OutThere' = OutThere,
         Range(pool') \subseteq Range(Tail(pool)) \union F \union G,
         F \subseteq OutThere \union {got'}, m \in G => h = 1,
         OutThere' \subseteq OutThere \union {got'}
  PROVE  OwnedAt(m)'
<1> DEFINE u == Loops!Users(m)
           v == Loops!Users(m)'
<1>1. /\ u <= 1 /\ (m \in Range(pool) \union OutThere => u = 0)
      /\ (m \in OutThere \/ u # 0 => m <= got) /\ u \in Nat /\ v \in Nat /\ v + h = u + c
  BY DEF OwnedAt
<1>2. m \in Nat /\ got' \in Nat /\ got <= got' /\ ~(got' <= got)
  BY FramesAssumption DEF Mbuf
<1> HIDE DEF u, v
<1>3. CASE m = got'
  <2>1. u = 0 /\ m \notin OutThere
    BY <1>1, <1>2, <1>3
  <2>2. v <= 1 /\ (h = 1 \/ c = 0 => v = 0)
    BY <1>1, <2>1
  <2>3. m \in Range(pool') => v = 0
    BY <1>3, <2>2
  <2>4. m \in OutThere' => v = 0
    BY <2>1, <2>2
  <2> QED BY <1>2, <1>3, <2>2, <2>3, <2>4 DEF OwnedAt, v
<1>4. CASE m # got'
  <2>1. c = 0 /\ v <= u /\ (h = 1 => v = 0)
    BY <1>1, <1>4
  <2>2. m \in Range(pool') \union OutThere' => m \in Range(pool) \union OutThere \/ v = 0
    BY <1>4, <2>1
  <2>3. m \in OutThere' => m <= got'
    <3>1. m <= got => m <= got'
      BY <1>2
    <3> QED BY <1>1, <1>4, <3>1
  <2> QED BY <1>1, <1>2, <2>1, <2>2, <2>3, OwnedKept DEF u, v
<1> QED BY <1>3, <1>4

(* What the burst loop does to the owners. *)
LEMMA HandleOwn ==
  ASSUME LoopTypes, LoopsAnswer, LoopsOwn, Loops!Handle
  PROVE  LoopsOwn'
<1>1. /\ burst # <<>> /\ i \in 1..Len(burst) /\ burst[i] \in Mbuf /\ Current \in Shape
      /\ Doing(Loops!Handled(Current)) /\ FreedNow \in Seq(Mbuf) /\ LostNow \in {0, 1}
      /\ UNCHANGED <<lesson, posted, filled, inring, kni, knifree, whole>>
      /\ \/ /\ Len(Loops!Handled(Current).out) = 1 /\ pool # <<>>
            /\ Loops!Send(Loops!Handled(Current).out[1])
            /\ Loops!Advance(Tail(pool), Loops!FreedBySend \o FreedNow, LostNow + Loops!NoRoom)
         \/ /\ Loops!Advance(pool, FreedNow, LostNow)
            /\ UNCHANGED <<mem, got, txq, txdone, outring>>
  BY HandleCases
<1> SUFFICES ASSUME got' <= NumMbufs, whole', lesson' # 53 PROVE OwnerFacts'
  BY DEF LoopsOwn
<1>2. LoopTypes' /\ lesson # 53 /\ whole /\ lesson' = lesson
  BY <1>1, HandleTypes
<1>3. Range(FreedNow) \subseteq {burst[i]}
  <2>1. Range(<<burst[i]>>) = {burst[i]}
    BY <1>1, RangeOne
  <2> QED BY <2>1, RangeEmpty DEF FreedNow
<1>4. burst \in Seq(Mbuf) /\ Len(burst) \in Nat /\ \A k \in 1..Len(burst) : burst[k] \in Mbuf
  BY LenProperties, ElementOfSeq DEF LoopTypes
<1>5. ASSUME OwnerFacts
      PROVE  burst[i] <= got /\ OwnedAt(burst[i])
  <2>1. OwnedAt(burst[i])
    BY <1>1, <1>5 DEF OwnerFacts
  <2>2. burst[i] \in Range(Loops!InHand)
    <3>1. Loops!InHand = SubSeq(burst, i, Len(burst))
      BY <1>1, <1>2 DEF Loops!InHand
    <3>2. i \in i..Len(burst)
      BY <1>1
    <3> QED BY <1>1, <1>4, <3>1, <3>2, HandRange
  <2>3. Loops!Holds(Loops!InHand, burst[i]) # 0
    BY <2>2, HoldsZero, InHandSeq
  <2>4. Loops!Users(burst[i]) # 0
    <3> DEFINE m == burst[i]
               a == Loops!Holds(posted, m)
               b == Loops!Holds(filled, m)
               c == Loops!Holds(inring, m)
               d == Loops!HoldsSent(outring, m)
               e == Loops!Holds(Loops!InHand, m)
               f == Loops!Holds(kni, m)
               g == Loops!Holds(knifree, m)
    <3>1. /\ a \in Nat /\ b \in Nat /\ c \in Nat /\ d \in Nat /\ e \in Nat /\ f \in Nat /\ g \in Nat
      BY <1>1, UsersTyped DEF Counted
    <3>2. Loops!Users(m) = a + b + c + d + e + f + g
      BY DEF Loops!Users
    <3>3. e # 0
      BY <2>3
    <3> HIDE DEF a, b, c, d, e, f, g
    <3>4. a + b + c + d + e + f + g # 0
      BY <3>1, <3>3
    <3> QED BY <3>2, <3>4
  <2> QED BY <2>1, <2>4 DEF OwnedAt
<1>6. CASE /\ Len(Loops!Handled(Current).out) = 1 /\ pool # <<>>
           /\ Loops!Send(Loops!Handled(Current).out[1])
           /\ Loops!Advance(Tail(pool), Loops!FreedBySend \o FreedNow, LostNow + Loops!NoRoom)
  <2> DEFINE fr == Loops!Handled(Current).out[1]
             q == Tail(pool)
             F == Range(Loops!FreedBySend)
             s == Loops!FreedBySend \o FreedNow
  <2>1. fr \in Shape /\ Loops!Send(fr) /\ pool # <<>>
    BY <1>1, <1>6 DEF Doing
  <2>2. /\ q \in Seq(Mbuf) /\ Loops!FreedBySend \in Seq(Mbuf)
        /\ mem' = [mem EXCEPT ![Head(pool)] = fr] /\ got' = Loops!Least(got + 1, NumMbufs + 1)
    BY <2>1, SendTypes
  <2>3. OwnerFacts
    <3>1. got \in 0..NumMbufs + 1 /\ NumMbufs \in Nat
      BY FramesAssumption DEF LoopTypes
    <3>2. got <= NumMbufs
      BY <2>2, <3>1 DEF Loops!Least
    <3> QED BY <1>2, <3>2 DEF LoopsOwn
  <2>4. /\ got \in Nat /\ got' = got + 1 /\ got' \in 0..NumMbufs /\ got <= NumMbufs
        /\ Head(pool) = got' /\ got' \in Range(pool) /\ got' \notin Range(q)
        /\ Range(q) \subseteq Range(pool) /\ UsedBehind(q, got')
        /\ F \subseteq Range(txdone) \union {got'}
        /\ OutThere' \subseteq OutThere \union {got'}
        /\ \A m \in Mbuf : \E c \in {0, 1} :
             /\ Loops!HoldsSent(outring', m) = Loops!HoldsSent(outring, m) + c
             /\ c = 1 => m = got' /\ m \notin F /\ OutThere' = OutThere
    BY <2>1, <2>3, SendOwn
  <2>5. s \in Seq(Mbuf) /\ Range(s) = F \union Range(FreedNow)
    BY <1>1, <2>2, ConcatProperties, RangeConcatenation
  <2> HIDE DEF s, fr, F
  <2>6. /\ Loops!Free(q, s, LostNow + Loops!NoRoom)
        /\ (i < Len(burst) /\ burst' = burst /\ i' = i + 1) \/ burst' = <<>>
        /\ \A m \in Mbuf : Loops!Holds(Loops!InHand, m)
                              = Loops!Holds(<<burst[i]>>, m) + Loops!Holds(Loops!InHand, m)'
    <3>1. Loops!Advance(q, s, LostNow + Loops!NoRoom)
      BY <1>6 DEF s
    <3> QED BY <1>1, <1>2, <3>1, AdvanceHand
  <2>7. \A e \in Range(s) : e <= got'
    <3>1. \A e \in Range(txdone) : e \in Mbuf /\ OwnedAt(e) /\ e \in OutThere
      BY <2>3, RangeOfSeq DEF OwnerFacts, LoopTypes, OutThere
    <3>2. \A e \in Range(txdone) : e <= got /\ e \in Nat
      BY <3>1, FramesAssumption DEF OwnedAt, Mbuf
    <3>3. \A e \in Range(txdone) : e <= got'
      BY <2>4, <3>2
    <3>4. burst[i] <= got'
      <4>1. burst[i] \in Nat /\ burst[i] <= got
        BY <1>1, <1>5, <2>3, FramesAssumption DEF Mbuf
      <4> QED BY <2>4, <4>1
    <3>5. got' <= got'
      BY <2>4
    <3> QED BY <1>3, <2>4, <2>5, <3>3, <3>4, <3>5
  <2>8. UsedBehind(pool', got') /\ Range(pool') \subseteq Range(q) \union Range(s)
    BY <2>2, <2>4, <2>5, <2>6, <2>7, UsedFree
  <2>9. ASSUME NEW m \in Mbuf PROVE OwnedAt(m)'
    <3> DEFINE a == Loops!Holds(posted, m)
               b == Loops!Holds(filled, m)
               cc == Loops!Holds(inring, m)
               d == Loops!HoldsSent(outring, m)
               d2 == Loops!HoldsSent(outring', m)
               e == Loops!Holds(Loops!InHand, m)
               e2 == Loops!Holds(Loops!InHand, m)'
               f == Loops!Holds(kni, m)
               g == Loops!Holds(knifree, m)
               h == Loops!Holds(<<burst[i]>>, m)
    <3>1. /\ a \in Nat /\ b \in Nat /\ cc \in Nat /\ d \in Nat /\ e \in Nat /\ f \in Nat /\ g \in Nat
          /\ Loops!Users(m) \in Nat
      BY UsersTyped DEF Counted
    <3>2. Loops!Users(m)' \in Nat /\ e2 \in Nat /\ d2 \in Nat
      BY <1>2, UsersTypedNext DEF Counted
    <3>3. /\ Loops!Users(m) = a + b + cc + d + e + f + g
          /\ Loops!Users(m)' = a + b + cc + d2 + e2 + f + g
      BY <1>1 DEF Loops!Users
    <3>4. e = h + e2
      BY <2>6
    <3>5. h \in {0, 1} /\ (h = 1 <=> burst[i] = m)
      BY HoldsOne
    <3>6. PICK c \in {0, 1} : d2 = d + c /\ (c = 1 => m = got' /\ m \notin F /\ OutThere' = OutThere)
      BY <2>4
    <3> HIDE DEF a, b, cc, d, d2, e, e2, f, g, h
    <3>7. Loops!Users(m)' + h = Loops!Users(m) + c
      BY <3>1, <3>2, <3>3, <3>4, <3>5, <3>6
    <3>8. OwnedAt(m)
      BY <2>3 DEF OwnerFacts
    <3>9. F \subseteq OutThere \union {got'}
      BY <2>4 DEF OutThere
    <3>10. Range(pool') \subseteq Range(q) \union F \union Range(FreedNow)
      BY <2>5, <2>8
    <3>11. m \in Range(FreedNow) => h = 1
      BY <1>3, <3>5
    <3> QED BY <2>4, <3>1, <3>2, <3>5, <3>6, <3>7, <3>8, <3>9, <3>10, <3>11, OwnedSent
  <2>10. HandsUnmixed'
    <3>1. CASE burst' = <<>>
      <4>1. ~(Len(burst') > 1)
        BY <3>1, EmptySeq
      <4> QED BY <4>1 DEF HandsUnmixed
    <3>2. CASE burst' = burst /\ i' = i + 1
      <4>1. ASSUME NEW k \in i..Len(burst) PROVE mem'[burst[k]] = mem[burst[k]]
        <5>1. k \in 1..Len(burst)
          BY <1>1, <1>4
        <5>2. burst[k] \in Range(burst) /\ burst[k] \in Mbuf
          BY <1>4, <5>1, RangeEquality
        <5>3. burst[k] \in 1..got
          BY <2>4, <5>2 DEF LoopsAnswer, AnswerFacts
        <5>4. burst[k] # Head(pool)
          BY <2>4, <5>3
        <5> QED BY <2>2, <5>2, <5>4 DEF LoopTypes
      <4>2. i + 1 \in Nat /\ i <= i + 1
        BY <1>1, <1>4
      <4> QED BY <1>2, <2>3, <3>2, <4>1, <4>2, UnmixedKept DEF OwnerFacts
    <3> QED BY <2>6, <3>1, <3>2
  <2> QED BY <2>8, <2>9, <2>10 DEF OwnerFacts
<1>7. CASE /\ Loops!Advance(pool, FreedNow, LostNow)
           /\ UNCHANGED <<mem, got, txq, txdone, outring>>
  <2>1. OwnerFacts
    BY <1>2, <1>7 DEF LoopsOwn
  <2>2. /\ Loops!Free(pool, FreedNow, LostNow)
        /\ (i < Len(burst) /\ burst' = burst /\ i' = i + 1) \/ burst' = <<>>
        /\ \A m \in Mbuf : Loops!Holds(Loops!InHand, m)
                              = Loops!Holds(<<burst[i]>>, m) + Loops!Holds(Loops!InHand, m)'
    BY <1>1, <1>2, <1>7, AdvanceHand
  <2>3. got \in Nat /\ got' = got /\ got' \in Nat /\ got <= got' /\ got \in 0..NumMbufs
    BY <1>7, FramesAssumption DEF LoopTypes
  <2>4. \A e \in Range(FreedNow) : e <= got
    BY <1>3, <1>5, <2>1
  <2>5. pool \in Seq(Mbuf) /\ UsedBehind(pool, got)
    BY <2>1 DEF LoopTypes, OwnerFacts
  <2>6. UsedBehind(pool', got') /\ Range(pool') \subseteq Range(pool) \union Range(FreedNow)
    BY <1>1, <2>2, <2>3, <2>4, <2>5, UsedFree
  <2>7. OutThere' = OutThere
    BY <1>7 DEF OutThere, SentIn
  <2>8. ASSUME NEW m \in Mbuf PROVE OwnedAt(m)'
    <3> DEFINE a == Loops!Holds(posted, m)
               b == Loops!Holds(filled, m)
               c == Loops!Holds(inring, m)
               d == Loops!HoldsSent(outring, m)
               e == Loops!Holds(Loops!InHand, m)
               e2 == Loops!Holds(Loops!InHand, m)'
               f == Loops!Holds(kni, m)
               g == Loops!Holds(knifree, m)
               h == Loops!Holds(<<burst[i]>>, m)
    <3>1. /\ a \in Nat /\ b \in Nat /\ c \in Nat /\ d \in Nat /\ e \in Nat /\ f \in Nat /\ g \in Nat
          /\ Loops!Users(m) \in Nat
      BY UsersTyped DEF Counted
    <3>2. Loops!Users(m)' \in Nat /\ e2 \in Nat
      BY <1>2, UsersTypedNext DEF Counted
    <3>3. /\ Loops!Users(m) = a + b + c + d + e + f + g
          /\ Loops!Users(m)' = a + b + c + d + e2 + f + g
      BY <1>1, <1>7 DEF Loops!Users
    <3>4. e = h + e2
      BY <2>2
    <3>5. h \in {0, 1} /\ (h = 1 <=> burst[i] = m)
      BY HoldsOne
    <3>6. OwnedAt(m)
      BY <2>1 DEF OwnerFacts
    <3>7. Loops!Users(m) <= 1
      BY <3>6 DEF OwnedAt
    <3> HIDE DEF a, b, c, d, e, e2, f, g, h
    <3>8. Loops!Users(m)' <= Loops!Users(m) /\ (h = 1 => Loops!Users(m)' = 0)
      BY <3>1, <3>2, <3>3, <3>4, <3>5, <3>7
    <3>9. m \in Range(pool') \union OutThere'
             => m \in Range(pool) \union OutThere \/ Loops!Users(m)' = 0
      BY <1>3, <2>6, <2>7, <3>5, <3>8
    <3>10. m \in OutThere' => m <= got'
      BY <2>3, <2>7, <3>6 DEF OwnedAt
    <3> QED BY <2>3, <3>1, <3>2, <3>6, <3>8, <3>9, <3>10, OwnedKept
  <2>9. HandsUnmixed'
    <3>1. CASE burst' = <<>>
      <4>1. ~(Len(burst') > 1)
        BY <3>1, EmptySeq
      <4> QED BY <4>1 DEF HandsUnmixed
    <3>2. CASE burst' = burst /\ i' = i + 1
      <4>1. i + 1 \in Nat /\ i <= i + 1 /\ \A k \in i..Len(burst) : mem'[burst[k]] = mem[burst[k]]
        BY <1>1, <1>4, <1>7
      <4> QED BY <1>2, <2>1, <3>2, <4>1, UnmixedKept DEF OwnerFacts
    <3> QED BY <2>2, <3>1, <3>2
  <2> QED BY <2>6, <2>8, <2>9 DEF OwnerFacts
<1> QED BY <1>1, <1>6, <1>7

(* A question of the timer is sent like an answer. *)
LEMMA AskOwn ==
  ASSUME LoopTypes, LoopsAnswer, LoopsOwn, Loops!Ask
  PROVE  LoopsOwn'
<1> DEFINE fr == Loops!ng_encode_arp_pkt05("arp_req", Loops!ng_get_dst_macaddr(Head(asks)), Head(asks))
           q == Tail(pool)
           s == Loops!FreedBySend
           F == Range(s)
<1>1. /\ pool # <<>> /\ fr \in Shape /\ Loops!Send(fr) /\ Loops!Free(q, s, Loops!NoRoom)
      /\ UNCHANGED <<lesson, posted, filled, inring, burst, i, kni, knifree, whole>>
  BY AskCases
<1> SUFFICES ASSUME got' <= NumMbufs, whole', lesson' # 53 PROVE OwnerFacts'
  BY DEF LoopsOwn
<1> HIDE DEF fr
<1>2. LoopTypes'
  BY AskTypes
<1>3. /\ q \in Seq(Mbuf) /\ s \in Seq(Mbuf)
      /\ mem' = [mem EXCEPT ![Head(pool)] = fr] /\ got' = Loops!Least(got + 1, NumMbufs + 1)
  BY <1>1, SendTypes
<1>4. OwnerFacts
  <2>1. got \in 0..NumMbufs + 1 /\ NumMbufs \in Nat
    BY FramesAssumption DEF LoopTypes
  <2>2. got <= NumMbufs
    BY <1>3, <2>1 DEF Loops!Least
  <2> QED BY <1>1, <2>2 DEF LoopsOwn
<1>5. /\ got \in Nat /\ got' = got + 1 /\ got' \in 0..NumMbufs /\ got <= NumMbufs
      /\ Head(pool) = got' /\ got' \in Range(pool) /\ got' \notin Range(q)
      /\ Range(q) \subseteq Range(pool) /\ UsedBehind(q, got')
      /\ F \subseteq Range(txdone) \union {got'}
      /\ OutThere' \subseteq OutThere \union {got'}
      /\ \A m \in Mbuf : \E c \in {0, 1} :
           /\ Loops!HoldsSent(outring', m) = Loops!HoldsSent(outring, m) + c
           /\ c = 1 => m = got' /\ m \notin F /\ OutThere' = OutThere
  BY <1>1, <1>4, SendOwn
<1> HIDE DEF q, s, F
<1>6. \A e \in Range(s) : e <= got'
  <2>1. \A e \in Range(txdone) : e \in Mbuf /\ OwnedAt(e) /\ e \in OutThere
    BY <1>4, RangeOfSeq DEF OwnerFacts, LoopTypes, OutThere
  <2>2. \A e \in Range(txdone) : e <= got /\ e \in Nat
    BY <2>1, FramesAssumption DEF OwnedAt, Mbuf
  <2>3. \A e \in Range(txdone) : e <= got'
    BY <1>5, <2>2
  <2>4. got' <= got'
    BY <1>5
  <2> QED BY <1>5, <2>3, <2>4 DEF F
<1>7. UsedBehind(pool', got') /\ Range(pool') \subseteq Range(q) \union F
  BY <1>1, <1>3, <1>5, <1>6, UsedFree DEF F
<1>8. Loops!InHand' = Loops!InHand
  BY <1>1 DEF Loops!InHand
<1>9. ASSUME NEW m \in Mbuf PROVE OwnedAt(m)'
  <2> DEFINE a == Loops!Holds(posted, m)
             b == Loops!Holds(filled, m)
             cc == Loops!Holds(inring, m)
             d == Loops!HoldsSent(outring, m)
             d2 == Loops!HoldsSent(outring', m)
             e == Loops!Holds(Loops!InHand, m)
             f == Loops!Holds(kni, m)
             g == Loops!Holds(knifree, m)
  <2>1. /\ a \in Nat /\ b \in Nat /\ cc \in Nat /\ d \in Nat /\ e \in Nat /\ f \in Nat /\ g \in Nat
        /\ Loops!Users(m) \in Nat
    BY UsersTyped DEF Counted
  <2>2. Loops!Users(m)' \in Nat /\ d2 \in Nat
    BY <1>2, UsersTypedNext DEF Counted
  <2>3. /\ Loops!Users(m) = a + b + cc + d + e + f + g
        /\ Loops!Users(m)' = a + b + cc + d2 + e + f + g
    BY <1>1, <1>8 DEF Loops!Users
  <2>4. PICK c \in {0, 1} : d2 = d + c /\ (c = 1 => m = got' /\ m \notin F /\ OutThere' = OutThere)
    BY <1>5
  <2> HIDE DEF a, b, cc, d, d2, e, f, g
  <2>5. PICK z \in {0, 1} : z = 0
    OBVIOUS
  <2>6. PICK G : G = {}
    OBVIOUS
  <2>7. Loops!Users(m)' + z = Loops!Users(m) + c
    BY <2>1, <2>2, <2>3, <2>4, <2>5
  <2>8. OwnedAt(m)
    BY <1>4 DEF OwnerFacts
  <2>9. F \subseteq OutThere \union {got'}
    BY <1>5 DEF OutThere
  <2>10. Range(pool') \subseteq Range(Tail(pool)) \union F \union G
    BY <1>7, <2>6 DEF q
  <2>11. m \in G => z = 1
    BY <2>6
  <2>12. /\ got' \notin Range(Tail(pool)) /\ Range(Tail(pool)) \subseteq Range(pool)
         /\ got \in Nat /\ got' = got + 1 /\ got' \in Range(pool)
    BY <1>5 DEF q
  <2>13. OutThere' \subseteq OutThere \union {got'}
    BY <1>5
  <2> QED BY <2>1, <2>2, <2>4, <2>7, <2>8, <2>9, <2>10, <2>11, <2>12, <2>13, OwnedSent
<1>10. HandsUnmixed'
  <2>1. burst \in Seq(Mbuf) /\ Len(burst) \in Nat /\ i \in Nat
    BY LenProperties DEF LoopTypes
  <2>2. ASSUME NEW k \in i..Len(burst) PROVE mem'[burst[k]] = mem[burst[k]]
    <3>1. k \in 1..Len(burst)
      <4>1. CASE burst = <<>>
        <5>1. i = 1
          BY <4>1 DEF LoopTypes
        <5> QED BY <2>1, <5>1
      <4>2. CASE burst # <<>>
        <5>1. i \in 1..Len(burst)
          BY <4>2 DEF LoopTypes
        <5> QED BY <2>1, <5>1
      <4> QED BY <4>1, <4>2
    <3>2. burst[k] \in Range(burst) /\ burst[k] \in Mbuf
      BY <2>1, <3>1, RangeEquality, ElementOfSeq
    <3>3. burst[k] \in 1..got
      BY <1>5, <3>2 DEF LoopsAnswer, AnswerFacts
    <3>4. burst[k] # Head(pool)
      BY <1>5, <3>3
    <3> QED BY <1>3, <3>2, <3>4 DEF LoopTypes
  <2>3. i' = i /\ i <= i
    BY <1>1, <2>1
  <2> QED BY <1>1, <1>4, <2>1, <2>2, <2>3, UnmixedKept DEF OwnerFacts
<1> QED BY <1>7, <1>9, <1>10 DEF OwnerFacts

(* A frame for the kernel was alone in its burst. *)
LEMMA KniTxOwn ==
  ASSUME LoopTypes, LoopsAnswer, LoopsOwn, Loops!KniTx
  PROVE  LoopsOwn'
<1> DEFINE fst == SubSeq(burst, 1, KniRoom)
           snd == SubSeq(burst, KniRoom + 1, Len(burst))
<1>1. /\ burst # <<>> /\ i \in 1..Len(burst) /\ Loops!ToKni(Current)
      /\ KniRoom \in 0..Len(burst) /\ KniLost \in Nat
      /\ kni' = kni \o fst /\ knifree' = <<>>
      /\ Loops!Advance(pool, knifree, KniLost)
      /\ UNCHANGED <<lesson, mem, posted, filled, txq, txdone, inring, outring, got, whole>>
  BY KniTxCases
<1> SUFFICES ASSUME got' <= NumMbufs, whole', lesson' # 53 PROVE OwnerFacts'
  BY DEF LoopsOwn
<1>2. OwnerFacts /\ lesson # 53
  BY <1>1 DEF LoopsOwn
<1>3. LoopTypes'
  BY KniTxTypes
<1>4. /\ burst \in Seq(Mbuf) /\ Len(burst) \in Nat /\ kni \in Seq(Mbuf) /\ knifree \in Seq(Mbuf)
      /\ pool \in Seq(Mbuf)
  BY LenProperties DEF LoopTypes
<1>5. Len(burst) = 1 /\ i = 1
  <2>1. ~(Len(burst) > 1)
    <3>1. SUFFICES ASSUME Len(burst) > 1 PROVE FALSE
      OBVIOUS
    <3>2. i \in i..Len(burst)
      BY <1>1, <1>4
    <3>3. ~Loops!ToKni(mem[burst[i]])
      BY <1>2, <3>1, <3>2 DEF OwnerFacts, HandsUnmixed
    <3> QED BY <1>1, <3>3 DEF Current
  <2>2. i \in 1..Len(burst)
    BY <1>1
  <2>3. Len(burst) \in Nat
    BY <1>4
  <2>4. PICK num \in Nat : num = Len(burst)
    BY <2>3
  <2>5. ~(num > 1) /\ i \in 1..num
    BY <2>1, <2>2, <2>4
  <2>6. num = 1 /\ i = 1
    BY <2>5
  <2> QED BY <2>4, <2>6
<1>6. /\ Loops!Free(pool, knifree, KniLost)
      /\ burst' = <<>>
      /\ \A m \in Mbuf : Loops!Holds(Loops!InHand, m)
                              = Loops!Holds(<<burst[i]>>, m) + Loops!Holds(Loops!InHand, m)'
  BY <1>1, <1>2, <1>5, AdvanceHand
<1>7. fst \in Seq(Mbuf) /\ snd \in Seq(Mbuf)
  BY <1>1, <1>4, Split
<1>8. Loops!InHand = burst /\ Loops!InHand' = <<>>
  <2>1. SubSeq(burst, 1, Len(burst)) = burst
    BY <1>4, SubSeqFull
  <2> QED BY <1>5, <1>6, <2>1 DEF Loops!InHand
<1>9. got \in Nat /\ got' = got /\ got' \in Nat /\ got <= got' /\ got \in 0..NumMbufs
  BY <1>1, FramesAssumption DEF LoopTypes
<1>10. OutThere' = OutThere
  BY <1>1 DEF OutThere, SentIn
<1> HIDE DEF fst, snd
<1>11. ASSUME NEW m \in Mbuf
       PROVE  /\ OwnedAt(m) /\ (m \in Range(knifree) => m <= got)
              /\ Loops!Users(m)' <= Loops!Users(m) /\ Loops!Users(m) \in Nat /\ Loops!Users(m)' \in Nat
              /\ m \in Range(knifree) => Loops!Users(m)' = 0
  <2> DEFINE a == Loops!Holds(posted, m)
             b == Loops!Holds(filled, m)
             c == Loops!Holds(inring, m)
             d == Loops!HoldsSent(outring, m)
             e == Loops!Holds(Loops!InHand, m)
             e2 == Loops!Holds(Loops!InHand, m)'
             f == Loops!Holds(kni, m)
             f2 == Loops!Holds(kni', m)
             g == Loops!Holds(knifree, m)
             g2 == Loops!Holds(knifree', m)
             z == Loops!Holds(fst, m)
             w == Loops!Holds(snd, m)
  <2>1. /\ a \in Nat /\ b \in Nat /\ c \in Nat /\ d \in Nat /\ e \in Nat /\ f \in Nat /\ g \in Nat
        /\ Loops!Users(m) \in Nat
    BY UsersTyped DEF Counted
  <2>2. Loops!Users(m)' \in Nat /\ f2 \in Nat
    BY <1>3, UsersTypedNext DEF Counted
  <2>3. /\ Loops!Users(m) = a + b + c + d + e + f + g
        /\ Loops!Users(m)' = a + b + c + d + e2 + f2 + g2
    BY <1>1 DEF Loops!Users
  <2>4. e2 = 0 /\ g2 = 0
    BY <1>1, <1>8, HoldsEmpty
  <2>5. f2 = f + z
    BY <1>1, <1>4, <1>7, HoldsConcat
  <2>6. e = z + w
    BY <1>1, <1>4, <1>8, HoldsSplit DEF fst, snd
  <2>7. z \in Nat /\ w \in Nat
    BY <1>7, HoldsZero
  <2>8. g = 0 <=> m \notin Range(knifree)
    BY <1>4, HoldsZero
  <2>9. OwnedAt(m)
    BY <1>2 DEF OwnerFacts
  <2>10. Loops!Users(m) <= 1 /\ (Loops!Users(m) # 0 => m <= got)
    BY <2>9 DEF OwnedAt
  <2> HIDE DEF a, b, c, d, e, e2, f, f2, g, g2, z, w
  <2>11. Loops!Users(m)' <= Loops!Users(m)
    BY <2>1, <2>2, <2>3, <2>4, <2>5, <2>6, <2>7
  <2>12. g # 0 => Loops!Users(m) # 0 /\ Loops!Users(m)' = 0
    BY <2>1, <2>2, <2>3, <2>4, <2>5, <2>6, <2>7, <2>10
  <2> QED BY <2>1, <2>2, <2>8, <2>9, <2>10, <2>11, <2>12
<1>12. UsedBehind(pool', got') /\ Range(pool') \subseteq Range(pool) \union Range(knifree)
  <2>1. \A e \in Range(knifree) : e <= got
    BY <1>4, <1>11, RangeOfSeq
  <2>2. UsedBehind(pool, got)
    BY <1>2 DEF OwnerFacts
  <2> QED BY <1>4, <1>6, <1>9, <2>1, <2>2, UsedFree
<1>13. ASSUME NEW m \in Mbuf PROVE OwnedAt(m)'
  <2>1. /\ OwnedAt(m) /\ Loops!Users(m)' <= Loops!Users(m)
        /\ Loops!Users(m) \in Nat /\ Loops!Users(m)' \in Nat
        /\ m \in Range(knifree) => Loops!Users(m)' = 0
    BY <1>11
  <2>2. m \in Range(pool') \union OutThere'
           => m \in Range(pool) \union OutThere \/ Loops!Users(m)' = 0
    BY <1>10, <1>12, <2>1
  <2>3. m \in OutThere' => m <= got'
    BY <1>9, <1>10, <2>1 DEF OwnedAt
  <2> QED BY <1>9, <2>1, <2>2, <2>3, OwnedKept
<1>14. HandsUnmixed'
  <2>1. ~(Len(burst') > 1)
    BY <1>6, EmptySeq
  <2> QED BY <2>1 DEF HandsUnmixed
<1> QED BY <1>12, <1>13, <1>14 DEF OwnerFacts

(* At the start the card has one mbuf for every descriptor. *)
LEMMA OwnStart == Loops!Init => LoopsOwn
<1> SUFFICES ASSUME Loops!Init PROVE OwnerFacts
  BY DEF LoopsOwn
<1>1. LoopTypes /\ FreshFrom(pool, got)
  <2>1. LoopTypes /\ LoopsAnswer
    BY LoopsStart, AnswerStart
  <2>2. got <= NumMbufs
    BY FramesAssumption DEF Loops!Init
  <2> QED BY <2>1, <2>2 DEF LoopsAnswer, AnswerFacts
<1>2. /\ filled = <<>> /\ inring = <<>> /\ burst = <<>> /\ outring = <<>> /\ txq = <<>>
      /\ txdone = <<>> /\ kni = <<>> /\ knifree = <<>> /\ got = RxDescs
      /\ posted = [k \in 1..RxDescs |-> k]
      /\ pool = [k \in 1..(NumMbufs - RxDescs) |-> k + RxDescs]
  BY DEF Loops!Init, Loops!RingsCreated, Loops!PoolCreated
<1>3. RxDescs \in Nat /\ NumMbufs \in Nat /\ NumMbufs - RxDescs \in Nat
  BY FramesAssumption
<1>4. posted \in Seq(Mbuf) /\ Len(posted) = RxDescs
  <2>1. posted \in Seq(Mbuf)
    BY <1>1 DEF LoopTypes
  <2>2. DOMAIN posted = 1..RxDescs /\ DOMAIN posted = 1..Len(posted) /\ Len(posted) \in Nat
    BY <1>2, <2>1, LenProperties
  <2> QED BY <1>3, <2>1, <2>2
<1>5. \A j \in 1..Len(posted) : posted[j] = 0 + j
  BY <1>2, <1>3, <1>4
<1>6. OutThere = {} /\ Loops!InHand = <<>>
  BY <1>2, RangeEmpty DEF OutThere, SentIn, Loops!InHand
<1>7. Range(posted) = {posted[j] : j \in 1..Len(posted)}
  BY <1>4, RangeEquality
<1>8. Range(pool) = {pool[k] : k \in 1..(NumMbufs - RxDescs)}
  BY <1>2 DEF Range
<1>9. ASSUME NEW m \in Mbuf PROVE OwnedAt(m)
  <2>1. Loops!Users(m) = Loops!Holds(posted, m)
    <3>1. Loops!Holds(posted, m) \in Nat
      BY <1>4, HoldsZero
    <3>2. Loops!Holds(<<>>, m) = 0 /\ Loops!HoldsSent(<<>>, m) = 0
      BY HoldsEmpty, HoldsSentEmpty
    <3>3. Loops!Users(m) = Loops!Holds(posted, m) + 0 + 0 + 0 + 0 + 0 + 0
      BY <1>2, <1>6, <3>2 DEF Loops!Users
    <3> QED BY <3>1, <3>3
  <2>2. Loops!Users(m) \in {0, 1} /\ (Loops!Users(m) = 1 <=> m \in Range(posted))
    BY <1>4, <1>5, <2>1, TakenOnce
  <2>3. m \in Range(posted) => m <= RxDescs
    <3>1. ASSUME NEW j \in 1..Len(posted) PROVE posted[j] <= RxDescs
      BY <1>3, <1>4, <1>5
    <3> QED BY <1>7, <3>1
  <2>4. m \in Range(pool) => ~(m <= RxDescs)
    <3>1. ASSUME NEW k \in 1..(NumMbufs - RxDescs) PROVE ~(pool[k] <= RxDescs)
      <4>1. pool[k] = k + RxDescs
        BY <1>2
      <4> QED BY <1>3, <4>1
    <3> QED BY <1>8, <3>1
  <2> QED BY <1>2, <1>6, <2>2, <2>3, <2>4 DEF OwnedAt
<1>10. UsedBehind(pool, got)
  <2>1. Len(pool) = NumMbufs - RxDescs
    <3>1. pool \in Seq(Mbuf)
      BY <1>1 DEF LoopTypes
    <3>2. DOMAIN pool = 1..(NumMbufs - RxDescs) /\ DOMAIN pool = 1..Len(pool) /\ Len(pool) \in Nat
      BY <1>2, <3>1, LenProperties
    <3> QED BY <1>3, <3>2
  <2>2. NumMbufs - got + 1..Len(pool) = {}
    BY <1>2, <1>3, <2>1
  <2> QED BY <2>2 DEF UsedBehind
<1>11. HandsUnmixed
  <2>1. ~(Len(burst) > 1)
    BY <1>2, EmptySeq
  <2> QED BY <2>1 DEF HandsUnmixed
<1> QED BY <1>9, <1>10, <1>11 DEF OwnerFacts

(* Every step keeps the owners apart. *)
LEMMA OwnKept ==
  ASSUME LoopTypes, LoopsAnswer, LoopsOwn, Loops!Next
  PROVE  LoopsOwn'
  BY ArriveOwn, PollAndHandleOwn, PollToRingOwn, SendFromRingOwn, DequeueOwn, HandleOwn,
     KniTxOwn, AskOwn, RestOwn DEF Loops!Next

(* The owners' facts say what OwnedOnce says. *)
LEMMA OwnersSay ==
  ASSUME LoopTypes, LoopsOwn
  PROVE  Loops!OwnedOnce
<1> SUFFICES ASSUME got <= NumMbufs, whole, lesson # 53, NEW m \in Mbuf
             PROVE  Loops!Users(m) + (IF Loops!Holds(pool, m) > 0 THEN 1 ELSE 0) <= 1
  BY DEF Loops!OwnedOnce, Loops!Mbufs, Mbuf
<1>1. OwnedAt(m) /\ Loops!Users(m) \in Nat
  BY UsersTyped DEF LoopsOwn, OwnerFacts, Counted
<1>2. Loops!Holds(pool, m) \in Nat /\ (Loops!Holds(pool, m) = 0 <=> m \notin Range(pool))
  BY HoldsZero DEF LoopTypes
<1>3. CASE m \in Range(pool)
  <2>1. Loops!Users(m) = 0
    BY <1>1, <1>3 DEF OwnedAt
  <2> QED BY <2>1
<1>4. CASE m \notin Range(pool)
  <2>1. ~(Loops!Holds(pool, m) > 0) /\ Loops!Users(m) <= 1
    BY <1>1, <1>2, <1>4 DEF OwnedAt
  <2> QED BY <1>1, <2>1
<1> QED BY <1>3, <1>4

(* Until the pool has been gone through once an mbuf in use has one owner    *)
(* and is not in the pool, though the loops free every answer twice; and at  *)
(* any time only a frame a program has no use for, or a full ring or pool,   *)
(* costs it an mbuf.                                                         *)
THEOREM MbufsStayAccounted == Spec => []MbufsAccounted
<1> DEFINE I == LoopTypes /\ LoopsAnswer /\ LostBound /\ LoopsOwn
<1>1. Init => I
  BY LoopsStart, AnswerStart, LostStart, OwnStart DEF Init
<1>2. I /\ [Next]_vars => I'
  <2> SUFFICES ASSUME I, [Next]_vars PROVE I'
    OBVIOUS
  <2>1. LoopTypes' /\ LoopsAnswer'
    BY AnswersKept
  <2>2. CASE UNCHANGED framesVars
    <3>1. UNCHANGED <<lesson, mem, pool, posted, filled, txq, txdone, inring, outring, burst, i,
                      kni, knifree, got, whole, forgot>>
      BY <2>2 DEF framesVars
    <3>2. LoopsOwn'
      BY <3>1, OwnUntouched
    <3>3. Reached' = Reached
      BY <3>1 DEF Reached, SentIn, Loops!InHand
    <3>4. LostBound'
      BY <3>1, <3>3 DEF LostBound
    <3> QED BY <2>1, <3>2, <3>4
  <2>3. CASE Loops!Next
    <3>1. LostBound'
      BY <2>3, LostKept
    <3>2. LoopsOwn'
      BY <2>3, OwnKept
    <3> QED BY <2>1, <3>1, <3>2
  <2> QED BY <2>2, <2>3, StepOfLoops
<1>3. I => MbufsAccounted
  BY LostBoundSays, OwnersSay DEF MbufsAccounted
<1> QED BY <1>1, <1>2, <1>3, PTL DEF Spec

-----------------------------------------------------------------------------
(* The DNS server. *)

(* Among numbers from 1 there is a least one.                               *)
LEMMA LeastNumber ==
  ASSUME NEW N \in Nat, NEW S \in SUBSET (1..N), S # {}
  PROVE  \E a \in S : \A j \in S : a <= j
<1> DEFINE Below(a) == {j \in S : j < a}
           T == {Below(a) : a \in S}
<1>1. IsFiniteSet(1..N)
  BY FS_Interval
<1>2. T \subseteq FiniteSubsetsOf(1..N) /\ T # {}
  <2>1. \A a \in S : Below(a) \subseteq 1..N /\ IsFiniteSet(Below(a))
    BY <1>1, FS_Subset
  <2> QED BY <2>1 DEF FiniteSubsetsOf
<1>3. PICK U \in T : \A V \in T : ~(<<V, U>> \in StrictSubsetOrdering(1..N))
  BY <1>2, FS_StrictSubsetOrderingWellFounded, WFMin
<1>4. PICK a \in S : U = Below(a)
  BY <1>3
<1>5. ASSUME NEW j \in S, ~(a <= j) PROVE FALSE
  <2>1. a \in Int /\ j \in Int /\ \A k \in S : k \in Int
    OBVIOUS
  <2>2. Below(j) \subseteq Below(a) /\ j \in Below(a)
    <3>1. j < a
      BY <1>5, <2>1
    <3>2. \A k \in S : k \in Int /\ (k < j => k < a)
      BY <2>1, <3>1
    <3> QED BY <3>1, <3>2
  <2>3. j \notin Below(j)
    BY <2>1
  <2>4. Below(j) \in T /\ Below(j) \in SUBSET (1..N) /\ Below(a) \in SUBSET (1..N) /\ Below(j) # Below(a)
    BY <2>2, <2>3
  <2> QED BY <1>3, <1>4, <2>2, <2>4 DEF StrictSubsetOrdering
<1> QED BY <1>5

(* The DNS server: names. *)

\* A name of c bytes, its only zero the last.
Bytes(w, c) == /\ c \in Nat /\ c >= 2 /\ w[c] = 0
               /\ \A k \in 1..c : w[k] \in 0..255 /\ w[k] \in Nat
               /\ \A k \in 1..c - 1 : w[k] # 0
LEMMA ByteIsNat ==
  ASSUME NEW v \in 0..255
  PROVE  v \in 0..255 /\ v \in Nat
OBVIOUS

LEMMA SizeIsNat ==
  ASSUME NEW v \in 2..256
  PROVE  v \in Nat /\ v >= 2
OBVIOUS

LEMMA NameBytes ==
  ASSUME NEW w \in Names
  PROVE  Bytes(w, Len(w)) /\ w = [k \in 1..Len(w) |-> w[k]]
<1>1. w \in Seq(0..255) /\ Len(w) \in 2..256
  BY NamesAssumption
<1>2. ASSUME NEW k \in 1..Len(w) PROVE w[k] \in 0..255
  BY <1>1, ElementOfSeq
<1>4. \A k \in 1..Len(w) : w[k] \in 0..255 /\ w[k] \in Nat
  <2> SUFFICES ASSUME NEW k \in 1..Len(w) PROVE w[k] \in 0..255 /\ w[k] \in Nat
    BY Zenon
  <2>1. w[k] \in 0..255
    BY <1>2
  <2> QED BY <2>1, ByteIsNat, Zenon
<1>5. w = [k \in 1..Len(w) |-> w[k]]
  BY <1>1
<1>6. w[Len(w)] = 0 /\ \A k \in 1..Len(w) - 1 : w[k] # 0
  BY NamesAssumption
<1>7. Len(w) \in Nat /\ Len(w) >= 2
  BY <1>1, SizeIsNat, Zenon
<1> QED BY <1>4, <1>5, <1>6, <1>7 DEF Bytes

\* The bytes of a name that decode_domain_name takes for lengths.
IsLength(w, k) == k = 1 \/ w[k] <= 63
\* Letters, for a name of c bytes.
Plain(w, c) == \A a \in 2..c : w[a] > 63 \/ \E j \in 1..a - 1 : j + w[j] + 1 = a /\ w[j] <= 63
(* The zero byte is one: the lengths of a plain name lead from each to the next. *)
LEMMA LengthsFollow ==
  ASSUME NEW w, NEW N \in Nat, Bytes(w, N), Plain(w, N), NEW k \in 1..N - 1, IsLength(w, k)
  PROVE  /\ k + w[k] + 1 <= N /\ w[k + w[k] + 1] <= 63
         /\ \A a \in k + 1..k + w[k] : w[a] > 63
<1>1. /\ N >= 2 /\ w[N] = 0 /\ \A a \in 1..N : w[a] \in Nat
      /\ \A a \in 1..N - 1 : w[a] # 0
  BY DEF Bytes
<1>2. \A a \in 2..N : w[a] > 63 \/ \E j \in 1..a - 1 : j + w[j] + 1 = a /\ w[j] <= 63
  BY DEF Plain
<1>3. ASSUME NEW a \in 2..N, IsLength(w, a)
      PROVE  \E j \in 1..a - 1 : j + w[j] + 1 = a /\ IsLength(w, j)
  <2>1. w[a] \in Nat /\ ~(w[a] > 63)
    BY <1>1, <1>3 DEF IsLength
  <2> QED BY <1>2, <2>1 DEF IsLength
<1>4. IsLength(w, N)
  BY <1>1 DEF IsLength
<1> DEFINE Jumped(a) == \E j \in 1..a - 1 : /\ j + w[j] + 1 = a /\ IsLength(w, j)
                                            /\ \E l \in j + 1..a - 1 : IsLength(w, l)
           Bad == {a \in 2..N : Jumped(a)}
<1>5. Bad = {}
  <2> SUFFICES ASSUME Bad # {} PROVE FALSE
    OBVIOUS
  <2>1. Bad \in SUBSET (1..N)
    BY <1>1
  <2> HIDE DEF Bad
  <2>2. PICK m \in Bad : \A a \in Bad : m <= a
    BY <2>1, LeastNumber
  <2> USE DEF Bad
  <2>3. PICK j \in 1..m - 1 : /\ j + w[j] + 1 = m /\ IsLength(w, j)
                              /\ \E l \in j + 1..m - 1 : IsLength(w, l)
    OBVIOUS
  <2> DEFINE Between == {l \in j + 1..m - 1 : IsLength(w, l)}
  <2>4. Between \in SUBSET (1..N) /\ Between # {}
    BY <1>1, <2>3
  <2>5. PICK l \in Between : \A a \in Between : l <= a
    BY <1>1, <2>4, LeastNumber
  <2>6. l \in 2..N /\ l > j /\ l < m /\ IsLength(w, l)
    BY <1>1, <2>3
  <2>7. PICK h \in 1..l - 1 : h + w[h] + 1 = l /\ IsLength(w, h)
    BY <1>3, <2>6
  <2>8. h <= j
    <3>1. CASE h > j
      <4>1. h \in Between
        BY <2>6, <2>7, <3>1
      <4> QED BY <2>5, <2>7, <4>1
    <3> QED BY <3>1
  <2>9. h # j
    BY <2>3, <2>6, <2>7
  <2>10. j \in h + 1..l - 1
    BY <2>3, <2>6, <2>7, <2>8, <2>9
  <2>11. l \in Bad
    BY <2>3, <2>6, <2>7, <2>10
  <2> QED BY <1>1, <2>2, <2>6, <2>11
<1> DEFINE After == {a \in k + 1..N : IsLength(w, a)}
<1>6. k \in 1..N - 1 /\ After \in SUBSET (1..N) /\ N \in After
  BY <1>1, <1>4
<1> HIDE DEF After
<1>7. PICK m \in After : \A a \in After : m <= a
  BY <1>6, LeastNumber
<1> USE DEF After
<1>8. m \in 2..N /\ IsLength(w, m) /\ m > k
  BY <1>1, <1>6
<1>9. PICK j \in 1..m - 1 : j + w[j] + 1 = m /\ IsLength(w, j)
  BY <1>3, <1>8
<1>10. j <= k
  <2>1. CASE j > k
    <3>1. j \in After
      BY <1>1, <1>6, <1>8, <1>9, <2>1
    <3> QED BY <1>7, <1>9, <3>1
  <2> QED BY <1>6, <2>1
<1>11. j = k
  <2>1. CASE j < k
    <3>1. k \in j + 1..m - 1
      BY <1>6, <1>8, <1>9, <2>1
    <3>2. m \in Bad
      BY <1>8, <1>9, <3>1
    <3> QED BY <1>5, <3>2
  <2> QED BY <1>6, <1>10, <2>1
<1>12. \A a \in k + 1..m - 1 : w[a] > 63
  <2> SUFFICES ASSUME NEW a \in k + 1..m - 1, ~(w[a] > 63) PROVE FALSE
    OBVIOUS
  <2>1. a \in k + 1..N /\ ~(m <= a) /\ a \in 1..N
    BY <1>1, <1>6, <1>8
  <2>2. w[a] \in Nat
    BY <1>1, <2>1
  <2>3. IsLength(w, a)
    BY <2>2 DEF IsLength
  <2>4. a \in After
    BY <2>1, <2>3
  <2> QED BY <1>7, <2>1, <2>4
<1>13. w[m] <= 63
  BY <1>8, <1>6 DEF IsLength
<1>14. w[k] \in Nat /\ k + w[k] + 1 = m
  BY <1>1, <1>9, <1>11
<1>15. k + w[k] = m - 1
  BY <1>8, <1>14
<1> QED BY <1>8, <1>12, <1>13, <1>14, <1>15

(* LabelLen finds the next dot, or the end. *)
LEMMA LabelFound ==
  ASSUME NEW s, NEW c \in Nat, Len(s) = c, NEW a \in Nat, NEW b \in Nat, a + b <= c,
         \A j \in a + 1..a + b : s[j] # Server!Dot, a + b = c \/ s[a + b + 1] = Server!Dot
  PROVE  Server!LabelLen(s, a) = b
<1> DEFINE Ends(m) == /\ \A j \in a + 1..a + m : s[j] # Server!Dot
                      /\ a + m = Len(s) \/ s[a + m + 1] = Server!Dot
<1>1. b \in 0..Len(s) - a /\ Ends(b)
  OBVIOUS
<1>2. ASSUME NEW m \in 0..Len(s) - a, Ends(m) PROVE m = b
  <2>1. CASE m < b
    <3>1. a + m + 1 \in a + 1..a + b /\ a + m # Len(s)
      BY <2>1
    <3> QED BY <1>2, <3>1
  <2>2. CASE b < m
    <3>1. a + b + 1 \in a + 1..a + m
      BY <2>2
    <3>2. s[a + b + 1] # Server!Dot
      BY <1>2, <3>1
    <3>3. a + b = Len(s)
      BY <3>2
    <3> QED BY <2>2, <3>3
  <2> QED BY <2>1, <2>2
<1>3. Server!LabelLen(s, a) = CHOOSE m \in 0..Len(s) - a : Ends(m)
  BY DEF Server!LabelLen
<1> HIDE DEF Ends
<1> QED BY <1>1, <1>2, <1>3

(* decode_domain_name and encode_domain_name are inverse on plain names.    *)
LEMMA NameKept ==
  ASSUME NEW w \in Names, Server!Letters(w)
  PROVE  Server!encode_domain_name(Server!decode_domain_name(w)) = w
<1>1. PICK N \in Nat : Bytes(w, N) /\ N = Len(w) /\ w = [k \in 1..N |-> w[k]]
  BY NameBytes DEF Bytes
<1>2. Plain(w, N)
  BY <1>1 DEF Plain, Server!Letters
<1>3. /\ N >= 2 /\ w[N] = 0 /\ \A k \in 1..N : w[k] \in Nat
      /\ \A k \in 1..N - 1 : w[k] # 0
  BY <1>1 DEF Bytes
<1> DEFINE s == Server!decode_domain_name(w)
           e == Server!encode_domain_name(s)
<1>4. s = [k \in 1..N - 2 |-> IF w[k + 1] <= 63 THEN Server!Dot ELSE w[k + 1]]
  BY <1>1 DEF Server!decode_domain_name
<1>5. Len(s) = N - 2
  BY <1>3, <1>4
<1>6. \A k \in 1..N - 2 : s[k] = IF w[k + 1] <= 63 THEN Server!Dot ELSE w[k + 1]
  BY <1>4
<1> HIDE DEF s
<1>7. ASSUME NEW k \in 1..N - 1, IsLength(w, k) PROVE Server!LabelLen(s, k - 1) = w[k]
  <2>1. PICK a \in Nat : a = k - 1
    OBVIOUS
  <2>2. PICK b \in Nat : b = w[k]
    BY <1>3
  <2>3. PICK c \in Nat : c = N - 2
    BY <1>3
  <2>4. /\ k + b + 1 <= N /\ w[k + b + 1] <= 63
        /\ \A j \in k + 1..k + b : w[j] > 63
    BY <1>1, <1>2, <1>7, <2>2, LengthsFollow
  <2>5. a + b <= c
    BY <2>1, <2>3, <2>4
  <2>6. ASSUME NEW j \in a + 1..a + b PROVE s[j] # Server!Dot
    <3>1. j \in 1..N - 2 /\ j + 1 \in k + 1..k + b /\ j + 1 \in 1..N
      BY <2>1, <2>3, <2>5
    <3>2. w[j + 1] > 63 /\ w[j + 1] \in Nat
      BY <1>3, <2>4, <3>1
    <3>3. s[j] = w[j + 1]
      BY <1>6, <3>1, <3>2
    <3> QED BY <3>2, <3>3 DEF Server!Dot
  <2>7. a + b = c \/ s[a + b + 1] = Server!Dot
    <3>1. CASE a + b # c
      <4>1. a + b + 1 \in 1..N - 2 /\ (a + b + 1) + 1 = k + b + 1
        BY <2>1, <2>3, <2>5, <3>1
      <4> QED BY <1>6, <2>4, <4>1
    <3> QED BY <3>1
  <2>8. Len(s) = c
    BY <1>5, <2>3
  <2>9. Server!LabelLen(s, a) = b
    BY <2>5, <2>6, <2>7, <2>8, LabelFound
  <2> QED BY <2>1, <2>2, <2>9
<1>8. e = [k \in 1..N |-> CASE k = 1 -> Server!LabelLen(s, 0)
                            [] k = N -> 0
                            [] OTHER -> IF s[k - 1] = Server!Dot THEN Server!LabelLen(s, k - 1) ELSE s[k - 1]]
  <2>1. Len(s) + 2 = N
    BY <1>3, <1>5
  <2> QED BY <2>1 DEF Server!encode_domain_name
<1> HIDE DEF e
<1>9. ASSUME NEW k \in 1..N PROVE e[k] = w[k]
  <2>1. CASE k = 1
    <3>1. 1 \in 1..N - 1 /\ 1 - 1 = 0 /\ IsLength(w, 1)
      BY <1>3 DEF IsLength
    <3>2. Server!LabelLen(s, 0) = w[1]
      BY <1>7, <3>1
    <3>3. 1 \in 1..N /\ 1 # N
      BY <1>3
    <3>4. e[1] = Server!LabelLen(s, 0)
      BY <1>8, <3>3
    <3> QED BY <2>1, <3>2, <3>4
  <2>2. CASE k # 1 /\ k = N
    BY <1>3, <1>8, <2>2
  <2>3. CASE k # 1 /\ k # N
    <3>1. k - 1 \in 1..N - 2 /\ (k - 1) + 1 = k /\ k \in 1..N - 1 /\ w[k] \in Nat
      BY <1>3, <2>3
    <3>2. s[k - 1] = IF w[k] <= 63 THEN Server!Dot ELSE w[k]
      BY <1>6, <3>1
    <3>3. e[k] = IF s[k - 1] = Server!Dot THEN Server!LabelLen(s, k - 1) ELSE s[k - 1]
      BY <1>8, <2>3
    <3>4. CASE w[k] <= 63
      <4>1. IsLength(w, k)
        BY <3>4 DEF IsLength
      <4>2. Server!LabelLen(s, k - 1) = w[k]
        BY <1>7, <3>1, <4>1
      <4> QED BY <3>2, <3>3, <3>4, <4>2
    <3>5. CASE ~(w[k] <= 63)
      BY <3>1, <3>2, <3>3, <3>5 DEF Server!Dot
    <3> QED BY <3>4, <3>5
  <2> QED BY <2>1, <2>2, <2>3
<1>10. e = [k \in 1..N |-> e[k]]
  BY <1>8
<1>11. e = w
  BY <1>1, <1>9, <1>10
<1> QED BY <1>11 DEF e, s

(* A set of numbers up to N is finite. *)
LEMMA NumbersFinite ==
  ASSUME NEW N \in Nat, NEW S \in SUBSET (1..N)
  PROVE  IsFiniteSet(S) /\ S \subseteq Nat
<1>1. IsFiniteSet(1..N)
  BY FS_Interval
<1>2. IsFiniteSet(S)
  BY <1>1, FS_Subset
<1>3. S \subseteq Nat
  OBVIOUS
<1> QED BY <1>2, <1>3

(* The places of a set of numbers up to N, counted from the other end.      *)
LEMMA Mirrored ==
  ASSUME NEW N \in Nat, NEW S \in SUBSET (1..N), NEW T \in SUBSET (1..N),
         \A k \in 1..N : k \in S <=> N + 1 - k \in T
  PROVE  Cardinality(S) = Cardinality(T)
<1> DEFINE f == [k \in S |-> N + 1 - k]
<1>1. IsFiniteSet(S)
  BY NumbersFinite
<1>2. f \in [S -> T]
  OBVIOUS
<1>3. \A a, b \in S : f[a] = f[b] => a = b
  OBVIOUS
<1>4. ASSUME NEW b \in T PROVE \E a \in S : f[a] = b
  <2>1. N + 1 - b \in 1..N /\ N + 1 - (N + 1 - b) = b
    OBVIOUS
  <2>2. N + 1 - b \in S
    BY <2>1
  <2> QED BY <2>1, <2>2
<1> HIDE DEF f
<1>5. f \in Bijection(S, T)
  BY <1>2, <1>3, <1>4 DEF Bijection, Injection, Surjection, IsInjective
<1>6. ExistsBijection(S, T)
  BY <1>5 DEF ExistsBijection
<1> QED BY <1>1, <1>6, FS_Bijection

\* The numbers of S from a on.
NotBefore(S, a) == {j \in S : j >= a}
(* A member of a set of numbers is known by how many are not less than it.  *)
LEMMA PlaceFound ==
  ASSUME NEW N \in Nat, NEW S \in SUBSET (1..N), NEW a \in S
  PROVE  /\ Cardinality(NotBefore(S, a)) \in 1..Cardinality(S)
         /\ \A k \in S : Cardinality(NotBefore(S, k)) = Cardinality(NotBefore(S, a)) => k = a
<1> DEFINE c == Cardinality(NotBefore(S, a))
<1>1. IsFiniteSet(S) /\ S \subseteq Nat
  BY NumbersFinite
<1>2. ASSUME NEW k \in S PROVE IsFiniteSet(NotBefore(S, k)) /\ Cardinality(NotBefore(S, k)) <= Cardinality(S)
  <2>1. NotBefore(S, k) \in SUBSET S
    BY DEF NotBefore
  <2> QED BY <1>1, <2>1, FS_Subset
<1>3. ASSUME NEW k \in S, NEW b \in S, k < b PROVE Cardinality(NotBefore(S, k)) # Cardinality(NotBefore(S, b))
  <2>1. NotBefore(S, b) \in SUBSET NotBefore(S, k)
    <3>1. k \in Nat /\ b \in Nat /\ \A j \in S : j \in Nat
      BY <1>1
    <3>2. \A j \in S : j >= b => j >= k
      BY <1>3, <3>1
    <3> QED BY <3>2 DEF NotBefore
  <2>2. k \in NotBefore(S, k) /\ k \notin NotBefore(S, b)
    BY <1>1, <1>3 DEF NotBefore
  <2> QED BY <1>2, <2>1, <2>2, FS_Subset
<1>4. a \in NotBefore(S, a)
  BY <1>1 DEF NotBefore
<1>6. c \in Nat /\ c # 0
  BY <1>2, <1>4, FS_CardinalityType, FS_EmptySet
<1>7. Cardinality(S) \in Nat /\ c <= Cardinality(S)
  BY <1>1, <1>2, FS_CardinalityType
<1>8. ASSUME NEW k \in S, Cardinality(NotBefore(S, k)) = c PROVE k = a
  <2>1. k \in Nat /\ a \in Nat
    BY <1>1
  <2>2. ~(k < a) /\ ~(a < k)
    BY <1>3, <1>8
  <2> QED BY <2>1, <2>2
<1> QED BY <1>6, <1>7, <1>8

(* The parts of a query, and its questions that can be decoded. *)
LEMMA QueryParts ==
  ASSUME NEW q \in Server!Query
  PROVE  \E c \in Nat : Len(q.qd) = c /\ q.qd \in [1..c -> Server!Question]
<1>1. q.qd \in Server!Seqs(Server!Question, MaxQuestions)
  BY DEF Server!Query
<1>2. PICK c \in 0..MaxQuestions : q.qd \in [1..c -> Server!Question]
  BY <1>1 DEF Server!Seqs
<1>3. c \in Nat
  BY NamesAssumption
<1>4. Len(q.qd) = c
  BY <1>2, <1>3
<1> QED BY <1>2, <1>3, <1>4

LEMMA DecodedNames ==
  ASSUME NEW q \in Server!Query, NEW c \in Nat, Len(q.qd) = c,
         q.qd \in [1..c -> Server!Question]
  PROVE  Server!Decoded(q) \in 0..c /\ \A k \in 1..Server!Decoded(q) : q.qd[k].name \in Names
<1>1. \A k \in 1..c : q.qd[k].name \in Names \union {Server!Unterminated}
  BY DEF Server!Question
<1> DEFINE Bad == {k \in 1..c : q.qd[k].name = Server!Unterminated}
           First(k) == q.qd[k].name = Server!Unterminated
                       /\ \A j \in 1..k - 1 : q.qd[j].name # Server!Unterminated
<1>2. CASE q.an
  BY <1>2 DEF Server!Decoded
<1>3. CASE ~q.an /\ Bad = {}
  <2>1. Server!Decoded(q) = c
    BY <1>3 DEF Server!Decoded
  <2> QED BY <1>1, <1>3, <2>1
<1>4. CASE ~q.an /\ Bad # {}
  <2>1. Bad \in SUBSET (1..c)
    OBVIOUS
  <2> HIDE DEF Bad
  <2>2. PICK m \in Bad : \A k \in Bad : m <= k
    BY <1>4, <2>1, LeastNumber
  <2> USE DEF Bad
  <2>3. m \in 1..c /\ First(m)
    BY <2>2
  <2>4. PICK b \in 1..c : b = (CHOOSE k \in 1..c : First(k)) /\ First(b)
    BY <2>3
  <2>5. Server!Decoded(q) = b - 1
    <3>1. ~q.an /\ \E k \in 1..Len(q.qd) : q.qd[k].name = Server!Unterminated
      BY <1>4
    <3>2. Server!Decoded(q) = (CHOOSE k \in 1..Len(q.qd) : First(k)) - 1
      BY <3>1 DEF Server!Decoded
    <3> HIDE DEF First
    <3> QED BY <2>4, <3>2
  <2>6. \A k \in 1..b - 1 : k \in 1..c /\ q.qd[k].name # Server!Unterminated
    BY <2>4, SMTT(30)
  <2>7. \A k \in 1..b - 1 : q.qd[k].name \in Names
    BY <1>1, <2>6
  <2>8. b - 1 \in 0..c
    OBVIOUS
  <2> QED BY <2>5, <2>7, <2>8
<1> QED BY <1>2, <1>3, <1>4

(* The counting of Dns is that of the library. *)
LEMMA ServerCardinality ==
  ASSUME NEW S
  PROVE  Server!Cardinality(S) = Cardinality(S)
BY DEF Server!Cardinality, Cardinality

\* The member of K that j members are not less than.
Place(K, j) == CHOOSE k \in K : Server!Cardinality(NotBefore(K, k)) = j
LEMMA PlaceIsOne ==
  ASSUME NEW N \in Nat, NEW K \in SUBSET (1..N), NEW k \in K
  PROVE  Place(K, Cardinality(NotBefore(K, k))) = k
<1>1. PICK h : h = Cardinality(NotBefore(K, k))
  OBVIOUS
<1>2. \A m \in K : Cardinality(NotBefore(K, m)) = h => m = k
  BY <1>1, PlaceFound, Zenon
<1>3. \A m \in K : Server!Cardinality(NotBefore(K, m)) = h <=> m = k
  BY <1>1, <1>2, ServerCardinality
<1>4. Place(K, h) = k
  BY <1>3 DEF Place
<1> QED BY <1>1, <1>4

(* resolve_query: as many records as there are known questions, that of a   *)
(* question before those of the questions walked before it.                 *)
LEMMA RecordsPlaced ==
  ASSUME NEW qs, NEW c \in Nat, Len(qs) = c,
         NEW K \in SUBSET (1..c), \A k \in 1..c : k \in K <=> Server!Known(qs[k])
  PROVE  /\ Cardinality(K) \in Nat
         /\ Server!Records(qs) = [j \in 1..Cardinality(K) |-> qs[Place(K, j)]]
<1>1. K = {k \in 1..c : Server!Known(qs[k])}
  OBVIOUS
<1>2. Cardinality(K) \in Nat
  BY NumbersFinite, FS_CardinalityType
<1>3. Server!Records(qs) = [j \in 1..Server!Cardinality(K) |-> qs[Place(K, j)]]
  BY <1>1 DEF Server!Records, NotBefore, Place
<1> QED BY <1>2, <1>3, ServerCardinality

\* The questions that are decoded, as the message holds them.
Read(q, c) == [k \in 1..c |-> [name |-> Server!decode_domain_name(q.qd[c + 1 - k].name),
                               type |-> q.qd[c + 1 - k].type]]
(* The response to a query is built from its decoded questions alone. *)
LEMMA ResponseBuilt ==
  ASSUME NEW q \in Server!Query, NEW c \in Nat, c = Server!Decoded(q), Server!Serve(q)
  PROVE  /\ Len(Read(q, c)) = c
         /\ reply'.questions = Server!Encoded(Read(q, c))
         /\ reply'.answers = Server!Encoded(Server!Records(Read(q, c)))
         /\ reply'.anCount = Len(Server!Records(Read(q, c)))
         /\ reply'.qdCount = Len(q.qd)
         /\ reply'.rcode = IF \E k \in 1..c : Read(q, c)[k].type \notin {"A", "AAAA", "TXT"}
                           THEN "NotImplemented" ELSE "Ok"
<1> DEFINE Q == Read(q, c)
           M == Server!decode_msg(Server!Cleared(msg), q)
<1>1. Len(Q) = c /\ Q \o <<>> = Q
  BY DEF Read
<1>2. M = [questions |-> Q, answers |-> <<>>, qdCount |-> Len(q.qd), rcode |-> "Ok"]
  <2> DEFINE D == Server!Decoded(q)
  <2>1. Q = [k \in 1..D |-> [name |-> Server!decode_domain_name(q.qd[D + 1 - k].name),
                             type |-> q.qd[D + 1 - k].type]]
    BY DEF Read
  <2>2. Server!Cleared(msg) = [questions |-> <<>>, answers |-> <<>>, qdCount |-> 0, rcode |-> "Ok"]
    BY DEF Server!Cleared, Server!Empty
  <2> HIDE DEF Q
  <2>3. M = [Server!Cleared(msg) EXCEPT !.qdCount = Len(q.qd), !.questions = Q \o @]
    BY <2>1 DEF Server!decode_msg
  <2>4. M = [[questions |-> <<>>, answers |-> <<>>, qdCount |-> 0, rcode |-> "Ok"]
               EXCEPT !.qdCount = Len(q.qd), !.questions = Q \o @]
    BY <2>2, <2>3
  <2> HIDE DEF M
  <2> QED BY <1>1, <2>4
<1> DEFINE R == Server!Records(Q)
<1>3. R \o <<>> = R
  <2>1. PICK K \in SUBSET (1..c) : \A k \in 1..c : k \in K <=> Server!Known(Q[k])
    <3> WITNESS {k \in 1..c : Server!Known(Q[k])} \in SUBSET (1..c)
    <3> QED OBVIOUS
  <2> HIDE DEF Q
  <2>2. Cardinality(K) \in Nat /\ R = [j \in 1..Cardinality(K) |-> Q[Place(K, j)]]
    BY <1>1, <2>1, RecordsPlaced
  <2> HIDE DEF R
  <2> QED BY <2>2
<1> HIDE DEF Q, M, R
<1>4. msg' = [questions |-> Q, answers |-> R, qdCount |-> Len(q.qd),
              rcode |-> IF \E k \in 1..c : Q[k].type \notin {"A", "AAAA", "TXT"}
                        THEN "NotImplemented" ELSE "Ok"]
  <2>1. msg' = Server!resolve_query(M)
    BY DEF Server!Serve, M
  <2>2. msg' = [M EXCEPT !.answers = Server!Records(M.questions) \o @,
                         !.rcode = IF \E k \in 1..Len(M.questions) :
                                        M.questions[k].type \notin {"A", "AAAA", "TXT"}
                                   THEN "NotImplemented" ELSE "Ok"]
    BY <2>1 DEF Server!resolve_query
  <2>3. Server!Records(M.questions) \o M.answers = R
    BY <1>2, <1>3 DEF R
  <2> QED BY <1>1, <1>2, <2>2, <2>3
<1>5. reply' = [questions |-> Server!Encoded(Q), answers |-> Server!Encoded(R), anCount |-> Len(R),
                qdCount |-> Len(q.qd), rcode |-> msg'.rcode]
  BY <1>4 DEF Server!Serve, Server!encode_msg
<1> QED BY <1>1, <1>4, <1>5 DEF Q, R

(* A decoded question as it is encoded again: unchanged, if its name is plain. *)
LEMMA QuestionKept ==
  ASSUME NEW q, q \in Server!Question, q.name \in Names, Server!Letters(q.name)
  PROVE  [name |-> Server!encode_domain_name(Server!decode_domain_name(q.name)), type |-> q.type] = q
<1>1. Server!encode_domain_name(Server!decode_domain_name(q.name)) = q.name
  BY NameKept
<1>2. q = [name |-> q.name, type |-> q.type]
  BY DEF Server!Question
<1> QED BY <1>1, <1>2

(* A step of the server sends a response that tells of its query. *)
LEMMA ResponseRight ==
  ASSUME NEW q \in Server!Query, Server!Serve(q)
  PROVE  Server!ReplyMatches'
<1>1. PICK c \in Nat : Len(q.qd) = c /\ q.qd \in [1..c -> Server!Question]
  BY QueryParts
<1>2. PICK d \in 0..c : d = Server!Decoded(q) /\ \A k \in 1..d : q.qd[k].name \in Names
  BY <1>1, DecodedNames
<1>3. d \in Nat /\ query' = q
  BY DEF Server!Serve
<1> DEFINE Q == Read(q, d)
           asked == SubSeq(q.qd, 1, d)
           plain == {k \in 1..d : Server!Letters(asked[k].name)}
           known == {k \in 1..d : Server!KnownAsked(asked[k])}
           K == {k \in 1..d : Server!Known(Q[k])}
           R == Server!Records(Q)
<1>4. \A k \in 1..d : asked[k] = q.qd[k] /\ asked[k] \in Server!Question
  <2>1. q.qd \in Seq(Server!Question)
    BY <1>1
  <2>2. \A k \in 1..d : asked[k] = q.qd[k]
    BY <1>1, <1>3, <2>1, SubSeqProperties
  <2>3. \A k \in 1..d : k \in 1..c
    BY <1>1, <1>3
  <2> QED BY <1>1, <2>2, <2>3
<1> HIDE DEF asked
<1>5. \A k \in 1..d : /\ Q[d + 1 - k].name = Server!decode_domain_name(asked[k].name)
                      /\ Q[d + 1 - k].type = asked[k].type
  <2> SUFFICES ASSUME NEW k \in 1..d
               PROVE  /\ Q[d + 1 - k].name = Server!decode_domain_name(asked[k].name)
                      /\ Q[d + 1 - k].type = asked[k].type
    OBVIOUS
  <2>1. d + 1 - k \in 1..d /\ d + 1 - (d + 1 - k) = k
    BY <1>3
  <2>2. Q[d + 1 - k] = [name |-> Server!decode_domain_name(q.qd[k].name), type |-> q.qd[k].type]
    BY <2>1 DEF Read
  <2> QED BY <1>4, <2>2
<1>6. /\ Len(Q) = d
      /\ reply'.questions = Server!Encoded(Q)
      /\ reply'.answers = Server!Encoded(R)
      /\ reply'.anCount = Len(R)
      /\ reply'.qdCount = c
      /\ reply'.rcode = IF \E k \in 1..d : Q[k].type \notin {"A", "AAAA", "TXT"}
                        THEN "NotImplemented" ELSE "Ok"
  BY <1>1, <1>2, <1>3, ResponseBuilt
<1> HIDE DEF Q
<1>7. /\ Cardinality(K) \in Nat /\ Len(R) = Cardinality(K)
      /\ \A k \in K : /\ Cardinality(NotBefore(K, k)) \in 1..Cardinality(K)
                      /\ R[Cardinality(NotBefore(K, k))] = Q[k]
  <2>1. K \in SUBSET (1..d) /\ \A k \in 1..d : k \in K <=> Server!Known(Q[k])
    OBVIOUS
  <2> HIDE DEF K
  <2>2. Len(Q) = d /\ d \in Nat
    BY <1>3, <1>6
  <2>3. PICK m \in Nat : m = d
    BY <2>2
  <2>4. Len(Q) = m /\ K \in SUBSET (1..m) /\ \A k \in 1..m : k \in K <=> Server!Known(Q[k])
    BY <2>1, <2>2, <2>3
  <2>5. Cardinality(K) \in Nat /\ R = [j \in 1..Cardinality(K) |-> Q[Place(K, j)]]
    BY <2>4, RecordsPlaced
  <2> HIDE DEF R
  <2>6. Len(R) = Cardinality(K)
    BY <2>5
  <2>7. ASSUME NEW k \in K
        PROVE  /\ Cardinality(NotBefore(K, k)) \in 1..Cardinality(K)
               /\ R[Cardinality(NotBefore(K, k))] = Q[k]
    <3>1. Cardinality(NotBefore(K, k)) \in 1..Cardinality(K)
      BY <2>4, PlaceFound
    <3>2. Place(K, Cardinality(NotBefore(K, k))) = k
      BY <2>4, PlaceIsOne
    <3> QED BY <2>5, <3>1, <3>2
  <2> QED BY <2>5, <2>6, <2>7
<1> HIDE DEF R
<1>8. \A k \in 1..d : k \in known <=> d + 1 - k \in K
  <2> SUFFICES ASSUME NEW k \in 1..d PROVE k \in known <=> d + 1 - k \in K
    OBVIOUS
  <2>1. d + 1 - k \in 1..d
    BY <1>3
  <2>2. Server!KnownAsked(asked[k]) <=> Server!Known(Q[d + 1 - k])
    BY <1>5 DEF Server!KnownAsked, Server!Known
  <2> QED BY <2>1, <2>2
<1>9. known \in SUBSET (1..d) /\ K \in SUBSET (1..d)
  OBVIOUS
<1> HIDE DEF known, K
<1>10. Cardinality(known) = Cardinality(K)
  BY <1>3, <1>8, <1>9, Mirrored, ZenonT(60)
<1>11. ASSUME NEW k \in known
       PROVE  Cardinality({j \in known : j <= k}) = Cardinality(NotBefore(K, d + 1 - k))
  <2> DEFINE S == {j \in known : j <= k}
  <2>1. \A j \in 1..d : j \in S <=> d + 1 - j \in NotBefore(K, d + 1 - k)
    <3> SUFFICES ASSUME NEW j \in 1..d PROVE j \in S <=> d + 1 - j \in NotBefore(K, d + 1 - k)
      OBVIOUS
    <3>1. k \in 1..d
      BY <1>9
    <3>2. j <= k <=> d + 1 - j >= d + 1 - k
      BY <1>3, <3>1
    <3> QED BY <1>8, <3>2 DEF NotBefore
  <2>2. S \in SUBSET (1..d) /\ NotBefore(K, d + 1 - k) \in SUBSET (1..d)
    BY <1>9 DEF NotBefore
  <2> HIDE DEF S
  <2>3. Cardinality(S) = Cardinality(NotBefore(K, d + 1 - k))
    BY <1>3, <2>1, <2>2, Mirrored
  <2> QED BY <2>3 DEF S
\* The questions, last first.
<1>12. Len(reply'.questions) = d
  BY <1>3, <1>6 DEF Server!Encoded
<1>13. ASSUME NEW k \in 1..d, Server!Letters(asked[k].name)
       PROVE  [name |-> Server!encode_domain_name(Q[d + 1 - k].name), type |-> Q[d + 1 - k].type]
              = asked[k]
  <2>1. asked[k] \in Server!Question /\ asked[k].name \in Names
    BY <1>2, <1>4
  <2>2. [name |-> Server!encode_domain_name(Server!decode_domain_name(asked[k].name)),
         type |-> asked[k].type] = asked[k]
    BY <1>13, <2>1, QuestionKept
  <2> QED BY <1>5, <2>2
<1>14. \A k \in plain : reply'.questions[d + 1 - k] = asked[k]
  <2> SUFFICES ASSUME NEW k \in 1..d, Server!Letters(asked[k].name)
               PROVE  reply'.questions[d + 1 - k] = asked[k]
    OBVIOUS
  <2>1. d + 1 - k \in 1..Len(Q)
    BY <1>3, <1>6
  <2>2. reply'.questions[d + 1 - k] =
          [name |-> Server!encode_domain_name(Q[d + 1 - k].name), type |-> Q[d + 1 - k].type]
    BY <1>6, <2>1 DEF Server!Encoded
  <2> QED BY <1>13, <2>2
\* The records, in the order asked.
<1>15. reply'.anCount = Len(reply'.answers) /\ reply'.anCount = Cardinality(known)
  <2>1. Len(reply'.answers) = Len(R)
    BY <1>6, <1>7 DEF Server!Encoded
  <2> QED BY <1>6, <1>7, <1>10, <2>1
<1>16. \A k \in plain \cap known : reply'.answers[Cardinality({j \in known : j <= k})] = asked[k]
  <2> SUFFICES ASSUME NEW k \in 1..d, Server!Letters(asked[k].name), k \in known
               PROVE  reply'.answers[Cardinality({j \in known : j <= k})] = asked[k]
    OBVIOUS
  <2>1. d + 1 - k \in K
    BY <1>8
  <2>2. PICK h : h = Cardinality(NotBefore(K, d + 1 - k))
    OBVIOUS
  <2>3. h \in 1..Len(R) /\ R[h] = Q[d + 1 - k]
    BY <1>7, <2>1, <2>2
  <2>4. reply'.answers[h] = [name |-> Server!encode_domain_name(R[h].name), type |-> R[h].type]
    BY <1>6, <2>3 DEF Server!Encoded
  <2>5. reply'.answers[h] = asked[k]
    BY <1>13, <2>3, <2>4
  <2> QED BY <1>11, <2>2, <2>5
<1>17. reply'.rcode = "NotImplemented" <=> \E k \in 1..d : asked[k].type \notin {"A", "AAAA", "TXT"}
  <2>1. \A k \in 1..d : d + 1 - k \in 1..d /\ d + 1 - (d + 1 - k) = k
    BY <1>3
  <2>2. \A k \in 1..d : Q[d + 1 - k].type = asked[k].type
    BY <1>5
  <2>3. (\E k \in 1..d : Q[k].type \notin {"A", "AAAA", "TXT"})
          <=> \E k \in 1..d : asked[k].type \notin {"A", "AAAA", "TXT"}
    <3>1. ASSUME NEW k \in 1..d, Q[k].type \notin {"A", "AAAA", "TXT"}
          PROVE  \E j \in 1..d : asked[j].type \notin {"A", "AAAA", "TXT"}
      <4>1. d + 1 - k \in 1..d /\ Q[k].type = asked[d + 1 - k].type
        BY <2>1, <2>2
      <4> QED BY <3>1, <4>1
    <3>2. ASSUME NEW k \in 1..d, asked[k].type \notin {"A", "AAAA", "TXT"}
          PROVE  \E j \in 1..d : Q[j].type \notin {"A", "AAAA", "TXT"}
      <4>1. d + 1 - k \in 1..d /\ Q[d + 1 - k].type = asked[k].type
        BY <2>1, <2>2
      <4> QED BY <3>2, <4>1
    <3> QED BY <3>1, <3>2
  <2> QED BY <1>6, <2>3
<1>18. d = Len(query'.qd) => reply'.qdCount = Len(reply'.questions)
  BY <1>1, <1>3, <1>6, <1>12
<1>19. Server!Decoded(query') = d /\ SubSeq(query'.qd, 1, d) = asked
  BY <1>2, <1>3 DEF asked
<1> QED BY <1>12, <1>14, <1>15, <1>16, <1>17, <1>18, <1>19, ServerCardinality
        DEF Server!ReplyMatches, known

(* A DNS response tells of its own query, whatever names, types and how many *)
(* questions it has and whatever the message of the server held before: its  *)
(* questions, its records and its code are those of the query it answers.    *)
THEOREM QueryAnswered == Spec => []ReplyMatches
<1>1. Init => ReplyMatches
  <2> SUFFICES ASSUME Init PROVE Server!ReplyMatches
    BY DEF ReplyMatches
  <2>1. queries = 0
    BY DEF Init, Server!Init
  <2> QED BY <2>1 DEF Server!ReplyMatches
<1>2. ReplyMatches /\ [Next]_vars => ReplyMatches'
  <2> SUFFICES ASSUME Server!ReplyMatches, [Next]_vars PROVE Server!ReplyMatches'
    BY DEF ReplyMatches
  <2>1. CASE UNCHANGED dnsVars
    <3>1. query' = query /\ reply' = reply /\ queries' = queries
      BY <2>1 DEF dnsVars
    <3> QED BY <3>1 DEF Server!ReplyMatches
  <2>2. CASE Server!Next
    BY <2>2, ResponseRight DEF Server!Next
  <2> QED BY <2>1, <2>2, StepOfOne
<1> QED BY <1>1, <1>2, PTL DEF Spec
=============================================================================
