---------------------------- MODULE VringProofs ----------------------------
(***************************************************************************)
(* The TX virtqueue is correct for rings of any size as long as the client *)
(* sends fewer packets than the ring has descriptors (its first lap; the   *)
(* second one is where process_used_vring goes wrong).                     *)
(***************************************************************************)
EXTENDS VringProps, TLAPS

-----------------------------------------------------------------------------
(* Lists that grow and shrink at the front, as the free list does, and ring *)
(* indices.                                                                *)

\* What a list looks like after an element is put in front.
LEMMA PushFront ==
  ASSUME NEW S, NEW s \in Seq(S), NEW x \in S
  PROVE  /\ <<x>> \o s \in Seq(S) /\ Len(<<x>> \o s) = Len(s) + 1
         /\ (<<x>> \o s)[1] = x
         /\ \A k \in 1 .. Len(s) : (<<x>> \o s)[k + 1] = s[k]
         /\ \A k \in 2 .. Len(s) + 1 : (<<x>> \o s)[k] = s[k - 1]
OBVIOUS

\* What is left of a non-empty list when its first element is taken.
LEMMA PopFront ==
  ASSUME NEW S, NEW s \in Seq(S), s # <<>>
  PROVE  /\ Head(s) \in S /\ Head(s) = s[1] /\ Len(s) >= 1
         /\ Tail(s) \in Seq(S) /\ Len(Tail(s)) = Len(s) - 1
         /\ \A k \in 1 .. Len(s) - 1 : Tail(s)[k] = s[k + 1]
OBVIOUS

\* Putting a new element in front keeps a list free of duplicates.
LEMMA PushFrontDistinct ==
  ASSUME NEW S, NEW s \in Seq(S), NEW x \in S,
         \A j, k \in 1 .. Len(s) : s[j] = s[k] => j = k,
         \A k \in 1 .. Len(s) : s[k] # x,
         NEW t, t = <<x>> \o s
  PROVE  \A j, k \in 1 .. Len(t) : t[j] = t[k] => j = k
<1>1. /\ Len(t) = Len(s) + 1 /\ t[1] = x /\ Len(s) \in Nat
      /\ \A k \in 2 .. Len(s) + 1 : t[k] = s[k - 1]
  BY PushFront
<1> SUFFICES ASSUME NEW j \in 1 .. Len(t), NEW k \in 1 .. Len(t), t[j] = t[k], j < k
             PROVE  FALSE
  BY <1>1
<1>2. k - 1 \in 1 .. Len(s) /\ t[k] = s[k - 1]
  BY <1>1
<1>3. CASE j = 1
  BY <1>1, <1>2, <1>3
<1>4. CASE j # 1
  <2>1. j - 1 \in 1 .. Len(s) /\ t[j] = s[j - 1]
    BY <1>1, <1>4
  <2> QED BY <1>1, <1>2, <2>1, SMTT(30)
<1> QED BY <1>3, <1>4

\* Taking the first element of a list without duplicates leaves one, and the
\* element taken is no longer in it.
LEMMA PopFrontDistinct ==
  ASSUME NEW S, NEW s \in Seq(S), s # <<>>,
         \A j, k \in 1 .. Len(s) : s[j] = s[k] => j = k,
         NEW t, t = Tail(s)
  PROVE  /\ \A j, k \in 1 .. Len(t) : t[j] = t[k] => j = k
         /\ \A k \in 1 .. Len(t) : t[k] # s[1]
<1>1. /\ Len(t) = Len(s) - 1 /\ Len(s) >= 1 /\ Len(s) \in Nat
      /\ \A k \in 1 .. Len(s) - 1 : t[k] = s[k + 1]
  BY PopFront
<1>2. ASSUME NEW j \in 1 .. Len(t), NEW k \in 1 .. Len(t), t[j] = t[k] PROVE j = k
  <2>1. /\ j + 1 \in 1 .. Len(s) /\ t[j] = s[j + 1]
        /\ k + 1 \in 1 .. Len(s) /\ t[k] = s[k + 1]
    BY <1>1
  <2> QED BY <1>1, <1>2, <2>1
<1>3. ASSUME NEW k \in 1 .. Len(t) PROVE t[k] # s[1]
  <2>1. k + 1 \in 1 .. Len(s) /\ t[k] = s[k + 1] /\ 1 \in 1 .. Len(s)
    BY <1>1
  <2> QED BY <1>1, <2>1
<1> QED BY <1>2, <1>3

\* An index in its first lap is its own ring slot.
LEMMA ModSmall ==
  ASSUME NEW n \in Nat \ {0}, NEW x \in 0 .. n - 1
  PROVE  x % n = x
OBVIOUS


\* new_vring links every descriptor into the free list.
LEMMA InitIInv == Init => IInv
<1> SUFFICES ASSUME Init PROVE IInv
  OBVIOUS
<1> USE SizeAssumption, PktsAssumption DEF Init, Desc, NONE, NoPkt, Filling, Free
<1>1. free \in Seq(Desc) /\ Len(free) = Size /\ \A k \in 1 .. Size : free[k] = k - 1
  OBVIOUS
<1>2. TypeOK
  <2>1. got \in Seq(0 .. MaxPkts)
    OBVIOUS
  <2>2. next \in [Desc -> Desc \cup {NONE}] /\ data \in [Desc -> 0 .. MaxPkts]
    OBVIOUS
  <2>3. availRing \in [Desc -> Desc] /\ usedRing \in [Desc -> Desc]
    OBVIOUS
  <2>4. /\ availIdx \in 0 .. IdxMod - 1 /\ usedIdx \in 0 .. IdxMod - 1
        /\ last_avail \in 0 .. IdxMod - 1 /\ last_used \in 0 .. IdxMod - 1
        /\ head \in Desc \cup {NONE} /\ u_idx \in Desc /\ a_idx \in Desc /\ sent \in 0 .. MaxPkts
    OBVIOUS
  <2>5. /\ cpc \in {"idle", "test"} /\ kickfd \in BOOLEAN
        /\ ppc \in {"reclaim", "take", "fill", "ring", "idx", "kick"}
    OBVIOUS
  <2> HIDE DEF Init
  <2> QED BY <1>1, <2>1, <2>2, <2>3, <2>4, <2>5 DEF TypeOK
<1>3. FreeListLinked
  <2>1. free # <<>>
    BY <1>1
  <2>2. \A k \in 1 .. Size : next[free[k]] = k
    BY <1>1
  <2>3. head = 0 /\ free[1] = 0
    BY <1>1
  <2> HIDE DEF Init
  <2>4. ASSUME NEW k \in 1 .. Len(free)
        PROVE  next[free[k]] = IF k = Len(free) THEN NONE ELSE free[k + 1]
    <3>1. next[free[k]] = k /\ k \in 1 .. Size
      BY <1>1, <2>2
    <3>2. CASE k = Len(free)
      BY <1>1, <3>1, <3>2
    <3>3. CASE k # Len(free)
      <4>1. k + 1 \in 1 .. Size
        BY <1>1, <3>1, <3>3
      <4> QED BY <1>1, <3>1, <3>3, <4>1
    <3> QED BY <3>2, <3>3
  <2>5. \A j, k \in 1 .. Len(free) : free[j] = free[k] => j = k
    BY <1>1
  <2> QED BY <1>1, <2>1, <2>3, <2>4, <2>5 DEF FreeListLinked
<1>4. IndexOrder /\ Outstanding /\ Conserved
  BY <1>1 DEF IndexOrder, Outstanding, Conserved
<1>5. InOrderOnce /\ NoLostKick
  BY DEF InOrderOnce, NoLostKick
<1> QED BY <1>2, <1>3, <1>4, <1>5 DEF IInv

\* In the first lap every index is below Size.
LEMMA FirstLap ==
  ASSUME MaxPkts < Size, TypeOK, IndexOrder
  PROVE  /\ Size \in Nat /\ Size > 0 /\ MaxPkts \in Nat /\ IdxMod = 2 * Size
         /\ u_idx \in Nat /\ usedIdx \in Nat /\ last_avail \in Nat /\ last_used \in Nat
         /\ availIdx \in Nat /\ sent \in Nat /\ Len(free) \in Nat /\ Len(got) \in Nat
         /\ u_idx <= usedIdx /\ usedIdx <= last_avail /\ last_avail <= availIdx
         /\ last_used = last_avail /\ availIdx = sent /\ Len(got) = last_avail
         /\ availIdx <= MaxPkts /\ availIdx < Size
         /\ \A k \in u_idx .. availIdx - 1 : k \in Desc
<1> USE SizeAssumption, PktsAssumption
<1>1. Len(free) \in Nat /\ Len(got) \in Nat
  BY DEF TypeOK
<1>2. /\ availIdx \in 0 .. IdxMod - 1 /\ usedIdx \in 0 .. IdxMod - 1 /\ u_idx \in 0 .. Size - 1
      /\ last_avail \in 0 .. IdxMod - 1 /\ last_used \in 0 .. IdxMod - 1 /\ sent \in 0 .. MaxPkts
  BY DEF TypeOK, Desc
<1>3. /\ u_idx <= usedIdx /\ usedIdx <= last_used /\ last_avail <= availIdx
      /\ last_used = last_avail /\ availIdx = sent /\ Len(got) = last_avail
  BY DEF IndexOrder
<1> QED BY <1>1, <1>2, <1>3 DEF Desc

\* Hence no index has wrapped, and each is its own ring slot.
LEMMA FirstLapIndices ==
  ASSUME MaxPkts < Size, TypeOK, IndexOrder
  PROVE  /\ Size \in Nat /\ Size > 0 /\ MaxPkts \in Nat
         /\ u_idx \in Nat /\ usedIdx \in Nat /\ last_avail \in Nat /\ availIdx \in Nat
         /\ availIdx <= MaxPkts /\ availIdx < Size /\ last_avail < Size /\ usedIdx < Size
         /\ availIdx % Size = availIdx /\ last_avail % Size = last_avail
         /\ last_used % Size = last_used
         /\ u_idx # usedIdx => (u_idx + 1) % Size = u_idx + 1
         /\ sent < MaxPkts => (availIdx + 1) % IdxMod = availIdx + 1
         /\ last_avail # availIdx => /\ (last_avail + 1) % IdxMod = last_avail + 1
                                     /\ (last_used + 1) % IdxMod = last_used + 1
<1> USE SizeAssumption, PktsAssumption
<1>1. /\ u_idx \in Nat /\ usedIdx \in Nat /\ last_avail \in Nat /\ availIdx \in Nat /\ last_used = last_avail
      /\ availIdx <= MaxPkts /\ u_idx <= usedIdx /\ usedIdx <= last_avail /\ last_avail <= availIdx
      /\ availIdx = sent
  BY DEF TypeOK, IndexOrder, Desc
<1>2. availIdx \in 0 .. Size - 1 /\ last_avail \in 0 .. Size - 1
  BY <1>1
<1>3. u_idx # usedIdx => u_idx + 1 \in 0 .. Size - 1
  BY <1>1
<1>4. sent < MaxPkts => availIdx + 1 \in 0 .. IdxMod - 1
  BY <1>1
<1>5. last_avail # availIdx => last_avail + 1 \in 0 .. IdxMod - 1
  BY <1>1
<1>6. IdxMod \in Nat \ {0} /\ Size \in Nat \ {0}
  OBVIOUS
<1>7. u_idx # usedIdx => (u_idx + 1) % Size = u_idx + 1
  BY <1>3, <1>6, ModSmall
<1>8. sent < MaxPkts => (availIdx + 1) % IdxMod = availIdx + 1
  BY <1>4, <1>6, ModSmall
<1>9. last_avail # availIdx => (last_avail + 1) % IdxMod = last_avail + 1
  BY <1>5, <1>6, ModSmall
<1>10. availIdx % Size = availIdx /\ last_avail % Size = last_avail
  BY <1>2, <1>6, ModSmall
<1> QED BY <1>1, <1>2, <1>7, <1>8, <1>9, <1>10

\* The reclaiming loop returns a descriptor that is out to the free list.
LEMMA FreeUsedIInv == ASSUME MaxPkts < Size, IInv, FreeUsed PROVE IInv'
<1> DEFINE d == usedRing[u_idx]
<1>1. TypeOK /\ FreeListLinked /\ IndexOrder /\ Outstanding /\ Conserved /\ InOrderOnce /\ NoLostKick
  BY DEF IInv
<1>2. /\ ppc = "reclaim" /\ u_idx # usedIdx /\ u_idx' = u_idx + 1
      /\ next' = [next EXCEPT ![d] = head] /\ head' = d /\ free' = <<d>> \o free
      /\ UNCHANGED <<data, availRing, availIdx, usedRing, usedIdx, kickfd, ppc, a_idx, sent, server>>
  BY <1>1, FirstLapIndices DEF FreeUsed
<1>3. /\ u_idx \in Nat /\ u_idx < last_used /\ u_idx < availIdx /\ u_idx + 1 \in Desc
      /\ last_used \in Nat /\ availIdx \in Nat
  BY <1>1, <1>2, FirstLapIndices, SMTT(30) DEF IndexOrder, TypeOK, Desc
<1>4. d \in Desc /\ d = availRing[u_idx] /\ ~Free(d)
  <2>1. u_idx \in u_idx .. availIdx - 1 /\ u_idx \in u_idx .. last_used - 1 /\ u_idx \in Desc
    BY <1>1, <1>3 DEF TypeOK, Desc
  <2>2. d = availRing[u_idx] /\ ~Free(availRing[u_idx])
    BY <1>1, <2>1 DEF Outstanding
  <2> QED BY <1>1, <2>1, <2>2 DEF TypeOK
<1>5. /\ free' \in Seq(Desc) /\ Len(free') = Len(free) + 1 /\ free'[1] = d /\ Len(free) \in Nat
      /\ \A k \in 1 .. Len(free) : free'[k + 1] = free[k]
      /\ \A k \in 2 .. Len(free) + 1 : free'[k] = free[k - 1]
  BY <1>1, <1>2, <1>4, PushFront DEF TypeOK
<1>6. \A e \in Desc : Free(e)' <=> Free(e) \/ e = d
  BY <1>5 DEF Free
<1> HIDE DEF d
<1>7. TypeOK'
  BY <1>1, <1>2, <1>3, <1>4, <1>5 DEF TypeOK, server
<1>8. FreeListLinked'
  <2>1. \A j, k \in 1 .. Len(free') : free'[j] = free'[k] => j = k
    <3>1. /\ free \in Seq(Desc) /\ \A k \in 1 .. Len(free) : free[k] # d
          /\ \A j, k \in 1 .. Len(free) : free[j] = free[k] => j = k
      BY <1>1, <1>4 DEF FreeListLinked, Free, TypeOK
    <3>2. free' = <<d>> \o free /\ d \in Desc
      BY <1>2, <1>4
    <3> QED BY <3>1, <3>2, PushFrontDistinct
  <2>2. \A k \in 1 .. Len(free') : next'[free'[k]] = IF k = Len(free') THEN NONE ELSE free'[k + 1]
    <3> SUFFICES ASSUME NEW k \in 1 .. Len(free')
                 PROVE  next'[free'[k]] = IF k = Len(free') THEN NONE ELSE free'[k + 1]
      OBVIOUS
    <3>1. CASE k = 1
      <4>1. next'[free'[k]] = head
        BY <1>1, <1>2, <1>4, <1>5, <3>1 DEF TypeOK
      <4>2. CASE free = <<>>
        BY <1>1, <1>5, <3>1, <4>1, <4>2 DEF FreeListLinked
      <4>3. CASE free # <<>>
        <5>1. Len(free) >= 1
          BY <1>1, <4>3 DEF TypeOK
        <5> QED BY <1>1, <1>5, <3>1, <4>1, <4>3, <5>1 DEF FreeListLinked
      <4> QED BY <4>2, <4>3
    <3>2. CASE k # 1
      <4>1. k - 1 \in 1 .. Len(free) /\ free'[k] = free[k - 1] /\ k \in Nat
        BY <1>5, <3>2
      <4>2. free[k - 1] # d /\ free[k - 1] \in Desc
        <5>1. free \in Seq(Desc) /\ ~Free(d)
          BY <1>1, <1>4 DEF TypeOK
        <5> QED BY <4>1, <5>1 DEF Free
      <4>3. next'[free'[k]] = next[free[k - 1]]
        BY <1>1, <1>2, <4>1, <4>2 DEF TypeOK
      <4>4. CASE k = Len(free')
        BY <1>1, <1>5, <4>1, <4>3, <4>4 DEF FreeListLinked
      <4>5. CASE k # Len(free')
        <5>1. k \in 1 .. Len(free) /\ k - 1 # Len(free) /\ (k - 1) + 1 = k
          BY <1>5, <4>1, <4>5
        <5>2. next[free[k - 1]] = free[k]
          BY <1>1, <4>1, <5>1 DEF FreeListLinked
        <5>3. free'[k + 1] = free[k]
          BY <1>5, <5>1
        <5> QED BY <4>3, <4>5, <5>2, <5>3
      <4> QED BY <4>4, <4>5
    <3> QED BY <3>1, <3>2
  <2>3. free' # <<>>
    BY <1>5
  <2> QED BY <1>2, <1>5, <2>1, <2>2, <2>3 DEF FreeListLinked
<1>9. IndexOrder'
  BY <1>1, <1>2, <1>3, FirstLapIndices DEF IndexOrder, Filling, server
<1>10. Outstanding'
  <2>1. ~Filling'
    BY <1>2 DEF Filling
  <2>2. \A k \in u_idx + 1 .. availIdx - 1 : k \in u_idx .. availIdx - 1 /\ availRing[k] # d /\ availRing[k] \in Desc
    <3> SUFFICES ASSUME NEW k \in u_idx + 1 .. availIdx - 1
                 PROVE  k \in u_idx .. availIdx - 1 /\ availRing[k] # d /\ availRing[k] \in Desc
      OBVIOUS
    <3>1. k \in u_idx .. availIdx - 1 /\ u_idx \in u_idx .. availIdx - 1 /\ k # u_idx
      BY <1>3
    <3>2. k \in Desc
      BY <1>1, <1>3, <3>1, FirstLapIndices DEF Desc
    <3>3. availRing[k] # availRing[u_idx]
      BY <1>1, <3>1 DEF Outstanding
    <3> QED BY <1>1, <1>4, <3>1, <3>2, <3>3 DEF TypeOK
  <2>3. \A k \in u_idx + 1 .. availIdx - 1 :
          /\ data[availRing[k]] = k + 1
          /\ ~Free(availRing[k])'
          /\ \A j \in u_idx + 1 .. availIdx - 1 : availRing[j] = availRing[k] => j = k
    BY <1>1, <1>2, <1>6, <2>2 DEF Outstanding
  <2>4. \A k \in u_idx + 1 .. last_used - 1 : usedRing[k] = availRing[k]
    BY <1>1, <1>3 DEF Outstanding
  <2> QED BY <1>2, <2>1, <2>3, <2>4 DEF Outstanding, server, Filling, Free
<1>11. Conserved'
  BY <1>1, <1>2, <1>3, <1>5 DEF Conserved, Filling
<1>12. InOrderOnce' /\ NoLostKick'
  BY <1>1, <1>2 DEF InOrderOnce, NoLostKick, server
<1> QED BY <1>7, <1>8, <1>9, <1>10, <1>11, <1>12 DEF IInv

\* put_vring finds a free descriptor and takes it off the list.
LEMMA PutTakeIInv == ASSUME MaxPkts < Size, IInv, PutTake PROVE IInv'
<1>1. TypeOK /\ FreeListLinked /\ IndexOrder /\ Outstanding /\ Conserved /\ InOrderOnce /\ NoLostKick
  BY DEF IInv
<1>2. ppc = "take" /\ sent < MaxPkts /\ ~Filling
  BY DEF PutTake, Filling
<1>3. free # <<>> /\ Len(free) \in Nat
  <2>1. Len(free) >= 1 /\ Len(free) \in Nat
    <3>1. Len(free) + (availIdx - u_idx) + 0 = Size
      BY <1>1, <1>2 DEF Conserved
    <3> QED BY <1>1, <3>1, FirstLap
  <2> QED BY <2>1
<1>4. /\ Head(free) \in Desc /\ Head(free) = free[1] /\ Len(free) >= 1
      /\ Tail(free) \in Seq(Desc) /\ Len(Tail(free)) = Len(free) - 1
      /\ \A k \in 1 .. Len(free) - 1 : Tail(free)[k] = free[k + 1]
  BY <1>1, <1>3, PopFront DEF TypeOK
<1>5. head = free[1] /\ head \in Desc /\ Free(head)
  <2>1. head = free[1]
    BY <1>1, <1>3 DEF FreeListLinked
  <2>2. 1 \in 1 .. Len(free)
    BY <1>3, <1>4
  <2> QED BY <1>4, <2>1, <2>2 DEF Free
<1>6. /\ a_idx' = head /\ head' = next[head] /\ ppc' = "fill" /\ free' = Tail(free)
      /\ UNCHANGED <<table, availRing, availIdx, usedRing, usedIdx, kickfd, u_idx, sent, server>>
  BY <1>5 DEF PutTake
<1>7. \A e \in Desc : Free(e)' => Free(e)
  BY <1>4, <1>6 DEF Free
<1>8. /\ \A j, k \in 1 .. Len(free') : free'[j] = free'[k] => j = k
      /\ \A k \in 1 .. Len(free') : free'[k] # head
  BY <1>1, <1>3, <1>5, <1>6, PopFrontDistinct, SMTT(30) DEF TypeOK, FreeListLinked
<1>9. TypeOK'
  BY <1>1, <1>4, <1>5, <1>6 DEF TypeOK, table, server
<1>10. FreeListLinked'
  <2>1. ASSUME NEW k \in 1 .. Len(free')
        PROVE  next[free'[k]] = IF k = Len(free') THEN NONE ELSE free'[k + 1]
    <3>1. k + 1 \in 1 .. Len(free) /\ free'[k] = free[k + 1] /\ k \in Nat
      BY <1>4, <1>6
    <3>4. next[free[k + 1]] = IF k + 1 = Len(free) THEN NONE ELSE free[(k + 1) + 1]
      BY <1>1, <3>1 DEF FreeListLinked
    <3>5. Len(free') = Len(free) - 1
      BY <1>4, <1>6
    <3>2. CASE k = Len(free')
      <4>1. k + 1 = Len(free)
        BY <1>3, <3>1, <3>2, <3>5
      <4> QED BY <3>1, <3>2, <3>4, <4>1
    <3>3. CASE k # Len(free')
      <4>1. k + 1 \in 1 .. Len(free) - 1 /\ k + 1 # Len(free) /\ free'[k + 1] = free[(k + 1) + 1]
        <5>1. k + 1 \in 1 .. Len(free) - 1 /\ k + 1 # Len(free)
          BY <1>3, <3>1, <3>3, <3>5
        <5> QED BY <1>4, <1>6, <5>1
      <4> QED BY <3>1, <3>3, <3>4, <4>1
    <3> QED BY <3>2, <3>3
  <2>2. head' = IF free' = <<>> THEN NONE ELSE free'[1]
    <3>1. 1 \in 1 .. Len(free) /\ next[free[1]] = IF 1 = Len(free) THEN NONE ELSE free[2]
      <4>1. 1 \in 1 .. Len(free) /\ 1 + 1 = 2
        BY <1>3, <1>4
      <4>2. next[free[1]] = IF 1 = Len(free) THEN NONE ELSE free[1 + 1]
        BY <1>1, <4>1 DEF FreeListLinked
      <4> QED BY <4>1, <4>2
    <3>2. CASE Len(free) = 1
      <4>1. free' = <<>>
        BY <1>4, <1>6, <3>2
      <4> QED BY <1>5, <1>6, <3>1, <3>2, <4>1
    <3>3. CASE Len(free) # 1
      <4>1. 1 \in 1 .. Len(free) - 1 /\ free'[1] = free[2] /\ free' # <<>>
        <5>1. 1 \in 1 .. Len(free) - 1 /\ 1 + 1 = 2 /\ Len(free') # 0
          BY <1>3, <1>4, <1>6, <3>3
        <5>2. free' # <<>>
          BY <5>1
        <5> QED BY <1>4, <1>6, <5>1, <5>2
      <4> QED BY <1>5, <1>6, <3>1, <3>3, <4>1
    <3> QED BY <3>2, <3>3
  <2> QED BY <1>6, <1>8, <2>1, <2>2 DEF FreeListLinked, table
<1>11. IndexOrder'
  BY <1>1, <1>2, <1>6 DEF IndexOrder, Filling, server
<1>12. Outstanding'
  <2>1. \A k \in u_idx .. availIdx - 1 : k \in Desc /\ availRing[k] \in Desc
    BY <1>1, FirstLap DEF TypeOK
  <2>2. ASSUME NEW k \in u_idx .. availIdx - 1
        PROVE  /\ data[availRing[k]] = k + 1
               /\ ~Free(availRing[k])
               /\ \A j \in u_idx .. availIdx - 1 : availRing[j] = availRing[k] => j = k
    BY <1>1 DEF Outstanding
  <2>3. ASSUME NEW k \in u_idx .. availIdx - 1
        PROVE  availRing[k] # head /\ \A i \in 1 .. Len(free') : free'[i] # availRing[k]
    <3>1. availRing[k] # head
      BY <1>5, <2>2
    <3> QED BY <1>4, <1>6, <2>2, <3>1 DEF Free
  <2>4. \A k \in u_idx .. last_used - 1 : usedRing[k] = availRing[k]
    BY <1>1 DEF Outstanding
  <2> QED BY <1>6, <1>8, <2>2, <2>3, <2>4 DEF Outstanding, server, table, Filling, Free
<1>13. Conserved'
  <2>1. Len(free) + (availIdx - u_idx) + 0 = Size
    BY <1>1, <1>2 DEF Conserved
  <2>2. Len(free') = Len(free) - 1 /\ Filling'
    BY <1>4, <1>6 DEF Filling
  <2>3. Len(free') + (availIdx - u_idx) + 1 = Size
    BY <1>1, <2>1, <2>2, FirstLap
  <2> QED BY <1>6, <2>2, <2>3 DEF Conserved
<1>14. InOrderOnce' /\ NoLostKick'
  BY <1>1, <1>2, <1>6 DEF InOrderOnce, NoLostKick, server
<1> QED BY <1>9, <1>10, <1>11, <1>12, <1>13, <1>14 DEF IInv

\* put_vring writes packet and link of a descriptor nobody else can reach.
LEMMA PutFillIInv == ASSUME MaxPkts < Size, IInv, PutFill PROVE IInv'
<1>1. TypeOK /\ FreeListLinked /\ IndexOrder /\ Outstanding /\ Conserved /\ InOrderOnce /\ NoLostKick
  BY DEF IInv
<1>2. /\ ppc = "fill" /\ ppc' = "ring" /\ data' = [data EXCEPT ![a_idx] = sent + 1]
      /\ next' = [next EXCEPT ![a_idx] = NONE]
      /\ UNCHANGED <<availRing, availIdx, usedRing, usedIdx, kickfd, head, u_idx, a_idx, sent, server, free>>
  BY DEF PutFill
<1>3. Filling /\ Filling' /\ ~Free(a_idx) /\ a_idx \in Desc /\ sent < MaxPkts /\ sent + 1 \in 0 .. MaxPkts
  BY <1>1, <1>2, PktsAssumption DEF Filling, Outstanding, TypeOK, IndexOrder
<1>4. TypeOK'
  BY <1>1, <1>2, <1>3 DEF TypeOK, server
<1>5. FreeListLinked'
  BY <1>1, <1>2, <1>3, SMTT(30) DEF FreeListLinked, TypeOK, Free
<1>6. IndexOrder' /\ Conserved'
  BY <1>1, <1>2, <1>3 DEF IndexOrder, Conserved, server
<1>7. Outstanding'
  <2>1. \A k \in u_idx .. availIdx - 1 : k \in Desc /\ availRing[k] \in Desc /\ availRing[k] # a_idx
    <3> SUFFICES ASSUME NEW k \in u_idx .. availIdx - 1
                 PROVE  k \in Desc /\ availRing[k] \in Desc /\ availRing[k] # a_idx
      OBVIOUS
    <3>1. k \in Desc
      BY <1>1, FirstLap
    <3>2. availRing[k] # a_idx
      BY <1>1, <1>3 DEF Outstanding
    <3> QED BY <1>1, <3>1, <3>2 DEF TypeOK
  <2>2. \A k \in u_idx .. availIdx - 1 : data'[availRing[k]] = k + 1
    BY <1>1, <1>2, <2>1 DEF Outstanding, TypeOK
  <2>3. data'[a_idx] = sent + 1
    BY <1>1, <1>2, <1>3 DEF TypeOK
  <2> QED BY <1>1, <1>2, <1>3, <2>1, <2>2, <2>3 DEF Outstanding, server, Filling, Free
<1>8. InOrderOnce' /\ NoLostKick'
  BY <1>1, <1>2 DEF InOrderOnce, NoLostKick, server
<1> QED BY <1>4, <1>5, <1>6, <1>7, <1>8 DEF IInv

\* The ring slot written is not among the ones already published.
LEMMA PutRingIInv == ASSUME MaxPkts < Size, IInv, PutRing PROVE IInv'
<1>1. TypeOK /\ FreeListLinked /\ IndexOrder /\ Outstanding /\ Conserved /\ InOrderOnce /\ NoLostKick
  BY DEF IInv
<1>2. /\ ppc = "ring" /\ ppc' = "idx" /\ availRing' = [availRing EXCEPT ![availIdx] = a_idx]
      /\ UNCHANGED <<table, availIdx, usedRing, usedIdx, kickfd, head, u_idx, a_idx, sent, server, free>>
  BY <1>1, FirstLapIndices DEF PutRing
<1>3. Filling /\ Filling' /\ a_idx \in Desc /\ availIdx \in Desc
  BY <1>1, <1>2, FirstLapIndices DEF Filling, TypeOK, Desc
<1>4. TypeOK'
  BY <1>1, <1>2, <1>3 DEF TypeOK, server, table
<1>5. FreeListLinked' /\ IndexOrder' /\ Conserved'
  BY <1>1, <1>2, <1>3 DEF FreeListLinked, IndexOrder, Conserved, server, table
<1>6. Outstanding'
  <2>1. \A k \in u_idx .. availIdx - 1 : k \in Desc /\ availRing'[k] = availRing[k]
    BY <1>1, <1>2, FirstLapIndices DEF TypeOK, Desc
  <2>2. \A k \in u_idx .. last_used - 1 : k \in u_idx .. availIdx - 1
    BY <1>1, FirstLapIndices DEF IndexOrder, TypeOK
  <2>3. availRing'[availIdx] = a_idx
    BY <1>1, <1>2, <1>3 DEF TypeOK
  <2> QED BY <1>1, <1>2, <1>3, <2>1, <2>2, <2>3 DEF Outstanding, server, table, Filling, Free
<1>7. InOrderOnce' /\ NoLostKick'
  BY <1>1, <1>2 DEF InOrderOnce, NoLostKick, server
<1> QED BY <1>4, <1>5, <1>6, <1>7 DEF IInv

\* Publishing the index moves the filled descriptor to the ones that are out.
LEMMA PutIdxIInv == ASSUME MaxPkts < Size, IInv, PutIdx PROVE IInv'
<1>1. TypeOK /\ FreeListLinked /\ IndexOrder /\ Outstanding /\ Conserved /\ InOrderOnce /\ NoLostKick
  BY DEF IInv
<1>2. ppc = "idx" /\ Filling /\ sent < MaxPkts
  BY <1>1 DEF PutIdx, Filling, IndexOrder
<1>3. /\ ppc' = "kick" /\ availIdx' = availIdx + 1 /\ sent' = sent + 1 /\ ~Filling'
      /\ UNCHANGED <<table, availRing, usedRing, usedIdx, kickfd, head, u_idx, a_idx, server, free>>
  BY <1>1, <1>2, FirstLapIndices DEF PutIdx, Filling
<1>4. availIdx + 1 \in 0 .. IdxMod - 1 /\ sent + 1 \in 0 .. MaxPkts /\ availIdx = sent /\ availIdx \in Nat
  BY <1>1, <1>2, FirstLapIndices, SizeAssumption DEF IndexOrder, TypeOK
<1>5. TypeOK'
  BY <1>1, <1>3, <1>4 DEF TypeOK, server, table
<1>6. FreeListLinked'
  BY <1>1, <1>3 DEF FreeListLinked, table
<1>7. IndexOrder' /\ Conserved'
  <2>1. /\ u_idx <= usedIdx /\ usedIdx <= last_used /\ last_used = last_avail
        /\ last_avail <= availIdx + 1 /\ Len(got) = last_avail /\ 0 <= u_idx
    BY <1>1, FirstLap
  <2>2. IndexOrder'
    BY <1>3, <1>4, <2>1 DEF IndexOrder, server
  <2>3. Len(free) + (availIdx - u_idx) + 1 = Size
    BY <1>1, <1>2 DEF Conserved
  <2>4. Len(free) + ((availIdx + 1) - u_idx) = Size
    BY <1>1, <2>3, FirstLap
  <2>5. Conserved'
    <3>1. Len(free) + ((availIdx + 1) - u_idx) + 0 = Size
      BY <1>1, <2>4, FirstLap
    <3> QED BY <1>3, <3>1 DEF Conserved
  <2> QED BY <2>2, <2>5
<1>8. Outstanding'
  <2>1. \A k \in u_idx .. availIdx : k \in u_idx .. availIdx - 1 \/ k = availIdx
    BY <1>1, <1>4, FirstLapIndices
  <2>2. availRing[availIdx] = a_idx /\ data[a_idx] = availIdx + 1 /\ ~Free(a_idx)
    BY <1>1, <1>2, <1>4 DEF Outstanding
  <2>3. \A k \in u_idx .. availIdx : /\ data[availRing[k]] = k + 1
                                     /\ ~Free(availRing[k])
                                     /\ \A j \in u_idx .. availIdx : availRing[j] = availRing[k] => j = k
    BY <1>1, <1>2, <2>1, <2>2 DEF Outstanding
  <2>4. (availIdx + 1) - 1 = availIdx
    BY <1>4
  <2> QED BY <1>1, <1>3, <2>3, <2>4 DEF Outstanding, server, table, Filling, Free
<1>9. InOrderOnce' /\ NoLostKick'
  BY <1>1, <1>3, <1>4 DEF InOrderOnce, NoLostKick, server, TypeOK
<1> QED BY <1>5, <1>6, <1>7, <1>8, <1>9 DEF IInv

\* The server hands on the packet of the next published descriptor.
LEMMA ProcessDescIInv == ASSUME MaxPkts < Size, IInv, ProcessDesc PROVE IInv'
<1> DEFINE d == availRing[last_avail]
<1>1. TypeOK /\ FreeListLinked /\ IndexOrder /\ Outstanding /\ Conserved /\ InOrderOnce /\ NoLostKick
  BY DEF IInv
<1>2. cpc = "test" /\ last_avail # availIdx /\ last_used = last_avail
  BY <1>1 DEF ProcessDesc, IndexOrder
<1>3. /\ got' = Append(got, data[d]) /\ usedRing' = [usedRing EXCEPT ![last_used] = d]
      /\ last_avail' = last_avail + 1 /\ last_used' = last_used + 1
      /\ UNCHANGED <<table, availRing, availIdx, usedIdx, kickfd, client, cpc, free>>
  BY <1>1, <1>2, FirstLapIndices DEF ProcessDesc
<1>4. /\ last_avail \in u_idx .. availIdx - 1 /\ last_avail \in Desc
      /\ last_avail + 1 \in 0 .. IdxMod - 1 /\ last_avail \in Nat
  BY <1>1, <1>2, FirstLap DEF Desc
<1>5. d \in Desc /\ data[d] = last_avail + 1
  BY <1>1, <1>4 DEF Outstanding, TypeOK
<1> HIDE DEF d
<1>6. got' \in Seq(0 .. MaxPkts) /\ Len(got') = Len(got) + 1 /\ Len(got) \in Nat
      /\ got'[Len(got) + 1] = data[d] /\ \A k \in 1 .. Len(got) : got'[k] = got[k]
  BY <1>1, <1>3, <1>5 DEF TypeOK
<1>7. TypeOK'
  BY <1>1, <1>2, <1>3, <1>4, <1>5, <1>6 DEF TypeOK, client, table
<1>8. FreeListLinked' /\ Conserved'
  BY <1>1, <1>3 DEF FreeListLinked, Conserved, Filling, table, client
<1>9. IndexOrder'
  <2>1. /\ u_idx <= usedIdx /\ usedIdx <= last_used + 1 /\ last_used + 1 = last_avail + 1
        /\ last_avail + 1 <= availIdx /\ Len(got) + 1 = last_avail + 1 /\ 0 <= u_idx /\ availIdx = sent
    BY <1>1, <1>2, FirstLap
  <2>2. Filling => sent < MaxPkts
    BY <1>1 DEF IndexOrder
  <2> QED BY <1>3, <1>6, <2>1, <2>2 DEF IndexOrder, Filling, client
<1>10. Outstanding'
  <2>1. \A k \in u_idx .. last_used : k \in u_idx .. last_used - 1 \/ k = last_used
    BY <1>2, <1>4
  <2>2. \A k \in u_idx .. last_used : usedRing'[k] = availRing[k]
    <3> SUFFICES ASSUME NEW k \in u_idx .. last_used PROVE usedRing'[k] = availRing[k]
      OBVIOUS
    <3>1. k \in Desc
      BY <1>1, <1>2, <1>4, FirstLapIndices DEF Desc
    <3>2. CASE k = last_used
      BY <1>1, <1>2, <1>3, <3>1, <3>2 DEF TypeOK, d
    <3>3. CASE k # last_used
      <4>1. usedRing[k] = availRing[k]
        BY <1>1, <2>1, <3>3 DEF Outstanding
      <4> QED BY <1>1, <1>3, <3>1, <3>3, <4>1 DEF TypeOK
    <3> QED BY <3>2, <3>3
  <2>3. (last_used + 1) - 1 = last_used
    BY <1>2, <1>4
  <2> QED BY <1>1, <1>3, <2>2, <2>3 DEF Outstanding, client, table, Filling, Free
<1>11. InOrderOnce'
  <2>1. Len(got) = last_avail
    BY <1>1 DEF IndexOrder
  <2>2. Len(got') <= sent
    BY <1>1, <1>2, <1>4, <1>6, <2>1, FirstLapIndices DEF IndexOrder
  <2>3. \A k \in 1 .. Len(got') : got'[k] = k
    BY <1>1, <1>5, <1>6, <2>1 DEF InOrderOnce
  <2> QED BY <1>3, <2>2, <2>3 DEF InOrderOnce, client
<1>12. NoLostKick'
  BY <1>2, <1>3 DEF NoLostKick
<1> QED BY <1>7, <1>8, <1>9, <1>10, <1>11, <1>12 DEF IInv

\* The steps that only move an index, a step counter or the eventfd.
LEMMA OtherIInv ==
  ASSUME MaxPkts < Size, IInv,
         AllReclaimed \/ Kick \/ ReadKick \/ PublishUsed \/ UNCHANGED vars
  PROVE  IInv'
<1>1. TypeOK /\ FreeListLinked /\ IndexOrder /\ Outstanding /\ Conserved /\ InOrderOnce /\ NoLostKick
  BY DEF IInv
<1> USE DEF AllReclaimed, Kick, ReadKick, PublishUsed, vars, table, client, server
<1>2. TypeOK'
  BY <1>1 DEF TypeOK
<1>3. FreeListLinked' /\ Conserved'
  BY <1>1 DEF FreeListLinked, Conserved, Filling
<1>4. IndexOrder'
  <2>1. /\ u_idx <= usedIdx /\ u_idx <= last_used /\ usedIdx <= last_used /\ last_used = last_avail
        /\ last_avail <= availIdx /\ Len(got) = last_avail /\ 0 <= u_idx /\ availIdx = sent
        /\ last_used <= last_used
    BY <1>1, FirstLap
  <2>2. Filling => sent < MaxPkts
    BY <1>1 DEF IndexOrder
  <2>3. /\ u_idx' = u_idx /\ usedIdx' \in {usedIdx, last_used} /\ last_used' = last_used
        /\ last_avail' = last_avail /\ availIdx' = availIdx /\ sent' = sent /\ got' = got
        /\ Filling' => Filling
    BY DEF Filling
  <2> QED BY <2>1, <2>2, <2>3 DEF IndexOrder
<1>5. Outstanding'
  BY <1>1 DEF Outstanding, Filling, Free
<1>6. InOrderOnce' /\ NoLostKick'
  BY <1>1 DEF InOrderOnce, NoLostKick
<1> QED BY <1>2, <1>3, <1>4, <1>5, <1>6 DEF IInv

\* In the first lap the inductive invariant holds in every reachable state.
THEOREM Inductive == ASSUME MaxPkts < Size PROVE Spec => []IInv
<1>1. IInv /\ [Next]_vars => IInv'
  BY FreeUsedIInv, PutTakeIInv, PutFillIInv, PutRingIInv, PutIdxIInv, ProcessDescIInv, OtherIInv
  DEF Next, ClientStep, ServerStep
<1> QED BY <1>1, InitIInv, PTL DEF Spec

\* Type correctness, including that put_vring always finds a descriptor.
THEOREM TypeCorrect == ASSUME MaxPkts < Size PROVE Spec => []TypeOK
<1>1. IInv => TypeOK
  BY DEF IInv
<1> QED BY <1>1, Inductive, PTL

\* The server hands on the packets sent, once, in order and complete.
THEOREM Delivery == ASSUME MaxPkts < Size PROVE Spec => []InOrderOnce
<1>1. IInv => InOrderOnce
  BY DEF IInv
<1> QED BY <1>1, Inductive, PTL

\* The linked free list is intact at every step.
THEOREM FreeList == ASSUME MaxPkts < Size PROVE Spec => []FreeListLinked
<1>1. IInv => FreeListLinked
  BY DEF IInv
<1> QED BY <1>1, Inductive, PTL

\* put_vring and free_vring keep table and free list intact, and every packet is
\* delivered once and in order.
THEOREM RingSafe == ASSUME MaxPkts < Size PROVE Spec => []RingIntact
<1>1. TypeOK /\ FreeListLinked /\ InOrderOnce => RingIntact
  BY DEF RingIntact
<1> QED BY <1>1, TypeCorrect, FreeList, Delivery, PTL

\* No kick is lost between the server's last look at the ring and its sleep.
THEOREM KickSafe == ASSUME MaxPkts < Size PROVE Spec => []NoLostKick
<1>1. IInv => NoLostKick
  BY DEF IInv
<1> QED BY <1>1, Inductive, PTL

\* No descriptor is returned to the free list twice.
THEOREM FreedOnce == ASSUME MaxPkts < Size PROVE Spec => NoDoubleFree
<1>1. IInv => [FreeUsed => ~Free(usedRing[u_idx])]_vars
  <2> SUFFICES ASSUME IInv, FreeUsed PROVE ~Free(usedRing[u_idx])
    OBVIOUS
  <2>1. u_idx \in u_idx .. last_used - 1 /\ u_idx \in u_idx .. availIdx - 1
    <3>1. TypeOK /\ IndexOrder /\ u_idx # usedIdx
      BY DEF IInv, FreeUsed
    <3> QED BY <3>1, FirstLap
  <2> QED BY <2>1 DEF IInv, Outstanding
<1> QED BY <1>1, Inductive, PTL DEF NoDoubleFree
=============================================================================
