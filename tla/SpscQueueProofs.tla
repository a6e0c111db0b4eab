--------------------------- MODULE SpscQueueProofs ---------------------------
(***************************************************************************)
(* Proofs about SpscQueue, for every capacity, every set of messages and   *)
(* every number of offers and crashes.                                     *)
(***************************************************************************)
EXTENDS SpscQueue, RingTheorems, SequenceTheorems, TLAPS

(***************************************************************************)
(* The inductive invariant.  The properties of SpscQueue are not inductive *)
(* by themselves: that a line is held exclusively follows from where the   *)
(* counters are, that a message read is whole follows from the line being  *)
(* whole while it is in flight, and that in turn from the producer writing *)
(* only to the line after the newest message.                              *)
(***************************************************************************)
CountersInv ==
    /\ tail = Len(sent)
    /\ head = Len(fate)
    /\ CachesConservative

\* What the producer knows from preOffer until offer.
ProducerInv ==
    pClaimed =>
        /\ pLine = calcElementOffset(tail)
        /\ tail - headCache < Capacity - 1
        /\ \A w \in Words \ pTodo : slots[pLine][w] = pMsg[w]

\* What the consumer knows from poll (peek) until releaseCacheLine.
ConsumerInv ==
    cHolds # "none" =>
        /\ cLine = calcElementOffset(head)
        /\ head < tail
        /\ cHolds = "poll" => head < tailCache

IndInv ==
    /\ TypeOK
    /\ CountersInv
    /\ ProducerInv
    /\ ConsumerInv
    /\ InFlightIntact
    /\ NoTornRead

-----------------------------------------------------------------------------
(* The arithmetic of the ring *)

\* A masked counter is the number of a line.
LEMMA MaskedInLines ==
    ASSUME NEW x \in Int
    PROVE  Masked(x) \in Lines
BY CapacityAssumption, ModInRange DEF Masked, Lines

\* Two counters less than a lap apart point at different lines.
LEMMA MaskedDistinct ==
    ASSUME NEW x \in Nat, NEW y \in Nat, x < y, y - x < Capacity
    PROVE  Masked(x) # Masked(y)
BY CapacityAssumption, ModDistinct DEF Masked

\* preOffer's test is exact when the counters are less than a lap apart.
LEMMA FullIsExact ==
    ASSUME NEW t \in Nat, NEW h \in Nat, h <= t, t - h < Capacity
    PROVE  LooksFull(t, h) <=> t - h = Capacity - 1
BY CapacityAssumption, ModFull DEF LooksFull, Masked

\* poll's test is exact when the counters are less than a lap apart.
LEMMA EmptyIsExact ==
    ASSUME NEW h \in Nat, NEW t \in Nat, h <= t, t - h < Capacity
    PROVE  LooksEmpty(h, t) <=> h = t
BY CapacityAssumption, ModEmpty DEF LooksEmpty, Masked

-----------------------------------------------------------------------------
(* Type correctness *)

LEMMA InitTypeOK == Init => TypeOK
<1> SUFFICES ASSUME Init PROVE TypeOK
  OBVIOUS
<1>1. pMsg \in Messages
  BY MessageAssumption DEF Init
<1>2. 0 \in Lines
  BY CapacityAssumption DEF Lines
<1>3. slots \in [Lines -> LineContents] /\ cRead \in ReadSoFar
  BY MessageAssumption DEF Init, LineContents, ReadSoFar, NothingRead
<1> QED
  BY <1>1, <1>2, <1>3, BoundAssumption DEF Init, TypeOK

LEMMA NextTypeOK == TypeOK /\ [Next]_vars => TypeOK'
<1> SUFFICES ASSUME TypeOK, [Next]_vars PROVE TypeOK'
  OBVIOUS
<1> USE DEF TypeOK, fileVars, producerVars, consumerVars, historyVars
<1>1. ASSUME Claim
      PROVE  /\ pClaimed' \in BOOLEAN /\ pLine' \in Lines
             /\ pMsg' \in Messages /\ pTodo' \in SUBSET Words
  BY <1>1, MaskedInLines DEF Claim, calcElementOffset
<1>2. ASSUME NEW how \in {"poll", "peek"}, Hold(how)
      PROVE  /\ cHolds' \in {"none", "poll", "peek"} /\ cLine' \in Lines
             /\ cRead' \in ReadSoFar /\ clearing' \in BOOLEAN
  BY <1>2, MaskedInLines DEF Hold, calcElementOffset, ReadSoFar, NothingRead
<1>3. CASE PreOfferHit
  BY <1>3, <1>1 DEF PreOfferHit
<1>4. CASE PreOfferMiss
  BY <1>4, <1>1 DEF PreOfferMiss
<1>5. ASSUME NEW w \in Words, PutWord(w) PROVE TypeOK'
  <2>1. pMsg[w] \in Values
    BY MessageAssumption
  <2>2. slots' \in [Lines -> LineContents]
    BY <1>5, <2>1 DEF PutWord, LineContents
  <2> QED BY <1>5, <2>2 DEF PutWord
<1>6. CASE Offer
  <2>1. sent' \in Seq(Messages) /\ tail' \in Nat
    BY <1>6 DEF Offer, Publish
  <2> QED BY <1>6, <2>1, Zenon DEF Offer, Publish
<1>7. CASE ProducerRestart
  <2>1. crashes' \in 0 .. MaxCrashes
    BY <1>7, BoundAssumption DEF ProducerRestart
  <2> QED BY <1>7, <2>1, Zenon DEF ProducerRestart
<1>8. CASE PollHit
  BY <1>8, <1>2 DEF PollHit
<1>9. CASE PollMiss
  BY <1>9, <1>2 DEF PollMiss, FoundEmpty
<1>10. CASE Peek
  BY <1>10, <1>2 DEF Peek
<1>11. ASSUME NEW w \in Words, ReadWord(w) PROVE TypeOK'
  BY <1>11 DEF ReadWord, ReadSoFar, LineContents
<1>12. CASE Release
  BY <1>12 DEF Release, Advance
<1>13. CASE Clear
  BY <1>13 DEF Clear
<1>14. CASE ConsumerRestart
  BY <1>14, BoundAssumption DEF ConsumerRestart
<1>15. CASE UNCHANGED vars
  BY <1>15 DEF vars
<1> QED
  BY <1>3, <1>4, <1>5, <1>6, <1>7, <1>8, <1>9, <1>10, <1>11, <1>12, <1>13,
     <1>14, <1>15 DEF Next

\* Every reachable state is well typed: the operations keep the lines they
\* point at inside the ring and the words they move inside a line.
THEOREM TypeCorrect == Spec => []TypeOK
BY InitTypeOK, NextTypeOK, PTL DEF Spec

-----------------------------------------------------------------------------
(* The inductive invariant *)

LEMMA InitIndInv == Init => IndInv
<1> SUFFICES ASSUME Init PROVE IndInv
  OBVIOUS
<1>1. TypeOK
  BY InitTypeOK
<1>2. CountersInv
  BY CapacityAssumption DEF Init, CountersInv, CachesConservative
<1>3. ProducerInv /\ ConsumerInv /\ NoTornRead
  BY DEF Init, ProducerInv, ConsumerInv, NoTornRead
<1>4. InFlightIntact
  BY DEF Init, InFlightIntact
<1> QED BY <1>1, <1>2, <1>3, <1>4 DEF IndInv

\* The newest message goes to a line that no message in flight occupies.
LEMMA ClaimedLineIsFree ==
    ASSUME TypeOK, CountersInv, ProducerInv, pClaimed,
           NEW pos \in Int, head <= pos, pos < tail
    PROVE  calcElementOffset(pos) # pLine
<1>1. pos \in Nat /\ tail \in Nat /\ tail - pos < Capacity
  BY CapacityAssumption DEF TypeOK, CountersInv, CachesConservative, ProducerInv
<1>2. Masked(pos) # Masked(tail)
  BY <1>1, MaskedDistinct
<1> QED BY <1>2 DEF ProducerInv, calcElementOffset

\* While a message is in flight, what the consumer holds is its line.
LEMMA OldestInFlight ==
    ASSUME TypeOK, CountersInv, ConsumerInv, InFlightIntact, cHolds # "none"
    PROVE  /\ Len(fate) + 1 \in Len(fate) + 1 .. Len(sent)
           /\ Oldest \in Messages
           /\ slots[cLine] = Oldest
<1>1. Len(fate) + 1 \in Len(fate) + 1 .. Len(sent)
  BY DEF TypeOK, CountersInv, ConsumerInv
<1>2. Oldest \in Messages
  BY <1>1 DEF TypeOK, Oldest
<1>3. slots[calcElementOffset(Len(fate) + 1 - 1)] = Oldest
  BY <1>1 DEF InFlightIntact, Oldest
<1>4. Len(fate) + 1 - 1 = head
  BY DEF TypeOK, CountersInv
<1> QED BY <1>1, <1>2, <1>3, <1>4 DEF ConsumerInv

LEMMA PreOfferIndInv ==
    ASSUME IndInv, PreOfferHit \/ PreOfferMiss, TypeOK'
    PROVE  IndInv'
<1> USE DEF IndInv, fileVars, producerVars, consumerVars, historyVars
<1>1. UNCHANGED <<head, tailCache, tail, slots, consumerVars, historyVars>>
  BY DEF PreOfferHit, PreOfferMiss
<1>2. \/ headCache' = headCache
      \/ headCache' = head
  BY DEF PreOfferHit, PreOfferMiss
<1>3. CountersInv'
  BY <1>1, <1>2, CapacityAssumption DEF TypeOK, CountersInv, CachesConservative
<1>4. ConsumerInv' /\ NoTornRead' /\ InFlightIntact'
  BY <1>1 DEF ConsumerInv, NoTornRead, Oldest, InFlightIntact
<1>5. /\ head \in Nat /\ tail \in Nat /\ headCache \in Nat
      /\ headCache <= head /\ tail - headCache < Capacity
  BY DEF TypeOK, CountersInv, CachesConservative
<1>6. ProducerInv'
  <2>1. CASE PreOfferHit
    <3>1. tail - headCache # Capacity - 1
      BY <2>1, FullIsExact
         DEF PreOfferHit, TypeOK, CountersInv, CachesConservative
    <3>2. tail' - headCache' < Capacity' - 1
      BY <2>1, <3>1, CapacityAssumption
         DEF PreOfferHit, TypeOK, CountersInv, CachesConservative
    <3> QED BY <2>1, <3>2 DEF PreOfferHit, Claim, ProducerInv
  <2>2. CASE PreOfferMiss
    <3>1. CASE LooksFull(tail, head)
      <4>1. ~pClaimed'
        BY <2>2, <3>1 DEF PreOfferMiss
      <4> QED BY <4>1 DEF ProducerInv
    <3>2. CASE ~LooksFull(tail, head)
      <4>1. tail - head # Capacity - 1
        BY <3>2, FullIsExact, CapacityAssumption
           DEF TypeOK, CountersInv, CachesConservative
      <4> HIDE DEF IndInv
      <4>2. tail - head < Capacity - 1
        BY <1>5, <4>1, CapacityAssumption
      <4>3. Claim /\ tail' = tail /\ headCache' = head
        BY <2>2, <3>2 DEF PreOfferMiss
      <4> QED BY <4>2, <4>3 DEF Claim, ProducerInv
    <3> QED BY <3>1, <3>2
  <2> QED BY <2>1, <2>2
<1> QED BY <1>3, <1>4, <1>6

LEMMA PutWordIndInv ==
    ASSUME IndInv, NEW w \in Words, PutWord(w), TypeOK'
    PROVE  IndInv'
<1> USE DEF IndInv, fileVars, producerVars, consumerVars, historyVars
<1>1. /\ UNCHANGED <<head, tailCache, tail, headCache, pClaimed, pLine, pMsg,
                     consumerVars, historyVars>>
      /\ slots' = [slots EXCEPT ![pLine][w] = pMsg[w]]
      /\ pTodo' = pTodo \ {w}
      /\ pClaimed
  BY DEF PutWord
<1>2. CountersInv' /\ ConsumerInv' /\ NoTornRead'
  BY <1>1 DEF CountersInv, CachesConservative, ConsumerInv, NoTornRead, Oldest
<1>3. ProducerInv'
  <2>1. slots[pLine] \in [Words -> Values] /\ pLine \in DOMAIN slots
    BY DEF TypeOK, LineContents
  <2>2. slots'[pLine] = [slots[pLine] EXCEPT ![w] = pMsg[w]]
    BY <1>1, <2>1
  <2>3. \A v \in Words \ pTodo' : slots'[pLine][v] = pMsg[v]
    BY <1>1, <2>1, <2>2 DEF ProducerInv
  <2> QED BY <1>1, <2>3 DEF ProducerInv
<1>4. InFlightIntact'
  <2> SUFFICES ASSUME NEW i \in Len(fate) + 1 .. Len(sent)
               PROVE  slots'[calcElementOffset(i - 1)] = sent[i]
    BY <1>1 DEF InFlightIntact
  <2>1. calcElementOffset(i - 1) # pLine
    <3>1. i - 1 \in Int /\ head <= i - 1 /\ i - 1 < tail
      BY DEF TypeOK, CountersInv
    <3> QED BY <1>1, <3>1, ClaimedLineIsFree
  <2>2. calcElementOffset(i - 1) \in Lines
    BY MaskedInLines DEF calcElementOffset, TypeOK
  <2> QED BY <1>1, <2>1, <2>2 DEF InFlightIntact, TypeOK
<1> QED BY <1>2, <1>3, <1>4

LEMMA OfferIndInv ==
    ASSUME IndInv, Offer, TypeOK'
    PROVE  IndInv'
<1> USE DEF IndInv, fileVars, producerVars, consumerVars, historyVars
<1>1. /\ UNCHANGED <<head, tailCache, headCache, slots, consumerVars, fate>>
      /\ pClaimed /\ pTodo = {} /\ ~pClaimed'
      /\ tail' = tail + 1
      /\ sent' = Append(sent, pMsg)
  BY DEF Offer, Publish
<1>2. /\ sent \in Seq(Messages) /\ pMsg \in Messages
      /\ head \in Nat /\ tailCache \in Nat /\ tail \in Nat /\ headCache \in Nat
      /\ tail = Len(sent) /\ head = Len(fate)
      /\ headCache <= head /\ head <= tailCache /\ tailCache <= tail
  BY DEF TypeOK, CountersInv, CachesConservative
<1>3. /\ pLine = calcElementOffset(tail)
      /\ tail - headCache < Capacity - 1
      /\ \A w \in Words : slots[pLine][w] = pMsg[w]
  BY <1>1 DEF ProducerInv
<1>4. /\ Len(sent') = tail + 1
      /\ sent'[tail + 1] = pMsg
      /\ \A i \in 1 .. tail : sent'[i] = sent[i]
  BY <1>1, <1>2
<1> HIDE DEF IndInv
<1>5. CountersInv'
  BY <1>1, <1>2, <1>3, <1>4, CapacityAssumption DEF CountersInv, CachesConservative
<1>6. ProducerInv'
  BY <1>1 DEF ProducerInv
<1>7. ConsumerInv'
  <2>1. ConsumerInv
    BY DEF IndInv
  <2> QED BY <1>1, <1>2, <2>1 DEF ConsumerInv
<1>8. NoTornRead'
  <2>1. cHolds # "none" => Oldest' = Oldest
    BY <1>1, <1>2, <1>4 DEF IndInv, ConsumerInv, Oldest
  <2> QED BY <1>1, <2>1 DEF IndInv, NoTornRead
<1>9. InFlightIntact'
  <2> SUFFICES ASSUME NEW i \in Len(fate) + 1 .. tail + 1
               PROVE  slots[calcElementOffset(i - 1)] = sent'[i]
    BY <1>1, <1>4 DEF InFlightIntact
  <2>1. CASE i <= tail
    BY <2>1, <1>2, <1>4 DEF IndInv, InFlightIntact
  <2>2. CASE i = tail + 1
    <3>1. slots[pLine] = pMsg
      <4>1. slots[pLine] \in [Words -> Values] /\ pMsg \in [Words -> Values]
        BY MessageAssumption DEF IndInv, TypeOK, LineContents
      <4> QED BY <4>1, <1>3
    <3>2. i - 1 = tail
      BY <2>2, <1>2
    <3> QED BY <3>1, <3>2, <2>2, <1>3, <1>4
  <2> QED BY <2>1, <2>2, <1>2
<1> QED BY <1>5, <1>6, <1>7, <1>8, <1>9 DEF IndInv

LEMMA PollIndInv ==
    ASSUME IndInv, PollHit \/ PollMiss \/ Peek, TypeOK'
    PROVE  IndInv'
<1> USE DEF IndInv, fileVars, producerVars, consumerVars, historyVars
<1>1. UNCHANGED <<head, tail, headCache, slots, producerVars, historyVars>>
  BY DEF PollHit, PollMiss, Peek
<1>2. tailCache' = tailCache \/ tailCache' = tail
  BY DEF PollHit, PollMiss, Peek
<1>3. CountersInv'
  BY <1>1, <1>2 DEF TypeOK, CountersInv, CachesConservative
<1>4. ProducerInv' /\ InFlightIntact'
  BY <1>1 DEF ProducerInv, InFlightIntact
<1>5. /\ head \in Nat /\ tail \in Nat /\ tailCache \in Nat /\ headCache \in Nat
      /\ headCache <= head /\ head <= tailCache /\ tailCache <= tail
      /\ tail - headCache < Capacity
  BY DEF TypeOK, CountersInv, CachesConservative
<1> HIDE DEF IndInv
<1>6. \/ cHolds' = "none"
      \/ /\ cHolds' \in {"poll", "peek"}
         /\ cLine' = calcElementOffset(head)
         /\ cRead' = NothingRead
         /\ head < tail
         /\ cHolds' = "poll" => head < tailCache'
  <2>1. CASE PollHit
    <3>1. head < tailCache
      BY <2>1, <1>5, EmptyIsExact, CapacityAssumption DEF PollHit
    <3> QED BY <2>1, <3>1, <1>5 DEF PollHit, Hold
  <2>2. CASE PollMiss
    <3>1. CASE FoundEmpty
      BY <3>1 DEF FoundEmpty
    <3>2. CASE ~LooksEmpty(head, tail) /\ Hold("poll")
      <4>1. head < tail
        BY <3>2, <1>5, EmptyIsExact, CapacityAssumption
      <4> QED BY <2>2, <3>2, <4>1 DEF PollMiss, Hold
    <3> QED BY <2>2, <3>1, <3>2 DEF PollMiss
  <2>3. CASE Peek
    <3>1. head < tail
      BY <2>3, <1>5 DEF Peek
    <3> QED BY <2>3, <3>1 DEF Peek, Hold
  <2> QED BY <2>1, <2>2, <2>3
<1>7. ConsumerInv'
  BY <1>1, <1>6 DEF ConsumerInv
<1>8. NoTornRead'
  BY <1>6 DEF NoTornRead, NothingRead
<1> QED BY <1>3, <1>4, <1>7, <1>8 DEF IndInv

LEMMA ReadWordIndInv ==
    ASSUME IndInv, NEW w \in Words, ReadWord(w), TypeOK'
    PROVE  IndInv'
<1> USE DEF IndInv, fileVars, producerVars, consumerVars, historyVars
<1>1. /\ UNCHANGED <<fileVars, producerVars, cHolds, cLine, historyVars>>
      /\ cRead' = [cRead EXCEPT ![w] = slots[cLine][w]]
      /\ cHolds # "none"
  BY DEF ReadWord
<1>2. CountersInv' /\ ProducerInv' /\ ConsumerInv' /\ InFlightIntact'
  BY <1>1 DEF CountersInv, CachesConservative, ProducerInv, ConsumerInv,
              InFlightIntact
<1>3. slots[cLine] = Oldest
  BY <1>1, OldestInFlight
<1>4. NoTornRead'
  BY <1>1, <1>3 DEF NoTornRead, TypeOK, ReadSoFar, Oldest
<1> QED BY <1>2, <1>4

LEMMA ReleaseIndInv ==
    ASSUME IndInv, Release, TypeOK'
    PROVE  IndInv'
<1> USE DEF IndInv, fileVars, producerVars, consumerVars, historyVars
<1>1. /\ UNCHANGED <<tailCache, tail, headCache, slots, producerVars, sent>>
      /\ cHolds = "poll" /\ cHolds' = "none"
      /\ head' = head + 1
      /\ fate' = Append(fate, IF clearing THEN Dropped ELSE cRead)
  BY DEF Release, Advance
<1>2. Len(fate') = Len(fate) + 1
  BY <1>1 DEF TypeOK
<1>3. /\ head \in Nat /\ tail \in Nat /\ tailCache \in Nat /\ headCache \in Nat
      /\ headCache <= head /\ head < tailCache /\ tailCache <= tail
      /\ head = Len(fate) /\ tail = Len(sent)
  BY <1>1 DEF TypeOK, CountersInv, CachesConservative, ConsumerInv
<1>4. CountersInv'
  BY <1>1, <1>2, <1>3 DEF CountersInv, CachesConservative
<1>5. ProducerInv' /\ ConsumerInv' /\ NoTornRead'
  BY <1>1 DEF ProducerInv, ConsumerInv, NoTornRead
<1>6. InFlightIntact'
  BY <1>1, <1>2, <1>3 DEF InFlightIntact
<1> QED BY <1>4, <1>5, <1>6

\* A death, or the start of clear(), only makes a process let go of its line.
LEMMA LetGoIndInv ==
    ASSUME IndInv, ProducerRestart \/ Clear \/ ConsumerRestart \/ UNCHANGED vars,
           TypeOK'
    PROVE  IndInv'
<1> USE DEF IndInv, fileVars, producerVars, consumerVars, historyVars
<1>1. /\ UNCHANGED <<fileVars, sent, fate>>
      /\ \/ pClaimed' = FALSE
         \/ UNCHANGED producerVars
      /\ \/ cHolds' = "none"
         \/ UNCHANGED consumerVars
  BY DEF ProducerRestart, Clear, ConsumerRestart, vars
<1>2. CountersInv' /\ InFlightIntact'
  BY <1>1 DEF CountersInv, CachesConservative, InFlightIntact
<1>3. ProducerInv'
  BY <1>1 DEF ProducerInv
<1>4. ConsumerInv' /\ NoTornRead'
  BY <1>1 DEF ConsumerInv, NoTornRead, Oldest
<1> QED BY <1>2, <1>3, <1>4

LEMMA NextIndInv == IndInv /\ [Next]_vars => IndInv'
<1> SUFFICES ASSUME IndInv, [Next]_vars PROVE IndInv'
  OBVIOUS
<1>1. TypeOK'
  BY NextTypeOK DEF IndInv
<1> QED
  BY <1>1, PreOfferIndInv, PutWordIndInv, OfferIndInv, PollIndInv,
     ReadWordIndInv, ReleaseIndInv, LetGoIndInv DEF Next

LEMMA AlwaysIndInv == Spec => []IndInv
BY InitIndInv, NextIndInv, PTL DEF Spec

-----------------------------------------------------------------------------
(* What the invariant gives *)

\* For every capacity: however stale the copies of head and tail are, they err
\* on the safe side.
THEOREM CachesAreConservative == Spec => []CachesConservative
<1>1. IndInv => CachesConservative
  BY DEF IndInv, CountersInv
<1> QED BY <1>1, AlwaysIndInv, PTL

\* For every capacity: preOffer never hands the producer the line that poll or
\* peek handed the consumer.
THEOREM LinesAreExclusive == Spec => []ExclusiveLine
<1>1. ASSUME IndInv PROVE ExclusiveLine
  <2> SUFFICES ASSUME pClaimed, cHolds # "none" PROVE pLine # cLine
    BY DEF ExclusiveLine
  <2>1. TypeOK /\ CountersInv /\ ProducerInv /\ ConsumerInv
    BY <1>1 DEF IndInv
  <2>2. calcElementOffset(head) # pLine
    BY <2>1, ClaimedLineIsFree DEF TypeOK, ConsumerInv
  <2> QED BY <2>1, <2>2 DEF ConsumerInv
<1> QED BY <1>1, AlwaysIndInv, PTL

\* For every capacity: a message in flight stays whole in its line, through
\* offers, crashes and restarts.
THEOREM InFlightStaysIntact == Spec => []InFlightIntact
<1>1. IndInv => InFlightIntact
  BY DEF IndInv
<1> QED BY <1>1, AlwaysIndInv, PTL

\* For every capacity: no word read through poll or peek is of another message
\* than the oldest one.
THEOREM ReadsAreNotTorn == Spec => []NoTornRead
<1>1. IndInv => NoTornRead
  BY DEF IndInv
<1> QED BY <1>1, AlwaysIndInv, PTL

-----------------------------------------------------------------------------
(* Refinement *)

LEMMA InitImplements == Init => Fifo!Init
BY DEF Init, Fifo!Init

LEMMA NextImplements ==
    ASSUME IndInv, [Next]_vars
    PROVE  [Fifo!Next]_Fifo!fifoVars
<1> USE DEF fileVars, producerVars, consumerVars, historyVars, Fifo!fifoVars
<1>1. /\ tail = Len(sent) /\ head = Len(fate)
      /\ head \in Nat /\ tail \in Nat /\ headCache \in Nat /\ tailCache \in Nat
      /\ headCache <= head /\ tailCache <= tail
  BY DEF IndInv, TypeOK, CountersInv, CachesConservative
<1>2. CASE Offer
  <2>1. /\ pMsg \in Messages /\ sent' = Append(sent, pMsg) /\ fate' = fate
    BY <1>2 DEF Offer, Publish, IndInv, TypeOK
  <2>2. tail - headCache < Capacity - 1
    BY <1>2 DEF Offer, Publish, IndInv, ProducerInv
  <2>3. Fifo!InFlight < Capacity - 1
    BY <1>1, <2>2, CapacityAssumption DEF Fifo!InFlight
  <2> QED BY <2>1, <2>3 DEF Fifo!Next, Fifo!Offer
<1>3. CASE Release
  <2>1. /\ cHolds = "poll" /\ sent' = sent
        /\ fate' = Append(fate, IF clearing THEN Dropped ELSE cRead)
        /\ clearing \/ \A w \in Words : cRead[w] # Unread
    BY <1>3 DEF Release, Advance
  <2>2. Fifo!InFlight > 0
    BY <1>1, <2>1 DEF Fifo!InFlight, IndInv, ConsumerInv
  <2>3. CASE clearing
    BY <2>1, <2>2, <2>3 DEF Fifo!Next, Fifo!Drop
  <2>4. CASE ~clearing
    <3>1. Oldest \in Messages
      BY <2>1, OldestInFlight DEF IndInv
    <3>2. Oldest \in [Words -> Values]
      BY <3>1, MessageAssumption
    <3>3. cRead \in ReadSoFar /\ \A w \in Words : cRead[w] = Oldest[w]
      BY <2>1, <2>4 DEF IndInv, NoTornRead, TypeOK
    <3>4. cRead = Oldest
      BY <3>2, <3>3 DEF ReadSoFar
    <3> QED BY <2>1, <2>2, <2>4, <3>4 DEF Fifo!Next, Fifo!Take, Oldest
  <2> QED BY <2>3, <2>4
<1>4. CASE ~(Offer \/ Release)
  <2>1. UNCHANGED <<sent, fate>>
    BY <1>4 DEF Next, PreOfferHit, PreOfferMiss, PutWord, ProducerRestart,
                PollHit, PollMiss, Peek, ReadWord, Clear, ConsumerRestart, vars
  <2> QED BY <2>1
<1> QED BY <1>2, <1>3, <1>4

\* For every capacity, every set of messages and every pattern of crashes the
\* queue is a bounded FIFO: nothing is duplicated, reordered, torn or invented,
\* and only clear() loses messages.
THEOREM Refinement == Spec => ImplementsFifo
<1>1. IndInv /\ [Next]_vars => [Fifo!Next]_Fifo!fifoVars
  BY NextImplements
<1> QED
  BY <1>1, InitImplements, AlwaysIndInv, PTL DEF Spec, ImplementsFifo, Fifo!Spec

=============================================================================
