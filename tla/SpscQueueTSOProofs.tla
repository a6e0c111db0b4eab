------------------------- MODULE SpscQueueTSOProofs -------------------------
(***************************************************************************)
(* Proofs about SpscQueueTSO, for every capacity, every size of the store  *)
(* buffers, every set of messages and every number of offers and crashes.  *)
(***************************************************************************)
EXTENDS SpscQueueTSO, RingTheorems, SequenceTheorems, TLAPS

(***************************************************************************)
(* The inductive invariant.  On top of the order of the six views of the   *)
(* two counters it says what is in the producer's store buffer: stores to  *)
(* positions between tail and pTail, oldest position first, each with the  *)
(* word that belongs there.  A word of a message is in memory or on its    *)
(* way; as nothing on its way is older than tail, it is in memory when the *)
(* consumer sees the message.                                              *)
(***************************************************************************)
CountersInv ==
    /\ pTail = Len(sent)
    /\ cHead = Len(fate)
    /\ ViewsConservative

\* The message of position q: one that was offered, or the one being written.
Text(q) == IF q < pTail THEN sent[q + 1] ELSE pMsg

BufferInv ==
    \A i \in DOMAIN pBuffer :
        /\ tail <= pBuffer[i].pos /\ pBuffer[i].pos <= pTail
        /\ pBuffer[i].word # TailWord =>
              /\ pBuffer[i].pos = pTail => pClaimed
              /\ pBuffer[i].value = Text(pBuffer[i].pos)[pBuffer[i].word]

BufferOrder ==
    \A i, j \in DOMAIN pBuffer : i <= j => pBuffer[i].pos <= pBuffer[j].pos

\* Word w of position q has been stored and has not reached memory.
Pending(q, w) == \E i \in DOMAIN pBuffer : pBuffer[i].pos = q /\ pBuffer[i].word = w

\* Word w of position q has been stored.
Stored(q, w) == q < pTail \/ (pClaimed /\ w \notin pTodo)

WordsInv ==
    \A q \in cHead .. pTail, w \in Words :
        Stored(q, w) => Pending(q, w) \/ slots[calcElementOffset(q)][w] = Text(q)[w]

ProducerInv == pClaimed => pTail - headCache < Capacity - 1

ConsumerInv ==
    cHolds # "none" => cHead < tail /\ (cHolds = "poll" => cHead < tailCache)

IndInv ==
    /\ TypeOK
    /\ CountersInv
    /\ BufferInv
    /\ BufferOrder
    /\ WordsInv
    /\ ProducerInv
    /\ ConsumerInv
    /\ NoTornRead

-----------------------------------------------------------------------------
(* Type correctness *)

Lines == 0 .. Capacity - 1
Stores == [pos: Nat, word: Words \cup {TailWord}, value: Values]

LEMMA OffsetInLines ==
    ASSUME NEW pos \in Int
    PROVE  calcElementOffset(pos) \in Lines
BY TSOAssumption, ModInRange DEF calcElementOffset, Lines

LEMMA InitTypeOK == Init => TypeOK
<1> SUFFICES ASSUME Init PROVE TypeOK
  OBVIOUS
<1>1. pMsg \in Messages
  BY TSOAssumption DEF Init
<1>2. slots \in [0 .. Capacity - 1 -> [Words -> Values]]
  BY TSOAssumption DEF Init
<1>3. cRead \in [Words -> Values \cup {Unread}]
  BY DEF Init, NothingRead
<1>4. /\ pBuffer \in Seq([pos: Nat, word: Words \cup {TailWord}, value: Values])
      /\ sent \in Seq(Messages)
      /\ fate \in Seq([Words -> Values] \cup {Dropped})
  BY EmptySeq DEF Init
<1>5. /\ head \in Nat /\ tail \in Nat /\ pTail \in Nat /\ cHead \in Nat
      /\ headCache \in Nat /\ tailCache \in Nat /\ crashes \in 0 .. MaxCrashes
  BY TSOAssumption DEF Init
<1>6. /\ pClaimed \in BOOLEAN /\ pTodo \in SUBSET Words
      /\ cHolds \in {"none", "poll", "peek"} /\ clearing \in BOOLEAN
  BY DEF Init
<1> QED
  BY <1>1, <1>2, <1>3, <1>4, <1>5, <1>6 DEF TypeOK

LEMMA NextTypeOK == TypeOK /\ [Next]_vars => TypeOK'
<1> SUFFICES ASSUME TypeOK, [Next]_vars PROVE TypeOK'
  OBVIOUS
<1> USE DEF TypeOK, memory, producer, consumer, history
<1>1. CASE PreOffer
  <2>1. headCache' \in Nat
    BY <1>1 DEF PreOffer, Refreshed
  <2> QED BY <1>1, <2>1 DEF PreOffer
<1>2. ASSUME NEW w \in Words, PutWord(w) PROVE TypeOK'
  <2>1. pMsg[w] \in Values
    BY TSOAssumption
  <2>2. pBuffer' \in Seq(Stores)
    BY <1>2, <2>1 DEF PutWord, Store, Stores
  <2> QED BY <1>2, <2>2 DEF PutWord, Stores
<1>3. CASE Offer
  <2>1. pBuffer' \in Seq(Stores)
    BY <1>3, TSOAssumption DEF Offer, Store, Stores
  <2>2. sent' \in Seq(Messages) /\ pTail' \in Nat
    BY <1>3 DEF Offer
  <2> QED BY <1>3, <2>1, <2>2, Zenon DEF Offer, Stores
<1>4. CASE DrainProducer
  <2>1. Head(pBuffer) \in Stores /\ pBuffer' \in Seq(Stores)
    <3>1. pBuffer \in Seq(Stores) /\ pBuffer # <<>> /\ pBuffer' = Tail(pBuffer)
      BY <1>4 DEF DrainProducer, Stores
    <3> QED BY <3>1, HeadTailProperties
  <2>2. tail' \in Nat
    BY <1>4, <2>1 DEF DrainProducer, Reaches, Stores
  <2>3. slots' \in [0 .. Capacity - 1 -> [Words -> Values]]
    <3>1. CASE Head(pBuffer).word = TailWord
      BY <1>4, <3>1 DEF DrainProducer, Reaches
    <3>2. CASE Head(pBuffer).word # TailWord
      <4>1. /\ Head(pBuffer).word \in Words /\ Head(pBuffer).value \in Values
            /\ Head(pBuffer).pos \in Nat
        BY <2>1, <3>2 DEF Stores
      <4>2. calcElementOffset(Head(pBuffer).pos) \in 0 .. Capacity - 1
        <5> DEFINE p == Head(pBuffer).pos
        <5>1. p \in Int
          BY <4>1
        <5> HIDE DEF p, TypeOK
        <5>2. calcElementOffset(p) \in 0 .. Capacity - 1
          BY <5>1, OffsetInLines DEF Lines
        <5> QED BY <5>2 DEF p
      <4>3. slots' = [slots EXCEPT ![calcElementOffset(Head(pBuffer).pos)]
                                                [Head(pBuffer).word] = Head(pBuffer).value]
        BY <1>4, <3>2 DEF DrainProducer, Reaches
      <4> QED BY <4>1, <4>2, <4>3
    <3> QED BY <3>1, <3>2
  <2> QED BY <1>4, <2>1, <2>2, <2>3, Zenon DEF DrainProducer, Reaches, Stores
<1>5. CASE ProducerRestart
  <2>1. crashes' \in 0 .. MaxCrashes
    BY <1>5, TSOAssumption DEF ProducerRestart
  <2> QED BY <1>5, <2>1, Zenon DEF ProducerRestart
<1>6. CASE Poll
  BY <1>6 DEF Poll, NothingRead
<1>7. CASE Peek
  BY <1>7 DEF Peek, NothingRead
<1>8. ASSUME NEW w \in Words, ReadWord(w) PROVE TypeOK'
  <2>1. calcElementOffset(cHead) \in 0 .. Capacity - 1
    BY TSOAssumption, ModInRange DEF calcElementOffset
  <2> QED BY <1>8, <2>1 DEF ReadWord
<1>9. CASE Release
  <2>1. ~clearing => cRead \in [Words -> Values]
    BY <1>9 DEF Release, ReadWhole
  <2>2. fate' \in Seq([Words -> Values] \cup {Dropped}) /\ cHead' \in Nat
    BY <1>9, <2>1 DEF Release, Advance
  <2> QED BY <1>9, <2>2 DEF Release, Advance
<1>10. CASE Clear
  BY <1>10 DEF Clear
<1>11. CASE DrainConsumer
  BY <1>11 DEF DrainConsumer
<1>12. CASE ConsumerRestart
  BY <1>12, TSOAssumption DEF ConsumerRestart
<1>13. CASE UNCHANGED vars
  BY <1>13 DEF vars
<1> QED
  BY <1>1, <1>2, <1>3, <1>4, <1>5, <1>6, <1>7, <1>8, <1>9, <1>10, <1>11, <1>12,
     <1>13 DEF Next

\* Every reachable state is well typed; what the consumer is said to have read
\* of a message it released is whole.
THEOREM TypeCorrect == Spec => []TypeOK
BY InitTypeOK, NextTypeOK, PTL DEF Spec

-----------------------------------------------------------------------------
(* What the actions' proofs share *)

\* Two positions less than a lap apart are in different lines.
LEMMA OffsetsDistinct ==
    ASSUME NEW x \in Nat, NEW y \in Nat, x # y, x - y < Capacity, y - x < Capacity
    PROVE  calcElementOffset(x) # calcElementOffset(y)
<1>1. CASE x < y
  BY <1>1, TSOAssumption, ModDistinct DEF calcElementOffset
<1>2. CASE y < x
  BY <1>2, TSOAssumption, ModDistinct DEF calcElementOffset
<1> QED BY <1>1, <1>2

LEMMA FullIsExact ==
    ASSUME NEW t \in Nat, NEW h \in Nat, h <= t, t - h < Capacity
    PROVE  LooksFull(t, h) <=> t - h = Capacity - 1
BY TSOAssumption, ModFull DEF LooksFull

LEMMA EmptyIsExact ==
    ASSUME NEW h \in Nat, NEW t \in Nat, h <= t, t - h < Capacity
    PROVE  LooksEmpty(h, t) <=> h = t
BY TSOAssumption, ModEmpty DEF LooksEmpty

LEMMA CounterFacts ==
    ASSUME IndInv
    PROVE  /\ head \in Nat /\ tail \in Nat /\ pTail \in Nat /\ cHead \in Nat
           /\ headCache \in Nat /\ tailCache \in Nat
           /\ headCache <= head /\ head <= cHead /\ cHead <= tailCache
           /\ tailCache <= tail /\ tail <= pTail /\ pTail - headCache < Capacity
           /\ pTail = Len(sent) /\ cHead = Len(fate)
BY DEF IndInv, TypeOK, CountersInv, ViewsConservative

LEMMA BufferFacts ==
    ASSUME IndInv
    PROVE  /\ pBuffer \in Seq(Stores)
           /\ DOMAIN pBuffer = 1 .. Len(pBuffer) /\ Len(pBuffer) \in Nat
           /\ \A i \in DOMAIN pBuffer :
                 /\ pBuffer[i] \in Stores
                 /\ pBuffer[i].pos \in Nat
                 /\ pBuffer[i].word \in Words \cup {TailWord}
<1>1. pBuffer \in Seq(Stores)
  BY DEF IndInv, TypeOK, Stores
<1>2. DOMAIN pBuffer = 1 .. Len(pBuffer) /\ Len(pBuffer) \in Nat
  BY <1>1
<1>3. ASSUME NEW i \in DOMAIN pBuffer PROVE pBuffer[i] \in Stores
  BY <1>1, <1>2
<1> QED BY <1>1, <1>2, <1>3 DEF Stores

\* The words of the message the consumer holds have all reached memory.
LEMMA HeldLineIsWhole ==
    ASSUME IndInv, cHolds # "none", NEW w \in Words
    PROVE  slots[calcElementOffset(cHead)][w] = sent[Len(fate) + 1][w]
<1>1. cHead < tail
  BY DEF IndInv, ConsumerInv
<1>2. cHead \in cHead .. pTail /\ cHead < pTail
  BY <1>1, CounterFacts
<1>3. Stored(cHead, w) /\ Text(cHead) = sent[Len(fate) + 1]
  BY <1>2, CounterFacts DEF Stored, Text
<1>4. ~Pending(cHead, w)
  <2> SUFFICES ASSUME NEW i \in DOMAIN pBuffer, pBuffer[i].pos = cHead PROVE FALSE
    BY DEF Pending
  <2>1. tail <= cHead
    BY DEF IndInv, BufferInv
  <2> QED BY <2>1, <1>1, CounterFacts
<1>5. slots[calcElementOffset(cHead)][w] = Text(cHead)[w]
  BY <1>2, <1>3, <1>4 DEF IndInv, WordsInv
<1> QED BY <1>3, <1>5

-----------------------------------------------------------------------------
(* The inductive invariant *)

LEMMA InitIndInv == Init => IndInv
<1> SUFFICES ASSUME Init PROVE IndInv
  OBVIOUS
<1>1. TypeOK
  BY InitTypeOK
<1>2. CountersInv
  BY TSOAssumption DEF Init, CountersInv, ViewsConservative
<1>3. ProducerInv /\ ConsumerInv /\ NoTornRead
  BY DEF Init, ProducerInv, ConsumerInv, NoTornRead
<1>4. DOMAIN pBuffer = {}
  BY DEF Init
<1>5. BufferInv /\ BufferOrder
  BY <1>4 DEF BufferInv, BufferOrder
<1>6. WordsInv
  <2> SUFFICES ASSUME NEW q \in cHead .. pTail, NEW w \in Words PROVE ~Stored(q, w)
    BY DEF WordsInv
  <2>1. ~(q < pTail) /\ ~pClaimed
    BY DEF Init
  <2> QED BY <2>1 DEF Stored
<1> QED BY <1>1, <1>2, <1>3, <1>5, <1>6 DEF IndInv

LEMMA PreOfferIndInv ==
    ASSUME IndInv, PreOffer, TypeOK'
    PROVE  IndInv'
<1>1. /\ UNCHANGED <<memory, pTail, pBuffer, consumer, history>>
      /\ ~pClaimed
      /\ headCache' = Refreshed
      /\ LooksFull(pTail, Refreshed) => ~pClaimed'
      /\ ~pClaimed' \/ pTodo' = Words
  BY DEF PreOffer
<1>2. /\ head' = head /\ tail' = tail /\ slots' = slots /\ pTail' = pTail
      /\ pBuffer' = pBuffer /\ tailCache' = tailCache /\ cHead' = cHead
      /\ cHolds' = cHolds /\ cRead' = cRead /\ sent' = sent /\ fate' = fate
  BY <1>1 DEF memory, consumer, history
<1>3. Refreshed \in Nat /\ headCache <= Refreshed /\ Refreshed <= head
  BY CounterFacts DEF Refreshed
<1>4. CountersInv'
  BY <1>1, <1>2, <1>3, CounterFacts, TSOAssumption DEF CountersInv, ViewsConservative
<1>5. ProducerInv'
  <2>1. Refreshed <= pTail /\ pTail - Refreshed < Capacity
    BY <1>3, CounterFacts, TSOAssumption
  <2>2. pClaimed' => pTail - Refreshed # Capacity - 1
    BY <1>1, <1>3, <2>1, CounterFacts, FullIsExact
  <2> QED BY <1>1, <1>2, <1>3, <2>1, <2>2, CounterFacts, TSOAssumption DEF ProducerInv
<1>6. ConsumerInv' /\ NoTornRead' /\ BufferOrder'
  BY <1>2 DEF IndInv, ConsumerInv, NoTornRead, BufferOrder
<1>7. \A q \in Int : q < pTail => Text(q)' = Text(q)
  BY <1>2 DEF Text
<1>8. BufferInv'
  <2> SUFFICES ASSUME NEW i \in DOMAIN pBuffer
               PROVE  /\ tail <= pBuffer[i].pos /\ pBuffer[i].pos <= pTail
                      /\ pBuffer[i].word # TailWord =>
                            /\ pBuffer[i].pos # pTail
                            /\ pBuffer[i].value =
                                  Text(pBuffer[i].pos)'[pBuffer[i].word]
    BY <1>2 DEF BufferInv, Text
  <2>1. /\ tail <= pBuffer[i].pos /\ pBuffer[i].pos <= pTail
        /\ pBuffer[i].word # TailWord =>
              /\ pBuffer[i].pos # pTail
              /\ pBuffer[i].value = Text(pBuffer[i].pos)[pBuffer[i].word]
    BY <1>1 DEF IndInv, BufferInv
  <2>2. pBuffer[i].pos # pTail => Text(pBuffer[i].pos)' = Text(pBuffer[i].pos)
    BY <1>2, <2>1, CounterFacts, BufferFacts DEF Text
  <2> QED BY <2>1, <2>2
<1>9. WordsInv'
  <2> SUFFICES ASSUME NEW q \in cHead .. pTail, NEW w \in Words, Stored(q, w)'
               PROVE  Pending(q, w) \/ slots[calcElementOffset(q)][w] = Text(q)'[w]
    BY <1>2 DEF WordsInv, Pending, Text
  <2>1. q < pTail
    BY <1>1, <1>2 DEF Stored
  <2>2. Stored(q, w) /\ Text(q)' = Text(q)
    BY <2>1, <1>7 DEF Stored
  <2> QED BY <2>2 DEF IndInv, WordsInv
<1> QED BY <1>4, <1>5, <1>6, <1>8, <1>9 DEF IndInv

LEMMA PutWordIndInv ==
    ASSUME IndInv, NEW w \in Words, PutWord(w), TypeOK'
    PROVE  IndInv'
<1> DEFINE s == [pos |-> pTail, word |-> w, value |-> pMsg[w]]
<1>1. /\ UNCHANGED <<memory, headCache, pTail, pClaimed, pMsg, consumer, history>>
      /\ pClaimed /\ w \in pTodo /\ pTodo' = pTodo \ {w}
      /\ pBuffer' = Append(pBuffer, s)
  BY DEF PutWord, Store
<1>2. /\ head' = head /\ tail' = tail /\ slots' = slots /\ pTail' = pTail
      /\ headCache' = headCache /\ pClaimed' = pClaimed /\ pMsg' = pMsg
      /\ tailCache' = tailCache /\ cHead' = cHead
      /\ cHolds' = cHolds /\ cRead' = cRead /\ sent' = sent /\ fate' = fate
  BY <1>1 DEF memory, consumer, history
<1>3. s \in Stores
  <2>1. pMsg[w] \in Values
    BY TSOAssumption DEF IndInv, TypeOK
  <2> QED BY <2>1, CounterFacts DEF Stores
<1>4. /\ DOMAIN pBuffer' = 1 .. Len(pBuffer) + 1
      /\ \A i \in DOMAIN pBuffer : pBuffer'[i] = pBuffer[i]
      /\ pBuffer'[Len(pBuffer) + 1] = s
  BY <1>1, <1>3, BufferFacts, AppendProperties
<1>5. CountersInv' /\ ProducerInv' /\ ConsumerInv' /\ NoTornRead'
  BY <1>2 DEF IndInv, CountersInv, ViewsConservative, ProducerInv, ConsumerInv, NoTornRead
<1>6. \A q : Text(q)' = Text(q)
  BY <1>2 DEF Text
<1>7. ASSUME NEW i \in DOMAIN pBuffer'
      PROVE  i \in DOMAIN pBuffer \/ i = Len(pBuffer) + 1
  BY <1>4, BufferFacts
<1>8. Text(pTail) = pMsg
  BY CounterFacts DEF Text
<1>9. BufferInv'
  <2> SUFFICES ASSUME NEW i \in DOMAIN pBuffer'
               PROVE  /\ tail <= pBuffer'[i].pos /\ pBuffer'[i].pos <= pTail
                      /\ pBuffer'[i].word # TailWord =>
                            pBuffer'[i].value = Text(pBuffer'[i].pos)[pBuffer'[i].word]
    BY <1>1, <1>2 DEF BufferInv, Text
  <2>1. CASE i \in DOMAIN pBuffer
    BY <2>1, <1>4 DEF IndInv, BufferInv
  <2>2. CASE i = Len(pBuffer) + 1
    <3>1. pBuffer'[i].pos = pTail /\ pBuffer'[i].word = w /\ pBuffer'[i].value = pMsg[w]
      BY <2>2, <1>4
    <3> QED BY <3>1, <1>8, CounterFacts
  <2> QED BY <1>7, <2>1, <2>2
<1>10. BufferOrder'
  <2> SUFFICES ASSUME NEW i \in DOMAIN pBuffer', NEW j \in DOMAIN pBuffer', i <= j
               PROVE  pBuffer'[i].pos <= pBuffer'[j].pos
    BY DEF BufferOrder
  <2>1. CASE j \in DOMAIN pBuffer
    <3>1. i \in DOMAIN pBuffer
      BY <2>1, <1>7, BufferFacts
    <3> QED BY <2>1, <3>1, <1>4 DEF IndInv, BufferOrder
  <2>2. CASE j = Len(pBuffer) + 1
    <3>1. pBuffer'[j].pos = pTail
      BY <2>2, <1>4
    <3>2. pBuffer'[i].pos <= pTail
      BY <1>2, <1>9 DEF BufferInv
    <3> QED BY <3>1, <3>2
  <2> QED BY <1>7, <2>1, <2>2
<1>11. WordsInv'
  <2> SUFFICES ASSUME NEW q \in cHead .. pTail, NEW v \in Words, Stored(q, v)'
               PROVE  Pending(q, v)' \/ slots[calcElementOffset(q)][v] = Text(q)[v]
    BY <1>2, <1>6 DEF WordsInv, calcElementOffset
  <2>1. CASE Stored(q, v)
    <3>1. Pending(q, v) => Pending(q, v)'
      BY <1>4, BufferFacts DEF Pending
    <3> QED BY <2>1, <3>1 DEF IndInv, WordsInv
  <2>2. CASE ~Stored(q, v)
    <3>1. q = pTail /\ v = w
      BY <2>2, <1>1, <1>2, CounterFacts DEF Stored
    <3>2. Len(pBuffer) + 1 \in DOMAIN pBuffer'
      BY <1>4, BufferFacts
    <3>3. pBuffer'[Len(pBuffer) + 1].pos = q /\ pBuffer'[Len(pBuffer) + 1].word = v
      BY <3>1, <1>4
    <3> QED BY <3>2, <3>3 DEF Pending
  <2> QED BY <2>1, <2>2
<1> QED BY <1>5, <1>9, <1>10, <1>11 DEF IndInv

LEMMA OfferIndInv ==
    ASSUME IndInv, Offer, TypeOK'
    PROVE  IndInv'
<1> DEFINE s == [pos |-> pTail + 1, word |-> TailWord, value |-> Zero]
<1>1. /\ UNCHANGED <<memory, headCache, pMsg, pTodo, consumer, fate, crashes>>
      /\ pClaimed /\ ~pClaimed' /\ pTodo = {}
      /\ pTail' = pTail + 1
      /\ sent' = Append(sent, pMsg)
      /\ pBuffer' = Append(pBuffer, s)
  BY DEF Offer, Store
<1>2. /\ head' = head /\ tail' = tail /\ slots' = slots
      /\ headCache' = headCache /\ pMsg' = pMsg
      /\ tailCache' = tailCache /\ cHead' = cHead
      /\ cHolds' = cHolds /\ cRead' = cRead /\ fate' = fate
  BY <1>1 DEF memory, consumer
<1>3. s \in Stores
  BY CounterFacts, TSOAssumption DEF Stores
<1>4. /\ DOMAIN pBuffer' = 1 .. Len(pBuffer) + 1
      /\ \A i \in DOMAIN pBuffer : pBuffer'[i] = pBuffer[i]
      /\ pBuffer'[Len(pBuffer) + 1] = s
  BY <1>1, <1>3, BufferFacts, AppendProperties
<1>5. /\ Len(sent') = pTail + 1
      /\ sent'[pTail + 1] = pMsg
      /\ \A i \in 1 .. pTail : sent'[i] = sent[i]
  <2>1. sent \in Seq(Messages) /\ pMsg \in Messages
    BY DEF IndInv, TypeOK
  <2> QED BY <1>1, <2>1, CounterFacts, AppendProperties
<1>6. CountersInv'
  <2>1. pTail - headCache < Capacity - 1
    BY <1>1 DEF IndInv, ProducerInv
  <2> QED BY <1>1, <1>2, <1>5, <2>1, CounterFacts, TSOAssumption
          DEF CountersInv, ViewsConservative
<1>7. ProducerInv' /\ ConsumerInv'
  BY <1>1, <1>2 DEF IndInv, ProducerInv, ConsumerInv
<1>8. NoTornRead'
  <2>1. cHolds # "none" => sent'[Len(fate) + 1] = sent[Len(fate) + 1]
    BY <1>5, CounterFacts DEF IndInv, ConsumerInv
  <2> QED BY <1>2, <2>1 DEF IndInv, NoTornRead
<1>9. ASSUME NEW q \in Nat, q <= pTail PROVE Text(q)' = Text(q)
  <2>1. CASE q < pTail
    BY <2>1, <1>1, <1>5, CounterFacts DEF Text
  <2>2. CASE q = pTail
    BY <2>2, <1>1, <1>5, CounterFacts DEF Text
  <2> QED BY <1>9, <2>1, <2>2, CounterFacts
<1>10. ASSUME NEW i \in DOMAIN pBuffer'
       PROVE  i \in DOMAIN pBuffer \/ i = Len(pBuffer) + 1
  BY <1>4, BufferFacts
<1>11. BufferInv'
  <2> SUFFICES ASSUME NEW i \in DOMAIN pBuffer'
               PROVE  /\ tail <= pBuffer'[i].pos /\ pBuffer'[i].pos <= pTail + 1
                      /\ pBuffer'[i].word # TailWord =>
                            /\ pBuffer'[i].pos # pTail + 1
                            /\ pBuffer'[i].value = Text(pBuffer[i].pos)'[pBuffer'[i].word]
    BY <1>1, <1>2 DEF BufferInv
  <2>1. CASE i \in DOMAIN pBuffer
    <3> DEFINE p == pBuffer[i].pos
    <3>1. /\ tail <= p /\ p <= pTail /\ p \in Nat
          /\ pBuffer[i].word # TailWord => pBuffer[i].value = Text(p)[pBuffer[i].word]
      BY <2>1, BufferFacts DEF IndInv, BufferInv
    <3>2. pBuffer'[i] = pBuffer[i]
      BY <2>1, <1>4
    <3>3. Text(pBuffer[i].pos)' = Text(p)
      <4>1. pBuffer'[i].pos = p
        BY <3>2
      <4> HIDE DEF p
      <4>2. \A q \in Nat : q <= pTail =>
               (IF q < pTail' THEN sent'[q + 1] ELSE pMsg')
                  = (IF q < pTail THEN sent[q + 1] ELSE pMsg)
        BY <1>9 DEF Text
      <4> QED BY <3>1, <4>1, <4>2 DEF Text
    <3>4. p # pTail + 1 /\ p <= pTail + 1
      BY <3>1, CounterFacts
    <3> QED BY <3>1, <3>2, <3>3, <3>4
  <2>2. CASE i = Len(pBuffer) + 1
    BY <2>2, <1>4, CounterFacts
  <2> QED BY <1>10, <2>1, <2>2
<1>12. BufferOrder'
  <2> SUFFICES ASSUME NEW i \in DOMAIN pBuffer', NEW j \in DOMAIN pBuffer', i <= j
               PROVE  pBuffer'[i].pos <= pBuffer'[j].pos
    BY DEF BufferOrder
  <2>1. CASE j \in DOMAIN pBuffer
    <3>1. i \in DOMAIN pBuffer
      BY <2>1, <1>10, BufferFacts
    <3> QED BY <2>1, <3>1, <1>4 DEF IndInv, BufferOrder
  <2>2. CASE j = Len(pBuffer) + 1
    <3>1. pBuffer'[j].pos = pTail + 1
      BY <2>2, <1>4
    <3>2. pBuffer'[i].pos <= pTail + 1
      BY <1>1, <1>11 DEF BufferInv
    <3> QED BY <3>1, <3>2
  <2> QED BY <1>10, <2>1, <2>2
<1>13. WordsInv'
  <2> SUFFICES ASSUME NEW q \in cHead .. pTail + 1, NEW v \in Words, Stored(q, v)'
               PROVE  Pending(q, v)' \/ slots[calcElementOffset(q)][v] = Text(q)'[v]
    BY <1>1, <1>2 DEF WordsInv, calcElementOffset
  <2>1. q <= pTail /\ q \in Nat
    BY <1>1, CounterFacts DEF Stored
  <2>2. Stored(q, v) /\ Text(q)' = Text(q)
    BY <2>1, <1>1, <1>9, CounterFacts DEF Stored
  <2>3. Pending(q, v) => Pending(q, v)'
    BY <1>4, BufferFacts DEF Pending
  <2> QED BY <2>1, <2>2, <2>3 DEF IndInv, WordsInv
<1> QED BY <1>6, <1>7, <1>8, <1>11, <1>12, <1>13 DEF IndInv

\* What the step from memory to memory leaves alone, and the rest of the buffer.
LEMMA DrainProducerFacts ==
    ASSUME IndInv, DrainProducer
    PROVE  /\ UNCHANGED <<head, headCache, pTail, pClaimed, pMsg, pTodo,
                          tailCache, cHead, cHolds, cRead, sent, fate>>
           /\ Len(pBuffer) > 0
           /\ DOMAIN pBuffer' = 1 .. Len(pBuffer) - 1
           /\ \A i \in DOMAIN pBuffer' :
                 i + 1 \in DOMAIN pBuffer /\ pBuffer'[i] = pBuffer[i + 1]
           /\ Head(pBuffer) = pBuffer[1] /\ 1 \in DOMAIN pBuffer
<1>1. /\ UNCHANGED <<head, headCache, pTail, pClaimed, pMsg, pTodo, consumer, history>>
      /\ pBuffer # <<>> /\ pBuffer' = Tail(pBuffer)
  BY DEF DrainProducer, Reaches
<1>2. Len(pBuffer) > 0 /\ Head(pBuffer) = pBuffer[1] /\ 1 \in DOMAIN pBuffer
  BY <1>1, BufferFacts
<1>3. /\ pBuffer' \in Seq(Stores)
      /\ Len(pBuffer') = Len(pBuffer) - 1
      /\ \A i \in 1 .. Len(pBuffer') : pBuffer'[i] = pBuffer[i + 1]
  BY <1>1, BufferFacts, HeadTailProperties
<1>4. DOMAIN pBuffer' = 1 .. Len(pBuffer) - 1
  BY <1>3
<1>5. ASSUME NEW i \in DOMAIN pBuffer'
      PROVE  i + 1 \in DOMAIN pBuffer /\ pBuffer'[i] = pBuffer[i + 1]
  BY <1>3, <1>4, BufferFacts
<1> QED BY <1>1, <1>2, <1>4, <1>5 DEF consumer, history

LEMMA DrainProducerIndInv ==
    ASSUME IndInv, DrainProducer, TypeOK'
    PROVE  IndInv'
<1> DEFINE s == pBuffer[1]
<1>1. /\ tail <= s.pos /\ s.pos <= pTail /\ s.pos \in Nat
      /\ s.word \in Words \cup {TailWord}
      /\ s.word # TailWord => s.value = Text(s.pos)[s.word]
  BY DrainProducerFacts, BufferFacts DEF IndInv, BufferInv
<1>2. ASSUME NEW i \in DOMAIN pBuffer PROVE s.pos <= pBuffer[i].pos
  <2>1. 1 <= i /\ 1 \in DOMAIN pBuffer
    BY BufferFacts, DrainProducerFacts
  <2> QED BY <2>1 DEF IndInv, BufferOrder
<1>3. /\ s.word = TailWord => tail' = s.pos /\ slots' = slots
      /\ s.word # TailWord =>
            /\ tail' = tail
            /\ slots' = [slots EXCEPT ![calcElementOffset(s.pos)][s.word] = s.value]
  BY DrainProducerFacts DEF DrainProducer, Reaches
<1> HIDE DEF s
<1>4. tail' \in Nat /\ tail <= tail' /\ tail' <= s.pos
  BY <1>1, <1>3, CounterFacts
<1>5. CountersInv'
  BY <1>1, <1>4, CounterFacts, DrainProducerFacts DEF CountersInv, ViewsConservative
<1>6. ProducerInv' /\ NoTornRead'
  BY DrainProducerFacts DEF IndInv, ProducerInv, NoTornRead
<1>7. ConsumerInv'
  <2>1. cHolds # "none" => cHead < tail'
    BY <1>4, CounterFacts DEF IndInv, ConsumerInv
  <2> QED BY <2>1, DrainProducerFacts DEF IndInv, ConsumerInv
<1>8. \A q : Text(q)' = Text(q)
  BY DrainProducerFacts DEF Text
<1>9. BufferInv'
  <2> SUFFICES ASSUME NEW i \in DOMAIN pBuffer'
               PROVE  /\ tail' <= pBuffer'[i].pos /\ pBuffer'[i].pos <= pTail
                      /\ pBuffer'[i].word # TailWord =>
                            /\ pBuffer'[i].pos = pTail => pClaimed
                            /\ pBuffer'[i].value = Text(pBuffer'[i].pos)[pBuffer'[i].word]
    BY DrainProducerFacts DEF BufferInv, Text
  <2>1. i + 1 \in DOMAIN pBuffer /\ pBuffer'[i] = pBuffer[i + 1]
    BY DrainProducerFacts
  <2>2. tail' <= pBuffer[i + 1].pos
    BY <1>1, <1>2, <1>4, <2>1, BufferFacts
  <2> QED BY <2>1, <2>2 DEF IndInv, BufferInv
<1>10. BufferOrder'
  <2> SUFFICES ASSUME NEW i \in DOMAIN pBuffer', NEW j \in DOMAIN pBuffer', i <= j
               PROVE  pBuffer'[i].pos <= pBuffer'[j].pos
    BY DEF BufferOrder
  <2>1. /\ i + 1 \in DOMAIN pBuffer /\ pBuffer'[i] = pBuffer[i + 1]
        /\ j + 1 \in DOMAIN pBuffer /\ pBuffer'[j] = pBuffer[j + 1]
    BY DrainProducerFacts
  <2>2. i + 1 <= j + 1
    BY DrainProducerFacts, BufferFacts
  <2> QED BY <2>1, <2>2 DEF IndInv, BufferOrder
<1>11. WordsInv'
  <2> SUFFICES ASSUME NEW q \in cHead .. pTail, NEW w \in Words, Stored(q, w)
               PROVE  Pending(q, w)' \/ slots'[calcElementOffset(q)][w] = Text(q)[w]
    BY <1>8, DrainProducerFacts DEF WordsInv, Stored, calcElementOffset
  <2>1. q \in Nat
    BY CounterFacts
  <2>2. slots \in [0 .. Capacity - 1 -> [Words -> Values]]
    BY DEF IndInv, TypeOK
  <2>3. /\ calcElementOffset(q) \in 0 .. Capacity - 1
        /\ calcElementOffset(s.pos) \in 0 .. Capacity - 1
    BY <1>1, <2>1, OffsetInLines DEF Lines
  <2>4. CASE s.pos = q /\ s.word = w
    <3>1. s.word # TailWord
      BY <2>4, TSOAssumption
    <3>2. slots'[calcElementOffset(q)][w] = s.value
      <4> DEFINE l == calcElementOffset(q)
      <4>1. slots' = [slots EXCEPT ![l][w] = s.value]
        BY <3>1, <2>4, <1>3
      <4>2. l \in DOMAIN slots /\ w \in DOMAIN slots[l]
        BY <2>2, <2>3
      <4> HIDE DEF l
      <4>3. slots'[l][w] = s.value
        BY <4>1, <4>2
      <4> QED BY <4>3 DEF l
    <3> QED BY <3>1, <3>2, <2>4, <1>1
  <2>5. CASE ~(s.pos = q /\ s.word = w)
    <3>1. Pending(q, w) => Pending(q, w)'
      <4> SUFFICES ASSUME NEW i \in DOMAIN pBuffer, pBuffer[i].pos = q, pBuffer[i].word = w
                   PROVE  Pending(q, w)'
        BY DEF Pending
      <4>1. i # 1
        BY <2>5 DEF s
      <4>2. i - 1 \in DOMAIN pBuffer' /\ (i - 1) + 1 = i
        BY <4>1, DrainProducerFacts, BufferFacts
      <4>3. pBuffer'[i - 1] = pBuffer[i]
        BY <4>2, DrainProducerFacts
      <4> QED BY <4>2, <4>3 DEF Pending
    <3>2. slots'[calcElementOffset(q)][w] = slots[calcElementOffset(q)][w]
      <4>1. CASE s.word = TailWord
        BY <4>1, <1>3
      <4>2. CASE s.word # TailWord /\ s.word # w
        BY <4>2, <1>1, <1>3, <2>2, <2>3
      <4>3. CASE s.word # TailWord /\ s.pos # q
        <5>1. s.pos - q < Capacity /\ q - s.pos < Capacity
          BY <1>1, <2>1, CounterFacts, TSOAssumption
        <5>2. calcElementOffset(s.pos) # calcElementOffset(q)
          BY <4>3, <5>1, <1>1, <2>1, OffsetsDistinct
        <5> QED BY <4>3, <5>2, <1>1, <1>3, <2>2, <2>3
      <4> QED BY <2>5, <4>1, <4>2, <4>3
    <3> QED BY <3>1, <3>2 DEF IndInv, WordsInv
  <2> QED BY <2>4, <2>5
<1> QED BY <1>5, <1>6, <1>7, <1>9, <1>10, <1>11 DEF IndInv

\* The facts about the producer's stores do not mention the consumer.
LEMMA ConsumerStepKeepsStores ==
    ASSUME IndInv, UNCHANGED <<tail, slots, producer, sent>>, cHead' \in cHead .. pTail
    PROVE  BufferInv' /\ BufferOrder' /\ WordsInv' /\ ProducerInv'
<1>1. /\ tail' = tail /\ slots' = slots /\ sent' = sent /\ headCache' = headCache
      /\ pTail' = pTail /\ pBuffer' = pBuffer /\ pClaimed' = pClaimed
      /\ pMsg' = pMsg /\ pTodo' = pTodo
  BY DEF producer
<1>2. BufferInv' /\ BufferOrder' /\ ProducerInv'
  BY <1>1 DEF IndInv, BufferInv, BufferOrder, ProducerInv, Text
<1>3. ASSUME NEW q \in cHead' .. pTail, NEW w \in Words PROVE q \in cHead .. pTail
  BY CounterFacts
<1>4. WordsInv'
  BY <1>1, <1>3 DEF IndInv, WordsInv, Stored, Pending, Text, calcElementOffset
<1> QED BY <1>2, <1>4

LEMMA PollIndInv ==
    ASSUME IndInv, Poll \/ Peek, TypeOK'
    PROVE  IndInv'
<1>1. UNCHANGED <<memory, producer, cHead, history>>
  BY DEF Poll, Peek
<1>2. /\ head' = head /\ tail' = tail /\ slots' = slots /\ cHead' = cHead
      /\ headCache' = headCache /\ pTail' = pTail /\ sent' = sent /\ fate' = fate
  BY <1>1 DEF memory, producer, history
<1>3. BufferInv' /\ BufferOrder' /\ WordsInv' /\ ProducerInv'
  <2>1. cHead' \in cHead .. pTail
    BY <1>2, CounterFacts
  <2> QED BY <1>1, <1>2, <2>1, ConsumerStepKeepsStores
<1>4. tailCache' = tailCache \/ tailCache' = tail
  BY DEF Poll, Peek
<1>5. tailCache' \in Nat /\ cHead <= tailCache' /\ tailCache' <= tail
  BY <1>4, CounterFacts
<1>6. CountersInv'
  BY <1>2, <1>5, CounterFacts DEF CountersInv, ViewsConservative
<1>7. \/ cHolds' = "none"
      \/ /\ cRead' = NothingRead
         /\ cHead < tail
         /\ cHolds' = "poll" => cHead < tailCache'
  <2>1. CASE Poll
    <3>1. CASE LooksEmpty(cHead, tailCache')
      BY <2>1, <3>1 DEF Poll
    <3>2. CASE ~LooksEmpty(cHead, tailCache')
      <4>1. tailCache' - cHead < Capacity
        BY <1>5, CounterFacts, TSOAssumption
      <4>2. cHead # tailCache'
        BY <3>2, <4>1, <1>5, CounterFacts, EmptyIsExact
      <4>3. cHead < tailCache' /\ cHead < tail
        BY <4>2, <1>5, CounterFacts
      <4> QED BY <2>1, <3>2, <4>3 DEF Poll
    <3> QED BY <3>1, <3>2
  <2>2. CASE Peek
    <3>1. cHead < tail
      BY <2>2, CounterFacts DEF Peek
    <3> QED BY <2>2, <3>1 DEF Peek
  <2> QED BY <2>1, <2>2
<1>8. ConsumerInv'
  BY <1>2, <1>7 DEF ConsumerInv
<1>9. NoTornRead'
  BY <1>7 DEF NoTornRead, NothingRead
<1> QED BY <1>3, <1>6, <1>8, <1>9 DEF IndInv

LEMMA ReadWordIndInv ==
    ASSUME IndInv, NEW w \in Words, ReadWord(w), TypeOK'
    PROVE  IndInv'
<1>1. /\ UNCHANGED <<memory, producer, tailCache, cHead, cHolds, history>>
      /\ cRead' = [cRead EXCEPT ![w] = slots[calcElementOffset(cHead)][w]]
      /\ cHolds # "none"
  BY DEF ReadWord
<1>2. BufferInv' /\ BufferOrder' /\ WordsInv' /\ ProducerInv'
  <2>1. cHead' \in cHead .. pTail
    BY <1>1, CounterFacts
  <2> QED BY <1>1, <2>1, ConsumerStepKeepsStores DEF memory, history
<1>3. CountersInv' /\ ConsumerInv'
  BY <1>1 DEF IndInv, CountersInv, ViewsConservative, ConsumerInv, memory, producer, history
<1>4. NoTornRead'
  <2>1. slots[calcElementOffset(cHead)][w] = sent[Len(fate) + 1][w]
    BY <1>1, HeldLineIsWhole
  <2>2. cRead \in [Words -> Values \cup {Unread}]
    BY DEF IndInv, TypeOK
  <2> QED BY <1>1, <2>1, <2>2 DEF IndInv, NoTornRead, history
<1> QED BY <1>2, <1>3, <1>4 DEF IndInv

LEMMA ReleaseIndInv ==
    ASSUME IndInv, Release, TypeOK'
    PROVE  IndInv'
<1>1. /\ UNCHANGED <<memory, producer, tailCache, sent>>
      /\ cHolds = "poll" /\ cHolds' = "none"
      /\ cHead' = cHead + 1
      /\ fate' = Append(fate, IF clearing THEN Dropped ELSE cRead)
  BY DEF Release, Advance
<1>2. cHead < tailCache
  BY <1>1 DEF IndInv, ConsumerInv
<1>3. Len(fate') = Len(fate) + 1
  <2>1. /\ fate \in Seq([Words -> Values] \cup {Dropped})
        /\ fate' \in Seq([Words -> Values] \cup {Dropped})
    BY DEF IndInv, TypeOK
  <2> QED BY <1>1, <2>1
<1>4. BufferInv' /\ BufferOrder' /\ WordsInv' /\ ProducerInv'
  <2>1. cHead' \in cHead .. pTail
    BY <1>1, <1>2, CounterFacts
  <2> QED BY <1>1, <2>1, ConsumerStepKeepsStores DEF memory
<1>5. CountersInv'
  <2>1. /\ head' = head /\ tail' = tail /\ headCache' = headCache /\ pTail' = pTail
        /\ tailCache' = tailCache /\ sent' = sent
    BY <1>1 DEF memory, producer
  <2> QED BY <1>1, <1>2, <1>3, <2>1, CounterFacts DEF CountersInv, ViewsConservative
<1>6. ConsumerInv' /\ NoTornRead'
  BY <1>1 DEF ConsumerInv, NoTornRead
<1> QED BY <1>4, <1>5, <1>6 DEF IndInv

LEMMA DrainConsumerIndInv ==
    ASSUME IndInv, DrainConsumer, TypeOK'
    PROVE  IndInv'
<1>1. /\ UNCHANGED <<tail, slots, producer, consumer, history>>
      /\ head < cHead /\ head' = head + 1
  BY DEF DrainConsumer
<1>2. BufferInv' /\ BufferOrder' /\ WordsInv' /\ ProducerInv'
  <2>1. cHead' \in cHead .. pTail
    BY <1>1, CounterFacts DEF consumer
  <2> QED BY <1>1, <2>1, ConsumerStepKeepsStores DEF history
<1>3. CountersInv'
  <2>1. /\ tail' = tail /\ headCache' = headCache /\ pTail' = pTail /\ cHead' = cHead
        /\ tailCache' = tailCache /\ sent' = sent /\ fate' = fate
    BY <1>1 DEF consumer, producer, history
  <2> QED BY <1>1, <2>1, CounterFacts DEF CountersInv, ViewsConservative
<1>4. ConsumerInv' /\ NoTornRead'
  BY <1>1 DEF IndInv, ConsumerInv, NoTornRead, consumer, history
<1> QED BY <1>2, <1>3, <1>4 DEF IndInv

\* Steps that move no counter and no store: a process lets go of its line.
LEMMA LetGoIndInv ==
    ASSUME IndInv, ProducerRestart \/ Clear \/ ConsumerRestart \/ UNCHANGED vars, TypeOK'
    PROVE  IndInv'
<1>1. /\ head' = head /\ tail' = tail /\ slots' = slots /\ pTail' = pTail
      /\ headCache' = headCache /\ pBuffer' = pBuffer
      /\ pMsg' = pMsg /\ pTodo' = pTodo
      /\ tailCache' = tailCache /\ cHead' = cHead
      /\ cRead' = cRead /\ sent' = sent /\ fate' = fate
      /\ cHolds' = cHolds \/ cHolds' = "none"
      /\ pClaimed' = pClaimed \/ (~pClaimed' /\ pBuffer = <<>>)
  BY DEF ProducerRestart, Clear, ConsumerRestart, vars, memory, producer, consumer, history
<1>2. CountersInv' /\ ProducerInv' /\ ConsumerInv' /\ NoTornRead' /\ BufferOrder'
  BY <1>1 DEF IndInv, CountersInv, ViewsConservative, ProducerInv, ConsumerInv,
              NoTornRead, BufferOrder
<1>3. BufferInv'
  <2>1. CASE pClaimed' = pClaimed
    BY <1>1, <2>1 DEF IndInv, BufferInv, Text
  <2>2. CASE pBuffer = <<>>
    BY <1>1, <2>2 DEF BufferInv
  <2> QED BY <1>1, <2>1, <2>2
<1>4. WordsInv'
  <2>1. \A q, w : Stored(q, w)' => Stored(q, w)
    BY <1>1 DEF Stored
  <2>2. \A q, w : /\ Text(q)' = Text(q)
                  /\ Pending(q, w)' = Pending(q, w)
    BY <1>1 DEF Text, Pending
  <2> QED BY <1>1, <2>1, <2>2 DEF IndInv, WordsInv, calcElementOffset
<1> QED BY <1>2, <1>3, <1>4 DEF IndInv

LEMMA NextIndInv == IndInv /\ [Next]_vars => IndInv'
<1> SUFFICES ASSUME IndInv, [Next]_vars PROVE IndInv'
  OBVIOUS
<1>1. TypeOK'
  BY NextTypeOK DEF IndInv
<1>2. CASE PreOffer
  BY <1>1, <1>2, PreOfferIndInv
<1>3. ASSUME NEW w \in Words, PutWord(w) PROVE IndInv'
  BY <1>1, <1>3, PutWordIndInv
<1>4. CASE Offer
  BY <1>1, <1>4, OfferIndInv
<1>5. CASE DrainProducer
  BY <1>1, <1>5, DrainProducerIndInv
<1>6. CASE Poll \/ Peek
  BY <1>1, <1>6, PollIndInv
<1>7. ASSUME NEW w \in Words, ReadWord(w) PROVE IndInv'
  BY <1>1, <1>7, ReadWordIndInv
<1>8. CASE Release
  BY <1>1, <1>8, ReleaseIndInv
<1>9. CASE DrainConsumer
  BY <1>1, <1>9, DrainConsumerIndInv
<1>10. CASE ProducerRestart \/ Clear \/ ConsumerRestart \/ UNCHANGED vars
  BY <1>1, <1>10, LetGoIndInv
<1> QED
  BY <1>2, <1>3, <1>4, <1>5, <1>6, <1>7, <1>8, <1>9, <1>10 DEF Next

LEMMA AlwaysIndInv == Spec => []IndInv
BY InitIndInv, NextIndInv, PTL DEF Spec

-----------------------------------------------------------------------------
(* What the invariant gives *)

\* However long a store stays in a buffer, every view and copy of head and tail
\* errs on the safe side.
THEOREM ViewsAreConservative == Spec => []ViewsConservative
<1>1. IndInv => ViewsConservative
  BY DEF IndInv, CountersInv
<1> QED BY <1>1, AlwaysIndInv, PTL

LEMMA NothingPendingIsHeld == IndInv => NoLateWord
<1> SUFFICES ASSUME IndInv, NEW i \in DOMAIN pBuffer
             PROVE  /\ pBuffer[i].pos >= tail
                    /\ cHolds # "none" =>
                          calcElementOffset(pBuffer[i].pos) # calcElementOffset(cHead)
  BY DEF NoLateWord
<1> DEFINE p == pBuffer[i].pos
<1>1. p \in Nat /\ tail <= p /\ p <= pTail
  BY BufferFacts DEF IndInv, BufferInv
<1> HIDE DEF p
<1>2. p >= tail
  BY <1>1, CounterFacts
<1>3. ASSUME cHolds # "none" PROVE calcElementOffset(p) # calcElementOffset(cHead)
  <2>1. cHead < p
    BY <1>1, <1>3, CounterFacts DEF IndInv, ConsumerInv
  <2>2. p # cHead /\ p - cHead < Capacity /\ cHead - p < Capacity
    BY <1>1, <2>1, CounterFacts, TSOAssumption
  <2> QED BY <1>1, <2>2, CounterFacts, OffsetsDistinct
<1> QED BY <1>2, <1>3 DEF p

\* offer()'s ordered store needs no fence: no word of a line reaches memory
\* after the tail that publishes the line, nor while the consumer holds it.
THEOREM NoWordIsLate == Spec => []NoLateWord
BY NothingPendingIsHeld, AlwaysIndInv, PTL

\* No caller of poll or peek sees a half-written message, although words and
\* counters travel through store buffers.
THEOREM ReadsAreNotTorn == Spec => []NoTornRead
<1>1. IndInv => NoTornRead
  BY DEF IndInv
<1> QED BY <1>1, AlwaysIndInv, PTL

-----------------------------------------------------------------------------
(* Refinement *)

LEMMA InitImplements == Init => Fifo!Init
BY DEF Init, Fifo!Init

LEMMA NextImplements ==
    ASSUME IndInv, [Next]_vars
    PROVE  [Fifo!Next]_Fifo!fifoVars
<1>1. CASE Offer
  <2>1. /\ pMsg \in Messages /\ sent' = Append(sent, pMsg) /\ fate' = fate
    BY <1>1 DEF Offer, IndInv, TypeOK
  <2>2. pTail - headCache < Capacity - 1
    BY <1>1 DEF Offer, IndInv, ProducerInv
  <2>3. Fifo!InFlight < Capacity - 1
    BY <2>2, CounterFacts, TSOAssumption DEF Fifo!InFlight
  <2> QED BY <2>1, <2>3 DEF Fifo!Next, Fifo!Offer
<1>2. CASE Release
  <2>1. /\ cHolds = "poll" /\ sent' = sent
        /\ fate' = Append(fate, IF clearing THEN Dropped ELSE cRead)
        /\ clearing \/ \A w \in Words : cRead[w] # Unread
    BY <1>2 DEF Release, Advance, ReadWhole
  <2>2. cHead < pTail
    BY <2>1, CounterFacts DEF IndInv, ConsumerInv
  <2>3. Fifo!InFlight > 0
    BY <2>2, CounterFacts DEF Fifo!InFlight
  <2>4. CASE clearing
    BY <2>1, <2>3, <2>4 DEF Fifo!Next, Fifo!Drop
  <2>5. CASE ~clearing
    <3>1. sent[Len(fate) + 1] \in [Words -> Values]
      <4>1. Len(fate) + 1 \in 1 .. Len(sent) /\ sent \in Seq(Messages)
        BY <2>2, CounterFacts DEF IndInv, TypeOK
      <4> QED BY <4>1, TSOAssumption
    <3>2. /\ cRead \in [Words -> Values \cup {Unread}]
          /\ \A w \in Words : cRead[w] = sent[Len(fate) + 1][w]
      BY <2>1, <2>5 DEF IndInv, NoTornRead, TypeOK
    <3>3. cRead = sent[Len(fate) + 1]
      BY <3>1, <3>2
    <3> QED BY <2>1, <2>3, <2>5, <3>3 DEF Fifo!Next, Fifo!Take
  <2> QED BY <2>4, <2>5
<1>3. CASE ~(Offer \/ Release)
  <2>1. UNCHANGED <<sent, fate>>
    BY <1>3 DEF Next, PreOffer, PutWord, DrainProducer, Reaches, ProducerRestart, Poll,
                Peek, ReadWord, DrainConsumer, Clear, ConsumerRestart, vars, history
  <2> QED BY <2>1 DEF Fifo!fifoVars
<1> QED BY <1>1, <1>2, <1>3

\* With store buffers of any size the queue is still the bounded FIFO: a message
\* is in it when offer() returns, whatever of it has reached memory by then.
THEOREM Refinement == Spec => ImplementsFifo
<1>1. IndInv /\ [Next]_vars => [Fifo!Next]_Fifo!fifoVars
  BY NextImplements
<1> QED
  BY <1>1, InitImplements, AlwaysIndInv, PTL DEF Spec, ImplementsFifo, Fifo!Spec
=============================================================================
