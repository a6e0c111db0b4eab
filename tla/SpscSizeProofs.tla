--------------------------- MODULE SpscSizeProofs ---------------------------
(***************************************************************************)
(* What size() and isEmpty() return to the producer or to the consumer,    *)
(* for every capacity.  The queue's invariant carries over: a step of the  *)
(* queue beside a caller of size() is a step of the queue.                 *)
(***************************************************************************)
EXTENDS SpscSize, SpscQueueProofs

\* The caller's own counter stands still during the call.  If it is the one
\* loaded first, the answer is the size at the second load; if not, the size at
\* the first.
CallInv ==
    /\ caller \in {"none", "producer", "consumer"}
    /\ first \in {"tail", "head"}
    /\ caller # "none" => InFlight \in truths
    /\ caller = "producer" /\ first = "tail" => loaded = tail
    /\ caller = "producer" /\ first = "head" =>
          tail - loaded \in 0 .. Capacity - 1 /\ tail - loaded \in truths
    /\ caller = "consumer" /\ first = "tail" =>
          loaded - head \in 0 .. Capacity - 1 /\ loaded - head \in truths
    /\ caller = "consumer" /\ first = "head" => loaded = head

SizeInv == IndInv /\ CallInv

\* A difference of counters less than a lap apart is not changed by the mask.
LEMMA MaskedSmall ==
    ASSUME NEW d \in 0 .. Capacity - 1
    PROVE  Masked(d) = d
BY CapacityAssumption DEF Masked

LEMMA CountersOrdered ==
    ASSUME IndInv
    PROVE  /\ head \in Nat /\ tail \in Nat /\ head <= tail /\ tail - head < Capacity
           /\ InFlight = tail - head
<1>1. /\ head \in Nat /\ tail \in Nat /\ headCache \in Nat /\ tailCache \in Nat
      /\ headCache <= head /\ head <= tailCache /\ tailCache <= tail
      /\ tail - headCache < Capacity /\ tail = Len(sent) /\ head = Len(fate)
  BY DEF IndInv, TypeOK, CountersInv, CachesConservative
<1> QED BY <1>1, CapacityAssumption DEF InFlight

LEMMA SizeInitInv == SizeInit => SizeInv
BY InitIndInv DEF SizeInit, SizeInv, CallInv

LEMMA ProducerStepIsStep ==
    ASSUME ProducerStep
    PROVE  Next /\ head' = head /\ fate' = fate
BY DEF ProducerStep, Next, PreOfferHit, PreOfferMiss, Offer, Publish, PutWord,
       fileVars, historyVars

LEMMA ConsumerStepIsStep ==
    ASSUME ConsumerStep
    PROVE  Next /\ tail' = tail /\ sent' = sent
BY DEF ConsumerStep, Next, PollHit, PollMiss, Peek, Release, Advance, Clear, ReadWord,
       fileVars, historyVars

LEMMA SizeNextInv ==
    ASSUME Callers \subseteq {"producer", "consumer"},
           SizeInv, [SizeNext]_<<vars, sizeVars>>
    PROVE  SizeInv'
<1>1. IndInv'
  <2>1. [Next]_vars
    BY ProducerStepIsStep, ConsumerStepIsStep
       DEF SizeNext, QueueStep, SizeFirstLoad, SizeSecondLoad
  <2> QED BY <2>1, NextIndInv DEF SizeInv
<1>2. ASSUME QueueStep PROVE CallInv'
  <2>1. /\ caller' = caller /\ first' = first /\ loaded' = loaded
        /\ caller # "none" => InFlight' \in truths' /\ truths \subseteq truths'
        /\ caller = "producer" => ConsumerStep
        /\ caller = "consumer" => ProducerStep
    BY <1>2 DEF QueueStep
  <2>2. /\ caller = "producer" => tail' = tail
        /\ caller = "consumer" => head' = head
    BY <2>1, ProducerStepIsStep, ConsumerStepIsStep
  <2> QED BY <2>1, <2>2 DEF SizeInv, CallInv
<1>3. ASSUME SizeSecondLoad PROVE CallInv'
  BY <1>3 DEF SizeSecondLoad, CallInv
<1>4. ASSUME NEW p \in Callers, NEW counter \in {"tail", "head"}, SizeFirstLoad(p, counter)
      PROVE  CallInv'
  <2>1. /\ caller' \in {"producer", "consumer"} /\ first' = counter
        /\ loaded' = IF counter = "tail" THEN tail ELSE head
        /\ tail' = tail /\ head' = head /\ InFlight' = InFlight /\ truths' = {InFlight}
    BY <1>4 DEF SizeFirstLoad, vars, fileVars, historyVars, InFlight
  <2>2. InFlight = tail - head /\ tail - head \in 0 .. Capacity - 1
    BY CountersOrdered, CapacityAssumption DEF SizeInv
  <2> QED BY <2>1, <2>2 DEF CallInv
<1>5. ASSUME UNCHANGED <<vars, sizeVars>> PROVE CallInv'
  BY <1>5 DEF SizeInv, CallInv, InFlight, vars, sizeVars, fileVars, historyVars
<1> QED BY <1>1, <1>2, <1>3, <1>4, <1>5 DEF SizeNext, SizeInv

LEMMA AnswerWasTrue ==
    ASSUME SizeInv, SizeSecondLoad
    PROVE  size \in truths
<1>1. InFlight = tail - head /\ tail - head \in 0 .. Capacity - 1 /\ InFlight \in truths
  BY CountersOrdered, CapacityAssumption DEF SizeInv, CallInv, SizeSecondLoad
<1>2. seenTail - seenHead \in 0 .. Capacity - 1 /\ seenTail - seenHead \in truths
  <2>1. CASE first = "tail"
    BY <1>1, <2>1 DEF SizeInv, CallInv, SizeSecondLoad, seenTail, seenHead
  <2>2. CASE first = "head"
    BY <1>1, <2>2 DEF SizeInv, CallInv, SizeSecondLoad, seenTail, seenHead
  <2> QED BY <2>1, <2>2 DEF SizeInv, CallInv
<1> QED BY <1>2, MaskedSmall DEF size

\* size() called by the producer or the consumer returns a size the queue has
\* had during the call, whichever counter it loads first, and isEmpty() is right
\* about a moment of the call.  For a third process this does not hold: both
\* counters move between its loads.
THEOREM SizeIsTruthful ==
    ASSUME Callers \subseteq {"producer", "consumer"}
    PROVE  SizeSpec => SizeWasTrue
<1>1. SizeInit => SizeInv
  BY SizeInitInv
<1>2. SizeInv /\ [SizeNext]_<<vars, sizeVars>> => SizeInv'
  BY SizeNextInv
<1>3. SizeInv /\ [SizeNext]_<<vars, sizeVars>>
        => [SizeSecondLoad => size \in truths]_<<vars, sizeVars>>
  BY AnswerWasTrue
<1> QED BY <1>1, <1>2, <1>3, PTL DEF SizeSpec, SizeWasTrue
=============================================================================
