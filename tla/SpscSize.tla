------------------------------ MODULE SpscSize ------------------------------
(***************************************************************************)
(* size() and isEmpty() of the queue: a load of tail, a load of head, and  *)
(* the masked difference.  Java loads tail first; C++ leaves the order of  *)
(* the two loads to the compiler, so either may come first here.  The      *)
(* process that calls them may be the producer, the consumer, or a third   *)
(* one that maps the file, like MsgQueueDisplay.  The caller does nothing  *)
(* else until it has its answer; the other processes go on.                *)
(***************************************************************************)
EXTENDS SpscQueue

CONSTANT Callers
ASSUME CallersAssumption == Callers \subseteq {"producer", "consumer", "observer"}

VARIABLES caller,      \* who is inside size(), or "none"
          first,       \* the counter it has loaded
          loaded,      \* the value it has found there
          truths       \* sizes the queue has had since then

sizeVars == <<caller, first, loaded, truths>>

InFlight == Len(sent) - Len(fate)

SizeFirstLoad(p, counter) ==
    /\ caller = "none"
    /\ p = "consumer" => ~clearing
    /\ caller' = p
    /\ first' = counter
    /\ loaded' = IF counter = "tail" THEN tail ELSE head
    /\ truths' = {InFlight}
    /\ UNCHANGED vars

\* The counters as the caller sees them once it makes its second load.
seenTail == IF first = "tail" THEN loaded ELSE tail
seenHead == IF first = "head" THEN loaded ELSE head

\* What size() returns; isEmpty() tests it for zero.
size_FromCache == Masked(seenTail - headCache)
size == Masked(seenTail - seenHead)

SizeSecondLoad ==
    /\ caller # "none"
    /\ caller' = "none"
    /\ first' = "tail" /\ loaded' = 0
    /\ truths' = {}
    /\ UNCHANGED vars

ProducerStep ==
    \/ PreOfferHit \/ PreOfferMiss \/ Offer
    \/ \E w \in Words : PutWord(w)

ConsumerStep ==
    \/ PollHit \/ PollMiss \/ Peek \/ Release \/ Clear
    \/ \E w \in Words : ReadWord(w)

QueueStep ==
    /\ \/ caller # "producer" /\ ProducerStep
       \/ caller # "consumer" /\ ConsumerStep
    /\ truths' = IF caller = "none" THEN {} ELSE truths \cup {InFlight'}
    /\ UNCHANGED <<caller, first, loaded>>

SizeInit == Init /\ caller = "none" /\ first = "tail" /\ loaded = 0 /\ truths = {}

SizeNext ==
    \/ QueueStep
    \/ SizeSecondLoad
    \/ \E p \in Callers, counter \in {"tail", "head"} : SizeFirstLoad(p, counter)

SizeSpec == SizeInit /\ [][SizeNext]_<<vars, sizeVars>>

-----------------------------------------------------------------------------

\* "Returns number of items on the queue": the answer is a size the queue has
\* had during the call, whichever counter is loaded first, so a queue that was
\* never empty is not called empty.
SizeWasTrue == [][SizeSecondLoad => size \in truths]_<<vars, sizeVars>>
=============================================================================
