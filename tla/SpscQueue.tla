------------------------------ MODULE SpscQueue ------------------------------
(***************************************************************************)
(* SpscMemoryMappedCacheLineQueue: a ring of cache lines in a file that a  *)
(* producer process and a consumer process both map.                       *)
(*                                                                         *)
(* head, tailCache, tail, headCache and the lines live in the file, so     *)
(* they survive the death of either process.  The producer owns tail and   *)
(* headCache, the consumer owns head and tailCache; each looks at the      *)
(* other's counter only when its own copy says full (empty).               *)
(*                                                                         *)
(* An action is what one process does up to and including ONE access to    *)
(* memory the other process writes: a load of head by preOffer, a load of  *)
(* tail by poll and peek, the store that publishes a counter, one word of  *)
(* a line.  A message has several words, so that a line half written or    *)
(* half read is a state of the model.  Memory is sequentially consistent.  *)
(*                                                                         *)
(* A process may be killed before any of its accesses and started again    *)
(* on the same file; the consumer's constructor then empties the queue     *)
(* (the Java constructor, and what the C++ one is documented to do).       *)
(*                                                                         *)
(* sent and fate are history variables: what was offered, and for each     *)
(* message in the same order what the consumer read, or Dropped if clear() *)
(* removed it.                                                             *)
(***************************************************************************)
EXTENDS Integers, Sequences, FiniteSets

CONSTANTS Capacity,     \* lines in the ring
          Words,        \* the words of a line
          Values,       \* what a word may hold
          Zero,         \* what the words of a new file hold
          Messages,     \* what the producer may write into a line
          Unread,       \* a word the consumer has not read yet
          Dropped,      \* the fate of a message removed by clear()
          MaxOffers,    \* bound: messages offered
          MaxCrashes    \* bound: deaths of a process

ASSUME CapacityAssumption == Capacity \in Nat /\ Capacity > 1
ASSUME BoundAssumption == MaxOffers \in Nat /\ MaxCrashes \in Nat
ASSUME MessageAssumption ==
    /\ Messages \subseteq [Words -> Values]
    /\ Messages # {}
    /\ Zero \in Values
    /\ Unread \notin Values

VARIABLES
    head, tailCache,    \* counters the consumer writes
    tail, headCache,    \* counters the producer writes
    slots,              \* the lines of the ring
    pClaimed,           \* the producer holds a line that preOffer gave it
    pLine,              \* that line
    pMsg, pTodo,        \* the message it writes there, the words left to write
    cHolds,             \* the line the consumer holds came from "poll", "peek" or is "none"
    cLine,              \* that line
    cRead,              \* the words read from it so far
    clearing,           \* the consumer is inside clear()
    sent, fate,         \* history
    crashes

fileVars     == <<head, tailCache, tail, headCache, slots>>
producerVars == <<pClaimed, pLine, pMsg, pTodo>>
consumerVars == <<cHolds, cLine, cRead, clearing>>
historyVars  == <<sent, fate, crashes>>
vars == <<fileVars, producerVars, consumerVars, historyVars>>

Lines == 0 .. Capacity - 1

\* `x & mask', Capacity being a power of two; QueueLayout relates the two.
Masked(x) == x % Capacity

\* The line a counter points at.
calcElementOffset_NoMask(pos) == pos
calcElementOffset_HalfMask(pos) == pos % (Capacity \div 2)
calcElementOffset(pos) == Masked(pos)

\* preOffer's test: no line would stay free if the producer took one more.
LooksFull_Never(t, h) == FALSE
LooksFull_NoSpareLine(t, h) == t - h = Capacity
LooksFull(t, h) == Masked(t + 1 - h) = 0

\* poll's test: the two counters point at the same line.
LooksEmpty(h, t) == Masked(h - t) = 0

NothingRead == [w \in Words |-> Unread]

-----------------------------------------------------------------------------
(* The producer *)

Claim ==
    /\ pClaimed' = TRUE
    /\ pLine' = calcElementOffset(tail)
    /\ pMsg' \in Messages
    /\ pTodo' = Words

\* The cached head leaves room for the message.
PreOfferHit ==
    /\ ~pClaimed
    /\ Len(sent) < MaxOffers
    /\ ~LooksFull(tail, headCache)
    /\ Claim
    /\ UNCHANGED <<fileVars, consumerVars, historyVars>>

\* The cached head says full: load head, keep it, and look again.
PreOfferMiss_NoRefresh ==
    /\ ~pClaimed
    /\ Len(sent) < MaxOffers
    /\ LooksFull(tail, headCache)
    /\ UNCHANGED vars

PreOfferMiss ==
    /\ ~pClaimed
    /\ Len(sent) < MaxOffers
    /\ LooksFull(tail, headCache)
    /\ headCache' = head
    /\ \/ LooksFull(tail, head) /\ UNCHANGED producerVars
       \/ ~LooksFull(tail, head) /\ Claim
    /\ UNCHANGED <<head, tailCache, tail, slots, consumerVars, historyVars>>

\* The caller stores a word of its message into the line.
PutWord(w) ==
    /\ pClaimed
    /\ w \in pTodo
    /\ slots' = [slots EXCEPT ![pLine][w] = pMsg[w]]
    /\ pTodo' = pTodo \ {w}
    /\ UNCHANGED <<head, tailCache, tail, headCache, pClaimed, pLine, pMsg,
                   consumerVars, historyVars>>

\* offer() publishes the line; the caller calls it once the line is written.
Publish ==
    /\ pClaimed
    /\ tail' = tail + 1
    /\ pClaimed' = FALSE
    /\ sent' = Append(sent, pMsg)
    /\ UNCHANGED <<head, tailCache, headCache, slots, pLine, pMsg, pTodo,
                   consumerVars, fate, crashes>>

Offer_BeforeWritten == Publish
Offer == pTodo = {} /\ Publish

\* The producer dies and another maps the same file.
ProducerRestart ==
    /\ crashes < MaxCrashes
    /\ crashes' = crashes + 1
    /\ pClaimed' = FALSE
    /\ UNCHANGED <<fileVars, pLine, pMsg, pTodo, consumerVars, sent, fate>>

-----------------------------------------------------------------------------
(* The consumer *)

Hold(how) ==
    /\ cHolds' = how
    /\ cLine' = calcElementOffset(head)
    /\ cRead' = NothingRead
    /\ UNCHANGED clearing

\* poll() returned 0: clear() is over.
FoundEmpty ==
    /\ cHolds' = "none"
    /\ clearing' = FALSE
    /\ UNCHANGED <<cLine, cRead>>

\* The cached tail shows a message.
PollHit ==
    /\ cHolds # "poll"
    /\ ~LooksEmpty(head, tailCache)
    /\ Hold("poll")
    /\ UNCHANGED <<fileVars, producerVars, historyVars>>

\* The cached tail says empty: load tail, keep it, and look again.
PollMiss ==
    /\ cHolds # "poll"
    /\ LooksEmpty(head, tailCache)
    /\ tailCache' = tail
    /\ \/ LooksEmpty(head, tail) /\ FoundEmpty
       \/ ~LooksEmpty(head, tail) /\ Hold("poll")
    /\ UNCHANGED <<head, tail, headCache, slots, producerVars, historyVars>>

\* peek() compares the counters themselves and refreshes nothing.
Peek ==
    /\ cHolds = "none"
    /\ ~clearing
    /\ ~(head >= tailCache /\ head >= tail)
    /\ Hold("peek")
    /\ UNCHANGED <<fileVars, producerVars, historyVars>>

\* The caller loads a word of the line it holds.
ReadWord(w) ==
    /\ cHolds # "none"
    /\ ~clearing
    /\ cRead[w] = Unread
    /\ cRead' = [cRead EXCEPT ![w] = slots[cLine][w]]
    /\ UNCHANGED <<fileVars, producerVars, cHolds, cLine, clearing, historyVars>>

\* releaseCacheLine() gives the line back.  The caller has read it, clear()
\* has not.
Advance ==
    /\ cHolds = "poll"
    /\ head' = head + 1
    /\ cHolds' = "none"
    /\ fate' = Append(fate, IF clearing THEN Dropped ELSE cRead)
    /\ UNCHANGED <<tailCache, tail, headCache, slots, producerVars,
                   cLine, cRead, clearing, sent, crashes>>

Release_BeforeRead == Advance
Release == (clearing \/ \A w \in Words : cRead[w] # Unread) /\ Advance

\* clear() polls and releases until poll() finds the queue empty.
Clear ==
    /\ cHolds # "poll"
    /\ ~clearing
    /\ clearing' = TRUE
    /\ cHolds' = "none"
    /\ UNCHANGED <<fileVars, producerVars, cLine, cRead, historyVars>>

\* The consumer dies and another maps the same file: its constructor clears.
ConsumerRestart ==
    /\ crashes < MaxCrashes
    /\ crashes' = crashes + 1
    /\ cHolds' = "none"
    /\ clearing' = TRUE
    /\ UNCHANGED <<fileVars, producerVars, cLine, cRead, sent, fate>>

-----------------------------------------------------------------------------

\* A new file is all zeros.
Init ==
    /\ head = 0 /\ tailCache = 0 /\ tail = 0 /\ headCache = 0
    /\ slots = [l \in Lines |-> [w \in Words |-> Zero]]
    /\ pClaimed = FALSE /\ pLine = 0 /\ pTodo = {}
    /\ pMsg = CHOOSE m \in Messages : TRUE
    /\ cHolds = "none" /\ cLine = 0 /\ cRead = NothingRead
    /\ clearing = TRUE      \* the consumer's constructor
    /\ sent = <<>> /\ fate = <<>> /\ crashes = 0

PreOffer == PreOfferHit \/ PreOfferMiss

Poll == PollHit \/ PollMiss

Next ==
    \/ PreOfferHit \/ PreOfferMiss
    \/ \E w \in Words : PutWord(w)
    \/ Offer
    \/ ProducerRestart
    \/ PollHit \/ PollMiss
    \/ Peek
    \/ \E w \in Words : ReadWord(w)
    \/ Release
    \/ Clear
    \/ ConsumerRestart

Spec == Init /\ [][Next]_vars

(***************************************************************************)
(* Both programs call preOffer and poll in a loop until they succeed, and  *)
(* finish what they started on a line unless they are killed.  Nothing     *)
(* obliges anyone to peek, to clear or to crash.                           *)
(***************************************************************************)
Fairness ==
    /\ WF_vars(PreOffer)
    /\ \A w \in Words : WF_vars(PutWord(w))
    /\ WF_vars(Offer)
    /\ WF_vars(Poll)
    /\ \A w \in Words : WF_vars(ReadWord(w))
    /\ WF_vars(Release)

FairSpec == Spec /\ Fairness

-----------------------------------------------------------------------------
(* Correctness *)

LineContents == [Words -> Values]
ReadSoFar == [Words -> Values \cup {Unread}]

\* The type of every variable: counters are naturals, lines hold words.
TypeOK ==
    /\ head \in Nat /\ tailCache \in Nat /\ tail \in Nat /\ headCache \in Nat
    /\ slots \in [Lines -> LineContents]
    /\ pClaimed \in BOOLEAN /\ pLine \in Lines
    /\ pMsg \in Messages /\ pTodo \in SUBSET Words
    /\ cHolds \in {"none", "poll", "peek"} /\ cLine \in Lines
    /\ cRead \in ReadSoFar /\ clearing \in BOOLEAN
    /\ sent \in Seq(Messages) /\ fate \in Seq(ReadSoFar \cup {Dropped})
    /\ crashes \in 0 .. MaxCrashes

\* The message at the head of the queue.
Oldest == sent[Len(fate) + 1]

\* The copies that preOffer and poll trust may be stale, but only on the safe
\* side: the producer never sees more room than there is, the consumer never
\* sees a message that was not offered, and the lines in use never lap.
CachesConservative ==
    /\ headCache <= head
    /\ head <= tailCache
    /\ tailCache <= tail
    /\ tail - headCache < Capacity

\* The producer and the consumer never hold the same line, although each
\* decides from a copy of the other's counter.
ExclusiveLine == pClaimed /\ cHolds # "none" => pLine # cLine

\* However the reads of poll's and peek's callers interleave with the writes
\* of the producer, every word read is that word of the oldest message.
NoTornRead ==
    cHolds # "none" =>
        \A w \in Words : cRead[w] # Unread => cRead[w] = Oldest[w]

\* Every message offered and not yet released is whole in its own line: neither
\* a later message nor a half-written one of a dead producer overwrites it.
InFlightIntact ==
    \A i \in Len(fate) + 1 .. Len(sent) :
        slots[calcElementOffset(i - 1)] = sent[i]

\* The queue implements a bounded FIFO: messages leave in the order offered,
\* as they were offered, at most Capacity - 1 are held, and only clear() loses
\* any.
Fifo == INSTANCE SpscFifo WITH
            Capacity <- Capacity, Messages <- Messages, Dropped <- Dropped,
            sent <- sent, fate <- fate
ImplementsFifo == Fifo!Spec

\* Neither side waits for ever on its stale copy: every message the producer
\* wants to send is offered and leaves the queue.
EverythingFlows == <>(Len(sent) = MaxOffers /\ Len(fate) = MaxOffers)
=============================================================================
