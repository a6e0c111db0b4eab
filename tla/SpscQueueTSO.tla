---------------------------- MODULE SpscQueueTSO ----------------------------
(***************************************************************************)
(* The queue of SpscQueue on an x86 processor.  putInt64Ordered is a plain *)
(* store behind a compiler barrier, so tail and head, like the words of a  *)
(* line, reach memory some time after the store, in the order of the       *)
(* stores; later loads of the same process do not wait for them.           *)
(*                                                                         *)
(* A process sees its own stores at once: pTail is tail as the producer    *)
(* sees it, cHead is head as the consumer sees it.  headCache and          *)
(* tailCache are only ever accessed by one process, which makes the delay  *)
(* of their stores invisible.  The consumer stores nothing else but head,  *)
(* so what it has in its buffer are the values head + 1, ..., cHead.       *)
(*                                                                         *)
(* Nothing is lost from the buffer of a process that is killed: the kernel *)
(* drains it before another process can run in its place.                  *)
(*                                                                         *)
(* sent and fate are the history of SpscFifo: a message is in the queue    *)
(* from the moment offer() returns and has left it when releaseCacheLine() *)
(* returns.                                                                *)
(***************************************************************************)
EXTENDS Integers, Sequences

CONSTANTS Capacity, Words, Values, Zero, Messages, Unread, Dropped,
          TailWord,     \* a store to tail, in the place of a word
          BufferSize,   \* bound: stores a buffer holds
          MaxOffers,    \* bound: messages offered
          MaxCrashes    \* bound: deaths of a process

ASSUME TSOAssumption ==
    /\ Capacity \in Nat /\ Capacity > 1
    /\ BufferSize \in Nat /\ MaxOffers \in Nat /\ MaxCrashes \in Nat
    /\ Messages \subseteq [Words -> Values] /\ Messages # {}
    /\ Zero \in Values /\ Unread \notin Values
    /\ TailWord \notin Words

VARIABLES
    head, tail, slots,      \* memory that both processes access
    headCache, tailCache,   \* memory of one process each
    pTail, pBuffer,         \* the producer's view of tail, its store buffer
    pClaimed, pMsg, pTodo,  \* as in SpscQueue
    cHead,                  \* the consumer's view of head
    cHolds, cRead, clearing,
    sent, fate, crashes

memory   == <<head, tail, slots>>
producer == <<headCache, pTail, pBuffer, pClaimed, pMsg, pTodo>>
consumer == <<tailCache, cHead, cHolds, cRead, clearing>>
history  == <<sent, fate, crashes>>
vars     == <<memory, producer, consumer, history>>

calcElementOffset(pos) == pos % Capacity
LooksFull_NoSpareLine(t, h) == t - h = Capacity
LooksFull(t, h) == (t + 1 - h) % Capacity = 0
LooksEmpty(h, t) == (h - t) % Capacity = 0

NothingRead == [w \in Words |-> Unread]

-----------------------------------------------------------------------------
(* The producer *)

\* What preOffer leaves as headCache: it loads head when its copy says full.
Refreshed_Never == headCache
Refreshed == IF LooksFull(pTail, headCache) THEN head ELSE headCache

PreOffer ==
    /\ ~pClaimed
    /\ Len(sent) < MaxOffers
    /\ headCache' = Refreshed
    /\ IF LooksFull(pTail, Refreshed)
       THEN UNCHANGED <<pClaimed, pMsg, pTodo>>
       ELSE pClaimed' = TRUE /\ pMsg' \in Messages /\ pTodo' = Words
    /\ UNCHANGED <<memory, pTail, pBuffer, consumer, history>>

\* A store of the producer: a word of the line at pos, or the tail pos.
Store(pos, word, value) ==
    /\ Len(pBuffer) < BufferSize
    /\ pBuffer' = Append(pBuffer, [pos |-> pos, word |-> word, value |-> value])

PutWord(w) ==
    /\ pClaimed
    /\ w \in pTodo
    /\ Store(pTail, w, pMsg[w])
    /\ pTodo' = pTodo \ {w}
    /\ UNCHANGED <<memory, headCache, pTail, pClaimed, pMsg, consumer, history>>

Offer ==
    /\ pClaimed
    /\ pTodo = {}
    /\ Store(pTail + 1, TailWord, Zero)
    /\ pTail' = pTail + 1
    /\ pClaimed' = FALSE
    /\ sent' = Append(sent, pMsg)
    /\ UNCHANGED <<memory, headCache, pMsg, pTodo, consumer, fate, crashes>>

\* Store s of the producer's buffer reaches memory.
Reaches(s) ==
    /\ IF s.word = TailWord
       THEN tail' = s.pos /\ UNCHANGED slots
       ELSE /\ slots' = [slots EXCEPT ![calcElementOffset(s.pos)][s.word] = s.value]
            /\ UNCHANGED tail
    /\ UNCHANGED <<head, headCache, pTail, pClaimed, pMsg, pTodo, consumer, history>>

DrainProducer_AnyOrder ==
    \E i \in DOMAIN pBuffer :
        /\ Reaches(pBuffer[i])
        /\ pBuffer' = SubSeq(pBuffer, 1, i - 1) \o SubSeq(pBuffer, i + 1, Len(pBuffer))

DrainProducer ==
    /\ pBuffer # <<>>
    /\ Reaches(Head(pBuffer))
    /\ pBuffer' = Tail(pBuffer)

ProducerRestart ==
    /\ crashes < MaxCrashes
    /\ crashes' = crashes + 1
    /\ pBuffer = <<>>
    /\ pClaimed' = FALSE
    /\ UNCHANGED <<memory, headCache, pTail, pBuffer, pMsg, pTodo, consumer, sent, fate>>

-----------------------------------------------------------------------------
(* The consumer *)

\* poll loads tail only when its copy says empty; an empty queue ends clear().
Poll ==
    /\ cHolds # "poll"
    /\ tailCache' = IF LooksEmpty(cHead, tailCache) THEN tail ELSE tailCache
    /\ IF LooksEmpty(cHead, tailCache')
       THEN cHolds' = "none" /\ clearing' = FALSE /\ UNCHANGED cRead
       ELSE cHolds' = "poll" /\ cRead' = NothingRead /\ UNCHANGED clearing
    /\ UNCHANGED <<memory, producer, cHead, history>>

Peek ==
    /\ cHolds = "none"
    /\ ~clearing
    /\ ~(cHead >= tailCache /\ cHead >= tail)
    /\ cHolds' = "peek"
    /\ cRead' = NothingRead
    /\ UNCHANGED <<memory, producer, tailCache, cHead, clearing, history>>

ReadWord(w) ==
    /\ cHolds # "none"
    /\ ~clearing
    /\ cRead[w] = Unread
    /\ cRead' = [cRead EXCEPT ![w] = slots[calcElementOffset(cHead)][w]]
    /\ UNCHANGED <<memory, producer, tailCache, cHead, cHolds, clearing, history>>

ReadWhole == \A w \in Words : cRead[w] # Unread

Advance ==
    /\ cHolds = "poll"
    /\ cHead - head < BufferSize
    /\ cHead' = cHead + 1
    /\ cHolds' = "none"
    /\ fate' = Append(fate, IF clearing THEN Dropped ELSE cRead)
    /\ UNCHANGED <<memory, producer, tailCache, cRead, clearing, sent, crashes>>

Release_BeforeRead == Advance
Release == (clearing \/ ReadWhole) /\ Advance

\* The oldest store of the consumer reaches memory.
DrainConsumer_Early ==
    /\ head <= cHead
    /\ head' = head + 1
    /\ UNCHANGED <<tail, slots, producer, consumer, history>>

DrainConsumer ==
    /\ head < cHead
    /\ head' = head + 1
    /\ UNCHANGED <<tail, slots, producer, consumer, history>>

Clear ==
    /\ cHolds # "poll"
    /\ ~clearing
    /\ clearing' = TRUE
    /\ cHolds' = "none"
    /\ UNCHANGED <<memory, producer, tailCache, cHead, cRead, history>>

ConsumerRestart ==
    /\ crashes < MaxCrashes
    /\ crashes' = crashes + 1
    /\ cHead = head
    /\ cHolds' = "none"
    /\ clearing' = TRUE
    /\ UNCHANGED <<memory, producer, tailCache, cHead, cRead, sent, fate>>

-----------------------------------------------------------------------------

Init ==
    /\ head = 0 /\ tail = 0 /\ headCache = 0 /\ tailCache = 0
    /\ slots = [l \in 0 .. Capacity - 1 |-> [w \in Words |-> Zero]]
    /\ pTail = 0 /\ pBuffer = <<>> /\ cHead = 0
    /\ pClaimed = FALSE /\ pTodo = {} /\ pMsg = CHOOSE m \in Messages : TRUE
    /\ cHolds = "none" /\ cRead = NothingRead /\ clearing = TRUE
    /\ sent = <<>> /\ fate = <<>> /\ crashes = 0

Next ==
    \/ PreOffer \/ Offer \/ DrainProducer \/ ProducerRestart
    \/ Poll \/ Peek \/ Release \/ Clear \/ DrainConsumer \/ ConsumerRestart
    \/ \E w \in Words : PutWord(w) \/ ReadWord(w)

Spec == Init /\ [][Next]_vars

\* As in SpscQueue; and a store does not stay in its buffer for ever.
Fairness ==
    /\ WF_vars(PreOffer) /\ WF_vars(Offer) /\ WF_vars(DrainProducer)
    /\ WF_vars(Poll) /\ WF_vars(Release) /\ WF_vars(DrainConsumer)
    /\ \A w \in Words : WF_vars(PutWord(w)) /\ WF_vars(ReadWord(w))

FairSpec == Spec /\ Fairness

-----------------------------------------------------------------------------
(* Correctness *)

\* The type of every variable.
TypeOK ==
    /\ head \in Nat /\ tail \in Nat /\ pTail \in Nat /\ cHead \in Nat
    /\ headCache \in Nat /\ tailCache \in Nat
    /\ slots \in [0 .. Capacity - 1 -> [Words -> Values]]
    /\ pBuffer \in Seq([pos: Nat, word: Words \cup {TailWord}, value: Values])
    /\ pClaimed \in BOOLEAN /\ pMsg \in Messages /\ pTodo \in SUBSET Words
    /\ cHolds \in {"none", "poll", "peek"} /\ clearing \in BOOLEAN
    /\ cRead \in [Words -> Values \cup {Unread}]
    /\ sent \in Seq(Messages)
    /\ fate \in Seq([Words -> Values] \cup {Dropped})
    /\ crashes \in 0 .. MaxCrashes

\* Six views of two counters: whatever is still in a buffer or a stale copy,
\* each process errs only towards less room or fewer messages.
ViewsConservative ==
    /\ headCache <= head /\ head <= cHead /\ cHead <= tailCache
    /\ tailCache <= tail /\ tail <= pTail
    /\ pTail - headCache < Capacity

\* A word that is still in the producer's buffer belongs to a line that memory
\* does not show as offered, and that the consumer does not hold.
NoLateWord ==
    \A i \in DOMAIN pBuffer :
        pBuffer[i].word # TailWord =>
            /\ pBuffer[i].pos >= tail
            /\ cHolds # "none" =>
                  calcElementOffset(pBuffer[i].pos) # calcElementOffset(cHead)

\* Every word the consumer reads is that word of the oldest message, although
\* the stores of words and of tail travel through a buffer.
NoTornRead ==
    cHolds # "none" =>
        \A w \in Words : cRead[w] # Unread => cRead[w] = sent[Len(fate) + 1][w]

\* With store buffers the queue still implements the bounded FIFO.
Fifo == INSTANCE SpscFifo WITH
            Capacity <- Capacity, Messages <- Messages, Dropped <- Dropped,
            sent <- sent, fate <- fate
ImplementsFifo == Fifo!Spec

\* Every message is offered and leaves the queue: no fence is needed for the
\* two sides to see each other's counters eventually.
EverythingFlows == <>(Len(sent) = MaxOffers /\ Len(fate) = MaxOffers)
=============================================================================
