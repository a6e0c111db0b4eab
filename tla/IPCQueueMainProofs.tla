------------------------- MODULE IPCQueueMainProofs -------------------------
(***************************************************************************)
(* Proofs about the test programs, for every capacity, every number of     *)
(* runs, messages, sessions and restarts.  Two ways to use them are        *)
(* covered:                                                                *)
(*   - sessions: the sink is up before the source is started, in any       *)
(*     combination of languages, and the two programs are only ever        *)
(*     stopped together;                                                   *)
(*   - restarts: the source is a Java program; either program may be       *)
(*     restarted on its own at any moment.                                 *)
(* In both, MsgQueueDisplay runs alone or never.                           *)
(***************************************************************************)
EXTENDS IPCQueueMain, RingTheorems, TLAPS

TypeInv ==
    /\ head \in Nat /\ tailCache \in Nat /\ tail \in Nat /\ headCache \in Nat
    /\ slots \in [0 .. Capacity - 1 -> Message]
    /\ SYNC \in 0 .. 3 * Runs
    /\ pc \in [Processes -> Labels]
    /\ lang \in [Processes -> Languages]
    /\ constructed \in [Processes -> BOOLEAN]
    /\ run \in [Processes -> 0 .. Runs]
    /\ i \in [Processes -> 0 .. Repetitions]
    /\ currentHead \in [Processes -> Nat] /\ loaded \in [Processes -> Nat]
    /\ expected \in Int /\ errors \in Nat /\ nextUnread \in Nat
    /\ session \in 1 .. MaxSessions /\ restarts \in 0 .. MaxRestarts

\* Inside poll() or releaseCacheLine(); with a line or on the way to one.
Polls  == {"poll", "pollCached", "pollTail", "pollStore", "pollAgain",
           "release", "releaseStore"}
Inside == {"pollCached", "pollTail", "pollStore", "pollAgain",
           "read", "release", "releaseStore"}

\* The control flow of main: who can be where, and its loop variables.
Flow(p) ==
    /\ pc[p] = "off" => ~constructed[p]
    /\ ~constructed[p] => pc[p] \in Polls \cup {"off"}
    /\ ~constructed[p] /\ pc[p] # "off" => run[p] = 0
    /\ pc[p] \in Polls => p = "sink" \/ ~constructed[p]
    /\ pc[p] = "read" => p = "sink"
    /\ pc[p] \in {"reset", "preOffer", "put", "offer"} => p = "source"
    /\ pc[p] \in {"begin", "end"} => p # "display"
    /\ pc[p] = "show" => p = "display"
    /\ pc[p] = "reset" => run[p] = 0
    /\ pc[p] \notin {"off", "done"} => run[p] < Runs
    /\ constructed[p] /\ pc[p] \in Polls \cup {"read", "preOffer", "put", "offer"} => i[p] >= 1
    /\ pc[p] = "end" => i[p] = 0

\* A display runs alone.
DisplayInv ==
    /\ Displays = "never" => pc["display"] = "off"
    /\ ~Idle("display") => Idle("source") /\ Idle("sink")

\* The counters, and what the source knows once preOffer has succeeded.
CounterInv ==
    /\ headCache <= head /\ head <= tailCache /\ tailCache <= tail
    /\ tail - headCache < Capacity
    /\ pc["source"] \in {"put", "offer"} => tail - headCache < Capacity - 1

\* What a process in poll() or releaseCacheLine() knows about them.
PollInv(p) ==
    /\ pc[p] \in Inside => currentHead[p] = head
    /\ pc[p] \in {"pollTail", "pollStore"} => tailCache = head
    /\ pc[p] = "pollStore" => loaded[p] \in head .. tail
    /\ pc[p] \in {"read", "release", "releaseStore"} => head < tailCache
    /\ pc[p] = "releaseStore" => loaded[p] = head

\* A sink has read nothing behind head, but for the line it holds.
UnreadInv ==
    /\ nextUnread <= tailCache
    /\ constructed["sink"] =>
          \/ nextUnread <= head
          \/ pc["sink"] \in {"release", "releaseStore"} /\ nextUnread <= head + 1

BaseInv ==
    /\ TypeInv
    /\ \A p \in Processes : Flow(p)
    /\ DisplayInv
    /\ CounterInv
    /\ \A p \in Processes : PollInv(p)
    /\ UnreadInv

\* Two processes are inside poll() only while there is nothing to take.
Solo ==
    \A p, q \in Processes :
        p # q /\ pc[p] \in Inside /\ pc[q] \in Inside => head = tail

\* The invariant of restarts: a Java source does not poll.
RestartInv == BaseInv /\ pc["source"] \notin Polls

-----------------------------------------------------------------------------
(* The invariant of sessions *)

SourceRuns == CompletedRuns("source")
SinkRuns   == CompletedRuns("sink")
Offered    == MessagesDone("source")
Read       == MessagesDone("sink")

SinkUp == pc["source"] # "off" => constructed["sink"]

\* No message arrives while the sink's constructor clears.
ClearInv ==
    ~constructed["sink"] =>
        /\ pc["sink"] = "pollStore" => loaded["sink"] = tail
        /\ pc["sink"] = "pollAgain" => tailCache = tail

\* The two programs are in the same run and the queue holds what one has
\* offered and the other not released; or only the source's last wait is left.
InStep ==
    constructed["sink"] =>
        \/ SourceRuns = SinkRuns /\ tail - head = Offered - Read
        \/ /\ SinkRuns = SourceRuns + 1 /\ tail = head
           /\ pc["source"] = "end" /\ pc["sink"] \in {"begin", "done"}

\* The value of SYNC tells where the source is.
SyncInv ==
    /\ pc["source"] = "begin" => SYNC = 3 * run["source"]
    /\ pc["source"] \in {"preOffer", "put", "offer"} => SYNC = 3 * run["source"] + 1
    /\ pc["source"] = "end" =>
          SYNC = 3 * run["source"] + (IF SinkRuns = SourceRuns THEN 1 ELSE 2)

\* The line at position q holds the message that is due there.
Due(q) == [value |-> Repetitions - Read - (q - head), run |-> run["source"], session |-> session]

SlotsInv ==
    /\ constructed["sink"] =>
          \A q \in head .. tail - 1 : slots[calcElementOffset(q)] = Due(q)
    /\ pc["source"] = "offer" =>
          slots[calcElementOffset(tail)] =
              [value |-> i["source"], run |-> run["source"], session |-> session]

\* The sink expects the number it is about to read.
OrderInv ==
    /\ errors = 0
    /\ expected \in -1 .. Repetitions
    /\ constructed["sink"] /\ pc["sink"] \in Polls \cup {"read"} =>
          expected = IF pc["sink"] \in {"release", "releaseStore"} THEN i["sink"] - 1 ELSE i["sink"]

SessionInv ==
    /\ BaseInv
    /\ SinkUp
    /\ ClearInv
    /\ InStep
    /\ SyncInv
    /\ SlotsInv
    /\ OrderInv

-----------------------------------------------------------------------------
(* What the actions' proofs share *)

LEMMA ProcessNames ==
    "source" \in Processes /\ "sink" \in Processes /\ "display" \in Processes
BY DEF Processes

LEMMA CounterFacts ==
    ASSUME BaseInv
    PROVE  /\ head \in Nat /\ tailCache \in Nat /\ tail \in Nat /\ headCache \in Nat
           /\ headCache <= head /\ head <= tailCache /\ tailCache <= tail
           /\ tail - headCache < Capacity /\ tail - head < Capacity
           /\ tailCache - head < Capacity
<1>1. /\ head \in Nat /\ tailCache \in Nat /\ tail \in Nat /\ headCache \in Nat
      /\ headCache <= head /\ head <= tailCache /\ tailCache <= tail
      /\ tail - headCache < Capacity
  BY DEF BaseInv, TypeInv, CounterInv
<1> QED BY <1>1, RigAssumption

\* poll's test is exact.
LEMMA EmptyIsExact ==
    ASSUME BaseInv, NEW p \in Processes, pc[p] \in Inside
    PROVE  Masked(currentHead[p] - tailCache) = 0 <=> head = tailCache
<1>1. currentHead[p] = head
  BY DEF BaseInv, PollInv
<1> QED BY <1>1, CounterFacts, RigAssumption, ModEmpty DEF Masked

\* A step of p leaves the other processes where they are.
Keeps(q) ==
    /\ pc'[q] = pc[q] /\ constructed'[q] = constructed[q]
    /\ run'[q] = run[q] /\ i'[q] = i[q]
    /\ currentHead'[q] = currentHead[q] /\ loaded'[q] = loaded[q]

LEMMA FlowKept ==
    ASSUME NEW q \in Processes, Flow(q), Keeps(q) PROVE Flow(q)'
BY DEF Flow, Keeps

LEMMA PollKept ==
    ASSUME BaseInv, NEW q \in Processes, Keeps(q), head' = head, tailCache' = tailCache,
           tail' \in Nat, tail <= tail'
    PROVE  PollInv(q)'
<1>1. PollInv(q)
  BY DEF BaseInv
<1>2. pc[q] = "pollStore" => loaded[q] \in head .. tail'
  BY <1>1, CounterFacts DEF PollInv
<1> QED BY <1>1, <1>2 DEF PollInv, Keeps

LEMMA DisplayKept ==
    ASSUME BaseInv, NEW p \in Processes, ~Idle(p), NEW where, pc' = [pc EXCEPT ![p] = where]
    PROVE  DisplayInv'
<1>1. \A q \in Processes \ {p} : pc'[q] = pc[q]
  BY DEF BaseInv, TypeInv
<1>2. DisplayInv
  BY DEF BaseInv
<1>3. CASE p = "display"
  BY <1>1, <1>2, <1>3, ProcessNames DEF DisplayInv, Idle
<1>4. CASE p # "display"
  <2>1. Idle("display")
    BY <1>2, <1>4 DEF DisplayInv, Processes
  <2> QED BY <1>1, <1>2, <1>4, <2>1, ProcessNames DEF DisplayInv, Idle
<1> QED BY <1>3, <1>4

LEMMA UnreadKept ==
    ASSUME BaseInv, UNCHANGED <<head, tailCache, nextUnread>>,
           constructed'["sink"] => constructed["sink"],
           pc["sink"] \in {"release", "releaseStore"} => pc'["sink"] \in {"release", "releaseStore"}
    PROVE  UnreadInv'
BY DEF BaseInv, UnreadInv

\* A step of p that moves no counter.
LEMMA QuietStep ==
    ASSUME BaseInv, NEW p \in Processes, ~Idle(p), NEW where,
           pc' = [pc EXCEPT ![p] = where],
           UNCHANGED <<head, tailCache, tail, headCache>>,
           \A q \in Processes \ {p} : Keeps(q),
           where \in {"put", "offer"} => pc["source"] \in {"put", "offer"},
           TypeInv', Flow(p)', PollInv(p)', UnreadInv'
    PROVE  BaseInv'
<1>1. \A q \in Processes : Flow(q)'
  BY FlowKept DEF BaseInv
<1>2. \A q \in Processes : PollInv(q)'
  BY PollKept, CounterFacts
<1>3. DisplayInv'
  BY DisplayKept
<1>4. CounterInv'
  <2>1. pc \in [Processes -> Labels]
    BY DEF BaseInv, TypeInv
  <2>2. pc'["source"] = pc["source"] \/ (p = "source" /\ pc'["source"] = where)
    BY <2>1, ProcessNames
  <2>3. pc'["source"] \in {"put", "offer"} => pc["source"] \in {"put", "offer"}
    BY <2>2
  <2> QED BY <2>3 DEF BaseInv, CounterInv
<1> QED BY <1>1, <1>2, <1>3, <1>4 DEF BaseInv

-----------------------------------------------------------------------------
(* poll and releaseCacheLine *)

LEMMA PollLoadHeadInv ==
    ASSUME BaseInv, NEW p \in Processes, PollLoadHead(p)
    PROVE  BaseInv'
<1>1. /\ pc[p] = "poll" /\ pc' = [pc EXCEPT ![p] = "pollCached"]
      /\ currentHead' = [currentHead EXCEPT ![p] = head]
      /\ UNCHANGED <<file, constructed, run, i, loaded, expected, errors, nextUnread, meta>>
  BY DEF PollLoadHead, At, Goto
<1>2. TypeInv /\ Flow(p)
  BY DEF BaseInv
<1>3. TypeInv'
  BY <1>1, <1>2 DEF TypeInv, Labels, file, meta
<1>4. /\ pc'[p] = "pollCached" /\ currentHead'[p] = head
      /\ \A q \in Processes \ {p} : Keeps(q)
  BY <1>1, <1>2 DEF TypeInv, Keeps
<1>5. Flow(p)'
  BY <1>1, <1>2, <1>4 DEF Flow, Polls
<1>6. PollInv(p)'
  BY <1>1, <1>4 DEF PollInv, Inside, file
<1>7. UnreadInv'
  BY <1>1, <1>4, ProcessNames, UnreadKept DEF Keeps, file
<1> QED BY <1>1, <1>3, <1>4, <1>5, <1>6, <1>7, QuietStep DEF Idle, file

LEMMA PollTestCacheInv ==
    ASSUME BaseInv, NEW p \in Processes, PollTestCache(p)
    PROVE  BaseInv'
<1>1. pc[p] = "pollCached" /\ UNCHANGED <<file, local, meta>>
  BY DEF PollTestCache, At
<1>2. TypeInv /\ Flow(p) /\ PollInv(p)
  BY DEF BaseInv
<1>3. PICK where \in {"pollTail", "read", "release"} :
        /\ pc' = [pc EXCEPT ![p] = where]
        /\ where = "pollTail" => head = tailCache
        /\ where # "pollTail" => head # tailCache
        /\ where = "read" => constructed[p]
        /\ where = "release" => ~constructed[p]
  BY <1>1, EmptyIsExact DEF PollTestCache, AfterFound, Goto, Inside
<1>4. TypeInv'
  BY <1>1, <1>2, <1>3 DEF TypeInv, Labels, file, local, meta
<1>5. pc'[p] = where /\ \A q \in Processes \ {p} : Keeps(q)
  BY <1>1, <1>2, <1>3 DEF TypeInv, Keeps, local
<1>6. Flow(p)'
  BY <1>1, <1>2, <1>3, <1>5 DEF Flow, Polls, local
<1>7. PollInv(p)'
  <2>1. where # "pollTail" => head < tailCache
    BY <1>3, CounterFacts
  <2> QED BY <1>1, <1>2, <1>3, <1>5, <2>1 DEF PollInv, Inside, file, local
<1>8. UnreadInv'
  BY <1>1, <1>5, ProcessNames, UnreadKept DEF Keeps, file, local
<1> QED BY <1>1, <1>3, <1>4, <1>5, <1>6, <1>7, <1>8, QuietStep DEF Idle, file

LEMMA PollLoadTailInv ==
    ASSUME BaseInv, NEW p \in Processes, PollLoadTail(p)
    PROVE  BaseInv'
<1>1. /\ pc[p] = "pollTail" /\ pc' = [pc EXCEPT ![p] = "pollStore"]
      /\ loaded' = [loaded EXCEPT ![p] = tail]
      /\ UNCHANGED <<file, constructed, run, i, currentHead, expected, errors, nextUnread, meta>>
  BY DEF PollLoadTail, At, Goto
<1>2. TypeInv /\ Flow(p) /\ PollInv(p)
  BY DEF BaseInv
<1>3. TypeInv'
  BY <1>1, <1>2 DEF TypeInv, Labels, file, meta
<1>4. /\ pc'[p] = "pollStore" /\ loaded'[p] = tail
      /\ \A q \in Processes \ {p} : Keeps(q)
  BY <1>1, <1>2 DEF TypeInv, Keeps
<1>5. Flow(p)'
  BY <1>1, <1>2, <1>4 DEF Flow, Polls
<1>6. PollInv(p)'
  <2>1. tail \in head .. tail
    BY CounterFacts
  <2> QED BY <1>1, <1>2, <1>4, <2>1 DEF PollInv, Inside, file
<1>7. UnreadInv'
  BY <1>1, <1>4, ProcessNames, UnreadKept DEF Keeps, file
<1> QED BY <1>1, <1>3, <1>4, <1>5, <1>6, <1>7, QuietStep DEF Idle, file

LEMMA PollTestAgainInv ==
    ASSUME BaseInv, NEW p \in Processes, PollTestAgain(p)
    PROVE  BaseInv'
<1>1. /\ pc[p] = "pollAgain"
      /\ UNCHANGED <<file, run, i, currentHead, loaded, expected, errors, nextUnread, meta>>
  BY DEF PollTestAgain, At
<1>2. TypeInv /\ Flow(p) /\ PollInv(p)
  BY DEF BaseInv
<1>3. p \in {"source", "sink", "display"}
  BY DEF Processes
<1>4. PICK where \in {"poll", "reset", "begin", "show", "read", "release"} :
        /\ pc' = [pc EXCEPT ![p] = where]
        /\ \/ /\ where = "poll" /\ constructed[p] /\ constructed' = constructed
           \/ /\ where \in {"reset", "begin", "show"} /\ ~constructed[p]
              /\ where = "reset" => p = "source"
              /\ where = "begin" => p = "sink"
              /\ where = "show" => p = "display"
              /\ constructed' = [constructed EXCEPT ![p] = TRUE]
              /\ head = tailCache
           \/ /\ where = "read" /\ constructed[p] /\ constructed' = constructed
              /\ head # tailCache
           \/ /\ where = "release" /\ ~constructed[p] /\ constructed' = constructed
              /\ head # tailCache
  <2>1. Masked(currentHead[p] - tailCache) = 0 <=> head = tailCache
    BY <1>1, EmptyIsExact DEF Inside
  <2> QED BY <1>3, <2>1 DEF PollTestAgain, AfterFound, AfterEmpty, AfterConstructor, Goto
<1>5. TypeInv'
  BY <1>1, <1>2, <1>4 DEF TypeInv, Labels, file, meta
<1>6. pc'[p] = where /\ \A q \in Processes \ {p} : Keeps(q)
  BY <1>1, <1>2, <1>4 DEF TypeInv, Keeps
<1>7. constructed'[p] = (where \notin {"release"})
  BY <1>2, <1>4 DEF TypeInv
<1>8. Flow(p)'
  BY <1>1, <1>2, <1>4, <1>6, <1>7 DEF Flow, Polls
<1>9. PollInv(p)'
  <2>1. where \in {"read", "release"} => head < tailCache
    BY <1>4, CounterFacts
  <2> QED BY <1>1, <1>2, <1>4, <1>6, <2>1 DEF PollInv, Inside, file
<1>10. UnreadInv'
  <2>1. CASE p = "sink" /\ head = tailCache
    BY <1>1, <2>1 DEF BaseInv, UnreadInv, file
  <2>2. CASE p = "sink" /\ head # tailCache
    BY <1>1, <1>4, <2>2, ProcessNames, UnreadKept DEF file
  <2>3. CASE p # "sink"
    BY <1>1, <1>6, <2>3, ProcessNames, UnreadKept DEF Keeps, file
  <2> QED BY <2>1, <2>2, <2>3
<1> QED BY <1>1, <1>4, <1>5, <1>6, <1>8, <1>9, <1>10, QuietStep DEF Idle, file

LEMMA ReleaseLoadHeadInv ==
    ASSUME BaseInv, NEW p \in Processes, ReleaseLoadHead(p)
    PROVE  BaseInv'
<1>1. /\ pc[p] = "release" /\ pc' = [pc EXCEPT ![p] = "releaseStore"]
      /\ loaded' = [loaded EXCEPT ![p] = head]
      /\ UNCHANGED <<file, constructed, run, i, currentHead, expected, errors, nextUnread, meta>>
  BY DEF ReleaseLoadHead, At, Goto
<1>2. TypeInv /\ Flow(p) /\ PollInv(p)
  BY DEF BaseInv
<1>3. TypeInv'
  BY <1>1, <1>2 DEF TypeInv, Labels, file, meta
<1>4. /\ pc'[p] = "releaseStore" /\ loaded'[p] = head
      /\ \A q \in Processes \ {p} : Keeps(q)
  BY <1>1, <1>2 DEF TypeInv, Keeps
<1>5. Flow(p)'
  BY <1>1, <1>2, <1>4 DEF Flow, Polls
<1>6. PollInv(p)'
  BY <1>1, <1>2, <1>4 DEF PollInv, Inside, file
<1>7. UnreadInv'
  BY <1>1, <1>4, ProcessNames, UnreadKept DEF Keeps, file
<1> QED BY <1>1, <1>3, <1>4, <1>5, <1>6, <1>7, QuietStep DEF Idle, file

\* Storing the copy of tail takes nothing away from another poll.
LEMMA PollStoreCacheInv ==
    ASSUME BaseInv, Solo, NEW p \in Processes, PollStoreCache(p)
    PROVE  BaseInv'
<1>1. /\ pc[p] = "pollStore" /\ pc' = [pc EXCEPT ![p] = "pollAgain"]
      /\ tailCache' = loaded[p]
      /\ UNCHANGED <<head, tail, headCache, slots, SYNC, local, meta>>
  BY DEF PollStoreCache, At, Goto
<1>2. TypeInv /\ Flow(p) /\ PollInv(p)
  BY DEF BaseInv
<1>3. /\ tailCache = head /\ currentHead[p] = head
      /\ tailCache' \in Nat /\ head <= tailCache' /\ tailCache' <= tail
  BY <1>1, <1>2, CounterFacts DEF PollInv, Inside
<1>4. TypeInv'
  BY <1>1, <1>2, <1>3 DEF TypeInv, Labels, local, meta
<1>5. pc'[p] = "pollAgain" /\ \A q \in Processes \ {p} : Keeps(q)
  BY <1>1, <1>2 DEF TypeInv, Keeps, local
<1>6. \A q \in Processes : Flow(q)'
  <2>1. Flow(p)'
    BY <1>1, <1>2, <1>5 DEF Flow, Polls, local
  <2> QED BY <1>5, <2>1, FlowKept DEF BaseInv
<1>7. DisplayInv'
  BY <1>1, DisplayKept DEF Idle
<1>8. CounterInv'
  <2>1. pc'["source"] \in {"put", "offer"} => pc["source"] \in {"put", "offer"}
    BY <1>1, <1>2 DEF TypeInv
  <2> QED BY <1>1, <1>3, <2>1, CounterFacts DEF BaseInv, CounterInv
<1>9. ASSUME NEW q \in Processes PROVE PollInv(q)'
  <2>1. CASE q = p
    BY <1>1, <1>3, <1>5, <2>1 DEF PollInv, Inside, local
  <2>2. CASE q # p /\ pc[q] \in Inside
    <3>1. tailCache' = tailCache
      BY <1>1, <1>3, <2>2, CounterFacts DEF Solo, Inside
    <3> QED BY <1>1, <1>5, <2>2, <3>1, PollKept, CounterFacts
  <2>3. CASE q # p /\ pc[q] \notin Inside
    BY <1>5, <2>3 DEF PollInv, Inside, Keeps
  <2> QED BY <2>1, <2>2, <2>3
<1>10. UnreadInv'
  <2>1. UnreadInv /\ nextUnread \in Nat
    BY <1>2 DEF BaseInv, TypeInv
  <2>2. pc["sink"] \in {"release", "releaseStore"} => pc'["sink"] = pc["sink"]
    BY <1>1, <1>5, ProcessNames DEF Keeps
  <2> QED BY <1>1, <1>3, <2>1, <2>2, CounterFacts DEF UnreadInv, local
<1> QED BY <1>4, <1>6, <1>7, <1>8, <1>9, <1>10 DEF BaseInv

\* Whoever releases a line is the only one inside poll().
LEMMA ReleaseStoreHeadInv ==
    ASSUME BaseInv, Solo, NEW p \in Processes, ReleaseStoreHead(p)
    PROVE  BaseInv'
<1>1. /\ pc[p] = "releaseStore" /\ head' = loaded[p] + 1
      /\ UNCHANGED <<tailCache, tail, headCache, slots, SYNC, constructed, run,
                     currentHead, loaded, expected, errors, nextUnread, meta>>
  BY DEF ReleaseStoreHead, At
<1>2. TypeInv /\ Flow(p) /\ PollInv(p)
  BY DEF BaseInv
<1>3. PICK where \in {"poll", "end"} :
        /\ pc' = [pc EXCEPT ![p] = where]
        /\ \/ /\ constructed[p] /\ i' = [i EXCEPT ![p] = @ - 1]
              /\ where = IF i[p] = 1 THEN "end" ELSE "poll"
           \/ ~constructed[p] /\ where = "poll" /\ i' = i
  BY DEF ReleaseStoreHead, Goto
<1>4. loaded[p] = head /\ head < tailCache /\ head < tail
  BY <1>1, <1>2, CounterFacts DEF PollInv
<1>5. head' = head + 1 /\ head' \in Nat /\ head' <= tailCache
  BY <1>1, <1>4, CounterFacts
<1>6. constructed[p] => i[p] \in 1 .. Repetitions /\ p = "sink"
  BY <1>1, <1>2 DEF Flow, Polls, TypeInv
<1>7. i' \in [Processes -> 0 .. Repetitions]
  <2>1. constructed[p] => i[p] - 1 \in 0 .. Repetitions
    BY <1>6, RigAssumption
  <2>2. i \in [Processes -> 0 .. Repetitions]
    BY <1>2 DEF TypeInv
  <2> QED BY <1>3, <2>1, <2>2
<1>8. TypeInv'
  BY <1>1, <1>2, <1>3, <1>5, <1>7 DEF TypeInv, Labels, meta
<1>9. pc'[p] = where /\ \A q \in Processes \ {p} : Keeps(q)
  <2>1. \A q \in Processes \ {p} : i'[q] = i[q]
    BY <1>2, <1>3 DEF TypeInv
  <2> QED BY <1>1, <1>2, <1>3, <2>1 DEF TypeInv, Keeps
<1>10. \A q \in Processes : Flow(q)'
  <2>1. constructed[p] => i'[p] = i[p] - 1
    BY <1>2, <1>3 DEF TypeInv
  <2>2. /\ constructed[p] /\ where = "poll" => i'[p] >= 1
        /\ where = "end" => i'[p] = 0 /\ constructed[p]
    BY <1>3, <1>6, <2>1
  <2>3. Flow(p)'
    BY <1>1, <1>2, <1>6, <1>9, <2>2 DEF Flow, Polls
  <2> QED BY <1>9, <2>3, FlowKept DEF BaseInv
<1>11. DisplayInv'
  BY <1>1, <1>3, DisplayKept DEF Idle
<1>12. CounterInv'
  <2>1. pc'["source"] \in {"put", "offer"} => pc["source"] \in {"put", "offer"}
    BY <1>2, <1>3 DEF TypeInv
  <2> QED BY <1>1, <1>5, <2>1, CounterFacts DEF BaseInv, CounterInv
<1>13. ASSUME NEW q \in Processes PROVE PollInv(q)'
  <2>1. CASE q = p
    BY <1>9, <2>1 DEF PollInv, Inside
  <2>2. CASE q # p
    <3>1. pc[q] \notin Inside
      BY <1>1, <1>4, <2>2, CounterFacts DEF Solo, Inside
    <3> QED BY <1>9, <2>2, <3>1 DEF PollInv, Inside, Keeps
  <2> QED BY <2>1, <2>2
<1>14. UnreadInv'
  <2>1. UnreadInv /\ nextUnread \in Nat
    BY <1>2 DEF BaseInv, TypeInv
  <2>2. nextUnread <= tailCache /\ (constructed["sink"] => nextUnread <= head + 1)
    BY <2>1, CounterFacts DEF UnreadInv
  <2> QED BY <1>1, <1>5, <2>2 DEF UnreadInv
<1> QED BY <1>8, <1>10, <1>11, <1>12, <1>13, <1>14 DEF BaseInv

-----------------------------------------------------------------------------
(* The loops of main, producerRun and consumerRun *)

\* ResetSync and ShowQueue move on and leave the counters alone.
LEMMA MoveOnInv ==
    ASSUME BaseInv, ResetSync \/ ShowQueue
    PROVE  BaseInv'
<1>1. PICK p \in {"source", "display"}, where \in {"begin", "done"} :
        /\ pc' = [pc EXCEPT ![p] = where]
        /\ \/ p = "source" /\ where = "begin" /\ pc[p] = "reset"
           \/ p = "display" /\ where = "done" /\ pc[p] = "show"
        /\ UNCHANGED <<head, tailCache, tail, headCache, slots, local, meta>>
        /\ SYNC' = 0 \/ SYNC' = SYNC
  BY DEF ResetSync, ShowQueue, At, Goto, file
<1>2. TypeInv /\ p \in Processes /\ Flow(p)
  BY DEF BaseInv, Processes
<1>3. TypeInv'
  <2>1. SYNC' \in 0 .. 3 * Runs
    BY <1>1, <1>2, RigAssumption DEF TypeInv
  <2> QED BY <1>1, <1>2, <2>1 DEF TypeInv, Labels, local, meta
<1>4. pc'[p] = where /\ \A q \in Processes \ {p} : Keeps(q)
  BY <1>1, <1>2 DEF TypeInv, Keeps, local
<1>5. Flow(p)'
  BY <1>1, <1>2, <1>4 DEF Flow, Polls, local
<1>6. PollInv(p)'
  BY <1>1, <1>4 DEF PollInv, Inside
<1>7. UnreadInv'
  BY <1>1, <1>4, ProcessNames, UnreadKept DEF Keeps, local
<1> QED BY <1>1, <1>2, <1>3, <1>4, <1>5, <1>6, <1>7, QuietStep DEF Idle

\* BeginProducerRun and BeginConsumerRun: the loop starts at Repetitions.
LEMMA BeginRunInv ==
    ASSUME BaseInv, BeginProducerRun \/ BeginConsumerRun
    PROVE  BaseInv'
<1>1. PICK p \in {"source", "sink"}, where \in {"preOffer", "poll"} :
        /\ pc' = [pc EXCEPT ![p] = where]
        /\ p = "source" <=> where = "preOffer"
        /\ pc[p] = "begin"
        /\ i' = [i EXCEPT ![p] = Repetitions]
        /\ SYNC' = 3 * run[p] + 1
        /\ expected' = expected \/ expected' = Repetitions
        /\ UNCHANGED <<head, tailCache, tail, headCache, slots, constructed, run,
                       currentHead, loaded, errors, nextUnread, meta>>
  BY DEF BeginProducerRun, BeginConsumerRun, ConsumerBegins, waitTillNextState, At, Goto
<1>2. TypeInv /\ p \in Processes /\ Flow(p)
  BY DEF BaseInv, Processes
<1>3. TypeInv'
  <2>1. run[p] < Runs /\ run[p] \in 0 .. Runs
    BY <1>1, <1>2 DEF Flow, TypeInv
  <2>2. SYNC' \in 0 .. 3 * Runs
    BY <1>1, <2>1, RigAssumption
  <2>3. i' \in [Processes -> 0 .. Repetitions] /\ expected' \in Int
    BY <1>1, <1>2, RigAssumption DEF TypeInv
  <2> QED BY <1>1, <1>2, <2>2, <2>3 DEF TypeInv, Labels, meta
<1>4. /\ pc'[p] = where /\ i'[p] = Repetitions
      /\ \A q \in Processes \ {p} : Keeps(q)
  BY <1>1, <1>2 DEF TypeInv, Keeps
<1>5. Flow(p)'
  <2>1. i'[p] >= 1 /\ constructed[p]
    BY <1>1, <1>2, <1>4, RigAssumption DEF Flow, Polls
  <2> QED BY <1>1, <1>2, <1>4, <2>1 DEF Flow, Polls
<1>6. PollInv(p)'
  BY <1>1, <1>4 DEF PollInv, Inside
<1>7. UnreadInv'
  BY <1>1, <1>4, ProcessNames, UnreadKept DEF Keeps
<1> QED BY <1>1, <1>2, <1>3, <1>4, <1>5, <1>6, <1>7, QuietStep DEF Idle

LEMMA EndRunInv ==
    ASSUME BaseInv, EndProducerRun \/ EndConsumerRun
    PROVE  BaseInv'
<1>1. PICK p \in {"source", "sink"} :
        /\ pc[p] = "end"
        /\ SYNC' = 3 * run[p] + 2 \/ SYNC' = 3 * run[p] + 3
        /\ NextRun(p)
  BY DEF EndProducerRun, EndConsumerRun, waitTillNextState, At
<1>2. PICK where \in {"begin", "done"} :
        /\ pc' = [pc EXCEPT ![p] = where]
        /\ where = "done" <=> run[p] + 1 = Runs
        /\ run' = [run EXCEPT ![p] = @ + 1]
        /\ UNCHANGED <<head, tailCache, tail, headCache, slots, constructed, i,
                       currentHead, loaded, expected, errors, nextUnread, meta>>
  BY <1>1 DEF NextRun, NextRunOf, Goto
<1>3. TypeInv /\ p \in Processes /\ Flow(p)
  BY DEF BaseInv, Processes
<1>4. run[p] < Runs /\ run[p] \in Nat /\ run[p] + 1 \in 0 .. Runs
  BY <1>1, <1>3, RigAssumption DEF Flow, TypeInv
<1>5. TypeInv'
  <2>1. SYNC' \in 0 .. 3 * Runs
    BY <1>1, <1>4, RigAssumption
  <2>2. run' \in [Processes -> 0 .. Runs]
    BY <1>2, <1>3, <1>4 DEF TypeInv
  <2> QED BY <1>2, <1>3, <2>1, <2>2 DEF TypeInv, Labels, meta
<1>6. /\ pc'[p] = where /\ run'[p] = run[p] + 1
      /\ \A q \in Processes \ {p} : Keeps(q)
  BY <1>2, <1>3 DEF TypeInv, Keeps
<1>7. Flow(p)'
  <2>1. where = "begin" => run'[p] < Runs
    BY <1>2, <1>4, <1>6, RigAssumption
  <2> QED BY <1>1, <1>2, <1>3, <1>6, <2>1 DEF Flow, Polls
<1>8. PollInv(p)'
  BY <1>6 DEF PollInv, Inside
<1>9. UnreadInv'
  BY <1>1, <1>2, <1>6, ProcessNames, UnreadKept DEF Keeps
<1> QED BY <1>1, <1>2, <1>3, <1>5, <1>6, <1>7, <1>8, <1>9, QuietStep DEF Idle

LEMMA PutInt32Inv ==
    ASSUME BaseInv, PutInt32
    PROVE  BaseInv'
<1> DEFINE m == [value |-> i["source"], run |-> run["source"], session |-> session]
<1>1. /\ pc["source"] = "put" /\ pc' = [pc EXCEPT !["source"] = "offer"]
      /\ slots' = [slots EXCEPT ![calcElementOffset(tail)] = m]
      /\ UNCHANGED <<head, tailCache, tail, headCache, SYNC, local, meta>>
  BY DEF PutInt32, At, Goto
<1>2. TypeInv /\ "source" \in Processes /\ Flow("source")
  BY ProcessNames DEF BaseInv
<1>3. m \in Message
  <2>1. /\ run["source"] \in 0 .. Runs /\ run["source"] < Runs
        /\ session \in 1 .. MaxSessions /\ i["source"] \in 0 .. Repetitions
    BY <1>1, <1>2 DEF Flow, TypeInv
  <2>2. run["source"] \in 0 .. Runs - 1 /\ session \in 0 .. MaxSessions
    BY <2>1, RigAssumption
  <2> QED BY <2>1, <2>2 DEF Message
<1>4. TypeInv'
  <2>1. slots' \in [0 .. Capacity - 1 -> Message]
    BY <1>1, <1>2, <1>3 DEF TypeInv
  <2> QED BY <1>1, <1>2, <2>1 DEF TypeInv, Labels, local, meta
<1>5. pc'["source"] = "offer" /\ \A q \in Processes \ {"source"} : Keeps(q)
  BY <1>1, <1>2 DEF TypeInv, Keeps, local
<1>6. Flow("source")'
  BY <1>1, <1>2, <1>5 DEF Flow, Polls, local
<1>7. PollInv("source")'
  BY <1>5 DEF PollInv, Inside
<1>8. UnreadInv'
  BY <1>1, <1>5, ProcessNames, UnreadKept DEF Keeps, local
<1> QED BY <1>1, <1>2, <1>4, <1>5, <1>6, <1>7, <1>8, QuietStep DEF Idle

LEMMA GetInt32Inv ==
    ASSUME BaseInv, GetInt32
    PROVE  BaseInv'
<1>1. /\ pc["sink"] = "read" /\ pc' = [pc EXCEPT !["sink"] = "release"]
      /\ errors' = errors \/ errors' = errors + 1
      /\ expected' = expected - 1 \/ expected' = Result.value - 1
      /\ nextUnread' = currentHead["sink"] + 1
      /\ UNCHANGED <<file, constructed, run, i, currentHead, loaded, meta>>
  BY DEF GetInt32, At, Goto
<1>2. TypeInv /\ "sink" \in Processes /\ Flow("sink") /\ PollInv("sink")
  BY ProcessNames DEF BaseInv
<1>3. currentHead["sink"] = head /\ head < tailCache
  BY <1>1, <1>2 DEF PollInv, Inside
<1>4. TypeInv'
  <2>1. Result.value \in Int
    <3>1. calcElementOffset(currentHead["sink"]) \in 0 .. Capacity - 1
      BY <1>3, CounterFacts, RigAssumption, ModInRange DEF calcElementOffset, Masked
    <3> QED BY <1>2, <3>1 DEF TypeInv, Result, Message
  <2>2. expected' \in Int /\ errors' \in Nat /\ nextUnread' \in Nat
    BY <1>1, <1>2, <1>3, <2>1 DEF TypeInv
  <2> QED BY <1>1, <1>2, <2>2 DEF TypeInv, Labels, file, meta
<1>5. pc'["sink"] = "release" /\ \A q \in Processes \ {"sink"} : Keeps(q)
  BY <1>1, <1>2 DEF TypeInv, Keeps
<1>6. Flow("sink")'
  BY <1>1, <1>2, <1>5 DEF Flow, Polls
<1>7. PollInv("sink")'
  BY <1>1, <1>2, <1>3, <1>5 DEF PollInv, Inside, file
<1>8. UnreadInv'
  <2>1. nextUnread' <= tailCache /\ nextUnread' <= head + 1
    BY <1>1, <1>3, CounterFacts
  <2> QED BY <1>1, <1>5, <2>1 DEF UnreadInv, file
<1> QED BY <1>1, <1>2, <1>4, <1>5, <1>6, <1>7, <1>8, QuietStep DEF Idle, file

LEMMA PreOfferInv ==
    ASSUME BaseInv, PreOffer
    PROVE  BaseInv'
<1>1. /\ pc["source"] = "preOffer"
      /\ headCache' = headCache \/ headCache' = head
      /\ Masked(tail + 1 - headCache') = 0 => pc' = pc
      /\ Masked(tail + 1 - headCache') # 0 => pc' = [pc EXCEPT !["source"] = "put"]
      /\ UNCHANGED <<head, tailCache, tail, slots, SYNC, local, meta>>
  BY DEF PreOffer, At, Goto
<1>2. TypeInv /\ "source" \in Processes /\ Flow("source")
  BY ProcessNames DEF BaseInv
<1>3. PICK where \in {"preOffer", "put"} :
        /\ pc' = [pc EXCEPT !["source"] = where]
        /\ where = "put" => Masked(tail + 1 - headCache') # 0
  BY <1>1, <1>2 DEF TypeInv
<1>4. headCache' \in Nat /\ headCache' <= head /\ tail - headCache' < Capacity
  BY <1>1, CounterFacts
<1>5. TypeInv'
  BY <1>1, <1>2, <1>3, <1>4 DEF TypeInv, Labels, local, meta
<1>6. pc'["source"] = where /\ \A q \in Processes \ {"source"} : Keeps(q)
  BY <1>1, <1>2, <1>3 DEF TypeInv, Keeps, local
<1>7. \A q \in Processes : Flow(q)'
  <2>1. Flow("source")'
    BY <1>1, <1>2, <1>6 DEF Flow, Polls, local
  <2> QED BY <1>6, <2>1, FlowKept DEF BaseInv
<1>8. DisplayInv'
  BY <1>1, <1>2, <1>3, DisplayKept DEF Idle
<1>9. CounterInv'
  <2>1. where = "put" => tail - headCache' # Capacity - 1
    <3>1. headCache' <= tail
      BY <1>4, CounterFacts
    <3> QED BY <1>3, <1>4, <3>1, CounterFacts, RigAssumption, ModFull DEF Masked
  <2>2. where = "put" => tail - headCache' < Capacity - 1
    BY <1>4, <2>1, CounterFacts, RigAssumption
  <2> QED BY <1>1, <1>4, <1>6, <2>2, CounterFacts DEF CounterInv
<1>10. \A q \in Processes : PollInv(q)'
  <2>1. PollInv("source")'
    BY <1>6 DEF PollInv, Inside
  <2> QED BY <1>1, <1>6, <2>1, PollKept, CounterFacts
<1>11. UnreadInv'
  BY <1>1, <1>6, ProcessNames, UnreadKept DEF Keeps, local
<1> QED BY <1>5, <1>7, <1>8, <1>9, <1>10, <1>11 DEF BaseInv

LEMMA OfferInv ==
    ASSUME BaseInv, Offer
    PROVE  BaseInv'
<1>1. /\ pc["source"] = "offer" /\ tail' = tail + 1
      /\ i' = [i EXCEPT !["source"] = @ - 1]
      /\ pc' = [pc EXCEPT !["source"] = IF i["source"] = 1 THEN "end" ELSE "preOffer"]
      /\ UNCHANGED <<head, tailCache, headCache, slots, SYNC, constructed, run,
                     currentHead, loaded, expected, errors, nextUnread, meta>>
  BY DEF Offer, At, Goto
<1>2. TypeInv /\ "source" \in Processes /\ Flow("source")
  BY ProcessNames DEF BaseInv
<1>3. constructed["source"] /\ i["source"] \in 1 .. Repetitions
  BY <1>1, <1>2 DEF Flow, Polls, TypeInv
<1>4. /\ pc'["source"] = IF i["source"] = 1 THEN "end" ELSE "preOffer"
      /\ i'["source"] = i["source"] - 1
      /\ \A q \in Processes \ {"source"} : Keeps(q)
  BY <1>1, <1>2 DEF TypeInv, Keeps
<1>5. TypeInv'
  <2>1. i["source"] - 1 \in 0 .. Repetitions
    BY <1>3, RigAssumption
  <2>2. i' \in [Processes -> 0 .. Repetitions] /\ tail' \in Nat
    BY <1>1, <1>2, <2>1 DEF TypeInv
  <2>3. pc' \in [Processes -> Labels]
    BY <1>1, <1>2 DEF TypeInv, Labels
  <2> QED BY <1>1, <1>2, <2>2, <2>3 DEF TypeInv, meta
<1>6. \A q \in Processes : Flow(q)'
  <2>1. /\ pc'["source"] = "end" => i'["source"] = 0
        /\ pc'["source"] # "end" => pc'["source"] = "preOffer" /\ i'["source"] >= 1
    BY <1>3, <1>4
  <2>2. Flow("source")'
    BY <1>1, <1>2, <1>3, <2>1 DEF Flow, Polls
  <2> QED BY <1>4, <2>2, FlowKept DEF BaseInv
<1>7. DisplayInv'
  BY <1>1, <1>2, DisplayKept DEF Idle
<1>8. CounterInv'
  <2>1. tail - headCache < Capacity - 1
    BY <1>1 DEF BaseInv, CounterInv
  <2>2. pc'["source"] \notin {"put", "offer"}
    BY <1>4
  <2> QED BY <1>1, <2>1, <2>2, CounterFacts, RigAssumption DEF CounterInv
<1>9. \A q \in Processes : PollInv(q)'
  <2>1. PollInv("source")'
    BY <1>4 DEF PollInv, Inside
  <2> QED BY <1>1, <1>4, <2>1, PollKept, CounterFacts
<1>10. UnreadInv'
  BY <1>1, <1>4, ProcessNames, UnreadKept DEF Keeps
<1> QED BY <1>5, <1>6, <1>7, <1>8, <1>9, <1>10 DEF BaseInv

-----------------------------------------------------------------------------
(* Starting and stopping the programs *)

\* A program starts beside others only if none of them is a display, and a
\* display starts only alone.
LEMMA StartInv ==
    ASSUME Displays # "any", BaseInv, NEW p \in Processes, NEW l \in Languages,
           p = "display" => Displays # "never", Start(p, l)
    PROVE  BaseInv'
<1>1. PICK where \in {"poll", "reset", "begin", "show"} :
        /\ pc[p] = "off" /\ pc' = [pc EXCEPT ![p] = where]
        /\ lang' = [lang EXCEPT ![p] = l]
        /\ run' = [run EXCEPT ![p] = 0]
        /\ constructed' = [constructed EXCEPT ![p] = (where # "poll")]
        /\ where = "reset" => p = "source"
        /\ where # "poll" => where = "reset"
        /\ UNCHANGED <<file, i, currentHead, loaded, expected, errors, nextUnread,
                       session, restarts>>
  <2>1. p \in {"source", "sink", "display"}
    BY DEF Processes
  <2> QED BY <2>1 DEF Start, ConstructorClears, AfterConstructor, At, Goto
<1>2. TypeInv /\ DisplayInv /\ CounterInv
  BY DEF BaseInv
<1>3. TypeInv'
  <2>1. run' \in [Processes -> 0 .. Runs] /\ constructed' \in [Processes -> BOOLEAN]
    BY <1>1, <1>2, RigAssumption DEF TypeInv
  <2> QED BY <1>1, <1>2, <2>1 DEF TypeInv, Labels, file
<1>4. /\ pc'[p] = where /\ run'[p] = 0 /\ constructed'[p] = (where # "poll")
      /\ \A q \in Processes \ {p} : Keeps(q)
  BY <1>1, <1>2 DEF TypeInv, Keeps
<1>5. \A q \in Processes : Flow(q)'
  <2>1. Flow(p)'
    <3>1. run'[p] = 0 /\ 0 < Runs
      BY <1>4, RigAssumption
    <3>2. CASE where = "poll"
      <4>1. pc'[p] = "poll" /\ ~constructed'[p]
        BY <1>4, <3>2
      <4> QED BY <3>1, <4>1 DEF Flow, Polls
    <3>3. CASE where = "reset"
      <4>1. pc'[p] = "reset" /\ constructed'[p] /\ p = "source"
        BY <1>1, <1>4, <3>3
      <4> QED BY <3>1, <4>1 DEF Flow, Polls
    <3> QED BY <1>1, <3>2, <3>3
  <2> QED BY <1>4, <2>1, FlowKept DEF BaseInv
<1>6. DisplayInv'
  <2>1. CASE p = "display"
    <3>1. Displays = "alone"
      BY <2>1, RigAssumption
    <3>2. Idle("source") /\ Idle("sink")
      BY <2>1, <3>1 DEF Start, Processes
    <3> QED BY <1>4, <2>1, <3>1, <3>2 DEF DisplayInv, Idle, Keeps, Processes
  <2>2. CASE p # "display"
    <3>1. pc'["display"] = pc["display"]
      BY <1>4, <2>2 DEF Keeps, Processes
    <3>2. Idle("display")
      <4>1. CASE Displays = "never"
        BY <1>2, <4>1 DEF DisplayInv, Idle
      <4>2. CASE Displays = "alone"
        BY <2>2, <4>2 DEF Start, Processes
      <4> QED BY <4>1, <4>2, RigAssumption
    <3> QED BY <1>2, <3>1, <3>2 DEF DisplayInv, Idle
  <2> QED BY <2>1, <2>2
<1>7. CounterInv'
  <2>1. pc'["source"] \in {"put", "offer"} => pc["source"] \in {"put", "offer"}
    BY <1>1, <1>2 DEF TypeInv
  <2> QED BY <1>1, <1>2, <2>1 DEF CounterInv, file
<1>8. \A q \in Processes : PollInv(q)'
  <2>1. PollInv(p)'
    BY <1>4 DEF PollInv, Inside
  <2> QED BY <1>1, <1>4, <2>1, PollKept, CounterFacts DEF file
<1>9. UnreadInv'
  <2>1. pc["sink"] \in {"release", "releaseStore"} => pc'["sink"] = pc["sink"]
    BY <1>1, <1>4, ProcessNames DEF Keeps
  <2>2. constructed'["sink"] => constructed["sink"]
    BY <1>1, <1>4, ProcessNames DEF Keeps
  <2> QED BY <1>1, <2>1, <2>2, UnreadKept DEF file
<1> QED BY <1>3, <1>5, <1>6, <1>7, <1>8, <1>9 DEF BaseInv

\* NewSession and Restart: some processes are gone, the file is as they left it.
LEMMA StopInv ==
    ASSUME BaseInv, NewSession \/ \E p \in Restarting : Restart(p)
    PROVE  BaseInv'
<1>1. TypeInv /\ DisplayInv /\ CounterInv /\ UnreadInv
  BY DEF BaseInv
<1>2. UNCHANGED <<file, lang, run, i, currentHead, loaded, expected, nextUnread>>
  BY DEF NewSession, Restart
<1>3. ASSUME NEW q \in Processes
      PROVE  \/ pc'[q] = pc[q] /\ constructed'[q] = constructed[q]
             \/ pc'[q] = "off" /\ ~constructed'[q]
  <2>1. CASE NewSession
    BY <2>1 DEF NewSession
  <2>2. ASSUME NEW p \in Restarting, Restart(p)
        PROVE  \/ pc'[q] = pc[q] /\ constructed'[q] = constructed[q]
               \/ pc'[q] = "off" /\ ~constructed'[q]
    BY <1>1, <2>2 DEF Restart, Goto, TypeInv
  <2> QED BY <2>1, <2>2
<1>4. TypeInv'
  <2>1. CASE NewSession
    <3>1. session' \in 1 .. MaxSessions
      BY <1>1, <2>1, RigAssumption DEF NewSession, TypeInv
    <3>2. pc' \in [Processes -> Labels] /\ constructed' \in [Processes -> BOOLEAN]
      BY <2>1 DEF NewSession, Labels
    <3> QED BY <1>1, <1>2, <2>1, <3>1, <3>2 DEF NewSession, TypeInv, file
  <2>2. ASSUME NEW p \in Restarting, Restart(p) PROVE TypeInv'
    <3>1. restarts' \in 0 .. MaxRestarts
      BY <1>1, <2>2, RigAssumption DEF Restart, TypeInv
    <3>2. pc' \in [Processes -> Labels] /\ constructed' \in [Processes -> BOOLEAN]
      BY <1>1, <2>2 DEF Restart, Goto, TypeInv, Labels
    <3> QED BY <1>1, <1>2, <2>2, <3>1, <3>2 DEF Restart, TypeInv, file
  <2> QED BY <2>1, <2>2
<1>5. ASSUME NEW q \in Processes PROVE Flow(q)' /\ PollInv(q)'
  <2>1. Flow(q) /\ PollInv(q)
    BY DEF BaseInv
  <2>2. CASE pc'[q] = pc[q] /\ constructed'[q] = constructed[q]
    BY <1>2, <2>1, <2>2 DEF Flow, PollInv, file
  <2>3. CASE pc'[q] = "off" /\ ~constructed'[q]
    BY <2>3 DEF Flow, PollInv, Polls, Inside
  <2> QED BY <1>3, <2>2, <2>3
<1>6. DisplayInv'
  BY <1>1, <1>3, ProcessNames DEF DisplayInv, Idle
<1>7. CounterInv'
  <2>1. pc'["source"] \in {"put", "offer"} => pc["source"] \in {"put", "offer"}
    BY <1>3, ProcessNames
  <2> QED BY <1>1, <1>2, <2>1 DEF CounterInv, file
<1>8. UnreadInv'
  BY <1>1, <1>2, <1>3, ProcessNames DEF UnreadInv, file
<1> QED BY <1>4, <1>5, <1>6, <1>7, <1>8 DEF BaseInv

-----------------------------------------------------------------------------

LEMMA InitBaseInv == Init => BaseInv
<1> SUFFICES ASSUME Init PROVE BaseInv
  OBVIOUS
<1>1. Blank \in Message
  BY RigAssumption DEF Blank, Message
<1>2. TypeInv
  BY <1>1, RigAssumption DEF Init, TypeInv, Labels, Languages
<1>3. \A p \in Processes : pc[p] = "off" /\ ~constructed[p]
  BY DEF Init
<1>4. \A p \in Processes : Flow(p) /\ PollInv(p)
  BY <1>3 DEF Flow, PollInv, Polls, Inside
<1>5. DisplayInv /\ UnreadInv
  BY <1>3, ProcessNames DEF Init, DisplayInv, Idle, UnreadInv
<1>6. CounterInv
  BY <1>3, ProcessNames, RigAssumption DEF Init, CounterInv
<1> QED BY <1>2, <1>4, <1>5, <1>6 DEF BaseInv

LEMMA NextBaseInv ==
    ASSUME Displays # "any", BaseInv, Solo, [Next]_vars
    PROVE  BaseInv'
<1>1. ASSUME NEW p \in Processes, QueueStep(p) PROVE BaseInv'
  BY <1>1, PollLoadHeadInv, PollTestCacheInv, PollLoadTailInv, PollStoreCacheInv,
     PollTestAgainInv, ReleaseLoadHeadInv, ReleaseStoreHeadInv DEF QueueStep
<1>2. CASE SourceStep
  BY <1>1, <1>2, ProcessNames, MoveOnInv, BeginRunInv, EndRunInv, PreOfferInv, PutInt32Inv,
     OfferInv DEF SourceStep
<1>3. CASE SinkStep
  BY <1>1, <1>3, ProcessNames, BeginRunInv, EndRunInv, GetInt32Inv DEF SinkStep
<1>4. CASE DisplayStep
  BY <1>1, <1>4, ProcessNames, MoveOnInv DEF DisplayStep
<1>5. CASE StartSource \/ StartSink \/ StartDisplay
  BY <1>5, ProcessNames, RigAssumption, StartInv
     DEF StartSource, StartSink, StartDisplay, Languages
<1>6. CASE NewSession \/ \E p \in Restarting : Restart(p)
  BY <1>6, StopInv
<1>7. CASE UNCHANGED vars
  <2>1. UNCHANGED <<file, pc, local, meta>>
    BY <1>7 DEF vars
  <2>2. TypeInv' /\ DisplayInv' /\ CounterInv' /\ UnreadInv'
    BY <2>1 DEF BaseInv, TypeInv, DisplayInv, Idle, CounterInv, UnreadInv, file, local, meta
  <2>3. \A p \in Processes : Flow(p)' /\ PollInv(p)'
    BY <2>1 DEF BaseInv, Flow, PollInv, file, local
  <2> QED BY <2>2, <2>3 DEF BaseInv
<1> QED BY <1>2, <1>3, <1>4, <1>5, <1>6, <1>7 DEF Next

-----------------------------------------------------------------------------
(* Restarts of a Java source and any sink *)

LEMMA SoloInRestarts == RestartInv => Solo
<1> SUFFICES ASSUME RestartInv, NEW p \in Processes, NEW q \in Processes,
                    p # q, pc[p] \in Inside, pc[q] \in Inside
             PROVE  FALSE
  BY DEF Solo
<1>1. BaseInv /\ pc["source"] \notin Polls /\ Flow("source") /\ DisplayInv
  BY ProcessNames DEF RestartInv, BaseInv
<1>2. pc["source"] \notin Inside
  BY <1>1 DEF Inside, Polls, Flow
<1>3. pc["display"] \in Inside => pc["sink"] \notin Inside
  BY <1>1 DEF DisplayInv, Idle, Inside
<1> QED BY <1>2, <1>3 DEF Processes

\* The source's place in a step: only its own steps and starts move it.
LEMMA NextRestartInv ==
    ASSUME Displays # "any", SourceLangs \subseteq {"java"}, RestartInv, [Next]_vars
    PROVE  RestartInv'
<1>1. BaseInv /\ TypeInv /\ pc["source"] \notin Polls
  BY DEF RestartInv, BaseInv
<1>2. BaseInv'
  BY <1>1, SoloInRestarts, NextBaseInv
<1> SUFFICES pc'["source"] \notin Polls
  BY <1>2 DEF RestartInv
<1>3. ASSUME NEW p \in Processes, p # "source", NEW where, pc' = [pc EXCEPT ![p] = where]
      PROVE  pc'["source"] = pc["source"]
  BY <1>1, <1>3, ProcessNames DEF TypeInv
<1>4. ASSUME NEW p \in Processes, QueueStep(p) PROVE pc'["source"] = pc["source"]
  <2>1. p # "source"
    BY <1>1, <1>4 DEF QueueStep, PollLoadHead, PollTestCache, PollLoadTail, PollStoreCache,
       PollTestAgain, ReleaseLoadHead, ReleaseStoreHead, At, Polls
  <2>2. \E where : pc' = [pc EXCEPT ![p] = where]
    BY <1>4 DEF QueueStep, PollLoadHead, PollTestCache, PollLoadTail, PollStoreCache,
       PollTestAgain, ReleaseLoadHead, ReleaseStoreHead, AfterFound, AfterEmpty, Goto
  <2> QED BY <1>3, <2>1, <2>2
<1>5. CASE SourceStep
  <2>1. CASE QueueStep("source")
    BY <1>1, <1>4, <2>1, ProcessNames
  <2>2. CASE ~QueueStep("source")
    <3>1. \/ pc' = pc
          \/ \E where \in {"begin", "preOffer", "put", "offer", "end", "done"} :
                pc' = [pc EXCEPT !["source"] = where]
      BY <1>5, <2>2 DEF SourceStep, ResetSync, BeginProducerRun, PreOffer, PutInt32, Offer,
         EndProducerRun, NextRun, NextRunOf, Goto
    <3> QED BY <1>1, <3>1, ProcessNames DEF TypeInv, Polls
  <2> QED BY <2>1, <2>2
<1>6. ASSUME SinkStep \/ DisplayStep PROVE pc'["source"] = pc["source"]
  <2>1. CASE QueueStep("sink") \/ QueueStep("display")
    BY <1>4, <2>1, ProcessNames
  <2>2. CASE BeginConsumerRun \/ GetInt32 \/ EndConsumerRun \/ ShowQueue
    <3>1. \E p \in {"sink", "display"} : \E where : pc' = [pc EXCEPT ![p] = where]
      BY <2>2 DEF BeginConsumerRun, ConsumerBegins, GetInt32, EndConsumerRun, NextRun,
         NextRunOf, ShowQueue, Goto
    <3> QED BY <1>3, <3>1 DEF Processes
  <2> QED BY <1>6, <2>1, <2>2 DEF SinkStep, DisplayStep
<1>7. CASE StartSource
  <2>1. pc' = [pc EXCEPT !["source"] = "reset"]
    BY <1>7 DEF StartSource, Start, ConstructorClears, AfterConstructor, Goto
  <2> QED BY <1>1, <2>1, ProcessNames DEF TypeInv, Polls
<1>8. CASE StartSink \/ StartDisplay
  <2>1. \E p \in {"sink", "display"} : \E where : pc' = [pc EXCEPT ![p] = where]
    BY <1>8 DEF StartSink, StartDisplay, Start, Goto
  <2> QED BY <1>1, <1>3, <2>1 DEF Processes
<1>9. CASE NewSession \/ \E p \in Restarting : Restart(p)
  <2>1. pc'["source"] \in {pc["source"], "off"}
    BY <1>1, <1>9, ProcessNames DEF NewSession, Restart, Goto, TypeInv
  <2> QED BY <1>1, <2>1 DEF Polls
<1>10. CASE UNCHANGED vars
  BY <1>1, <1>10 DEF vars
<1> QED BY <1>1, <1>5, <1>6, <1>7, <1>8, <1>9, <1>10 DEF Next

LEMMA AlwaysRestartInv ==
    ASSUME Displays # "any", SourceLangs \subseteq {"java"}
    PROVE  Spec => []RestartInv
<1>1. Init => RestartInv
  <2>1. Init => pc["source"] = "off"
    BY ProcessNames DEF Init
  <2> QED BY <2>1, InitBaseInv DEF RestartInv, Polls
<1>2. RestartInv /\ [Next]_vars => RestartInv'
  BY NextRestartInv
<1> QED BY <1>1, <1>2, PTL DEF Spec

LEMMA BaseIsInOrder == BaseInv => CountersInOrder /\ AtMostOnce
<1> SUFFICES ASSUME BaseInv PROVE CountersInOrder /\ AtMostOnce
  OBVIOUS
<1>1. CountersInOrder
  BY CounterFacts DEF CountersInOrder
<1>2. AtMostOnce
  <2> SUFFICES ASSUME pc["sink"] = "read" PROVE currentHead["sink"] >= nextUnread
    BY DEF AtMostOnce, At
  <2>1. currentHead["sink"] = head /\ constructed["sink"] /\ nextUnread \in Nat
    BY ProcessNames DEF BaseInv, PollInv, Inside, Flow, Polls, TypeInv
  <2> QED BY <2>1, CounterFacts DEF BaseInv, UnreadInv
<1> QED BY <1>1, <1>2

\* Polling when there is nothing to take leaves head and tailCache as they are.
LEMMA PollLeavesHead ==
    ASSUME BaseInv, NEW p \in Processes, pc[p] \in Polls => head = tail, QueueStep(p)
    PROVE  UNCHANGED <<head, tailCache>> /\ ~ReleaseStoreHead(p)
<1>1. PollInv(p)
  BY DEF BaseInv
<1>2. CASE PollStoreCache(p)
  <2>1. pc[p] = "pollStore" /\ tailCache' = loaded[p] /\ head' = head
    BY <1>2 DEF PollStoreCache, At
  <2>2. head = tail /\ tailCache = head /\ loaded[p] \in head .. tail
    BY <1>1, <2>1 DEF PollInv, Polls
  <2> QED BY <2>1, <2>2, CounterFacts DEF ReleaseStoreHead, At
<1>3. ~ReleaseStoreHead(p)
  <2> SUFFICES ASSUME pc[p] = "releaseStore" PROVE FALSE
    BY DEF ReleaseStoreHead, At
  <2>1. head = tail /\ head < tailCache
    BY <1>1 DEF PollInv, Polls
  <2> QED BY <2>1, CounterFacts
<1>4. CASE ~PollStoreCache(p)
  BY <1>3, <1>4 DEF QueueStep, PollLoadHead, PollTestCache, PollLoadTail,
     PollTestAgain, ReleaseLoadHead, file
<1> QED BY <1>2, <1>4

LEMMA SourceLeavesHead ==
    ASSUME BaseInv, pc["source"] \in Polls => head = tail, SourceStep
    PROVE  UNCHANGED <<head, tailCache>>
<1>1. CASE QueueStep("source")
  BY <1>1, ProcessNames, PollLeavesHead
<1>2. CASE ~QueueStep("source")
  BY <1>2 DEF SourceStep, ResetSync, BeginProducerRun, PreOffer, PutInt32, Offer,
     EndProducerRun, NextRun, NextRunOf
<1> QED BY <1>1, <1>2

\* With a Java source the counters never cross or lap, however the programs are
\* restarted and whichever is up first.
THEOREM RestartsKeepCounters ==
    ASSUME Displays # "any", SourceLangs \subseteq {"java"}
    PROVE  Spec => []CountersInOrder
<1>1. RestartInv => CountersInOrder
  BY BaseIsInOrder DEF RestartInv
<1> QED BY <1>1, AlwaysRestartInv, PTL

\* With a Java source no message is read twice: what a sink has read but not
\* released, the constructor of its successor clears.
THEOREM RestartsReadOnce ==
    ASSUME Displays # "any", SourceLangs \subseteq {"java"}
    PROVE  Spec => []AtMostOnce
<1>1. RestartInv => AtMostOnce
  BY BaseIsInOrder DEF RestartInv
<1> QED BY <1>1, AlwaysRestartInv, PTL

\* A Java source leaves head and tailCache to the consumer, as the queue's
\* description says, even when it is restarted beside a running sink.
THEOREM RestartsKeepOwner ==
    ASSUME Displays # "any", SourceLangs \subseteq {"java"}
    PROVE  Spec => ConsumerOwnsHead
<1>1. RestartInv /\ [Next]_vars => [SourceStep => UNCHANGED <<head, tailCache>>]_vars
  BY SourceLeavesHead DEF RestartInv
<1> QED BY <1>1, AlwaysRestartInv, PTL DEF Spec, ConsumerOwnsHead

-----------------------------------------------------------------------------
(* Sessions: what the actions' proofs share *)

\* Both programs are as far as they were.
SameProgress ==
    /\ SourceRuns' = SourceRuns /\ SinkRuns' = SinkRuns
    /\ Offered' = Offered /\ Read' = Read

LEMMA DoneFacts ==
    ASSUME BaseInv, NEW p \in Processes
    PROVE  /\ MessagesDone(p) \in 0 .. Repetitions
           /\ CompletedRuns(p) \in Nat
           /\ ~constructed[p] => MessagesDone(p) = 0 /\ CompletedRuns(p) = 0
           /\ pc[p] \in {"reset", "begin", "done"} => MessagesDone(p) = 0
           /\ constructed[p] => CompletedRuns(p) = run[p]
           /\ constructed[p] /\ pc[p] \notin {"reset", "begin", "done"} =>
                 MessagesDone(p) = Repetitions - i[p]
<1>1. i[p] \in 0 .. Repetitions /\ run[p] \in Nat /\ Repetitions \in Nat
  BY RigAssumption DEF BaseInv, TypeInv
<1> QED BY <1>1 DEF MessagesDone, CompletedRuns

LEMMA DoneKept ==
    ASSUME NEW p \in Processes, Keeps(p)
    PROVE  MessagesDone(p)' = MessagesDone(p) /\ CompletedRuns(p)' = CompletedRuns(p)
BY DEF MessagesDone, CompletedRuns, Keeps

\* A source that has offered nothing in this run leaves the queue empty.
LEMMA NothingOffered ==
    ASSUME SessionInv, constructed["sink"], Offered = 0, pc["source"] # "end"
    PROVE  head = tail /\ tailCache = tail /\ Read = 0 /\ SourceRuns = SinkRuns
<1>1. SourceRuns = SinkRuns /\ tail - head = Offered - Read
  BY DEF SessionInv, InStep
<1>2. BaseInv /\ Read \in 0 .. Repetitions
  BY DoneFacts, ProcessNames DEF SessionInv, Read
<1> QED BY <1>1, <1>2, CounterFacts

LEMMA SourcePollsEmpty ==
    ASSUME SessionInv, pc["source"] \in Polls
    PROVE  head = tail /\ tailCache = tail /\ constructed["sink"] /\ ~constructed["source"]
<1>1. BaseInv /\ constructed["sink"]
  BY DEF SessionInv, SinkUp, Polls
<1>2. ~constructed["source"]
  BY <1>1, ProcessNames DEF BaseInv, Flow
<1>3. Offered = 0 /\ pc["source"] # "end"
  BY <1>1, <1>2, DoneFacts, ProcessNames DEF Offered, Polls
<1> QED BY <1>1, <1>2, <1>3, NothingOffered

LEMMA SoloInSessions == SessionInv => Solo
<1> SUFFICES ASSUME SessionInv, NEW p \in Processes, NEW q \in Processes,
                    p # q, pc[p] \in Inside, pc[q] \in Inside
             PROVE  head = tail
  BY DEF Solo
<1>1. BaseInv /\ Flow("source") /\ DisplayInv
  BY ProcessNames DEF SessionInv, BaseInv
<1>2. pc["display"] \in Inside => pc["sink"] \notin Inside /\ pc["source"] \notin Inside
  BY <1>1 DEF DisplayInv, Idle, Inside
<1>3. pc["source"] \in Inside
  BY <1>2 DEF Processes
<1>4. pc["source"] \in Polls
  BY <1>1, <1>3 DEF Inside, Polls, Flow
<1> QED BY <1>4, SourcePollsEmpty

\* What a step of poll() or releaseCacheLine() leaves alone, and where it goes.
LEMMA QueueStepFrame ==
    ASSUME BaseInv, NEW p \in Processes, QueueStep(p)
    PROVE  /\ UNCHANGED <<tail, headCache, slots, SYNC, run, expected, errors, nextUnread, meta>>
           /\ pc[p] \in Polls
           /\ \A q \in Processes \ {p} : Keeps(q)
           /\ pc'[p] \in Polls \cup {"read", "end", AfterConstructor(p)}
           /\ ~ReleaseStoreHead(p) => pc'[p] # "end" /\ UNCHANGED <<head, i>>
<1>1. TypeInv
  BY DEF BaseInv
<1>2. p \in {"source", "sink", "display"}
  BY DEF Processes
<1>3. CASE PollLoadHead(p)
  BY <1>1, <1>3 DEF PollLoadHead, TypeInv, At, Goto, Keeps, Polls, file
<1>4. CASE PollTestCache(p)
  BY <1>1, <1>4 DEF PollTestCache, AfterFound, TypeInv, At, Goto, Keeps, Polls, file, local
<1>5. CASE PollLoadTail(p)
  BY <1>1, <1>5 DEF PollLoadTail, TypeInv, At, Goto, Keeps, Polls, file
<1>6. CASE PollStoreCache(p)
  BY <1>1, <1>6 DEF PollStoreCache, TypeInv, At, Goto, Keeps, Polls, local
<1>7. CASE PollTestAgain(p)
  BY <1>1, <1>2, <1>7 DEF PollTestAgain, AfterFound, AfterEmpty, AfterConstructor, TypeInv,
     At, Goto, Keeps, Polls, file
<1>8. CASE ReleaseLoadHead(p)
  BY <1>1, <1>8 DEF ReleaseLoadHead, TypeInv, At, Goto, Keeps, Polls, file
<1>9. CASE ReleaseStoreHead(p)
  BY <1>1, <1>9 DEF ReleaseStoreHead, TypeInv, At, Goto, Keeps, Polls
<1> QED BY <1>3, <1>4, <1>5, <1>6, <1>7, <1>8, <1>9 DEF QueueStep

\* SYNC, the lines and the numbers stay right when nothing they speak of moves.
LEMMA SyncKept ==
    ASSUME SyncInv, SYNC' = SYNC, Keeps("source"), SinkRuns' = SinkRuns
    PROVE  SyncInv'
<1>1. SourceRuns' = SourceRuns
  BY DoneKept, ProcessNames DEF SourceRuns
<1> QED BY <1>1 DEF SyncInv, Keeps

LEMMA SlotsKept ==
    ASSUME SlotsInv, UNCHANGED <<head, tail, slots, session>>, Keeps("source"),
           constructed'["sink"] => constructed["sink"], Read' = Read
    PROVE  SlotsInv'
BY DEF SlotsInv, Due, Keeps

LEMMA OrderKept ==
    ASSUME OrderInv, UNCHANGED <<expected, errors>>, Keeps("sink")
    PROVE  OrderInv'
BY DEF OrderInv, Keeps

LEMMA ClearKept ==
    ASSUME ClearInv, UNCHANGED <<tailCache, tail>>, Keeps("sink")
    PROVE  ClearInv'
BY DEF ClearInv, Keeps

\* A queue with nothing in it between two programs in the same run.
LEMMA EmptyInStep ==
    ASSUME BaseInv, head = tail, UNCHANGED <<head, tail>>,
           SourceRuns' = SinkRuns', Offered' = 0, Read' = 0, pc'["source"] # "offer"
    PROVE  InStep' /\ SlotsInv'
<1>1. tail' - head' = 0 /\ Offered' - Read' = 0
  BY CounterFacts
<1>2. InStep'
  BY <1>1 DEF InStep
<1>3. \A q \in head' .. tail' - 1 : FALSE
  BY CounterFacts
<1>4. \A q \in head' .. tail' - 1 : slots'[calcElementOffset(q)] = Due(q)'
  BY <1>3
<1> QED BY <1>2, <1>4 DEF SlotsInv

-----------------------------------------------------------------------------
(* Sessions: the source's constructor and the display *)

LEMMA SourceQueueStep ==
    ASSUME SessionInv, BaseInv', QueueStep("source")
    PROVE  SessionInv' /\ SameProgress
<1>1. BaseInv /\ "source" \in Processes /\ "sink" \in Processes /\ TypeInv'
  BY ProcessNames DEF SessionInv, BaseInv
<1>2. pc["source"] \in Polls
  BY <1>1, QueueStepFrame
<1>3. /\ head = tail /\ tailCache = tail /\ constructed["sink"] /\ ~constructed["source"]
  BY <1>2, SourcePollsEmpty
<1>4. UNCHANGED <<head, tailCache, tail>> /\ ~ReleaseStoreHead("source")
  BY <1>1, <1>3, PollLeavesHead, QueueStepFrame
<1>5. /\ UNCHANGED <<slots, SYNC, run, expected, errors, meta>> /\ Keeps("sink")
      /\ pc'["source"] \in Polls \cup {"read", "reset"}
  BY <1>1, <1>4, QueueStepFrame DEF AfterConstructor
<1>6. pc'["source"] # "read" /\ Flow("source")'
  BY <1>1 DEF BaseInv, Flow
<1>7. SourceRuns' = 0 /\ Offered' = 0
  <2>1. CASE pc'["source"] = "reset"
    BY <1>6, <2>1 DEF Flow, SourceRuns, Offered, CompletedRuns, MessagesDone
  <2>2. CASE pc'["source"] \in Polls
    BY <1>6, <2>2 DEF Flow, SourceRuns, Offered, CompletedRuns, MessagesDone
  <2> QED BY <1>5, <1>6, <2>1, <2>2
<1>8. SinkRuns' = 0 /\ Read' = 0 /\ SameProgress
  <2>1. SourceRuns = 0 /\ Offered = 0 /\ pc["source"] # "end"
    BY <1>1, <1>2, <1>3, DoneFacts DEF SourceRuns, Offered, Polls
  <2>2. SinkRuns = 0 /\ Read = 0
    BY <1>3, <2>1, NothingOffered
  <2> QED BY <1>1, <1>5, <1>7, <2>1, <2>2, DoneKept DEF SinkRuns, Read, SameProgress
<1>9. InStep' /\ SlotsInv'
  BY <1>1, <1>3, <1>4, <1>5, <1>7, <1>8, EmptyInStep DEF Polls
<1>10. SinkUp' /\ ClearInv'
  BY <1>3, <1>5 DEF SinkUp, ClearInv, Keeps
<1>11. SyncInv'
  BY <1>5 DEF SyncInv, Polls
<1>12. OrderInv'
  BY <1>5, OrderKept DEF SessionInv
<1> QED BY <1>8, <1>9, <1>10, <1>11, <1>12 DEF SessionInv

\* A display that finds both programs done finds nothing to clear.
LEMMA DisplayStepInSession ==
    ASSUME SessionInv, BaseInv', DisplayStep
    PROVE  SessionInv' /\ SameProgress
<1>1. BaseInv /\ "source" \in Processes /\ "sink" \in Processes /\ "display" \in Processes
  BY ProcessNames DEF SessionInv
<1>2. /\ UNCHANGED <<tail, slots, SYNC, run, expected, errors, session>>
      /\ Keeps("source") /\ Keeps("sink") /\ pc["display"] \in Polls \cup {"show"}
  <2>1. CASE QueueStep("display")
    BY <1>1, <2>1, QueueStepFrame DEF meta
  <2>2. CASE ShowQueue
    BY <1>1, <2>2 DEF ShowQueue, BaseInv, TypeInv, At, Goto, Keeps, file, local, meta
  <2> QED BY <2>1, <2>2 DEF DisplayStep
<1>3. pc["source"] \in {"off", "done"} /\ pc["sink"] \in {"off", "done"}
  BY <1>1, <1>2 DEF BaseInv, DisplayInv, Idle, Polls
<1>4. /\ SourceRuns' = SourceRuns /\ SinkRuns' = SinkRuns
      /\ Offered' = Offered /\ Read' = Read /\ Offered = 0
  BY <1>1, <1>2, <1>3, DoneKept, DoneFacts DEF SourceRuns, SinkRuns, Offered, Read, BaseInv, Flow
<1>5. SinkUp' /\ SyncInv' /\ OrderInv'
  BY <1>2, <1>4, SyncKept, OrderKept DEF SessionInv, SinkUp, Keeps
<1>6. ClearInv'
  BY <1>2, <1>3 DEF ClearInv, Keeps
<1>7. InStep' /\ SlotsInv'
  <2>1. CASE constructed["sink"]
    <3>1. head = tail
      BY <1>3, <1>4, <2>1, NothingOffered
    <3>2. head' = head
      <4>1. CASE QueueStep("display")
        BY <1>1, <3>1, <4>1, PollLeavesHead
      <4>2. CASE ShowQueue
        BY <4>2 DEF ShowQueue, file
      <4> QED BY <4>1, <4>2 DEF DisplayStep
    <3>3. InStep'
      BY <1>2, <1>4, <3>2 DEF SessionInv, InStep, Keeps
    <3> QED BY <1>2, <1>4, <3>2, <3>3, SlotsKept DEF SessionInv, Keeps
  <2>2. CASE ~constructed["sink"]
    BY <1>2, <1>3, <2>2 DEF InStep, SlotsInv, Keeps
  <2> QED BY <2>1, <2>2
<1> QED BY <1>4, <1>5, <1>6, <1>7 DEF SessionInv, SameProgress

-----------------------------------------------------------------------------
(* Sessions: the sink *)

\* The sink's constructor is alone with the queue and leaves it empty.
LEMMA SinkClears ==
    ASSUME SessionInv, BaseInv', QueueStep("sink"), ~constructed["sink"]
    PROVE  SessionInv' /\ SameProgress
<1>1. /\ BaseInv /\ "source" \in Processes /\ "sink" \in Processes
      /\ TypeInv /\ TypeInv' /\ PollInv("sink") /\ Flow("sink") /\ Flow("source") /\ ClearInv
  BY ProcessNames DEF SessionInv, BaseInv
<1>2. /\ UNCHANGED <<tail, slots, SYNC, run, expected, errors, meta>> /\ Keeps("source")
      /\ pc["sink"] \in Polls
  BY <1>1, QueueStepFrame
<1>3. pc["source"] = "off" /\ pc'["source"] = "off" /\ ~constructed["source"]
  BY <1>1, <1>2 DEF SessionInv, SinkUp, Flow, Keeps
<1>4. SinkUp' /\ SyncInv'
  BY <1>3 DEF SinkUp, SyncInv
<1>5. CASE PollTestAgain("sink") /\ constructed'["sink"]
  <2>1. /\ pc["sink"] = "pollAgain" /\ head = tailCache /\ pc'["sink"] = "begin"
        /\ UNCHANGED <<head, tail>>
    <3>1. /\ pc["sink"] = "pollAgain" /\ UNCHANGED <<head, tail>>
          /\ Masked(currentHead["sink"] - tailCache) = 0
          /\ pc' = [pc EXCEPT !["sink"] = "begin"]
      BY <1>5 DEF PollTestAgain, AfterEmpty, AfterConstructor, At, Goto, file
    <3> QED BY <1>1, <3>1, EmptyIsExact DEF TypeInv, Inside
  <2>2. head = tail
    BY <1>1, <2>1 DEF ClearInv
  <2>3. /\ SourceRuns' = 0 /\ Offered' = 0 /\ SinkRuns' = 0 /\ Read' = 0
    BY <1>1, <1>2, <1>3, <1>5, <2>1
       DEF SourceRuns, Offered, SinkRuns, Read, CompletedRuns, MessagesDone, Flow, Keeps
  <2>4. InStep' /\ SlotsInv'
    BY <1>1, <1>3, <2>1, <2>2, <2>3, EmptyInStep
  <2>5. ClearInv' /\ OrderInv'
    BY <1>2, <1>5, <2>1 DEF ClearInv, SessionInv, OrderInv, Polls
  <2>6. SourceRuns = 0 /\ Offered = 0 /\ SinkRuns = 0 /\ Read = 0
    BY <1>1, <1>3, DoneFacts DEF SourceRuns, Offered, SinkRuns, Read
  <2> QED BY <1>4, <2>3, <2>4, <2>5, <2>6 DEF SessionInv, SameProgress
<1>6. CASE ~constructed'["sink"]
  <2>1. InStep' /\ SlotsInv' /\ OrderInv'
    BY <1>2, <1>3, <1>6 DEF InStep, SlotsInv, SessionInv, OrderInv
  <2>2. /\ pc'["sink"] = "pollStore" => loaded'["sink"] = tail
        /\ pc'["sink"] = "pollAgain" => tailCache' = tail
    BY <1>1 DEF QueueStep, PollLoadHead, PollTestCache, PollLoadTail, PollStoreCache,
       PollTestAgain, ReleaseLoadHead, ReleaseStoreHead, AfterFound, AfterEmpty,
       AfterConstructor, At, Goto, TypeInv, ClearInv
  <2>3. SameProgress
    BY <1>1, <1>2, <1>6, DoneKept
       DEF SameProgress, SourceRuns, Offered, SinkRuns, Read, CompletedRuns, MessagesDone
  <2> QED BY <1>2, <1>4, <2>1, <2>2, <2>3 DEF SessionInv, ClearInv
<1>7. PollTestAgain("sink") \/ ~constructed'["sink"]
  BY DEF QueueStep, PollLoadHead, PollTestCache, PollLoadTail, PollStoreCache,
     ReleaseLoadHead, ReleaseStoreHead, local
<1> QED BY <1>5, <1>6, <1>7

\* A sink inside consumerRun is in the run the source is in.
LEMMA SinkInRun ==
    ASSUME SessionInv, constructed["sink"], pc["sink"] \in Polls \cup {"read", "end"}
    PROVE  /\ SourceRuns = SinkRuns /\ tail - head = Offered - Read
           /\ Read = Repetitions - i["sink"] /\ SinkRuns = run["sink"]
           /\ Offered \in 0 .. Repetitions /\ Read \in 0 .. Repetitions
<1>1. SourceRuns = SinkRuns /\ tail - head = Offered - Read
  BY DEF SessionInv, InStep, Polls
<1> QED BY <1>1, DoneFacts, ProcessNames DEF SessionInv, Read, SinkRuns, Offered, Polls

LEMMA SinkPolls ==
    ASSUME SessionInv, BaseInv', QueueStep("sink"), constructed["sink"],
           ~ReleaseStoreHead("sink")
    PROVE  SessionInv' /\ SameProgress
<1>1. /\ BaseInv /\ "source" \in Processes /\ "sink" \in Processes /\ TypeInv
  BY ProcessNames DEF SessionInv, BaseInv
<1>2. /\ UNCHANGED <<head, tail, slots, SYNC, run, i, expected, errors, meta>>
      /\ Keeps("source") /\ pc["sink"] \in Polls
  BY <1>1, QueueStepFrame
<1>3. /\ constructed'["sink"] /\ pc'["sink"] \in Polls \cup {"read"}
      /\ pc'["sink"] \in {"release", "releaseStore"} <=> pc["sink"] \in {"release", "releaseStore"}
  BY <1>1 DEF QueueStep, PollLoadHead, PollTestCache, PollLoadTail, PollStoreCache,
     PollTestAgain, ReleaseLoadHead, AfterFound, AfterEmpty, At, Goto, TypeInv, Polls, local
<1>4. SinkRuns' = SinkRuns /\ Read' = Read
  BY <1>2, <1>3 DEF SinkRuns, Read, CompletedRuns, MessagesDone, Polls
<1>5. SourceRuns' = SourceRuns /\ Offered' = Offered
  BY <1>1, <1>2, DoneKept DEF SourceRuns, Offered
<1>6. InStep'
  BY <1>2, <1>4, <1>5, SinkInRun DEF InStep
<1>7. SyncInv' /\ SlotsInv'
  BY <1>2, <1>4, SyncKept, SlotsKept DEF SessionInv, meta
<1>8. OrderInv'
  BY <1>2, <1>3 DEF SessionInv, OrderInv
<1> QED BY <1>2, <1>3, <1>4, <1>5, <1>6, <1>7, <1>8
        DEF SessionInv, SinkUp, ClearInv, SameProgress

LEMMA SinkReleases ==
    ASSUME SessionInv, BaseInv', ReleaseStoreHead("sink"), constructed["sink"]
    PROVE  /\ SessionInv'
           /\ SourceRuns = SinkRuns /\ Read < Offered /\ Read' = Read + 1
           /\ SourceRuns' = SourceRuns /\ SinkRuns' = SinkRuns /\ Offered' = Offered
<1>1. /\ BaseInv /\ "source" \in Processes /\ "sink" \in Processes /\ TypeInv
      /\ PollInv("sink") /\ Flow("sink") /\ CounterInv
  BY ProcessNames DEF SessionInv, BaseInv
<1>2. /\ pc["sink"] = "releaseStore" /\ head' = loaded["sink"] + 1
      /\ i' = [i EXCEPT !["sink"] = @ - 1]
      /\ pc' = [pc EXCEPT !["sink"] = IF i["sink"] = 1 THEN "end" ELSE "poll"]
      /\ UNCHANGED <<tailCache, tail, headCache, slots, SYNC, constructed, run,
                     currentHead, loaded, expected, errors, nextUnread, meta>>
  BY DEF ReleaseStoreHead, At, Goto
<1>3. head' = head + 1 /\ head < tail
  BY <1>1, <1>2, CounterFacts DEF PollInv
<1>4. /\ i'["sink"] = i["sink"] - 1 /\ i["sink"] \in 0 .. Repetitions /\ Keeps("source")
      /\ pc'["sink"] = IF i["sink"] = 1 THEN "end" ELSE "poll"
  BY <1>1, <1>2 DEF TypeInv, Keeps
<1>5. SinkRuns' = SinkRuns /\ Read' = Repetitions - i'["sink"]
  BY <1>2, <1>4 DEF SinkRuns, Read, CompletedRuns, MessagesDone
<1>6. Read' = Read + 1
  BY <1>2, <1>4, <1>5, SinkInRun, RigAssumption DEF Polls
<1>7. SourceRuns' = SourceRuns /\ Offered' = Offered
  BY <1>1, <1>4, DoneKept DEF SourceRuns, Offered
<1>8. InStep'
  <2>1. SourceRuns = SinkRuns /\ tail - head = Offered - Read
    BY <1>2, SinkInRun DEF Polls
  <2>2. tail - head' = Offered - Read'
    BY <1>1, <1>2, <1>3, <1>6, <2>1, SinkInRun, CounterFacts DEF Polls
  <2> QED BY <1>2, <1>5, <1>7, <2>1, <2>2 DEF InStep
<1>9. SyncInv'
  BY <1>2, <1>4, <1>5, SyncKept DEF SessionInv
<1>10. SlotsInv'
  <2>1. ASSUME NEW q \in head' .. tail' - 1 PROVE slots'[calcElementOffset(q)] = Due(q)'
    <3>1. q \in head .. tail - 1
      BY <1>1, <1>2, <1>3, <2>1, CounterFacts
    <3>2. Repetitions - Read' - (q - head') = Repetitions - Read - (q - head)
      BY <1>1, <1>2, <1>3, <1>6, <3>1, SinkInRun, RigAssumption, CounterFacts DEF Polls
    <3>3. slots[calcElementOffset(q)] = Due(q)
      BY <3>1 DEF SessionInv, SlotsInv
    <3> QED BY <1>2, <3>2, <3>3 DEF Due, meta
  <2>2. pc'["source"] = "offer" => pc["source"] = "offer" /\ i'["source"] = i["source"]
    BY <1>4 DEF Keeps
  <2> QED BY <1>2, <2>1, <2>2 DEF SessionInv, SlotsInv, meta
<1>11. OrderInv'
  <2>1. expected = i["sink"] - 1 /\ expected \in -1 .. Repetitions /\ errors = 0
    BY <1>2 DEF SessionInv, OrderInv, Polls
  <2> QED BY <1>2, <1>4, <2>1 DEF OrderInv, Polls
<1>12. SinkUp' /\ ClearInv'
  BY <1>2 DEF SinkUp, ClearInv
<1>13. SourceRuns = SinkRuns /\ Read < Offered
  BY <1>1, <1>2, <1>3, SinkInRun, CounterFacts DEF Polls
<1> QED BY <1>5, <1>6, <1>7, <1>13, <1>8, <1>9, <1>10, <1>11, <1>12 DEF SessionInv

\* What the sink reads is what it is due: the message at head is of this run.
LEMMA SessionReads == SessionInv => ReadsThisRun
<1> SUFFICES ASSUME SessionInv, pc["sink"] = "read"
             PROVE  Result = [value |-> i["sink"], run |-> run["sink"], session |-> session]
  BY DEF ReadsThisRun, At
<1>1. BaseInv /\ "source" \in Processes /\ "sink" \in Processes
  BY ProcessNames DEF SessionInv
<1>2. constructed["sink"] /\ currentHead["sink"] = head /\ head < tail
  <2>1. Flow("sink") /\ PollInv("sink")
    BY <1>1 DEF BaseInv
  <2> QED BY <1>1, <2>1, CounterFacts DEF Flow, PollInv, Polls, Inside
<1>3. Result = Due(head)
  <2>1. head \in head .. tail - 1
    BY <1>1, <1>2, CounterFacts
  <2> QED BY <1>2, <2>1 DEF SessionInv, SlotsInv, Result
<1>4. Repetitions - Read - (head - head) = i["sink"]
  <2>1. i["sink"] \in Nat
    BY <1>1 DEF BaseInv, TypeInv
  <2> QED BY <1>1, <1>2, <2>1, SinkInRun, CounterFacts, RigAssumption
<1>5. run["source"] = run["sink"]
  <2>1. Offered # 0
    BY <1>1, <1>2, SinkInRun, CounterFacts
  <2> QED BY <1>1, <1>2, <2>1, SinkInRun, DoneFacts DEF SourceRuns, Offered
<1> QED BY <1>3, <1>4, <1>5 DEF Due

LEMMA SinkReads ==
    ASSUME SessionInv, BaseInv', GetInt32
    PROVE  SessionInv' /\ SameProgress
<1>1. /\ BaseInv /\ "source" \in Processes /\ "sink" \in Processes
      /\ TypeInv /\ Flow("sink")
  BY ProcessNames DEF SessionInv, BaseInv
<1>2. pc["sink"] = "read"
  BY DEF GetInt32, At
<1>3. constructed["sink"] /\ i["sink"] >= 1 /\ i["sink"] \in 0 .. Repetitions
  BY <1>1, <1>2 DEF Flow, Polls, TypeInv
<1>4. expected = i["sink"] /\ errors = 0
  BY <1>2, <1>3 DEF SessionInv, OrderInv
<1>5. ~OutOfOrder
  <2>1. Result.value = i["sink"]
    BY <1>2, SessionReads DEF ReadsThisRun, At
  <2> QED BY <1>4, <2>1 DEF OutOfOrder
<1>6. /\ pc' = [pc EXCEPT !["sink"] = "release"]
      /\ errors' = errors /\ expected' = expected - 1
      /\ UNCHANGED <<file, constructed, run, i, currentHead, loaded, meta>>
  BY <1>5 DEF GetInt32, Goto
<1>7. pc'["sink"] = "release" /\ Keeps("source")
  BY <1>1, <1>6 DEF TypeInv, Keeps
<1>8. SinkRuns' = SinkRuns /\ Read' = Read
  BY <1>2, <1>6, <1>7 DEF SinkRuns, Read, CompletedRuns, MessagesDone
<1>9. SourceRuns' = SourceRuns /\ Offered' = Offered
  BY <1>1, <1>7, DoneKept DEF SourceRuns, Offered
<1>10. InStep'
  BY <1>2, <1>3, <1>6, <1>8, <1>9, SinkInRun DEF InStep, file
<1>11. SyncInv' /\ SlotsInv'
  BY <1>6, <1>7, <1>8, SyncKept, SlotsKept DEF SessionInv, file, meta
<1>12. OrderInv'
  <2>1. expected' = i["sink"] - 1 /\ expected' \in -1 .. Repetitions
    BY <1>3, <1>4, <1>6, RigAssumption
  <2> QED BY <1>4, <1>6, <1>7, <2>1 DEF OrderInv
<1> QED BY <1>3, <1>6, <1>8, <1>9, <1>10, <1>11, <1>12
        DEF SessionInv, SinkUp, ClearInv, SameProgress

\* The runs and messages behind a source that has come out of its constructor.
LEMMA SourceInRun ==
    ASSUME SessionInv, pc["source"] \in {"reset", "begin", "preOffer", "put", "offer", "end"}
    PROVE  /\ constructed["source"] /\ constructed["sink"]
           /\ SourceRuns = run["source"] /\ run["source"] \in Nat /\ SinkRuns \in Nat
           /\ i["source"] \in 0 .. Repetitions /\ Read \in 0 .. Repetitions
           /\ Offered = IF pc["source"] \in {"reset", "begin"} THEN 0 ELSE Repetitions - i["source"]
<1>1. BaseInv /\ TypeInv /\ Flow("source") /\ constructed["sink"]
  BY ProcessNames DEF SessionInv, SinkUp, BaseInv
<1>2. constructed["source"]
  BY <1>1 DEF Flow, Polls
<1>3. run["source"] \in Nat /\ i["source"] \in 0 .. Repetitions
  BY <1>1, ProcessNames DEF TypeInv
<1> QED BY <1>1, <1>2, <1>3, DoneFacts, ProcessNames
        DEF SourceRuns, SinkRuns, Offered, Read

\* The sink begins a run after the source has begun it: SYNC says so.
LEMMA SinkBegins ==
    ASSUME SessionInv, BaseInv', BeginConsumerRun
    PROVE  SessionInv' /\ SameProgress
<1>1. /\ BaseInv /\ "source" \in Processes /\ "sink" \in Processes
      /\ TypeInv /\ Flow("sink")
  BY ProcessNames DEF SessionInv, BaseInv
<1>2. /\ pc["sink"] = "begin" /\ pc' = [pc EXCEPT !["sink"] = "poll"]
      /\ SYNC = 3 * run["sink"] + 1 /\ SYNC' = SYNC
      /\ i' = [i EXCEPT !["sink"] = Repetitions] /\ expected' = Repetitions
      /\ UNCHANGED <<head, tailCache, tail, headCache, slots, constructed, run,
                     currentHead, loaded, errors, nextUnread, meta>>
  BY DEF BeginConsumerRun, ConsumerBegins, waitTillNextState, At, Goto
<1>3. constructed["sink"] /\ run["sink"] \in Nat
  BY <1>1, <1>2 DEF Flow, Polls, TypeInv
<1>4. pc'["sink"] = "poll" /\ i'["sink"] = Repetitions /\ Keeps("source")
  BY <1>1, <1>2 DEF TypeInv, Keeps
<1>5. SinkRuns' = SinkRuns /\ Read' = Read
  <2>1. Read = 0 /\ Read' = Repetitions - Repetitions
    BY <1>2, <1>3, <1>4 DEF Read, MessagesDone
  <2> QED BY <1>2, <2>1, RigAssumption DEF SinkRuns, CompletedRuns
<1>6. SourceRuns = SinkRuns /\ tail - head = Offered - Read
  <2>1. SUFFICES ASSUME SinkRuns = SourceRuns + 1, pc["source"] = "end" PROVE FALSE
    BY <1>3 DEF SessionInv, InStep
  <2>2. SourceRuns = run["source"] /\ run["source"] \in Nat
    BY <2>1, SourceInRun
  <2>3. SinkRuns = run["sink"]
    BY <1>3 DEF SinkRuns, CompletedRuns
  <2>4. SYNC = 3 * run["source"] + 2
    BY <2>1, <2>2 DEF SessionInv, SyncInv
  <2> QED BY <1>2, <1>3, <2>1, <2>2, <2>3, <2>4
<1>7. SourceRuns' = SourceRuns /\ Offered' = Offered
  BY <1>1, <1>4, DoneKept DEF SourceRuns, Offered
<1>8. InStep'
  BY <1>2, <1>5, <1>6, <1>7 DEF InStep
<1>9. SyncInv' /\ SlotsInv'
  BY <1>2, <1>4, <1>5, SyncKept, SlotsKept DEF SessionInv, meta
<1>10. OrderInv'
  <2>1. Repetitions \in -1 .. Repetitions
    BY RigAssumption
  <2> QED BY <1>2, <1>4, <2>1 DEF SessionInv, OrderInv
<1> QED BY <1>2, <1>3, <1>5, <1>7, <1>8, <1>9, <1>10
        DEF SessionInv, SinkUp, ClearInv, SameProgress

\* When the sink has read all of a run, the source has offered it and waits.
LEMMA SinkEndsRun ==
    ASSUME SessionInv, BaseInv', EndConsumerRun
    PROVE  /\ SessionInv'
           /\ SourceRuns = SinkRuns /\ Read = Repetitions
           /\ SinkRuns' = SinkRuns + 1 /\ Read' = 0
           /\ SourceRuns' = SourceRuns /\ Offered' = Offered
<1>1. /\ BaseInv /\ "source" \in Processes /\ "sink" \in Processes
      /\ TypeInv /\ Flow("sink") /\ Flow("source")
  BY ProcessNames DEF SessionInv, BaseInv
<1>2. /\ pc["sink"] = "end" /\ SYNC' = 3 * run["sink"] + 2
      /\ run' = [run EXCEPT !["sink"] = @ + 1]
      /\ pc' = [pc EXCEPT !["sink"] = IF run["sink"] + 1 = Runs THEN "done" ELSE "begin"]
      /\ UNCHANGED <<head, tailCache, tail, headCache, slots, constructed, i,
                     currentHead, loaded, expected, errors, nextUnread, meta>>
  BY DEF EndConsumerRun, NextRun, NextRunOf, waitTillNextState, At, Goto
<1>3. constructed["sink"] /\ i["sink"] = 0 /\ run["sink"] \in Nat
  BY <1>1, <1>2 DEF Flow, Polls, TypeInv
<1>4. /\ pc'["sink"] \in {"begin", "done"} /\ run'["sink"] = run["sink"] + 1
      /\ Keeps("source")
  BY <1>1, <1>2 DEF TypeInv, Keeps
<1>5. /\ SourceRuns = SinkRuns /\ SinkRuns = run["sink"] /\ Read = Repetitions
      /\ Offered = Repetitions /\ head = tail
  BY <1>1, <1>2, <1>3, SinkInRun, CounterFacts, RigAssumption
<1>6. constructed["source"] /\ pc["source"] \notin {"reset", "begin", "done"}
      /\ Offered = Repetitions - i["source"] /\ i["source"] \in Nat
  <2>1. Offered # 0
    BY <1>5, RigAssumption
  <2> QED BY <1>1, <2>1, DoneFacts DEF Offered, TypeInv
<1>7. pc["source"] = "end"
  <2>1. i["source"] = 0
    BY <1>5, <1>6, RigAssumption
  <2>2. pc["source"] \in Labels
    BY <1>1 DEF TypeInv
  <2> QED BY <1>1, <1>6, <2>1, <2>2 DEF Flow, Polls, Labels
<1>8. SinkRuns' = SinkRuns + 1 /\ Read' = 0
  BY <1>2, <1>3, <1>4 DEF SinkRuns, Read, CompletedRuns, MessagesDone
<1>9. SourceRuns' = SourceRuns /\ SourceRuns = run["source"] /\ SourceRuns \in Nat
  BY <1>1, <1>4, <1>7, DoneKept, SourceInRun DEF SourceRuns
<1>10. InStep'
  BY <1>2, <1>4, <1>5, <1>7, <1>8, <1>9 DEF InStep, Keeps
<1>11. SyncInv'
  <2>1. SinkRuns' # SourceRuns'
    BY <1>5, <1>8, <1>9
  <2>2. pc'["source"] = "end" /\ run'["source"] = run["source"]
    BY <1>4, <1>7 DEF Keeps
  <2> QED BY <1>2, <1>5, <1>9, <2>1, <2>2 DEF SyncInv
<1>12. SlotsInv'
  <2>1. \A q \in head' .. tail' - 1 : FALSE
    BY <1>1, <1>2, <1>5, CounterFacts
  <2>2. pc'["source"] # "offer"
    BY <1>4, <1>7 DEF Keeps
  <2>3. \A q \in head' .. tail' - 1 : slots'[calcElementOffset(q)] = Due(q)'
    BY <2>1
  <2> QED BY <2>2, <2>3 DEF SlotsInv
<1>13. OrderInv'
  BY <1>2, <1>4 DEF SessionInv, OrderInv, Polls
<1>14. Offered' = Offered
  BY <1>1, <1>4, DoneKept DEF Offered
<1> QED BY <1>2, <1>3, <1>5, <1>8, <1>9, <1>10, <1>11, <1>12, <1>13, <1>14
        DEF SessionInv, SinkUp, ClearInv

-----------------------------------------------------------------------------
(* Sessions: the source *)

\* A step of the source leaves the sink's view alone.
LEMMA SinkUndisturbed ==
    ASSUME SessionInv, constructed["sink"], Keeps("sink"),
           UNCHANGED <<expected, errors>>
    PROVE  SinkUp' /\ ClearInv' /\ OrderInv' /\ SinkRuns' = SinkRuns /\ Read' = Read
BY DoneKept, OrderKept, ProcessNames
   DEF SessionInv, SinkUp, ClearInv, Keeps, SinkRuns, Read

\* ResetSync and BeginProducerRun: nothing is offered yet.
LEMMA SourceBegins ==
    ASSUME SessionInv, BaseInv', ResetSync \/ BeginProducerRun
    PROVE  SessionInv' /\ SameProgress
<1>1. /\ BaseInv /\ "source" \in Processes /\ "sink" \in Processes
      /\ TypeInv /\ Flow("source")
  BY ProcessNames DEF SessionInv, BaseInv
<1>2. /\ UNCHANGED <<head, tail, slots, run, constructed, expected, errors, meta>>
      /\ pc["source"] \in {"reset", "begin"} /\ Keeps("sink")
      /\ \/ /\ pc["source"] = "reset" /\ SYNC' = 0 /\ pc'["source"] = "begin"
         \/ /\ SYNC' = 3 * run["source"] + 1 /\ i'["source"] = Repetitions
            /\ pc'["source"] = "preOffer"
  BY <1>1 DEF ResetSync, BeginProducerRun, waitTillNextState, At, Goto, TypeInv, Keeps, local
<1>3. constructed["source"] /\ constructed["sink"] /\ Offered = 0 /\ pc["source"] # "end"
  BY <1>2, SourceInRun
<1>4. head = tail /\ Read = 0 /\ SourceRuns = SinkRuns
  BY <1>3, NothingOffered
<1>5. SinkUp' /\ ClearInv' /\ OrderInv' /\ SinkRuns' = SinkRuns /\ Read' = Read
  BY <1>2, <1>3, SinkUndisturbed
<1>6. Offered' = 0
  <2>1. CASE pc'["source"] = "begin"
    BY <2>1 DEF Offered, MessagesDone
  <2>2. CASE pc'["source"] = "preOffer"
    <3>1. Offered' = Repetitions - Repetitions
      BY <1>2, <1>3, <2>2 DEF Offered, MessagesDone
    <3> QED BY <3>1, RigAssumption
  <2> QED BY <1>2, <2>1, <2>2
<1>7. SourceRuns' = SourceRuns
  BY <1>2 DEF SourceRuns, CompletedRuns
<1>8. InStep' /\ SlotsInv'
  BY <1>1, <1>2, <1>4, <1>5, <1>6, <1>7, EmptyInStep
<1>9. SyncInv'
  <2>1. pc["source"] = "reset" => 3 * run["source"] = 0
    BY <1>1 DEF Flow
  <2> QED BY <1>2, <2>1 DEF SyncInv
<1> QED BY <1>3, <1>5, <1>6, <1>7, <1>8, <1>9 DEF SessionInv, SameProgress

\* preOffer and putInt32: the line that is written is not one of those the
\* sink has still to read.
LEMMA SourcePrepares ==
    ASSUME SessionInv, BaseInv', PreOffer \/ PutInt32
    PROVE  SessionInv' /\ SameProgress
<1> DEFINE m == [value |-> i["source"], run |-> run["source"], session |-> session]
<1>1. BaseInv /\ "source" \in Processes /\ "sink" \in Processes /\ TypeInv
  BY ProcessNames DEF SessionInv, BaseInv
<1>2. /\ UNCHANGED <<head, tail, SYNC, run, constructed, i, expected, errors, meta>>
      /\ pc["source"] \in {"preOffer", "put"} /\ Keeps("sink")
      /\ \/ pc'["source"] \in {"preOffer", "put"} /\ slots' = slots
         \/ /\ pc'["source"] = "offer"
            /\ slots' = [slots EXCEPT ![calcElementOffset(tail)] = m]
  BY <1>1 DEF PreOffer, PutInt32, At, Goto, TypeInv, Keeps, local
<1>3. constructed["sink"] /\ SourceRuns = SinkRuns /\ tail - head = Offered - Read
  BY <1>2, SourceInRun DEF SessionInv, InStep
<1>4. SinkUp' /\ ClearInv' /\ OrderInv' /\ SinkRuns' = SinkRuns /\ Read' = Read
  BY <1>2, <1>3, SinkUndisturbed
<1>5. SourceRuns' = SourceRuns /\ Offered' = Offered
  BY <1>2 DEF SourceRuns, Offered, CompletedRuns, MessagesDone
<1>6. InStep'
  BY <1>2, <1>3, <1>4, <1>5 DEF InStep
<1>7. SyncInv'
  BY <1>2 DEF SessionInv, SyncInv
<1>8. SlotsInv'
  <2>1. ASSUME NEW q \in head .. tail - 1
        PROVE  slots'[calcElementOffset(q)] = slots[calcElementOffset(q)]
    <3>1. /\ q \in Nat /\ q < tail /\ tail - q < Capacity /\ Capacity \in Nat /\ Capacity > 1
          /\ tail \in Nat
      BY <1>1, <2>1, CounterFacts, RigAssumption
    <3>2. calcElementOffset(q) # calcElementOffset(tail)
      BY <3>1, ModDistinct DEF calcElementOffset, Masked
    <3>3. /\ calcElementOffset(q) \in 0 .. Capacity - 1
          /\ calcElementOffset(tail) \in 0 .. Capacity - 1
      BY <3>1, ModInRange DEF calcElementOffset, Masked
    <3> QED BY <1>1, <1>2, <3>2, <3>3 DEF TypeInv
  <2>2. pc'["source"] = "offer" => slots'[calcElementOffset(tail)] = m
    <3>1. calcElementOffset(tail) \in 0 .. Capacity - 1
      BY <1>1, CounterFacts, RigAssumption, ModInRange DEF calcElementOffset, Masked
    <3> QED BY <1>1, <1>2, <3>1 DEF TypeInv
  <2>3. \A q \in head .. tail - 1 : slots[calcElementOffset(q)] = Due(q) /\ Due(q)' = Due(q)
    BY <1>2, <1>3, <1>4 DEF SessionInv, SlotsInv, Due, meta
  <2> QED BY <1>2, <2>1, <2>2, <2>3 DEF SlotsInv, meta
<1> QED BY <1>4, <1>5, <1>6, <1>7, <1>8 DEF SessionInv, SameProgress

LEMMA SourceOffers ==
    ASSUME SessionInv, BaseInv', Offer
    PROVE  /\ SessionInv'
           /\ SourceRuns = SinkRuns /\ SourceRuns < Runs /\ Offered < Repetitions
           /\ SourceRuns' = SourceRuns /\ Offered' = Offered + 1
           /\ SinkRuns' = SinkRuns /\ Read' = Read
<1>1. /\ BaseInv /\ "source" \in Processes /\ "sink" \in Processes /\ TypeInv
      /\ Flow("source")
  BY ProcessNames DEF SessionInv, BaseInv
<1>2. /\ pc["source"] = "offer" /\ tail' = tail + 1
      /\ i' = [i EXCEPT !["source"] = @ - 1]
      /\ pc' = [pc EXCEPT !["source"] = IF i["source"] = 1 THEN "end" ELSE "preOffer"]
      /\ UNCHANGED <<head, tailCache, headCache, slots, SYNC, constructed, run,
                     currentHead, loaded, expected, errors, nextUnread, meta>>
  BY DEF Offer, At, Goto
<1>3. /\ i'["source"] = i["source"] - 1 /\ pc'["source"] \in {"end", "preOffer"}
      /\ Keeps("sink")
  BY <1>1, <1>2 DEF TypeInv, Keeps
<1>4. /\ constructed["source"] /\ constructed["sink"]
      /\ SourceRuns = SinkRuns /\ tail - head = Offered - Read
      /\ SourceRuns = run["source"] /\ Offered = Repetitions - i["source"]
      /\ i["source"] \in 0 .. Repetitions /\ i["source"] >= 1 /\ Read \in 0 .. Repetitions
      /\ run["source"] < Runs
  BY <1>1, <1>2, SourceInRun DEF SessionInv, InStep, Flow
<1>5. SinkUp' /\ ClearInv' /\ OrderInv' /\ SinkRuns' = SinkRuns /\ Read' = Read
  BY <1>2, <1>3, <1>4, SinkUndisturbed
<1>6. SourceRuns' = SourceRuns /\ Offered' = Offered + 1 /\ Offered < Repetitions
  <2>1. Offered' = Repetitions - i'["source"]
    BY <1>2, <1>3, <1>4 DEF Offered, MessagesDone
  <2> QED BY <1>2, <1>3, <1>4, <2>1, RigAssumption DEF SourceRuns, CompletedRuns
<1>7. InStep'
  <2>1. tail' - head = Offered' - Read
    BY <1>1, <1>2, <1>4, <1>6, CounterFacts, RigAssumption
  <2> QED BY <1>2, <1>4, <1>5, <1>6, <2>1 DEF InStep
<1>8. SyncInv'
  BY <1>2, <1>3, <1>4, <1>5, <1>6 DEF SessionInv, SyncInv
<1>9. SlotsInv'
  <2>1. ASSUME NEW q \in head' .. tail' - 1 PROVE slots'[calcElementOffset(q)] = Due(q)'
    <3>1. Due(q)' = Due(q)
      BY <1>2, <1>5 DEF Due, meta
    <3>2. CASE q \in head .. tail - 1
      BY <1>2, <1>4, <3>1, <3>2 DEF SessionInv, SlotsInv
    <3>3. CASE q = tail
      <4>1. Repetitions - Read - (q - head) = i["source"]
        BY <1>1, <1>4, <3>3, CounterFacts, RigAssumption
      <4>2. slots[calcElementOffset(tail)] = Due(q)
        BY <1>2, <4>1 DEF SessionInv, SlotsInv, Due
      <4> QED BY <1>2, <3>1, <3>3, <4>2
    <3> QED BY <1>1, <1>2, <2>1, <3>2, <3>3, CounterFacts
  <2> QED BY <1>3, <2>1 DEF SlotsInv
<1> QED BY <1>4, <1>5, <1>6, <1>7, <1>8, <1>9 DEF SessionInv

\* The source ends a run after the sink has ended it: SYNC says so.
LEMMA SourceEndsRun ==
    ASSUME SessionInv, BaseInv', EndProducerRun
    PROVE  /\ SessionInv'
           /\ SinkRuns = SourceRuns + 1 /\ SourceRuns \in Nat
           /\ SourceRuns' = SourceRuns + 1 /\ Offered' = 0
           /\ SinkRuns' = SinkRuns /\ Read' = Read
<1>1. BaseInv /\ "source" \in Processes /\ "sink" \in Processes /\ TypeInv
  BY ProcessNames DEF SessionInv, BaseInv
<1>2. /\ pc["source"] = "end" /\ SYNC = 3 * run["source"] + 2 /\ SYNC' = 3 * run["source"] + 3
      /\ run' = [run EXCEPT !["source"] = @ + 1]
      /\ pc' = [pc EXCEPT !["source"] = IF run["source"] + 1 = Runs THEN "done" ELSE "begin"]
      /\ UNCHANGED <<head, tailCache, tail, headCache, slots, constructed, i,
                     currentHead, loaded, expected, errors, nextUnread, meta>>
  BY DEF EndProducerRun, NextRun, NextRunOf, waitTillNextState, At, Goto
<1>3. /\ constructed["source"] /\ constructed["sink"]
      /\ SourceRuns = run["source"] /\ run["source"] \in Nat
  BY <1>2, SourceInRun
<1>4. /\ pc'["source"] \in {"begin", "done"} /\ run'["source"] = run["source"] + 1
      /\ Keeps("sink")
  BY <1>1, <1>2 DEF TypeInv, Keeps
<1>5. SinkRuns = SourceRuns + 1 /\ head = tail /\ pc["sink"] \in {"begin", "done"}
  <2>1. SinkRuns # SourceRuns
    BY <1>2, <1>3 DEF SessionInv, SyncInv
  <2> QED BY <1>3, <2>1 DEF SessionInv, InStep
<1>6. SinkUp' /\ ClearInv' /\ OrderInv' /\ SinkRuns' = SinkRuns /\ Read' = Read
  BY <1>2, <1>3, <1>4, SinkUndisturbed
<1>7. SourceRuns' = SourceRuns + 1 /\ Offered' = 0 /\ Read = 0
  BY <1>2, <1>3, <1>4, <1>5
     DEF SourceRuns, Offered, Read, CompletedRuns, MessagesDone
<1>8. InStep' /\ SlotsInv'
  BY <1>1, <1>2, <1>4, <1>5, <1>6, <1>7, EmptyInStep
<1>9. SyncInv'
  BY <1>2, <1>3, <1>4 DEF SyncInv
<1> QED BY <1>3, <1>5, <1>6, <1>7, <1>8, <1>9 DEF SessionInv

-----------------------------------------------------------------------------
(* Sessions: starting and stopping *)

LEMMA StartInSession ==
    ASSUME SinkFirst, SessionInv, BaseInv', NEW p \in Processes, NEW l \in Languages, Start(p, l)
    PROVE  SessionInv' /\ SameProgress
<1>1. BaseInv /\ "source" \in Processes /\ "sink" \in Processes /\ TypeInv
  BY ProcessNames DEF SessionInv, BaseInv
<1>2. /\ UNCHANGED <<head, tailCache, tail, slots, SYNC, i, expected, errors, session>>
      /\ pc[p] = "off" /\ pc'[p] \in {"poll", "reset", "begin", "show"}
      /\ run'[p] = 0 /\ constructed'[p] = ~ConstructorClears(p, l)
      /\ pc'[p] = IF ConstructorClears(p, l) THEN "poll" ELSE AfterConstructor(p)
      /\ \A q \in Processes \ {p} : Keeps(q)
  <2>1. AfterConstructor(p) \in {"reset", "begin", "show"}
    BY DEF AfterConstructor, Processes
  <2> QED BY <1>1, <2>1 DEF Start, At, Goto, TypeInv, Keeps, file
<1>3. ~constructed[p]
  BY <1>1, <1>2 DEF BaseInv, Flow
<1>4. CASE p = "source"
  <2>1. constructed["sink"] /\ Keeps("sink")
    BY <1>1, <1>2, <1>4 DEF Start
  <2>2. SourceRuns = 0 /\ Offered = 0
    BY <1>1, <1>3, <1>4, DoneFacts DEF SourceRuns, Offered
  <2>3. head = tail /\ Read = 0 /\ SourceRuns = SinkRuns
    BY <1>2, <1>4, <2>1, <2>2, NothingOffered
  <2>4. SinkUp' /\ ClearInv' /\ OrderInv' /\ SinkRuns' = SinkRuns /\ Read' = Read
    BY <1>2, <2>1, SinkUndisturbed
  <2>5. pc'["source"] \in {"poll", "reset"} /\ (pc'["source"] = "poll" => ~constructed'["source"])
    BY <1>2, <1>4 DEF AfterConstructor
  <2>6. SourceRuns' = 0 /\ Offered' = 0
    BY <1>2, <1>4, <2>5 DEF SourceRuns, Offered, CompletedRuns, MessagesDone
  <2>7. InStep' /\ SlotsInv'
    BY <1>1, <1>2, <2>2, <2>3, <2>4, <2>5, <2>6, EmptyInStep
  <2>8. SyncInv'
    BY <2>5 DEF SyncInv
  <2> QED BY <2>2, <2>3, <2>4, <2>6, <2>7, <2>8 DEF SessionInv, SameProgress
<1>5. CASE p = "sink"
  <2>1. pc'["sink"] = "poll" /\ ~constructed'["sink"]
    BY <1>2, <1>5 DEF ConstructorClears
  <2>2. pc["source"] = "off" /\ Keeps("source")
    BY <1>1, <1>2, <1>3, <1>5 DEF SessionInv, SinkUp
  <2>3. SinkUp' /\ ClearInv' /\ InStep' /\ SyncInv' /\ SlotsInv'
    BY <2>1, <2>2 DEF SinkUp, ClearInv, InStep, SyncInv, SlotsInv, Keeps
  <2>4. OrderInv'
    BY <1>2, <2>1 DEF SessionInv, OrderInv
  <2>5. SameProgress
    BY <1>1, <1>3, <1>5, <2>1, <2>2, DoneKept
       DEF SameProgress, SourceRuns, Offered, SinkRuns, Read, CompletedRuns, MessagesDone
  <2> QED BY <2>3, <2>4, <2>5 DEF SessionInv
<1>6. CASE p = "display"
  <2>1. Keeps("source") /\ Keeps("sink")
    BY <1>1, <1>2, <1>6
  <2>2. SameProgress
    BY <1>1, <2>1, DoneKept DEF SameProgress, SourceRuns, Offered, SinkRuns, Read
  <2>3. SinkUp' /\ InStep'
    BY <1>2, <2>1, <2>2 DEF SessionInv, SinkUp, InStep, Keeps, SameProgress
  <2>4. ClearInv' /\ SyncInv' /\ SlotsInv' /\ OrderInv'
    BY <1>2, <2>1, <2>2, ClearKept, SyncKept, SlotsKept, OrderKept
       DEF SessionInv, SameProgress, Keeps
  <2> QED BY <2>2, <2>3, <2>4 DEF SessionInv
<1> QED BY <1>4, <1>5, <1>6 DEF Processes

LEMMA NewSessionInv ==
    ASSUME SessionInv, BaseInv', NewSession
    PROVE  /\ SessionInv'
           /\ SourceRuns' = 0 /\ SinkRuns' = 0 /\ Offered' = 0 /\ Read' = 0
<1>1. \A p \in Processes : pc'[p] = "off" /\ ~constructed'[p]
  BY DEF NewSession
<1>2. pc'["source"] = "off" /\ ~constructed'["source"] /\ ~constructed'["sink"] /\ pc'["sink"] = "off"
  BY <1>1, ProcessNames
<1>3. SinkUp' /\ ClearInv' /\ InStep' /\ SyncInv' /\ SlotsInv'
  BY <1>2 DEF SinkUp, ClearInv, InStep, SyncInv, SlotsInv
<1>4. OrderInv'
  BY <1>2 DEF NewSession, SessionInv, OrderInv
<1>5. SourceRuns' = 0 /\ SinkRuns' = 0 /\ Offered' = 0 /\ Read' = 0
  BY <1>2 DEF SourceRuns, Offered, SinkRuns, Read, CompletedRuns, MessagesDone
<1> QED BY <1>3, <1>4, <1>5 DEF SessionInv

LEMMA StutterInSession ==
    ASSUME SessionInv, BaseInv', UNCHANGED vars
    PROVE  SessionInv' /\ SameProgress
<1>1. UNCHANGED <<file, pc, local, meta>>
  BY DEF vars
<1>2. Keeps("source") /\ Keeps("sink")
  BY <1>1 DEF Keeps, local
<1>3. SameProgress
  BY <1>2, ProcessNames, DoneKept DEF SameProgress, SourceRuns, Offered, SinkRuns, Read
<1>4. SinkUp' /\ InStep'
  BY <1>1, <1>2, <1>3 DEF SessionInv, SinkUp, InStep, Keeps, SameProgress, file
<1>5. ClearInv' /\ SyncInv' /\ SlotsInv' /\ OrderInv'
  BY <1>1, <1>2, <1>3, ClearKept, SyncKept, SlotsKept, OrderKept
     DEF SessionInv, SameProgress, Keeps, file, local, meta
<1> QED BY <1>3, <1>4, <1>5 DEF SessionInv

-----------------------------------------------------------------------------

LEMMA InitSessionInv == Init => SessionInv
<1> SUFFICES ASSUME Init PROVE SessionInv
  OBVIOUS
<1>1. BaseInv
  BY InitBaseInv
<1>2. /\ pc["source"] = "off" /\ pc["sink"] = "off" /\ ~constructed["sink"]
      /\ errors = 0 /\ expected = 0
  BY ProcessNames DEF Init
<1>3. 0 \in -1 .. Repetitions
  BY RigAssumption
<1> QED BY <1>1, <1>2, <1>3
        DEF SessionInv, SinkUp, ClearInv, InStep, SyncInv, SlotsInv, OrderInv, Polls

\* Every step of a session keeps the invariant and is a step of Session, or
\* leaves both programs as far as they were.
LEMMA SessionStep ==
    ASSUME SinkFirst, Restarting = {}, Displays # "any", SessionInv, [Next]_vars
    PROVE  SessionInv' /\ (Promise!Next \/ UNCHANGED Promise!sessionVars)
<1>1. BaseInv /\ BaseInv'
  BY SoloInSessions, NextBaseInv DEF SessionInv
<1> DEFINE Goal == SessionInv' /\ (Promise!Next \/ UNCHANGED Promise!sessionVars)
<1> SUFFICES Goal
  OBVIOUS
<1>2. ASSUME SessionInv', SameProgress PROVE Goal
  BY <1>2 DEF SameProgress, Promise!sessionVars, SourceRuns, SinkRuns, Offered, Read
<1> HIDE DEF Goal
<1>3. CASE SourceStep
  <2>1. CASE QueueStep("source")
    BY <1>1, <1>2, <2>1, SourceQueueStep
  <2>2. CASE ResetSync \/ BeginProducerRun
    BY <1>1, <1>2, <2>2, SourceBegins
  <2>3. CASE PreOffer \/ PutInt32
    BY <1>1, <1>2, <2>3, SourcePrepares
  <2>4. CASE Offer
    BY <1>1, <2>4, SourceOffers
       DEF Goal, Promise!Next, Promise!Offer, SourceRuns, SinkRuns, Offered, Read
  <2>5. CASE EndProducerRun
    <3>1. SourceRuns < SinkRuns
      BY <1>1, <2>5, SourceEndsRun
    <3> QED BY <1>1, <2>5, <3>1, SourceEndsRun
            DEF Goal, Promise!Next, Promise!SourceEnds, SourceRuns, SinkRuns, Offered, Read
  <2> QED BY <1>3, <2>1, <2>2, <2>3, <2>4, <2>5 DEF SourceStep
<1>4. CASE SinkStep
  <2>1. CASE QueueStep("sink") /\ ~constructed["sink"]
    BY <1>1, <1>2, <2>1, SinkClears
  <2>2. CASE QueueStep("sink") /\ constructed["sink"] /\ ~ReleaseStoreHead("sink")
    BY <1>1, <1>2, <2>2, SinkPolls
  <2>3. CASE ReleaseStoreHead("sink") /\ constructed["sink"]
    BY <1>1, <2>3, SinkReleases
       DEF Goal, Promise!Next, Promise!Read, SourceRuns, SinkRuns, Offered, Read
  <2>4. CASE BeginConsumerRun \/ GetInt32
    BY <1>1, <1>2, <2>4, SinkBegins, SinkReads
  <2>5. CASE EndConsumerRun
    BY <1>1, <2>5, SinkEndsRun
       DEF Goal, Promise!Next, Promise!SinkEnds, SourceRuns, SinkRuns, Offered, Read
  <2> QED BY <1>4, <2>1, <2>2, <2>3, <2>4, <2>5 DEF SinkStep
<1>5. CASE DisplayStep
  BY <1>1, <1>2, <1>5, DisplayStepInSession
<1>6. CASE StartSource \/ StartSink \/ StartDisplay
  BY <1>1, <1>2, <1>6, ProcessNames, RigAssumption, StartInSession
     DEF StartSource, StartSink, StartDisplay, Languages
<1>7. CASE NewSession
  BY <1>1, <1>7, NewSessionInv
     DEF Goal, Promise!Next, Promise!StartOver, SourceRuns, SinkRuns, Offered, Read
<1>8. CASE UNCHANGED vars
  BY <1>1, <1>2, <1>8, StutterInSession
<1> QED BY <1>3, <1>4, <1>5, <1>6, <1>7, <1>8 DEF Next

LEMMA AlwaysSessionInv ==
    ASSUME SinkFirst, Restarting = {}, Displays # "any"
    PROVE  Spec => []SessionInv
<1>1. SessionInv /\ [Next]_vars => SessionInv'
  BY SessionStep
<1> QED BY <1>1, InitSessionInv, PTL DEF Spec

\* Every variable keeps its type in sessions with the sink up first; the sink's
\* expectedValue stays between -1 and Repetitions.
THEOREM SessionsKeepTypes ==
    ASSUME SinkFirst, Restarting = {}, Displays # "any"
    PROVE  Spec => []TypeOK
<1>1. SessionInv => TypeOK
  BY DEF SessionInv, BaseInv, TypeInv, OrderInv, TypeOK
<1> QED BY <1>1, AlwaysSessionInv, PTL

\* With the sink up before the source, every message the sink reads is the one
\* that is due, of this session and this run, whatever an earlier session left
\* in the file, and in any mix of the two languages.
THEOREM SessionsReadThisRun ==
    ASSUME SinkFirst, Restarting = {}, Displays # "any"
    PROVE  Spec => []ReadsThisRun
BY SessionReads, AlwaysSessionInv, PTL

\* In those sessions neither way of counting reports an out of order error.
THEOREM SessionsAreInOrder ==
    ASSUME SinkFirst, Restarting = {}, Displays # "any"
    PROVE  Spec => []NoOrderErrors
<1>1. SessionInv => NoOrderErrors
  BY DEF SessionInv, OrderInv, NoOrderErrors
<1> QED BY <1>1, AlwaysSessionInv, PTL

\* In those sessions the counters never cross or lap, although the constructors
\* of a C++ source and of the sink poll the same queue.
THEOREM SessionsKeepCounters ==
    ASSUME SinkFirst, Restarting = {}, Displays # "any"
    PROVE  Spec => []CountersInOrder
<1>1. SessionInv => CountersInOrder
  BY BaseIsInOrder DEF SessionInv
<1> QED BY <1>1, AlwaysSessionInv, PTL

\* In those sessions no message is read twice, nor one that a killed session
\* left behind.
THEOREM SessionsReadOnce ==
    ASSUME SinkFirst, Restarting = {}, Displays # "any"
    PROVE  Spec => []AtMostOnce
<1>1. SessionInv => AtMostOnce
  BY BaseIsInOrder DEF SessionInv
<1> QED BY <1>1, AlwaysSessionInv, PTL

\* In those sessions a source leaves head and tailCache alone, a C++ source
\* with its mistaken call of clear() included: it polls an empty queue.
THEOREM SessionsKeepOwner ==
    ASSUME SinkFirst, Restarting = {}, Displays # "any"
    PROVE  Spec => ConsumerOwnsHead
<1>1. SessionInv /\ [Next]_vars => [SourceStep => UNCHANGED <<head, tailCache>>]_vars
  BY SourceLeavesHead, SourcePollsEmpty DEF SessionInv
<1> QED BY <1>1, AlwaysSessionInv, PTL DEF Spec, ConsumerOwnsHead

\* Those sessions implement Session: run by run the sink reads as many messages
\* as the source offers, and neither program is ahead of the other.
THEOREM SessionsKeepPromise ==
    ASSUME SinkFirst, Restarting = {}, Displays # "any"
    PROVE  Spec => KeepsPromise
<1>1. Init => Promise!Init
  BY ProcessNames DEF Init, Promise!Init, CompletedRuns, MessagesDone
<1>2. SessionInv /\ [Next]_vars => [Promise!Next]_(Promise!sessionVars)
  BY SessionStep
<1> QED BY <1>1, <1>2, AlwaysSessionInv, PTL DEF Spec, KeepsPromise, Promise!Spec
=============================================================================
