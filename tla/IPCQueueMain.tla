---------------------------- MODULE IPCQueueMain ----------------------------
(***************************************************************************)
(* The programs that use the queue: IPCQueueMain (C++) and MsgQueueSink    *)
(* (Java), each started as the source or as the sink of a session, and     *)
(* MsgQueueDisplay (Java), which maps the queue as a consumer to print it. *)
(* A session is Runs runs; in each the source offers the numbers           *)
(* Repetitions, ..., 1 and the sink reads as many messages.  The word SYNC *)
(* of the queue's header keeps the two in step: in run r it goes           *)
(* 3r -> 3r+1 (source begins) -> 3r+2 (sink has read all) -> 3r+3 (source  *)
(* has seen it).                                                           *)
(*                                                                         *)
(* Everything in the file outlives the processes.  A session may end, or   *)
(* be killed, at any point, and the next one starts on the same file.      *)
(*                                                                         *)
(* The constructors differ.  Java's empties the queue when the caller is a *)
(* consumer; C++'s tests `viewMask && (bool)IS_CONSUMER', which holds for  *)
(* a producer too, so a C++ source also polls and releases.  head and      *)
(* tailCache may therefore be written by several processes, and every      *)
(* access to them is a step of its own here; tail and headCache are only   *)
(* ever written by the source.                                             *)
(***************************************************************************)
EXTENDS Integers, FiniteSets

CONSTANTS Capacity,       \* lines in the ring
          Runs,           \* runs of a session
          Repetitions,    \* messages of a run
          SourceLangs,    \* what the source may be written in
          SinkLangs,      \* what the sink may be written in
          SinkFirst,      \* the source is started once the sink waits for it
          Displays,       \* displays run "never", only "alone", or at "any" time
          Restarting,     \* programs that may be restarted on their own
          MaxSessions,    \* bound: sessions on one file
          MaxRestarts     \* bound: such restarts

Languages == {"cpp", "java"}

ASSUME RigAssumption ==
    /\ Capacity \in Nat /\ Capacity > 1
    /\ Runs \in Nat \ {0} /\ Repetitions \in Nat \ {0}
    /\ SourceLangs \subseteq Languages /\ SinkLangs \subseteq Languages
    /\ SinkFirst \in BOOLEAN
    /\ Displays \in {"never", "alone", "any"}
    /\ Restarting \subseteq {"source", "sink"}
    /\ MaxSessions \in Nat \ {0} /\ MaxRestarts \in Nat

Processes == {"source", "sink", "display"}

VARIABLES
    head, tailCache, tail, headCache, slots, SYNC,   \* the file
    pc,           \* [Processes -> where the process is]
    lang,         \* [Processes -> what it is written in]
    constructed,  \* [Processes -> the queue's constructor has returned]
    run,          \* [Processes -> the loop variable of main]
    i,            \* [Processes -> the loop variable of producerRun, consumerRun]
    currentHead,  \* [Processes -> poll's local]
    loaded,       \* [Processes -> a counter loaded and about to be stored]
    expected,     \* the sink's expectedValue
    errors,       \* the sink's outOfOrderErrors
    nextUnread,   \* history: the position behind the last message a sink read
    session,      \* sessions begun so far
    restarts

file  == <<head, tailCache, tail, headCache, slots, SYNC>>
local == <<constructed, run, i, currentHead, loaded, expected, errors, nextUnread>>
meta  == <<lang, session, restarts>>
vars  == <<file, pc, local, meta>>

(***************************************************************************)
(* A line holds the number the source wrote; session and run say which     *)
(* message it is and are invisible to the programs.                        *)
(***************************************************************************)
Message == [value: 0 .. Repetitions, run: 0 .. Runs - 1, session: 0 .. MaxSessions]
Blank == [value |-> 0, run |-> 0, session |-> 0]

Masked(x) == x % Capacity
calcElementOffset(pos) == Masked(pos)

At(p, where) == pc[p] = where
Goto(p, where) == pc' = [pc EXCEPT ![p] = where]

-----------------------------------------------------------------------------
(* poll, releaseCacheLine and the constructor's clear, for either process *)

\* What main does once the queue is constructed.
AfterConstructor(p) ==
    CASE p = "source" -> "reset" [] p = "sink" -> "begin" [] p = "display" -> "show"

\* Where poll() goes on when the queue is empty: clear() ends and with it the
\* constructor, or the sink polls again.
AfterEmpty(p) ==
    IF constructed[p]
    THEN Goto(p, "poll") /\ UNCHANGED constructed
    ELSE /\ Goto(p, AfterConstructor(p))
         /\ constructed' = [constructed EXCEPT ![p] = TRUE]

\* Where it goes on with a line: clear() releases it, the sink reads it.
AfterFound(p) == Goto(p, IF constructed[p] THEN "read" ELSE "release")

PollLoadHead(p) ==
    /\ At(p, "poll")
    /\ currentHead' = [currentHead EXCEPT ![p] = head]
    /\ Goto(p, "pollCached")
    /\ UNCHANGED <<file, constructed, run, i, loaded, expected, errors, nextUnread, meta>>

PollTestCache(p) ==
    /\ At(p, "pollCached")
    /\ IF Masked(currentHead[p] - tailCache) = 0 THEN Goto(p, "pollTail") ELSE AfterFound(p)
    /\ UNCHANGED <<file, local, meta>>

PollLoadTail(p) ==
    /\ At(p, "pollTail")
    /\ loaded' = [loaded EXCEPT ![p] = tail]
    /\ Goto(p, "pollStore")
    /\ UNCHANGED <<file, constructed, run, i, currentHead, expected, errors, nextUnread, meta>>

PollStoreCache(p) ==
    /\ At(p, "pollStore")
    /\ tailCache' = loaded[p]
    /\ Goto(p, "pollAgain")
    /\ UNCHANGED <<head, tail, headCache, slots, SYNC, local, meta>>

PollTestAgain(p) ==
    /\ At(p, "pollAgain")
    /\ IF Masked(currentHead[p] - tailCache) = 0
       THEN AfterEmpty(p)
       ELSE AfterFound(p) /\ UNCHANGED constructed
    /\ UNCHANGED <<file, run, i, currentHead, loaded, expected, errors, nextUnread, meta>>

ReleaseLoadHead(p) ==
    /\ At(p, "release")
    /\ loaded' = [loaded EXCEPT ![p] = head]
    /\ Goto(p, "releaseStore")
    /\ UNCHANGED <<file, constructed, run, i, currentHead, expected, errors, nextUnread, meta>>

\* clear() polls again; the sink goes on with its loop.
ReleaseStoreHead(p) ==
    /\ At(p, "releaseStore")
    /\ head' = loaded[p] + 1
    /\ IF constructed[p]
       THEN /\ i' = [i EXCEPT ![p] = @ - 1]
            /\ Goto(p, IF i[p] = 1 THEN "end" ELSE "poll")
       ELSE Goto(p, "poll") /\ UNCHANGED i
    /\ UNCHANGED <<tailCache, tail, headCache, slots, SYNC, constructed, run,
                   currentHead, loaded, expected, errors, nextUnread, meta>>

-----------------------------------------------------------------------------
(* waitTillNextState and the loop of main, for either process *)

\* The compare-and-set that ends the wait; a failed one changes nothing.
waitTillNextState(stateToWaitTill, nextState) ==
    /\ SYNC = stateToWaitTill
    /\ SYNC' = nextState

\* main's reset of SYNC when it is started as the source.
ResetSync ==
    /\ At("source", "reset")
    /\ SYNC' = 0
    /\ Goto("source", "begin")
    /\ UNCHANGED <<head, tailCache, tail, headCache, slots, local, meta>>

BeginProducerRun ==
    /\ At("source", "begin")
    /\ waitTillNextState(3 * run["source"], 3 * run["source"] + 1)
    /\ i' = [i EXCEPT !["source"] = Repetitions]
    /\ Goto("source", "preOffer")
    /\ UNCHANGED <<head, tailCache, tail, headCache, slots, constructed, run,
                   currentHead, loaded, expected, errors, nextUnread, meta>>

ConsumerBegins(first) ==
    /\ At("sink", "begin")
    /\ waitTillNextState(3 * run["sink"] + 1, 3 * run["sink"] + 1)
    /\ i' = [i EXCEPT !["sink"] = Repetitions]
    /\ expected' = first
    /\ Goto("sink", "poll")
    /\ UNCHANGED <<head, tailCache, tail, headCache, slots, constructed, run,
                   currentHead, loaded, errors, nextUnread, meta>>

BeginConsumerRun_KeepsExpected ==
    ConsumerBegins(IF run["sink"] = 0 THEN Repetitions ELSE expected)
BeginConsumerRun == ConsumerBegins(Repetitions)

\* The next run, or the end of main.
NextRunOf(p, runs) ==
    /\ run' = [run EXCEPT ![p] = @ + 1]
    /\ Goto(p, IF run[p] + 1 = runs THEN "done" ELSE "begin")
    /\ UNCHANGED <<head, tailCache, tail, headCache, slots, constructed, i,
                   currentHead, loaded, expected, errors, nextUnread, meta>>

NextRun_OneTooMany(p) == NextRunOf(p, Runs + 1)
NextRun(p) == NextRunOf(p, Runs)

\* The source does not wait for the sink before it goes on.
EndProducerRun_NoWait ==
    /\ At("source", "end")
    /\ SYNC' = 3 * run["source"] + 3
    /\ NextRun("source")

EndProducerRun ==
    /\ At("source", "end")
    /\ waitTillNextState(3 * run["source"] + 2, 3 * run["source"] + 3)
    /\ NextRun("source")

EndConsumerRun_WrongState ==
    /\ At("sink", "end")
    /\ waitTillNextState(3 * run["sink"] + 1, 3 * run["sink"] + 1)
    /\ NextRun("sink")

EndConsumerRun ==
    /\ At("sink", "end")
    /\ waitTillNextState(3 * run["sink"] + 1, 3 * run["sink"] + 2)
    /\ NextRun("sink")

-----------------------------------------------------------------------------
(* producerRun and consumerRun *)

\* preOffer's load of head, when it is needed, is its one shared access.
PreOffer_NeverFull ==
    /\ At("source", "preOffer")
    /\ Goto("source", "put")
    /\ UNCHANGED <<file, local, meta>>

PreOffer ==
    /\ At("source", "preOffer")
    /\ headCache' = IF Masked(tail + 1 - headCache) = 0 THEN head ELSE headCache
    /\ IF Masked(tail + 1 - headCache') = 0 THEN UNCHANGED pc ELSE Goto("source", "put")
    /\ UNCHANGED <<head, tailCache, tail, slots, SYNC, local, meta>>

PutInt32 ==
    /\ At("source", "put")
    /\ slots' = [slots EXCEPT ![calcElementOffset(tail)] =
                    [value |-> i["source"], run |-> run["source"], session |-> session]]
    /\ Goto("source", "offer")
    /\ UNCHANGED <<head, tailCache, tail, headCache, SYNC, local, meta>>

Offer ==
    /\ At("source", "offer")
    /\ tail' = tail + 1
    /\ i' = [i EXCEPT !["source"] = @ - 1]
    /\ Goto("source", IF i["source"] = 1 THEN "end" ELSE "preOffer")
    /\ UNCHANGED <<head, tailCache, headCache, slots, SYNC, constructed, run,
                   currentHead, loaded, expected, errors, nextUnread, meta>>

\* What the sink reads from the line poll gave it.
Result == slots[calcElementOffset(currentHead["sink"])]

\* C++ compares with its countdown, Java with one more than the last number.
OutOfOrder ==
    IF lang["sink"] = "cpp" THEN Result.value # i["sink"] ELSE Result.value # expected

GetInt32 ==
    /\ At("sink", "read")
    /\ errors' = IF OutOfOrder THEN errors + 1 ELSE errors
    /\ expected' = (IF OutOfOrder THEN Result.value ELSE expected) - 1
    /\ nextUnread' = currentHead["sink"] + 1
    /\ Goto("sink", "release")
    /\ UNCHANGED <<file, constructed, run, i, currentHead, loaded, meta>>

-----------------------------------------------------------------------------
(* Starting and stopping the programs *)

\* MsgQueueDisplay prints the counters, size() and every line, and ends.
ShowQueue ==
    /\ At("display", "show")
    /\ Goto("display", "done")
    /\ UNCHANGED <<file, local, meta>>

\* The constructor calls clear() for this view of the queue.
ConstructorClears_Always(p, l) == TRUE
ConstructorClears_NotForSink(p, l) == p = "source" /\ l = "cpp"
ConstructorClears(p, l) == l = "cpp" \/ p # "source"

Idle(p) == pc[p] \in {"off", "done"}

\* main, up to and including the constructor's decision to clear.
Start(p, l) ==
    /\ At(p, "off")
    /\ p = "source" /\ SinkFirst => constructed["sink"]
    /\ Displays = "alone" =>
          \A q \in Processes \ {p} : p = "display" \/ q = "display" => Idle(q)
    /\ lang' = [lang EXCEPT ![p] = l]
    /\ run' = [run EXCEPT ![p] = 0]
    /\ constructed' = [constructed EXCEPT ![p] = ~ConstructorClears(p, l)]
    /\ Goto(p, IF ConstructorClears(p, l) THEN "poll" ELSE AfterConstructor(p))
    /\ UNCHANGED <<file, i, currentHead, loaded, expected, errors, nextUnread,
                   session, restarts>>

\* Both processes end or are killed, and a new session begins on the file.
NewSession ==
    /\ session < MaxSessions
    /\ \E p \in Processes : ~At(p, "off")
    /\ session' = session + 1
    /\ pc' = [p \in Processes |-> "off"]
    /\ constructed' = [p \in Processes |-> FALSE]
    /\ errors' = 0
    /\ UNCHANGED <<file, lang, run, i, currentHead, loaded, expected, nextUnread, restarts>>

\* One program alone is killed, and started again while the other goes on.
Restart(p) ==
    /\ restarts < MaxRestarts
    /\ restarts' = restarts + 1
    /\ ~At(p, "off")
    /\ Goto(p, "off")
    /\ constructed' = [constructed EXCEPT ![p] = FALSE]
    /\ UNCHANGED <<file, lang, session, run, i, currentHead, loaded, expected, errors, nextUnread>>

-----------------------------------------------------------------------------

Init ==
    /\ head = 0 /\ tailCache = 0 /\ tail = 0 /\ headCache = 0
    /\ slots = [l \in 0 .. Capacity - 1 |-> Blank]
    /\ SYNC = 0
    /\ pc = [p \in Processes |-> "off"]
    /\ lang = [p \in Processes |-> "cpp"]
    /\ constructed = [p \in Processes |-> FALSE]
    /\ run = [p \in Processes |-> 0]
    /\ i = [p \in Processes |-> 0]
    /\ currentHead = [p \in Processes |-> 0]
    /\ loaded = [p \in Processes |-> 0]
    /\ expected = 0 /\ errors = 0 /\ nextUnread = 0
    /\ session = 1 /\ restarts = 0

QueueStep(p) ==
    \/ PollLoadHead(p) \/ PollTestCache(p) \/ PollLoadTail(p)
    \/ PollStoreCache(p) \/ PollTestAgain(p)
    \/ ReleaseLoadHead(p) \/ ReleaseStoreHead(p)

SourceStep ==
    \/ QueueStep("source")
    \/ ResetSync \/ BeginProducerRun \/ PreOffer \/ PutInt32 \/ Offer \/ EndProducerRun

SinkStep ==
    \/ QueueStep("sink")
    \/ BeginConsumerRun \/ GetInt32 \/ EndConsumerRun

DisplayStep == QueueStep("display") \/ ShowQueue

StartSource == \E l \in SourceLangs : Start("source", l)
StartSink == \E l \in SinkLangs : Start("sink", l)
StartDisplay == Displays # "never" /\ Start("display", "java")

Finished == At("source", "done") /\ At("sink", "done")

Next ==
    \/ SourceStep \/ SinkStep \/ DisplayStep
    \/ StartSource \/ StartSink \/ StartDisplay
    \/ NewSession \/ \E p \in Restarting : Restart(p)
    \/ Finished /\ UNCHANGED vars

Spec == Init /\ [][Next]_vars

(***************************************************************************)
(* Each program is a thread that the scheduler keeps running; its waits    *)
(* are loops around a compare-and-set, a preOffer or a poll.  Whoever runs *)
(* the test starts both programs.                                          *)
(***************************************************************************)
Fairness ==
    /\ WF_vars(SourceStep) /\ WF_vars(SinkStep) /\ WF_vars(DisplayStep)
    /\ WF_vars(StartSource) /\ WF_vars(StartSink)

FairSpec == Spec /\ Fairness

-----------------------------------------------------------------------------
(* Correctness *)

Labels == {"off", "poll", "pollCached", "pollTail", "pollStore", "pollAgain",
           "release", "releaseStore", "read", "reset", "begin", "preOffer",
           "put", "offer", "end", "show", "done"}

\* The type of every variable.
TypeOK ==
    /\ head \in Nat /\ tailCache \in Nat /\ tail \in Nat /\ headCache \in Nat
    /\ slots \in [0 .. Capacity - 1 -> Message]
    /\ SYNC \in 0 .. 3 * Runs
    /\ pc \in [Processes -> Labels]
    /\ lang \in [Processes -> Languages]
    /\ constructed \in [Processes -> BOOLEAN]
    /\ run \in [Processes -> 0 .. Runs]
    /\ i \in [Processes -> 0 .. Repetitions]
    /\ currentHead \in [Processes -> Nat] /\ loaded \in [Processes -> Nat]
    /\ expected \in -1 .. Repetitions /\ errors \in Nat /\ nextUnread \in Nat
    /\ session \in 1 .. MaxSessions /\ restarts \in 0 .. MaxRestarts

\* Every message the sink reads is the one it is due: of this session, of this
\* run, and in order, whatever a killed session left in the file.
ReadsThisRun ==
    At("sink", "read") =>
        Result = [value |-> i["sink"], run |-> run["sink"], session |-> session]

\* The sink reports no out of order errors, in either of its two ways to count
\* them.
NoOrderErrors == errors = 0

\* No message is read twice, by the same sink or by the one that replaces a
\* sink that died before it released what it had read.
AtMostOnce == At("sink", "read") => currentHead["sink"] >= nextUnread

\* The runs a program has completed, and the messages of its current run that
\* are behind it.
CompletedRuns(p) == IF constructed[p] THEN run[p] ELSE 0
MessagesDone(p) ==
    IF ~constructed[p] \/ pc[p] \in {"reset", "begin", "done"} THEN 0 ELSE Repetitions - i[p]

\* The programs keep the promise of Session: run by run, no message missing,
\* neither program ahead of the other.
Promise == INSTANCE Session WITH
               sourceRun <- CompletedRuns("source"), sinkRun <- CompletedRuns("sink"),
               offered <- MessagesDone("source"), read <- MessagesDone("sink")
KeepsPromise == Promise!Spec

\* "consumer owns head and tailCache": a source takes nothing off the queue and
\* disturbs no poll.
ConsumerOwnsHead == [][SourceStep => UNCHANGED <<head, tailCache>>]_vars

\* The counters never cross, and never lap each other, even while the
\* constructors of both programs poll the same queue.
CountersInOrder == head <= tail /\ tail - head < Capacity

\* A session that nobody interrupts ends: neither program waits for ever.
SessionCompletes == <>[]Finished
=============================================================================
