# Verification of spsc-shm-queues

TLA+ models, TLC runs and TLAPS proofs for the single-producer single-consumer
queue that two processes, each in C++ or Java, share through a memory mapped
file. Paths below are relative to the repository root; in `PROJECT.json` they
carry the prefix `src/`.

## The system

| Component | State | Operations | Interacts with |
|---|---|---|---|
| Queue: `src/main/cpp/SpscMemoryMappedCacheLineQueue.h`, `src/main/java/vn/queue/SpscMemoryMappedCacheLineQueue.java` | in the file: `head`, `tailCache` (consumer), `tail`, `headCache` (producer), the lines; per process: the line it holds | `preOffer`, `offer`, `poll`, `peek`, `releaseCacheLine`, `clear`, `size`, `isEmpty`, constructor | the other process, through the file only |
| Queue file: `QueueMemoryMappedBuffer` (both languages) | existence, length and contents of the file, the mapping | `createAndLoadMappedFile`, `mapProducerBuffer`, `mapBuffer`, `waitForFileCreateMappedBuffer`, `close` | file system |
| Cache line: `CacheLine.h`, `CacheLine.java` | an address into the mapping | `updateWrap`, typed loads and stores, `compareAndSetInt64` | the words of a line, `SYNC` |
| Atomic accesses: `Atomic64.h` | none | ordered store, volatile load, compare and exchange | memory model (x86) |
| Test programs: `IPCQueueMain.cpp`, `MsgQueueSink.java` | `SYNC` in the file; run number, countdown, order errors | `producerRun`, `consumerRun`, `waitTillNextState` | each other, through the queue and `SYNC` |
| Display: `MsgQueueDisplay.java` | none of its own | maps the queue as a consumer, prints it | the queue, a session that is going on |
| CPUStats, QueueConfiguration, `vn.tech` | none shared | sizes, paths, options | operating system |

What is hard here: the two processes share no lock and look at *copies* of each
other's counter; everything they decide from survives in a file that outlives
them; a full and an empty ring differ by one spare line; and the programs keep
in step with one word of shared memory. A test sees a few of the interleavings,
and none in which a process dies between two stores. What must hold:

* queue: messages leave in order, whole, once; nobody writes a line that
  somebody reads; nobody waits for ever on a stale copy; a restarted process
  finds a usable queue;
* layout: the masked arithmetic stays exact when counters wrap; lines neither
  overlap nor leave the file; `peek` finds nothing only if there is nothing;
* file: processes that use the queue use one complete file, and nobody wipes it
  under them;
* cache line: what is stored is read back, and a store touches its own bytes;
* programs: a session reads exactly its own messages, run by run, and ends.

`PROJECT.json` lists the hazards one by one, each at its line.

## The modules

**`SpscFifo`** is the promise: a bounded FIFO of `Capacity - 1` messages. `sent`
is what was offered, `fate` what became of each message in the same order: read
as it was sent, or `Dropped` by `clear()`.

**`SpscQueue`** is the queue at the grain of single accesses to memory that the
other process writes. The four counters and `slots` are the file. A message has
several words, so half-written and half-read lines are states.

| Action | Code |
|---|---|
| `PreOfferHit`, `PreOfferMiss` | `preOffer`: the cached head suffices; or load `head`, keep it, look again (and fail if still full) |
| `PutWord(w)`, `Offer` | the caller's stores into the line; `offer` |
| `PollHit`, `PollMiss` | `poll`, the same way with `tail` |
| `Peek` | Java's `peek`, which compares unmasked counters and refreshes nothing |
| `ReadWord(w)`, `Release` | the caller's loads; `releaseCacheLine` |
| `Clear` | `clear`: from here on `Poll` and `Release` alternate, unread, until `poll` finds nothing |
| `ProducerRestart`, `ConsumerRestart` | death anywhere, and the constructor of a successor on the same file (the consumer's clears) |

A process reads its own counters as plain memory, so a step may contain any
number of those, but at most one access to memory the other process writes. The
callers are modelled as the programs of the repository behave: they write the
whole line before `offer`, read it before `releaseCacheLine`, and release before
they poll again. Memory is sequentially consistent in this module.
`MCSpscQueue` gives it values for TLC.

**`SpscQueueTSO`** is the same queue on the processor the code is written for.
`putInt64Ordered` (`Atomic64.h:146`) is a plain store behind a compiler barrier,
so the words of a line and `tail` wait in the producer's store buffer and reach
memory later, in order; the consumer's `head` likewise. `pTail` and `cHead` are
the counters as their owners see them, `DrainProducer` and `DrainConsumer` the
arrival of a store. `headCache` and `tailCache` are private to one process at a
time, so the delay of their stores cannot be seen. A killed process loses
nothing from its buffer: the kernel drains it before a successor runs.

**`SpscSize`** adds `size()` and `isEmpty()` to `SpscQueue` as two loads with
steps of the other processes in between. Java loads `tail` first; C++ leaves the
order of the two calls in `getTail() - getHead()` to the compiler, so either
load may come first. The caller is the producer, the
consumer, or a third process. `truths` collects the sizes the queue really had
since the first load.

**`QueueLayout`** is the arithmetic: offsets, masks on the bits of a `W`-bit
two's complement word, file size. `head` and `tail` walk through all values of
the word. In Java `long`s wrap by definition; in C++ the overflow of an `int64_t`
is undefined, and `Wrap` is what the build's plain machine additions do, an
assumption about the compiler. The module is what entitles `SpscQueue` to count in naturals modulo
`Capacity`, as far as the masked tests go; `peek` compares unmasked. `And` is
defined by what it does to each bit and not by recursion, so that it can be
proved about.

**`Session`** is what the two programs promise together: run by run, the sink
reads as many messages as the source offers and none before it is offered, and
neither program is ahead of the other by more than the handshake allows.

**`IPCQueueMain`** is the two programs, either of which may be C++ or Java, with
the `SYNC` handshake, several runs per session, sessions that end or are killed
at any step, and the next session on the same file. The languages differ in two
places that matter: C++ constructors clear whatever the view mask is
(`SpscMemoryMappedCacheLineQueue.h:48`), and C++ checks the order against its
countdown while Java checks against the previous number. As a C++ source may
therefore poll too, every load and store of `head` and `tailCache` is a step.
The session and run recorded in a message are history, the programs see only
its number. `SinkFirst` says that the source is started only once the sink's
constructor has returned, which the integration tests achieve by waiting two
seconds. `Restart` kills one program alone and lets it come back while the other
goes on; `Restarting` says which. The third process is `MsgQueueDisplay`, which
constructs the queue as a consumer, so that it polls and releases everything
before it prints; `Displays` says whether it runs never, only while no program
does, or at any time. `nextUnread` is history: the position behind the last
message any sink has read.

**`QueueFile`** is `QueueMemoryMappedBuffer`: several processes, C++ or Java,
look for the file, create it or map what is there. Every system call is a step:
the test for existence, Java's delete, create and extend, C++'s open and one
`write` per block, and `setMemory` block by block. `data` records whose stores
are still in a block. Creating and extending the Java file is Agrona's
`IoUtil`, modelled from how the code uses it. A process that waits for the file
(`AwaitFile`) asks only whether there is one and maps it at once, complete or
not; `early` is history, the waiting processes that mapped a file its creator was
still writing. `OneAtATime` says that calls of `mapProducerBuffer` do not
overlap, as in the integration tests, which give each program time to come up;
it does not restrain those who wait. `Kill` ends a process anywhere on its way to the queue
and leaves what it has written. Calling `createAndLoadMappedFile` directly on a file in
use, as only unit tests with files of their own do, is not modelled.

**`CacheLine`** is `CacheLine.java`: loads and stores of each type, in the plain
form and with a byte order, `putBytes`, `putStringUtf8`, the read-modify-writes
(`Update`), `compareAndSet` and `setMemory` through a window that `updateWrap`
moves from line to line of the array, which has `HeaderLines` lines before it and
as many spare ones behind it in the file. A value is the number of the
store that wrote it, a byte the pair of value and position, so byte orders and
partial overwrites show. `Addresses` reaches as far behind the file as the
bounds check lets a window on a line of the array go. `Loadable` is the bounds
check of the load, which need not be that of the store: `putBytes` from an array
has none, `getBytes` has one. `Orders` limits the byte orders of ints, floats and
strings: in the foreign order `getInt` does not reverse what `putInt` reversed
(and so a string loses its length), and `putFloat` stores eight bytes. With
`"foreign"` in `Orders`, `RoundTrip` fails for each of the three; no document of
the repository says what these methods promise, and no program calls them. The
`getBytes` of lines 842-844, which only calls itself, is left out.

**`SpscQueueProofs`**, **`SpscQueueTSOProofs`**, **`SpscSizeProofs`**,
**`QueueFileProofs`**, **`IPCQueueMainProofs`**, **`QueueLayoutProofs`** and
**`CacheLineProofs`** hold the theorems about the
module they are named after; **`RingTheorems`** is the arithmetic they share, of
two counters less than a lap apart.

Operators with a suffix such as `LooksFull_Never` are faulty variants of the
operator they precede. No specification uses them; they record which mistake in
the code each property detects.

## The runs

| Run | Instance | Shows |
|---|---|---|
| `queue` | 4 lines, 2 words, 2 message values, 5 offers, 1 crash | type invariant, `CachesConservative`, `ExclusiveLine`, `NoTornRead`, `InFlightIntact`, refinement of `SpscFifo`, `EverythingFlows` |
| `layout` | 8-bit counters, capacities 2, 4, 8, line sizes 64 and 128 | `TestsExact`, `LinesApart`, `LinesInFile` |
| `tso` | 4 lines, 1 word, 2 message values, store buffers of 4, 5 offers, 1 crash | type invariant, `ViewsConservative`, `NoLateWord`, `NoTornRead`, refinement of `SpscFifo`, `EverythingFlows` |
| `size_own` | 4 lines, 9 offers, callers producer and consumer, either load first | `SizeWasTrue` |
| `sessions_sink_first` | 4 lines, 2 runs of 5 messages, 2 sessions, all language pairs, a display between them | type invariant, `ReadsThisRun`, `NoOrderErrors`, `AtMostOnce`, `CountersInOrder`, `KeepsPromise` (refinement of `Session`), `ConsumerOwnsHead`, `SessionCompletes` |
| `restart_alone` | 2 lines, 2 runs of 3 messages, 2 restarts of a Java source or any sink | the queue survives: `CountersInOrder`, `AtMostOnce`, `ConsumerOwnsHead` |
| `cpp_source_restart` | 1 restart of a C++ source | *violated*: `ConsumerOwnsHead` |
| `any_start_order` | the Java programs in either order | *violated*: `SessionCompletes` |
| `queue_file_in_turn` | 3 processes, 5 starts, 2 blocks, 2 kills, waiting processes at any time | `StartsSucceed`, `SameFile`, `NothingWiped`, `WaitEnds` |
| `queue_file_at_once` | 2 processes, 2 starts, overlapping | *violated*: `NothingWiped` |
| `cache_line` | an array of 2 lines of 16 bytes, 1 line before and behind it, 2 stores | `RoundTrip` |
| `cache_line_bounds` | the same | *violated*: `StaysInLine` |

Bounds. Five offers in a ring of four go round it once and reuse lines, with
every number of messages in flight; two message values tell neighbours on a
line from each other; one crash reaches every half-done state of either side,
and the proofs cover the rest. The ring is full and empty again and again, which
is where a missed refresh would leave a side waiting. A store buffer of four
holds two messages with their `tail`s, so that two are under way to memory at
once; a message is one word there, as the programs send it, and mixtures of two
words are the business of `queue`. Nine offers in a ring of four take a caller
of `size()` who sleeps between two loads through a whole lap and more.
Eight bits are enough for counters to wrap many laps after the start for each
capacity. Five messages in a ring of four make the source wait within a run;
two runs and two sessions are the least with a predecessor whose leftovers
could be mistaken. Two blocks make a file that can be half written, and five
starts of three processes let each language create, join and come back. Two
stores are what it takes to overwrite a field or to leave one alone; a line of
16 bytes holds two of the largest fields, and the indexes put fields side by
side, over each other and across the end of the line.

Fairness. The programs call `preOffer` and `poll` in loops until they succeed
and then finish with the line, so each of those actions is weakly fair;
`peek`, `clear` and crashes are never obliged to happen, and the number of
crashes is bounded: with a crash before every release nothing could be
promised. A store does not stay in a store buffer for ever, so both drains are
weakly fair. In `IPCQueueMain` each process is a thread the operating system keeps
scheduling, hence weak fairness of its steps as a whole, and the person (or
test) who runs the session starts both programs; nobody has to start a display.
In `QueueFile` a process that has been started keeps running, and nobody has to
start or stop one. A failed compare-and-set or
`preOffer` changes nothing and is no step.

Deadlock is checked except in the runs of `QueueFile`, where every process may
have ended and the number of starts is used up, and in `restart_alone`, where
the two programs really may end up waiting for each other: the restarted one
counts from the start, the other does not.

### What the violations show

* `cpp_source_restart`: `(viewMask && (bool)IS_CONSUMER) != 0` is true for a
  producer, so the constructor of a C++ source runs `clear()`. In the trace the
  source comes back beside a live sink, its `poll()` loads `tail`, which counts a
  message the sink has not read, and stores it in `tailCache`, a word the consumer
  owns; `head` has not moved yet. If it goes on, `clear()` releases the message. With both processes
  loading and storing `head`, `CountersInOrder` fails then too: `head` passes `tail`,
  and the ring then looks almost full of messages nobody sent. In the order of
  the integration tests the queue is empty when the source starts and the fault
  stays hidden; `sessions_sink_first` shows exactly that.
* `any_start_order`: the source waits for `SYNC = 0`, which it has just written.
  It does not wait for a sink. What it offers before the sink's constructor
  returns is cleared; the sink then waits for messages that never come, and the
  source for a sink that never finishes. The README of the repository starts
  the Java source first.
* `queue_file_at_once`: the first process has created the file and given it its
  length, but not yet set it to zero. The second calls `mapProducerBuffer`, finds
  the file, maps it and stores into the queue; then the first process's
  `setMemory` sets what the second stored to zero. Longer behaviours of the same
  instance have both processes find no file: the slower one, in C++, opens the
  file and writes zeros over it; in Java it deletes the file, so that `SameFile`
  fails as well, or finds one in `mapNewFile` and ends (`StartsSucceed`).
* `cache_line_bounds`: the bounds check compares an index into the line with the
  capacity of the file. In the trace a `putLong` at the last bytes of the first
  line of the array changes the first bytes of the second, which may be the line
  the other process holds.

### Where the properties stop

Some properties hold in the runs because of a condition that the code does not
enforce. Without it TLC finds them violated:

* `Displays = "any"`: the constructor of a display beside a live session takes
  messages off the queue while the sink waits for them (`KeepsPromise`). As two
  processes now load and store `head`, it can go back, a message is read twice,
  and `AtMostOnce`, `CountersInOrder`, `ReadsThisRun`, `NoOrderErrors` and
  `SessionCompletes` fail as well.
* `Callers = {"observer"}`: a third process loads `tail`, the two others go
  round the ring, it loads `head`; the masked difference is then no size the
  queue had meanwhile (`SizeWasTrue`), although `size()` is documented to return
  the number of items. The producer and the consumer, one of whose counters
  stands still during the call, are safe.
* `StartsSucceed` without `kills = 0`: a process killed while it creates the
  file leaves one that is too short. Every later process finds it, maps it and
  fails; nothing but removing it by hand helps.
* `StartsSucceed`, `NothingWiped` and `WaitEnds` without `early`:
  `waitForFileCreateMappedBuffer` maps the file as soon as it exists. While the
  creator is still writing it, the waiting process may map a file that is too
  short and fail, or map all of it, use the queue, and have the creator's
  `setMemory` wipe what it stored. No program of the repository calls it.
* `TestsExact` without `tail >= head` for `peek`: after 2^63 offers `tail` is
  negative while `head` is not, and `peek` takes that for an empty queue until
  `head` has wrapped too.

## The proofs

Each theorem holds for every value of the constants that satisfies the named
`ASSUME` of its module, and every one but `MaskedMod` states a property that a
run checks on a small instance. Where a theorem needs a condition beyond that, the condition is
written in its `ASSUME ... PROVE`. The inductive invariants below were checked
as invariants by TLC before they were proved.

| Theorem | Condition | Property |
|---|---|---|
| `SpscQueueProofs`: `TypeCorrect`, `CachesAreConservative`, `LinesAreExclusive`, `InFlightStaysIntact`, `ReadsAreNotTorn` | none | the safety invariants of `queue` |
| `SpscQueueProofs`: `Refinement` | none | `ImplementsFifo` |
| `SpscQueueTSOProofs`: `TypeCorrect`, `ViewsAreConservative`, `NoWordIsLate`, `ReadsAreNotTorn` | none | the safety invariants of `tso` |
| `SpscQueueTSOProofs`: `Refinement` | none | `ImplementsFifo` |
| `SpscSizeProofs`: `SizeIsTruthful` | the caller is the producer or the consumer | `SizeWasTrue` |
| `QueueFileProofs`: `UsersShareTheFile`, `NobodyWipes`, `EveryStartSucceeds` | `OneAtATime` | `SameFile`, `NothingWiped`, `StartsSucceed` |
| `IPCQueueMainProofs`: `SessionsKeepTypes`, `SessionsReadThisRun`, `SessionsAreInOrder`, `SessionsReadOnce`, `SessionsKeepCounters`, `SessionsKeepOwner`, `SessionsKeepPromise` | the sink is up first, nobody is restarted alone, displays run alone or never | every safety property of `sessions_sink_first`, the refinement of `Session` included |
| `IPCQueueMainProofs`: `RestartsKeepCounters`, `RestartsReadOnce`, `RestartsKeepOwner` | a Java source, displays alone or never | the properties of `restart_alone` |
| `QueueLayoutProofs`: `MaskedMod` | none | `Masked(x) = x % capacity`, bit by bit, for every integer `x` |
| `QueueLayoutProofs`: `MasksAreExact`, `LinesStayApart` | none | `TestsExact`, `LinesApart` |
| `QueueLayoutProofs`: `LinesStayInFile` | `CPUStats` reports lines of 64 bytes or more | `LinesInFile` |
| `CacheLineProofs`: `StoresAreReadBack` | `CallersKeepTo`: ints, floats and strings in the native order, fields within bounds | `RoundTrip` |

The conditions are those of the runs, and each is needed: the violated runs and
"Where the properties stop" show what happens without it. `RestartsKeepCounters`
and its companions are stronger than their run, which also starts the sink
first. The constants' own assumptions are a capacity of at least two (a ring of
one line never has room), messages made of words, and a value for "not read"
that no word has. That the capacity is a power of two is not needed for the
modulus; it is needed for the mask to be a modulus, which is `MaskedMod`.

`LinesStayInFile` and `StoresAreReadBack` have conditions that the code leaves to
others. The C++ file has lines of the size `CPUStats` reports, but its layout has
lines of 64 bytes, so a smaller report makes it too short. The plain `putInt`,
`putBytes` from an array and the bytes of a string are stored without a bounds
check, so only callers can keep them inside; and the foreign byte order is where
`RoundTrip` fails (see `CacheLine` above). The constants of `CacheLine.cfg`
satisfy `CallersKeepTo`.

### The arguments

**`RingTheorems`**: within less than a lap the masked tests of `preOffer` and
`poll` are exact (`ModFull`, `ModEmpty`) and different positions are different
lines (`ModDistinct`). All that follows keeps the counters within a lap.

**`SpscQueue`**. None of the properties is inductive alone. `IndInv` adds what
each process knows while it holds a line: `CountersInv` ties the counters to the
history and orders them, `headCache <= head <= tailCache <= tail` with
`tail - headCache < Capacity`; `ProducerInv` says that a claimed line is the one
`tail` points at, that there is still a spare line, and that the words written
so far are the message's; `ConsumerInv` says that a held line is the one `head`
points at and that a message is there (and, after `poll`, that `tailCache` says
so, which `releaseCacheLine` needs in order not to overtake it). So the producer
never writes into a line in flight (`ClaimedLineIsFree`), messages stay whole,
and what the consumer reads is the oldest message. The refinement follows:
`Offer` is `SpscFifo!Offer`, `Release` is `Take` or `Drop`, every other step
stutters.

**`SpscQueueTSO`**. There are six views of two counters; `ViewsConservative`
orders them. New is what is on its way to memory: every store in the producer's
buffer is to a position between `tail` and `pTail` and carries the word that
belongs there (`BufferInv`), and the buffer is sorted by position
(`BufferOrder`). Every word that has been stored is in the buffer or in memory
(`WordsInv`). As nothing in the buffer is older than `tail`, a message the
consumer can see is in memory. `DrainProducer` is the step that needs all of it:
the word that arrives overwrites a line whose former message has been released.

**`SpscSize`**. A step of the queue beside a caller of `size()` is a step of the
queue, so `IndInv` carries over. `CallInv` says that the caller's own counter
stands still: if it was loaded first, the answer is the size at the second load;
if the other one was, the size at the first, which `truths` remembers.

**`QueueFile`**. `FileInv` says that at most one process is in
`mapProducerBuffer` (`OneStarting`), what each process may rely on at each step
(`Relies`: a process about to create a file knows that there is none; while one
writes it, only early ones have it mapped (`OnlyEarly`); one that has mapped the
file has the one that bears the name; one that uses it and did not come early
has its own stores in every block), and that the file is complete or being
written unless its creator was killed (`Complete`). `MapExisting` is the step
that divides them: if nobody writes the file, what is mapped is all of it.

**`IPCQueueMain`**. `BaseInv` holds in both ways of using the programs: the
control flow of `main` (`Flow`), the order of the counters, and what a process
inside `poll()` or `releaseCacheLine()` still knows about `head` and `tailCache`
(`PollInv`). Its preservation needs `Solo`: two processes are inside `poll()`
only while there is nothing to take. With a Java source, `Solo` holds because
only the sink polls (`RestartInv`). In sessions it is a consequence of the
handshake, so `SessionInv` has to say how far the two programs are:

* `SinkUp`, `ClearInv`: while the sink's constructor clears there is no source,
  and it ends with an empty queue;
* `InStep`: the programs are in the same run and the queue holds exactly what
  one has offered and the other not released, or only the last wait of the
  source is left;
* `SyncInv`: where the source is, `SYNC` says, and in its last wait whether the
  sink is done;
* `SlotsInv`, `OrderInv`: each line between `head` and `tail` holds the message
  due there, and the sink expects the one at `head`.

`BeginConsumerRun` and `EndProducerRun` are the steps where `SYNC` decides
between the two cases of `InStep`. The refinement maps `Offer` to
`Session!Offer`, the sink's `ReleaseStoreHead` to `Read`, the ends of the runs
to `SinkEnds` and `SourceEnds`, and `NewSession` to `StartOver`.

**`QueueLayout`**. `And` is whatever number has the right bits, so the proof is
about bits. The prover knows nothing of powers but single values; that
they double is the assumption `PowersOfTwo`, which TLC evaluates. Induction over
exponents is replaced by the least counterexample (`Least`, from the library's
well-foundedness of the naturals). From it: powers are positive, ordered, and
split at any bit (`PowProduct`, `PowSplit`); `2^k - 1` has ones below bit `k` and
zeros above (`BitsOfMask`); `x % 2^k` has the bits of `x` below `k` (`LowBits`);
a number of `k` bits is known by them (`BitsUnique`). Hence `AndMask`: `x` and
`2^k - 1` is `x % 2^k`. A capacity divides `2^W`, so wrapping to a word does not
change what is left modulo the capacity: `MaskedMod`. `LayoutInv` says that both
counters are words, that fewer than `capacity` messages are in flight, and that
`tail` is the word `head + inFlight` wraps to; `WrapTwice` (wrapping at every
step is wrapping at the end) makes it inductive. For `peek` it takes besides that
a capacity is smaller than half the words.

**`CacheLine`**. `AccessInv` says of every live field where it lies, that its
size and order fit its type (`Shape`), that it lies within the bounds of the
window it was stored through, and for each of its bytes what memory holds
there (`Byte`). `StoreKeeps` is the heart: a store whose bytes are exactly those
the caller means leaves every field that lies apart from it alone. `putFloat` in
the foreign order, which stores eight bytes for four, is no such store. The loads
then undo the stores: reversing twice (`ForeignLoad`), and a string by its length,
whose bytes are those of one number only (`IntBitsInjective`, `StringLoad`).

### Only model-checked

Liveness (`EverythingFlows`, `SessionCompletes`, `WaitEnds`), which is out of the
prover's reach. Every other property of a passing run is a theorem.

## Not modelled

Every operation of the queue, its file, its cache lines and its programs that
changes shared state is an action of a module, and every safety property of a
passing run is proved.

That `clear()` ends is not promised beside a busy producer; in the models it
ends because the number of offers is bounded. Of a restarted program it is only
checked that the queue stays consistent, as the repository promises no more.

Left out for good: `CPUStats`, `QueueConfiguration`, `vn.tech` and the command
lines (they select strings and sizes and keep no shared state), the throughput
measurements, and the Aeron, Catch and gmock sources under `cppbuild`. These
third-party files are nearly all the lines of the repository; its own programs
are fewer than three thousand. Two limits are
assumptions: `CPUStats` reports a line of at least 64 bytes (a smaller report
would make the file shorter than the layout), and in `SpscQueue` and
`SpscQueueTSO` fewer than 2^63 messages pass before Java's `peek` is used (see
"Where the properties stop").
