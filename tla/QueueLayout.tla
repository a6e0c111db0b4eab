----------------------------- MODULE QueueLayout -----------------------------
(***************************************************************************)
(* Where things are in the queue's file, and the arithmetic that finds     *)
(* them: the header, the lines, masks instead of moduli, and counters that *)
(* are W-bit two's complement words and wrap around.                       *)
(*                                                                         *)
(* SpscQueue counts in unbounded naturals modulo Capacity; the properties  *)
(* here are what makes that a fair picture of the code.  head and tail     *)
(* walk through every value a word can have, for every capacity.           *)
(***************************************************************************)
EXTENDS Integers

CONSTANTS W,            \* bits of a counter (64 in the code)
          Capacities,   \* capacities to try, powers of two
          LineSizes     \* what CPUStats may report as the cache line size

ASSUME LayoutAssumption ==
    /\ W \in Nat \ {0}
    /\ Capacities \subseteq {2^k : k \in 1 .. W - 2}
    /\ LineSizes \subseteq Nat

\* Arithmetic of the powers of two that occur here.
ASSUME PowersOfTwo == \A n \in 0 .. W - 1 : 2^(n + 1) = 2 * 2^n

VARIABLES capacity, lineSize, head, tail,
          inFlight      \* messages offered and not released (history)

vars == <<capacity, lineSize, head, tail, inFlight>>

CACHE_LINE_LENGTH == 64
QUEUE_HEADER_SIZE == 8

\* The lines follow the four header lines the constructor sets aside.
arrayBase == 4 * CACHE_LINE_LENGTH

\* The file the constructor of QueueMemoryMappedBuffer asks for: C++ uses the
\* line size of the machine, Java the constant.
fileSize_NoHeader == capacity * lineSize
fileSize == (QUEUE_HEADER_SIZE + capacity) * lineSize

\* The word that a sum or difference of counters wraps to.  Java defines it so;
\* in C++ the overflow of an int64_t is undefined, and this is what the machine
\* instructions that the build emits for these sums do.
Wrap(x) == ((x + 2^(W - 1)) % 2^W) - 2^(W - 1)

mask_NotMinusOne == capacity
mask == capacity - 1

\* x & y, bit by bit.
Bit(x, n) == (x \div 2^n) % 2
And(x, y) == CHOOSE z \in 0 .. y : \A n \in 0 .. W - 1 : Bit(z, n) = Bit(x, n) * Bit(y, n)

\* x & mask, on the bits of the word x.
Masked(x) == And(Wrap(x) % 2^W, mask)

LooksFull == Masked(tail + 1 - head) = 0
LooksEmpty == Masked(head - tail) = 0
size == Masked(tail - head)

\* peek() compares the words themselves, as signed numbers.
peekFindsNothing(tailCache) == head >= tailCache /\ head >= tail

calcElementOffset_HalfLines(pos) == arrayBase + Masked(pos) * 2^5
calcElementOffset(pos) == arrayBase + Masked(pos) * 2^6

-----------------------------------------------------------------------------

Init ==
    /\ capacity \in Capacities
    /\ lineSize \in LineSizes
    /\ head = 0 /\ tail = 0 /\ inFlight = 0

Offer ==
    /\ ~LooksFull
    /\ tail' = Wrap(tail + 1)
    /\ inFlight' = inFlight + 1
    /\ UNCHANGED <<capacity, lineSize, head>>

Release ==
    /\ ~LooksEmpty
    /\ head' = Wrap(head + 1)
    /\ inFlight' = inFlight - 1
    /\ UNCHANGED <<capacity, lineSize, tail>>

Next == Offer \/ Release

Spec == Init /\ [][Next]_vars

-----------------------------------------------------------------------------

\* The tests of preOffer and poll and the result of size() are exact at every
\* counter value, also when one counter has wrapped to the negative numbers and
\* the other has not.  peek(), which does not mask, is exact whenever both or
\* neither have, however old the copy of tail is.
TestsExact ==
    /\ LooksFull <=> inFlight = capacity - 1
    /\ LooksEmpty <=> inFlight = 0
    /\ size = inFlight
    /\ tail >= head => \A seen \in 0 .. inFlight :
          peekFindsNothing(Wrap(head + seen)) <=> inFlight = 0

\* The lines of the messages in flight and of the one being written never
\* overlap, wherever the counters are.
LinesApart ==
    \A m, n \in 0 .. inFlight :
        m < n => LET a == calcElementOffset(head + m)
                     b == calcElementOffset(head + n)
                 IN  a + CACHE_LINE_LENGTH <= b \/ b + CACHE_LINE_LENGTH <= a

\* Every line lies behind the header and inside the file.
LinesInFile ==
    \A m \in 0 .. inFlight :
        LET a == calcElementOffset(head + m)
        IN  arrayBase <= a /\ a + CACHE_LINE_LENGTH <= fileSize
=============================================================================
