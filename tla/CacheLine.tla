------------------------------ MODULE CacheLine ------------------------------
(***************************************************************************)
(* CacheLine.java: typed loads and stores through a window on the mapped   *)
(* file.  wrap() gives the window the capacity of the whole file, and      *)
(* updateWrap(), which preOffer, poll and peek call, moves only its        *)
(* address, to a line of the array.                                        *)
(*                                                                         *)
(* A value is known by the number of the store that wrote it.  Byte k of a *)
(* value is its k-th least significant one; the native order is little     *)
(* endian.  `live' remembers the fields whose own bytes no later store was *)
(* told to overwrite.                                                      *)
(***************************************************************************)
EXTENDS Integers, Sequences, SequencesExt

CONSTANTS LineLength,     \* bytes of a line (64 in the code)
          HeaderLines,    \* lines before the array (4 in the code), and behind it
          Lines,          \* lines of the array
          Indexes,        \* where in the window callers put fields
          Lengths,        \* lengths of byte arrays and strings
          Orders,         \* byte orders callers use for ints, floats and strings
          MaxPuts         \* bound: stores

ASSUME AccessAssumption ==
    /\ LineLength \in Nat /\ HeaderLines \in Nat /\ Lines \in Nat \ {0}
    /\ Indexes \subseteq Nat /\ Lengths \subseteq Nat
    /\ Orders \subseteq {"plain", "native", "foreign"}
    /\ MaxPuts \in Nat

VARIABLES mem, addressOffset, live, puts

vars == <<mem, addressOffset, live, puts>>

\* wrap() takes the capacity of the buffer, here the file.
capacity == LineLength * (2 * HeaderLines + Lines)

\* Where a line of the array is in the file.
calcElementOffset(line) == LineLength * (HeaderLines + line)

\* The file, and what lies behind it: a window on a line of the array that has
\* the capacity of the file reaches far behind its end.
Addresses == 0 .. 2 * capacity - 1

Blank == <<0, 0>>
SignByte(id) == <<id, 0>>

\* The bytes of value number id, least significant first, and of the number n.
Value(size, id) == [k \in 1 .. size |-> <<id, k>>]
IntBits(n) == [k \in 1 .. 4 |-> <<-1 - n, k>>]

Size == [byte |-> 1, short |-> 2, char |-> 2, int |-> 4, float |-> 4,
         long |-> 8, double |-> 8]

\* reverseBytes, unless the order is the native one.
InOrder(bits, order) == IF order = "foreign" THEN Reverse(bits) ELSE bits

boundsCheck(index, size) == index >= 0 /\ size >= 0 /\ index + size <= capacity

Peeked(a, size) == [k \in 1 .. size |-> mem[a + k - 1]]

-----------------------------------------------------------------------------
(* Loads, at an address within bounds *)

GetLong_NativeOnly(a, order)  == Peeked(a, 8)
GetLong(a, order)   == InOrder(Peeked(a, 8), order)
GetInt(a, order)    == Peeked(a, 4)                     \* whatever the order
GetDouble(a, order) == InOrder(Peeked(a, 8), order)
GetFloat(a, order)  == InOrder(Peeked(a, 4), order)
GetShort(a, order)  == InOrder(Peeked(a, 2), order)
GetChar(a, order)   == InOrder(Peeked(a, 2), order)
GetByte(a)          == Peeked(a, 1)
GetBytes(a, n)      == Peeked(a, n)

\* The length comes first, as an int; bytes that are no length give no string.
GetStringUtf8(a, order) ==
    {GetBytes(a + 4, n) : n \in {k \in Lengths : GetInt(a, order) = IntBits(k)}}

Get(f) ==
    CASE f.type = "long"   -> GetLong(f.at, f.order)
      [] f.type = "int"    -> GetInt(f.at, f.order)
      [] f.type = "double" -> GetDouble(f.at, f.order)
      [] f.type = "float"  -> GetFloat(f.at, f.order)
      [] f.type = "short"  -> GetShort(f.at, f.order)
      [] f.type = "char"   -> GetChar(f.at, f.order)
      [] f.type = "byte"   -> GetByte(f.at)
      [] f.type = "bytes"  -> GetBytes(f.at, f.size)

\* The bounds checks of the loads: getInt has none, and the bytes of a string
\* are loaded from behind its length.
Loadable(f) ==
    CASE f.type = "int"    -> TRUE
      [] f.type = "string" -> boundsCheck(f.index + 4, f.size - 4)
      [] OTHER             -> boundsCheck(f.index, f.size)

-----------------------------------------------------------------------------
(* Stores *)

\* Field f does not share a byte with the n bytes at a.
Apart(f, a, n) == f.at >= a + n \/ f.at + f.size <= a

\* Bytes `bits' go to the window at index; the caller means a field of `size'.
Store(type, index, order, size, bits) ==
    LET a == addressOffset + index
    IN  /\ puts < MaxPuts
        /\ puts' = puts + 1
        /\ mem' = [x \in Addresses |->
                      IF x - a + 1 \in DOMAIN bits THEN bits[x - a + 1] ELSE mem[x]]
        /\ live' = {f \in live : Apart(f, a, size)} \cup
                   {[type |-> type, index |-> index, at |-> a, order |-> order,
                     size |-> size, id |-> puts + 1]}
        /\ UNCHANGED addressOffset

PutOrdered(type, index, order) ==
    /\ boundsCheck(index, Size[type])
    /\ Store(type, index, order, Size[type], InOrder(Value(Size[type], puts + 1), order))

PutLong(index, order)   == PutOrdered("long", index, order)
PutDouble(index, order) == PutOrdered("double", index, order)
PutShort(index, order)  == PutOrdered("short", index, order)
PutChar(index, order)   == PutOrdered("char", index, order)
PutByte(index)          == PutOrdered("byte", index, "plain")

\* The plain putInt checks no bounds.
PutInt(index, order) ==
    /\ order # "plain" => boundsCheck(index, 4)
    /\ Store("int", index, order, 4, InOrder(Value(4, puts + 1), order))

\* getAndSet, getAndAdd and addOrdered, in place and in the native order: the
\* sum is a value nobody else has stored.
Update(type, index) == PutOrdered(type, index, "plain")

\* compareAndSet, of a caller who expects value number id.
CompareAndSet(type, index, id) ==
    /\ boundsCheck(index, Size[type])
    /\ IF Peeked(addressOffset + index, Size[type]) = Value(Size[type], id)
       THEN PutOrdered(type, index, "plain")
       ELSE UNCHANGED vars

\* A float in the foreign order is stored as a long, sign and all.
PutFloat(index, order) ==
    /\ boundsCheck(index, 4)
    /\ Store("float", index, order, 4,
             IF order = "foreign"
             THEN Reverse(Value(4, puts + 1)) \o [k \in 1 .. 4 |-> SignByte(puts + 1)]
             ELSE Value(4, puts + 1))

\* putBytes checks bounds unless it copies from an array, as a string that is
\* stored without its length does.
PutBytes(index, n, source) ==
    /\ source # "array" => boundsCheck(index, n)
    /\ Store("bytes", index, "plain", n, Value(n, puts + 1))

\* putStringUtf8: the length, then the bytes, of an array.
PutStringUtf8(index, n, order) ==
    /\ boundsCheck(index, 4)
    /\ Store("string", index, order, 4 + n,
             InOrder(IntBits(n), order) \o Value(n, puts + 1))

\* setMemory with zero.
SetMemory(index, size) ==
    LET a == addressOffset + index
    IN  /\ boundsCheck(index, size)
        /\ puts < MaxPuts
        /\ puts' = puts + 1
        /\ mem' = [x \in Addresses |-> IF x \in a .. a + size - 1 THEN Blank ELSE mem[x]]
        /\ live' = {f \in live : Apart(f, a, size)}
        /\ UNCHANGED addressOffset

\* preOffer, poll and peek move the window to a line of the array.
UpdateWrap(line) ==
    /\ addressOffset' = calcElementOffset(line)
    /\ UNCHANGED <<mem, live, puts>>

-----------------------------------------------------------------------------

\* The window is where the first preOffer leaves it.
Init ==
    /\ mem = [x \in Addresses |-> Blank]
    /\ addressOffset = calcElementOffset(0)
    /\ live = {} /\ puts = 0

Next ==
    \/ \E line \in 0 .. Lines - 1 : UpdateWrap(line)
    \/ \E index \in Indexes, order \in {"plain", "native", "foreign"} :
          \/ PutLong(index, order) \/ PutDouble(index, order)
          \/ PutShort(index, order) \/ PutChar(index, order)
    \/ \E index \in Indexes, order \in Orders :
          PutInt(index, order) \/ PutFloat(index, order)
    \/ \E index \in Indexes : PutByte(index)
    \/ \E index \in Indexes, type \in {"int", "long"} :
          Update(type, index) \/ \E id \in 1 .. puts : CompareAndSet(type, index, id)
    \/ \E index \in Indexes, n \in Lengths :
          \/ \E source \in {"array", "buffer"} : PutBytes(index, n, source)
          \/ \E order \in Orders : PutStringUtf8(index, n, order)
    \/ \E index \in Indexes : SetMemory(index, LineLength \div 2)

Spec == Init /\ [][Next]_vars

-----------------------------------------------------------------------------

\* What was stored is read back by the load of the same type and order, until
\* something is stored over it: stores touch no byte but their own, whichever
\* line the window is moved to in between, and the load's bounds check accepts
\* what the store let through.
RoundTrip ==
    \A f \in live :
        /\ Loadable(f)
        /\ IF f.type = "string"
           THEN GetStringUtf8(f.at, f.order) = {Value(f.size - 4, f.id)}
           ELSE Get(f) = Value(f.size, f.id)

\* "Models an off heap CacheLine ... (i.e. 64 bytes)": a store changes only
\* bytes of the line the window is on.
StaysInLine ==
    [][\A x \in Addresses : mem'[x] # mem[x] =>
          x \in addressOffset .. addressOffset + LineLength - 1]_vars
=============================================================================
