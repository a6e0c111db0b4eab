--------------------------- MODULE CacheLineProofs ---------------------------
(***************************************************************************)
(* What is stored through the window is read back from it: for every size  *)
(* of line and file, and however many stores.                              *)
(***************************************************************************)
EXTENDS CacheLine, TLAPS

\* The callers' part: ints, floats and strings in the native order, and no
\* field out of bounds, which putInt, putBytes and putStringUtf8 do not check.
CallersKeepTo ==
    /\ "foreign" \notin Orders
    /\ \A index \in Indexes :
          /\ index + 4 <= capacity
          /\ \A n \in Lengths : index + 4 + n <= capacity

\* The size and the order of a field of each type.
Shape(f) ==
    \/ f.type \in {"long", "double"} /\ f.size = 8
    \/ f.type \in {"short", "char"} /\ f.size = 2
    \/ f.type = "byte" /\ f.size = 1 /\ f.order # "foreign"
    \/ f.type \in {"int", "float"} /\ f.size = 4 /\ f.order # "foreign"
    \/ f.type = "bytes" /\ f.order # "foreign"
    \/ f.type = "string" /\ f.size - 4 \in Lengths /\ f.order # "foreign"

\* Byte k of a field, as it lies in memory.
Byte(f, k) ==
    IF f.type = "string"
    THEN IF k <= 4 THEN <<-1 - (f.size - 4), k>> ELSE <<f.id, k - 4>>
    ELSE IF f.order = "foreign" THEN <<f.id, f.size - k + 1>> ELSE <<f.id, k>>

\* Every field that no later store was told to overwrite is still in memory.
FieldsInv ==
    \A f \in live :
        /\ Shape(f)
        /\ f.at \in Nat /\ f.size \in Nat /\ f.at + f.size <= 2 * capacity
        /\ f.index \in Nat /\ f.index + f.size <= capacity
        /\ \A k \in 1 .. f.size : mem[f.at + k - 1] = Byte(f, k)

AccessInv == addressOffset \in 0 .. capacity /\ FieldsInv

-----------------------------------------------------------------------------

LEMMA Constants == capacity \in Nat /\ Indexes \subseteq Nat /\ Lengths \subseteq Nat
BY AccessAssumption DEF capacity

\* Every line of the array is in the file.
LEMMA LineInFile ==
    ASSUME NEW line \in 0 .. Lines - 1
    PROVE  calcElementOffset(line) \in 0 .. capacity
<1> DEFINE m == HeaderLines + line
           n == 2 * HeaderLines + Lines
<1>1. LineLength \in Nat /\ m \in Nat /\ n \in Nat /\ m <= n
  BY AccessAssumption
<1>2. calcElementOffset(line) = LineLength * m /\ capacity = LineLength * n
  BY DEF calcElementOffset, capacity
<1> HIDE DEF m, n
<1>3. LineLength * m \in Nat /\ LineLength * n \in Nat /\ LineLength * m <= LineLength * n
  BY <1>1
<1> QED BY <1>2, <1>3

\* The field a store adds to live.
NewField(type, index, order, size) ==
    [type |-> type, index |-> index, at |-> addressOffset + index, order |-> order,
     size |-> size, id |-> puts + 1]

\* A store of the bytes of a field leaves the other fields alone.
LEMMA StoreKeeps ==
    ASSUME AccessInv, NEW type, NEW index \in Nat, NEW order, NEW size \in Nat, NEW bits,
           Store(type, index, order, size, bits),
           index + size <= capacity,
           DOMAIN bits = 1 .. size,
           Shape(NewField(type, index, order, size)),
           \A k \in 1 .. size : bits[k] = Byte(NewField(type, index, order, size), k)
    PROVE  AccessInv'
<1> DEFINE a == addressOffset + index
<1>0. PICK f : f = NewField(type, index, order, size)
  OBVIOUS
<1>1. capacity \in Nat /\ addressOffset \in Nat /\ addressOffset <= capacity
  BY Constants DEF AccessInv
<1>2. a \in Nat /\ a + size <= 2 * capacity
  BY <1>1
<1>3. /\ mem' = [x \in Addresses |->
                    IF x - a + 1 \in DOMAIN bits THEN bits[x - a + 1] ELSE mem[x]]
      /\ live' = {g \in live : Apart(g, a, size)} \cup {f}
      /\ addressOffset' = addressOffset
  BY <1>0 DEF Store, NewField
<1>4. /\ f.at = a /\ f.index = index /\ f.size = size /\ Shape(f)
      /\ \A k \in 1 .. size : bits[k] = Byte(f, k)
  BY <1>0 DEF NewField
<1> HIDE DEF a
<1>5. \A k \in 1 .. size : mem'[a + k - 1] = Byte(f, k)
  <2> SUFFICES ASSUME NEW k \in 1 .. size PROVE mem'[a + k - 1] = Byte(f, k)
    OBVIOUS
  <2>1. a + k - 1 \in Addresses /\ (a + k - 1) - a + 1 = k
    BY <1>1, <1>2 DEF Addresses
  <2> QED BY <1>3, <1>4, <2>1
<1>6. ASSUME NEW g \in live, Apart(g, a, size)
      PROVE  \A k \in 1 .. g.size : mem'[g.at + k - 1] = mem[g.at + k - 1]
  <2> SUFFICES ASSUME NEW k \in 1 .. g.size PROVE mem'[g.at + k - 1] = mem[g.at + k - 1]
    OBVIOUS
  <2>1. g.at \in Nat /\ g.size \in Nat /\ g.at + g.size <= 2 * capacity
    BY DEF AccessInv, FieldsInv
  <2> DEFINE y == g.at + k - 1
  <2>2. g.at >= a + size \/ g.at + g.size <= a
    BY <1>6 DEF Apart
  <2>3. y \in Addresses
    BY <1>1, <2>1 DEF Addresses
  <2>4. ~(y - a + 1 \in 1 .. size)
    BY <1>2, <2>1, <2>2
  <2> HIDE DEF y
  <2>5. mem'[y] = mem[y]
    BY <1>3, <2>3, <2>4
  <2> QED BY <2>5 DEF y
<1>7. FieldsInv'
  <2> SUFFICES ASSUME NEW g \in live'
               PROVE  /\ Shape(g)
                      /\ g.at \in Nat /\ g.size \in Nat /\ g.at + g.size <= 2 * capacity
                      /\ g.index \in Nat /\ g.index + g.size <= capacity
                      /\ \A k \in 1 .. g.size : mem'[g.at + k - 1] = Byte(g, k)
    BY DEF FieldsInv, Shape, Byte, capacity
  <2>1. CASE g = f
    BY <1>2, <1>4, <1>5, <2>1
  <2>2. CASE g \in live /\ Apart(g, a, size)
    BY <1>6, <2>2 DEF AccessInv, FieldsInv
  <2> QED BY <1>3, <2>1, <2>2
<1> QED BY <1>3, <1>7 DEF AccessInv, capacity

-----------------------------------------------------------------------------
(* The bytes of each store *)

LEMMA ValueBytes ==
    ASSUME NEW n \in Nat, NEW id
    PROVE  /\ DOMAIN Value(n, id) = 1 .. n
           /\ \A k \in 1 .. n : Value(n, id)[k] = <<id, k>>
BY DEF Value

LEMMA ReverseBytes ==
    ASSUME NEW n \in Nat, NEW s, s = [k \in 1 .. n |-> s[k]]
    PROVE  /\ DOMAIN Reverse(s) = 1 .. n
           /\ \A k \in 1 .. n : Reverse(s)[k] = s[n - k + 1]
<1>1. Len(s) = n
  OBVIOUS
<1> QED BY <1>1 DEF Reverse

LEMMA StringBytes ==
    ASSUME NEW n \in Nat, NEW id
    PROVE  LET s == IntBits(n) \o Value(n, id)
           IN  /\ DOMAIN s = 1 .. 4 + n
               /\ \A k \in 1 .. 4 + n :
                     s[k] = IF k <= 4 THEN <<-1 - n, k>> ELSE <<id, k - 4>>
BY DEF IntBits, Value

\* Values in either order.
LEMMA OrderedBytes ==
    ASSUME NEW n \in Nat, NEW id, NEW order
    PROVE  LET s == InOrder(Value(n, id), order)
           IN  /\ DOMAIN s = 1 .. n
               /\ \A k \in 1 .. n :
                     s[k] = IF order = "foreign" THEN <<id, n - k + 1>> ELSE <<id, k>>
<1>1. CASE order = "foreign"
  <2>1. Value(n, id) = [k \in 1 .. n |-> Value(n, id)[k]]
    BY DEF Value
  <2>2. /\ DOMAIN Reverse(Value(n, id)) = 1 .. n
        /\ \A k \in 1 .. n : Reverse(Value(n, id))[k] = Value(n, id)[n - k + 1]
    BY <2>1, ReverseBytes
  <2>3. \A k \in 1 .. n : n - k + 1 \in 1 .. n
    OBVIOUS
  <2> QED BY <1>1, <2>2, <2>3, ValueBytes DEF InOrder
<1>2. CASE order # "foreign"
  BY <1>2, ValueBytes DEF InOrder
<1> QED BY <1>1, <1>2

-----------------------------------------------------------------------------
(* The stores *)

\* A field that is not a string, its bytes in either order.
LEMMA StoreOrdered ==
    ASSUME AccessInv, NEW type, type # "string", NEW index \in Nat, NEW order, NEW n \in Nat,
           Store(type, index, order, n, InOrder(Value(n, puts + 1), order)),
           index + n <= capacity,
           Shape(NewField(type, index, order, n))
    PROVE  AccessInv'
<1> DEFINE f == NewField(type, index, order, n)
           bits == InOrder(Value(n, puts + 1), order)
<1>1. /\ DOMAIN bits = 1 .. n
      /\ \A k \in 1 .. n :
            bits[k] = IF order = "foreign" THEN <<puts + 1, n - k + 1>> ELSE <<puts + 1, k>>
  BY OrderedBytes
<1>2. f.type = type /\ f.order = order /\ f.size = n /\ f.id = puts + 1
  BY DEF NewField
<1> HIDE DEF bits, f
<1>3. \A k \in 1 .. n : bits[k] = Byte(f, k)
  BY <1>1, <1>2 DEF Byte
<1> QED BY <1>1, <1>3, StoreKeeps DEF bits, f

LEMMA PutOrderedKeeps ==
    ASSUME AccessInv, NEW index \in Nat, NEW order, NEW type,
           \/ type \in {"long", "double", "short", "char"}
           \/ type \in {"byte", "int"} /\ order # "foreign",
           PutOrdered(type, index, order)
    PROVE  AccessInv'
<1>1. Size[type] \in Nat /\ type # "string"
  BY DEF Size
<1>2. Shape(NewField(type, index, order, Size[type]))
  <2> DEFINE f == NewField(type, index, order, Size[type])
  <2>1. f.type = type /\ f.order = order /\ f.size = Size[type]
    BY DEF NewField
  <2> HIDE DEF f
  <2>2. Shape(f)
    BY <2>1 DEF Shape, Size
  <2> QED BY <2>2 DEF f
<1>3. /\ index + Size[type] <= capacity
      /\ Store(type, index, order, Size[type], InOrder(Value(Size[type], puts + 1), order))
  BY DEF PutOrdered, boundsCheck
<1> QED BY <1>1, <1>2, <1>3, StoreOrdered

LEMMA PutIntKeeps ==
    ASSUME AccessInv, CallersKeepTo, NEW index \in Indexes, NEW order \in Orders,
           PutInt(index, order)
    PROVE  AccessInv'
<1>1. index \in Nat /\ index + 4 <= capacity /\ order # "foreign" /\ 4 \in Nat
  BY Constants DEF CallersKeepTo
<1>2. Store("int", index, order, 4, InOrder(Value(4, puts + 1), order))
  BY DEF PutInt
<1>3. Shape(NewField("int", index, order, 4))
  BY <1>1 DEF Shape, NewField
<1> QED BY <1>1, <1>2, <1>3, StoreOrdered

LEMMA PutFloatKeeps ==
    ASSUME AccessInv, CallersKeepTo, NEW index \in Indexes, NEW order \in Orders,
           PutFloat(index, order)
    PROVE  AccessInv'
<1>1. index \in Nat /\ index + 4 <= capacity /\ order # "foreign" /\ 4 \in Nat
  BY Constants DEF CallersKeepTo
<1>2. Store("float", index, order, 4, InOrder(Value(4, puts + 1), order))
  BY <1>1 DEF PutFloat, InOrder
<1>3. Shape(NewField("float", index, order, 4))
  BY <1>1 DEF Shape, NewField
<1> QED BY <1>1, <1>2, <1>3, StoreOrdered

LEMMA PutBytesKeeps ==
    ASSUME AccessInv, CallersKeepTo, NEW index \in Indexes, NEW n \in Lengths, NEW source,
           PutBytes(index, n, source)
    PROVE  AccessInv'
<1>1. index \in Nat /\ n \in Nat /\ index + 4 + n <= capacity /\ capacity \in Nat
  BY Constants DEF CallersKeepTo
<1>2. index + n <= capacity
  BY <1>1
<1>3. Store("bytes", index, "plain", n, InOrder(Value(n, puts + 1), "plain"))
  BY DEF PutBytes, InOrder
<1>4. Shape(NewField("bytes", index, "plain", n))
  BY DEF Shape, NewField
<1> QED BY <1>1, <1>2, <1>3, <1>4, StoreOrdered

LEMMA PutStringUtf8Keeps ==
    ASSUME AccessInv, CallersKeepTo, NEW index \in Indexes, NEW n \in Lengths,
           NEW order \in Orders, PutStringUtf8(index, n, order)
    PROVE  AccessInv'
<1> DEFINE f == NewField("string", index, order, 4 + n)
           bits == IntBits(n) \o Value(n, puts + 1)
<1>1. index \in Nat /\ n \in Nat /\ index + 4 + n <= capacity /\ order # "foreign"
  BY Constants DEF CallersKeepTo
<1>2. index + (4 + n) <= capacity /\ 4 + n \in Nat /\ (4 + n) - 4 = n
  BY <1>1, Constants
<1>3. Store("string", index, order, 4 + n, bits)
  BY <1>1 DEF PutStringUtf8, InOrder
<1>4. f.type = "string" /\ f.order = order /\ f.size = 4 + n /\ f.id = puts + 1
  BY DEF NewField
<1>5. /\ DOMAIN bits = 1 .. 4 + n
      /\ \A k \in 1 .. 4 + n :
            bits[k] = IF k <= 4 THEN <<-1 - n, k>> ELSE <<puts + 1, k - 4>>
  BY <1>1, StringBytes
<1> HIDE DEF f, bits
<1>6. Shape(f)
  BY <1>1, <1>2, <1>4 DEF Shape
<1>7. \A k \in 1 .. 4 + n : bits[k] = Byte(f, k)
  BY <1>2, <1>4, <1>5 DEF Byte
<1> DEFINE m == 4 + n
<1>8. m \in Nat /\ index + m <= capacity /\ DOMAIN bits = 1 .. m
  BY <1>2, <1>5
<1>9. /\ Store("string", index, order, m, bits)
      /\ Shape(NewField("string", index, order, m))
      /\ \A k \in 1 .. m : bits[k] = Byte(NewField("string", index, order, m), k)
  BY <1>3, <1>6, <1>7 DEF f
<1> HIDE DEF m
<1> QED BY <1>1, <1>8, <1>9, StoreKeeps

LEMMA SetMemoryKeeps ==
    ASSUME AccessInv, NEW index \in Nat, NEW size \in Nat, SetMemory(index, size)
    PROVE  AccessInv'
<1> DEFINE a == addressOffset + index
<1>1. capacity \in Nat /\ a \in Nat
  BY Constants DEF AccessInv
<1>2. /\ mem' = [x \in Addresses |-> IF x \in a .. a + size - 1 THEN Blank ELSE mem[x]]
      /\ live' = {g \in live : Apart(g, a, size)}
      /\ addressOffset' = addressOffset
  BY DEF SetMemory
<1> HIDE DEF a
<1>3. ASSUME NEW g \in live, Apart(g, a, size)
      PROVE  \A k \in 1 .. g.size : mem'[g.at + k - 1] = mem[g.at + k - 1]
  <2> SUFFICES ASSUME NEW k \in 1 .. g.size PROVE mem'[g.at + k - 1] = mem[g.at + k - 1]
    OBVIOUS
  <2>1. g.at \in Nat /\ g.size \in Nat /\ g.at + g.size <= 2 * capacity
    BY DEF AccessInv, FieldsInv
  <2> DEFINE y == g.at + k - 1
  <2>2. g.at >= a + size \/ g.at + g.size <= a
    BY <1>3 DEF Apart
  <2>3. y \in Addresses
    BY <1>1, <2>1 DEF Addresses
  <2>4. ~(y \in a .. a + size - 1)
    BY <1>1, <2>1, <2>2
  <2> HIDE DEF y
  <2>5. mem'[y] = mem[y]
    BY <1>2, <2>3, <2>4
  <2> QED BY <2>5 DEF y
<1>4. FieldsInv'
  <2> SUFFICES ASSUME NEW g \in live'
               PROVE  /\ Shape(g)
                      /\ g.at \in Nat /\ g.size \in Nat /\ g.at + g.size <= 2 * capacity
                      /\ g.index \in Nat /\ g.index + g.size <= capacity
                      /\ \A k \in 1 .. g.size : mem'[g.at + k - 1] = Byte(g, k)
    BY DEF FieldsInv, Shape, Byte, capacity
  <2>1. g \in live /\ Apart(g, a, size)
    BY <1>2
  <2> QED BY <1>3, <2>1 DEF AccessInv, FieldsInv
<1> QED BY <1>2, <1>4 DEF AccessInv, capacity

LEMMA UpdateWrapKeeps ==
    ASSUME AccessInv, NEW line \in 0 .. Lines - 1, UpdateWrap(line)
    PROVE  AccessInv'
<1>1. calcElementOffset(line) \in 0 .. capacity
  BY LineInFile
<1>2. /\ addressOffset' = calcElementOffset(line)
      /\ mem' = mem /\ live' = live
  BY DEF UpdateWrap
<1>3. addressOffset' \in 0 .. capacity
  BY <1>1, <1>2
<1>4. FieldsInv'
  BY <1>2 DEF AccessInv, FieldsInv, Shape, Byte, capacity
<1> QED BY <1>3, <1>4 DEF AccessInv, capacity

-----------------------------------------------------------------------------

LEMMA InitAccessInv == Init => AccessInv
<1>1. 0 \in 0 .. Lines - 1
  BY AccessAssumption
<1>2. calcElementOffset(0) \in 0 .. capacity
  BY <1>1, LineInFile
<1> QED BY <1>2 DEF Init, AccessInv, FieldsInv

LEMMA NextAccessInv ==
    ASSUME CallersKeepTo, AccessInv, [Next]_vars
    PROVE  AccessInv'
<1>1. Indexes \subseteq Nat
  BY Constants
<1>2. CASE \E line \in 0 .. Lines - 1 : UpdateWrap(line)
  BY <1>2, UpdateWrapKeeps
<1>3. ASSUME NEW index \in Indexes, NEW order,
             \/ PutLong(index, order) \/ PutDouble(index, order)
             \/ PutShort(index, order) \/ PutChar(index, order)
      PROVE  AccessInv'
  BY <1>1, <1>3, PutOrderedKeeps DEF PutLong, PutDouble, PutShort, PutChar
<1>4. CASE \E index \in Indexes, order \in Orders : PutInt(index, order) \/ PutFloat(index, order)
  BY <1>4, PutIntKeeps, PutFloatKeeps
<1>5. ASSUME NEW index \in Indexes, PutByte(index) PROVE AccessInv'
  BY <1>1, <1>5, PutOrderedKeeps DEF PutByte
<1>6. ASSUME NEW index \in Indexes, NEW type \in {"int", "long"}, Update(type, index)
      PROVE  AccessInv'
  BY <1>1, <1>6, PutOrderedKeeps DEF Update
<1>7. CASE UNCHANGED vars
  BY <1>7 DEF vars, AccessInv, FieldsInv, Shape, Byte, capacity
<1>8. ASSUME NEW index \in Indexes, NEW type \in {"int", "long"}, NEW id,
             CompareAndSet(type, index, id)
      PROVE  AccessInv'
  <2>1. CASE PutOrdered(type, index, "plain")
    BY <1>1, <2>1, PutOrderedKeeps
  <2> QED BY <1>7, <1>8, <2>1 DEF CompareAndSet
<1>9. ASSUME NEW index \in Indexes, NEW n \in Lengths,
             \/ \E source \in {"array", "buffer"} : PutBytes(index, n, source)
             \/ \E order \in Orders : PutStringUtf8(index, n, order)
      PROVE  AccessInv'
  BY <1>9, PutBytesKeeps, PutStringUtf8Keeps
<1>10. ASSUME NEW index \in Indexes, SetMemory(index, LineLength \div 2)
       PROVE  AccessInv'
  <2>1. LineLength \div 2 \in Nat
    BY AccessAssumption
  <2> QED BY <1>1, <1>10, <2>1, SetMemoryKeeps
<1> QED BY <1>2, <1>3, <1>4, <1>5, <1>6, <1>7, <1>8, <1>9, <1>10 DEF Next

-----------------------------------------------------------------------------
(* The loads *)

\* The bytes of the number n are those of no other number.
LEMMA IntBitsInjective ==
    ASSUME NEW m \in Nat, NEW n \in Nat, IntBits(m) = IntBits(n)
    PROVE  m = n
<1>1. IntBits(m)[1] = <<-1 - m, 1>> /\ IntBits(n)[1] = <<-1 - n, 1>>
  BY DEF IntBits
<1>2. -1 - m = -1 - n
  BY <1>1
<1> QED BY <1>2

LEMMA PlainLoad ==
    ASSUME AccessInv, NEW f \in live, f.type # "string", f.order # "foreign"
    PROVE  Peeked(f.at, f.size) = Value(f.size, f.id)
<1>1. \A k \in 1 .. f.size : mem[f.at + k - 1] = <<f.id, k>>
  BY DEF AccessInv, FieldsInv, Byte
<1> QED BY <1>1 DEF Peeked, Value

LEMMA ForeignLoad ==
    ASSUME AccessInv, NEW f \in live, f.type # "string", f.order = "foreign"
    PROVE  Reverse(Peeked(f.at, f.size)) = Value(f.size, f.id)
<1> DEFINE n == f.size
           s == Peeked(f.at, f.size)
<1>1. n \in Nat /\ \A k \in 1 .. n : mem[f.at + k - 1] = <<f.id, n - k + 1>>
  BY DEF AccessInv, FieldsInv, Byte
<1>2. s = [k \in 1 .. n |-> s[k]] /\ \A k \in 1 .. n : s[k] = <<f.id, n - k + 1>>
  BY <1>1 DEF Peeked
<1> HIDE DEF s, n
<1>3. DOMAIN Reverse(s) = 1 .. n /\ \A k \in 1 .. n : Reverse(s)[k] = s[n - k + 1]
  BY <1>1, <1>2, ReverseBytes
<1>4. \A k \in 1 .. n : n - k + 1 \in 1 .. n /\ n - (n - k + 1) + 1 = k
  BY <1>1
<1>5. \A k \in 1 .. n : Reverse(s)[k] = <<f.id, k>>
  BY <1>2, <1>3, <1>4
<1>6. Reverse(s) = [k \in 1 .. n |-> Reverse(s)[k]]
  BY <1>1, <1>2, <1>3 DEF Reverse
<1>7. Reverse(s) = [k \in 1 .. n |-> <<f.id, k>>]
  BY <1>5, <1>6
<1> QED BY <1>7 DEF Value, s, n

LEMMA StringLoad ==
    ASSUME AccessInv, NEW f \in live, f.type = "string"
    PROVE  GetStringUtf8(f.at, f.order) = {Value(f.size - 4, f.id)}
<1> DEFINE n == f.size - 4
<1>1. n \in Lengths /\ n \in Nat /\ f.size = n + 4 /\ f.at \in Nat
  BY Constants DEF AccessInv, FieldsInv, Shape
<1>2. \A k \in 1 .. n + 4 :
         mem[f.at + k - 1] = IF k <= 4 THEN <<-1 - n, k>> ELSE <<f.id, k - 4>>
  BY <1>1 DEF AccessInv, FieldsInv, Byte
<1> HIDE DEF n
<1>3. GetInt(f.at, f.order) = IntBits(n)
  <2>1. \A k \in 1 .. 4 : k \in 1 .. n + 4 /\ k <= 4
    BY <1>1
  <2>2. \A k \in 1 .. 4 : mem[f.at + k - 1] = <<-1 - n, k>>
    BY <1>2, <2>1
  <2> QED BY <2>2 DEF GetInt, Peeked, IntBits
<1>4. GetBytes(f.at + 4, n) = Value(n, f.id)
  <2>1. \A k \in 1 .. n : mem[f.at + 4 + k - 1] = <<f.id, k>>
    <3> SUFFICES ASSUME NEW k \in 1 .. n PROVE mem[f.at + 4 + k - 1] = <<f.id, k>>
      OBVIOUS
    <3>1. /\ k + 4 \in 1 .. n + 4 /\ ~(k + 4 <= 4) /\ (k + 4) - 4 = k
          /\ f.at + (k + 4) - 1 = f.at + 4 + k - 1
      BY <1>1
    <3>2. mem[f.at + (k + 4) - 1] = <<f.id, (k + 4) - 4>>
      BY <1>2, <3>1
    <3> QED BY <3>1, <3>2
  <2> QED BY <2>1 DEF GetBytes, Peeked, Value
<1>5. {k \in Lengths : GetInt(f.at, f.order) = IntBits(k)} = {n}
  BY <1>1, <1>3, Constants, IntBitsInjective
<1>6. GetStringUtf8(f.at, f.order) = {GetBytes(f.at + 4, n)}
  BY <1>5 DEF GetStringUtf8
<1> QED BY <1>4, <1>6 DEF n

LEMMA TypedLoad ==
    ASSUME AccessInv, NEW f \in live, f.type # "string"
    PROVE  Get(f) = Value(f.size, f.id)
<1> DEFINE s == Peeked(f.at, f.size)
<1>1. InOrder(s, f.order) = Value(f.size, f.id)
  BY PlainLoad, ForeignLoad DEF InOrder
<1>2. f.order # "foreign" => s = Value(f.size, f.id)
  BY PlainLoad
<1>3. Shape(f)
  BY DEF AccessInv, FieldsInv
<1>4. CASE f.type \in {"long", "double"} /\ f.size = 8
  BY <1>1, <1>4 DEF Get, GetLong, GetDouble
<1>5. CASE f.type \in {"short", "char"} /\ f.size = 2
  BY <1>1, <1>5 DEF Get, GetShort, GetChar
<1>6. CASE f.type = "byte" /\ f.size = 1 /\ f.order # "foreign"
  BY <1>2, <1>6 DEF Get, GetByte
<1>7. CASE f.type \in {"int", "float"} /\ f.size = 4 /\ f.order # "foreign"
  BY <1>1, <1>2, <1>7 DEF Get, GetInt, GetFloat
<1>8. CASE f.type = "bytes" /\ f.order # "foreign"
  BY <1>2, <1>8 DEF Get, GetBytes
<1> QED BY <1>3, <1>4, <1>5, <1>6, <1>7, <1>8 DEF Shape

\* A field is loaded within the bounds it was stored in.
LEMMA LoadInBounds ==
    ASSUME AccessInv, NEW f \in live PROVE Loadable(f)
<1>1. /\ f.index \in Nat /\ f.size \in Nat /\ f.index + f.size <= capacity
      /\ Shape(f)
  BY DEF AccessInv, FieldsInv
<1>2. f.type = "string" => f.size - 4 \in Nat
  BY <1>1, Constants DEF Shape
<1>3. capacity \in Nat
  BY Constants
<1>4. f.type = "string" => boundsCheck(f.index + 4, f.size - 4)
  BY <1>1, <1>2, <1>3 DEF boundsCheck
<1>5. boundsCheck(f.index, f.size)
  BY <1>1, <1>3 DEF boundsCheck
<1> QED BY <1>4, <1>5 DEF Loadable

\* What was stored is read back by the load of the same type and order until
\* something is stored over it, whichever line the window is moved to: for
\* every size of line and file, all lengths and any number of stores, by
\* callers who keep ints, floats and strings in the native order and fields
\* within bounds.
THEOREM StoresAreReadBack ==
    ASSUME CallersKeepTo
    PROVE  Spec => []RoundTrip
<1>1. Init => AccessInv
  BY InitAccessInv
<1>2. AccessInv /\ [Next]_vars => AccessInv'
  BY NextAccessInv
<1>3. AccessInv => RoundTrip
  BY LoadInBounds, StringLoad, TypedLoad DEF RoundTrip
<1> QED BY <1>1, <1>2, <1>3, PTL DEF Spec
=============================================================================
