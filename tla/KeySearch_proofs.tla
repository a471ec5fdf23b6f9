--------------------------- MODULE KeySearch_proofs ---------------------------
(***************************************************************************)
(* Proofs about KeySearch, for every transaction, cut or whole, and        *)
(* whatever follows it in memory: the search for keys stays inside the     *)
(* bytes the parser was given, also where it reads arrays in arrays, and   *)
(* what it finds are pieces of those bytes; all its searches together find *)
(* what one walk over the map finds; the address on the screen has every   *)
(* bit of the key that is signed.                                          *)
(***************************************************************************)
EXTENDS AddressText, NaturalsInduction, WellFoundedInduction, TLAPS

\* Any set of natural numbers that is not empty has a first one.
LEMMA FirstPosition ==
    ASSUME NEW S, S \subseteq Nat, S # {}
    PROVE  \E x \in S : \A y \in S : x <= y
<1> DEFINE less == {ss \in Nat \X Nat : ss[1] < ss[2]}
<1>1. IsWellFoundedOn(less, Nat)
  BY NatLessThanWellFounded, Zenon DEF OpToRel
<1> HIDE DEF less
<1>2. \E x \in S : \A y \in S : ~(<<y, x>> \in less)
  BY <1>1, WFMin, Zenon
<1>3. PICK x \in S : \A y \in S : ~(<<y, x>> \in less)
  BY <1>2
<1>4. ASSUME NEW y \in S PROVE x <= y
  <2>1. x \in Nat /\ y \in Nat
    OBVIOUS
  <2>2. <<y, x>> \in less <=> y < x
    BY <2>1, SMT DEF less
  <2> QED
    BY <1>3, <2>1, <2>2
<1> QED
  BY <1>4

\* f begins with x and goes on by g, n times.
Iterates(f, g, x, n) == f[0] = x /\ \A i \in 1..n : f[i] = g[f[i - 1]]

\* Whatever is read n times, each from where the one before ended, can be.
LEMMA IterationExists ==
    ASSUME NEW X, NEW g \in [X -> X], NEW x \in X, NEW n \in Nat
    PROVE  \E f \in [0..n -> X] : Iterates(f, g, x, n)
<1> DEFINE Has(k) == \E f \in [0..k -> X] : Iterates(f, g, x, k)
           Without == {k \in Nat : ~Has(k)}
<1>1. Has(0)
  <2> DEFINE f == [i \in 0..0 |-> x]
  <2>1. f \in [0..0 -> X] /\ f[0] = x /\ 1..0 = {}
    OBVIOUS
  <2> HIDE DEF f
  <2> QED
    BY <2>1 DEF Iterates
<1>2. ASSUME NEW k \in Nat, Has(k) PROVE Has(k + 1)
  <2>1. PICK f \in [0..k -> X] : Iterates(f, g, x, k)
    BY <1>2
  <2> DEFINE h == [i \in 0..(k + 1) |-> IF i = k + 1 THEN g[f[k]] ELSE f[i]]
  <2>2. f[k] \in X
    OBVIOUS
  <2>3. h \in [0..(k + 1) -> X] /\ h[k + 1] = g[f[k]] /\ \A i \in 0..k : h[i] = f[i]
    BY <2>2
  <2> HIDE DEF h
  <2>4. Iterates(h, g, x, k + 1)
    <3>1. h[0] = x
      BY <2>1, <2>3 DEF Iterates
    <3>2. ASSUME NEW i \in 1..(k + 1) PROVE h[i] = g[h[i - 1]]
      <4>1. CASE i = k + 1
        <5>1. i - 1 = k /\ k \in 0..k
          BY <4>1
        <5> QED
          BY <2>3, <4>1, <5>1
      <4>2. CASE i # k + 1
        <5>1. i \in 1..k /\ i \in 0..k /\ i - 1 \in 0..k
          BY <4>2
        <5> QED
          BY <2>1, <2>3, <5>1 DEF Iterates
      <4> QED
        BY <4>1, <4>2
    <3> QED
      BY <3>1, <3>2 DEF Iterates
  <2> QED
    BY <2>3, <2>4
<1> HIDE DEF Has
<1>3. Without = {}
  <2> SUFFICES ASSUME Without # {} PROVE FALSE
    OBVIOUS
  <2>1. PICK k \in Without : \A m \in Without : k <= m
    BY FirstPosition
  <2>2. k # 0
    BY <1>1
  <2>3. k - 1 \in Nat /\ (k - 1) + 1 = k /\ ~(k <= k - 1)
    BY <2>2
  <2>4. Has(k - 1)
    BY <2>1, <2>3
  <2> QED
    BY <1>2, <2>3, <2>4
<1>4. Has(n)
  BY <1>3
<1> QED
  BY <1>4 DEF Has

\* What holds at first, and after every step after which it held before, holds at last.
LEMMA IterationStays ==
    ASSUME NEW X, NEW n \in Nat, NEW f, f[0] \in X, \A i \in 1..n : f[i - 1] \in X => f[i] \in X
    PROVE  f[n] \in X
<1> DEFINE Bad == {i \in 0..n : f[i] \notin X}
<1> SUFFICES ASSUME Bad # {} PROVE FALSE
  OBVIOUS
<1>1. \E k \in Bad : \A m \in Bad : k <= m
  <2>1. Bad \subseteq Nat
    OBVIOUS
  <2> HIDE DEF Bad
  <2> QED
    BY <2>1, FirstPosition, Zenon
<1>2. PICK k \in Bad : \A m \in Bad : k <= m
  BY <1>1
<1>3. k \in 1..n /\ k - 1 \in 0..n /\ ~(k <= k - 1)
  OBVIOUS
<1> QED
  BY <1>2, <1>3

-----------------------------------------------------------------------------
(* The readers.                                                              *)

Byte == 0..255

\* What a reader returns, with offsets that are not behind the bytes.
Inside(b, r) == r \in [ok : BOOLEAN, at : 0..Len(b), from : 0..Len(b), n : Nat]

\* A failed reader leaves the offset where it is.
LEMMA FailStays ==
    ASSUME NEW b, NEW at \in 0..Len(b)
    PROVE  Inside(b, Fail(at))
BY DEF Inside, Fail

\* A number is read from bytes that are there, and the offset passes no more than those.
LEMMA UIntStays ==
    ASSUME NEW b \in Seq(Byte), NEW at \in 0..Len(b), NEW size \in 1..8
    PROVE  Inside(b, readUInt(b, at, size))
<1>1. CASE ~Avail(b, at, size)
  BY <1>1, FailStays, Zenon DEF readUInt
<1>2. CASE Avail(b, at, size)
  <2>1. at + size \in 0..Len(b) /\ at + 1 \in 1..Len(b)
    BY <1>2 DEF Avail
  <2>2. b[at + 1] \in Byte
    BY <2>1
  <2>3. size = 2 => b[at + 2] \in Byte
    BY <2>1
  <2>4. readUInt(b, at, size) =
          Read(at, at + size, IF size = 2 THEN 256 * b[at + 1] + b[at + 2] ELSE b[at + 1])
    BY <1>2 DEF readUInt
  <2>5. (IF size = 2 THEN 256 * b[at + 1] + b[at + 2] ELSE b[at + 1]) \in Nat
    <3>1. \A x, y \in Byte : 256 * x + y \in Nat /\ x \in Nat
      BY DEF Byte
    <3> QED
      BY <2>2, <2>3, <3>1
  <2> QED
    BY <2>1, <2>4, <2>5 DEF Inside, Read
<1> QED
  BY <1>1, <1>2

\* The same for bytes that are copied, pointed at or passed.
LEMMA BytesStay ==
    ASSUME NEW b \in Seq(Byte), NEW at \in 0..Len(b), NEW size \in Nat
    PROVE  Inside(b, readBytes(b, at, size))
BY DEF readBytes, Avail, Read, Fail, Inside

\* And for a size, wherever it stands.
LEMMA SizeStays ==
    ASSUME NEW b \in Seq(Byte), NEW at \in 0..Len(b), NEW short, NEW base \in Nat,
           \A type \in short : type \in Nat /\ type >= base,
           NEW wide, NEW width \in 1..8
    PROVE  Inside(b, readSize(b, at, short, base, wide, width))
<1> DEFINE type == readUInt(b, at, 1)
<1>1. Inside(b, type)
  BY UIntStays
<1> HIDE DEF type
<1>2. type.at \in 0..Len(b) /\ type.n \in Nat
  BY <1>1 DEF Inside
<1>3. Inside(b, readUInt(b, type.at, width))
  BY <1>2, UIntStays
<1>4. Inside(b, Fail(at))
  BY FailStays
<1>5. type.n \in short => Inside(b, Read(type.at, type.at, type.n - base))
  BY <1>2 DEF Inside, Read
<1>6. readSize(b, at, short, base, wide, width) =
        IF ~type.ok THEN type
        ELSE IF type.n \in short THEN Read(type.at, type.at, type.n - base)
        ELSE IF type.n = wide THEN readUInt(b, type.at, width)
        ELSE Fail(at)
  BY DEF readSize, type
<1> QED
  BY <1>1, <1>3, <1>4, <1>5, <1>6, Zenon

\* The size of a map.
LEMMA MapSizeStays ==
    ASSUME NEW b \in Seq(Byte), NEW at \in 0..Len(b)
    PROVE  Inside(b, readMapSize(b, at))
<1>1. \A type \in FIXMAP \union FIXARR : type \in Nat /\ type >= 128
  BY DEF FIXMAP, FIXARR
<1> QED
  BY <1>1, SizeStays DEF readMapSize

\* The size of an array.
LEMMA ArraySizeStays ==
    ASSUME NEW b \in Seq(Byte), NEW at \in 0..Len(b)
    PROVE  Inside(b, readArraySize(b, at))
<1> DEFINE size == readSize(b, at, FIXARR, 144, ARR16, 2)
<1>1. \A type \in FIXARR : type \in Nat /\ type >= 144
  BY DEF FIXARR
<1>2. Inside(b, size)
  BY <1>1, SizeStays
<1>3. readArraySize(b, at) = IF size.n > 255 THEN Fail(at) ELSE size
  BY DEF readArraySize
<1> HIDE DEF size
<1> QED
  BY <1>2, <1>3, FailStays, Zenon

\* A string.
LEMMA StringStays ==
    ASSUME NEW b \in Seq(Byte), NEW at \in 0..Len(b), NEW bufLen
    PROVE  Inside(b, readString(b, at, bufLen))
<1> DEFINE size == readSize(b, at, FIXSTR, 160, STR8, 1)
<1>1. \A type \in FIXSTR : type \in Nat /\ type >= 160
  BY DEF FIXSTR
<1>2. Inside(b, size)
  BY <1>1, SizeStays
<1>3. readString(b, at, bufLen) =
        IF ~size.ok \/ size.n >= bufLen THEN Fail(at) ELSE readBytes(b, size.at, size.n)
  BY DEF readString
<1> HIDE DEF size
<1>4. Inside(b, readBytes(b, size.at, size.n))
  BY <1>2, BytesStay, Zenon DEF Inside
<1> QED
  BY <1>3, <1>4, FailStays, Zenon

\* An integer of any width.
LEMMA IntegerStays ==
    ASSUME NEW b \in Seq(Byte), NEW at \in 0..Len(b)
    PROVE  Inside(b, readInteger(b, at))
<1> DEFINE type == readUInt(b, at, 1)
           wide == readBytes(b, type.at, UIntSizes[type.n - 203])
<1>1. Inside(b, type)
  BY UIntStays
<1>2. readInteger(b, at) =
        IF ~type.ok THEN type
        ELSE IF type.n \in FIXINT THEN Read(at, type.at, type.n)
        ELSE IF type.n \in UINTS THEN [wide EXCEPT !.from = at]
        ELSE Fail(at)
  BY DEF readInteger
<1> HIDE DEF type
<1>3. type.at \in 0..Len(b) /\ type.n \in Nat
  BY <1>1 DEF Inside
<1>4. Inside(b, Read(at, type.at, type.n))
  BY <1>3 DEF Inside, Read
<1>5. ASSUME type.n \in UINTS
      PROVE  Inside(b, [wide EXCEPT !.from = at])
  <2>1. type.n \in {204, 205, 206, 207}
    BY <1>5 DEF UINTS
  <2>2. UIntSizes[type.n - 203] \in Nat
    BY <2>1 DEF UIntSizes
  <2>3. Inside(b, wide)
    BY <1>3, <2>2, BytesStay
  <2> HIDE DEF wide
  <2> QED
    BY <2>3 DEF Inside
<1> HIDE DEF wide
<1> QED
  BY <1>1, <1>2, <1>4, <1>5, FailStays, Zenon

\* A flag.
LEMMA BoolStays ==
    ASSUME NEW b \in Seq(Byte), NEW at \in 0..Len(b)
    PROVE  Inside(b, readBool(b, at))
<1>1. Inside(b, readUInt(b, at, 1))
  BY UIntStays
<1> QED
  BY <1>1, FailStays, Zenon DEF readBool

\* A size, an array of bytes of some size, and one of a fixed size.
LEMMA BinSizeStays ==
    ASSUME NEW b \in Seq(Byte), NEW at \in 0..Len(b)
    PROVE  Inside(b, readBinSize(b, at))
<1> DEFINE type == readUInt(b, at, 1)
<1>1. Inside(b, type)
  BY UIntStays
<1>2. readBinSize(b, at) =
        IF type.ok /\ type.n \in {BIN8, BIN16} THEN readUInt(b, type.at, type.n - BIN8 + 1)
        ELSE Fail(at)
  BY DEF readBinSize
<1> HIDE DEF type
<1>3. type.n \in {BIN8, BIN16} => type.n - BIN8 + 1 \in 1..8
  BY DEF BIN8, BIN16
<1>4. type.n \in {BIN8, BIN16} => Inside(b, readUInt(b, type.at, type.n - BIN8 + 1))
  BY <1>1, <1>3, UIntStays, Zenon DEF Inside
<1> QED
  BY <1>2, <1>4, FailStays, Zenon

\* A byte string.
LEMMA BinStays ==
    ASSUME NEW b \in Seq(Byte), NEW at \in 0..Len(b), NEW max
    PROVE  Inside(b, readBin(b, at, max))
<1> DEFINE length == readBinSize(b, at)
<1>1. Inside(b, length)
  BY BinSizeStays
<1>2. readBin(b, at, max) =
        IF ~length.ok \/ length.n > max THEN Fail(at) ELSE readBytes(b, length.at, length.n)
  BY DEF readBin
<1> HIDE DEF length
<1>3. Inside(b, readBytes(b, length.at, length.n))
  BY <1>1, BytesStay, Zenon DEF Inside
<1> QED
  BY <1>2, <1>3, FailStays, Zenon

\* A byte string of a fixed size.
LEMMA BinFixedStays ==
    ASSUME NEW b \in Seq(Byte), NEW at \in 0..Len(b), NEW size
    PROVE  Inside(b, readBinFixed(b, at, size))
<1> DEFINE length == readSize(b, at, {}, 0, BIN8, 1)
<1>1. Inside(b, length)
  BY SizeStays
<1>2. readBinFixed(b, at, size) =
        IF ~length.ok \/ length.n # size THEN Fail(at) ELSE readBytes(b, length.at, size)
  BY DEF readBinFixed
<1> HIDE DEF length
<1>3. Inside(b, readBytes(b, length.at, length.n))
  BY <1>1, BytesStay, Zenon DEF Inside
<1> QED
  BY <1>2, <1>3, FailStays, Zenon

\* Elements are read one behind the other, from the first to the last, or to the first
\* that cannot be read; and inside, if each is.
ReadsOn(reader, r) == IF r.ok THEN reader[r.at] ELSE r

ReadInSteps(b, size, reader) ==
    \E read : /\ read[0] = size /\ Times(size, reader) = read[size.n]
              /\ \A i \in 1..size.n : read[i] = ReadsOn(reader, read[i - 1])
              /\ \A i \in 0..size.n : Inside(b, read[i])

\* Times reads element by element, each where the one before it has ended.
LEMMA TimesSteps ==
    ASSUME NEW b, NEW size, Inside(b, size),
           NEW reader, \A p \in Offsets(b) : Inside(b, reader[p])
    PROVE  ReadInSteps(b, size, reader)
<1> DEFINE X == [ok : BOOLEAN, at : 0..Len(b), from : 0..Len(b), n : Nat]
           g == [r \in X |-> IF r.ok THEN reader[r.at] ELSE r]
           next(f) == [i \in 0..size.n |->
                        IF i = 0 THEN size
                        ELSE CHOOSE r \in {IF before.ok THEN reader[before.at] ELSE before :
                                               before \in {f[i - 1]}} : TRUE]
           read == CHOOSE f : f = next(f)
<1>1. size \in X /\ size.n \in Nat
  BY DEF Inside
<1>2. g \in [X -> X]
  <2>1. ASSUME NEW r \in X PROVE (IF r.ok THEN reader[r.at] ELSE r) \in X
    <3>1. r.at \in Offsets(b)
      BY DEF Offsets
    <3>2. reader[r.at] \in X
      BY <3>1 DEF Inside
    <3> QED
      BY <3>2
  <2> QED
    BY <2>1
<1>3. Times(size, reader) = read[size.n]
  BY DEF Times
<1>4. ASSUME NEW f
      PROVE  next(f) = [i \in 0..size.n |->
                          IF i = 0 THEN size
                          ELSE IF f[i - 1].ok THEN reader[f[i - 1].at] ELSE f[i - 1]]
  <2>1. ASSUME NEW y
        PROVE  (CHOOSE r \in {IF before.ok THEN reader[before.at] ELSE before : before \in {y}} : TRUE)
                 = IF y.ok THEN reader[y.at] ELSE y
    <3> DEFINE s == {IF before.ok THEN reader[before.at] ELSE before : before \in {y}}
               z == IF y.ok THEN reader[y.at] ELSE y
    <3>1. s = {z}
      OBVIOUS
    <3> HIDE DEF s, z
    <3>2. (CHOOSE r \in s : TRUE) = z
      BY <3>1
    <3> QED
      BY <3>2 DEF s, z
  <2> QED
    BY <2>1
<1> HIDE DEF next
<1>5. PICK h \in [0..size.n -> X] : Iterates(h, g, size, size.n)
  BY <1>1, <1>2, IterationExists
<1>6. h = next(h)
  <2>1. ASSUME NEW i \in 0..size.n, i # 0
        PROVE  h[i] = IF h[i - 1].ok THEN reader[h[i - 1].at] ELSE h[i - 1]
    <3>1. i \in 1..size.n /\ i - 1 \in 0..size.n
      BY <1>1, <2>1
    <3>2. h[i - 1] \in X /\ h[i] = g[h[i - 1]]
      BY <1>5, <3>1 DEF Iterates
    <3> QED
      BY <3>2
  <2> QED
    BY <1>4, <1>5, <2>1 DEF Iterates
<1>7. read = next(read)
  BY <1>6
<1> HIDE DEF read
<1>8. /\ read[0] = size
      /\ \A i \in 1..size.n : read[i] = IF read[i - 1].ok THEN reader[read[i - 1].at] ELSE read[i - 1]
  <2>1. read = [i \in 0..size.n |->
                  IF i = 0 THEN size
                  ELSE IF read[i - 1].ok THEN reader[read[i - 1].at] ELSE read[i - 1]]
    BY <1>4, <1>7
  <2>2. 0 \in 0..size.n /\ \A i \in 1..size.n : i \in 0..size.n /\ i # 0
    BY <1>1
  <2> QED
    BY <2>1, <2>2
<1>9. ASSUME NEW k \in 0..size.n PROVE read[k] \in X
  <2>1. \A i \in 1..k : read[i - 1] \in X => read[i] \in X
    <3> SUFFICES ASSUME NEW i \in 1..k, read[i - 1] \in X PROVE read[i] \in X
      OBVIOUS
    <3>1. i \in 1..size.n
      BY <1>1
    <3>2. read[i] = IF read[i - 1].ok THEN reader[read[i - 1].at] ELSE read[i - 1]
      BY <1>8, <3>1
    <3>3. g[read[i - 1]] \in X
      BY <1>2
    <3> QED
      BY <3>2, <3>3
  <2> HIDE DEF X
  <2>2. k \in Nat /\ read[0] \in X
    BY <1>1, <1>8
  <2> QED
    BY <2>1, <2>2, IterationStays, Zenon
<1> QED
  BY <1>3, <1>8, <1>9 DEF Inside, ReadsOn, ReadInSteps

\* Elements are read inside, one behind the other, if each of them is.
LEMMA TimesStay ==
    ASSUME NEW b, NEW size, Inside(b, size),
           NEW reader, \A p \in Offsets(b) : Inside(b, reader[p])
    PROVE  Inside(b, Times(size, reader))
<1>1. size.n \in 0..size.n
  BY DEF Inside
<1> QED
  BY <1>1, TimesSteps DEF ReadInSteps

\* An array of at most limit elements, a map, and one element of an array.
LEMMA WholeStays ==
    ASSUME NEW b, NEW at \in 0..Len(b), NEW size, Inside(b, size), NEW last, Inside(b, last)
    PROVE  Inside(b, Whole(at, size, last)) /\ Whole(at, size, last).n = size.n
BY DEF Inside, Whole

\* An array with all its elements, and no more of them than the limit.
LEMMA ArrayStays ==
    ASSUME NEW b \in Seq(Byte), NEW at \in 0..Len(b), NEW limit \in Nat,
           NEW reader, \A p \in Offsets(b) : Inside(b, reader[p])
    PROVE  LET r == readArray(b, at, limit, reader) IN Inside(b, r) /\ r.n <= limit
<1> DEFINE size == readArraySize(b, at)
           last == Times(size, reader)
           whole == Whole(at, size, last)
           r == readArray(b, at, limit, reader)
<1>1. r = IF ~size.ok \/ size.n > limit THEN Fail(at) ELSE whole
  BY DEF readArray
<1>2. Inside(b, size)
  BY ArraySizeStays
<1> HIDE DEF r, size
<1>3. Inside(b, last)
  BY <1>2, TimesStay
<1> HIDE DEF last
<1>4. Inside(b, whole) /\ whole.n = size.n
  BY <1>2, <1>3, WholeStays
<1> HIDE DEF whole
<1>5. Inside(b, Fail(at)) /\ Fail(at).n = 0
  BY FailStays DEF Fail
<1>6. size.n \in Nat
  BY <1>2 DEF Inside
<1>7. Inside(b, r) /\ r.n <= limit
  <2>1. CASE ~size.ok \/ size.n > limit
    BY <1>1, <1>5, <2>1
  <2>2. CASE ~(~size.ok \/ size.n > limit)
    BY <1>1, <1>4, <1>6, <2>2
  <2> QED
    BY <2>1, <2>2
<1> QED
  BY <1>7 DEF r

\* A map with all its entries.
LEMMA MapStays ==
    ASSUME NEW b \in Seq(Byte), NEW at \in 0..Len(b),
           NEW reader, \A p \in Offsets(b) : Inside(b, reader[p])
    PROVE  Inside(b, readMap(b, at, reader))
<1> DEFINE size == readMapSize(b, at)
           last == Times(size, reader)
<1>1. readMap(b, at, reader) = Whole(at, size, last)
  BY DEF readMap
<1>2. Inside(b, size)
  BY MapSizeStays
<1> HIDE DEF size
<1>3. Inside(b, last)
  BY <1>2, TimesStay
<1> HIDE DEF last
<1> QED
  BY <1>1, <1>2, <1>3, WholeStays

\* One element of an array, behind those before it.
LEMMA ElementStays ==
    ASSUME NEW b \in Seq(Byte), NEW at \in 0..Len(b), NEW idx \in Nat, NEW limit,
           NEW reader, \A p \in Offsets(b) : Inside(b, reader[p])
    PROVE  Inside(b, getElement(b, at, idx, limit, reader))
<1> DEFINE size == readArraySize(b, at)
           some == [size EXCEPT !.n = idx + 1]
<1>1. getElement(b, at, idx, limit, reader) =
        IF ~size.ok \/ size.n > limit \/ idx >= size.n THEN Fail(at) ELSE Times(some, reader)
  BY DEF getElement
<1>2. Inside(b, size)
  BY ArraySizeStays
<1> HIDE DEF size
<1>3. Inside(b, some)
  BY <1>2 DEF Inside
<1> HIDE DEF some
<1>4. Inside(b, Times(some, reader))
  BY <1>3, TimesStay
<1> QED
  BY <1>1, <1>4, FailStays, Zenon

\* The arrays and maps of an application call.
LEMMA ArgsStay ==
    ASSUME NEW b \in Seq(Byte), NEW at \in 0..Len(b)
    PROVE  Inside(b, verifyAppArgs(b, at)) /\ verifyAppArgs(b, at).n <= MAX_ARG
<1> DEFINE reader == [p \in Offsets(b) |-> readBin(b, p, MAX_ARGLEN)]
<1>1. \A p \in Offsets(b) : Inside(b, reader[p])
  BY BinStays DEF Offsets
<1>2. verifyAppArgs(b, at) = readArray(b, at, MAX_ARG, reader)
  BY DEF verifyAppArgs
<1> HIDE DEF reader
<1>3. MAX_ARG \in Nat
  BY DEF MAX_ARG
<1> QED
  BY <1>1, <1>2, <1>3, ArrayStays

\* The accounts of an application call.
LEMMA AccountsStay ==
    ASSUME NEW b \in Seq(Byte), NEW at \in 0..Len(b)
    PROVE  Inside(b, verifyAccounts(b, at)) /\ verifyAccounts(b, at).n <= MAX_ACCT
<1> DEFINE reader == [p \in Offsets(b) |-> readBinFixed(b, p, ACCT_SIZE)]
<1>1. \A p \in Offsets(b) : Inside(b, reader[p])
  BY BinFixedStays DEF Offsets
<1>2. verifyAccounts(b, at) = readArray(b, at, MAX_ACCT, reader)
  BY DEF verifyAccounts
<1> HIDE DEF reader
<1>3. MAX_ACCT \in Nat
  BY DEF MAX_ACCT
<1> QED
  BY <1>1, <1>2, <1>3, ArrayStays

\* Its applications and assets.
LEMMA IntegersStay ==
    ASSUME NEW b \in Seq(Byte), NEW at \in 0..Len(b), NEW limit \in Nat
    PROVE  Inside(b, readArrayU64(b, at, limit))
<1> DEFINE reader == [p \in Offsets(b) |-> readInteger(b, p)]
<1>1. \A p \in Offsets(b) : Inside(b, reader[p])
  BY IntegerStays DEF Offsets
<1>2. readArrayU64(b, at, limit) = readArray(b, at, limit, reader)
  BY DEF readArrayU64
<1> HIDE DEF reader
<1> QED
  BY <1>1, <1>2, ArrayStays

\* A state schema.
LEMMA SchemaStays ==
    ASSUME NEW b \in Seq(Byte), NEW at \in 0..Len(b)
    PROVE  Inside(b, readStateSchema(b, at))
<1> DEFINE key(p) == readString(b, p, 32)
           entry(p) == IF key(p).ok /\ \E name \in {"nui", "nbs"} : TextIs(Contents(b, key(p)), name)
                       THEN readInteger(b, key(p).at) ELSE Fail(p)
           reader == [p \in Offsets(b) |-> entry(p)]
<1>1. ASSUME NEW p \in 0..Len(b) PROVE Inside(b, entry(p))
  <2>1. key(p).at \in 0..Len(b)
    BY StringStays DEF Inside
  <2>2. Inside(b, readInteger(b, key(p).at)) /\ Inside(b, Fail(p))
    BY <2>1, IntegerStays, FailStays
  <2> QED
    BY <2>2, Zenon
<1>2. readStateSchema(b, at) = readMap(b, at, reader)
  BY DEF readStateSchema
<1>3. \A p \in Offsets(b) : Inside(b, reader[p])
  BY <1>1 DEF Offsets
<1> HIDE DEF reader
<1> QED
  BY <1>2, <1>3, MapStays

\* One box.
LEMMA BoxStays ==
    ASSUME NEW b \in Seq(Byte), NEW at \in 0..Len(b)
    PROVE  Inside(b, readBoxElement(b, at))
<1> DEFINE key(p) == readString(b, p, 2)
           entry(p) == IF ~key(p).ok THEN key(p)
                       ELSE IF TextIs(Contents(b, key(p)), "i") THEN readUInt(b, key(p).at, 1)
                       ELSE IF TextIs(Contents(b, key(p)), "n")
                            THEN readBin(b, key(p).at, BOX_NAME_MAX_LENGTH)
                       ELSE Fail(p)
           reader == [p \in Offsets(b) |-> entry(p)]
<1>1. ASSUME NEW p \in 0..Len(b) PROVE Inside(b, entry(p))
  <2>1. Inside(b, key(p))
    BY StringStays
  <2>2. key(p).at \in 0..Len(b)
    BY <2>1 DEF Inside
  <2>3. Inside(b, readUInt(b, key(p).at, 1)) /\ Inside(b, readBin(b, key(p).at, BOX_NAME_MAX_LENGTH))
    BY <2>2, UIntStays, BinStays
  <2> QED
    BY <2>1, <2>3, FailStays, Zenon
<1>2. readBoxElement(b, at) = readMap(b, at, reader)
  BY DEF readBoxElement
<1>3. \A p \in Offsets(b) : Inside(b, reader[p])
  BY <1>1 DEF Offsets
<1> HIDE DEF reader
<1> QED
  BY <1>2, <1>3, MapStays

\* All boxes.
LEMMA BoxesStay ==
    ASSUME NEW b \in Seq(Byte), NEW at \in 0..Len(b)
    PROVE  Inside(b, readBoxes(b, at))
<1> DEFINE reader == [p \in Offsets(b) |-> readBoxElement(b, p)]
<1>1. \A p \in Offsets(b) : Inside(b, reader[p])
  BY BoxStays DEF Offsets
<1>2. readBoxes(b, at) = readArray(b, at, MAX_FOREIGN_APPS, reader)
  BY DEF readBoxes
<1> HIDE DEF reader
<1>3. MAX_FOREIGN_APPS \in Nat
  BY DEF MAX_FOREIGN_APPS
<1> QED
  BY <1>1, <1>2, <1>3, ArrayStays

\* One account that is read again.
LEMMA AccountStays ==
    ASSUME NEW b \in Seq(Byte), NEW at \in 0..Len(b), NEW idx \in Nat, NEW n
    PROVE  Inside(b, getAccount(b, at, idx, n))
<1> DEFINE reader == [p \in Offsets(b) |-> readBinFixed(b, p, ACCT_SIZE)]
<1>1. \A p \in Offsets(b) : Inside(b, reader[p])
  BY BinFixedStays DEF Offsets
<1>2. getAccount(b, at, idx, n) =
        IF readArraySize(b, at).n # n THEN Fail(at) ELSE getElement(b, at, idx, n, reader)
  BY DEF getAccount
<1> HIDE DEF reader
<1>3. Inside(b, getElement(b, at, idx, n, reader))
  BY <1>1, ElementStays
<1> QED
  BY <1>2, <1>3, FailStays, Zenon

\* One argument that is read again.
LEMMA ArgStays ==
    ASSUME NEW b \in Seq(Byte), NEW at \in 0..Len(b), NEW idx \in Nat
    PROVE  Inside(b, getAppArg(b, at, idx))
<1> DEFINE reader == [p \in Offsets(b) |-> readBin(b, p, MAX_ARGLEN)]
<1>1. \A p \in Offsets(b) : Inside(b, reader[p])
  BY BinStays DEF Offsets
<1>2. getAppArg(b, at, idx) = getElement(b, at, idx, MAX_ARG, reader)
  BY DEF getAppArg
<1> HIDE DEF reader
<1> QED
  BY <1>1, <1>2, ElementStays

\* What is only walked over stays inside too, whatever its type.
LEMMA HoldingStays ==
    ASSUME NEW b, NEW r, Inside(b, r), NEW m \in Nat
    PROVE  Inside(b, Holding(r, m))
BY DEF Inside, Holding

\* A value that is walked over.
LEMMA SkippedStays ==
    ASSUME NEW b \in Seq(Byte), NEW at \in 0..Len(b)
    PROVE  Inside(b, verifyValue(b, at))
<1> DEFINE type == readUInt(b, at, 1)
           map == readMapSize(b, at)
           pairs == 2 * map.n
<1>1. /\ Inside(b, type) /\ Inside(b, map) /\ Inside(b, readInteger(b, at))
      /\ Inside(b, readArraySize(b, at)) /\ Inside(b, readString(b, at, 256))
      /\ Inside(b, readBool(b, at)) /\ Inside(b, readBin(b, at, UINT16_MAX)) /\ Inside(b, Fail(at))
  BY UIntStays, MapSizeStays, IntegerStays, ArraySizeStays, StringStays, BoolStays, BinStays, FailStays
<1>2. verifyValue(b, at) =
        IF ~type.ok THEN type
        ELSE IF type.n \in FIXINT \union UINTS THEN Holding(readInteger(b, at), 0)
        ELSE IF type.n \in FIXMAP \union {MAP16} THEN Holding(map, pairs)
        ELSE IF type.n \in FIXARR \union {ARR16} THEN readArraySize(b, at)
        ELSE IF type.n \in FIXSTR \union {STR8} THEN Holding(readString(b, at, 256), 0)
        ELSE IF type.n \in BOOLS THEN Holding(readBool(b, at), 0)
        ELSE IF type.n \in {BIN8, BIN16} THEN Holding(readBin(b, at, UINT16_MAX), 0)
        ELSE Fail(at)
  BY DEF verifyValue
<1> HIDE DEF type, map
<1>3. pairs \in Nat
  <2>1. map.n \in Nat
    BY <1>1 DEF Inside
  <2> QED
    BY <2>1
<1> HIDE DEF pairs
<1>4. /\ Inside(b, Holding(readInteger(b, at), 0)) /\ Inside(b, Holding(map, pairs))
      /\ Inside(b, Holding(readString(b, at, 256), 0))
      /\ Inside(b, Holding(readBool(b, at), 0)) /\ Inside(b, Holding(readBin(b, at, UINT16_MAX), 0))
  BY <1>1, <1>3, HoldingStays
<1> QED
  BY <1>1, <1>2, <1>4

-----------------------------------------------------------------------------
(* The steps.                                                                *)

\* Whatever the field, its value is inside, and an array has at most MAX_ARG elements.
LEMMA ValueStays ==
    ASSUME NEW b \in Seq(Byte), NEW key, NEW at \in 0..Len(b)
    PROVE  /\ Inside(b, readValue(b, key, at))
           /\ key \in {"apat", "apaa"} => readValue(b, key, at).n <= MAX_ARG
<1> DEFINE v == readValue(b, key, at)
           size == BinSize[key]
           room == StringSize[key]
           short == ArrayLimit[key]
<1>1. CASE key \in DOMAIN BinSize \union DOMAIN StringSize
  <2>1. key \notin {"nonpart", "afrz", "df", "note", "apbx", "apfa", "apas", "apat", "apaa",
                    "apgs", "apls", "apep", "apap", "apsu"}
    BY <1>1, SearchAssumption
  <2>2. key \in DOMAIN BinSize => v = readBinFixed(b, at, size)
    BY <1>1, <2>1, SearchAssumption DEF readValue
  <2>3. key \in DOMAIN StringSize => v = readString(b, at, room)
    BY <1>1, <2>1, SearchAssumption DEF readValue
  <2> HIDE DEF v
  <2>4. Inside(b, v)
    BY <1>1, <2>2, <2>3, BinFixedStays, StringStays
  <2> QED
    BY <2>1, <2>4 DEF v
<1>2. CASE key \notin DOMAIN BinSize \union DOMAIN StringSize
  <2>1. /\ key \in {"nonpart", "afrz", "df"} => v = readBool(b, at)
        /\ key = "note"              => v = readNote(b, at)
        /\ key = "apbx"              => v = readBoxes(b, at)
        /\ key \in {"apfa", "apas"}  => v = readArrayU64(b, at, short)
        /\ key = "apat"              => v = verifyAccounts(b, at)
        /\ key = "apaa"              => v = verifyAppArgs(b, at)
        /\ key \in {"apgs", "apls"}  => v = readStateSchema(b, at)
        /\ key = "apep"              => v = readExtraPages(b, at)
        /\ key \in {"apap", "apsu"}  => v = readBin(b, at, UINT16_MAX)
        /\ key \notin {"nonpart", "afrz", "df", "note", "apbx", "apfa", "apas", "apat", "apaa",
                       "apgs", "apls", "apep", "apap", "apsu"} => v = readInteger(b, at)
    BY <1>2 DEF readValue
  <2> HIDE DEF v
  <2>2. Inside(b, readNote(b, at)) /\ Inside(b, readExtraPages(b, at))
    <3>1. /\ Inside(b, readBinSize(b, at)) /\ Inside(b, readUInt(b, at, 1))
          /\ Inside(b, Fail(at))
      BY BinSizeStays, UIntStays, FailStays
    <3> QED
      BY <3>1, Zenon DEF readNote, readExtraPages
  <2>3. key \in {"apfa", "apas"} => short \in Nat
    BY DEF ArrayLimit, MAX_FOREIGN_APPS, MAX_FOREIGN_ASSETS
  <2>4. key \in {"apfa", "apas"} => Inside(b, v)
    BY <2>1, <2>3, IntegersStay
  <2>5. /\ Inside(b, readBool(b, at)) /\ Inside(b, readBoxes(b, at))
        /\ Inside(b, verifyAccounts(b, at)) /\ Inside(b, verifyAppArgs(b, at))
        /\ Inside(b, readStateSchema(b, at)) /\ Inside(b, readBin(b, at, UINT16_MAX))
        /\ Inside(b, readInteger(b, at))
        /\ verifyAccounts(b, at).n <= MAX_ACCT /\ verifyAppArgs(b, at).n <= MAX_ARG
    BY BoolStays, BoxesStay, AccountsStay, ArgsStay, SchemaStays, BinStays, IntegerStays
  <2>6. Inside(b, v)
    BY <2>1, <2>2, <2>4, <2>5
  <2>7. key \in {"apat", "apaa"} => v.n <= MAX_ARG
    <3>1. CASE key = "apat"
      <4>1. v = verifyAccounts(b, at) /\ v.n \in Nat
        BY <2>1, <2>6, <3>1 DEF Inside
      <4> QED
        BY <2>5, <4>1 DEF MAX_ACCT, MAX_ARG
    <3>2. CASE key = "apaa"
      BY <2>1, <2>5, <3>2
    <3> QED
      BY <3>1, <3>2
  <2> QED
    BY <2>6, <2>7 DEF v
<1> QED
  BY <1>1, <1>2

\* So is an element that is printed.
LEMMA PrintedStays ==
    ASSUME NEW b \in Seq(Byte), NEW key, NEW at \in 0..Len(b), NEW idx \in Nat, NEW n
    PROVE  Inside(b, readElement(b, key, at, idx, n))
BY AccountStays, ArgStays, Zenon DEF readElement

\* The bytes of a value that was read are bytes of the buffer.
LEMMA ContentsAreBytes ==
    ASSUME NEW b \in Seq(Byte), NEW r, Inside(b, r)
    PROVE  Contents(b, r) \in Seq(Byte)
<1>1. r.from \in 0..Len(b) /\ r.at \in 0..Len(b)
  BY DEF Inside
<1>2. r.from + 1 \in 1..(Len(b) + 1) /\ r.at \in 0..Len(b)
  BY <1>1
<1> QED
  BY <1>2 DEF Contents

\* One less than a number that is not zero.
LEMMA OneLess ==
    /\ 0 \in 0..UINT16_MAX
    /\ \A n \in 0..UINT16_MAX : n \in Nat /\ (n > 0 => n - 1 \in 0..UINT16_MAX)
<1>1. UINT16_MAX \in Nat
  BY DEF UINT16_MAX
<1> QED
  BY <1>1

\* A map has at most 65535 keys.
LEMMA MapSizeFits ==
    ASSUME NEW b \in Seq(Byte), NEW at \in 0..Len(b)
    PROVE  readMapSize(b, at).n \in 0..UINT16_MAX
<1> DEFINE type == readUInt(b, at, 1)
           two == readUInt(b, type.at, 2)
           map == readMapSize(b, at)
           short == FIXMAP \union FIXARR
<1>1. Inside(b, type)
  BY UIntStays
<1>2. ~type.ok => type.n = 0
  BY DEF readUInt, Fail, Read
<1>3. map = IF ~type.ok THEN type
            ELSE IF type.n \in short THEN Read(type.at, type.at, type.n - 128)
            ELSE IF type.n = MAP16 THEN two
            ELSE Fail(at)
  BY DEF readMapSize, readSize
<1> HIDE DEF type
<1>0. UINT16_MAX \in Nat /\ UINT16_MAX >= 65535
  BY DEF UINT16_MAX
<1>4. type.n \in short => type.n - 128 \in 0..UINT16_MAX
  <2> DEFINE n == type.n
  <2> HIDE DEF n
  <2>1. n \in short => n \in Nat /\ n >= 128 /\ n <= 159
    BY DEF FIXMAP, FIXARR
  <2>2. n \in Nat /\ n >= 128 /\ n <= 159 => n - 128 \in 0..UINT16_MAX
    BY <1>0
  <2> QED
    BY <2>1, <2>2 DEF n
<1>5. type.at \in 0..Len(b)
  BY <1>1 DEF Inside
<1>6. two.n \in 0..UINT16_MAX
  <2> DEFINE p == type.at
  <2>1. CASE ~Avail(b, p, 2)
    <3>1. two.n = 0
      BY <2>1 DEF readUInt, Fail
    <3> QED
      BY OneLess, <3>1, Zenon
  <2>2. CASE Avail(b, p, 2)
    <3>1. p + 1 \in 1..Len(b) /\ p + 2 \in 1..Len(b)
      BY <1>5, <2>2 DEF Avail
    <3>2. b[p + 1] \in Byte /\ b[p + 2] \in Byte
      BY <3>1
    <3>3. two.n = 256 * b[p + 1] + b[p + 2]
      BY <2>2 DEF readUInt, Read
    <3>4. ASSUME NEW x \in Byte, NEW y \in Byte PROVE 256 * x + y \in 0..UINT16_MAX
      <4>1. x \in Nat /\ x <= 255 /\ y \in Nat /\ y <= 255
        BY DEF Byte
      <4> DEFINE m == 256 * x + y
      <4>2. m \in Nat /\ m <= 65535
        BY <4>1
      <4> HIDE DEF m
      <4>3. m \in 0..UINT16_MAX
        BY <1>0, <4>2
      <4> QED
        BY <4>3 DEF m
    <3> DEFINE high == b[p + 1]
               low == b[p + 2]
    <3>5. 256 * high + low \in 0..UINT16_MAX
      <4> HIDE DEF high, low
      <4>1. high \in Byte /\ low \in Byte
        BY <3>2 DEF high, low
      <4> QED
        BY <3>4, <4>1
    <3> HIDE DEF two, high, low
    <3>6. two.n = 256 * high + low
      BY <3>3 DEF high, low
    <3> QED
      BY <3>5, <3>6
  <2> QED
    BY <2>1, <2>2
<1> HIDE DEF two, short
<1>7. Fail(at).n = 0 /\ Read(type.at, type.at, type.n - 128).n = type.n - 128
  BY DEF Fail, Read
<1> HIDE DEF map
<1>8. \/ map.n = 0 \/ map.n = two.n
      \/ type.n \in short /\ map.n = type.n - 128
  BY <1>2, <1>3, <1>7
<1>9. map.n \in 0..UINT16_MAX
  BY OneLess, <1>4, <1>6, <1>8, Zenon
<1> QED
  BY <1>9 DEF map

-----------------------------------------------------------------------------
(* What is looked for.                                                       *)

QueryType == [key : Keys \union {"type"}, required : BOOLEAN, element : Nat]

\* The keys of the enumerations.
LEMMA KeyNames ==
    /\ {"snd", "lx", "fee", "gh", "gen", "note", "grp", "rekey", "fv", "lv"} \subseteq Keys
    /\ {"rcv", "amt", "close"} \subseteq Keys
    /\ {"votekey", "selkey", "sprfkey", "votefst", "votelst", "votekd", "nonpart"} \subseteq Keys
    /\ {"xaid", "aamt", "arcv", "asnd", "aclose"} \subseteq Keys
    /\ {"faid", "fadd", "afrz"} \subseteq Keys
    /\ {"caid", "apar"} \subseteq Keys /\ Params \subseteq Keys
    /\ {"apid", "apan", "apbx", "apfa", "apas", "apat", "apaa",
        "apgs", "apls", "apep", "apap", "apsu"} \subseteq Keys
<1>1. ASSUME NEW t \in TxTypes PROVE ToSet(TypeIndex[t]) \subseteq Keys
  <2> DEFINE sets == {ToSet(TypeIndex[ty]) : ty \in TxTypes}
             this == ToSet(TypeIndex[t])
  <2>1. this \in sets
    OBVIOUS
  <2>2. Keys = ToSet(CommonIndex) \union (UNION sets) \union {"apar"}
    BY DEF Keys
  <2> HIDE DEF sets, this
  <2>3. this \subseteq Keys
    BY <2>1, <2>2
  <2> QED
    BY <2>3 DEF this
<1>2. ToSet(CommonIndex) \subseteq Keys /\ "apar" \in Keys
  <2> DEFINE sets == {ToSet(TypeIndex[ty]) : ty \in TxTypes}
             common == ToSet(CommonIndex)
  <2>1. Keys = common \union (UNION sets) \union {"apar"}
    BY DEF Keys
  <2> HIDE DEF sets, common
  <2>2. common \subseteq Keys
    BY <2>1
  <2>3. "apar" \in Keys
    BY <2>1
  <2> QED
    BY <2>2, <2>3 DEF common
<1>3. TxTypes = {"pay", "keyreg", "axfer", "afrz", "acfg", "appl"}
  BY DEF TxTypes, TypeIndex
<1>4. ToSet(CommonIndex) = {"snd", "lx", "fee", "gh", "gen", "note", "grp", "rekey", "fv", "lv"}
  BY DEF ToSet, CommonIndex
<1>5. ToSet(TypeIndex.pay) = {"rcv", "amt", "close"}
  BY DEF ToSet, TypeIndex
<1>6. ToSet(TypeIndex.keyreg) = {"votekey", "selkey", "sprfkey", "votefst", "votelst", "votekd", "nonpart"}
  BY DEF ToSet, TypeIndex
<1>7. ToSet(TypeIndex.axfer) = {"xaid", "aamt", "arcv", "asnd", "aclose"}
  BY DEF ToSet, TypeIndex
<1>8. ToSet(TypeIndex.afrz) = {"faid", "fadd", "afrz"}
  BY DEF ToSet, TypeIndex
<1>9. {"caid"} \subseteq ToSet(TypeIndex.acfg)
  BY DEF ToSet, TypeIndex
<1>10. ToSet(TypeIndex.appl) = {"apid", "apan", "apbx", "apfa", "apas", "apat", "apaa",
                                "apgs", "apls", "apep", "apap", "apsu"}
  BY DEF ToSet, TypeIndex
<1>11. Params \subseteq ToSet(TypeIndex.acfg)
  BY DEF Params
<1>12. /\ TypeIndex["pay"] = TypeIndex.pay /\ TypeIndex["keyreg"] = TypeIndex.keyreg
       /\ TypeIndex["axfer"] = TypeIndex.axfer /\ TypeIndex["afrz"] = TypeIndex.afrz
       /\ TypeIndex["acfg"] = TypeIndex.acfg /\ TypeIndex["appl"] = TypeIndex.appl
  OBVIOUS
<1>13. /\ ToSet(TypeIndex.pay) \subseteq Keys /\ ToSet(TypeIndex.keyreg) \subseteq Keys
       /\ ToSet(TypeIndex.axfer) \subseteq Keys /\ ToSet(TypeIndex.afrz) \subseteq Keys
       /\ ToSet(TypeIndex.acfg) \subseteq Keys /\ ToSet(TypeIndex.appl) \subseteq Keys
  BY <1>1, <1>3, <1>12
<1> QED
  BY <1>2, <1>4, <1>5, <1>6, <1>7, <1>8, <1>9, <1>10, <1>11, <1>13

\* The keys of a transaction, without the parameters of an asset.
PlainKeys ==
    {"snd", "lx", "fee", "gh", "gen", "note", "grp", "rekey", "fv", "lv"} \union {"rcv", "amt", "close"}
    \union {"votekey", "selkey", "sprfkey", "votefst", "votelst", "votekd", "nonpart"}
    \union {"xaid", "aamt", "arcv", "asnd", "aclose"} \union {"faid", "fadd", "afrz"} \union {"caid", "apar"}
    \union {"apid", "apan", "apbx", "apfa", "apas", "apat", "apaa",
            "apgs", "apls", "apep", "apap", "apsu"}

\* They are other ones, and none is the key of the type.
LEMMA PlainNames ==
    /\ PlainKeys \subseteq Keys
    /\ PlainKeys \intersect Params = {} /\ "type" \notin PlainKeys \union Params
<1>1. PlainKeys \subseteq Keys
  BY KeyNames, Zenon DEF PlainKeys
<1>2. ToSet(TypeIndex.acfg) = {"caid", "t", "df", "un", "dc", "an", "au", "am", "m", "r", "f", "c"}
  BY DEF ToSet, TypeIndex
<1>3. Params = {"t", "df", "un", "dc", "an", "au", "am", "m", "r", "f", "c"}
  BY <1>2 DEF Params
<1> QED
  BY <1>1, <1>3 DEF PlainKeys

PlainQuery == [key : PlainKeys, required : BOOLEAN, element : {0}]
FieldToRead == [key : PlainKeys, required : BOOLEAN, always : BOOLEAN]

\* A field to read is one, whatever it must be.
LEMMA FieldsToRead ==
    ASSUME NEW key \in PlainKeys
    PROVE  Required(key) \in FieldToRead /\ Optional(key) \in FieldToRead /\ Always(key) \in FieldToRead
BY DEF Required, Optional, Always, FieldToRead

\* The length of two sequences, one behind the other.
LEMMA ConcatLength ==
    ASSUME NEW X, NEW s \in Seq(X), NEW t \in Seq(X)
    PROVE  s \o t \in Seq(X) /\ Len(s \o t) = Len(s) + Len(t)
OBVIOUS

\* The parser looks for fields that have a key, and it looks for some.
LEMMA PlainQueries ==
    ASSUME NEW type \in TxTypes
    PROVE  ParseQueries(type) \in Seq(PlainQuery) /\ ParseQueries(type) # <<>>
<1> DEFINE specific == IF type = "acfg" THEN <<Optional("caid"), Optional("apar")>>
                       ELSE FieldsOf(type, {})
           fields == CommonFields \o ValidityFields \o specific
           f1 == <<Optional("votekey"), Optional("selkey"), Optional("sprfkey"), Optional("votefst")>>
           f2 == <<Optional("votekd"), Always("nonpart")>>
<1>1. CommonFields \in Seq(FieldToRead) /\ ValidityFields \in Seq(FieldToRead)
  BY FieldsToRead DEF PlainKeys, CommonFields, ValidityFields
<1>2. specific \in Seq(FieldToRead)
  <2>1. type \in {"pay", "keyreg", "axfer", "afrz", "acfg", "appl"}
    BY DEF TxTypes, TypeIndex
  <2>2. CASE type = "pay"
    <3>1. specific = PaymentFields
      BY <2>2 DEF FieldsOf
    <3>2. /\ Required("rcv") \in FieldToRead /\ Always("amt") \in FieldToRead
          /\ Optional("close") \in FieldToRead
      BY FieldsToRead DEF PlainKeys
    <3>3. PaymentFields \in Seq(FieldToRead)
      BY <3>2 DEF PaymentFields
    <3> QED
      BY <3>1, <3>3, Zenon
  <2>3. CASE type = "keyreg"
    <3>1. specific = f1 \o <<>> \o f2
      BY <2>3 DEF FieldsOf, KeyregFields
    <3>2. f1 \in Seq(FieldToRead) /\ f2 \in Seq(FieldToRead)
      BY FieldsToRead DEF PlainKeys
    <3> HIDE DEF f1, f2, specific
    <3> QED
      BY <3>1, <3>2
  <2>4. CASE type = "axfer"
    <3>1. specific = AssetXferFields
      BY <2>4 DEF FieldsOf
    <3>2. /\ Required("xaid") \in FieldToRead /\ Always("aamt") \in FieldToRead
          /\ Required("arcv") \in FieldToRead /\ Optional("asnd") \in FieldToRead
          /\ Optional("aclose") \in FieldToRead
      BY FieldsToRead DEF PlainKeys
    <3>3. AssetXferFields \in Seq(FieldToRead)
      BY <3>2 DEF AssetXferFields
    <3> QED
      BY <3>1, <3>3, Zenon
  <2>5. CASE type = "afrz"
    <3>1. specific = AssetFreezeFields
      BY <2>5 DEF FieldsOf
    <3>2. /\ Required("faid") \in FieldToRead /\ Required("fadd") \in FieldToRead
          /\ Always("afrz") \in FieldToRead
      BY FieldsToRead DEF PlainKeys
    <3>3. AssetFreezeFields \in Seq(FieldToRead)
      BY <3>2 DEF AssetFreezeFields
    <3> QED
      BY <3>1, <3>3, Zenon
  <2>6. CASE type = "acfg"
    BY <2>6, FieldsToRead DEF PlainKeys
  <2>7. CASE type = "appl"
    <3>1. specific = ApplicationFields
      BY <2>7 DEF FieldsOf
    <3>2. /\ Always("apid") \in FieldToRead /\ Always("apan") \in FieldToRead
          /\ Optional("apbx") \in FieldToRead /\ Optional("apfa") \in FieldToRead
          /\ Optional("apas") \in FieldToRead /\ Optional("apat") \in FieldToRead
          /\ Optional("apaa") \in FieldToRead /\ Optional("apgs") \in FieldToRead
          /\ Optional("apls") \in FieldToRead /\ Optional("apep") \in FieldToRead
          /\ Optional("apap") \in FieldToRead /\ Optional("apsu") \in FieldToRead
      BY FieldsToRead DEF PlainKeys
    <3>3. ApplicationFields \in Seq(FieldToRead)
      BY <3>2 DEF ApplicationFields
    <3> QED
      BY <3>1, <3>3, Zenon
  <2> QED
    BY <2>1, <2>2, <2>3, <2>4, <2>5, <2>6, <2>7
<1>3. ParseQueries(type) = [i \in DOMAIN fields |-> Query(fields[i])]
  BY DEF ParseQueries
<1> HIDE DEF specific
<1>4. fields \in Seq(FieldToRead)
  BY <1>1, <1>2
<1>7. Len(fields) # 0
  <2> DEFINE common == CommonFields
             validity == ValidityFields
  <2>1. Len(common) = 8 /\ common \in Seq(FieldToRead) /\ validity \in Seq(FieldToRead)
    BY <1>1 DEF CommonFields
  <2>2. fields = common \o validity \o specific
    OBVIOUS
  <2> HIDE DEF common, validity, fields
  <2>3. common \o validity \in Seq(FieldToRead) /\ Len(common \o validity) = 8 + Len(validity)
    BY <2>1, ConcatLength
  <2>4. Len(fields) = 8 + Len(validity) + Len(specific)
    BY <1>2, <2>2, <2>3, ConcatLength
  <2>5. Len(validity) \in Nat /\ Len(specific) \in Nat
    BY <1>2, <2>1
  <2> QED
    BY <2>4, <2>5
<1> HIDE DEF fields
<1>5. Len(fields) \in Nat /\ DOMAIN fields = 1..Len(fields)
  BY <1>4
<1>6. \A i \in DOMAIN fields : Query(fields[i]) \in PlainQuery
  <2>1. ASSUME NEW i \in DOMAIN fields PROVE fields[i] \in FieldToRead
    BY <1>4
  <2> QED
    BY <2>1 DEF FieldToRead, Query, PlainQuery
<1> QED
  BY <1>3, <1>5, <1>6, <1>7

\* The fields of a type are fields to look for.
LEMMA QueriesType ==
    ASSUME NEW type \in TxTypes
    PROVE  ParseQueries(type) \in Seq(QueryType)
<1> DEFINE s == ParseQueries(type)
<1>1. s \in Seq(PlainQuery)
  BY PlainQueries
<1>2. PlainQuery \subseteq QueryType
  BY PlainNames DEF PlainQuery, QueryType
<1> HIDE DEF s
<1>3. s \in Seq(QueryType)
  BY <1>1, <1>2
<1> QED
  BY <1>3 DEF s

\* The elements of an array, one query for each.
LEMMA ElementsType ==
    ASSUME NEW key \in Keys, NEW n \in Nat
    PROVE  Elements(key, n) \in Seq(QueryType)
<1>1. \A i \in 1..n : [key |-> key, required |-> TRUE, element |-> i] \in QueryType
  BY DEF QueryType
<1> QED
  BY <1>1 DEF Elements

-----------------------------------------------------------------------------
(* The steps.                                                                *)

Searching == phase \in {"keys", "value", "params"}

\* SearchTypeOK and OffsetInWindow, and that something is looked for while there is a
\* search: what every step keeps.
SearchInv ==
    /\ SearchTypeOK
    /\ OffsetInWindow
    /\ Searching => todo # <<>>

\* The field that is looked for.
LEMMA WantType ==
    ASSUME SearchInv, Searching
    PROVE  Want \in QueryType /\ Tail(todo) \in Seq(QueryType)
<1>1. todo \in Seq(QueryType) /\ todo # <<>>
  BY DEF SearchInv, SearchTypeOK, QueryType
<1> QED
  BY <1>1 DEF Want

\* A search begins inside.
LEMMA SearchStarts ==
    ASSUME NEW queries \in Seq(QueryType), NEW from \in Seq(Byte), Search(queries, from)
    PROVE  /\ todo' \in Seq(QueryType) /\ phase' \in {"accepted", "keys"}
           /\ phase' = "keys" => todo' # <<>>
           /\ offset' \in 0..Len(from) /\ left' \in 0..UINT16_MAX /\ pending' \in Nat
<1>1. Inside(from, readMapSize(from, 0)) /\ readMapSize(from, 0).n \in 0..UINT16_MAX
  BY MapSizeStays, MapSizeFits
<1>2. /\ offset' = readMapSize(from, 0).at /\ left' = readMapSize(from, 0).n /\ pending' = 0
      /\ todo' = queries /\ phase' = IF queries = <<>> THEN "accepted" ELSE "keys"
  BY DEF Search
<1> QED
  BY <1>1, <1>2 DEF Inside

\* So does the next one, and the ones for what is printed.
Sizes == [{"apat", "apaa"} -> 0..MAX_ARG]

\* The next field, or the elements, or the end.
LEMMA ContinueKeeps ==
    ASSUME SearchInv, NEW queries \in Seq(QueryType), NEW sizes \in Sizes,
           Continue(queries, sizes), upload' = upload, buffer' = buffer, found' \subseteq Field
    PROVE  SearchInv'
<1> DEFINE all == IF queries = <<>> /\ ~validating
                  THEN Elements("apat", sizes.apat) \o Elements("apaa", sizes.apaa)
                  ELSE queries
<1>1. validating' = (validating \/ queries = <<>>) /\ Search(all, buffer) /\ num' = sizes
  BY DEF Continue
<1>2. all \in Seq(QueryType)
  <2>1. sizes.apat \in Nat /\ sizes.apaa \in Nat
    BY DEF Sizes, MAX_ARG
  <2>2. "apat" \in Keys /\ "apaa" \in Keys
    BY KeyNames
  <2>3. Elements("apat", sizes.apat) \in Seq(QueryType) /\ Elements("apaa", sizes.apaa) \in Seq(QueryType)
    BY <2>1, <2>2, ElementsType
  <2> QED
    BY <2>3
<1> HIDE DEF all
<1>3. buffer \in Seq(Byte) /\ upload \in Uploads /\ validating \in BOOLEAN
  BY DEF SearchInv, SearchTypeOK, Byte
<1>4. /\ todo' \in Seq(QueryType) /\ phase' \in {"accepted", "keys"}
      /\ phase' = "keys" => todo' # <<>>
      /\ offset' \in 0..Len(buffer) /\ left' \in 0..UINT16_MAX /\ pending' \in Nat
  BY <1>1, <1>2, <1>3, SearchStarts
<1>5. offset' \in Nat /\ validating' \in BOOLEAN
  BY <1>1, <1>3, <1>4
<1>6. SearchTypeOK'
  BY <1>1, <1>3, <1>4, <1>5 DEF SearchTypeOK, QueryType, Sizes, Byte
<1> QED
  BY <1>4, <1>6 DEF SearchInv, OffsetInWindow, Searching

\* A refusal changes nothing else.
LEMMA RefuseKeeps ==
    ASSUME SearchInv, Refuse
    PROVE  SearchInv'
BY DEF Refuse, context, SearchInv, SearchTypeOK, OffsetInWindow, Searching

\* Neither does a step that moves the offset to another place inside.
LEMMA MoveKeeps ==
    ASSUME SearchInv, upload' = upload, buffer' = buffer, todo' = todo,
           validating' = validating, num' = num,
           offset' \in 0..Len(buffer), left' \in 0..UINT16_MAX, pending' \in Nat,
           phase' \in {"keys", "value", "params"}, Searching, found' \subseteq Field
    PROVE  SearchInv'
<1>1. buffer \in Seq(Byte) /\ offset' \in Nat
  BY DEF SearchInv, SearchTypeOK, Byte
<1> QED
  BY <1>1 DEF SearchInv, SearchTypeOK, OffsetInWindow, Searching

\* What was found of a field.
LEMMA FoundType ==
    ASSUME SearchInv, NEW key \in Keys \union {"type"}, NEW element \in Nat,
           NEW r, Inside(buffer, r)
    PROVE  Value(buffer, key, element, r) \in Field
<1>1. Contents(buffer, r) \in Seq(0..255)
  BY ContentsAreBytes DEF SearchInv, SearchTypeOK, Byte
<1> QED
  BY <1>1 DEF Value, Field

\* A step of the parse keeps the invariant.
LEMMA StepKeeps ==
    ASSUME SearchInv, Step
    PROVE  SearchInv'
<1>1. /\ buffer \in Seq(Byte) /\ offset \in 0..Len(buffer) /\ found \subseteq Field
      /\ left \in 0..UINT16_MAX /\ pending \in Nat /\ num \in Sizes
  BY DEF SearchInv, SearchTypeOK, OffsetInWindow, Byte, Sizes
<1>2. ASSUME NEW r, Inside(buffer, r)
      PROVE  r.at \in 0..Len(buffer) /\ r.n \in Nat
  BY <1>2 DEF Inside
<1>3. ASSUME Searching, Continue(Tail(todo), num), UNCHANGED <<upload, buffer, found>>
      PROVE  SearchInv'
  BY <1>1, <1>3, WantType, ContinueKeeps
<1>4. CASE NextKey
  <2> DEFINE key == readString(buffer, offset, TmpKeySize)
  <2>1. key.at \in 0..Len(buffer)
    BY <1>1, <1>2, StringStays
  <2>2. /\ phase = "keys" /\ left > 0 /\ offset' = key.at
        /\ UNCHANGED <<upload, buffer, todo, validating, num, found>>
        /\ \/ phase' = "value" /\ UNCHANGED <<left, pending>>
           \/ left' = left - 1 /\ pending' = 1 /\ UNCHANGED phase
    BY <1>4, Zenon DEF NextKey
  <2> HIDE DEF key
  <2>3. left' \in 0..UINT16_MAX /\ pending' \in Nat /\ phase' \in {"keys", "value", "params"}
    BY <1>1, <2>2, OneLess
  <2> QED
    BY <1>1, <2>1, <2>2, <2>3, MoveKeeps DEF Searching
<1>5. CASE SkipValue
  <2> DEFINE value == verifyValue(buffer, offset)
  <2>1. value.at \in 0..Len(buffer) /\ value.n \in Nat
    BY <1>1, <1>2, SkippedStays
  <2>2. /\ phase = "keys" /\ pending > 0 /\ offset' = value.at /\ pending' = pending - 1 + value.n
        /\ UNCHANGED <<upload, buffer, todo, left, phase, validating, num, found>>
    BY <1>5, Zenon DEF SkipValue, SkipOver
  <2> HIDE DEF value
  <2>3. pending' \in Nat
    BY <1>1, <2>1, <2>2
  <2> QED
    BY <1>1, <2>1, <2>2, <2>3, MoveKeeps DEF Searching
<1>6. CASE SearchFails
  <2>1. Searching
    BY <1>6 DEF SearchFails, Searching
  <2> QED
    BY <1>3, <1>6, <2>1, RefuseKeeps, Zenon DEF SearchFails
<1>7. CASE ReadType
  <2> DEFINE text == readString(buffer, offset, 10)
  <2>1. Inside(buffer, text)
    BY <1>1, StringStays
  <2>2. \/ Refuse
        \/ /\ \E t \in TxTypes : Continue(ParseQueries(t), num)
           /\ found' = {Value(buffer, "type", 0, text)} /\ UNCHANGED <<upload, buffer>>
    BY <1>7, Zenon DEF ReadType
  <2> HIDE DEF text
  <2>3. {Value(buffer, "type", 0, text)} \subseteq Field
    BY <2>1, FoundType
  <2> QED
    BY <1>1, <2>2, <2>3, QueriesType, ContinueKeeps, RefuseKeeps
<1>8. CASE ReadField
  <2> DEFINE key == Want.key
             value == readValue(buffer, key, offset)
             last == IF key = "votefst" THEN <<Query(Required("votelst"))>> ELSE <<>>
             more == IF value.ok THEN {Value(buffer, key, 0, value)} ELSE {}
             sizes == IF key \in DOMAIN num THEN [num EXCEPT ![key] = value.n] ELSE num
  <2>1. /\ Searching /\ key # "type"
        /\ \/ Refuse
           \/ /\ found' = found \union more /\ Continue(last \o Tail(todo), sizes)
              /\ UNCHANGED <<upload, buffer>>
    BY <1>8, Zenon DEF ReadField, Searching
  <2>2. key \in Keys /\ Tail(todo) \in Seq(QueryType)
    BY <2>1, WantType DEF QueryType
  <2>3. Inside(buffer, value) /\ (key \in {"apat", "apaa"} => value.n <= MAX_ARG)
    BY <1>1, ValueStays
  <2>4. last \in Seq(QueryType)
    <3>1. Query(Required("votelst")) \in QueryType
      BY KeyNames DEF Query, Required, QueryType
    <3> QED
      BY <3>1
  <2> HIDE DEF key, value, last
  <2>5. more \subseteq Field
    BY <2>2, <2>3, FoundType
  <2>6. sizes \in Sizes
    <3>1. value.n \in Nat /\ MAX_ARG \in Nat
      BY <2>3 DEF Inside, MAX_ARG
    <3>2. key \in {"apat", "apaa"} => value.n \in 0..MAX_ARG
      BY <2>3, <3>1
    <3> QED
      BY <1>1, <3>2 DEF Sizes
  <2>7. last \o Tail(todo) \in Seq(QueryType)
    BY <2>2, <2>4
  <2> HIDE DEF more, sizes
  <2> QED
    BY <1>1, <2>1, <2>5, <2>6, <2>7, ContinueKeeps, RefuseKeeps
<1>9. CASE OpenParams
  <2> DEFINE map == readMapSize(buffer, offset)
  <2>1. map.at \in 0..Len(buffer) /\ map.n \in 0..UINT16_MAX
    BY <1>1, <1>2, MapSizeStays, MapSizeFits
  <2>2. /\ Searching
        /\ \/ Refuse
           \/ /\ phase' = "params" /\ offset' = map.at /\ left' = map.n
              /\ UNCHANGED <<upload, buffer, pending, todo, validating, num, found>>
    BY <1>9, Zenon DEF OpenParams, Searching
  <2> HIDE DEF map
  <2> QED
    BY <1>1, <2>1, <2>2, MoveKeeps, RefuseKeeps
<1>10. CASE ReadParam
  <2> DEFINE key == readString(buffer, offset, 10)
  <2>1. key.at \in 0..Len(buffer)
    BY <1>1, <1>2, StringStays
  <2>2. Searching /\ phase = "params" /\ left > 0 /\ left - 1 \in 0..UINT16_MAX
    <3>1. phase = "params" /\ left > 0
      BY <1>10 DEF ReadParam
    <3> QED
      BY <1>1, <3>1, OneLess DEF Searching
  <2>3. \/ Refuse
        \/ /\ left' = left - 1 /\ offset' = key.at
           /\ UNCHANGED <<upload, buffer, pending, todo, phase, validating, num, found>>
        \/ \E p \in Params :
             /\ found' = {f \in found : f.key # p} \union {Value(buffer, p, 0, readValue(buffer, p, key.at))}
             /\ left' = left - 1 /\ offset' = readValue(buffer, p, key.at).at
             /\ UNCHANGED <<upload, buffer, pending, todo, phase, validating, num>>
    <3>1. {p \in Params : key.ok /\ KeyIs(Contents(buffer, key), p)} \subseteq Params
      OBVIOUS
    <3> QED
      BY <1>10, Zenon DEF ReadParam
  <2> HIDE DEF key
  <2>4. ASSUME left' = left - 1, offset' = key.at,
               UNCHANGED <<upload, buffer, pending, todo, phase, validating, num, found>>
        PROVE  SearchInv'
    BY <1>1, <2>1, <2>2, <2>4, MoveKeeps
  <2>5. ASSUME NEW p \in Params,
               found' = {f \in found : f.key # p} \union {Value(buffer, p, 0, readValue(buffer, p, key.at))},
               left' = left - 1, offset' = readValue(buffer, p, key.at).at,
               UNCHANGED <<upload, buffer, pending, todo, phase, validating, num>>
        PROVE  SearchInv'
    <3>1. p \in Keys
      BY KeyNames
    <3>2. Inside(buffer, readValue(buffer, p, key.at))
      BY <1>1, <2>1, ValueStays
    <3>3. Value(buffer, p, 0, readValue(buffer, p, key.at)) \in Field
      BY <3>1, <3>2, FoundType
    <3>4. found' \subseteq Field /\ offset' \in 0..Len(buffer)
      BY <1>1, <1>2, <2>5, <3>2, <3>3
    <3> QED
      BY <1>1, <2>2, <2>5, <3>4, MoveKeeps
  <2> QED
    BY <2>3, <2>4, <2>5, RefuseKeeps
<1>11. CASE CloseParams
  <2>1. Searching
    BY <1>11 DEF CloseParams, Searching
  <2> QED
    BY <1>3, <1>11, <2>1, Zenon DEF CloseParams
<1>12. CASE PrintElement
  <2> DEFINE value == readElement(buffer, Want.key, offset, Want.element - 1, num.apat)
             more == {Value(buffer, Want.key, Want.element, value)}
  <2>1. /\ Searching /\ Want.element > 0
        /\ \/ Refuse
           \/ /\ found' = found \union more /\ Continue(Tail(todo), num) /\ UNCHANGED <<upload, buffer>>
    BY <1>12, Zenon DEF PrintElement, Searching
  <2>2. /\ Want.key \in Keys \union {"type"} /\ Want.element \in Nat /\ Want.element - 1 \in Nat
        /\ Tail(todo) \in Seq(QueryType)
    BY <2>1, WantType DEF QueryType
  <2>3. Inside(buffer, value)
    BY <1>1, <2>2, PrintedStays
  <2> HIDE DEF value
  <2>4. more \subseteq Field
    BY <2>2, <2>3, FoundType
  <2> HIDE DEF more
  <2> QED
    BY <1>1, <2>1, <2>2, <2>4, ContinueKeeps, RefuseKeeps
<1> QED
  BY <1>4, <1>5, <1>6, <1>7, <1>8, <1>9, <1>10, <1>11, <1>12, Zenon DEF Step

\* The next transaction is searched from its beginning.
LEMMA ParseKeeps ==
    ASSUME SearchInv, NEW u \in Uploads, NEW tail \in Tails, Parse(u, tail)
    PROVE  SearchInv'
<1> DEFINE map == readMapSize(buffer', 0)
           query == Query(Required("type"))
<1>1. buffer' = Bytes[u] \o tail /\ Bytes[u] \in Seq(Byte) /\ tail \in Seq(Byte)
  BY SearchAssumption DEF Parse, Byte
<1>2. buffer' \in Seq(Byte) /\ 0 \in 0..Len(buffer')
  BY <1>1
<1>3. /\ upload' = u /\ validating' = FALSE /\ num' = [apat |-> 0, apaa |-> 0] /\ found' = {}
      /\ \/ Search(<<query>>, buffer')
         \/ phase' = "refused" /\ offset' = map.at /\ UNCHANGED <<left, pending, todo>>
  BY Zenon DEF Parse
<1>4. Inside(buffer', map)
  BY <1>2, MapSizeStays
<1>5. <<query>> \in Seq(QueryType)
  BY DEF Query, Required, QueryType
<1> HIDE DEF map, query
<1>6. num' \in Sizes
  BY <1>3 DEF Sizes, MAX_ARG
<1>7. /\ todo' \in Seq(QueryType) /\ phase' \in {"accepted", "keys", "refused"}
      /\ phase' = "keys" => todo' # <<>>
      /\ offset' \in 0..Len(buffer') /\ left' \in 0..UINT16_MAX /\ pending' \in Nat
  <2>1. CASE Search(<<query>>, buffer')
    BY <1>2, <1>5, <2>1, SearchStarts
  <2>2. CASE phase' = "refused" /\ offset' = map.at /\ UNCHANGED <<left, pending, todo>>
    <3>1. map.at \in 0..Len(buffer')
      BY <1>4 DEF Inside
    <3> QED
      BY <2>2, <3>1 DEF SearchInv, SearchTypeOK, QueryType
  <2> QED
    BY <1>3, <2>1, <2>2
<1>8. offset' \in Nat /\ Len(buffer') \in Nat
  BY <1>2, <1>7
<1>9. SearchTypeOK'
  BY <1>2, <1>3, <1>6, <1>7, <1>8 DEF SearchTypeOK, QueryType, Sizes, Byte
<1> QED
  BY <1>7, <1>9 DEF SearchInv, OffsetInWindow, Searching

\* It holds at first.
LEMMA SearchBegins == Init => SearchInv
<1> SUFFICES ASSUME Init PROVE SearchInv
  OBVIOUS
<1>1. num \in Sizes
  BY DEF Init, Sizes, MAX_ARG
<1>2. todo \in Seq(QueryType) /\ buffer \in Seq(0..255) /\ Len(buffer) = 0
  BY DEF Init
<1> QED
  <2>1. /\ upload \in Uploads /\ offset = 0 /\ left = 0 /\ pending = 0 /\ phase = "idle"
        /\ validating = FALSE /\ found = {}
    BY DEF Init
  <2>2. 0 \in 0..Len(buffer)
    BY <1>2
  <2> QED
    BY <1>1, <1>2, <2>1, <2>2, OneLess
    DEF SearchInv, SearchTypeOK, OffsetInWindow, Searching, QueryType, Sizes

\* What every step keeps holds always.
LEMMA SearchInvariant == Spec => []SearchInv
<1>1. SearchInv /\ [Next]_vars => SearchInv'
  <2> SUFFICES ASSUME SearchInv, [Next]_vars PROVE SearchInv'
    OBVIOUS
  <2>1. CASE UNCHANGED vars
    BY <2>1 DEF vars, context, SearchInv, SearchTypeOK, OffsetInWindow, Searching
  <2> QED
    BY <2>1, StepKeeps, ParseKeeps, Zenon DEF Next
<1> QED
  BY <1>1, SearchBegins, PTL DEF Spec

\* Every variable keeps its type, whatever the bytes are: what was found are keys of
\* the tables with bytes of the upload, never more elements are printed than the
\* display has room for, and the count of values to walk over never passes zero.
THEOREM SearchTypeCorrect == Spec => []SearchTypeOK
<1>1. SearchInv => SearchTypeOK
  BY DEF SearchInv
<1> QED
  BY <1>1, SearchInvariant, PTL

\* The offset of the parser is never behind the last byte it was given, whatever is in
\* those bytes, in whatever order the fields are searched.
THEOREM SearchStaysInside == Spec => []OffsetInWindow
<1>1. SearchInv => OffsetInWindow
  BY DEF SearchInv
<1> QED
  BY <1>1, SearchInvariant, PTL

-----------------------------------------------------------------------------
(* One walk: what is read is left behind.                                    *)

\* What is read lies before the offset a reader leaves.
Passes(at, r) == r.ok => r.at > at

\* An integer takes the byte of its type at least.
LEMMA UIntPasses ==
    ASSUME NEW b \in Seq(Byte), NEW at \in 0..Len(b), NEW size \in 1..8
    PROVE  Passes(at, readUInt(b, at, size))
BY DEF Passes, readUInt, Fail, Read

\* As many bytes as asked for.
LEMMA BytesPass ==
    ASSUME NEW b \in Seq(Byte), NEW at \in 0..Len(b), NEW size \in Nat
    PROVE  readBytes(b, at, size).ok => readBytes(b, at, size).at >= at
BY DEF readBytes, Fail, Read

\* What cannot be read passes nothing.
LEMMA FailPasses == \A at : Passes(at, Fail(at))
BY DEF Passes, Fail

\* The size of a string, an array or a map.
LEMMA SizePasses ==
    ASSUME NEW b \in Seq(Byte), NEW at \in 0..Len(b), NEW short, NEW base,
           NEW wide, NEW width \in 1..8
    PROVE  Passes(at, readSize(b, at, short, base, wide, width))
<1> DEFINE type == readUInt(b, at, 1)
           wider == readUInt(b, type.at, width)
           small == Read(type.at, type.at, type.n - base)
<1>1. Inside(b, type) /\ Passes(at, type)
  BY UIntStays, UIntPasses
<1>2. readSize(b, at, short, base, wide, width) =
        IF ~type.ok THEN type
        ELSE IF type.n \in short THEN small
        ELSE IF type.n = wide THEN wider
        ELSE Fail(at)
  BY DEF readSize
<1> HIDE DEF type
<1>3. type.at \in 0..Len(b)
  BY <1>1 DEF Inside
<1>4. Passes(type.at, wider) /\ Inside(b, wider)
  BY <1>3, UIntPasses, UIntStays
<1>5. small.at = type.at
  BY DEF Read
<1> HIDE DEF wider, small
<1>6. type.ok => type.at > at /\ Passes(at, small) /\ Passes(at, wider)
  <2>1. wider.at \in Nat
    BY <1>4 DEF Inside
  <2> QED
    BY <1>1, <1>3, <1>4, <1>5, <2>1 DEF Passes
<1> QED
  BY <1>1, <1>2, <1>6, FailPasses, Zenon

\* A size and then as many bytes as it says.
LEMMA SizedPasses ==
    ASSUME NEW b \in Seq(Byte), NEW at \in 0..Len(b), NEW size, Inside(b, size), Passes(at, size),
           NEW n \in Nat, size.ok
    PROVE  Passes(at, readBytes(b, size.at, n))
<1> DEFINE p == size.at
           r == readBytes(b, p, n)
<1>1. p \in 0..Len(b) /\ p > at
  BY DEF Inside, Passes
<1> HIDE DEF p
<1>2. Inside(b, r) /\ (r.ok => r.at >= p)
  BY <1>1, BytesStay, BytesPass
<1> HIDE DEF r
<1>3. Passes(at, r)
  BY <1>1, <1>2 DEF Inside, Passes
<1> QED
  BY <1>3 DEF r, p

\* A string.
LEMMA StringPasses ==
    ASSUME NEW b \in Seq(Byte), NEW at \in 0..Len(b), NEW bufLen
    PROVE  Passes(at, readString(b, at, bufLen))
<1> DEFINE size == readSize(b, at, FIXSTR, 160, STR8, 1)
<1>1. \A type \in FIXSTR : type \in Nat /\ type >= 160
  BY DEF FIXSTR
<1>2. Inside(b, size) /\ Passes(at, size)
  BY <1>1, SizeStays, SizePasses
<1>3. readString(b, at, bufLen) =
        IF ~size.ok \/ size.n >= bufLen THEN Fail(at) ELSE readBytes(b, size.at, size.n)
  BY DEF readString
<1> HIDE DEF size
<1>4. size.ok => Passes(at, readBytes(b, size.at, size.n))
  BY <1>2, SizedPasses, Zenon DEF Inside
<1> QED
  BY <1>3, <1>4, FailPasses, Zenon

\* A byte string.
LEMMA BinPasses ==
    ASSUME NEW b \in Seq(Byte), NEW at \in 0..Len(b), NEW max
    PROVE  Passes(at, readBin(b, at, max))
<1> DEFINE type == readUInt(b, at, 1)
           width == type.n - BIN8 + 1
           length == readBinSize(b, at)
           wide == readUInt(b, type.at, width)
<1>1. Inside(b, type) /\ Passes(at, type) /\ Inside(b, length)
  BY UIntStays, UIntPasses, BinSizeStays
<1>2. length = IF type.ok /\ type.n \in {BIN8, BIN16} THEN wide ELSE Fail(at)
  BY DEF readBinSize
<1>3. readBin(b, at, max) =
        IF ~length.ok \/ length.n > max THEN Fail(at) ELSE readBytes(b, length.at, length.n)
  BY DEF readBin
<1> HIDE DEF length, type
<1>4. type.n \in {BIN8, BIN16} => width \in 1..8
  BY DEF BIN8, BIN16
<1> HIDE DEF width
<1>5. type.at \in 0..Len(b)
  BY <1>1 DEF Inside
<1>6. type.ok /\ type.n \in {BIN8, BIN16} => Passes(at, wide)
  <2>1. CASE type.n \in {BIN8, BIN16} /\ type.ok
    <3>1. Inside(b, wide) /\ Passes(type.at, wide)
      BY <1>4, <1>5, <2>1, UIntPasses, UIntStays
    <3> HIDE DEF wide
    <3> QED
      BY <1>1, <1>5, <2>1, <3>1 DEF Passes, Inside
  <2> QED
    BY <2>1
<1> HIDE DEF wide
<1>7. Passes(at, length)
  BY <1>2, <1>6, FailPasses, Zenon
<1>8. length.ok => Passes(at, readBytes(b, length.at, length.n))
  BY <1>1, <1>7, SizedPasses, Zenon DEF Inside
<1> QED
  BY <1>3, <1>8, FailPasses, Zenon

\* An integer of any width.
LEMMA IntegerPasses ==
    ASSUME NEW b \in Seq(Byte), NEW at \in 0..Len(b)
    PROVE  Passes(at, readInteger(b, at))
<1> DEFINE type == readUInt(b, at, 1)
           wide == readBytes(b, type.at, UIntSizes[type.n - 203])
<1>1. Inside(b, type) /\ Passes(at, type)
  BY UIntStays, UIntPasses
<1>2. readInteger(b, at) =
        IF ~type.ok THEN type
        ELSE IF type.n \in FIXINT THEN Read(at, type.at, type.n)
        ELSE IF type.n \in UINTS THEN [wide EXCEPT !.from = at]
        ELSE Fail(at)
  BY DEF readInteger
<1> HIDE DEF type
<1>3. type.at \in 0..Len(b) /\ type.n \in Nat
  BY <1>1 DEF Inside
<1>4. type.ok => Passes(at, Read(at, type.at, type.n))
  BY <1>1 DEF Passes, Read
<1>5. ASSUME type.ok, type.n \in UINTS
      PROVE  Passes(at, [wide EXCEPT !.from = at])
  <2>1. type.n \in {204, 205, 206, 207}
    BY <1>5 DEF UINTS
  <2>2. UIntSizes[type.n - 203] \in Nat
    BY <2>1 DEF UIntSizes
  <2>3. Inside(b, wide) /\ Passes(at, wide)
    BY <1>1, <1>3, <1>5, <2>2, BytesStay, SizedPasses
  <2> HIDE DEF wide
  <2> QED
    BY <2>3 DEF Inside, Passes
<1> HIDE DEF wide
<1> QED
  BY <1>1, <1>2, <1>4, <1>5, FailPasses, Zenon

\* What is walked over is left behind.
LEMMA SkippedPasses ==
    ASSUME NEW b \in Seq(Byte), NEW at \in 0..Len(b)
    PROVE  Passes(at, verifyValue(b, at))
<1> DEFINE type == readUInt(b, at, 1)
           map == readMapSize(b, at)
           size == readSize(b, at, FIXARR, 144, ARR16, 2)
<1>1. /\ Passes(at, type) /\ Passes(at, readInteger(b, at)) /\ Passes(at, readString(b, at, 256))
      /\ Passes(at, readBin(b, at, UINT16_MAX))
  BY UIntPasses, IntegerPasses, StringPasses, BinPasses
<1>2. Passes(at, map)
  BY SizePasses DEF readMapSize
<1>3. Passes(at, readArraySize(b, at))
  <2>1. Passes(at, size)
    BY SizePasses
  <2>2. readArraySize(b, at) = IF size.n > 255 THEN Fail(at) ELSE size
    BY DEF readArraySize
  <2> QED
    BY <2>1, <2>2, FailPasses, Zenon
<1>4. Passes(at, readBool(b, at))
  BY <1>1, FailPasses, Zenon DEF readBool
<1>5. ASSUME NEW r, Inside(b, r), Passes(at, r), NEW m
      PROVE  Passes(at, Holding(r, m))
  BY <1>5 DEF Passes, Holding, Inside
<1>6. /\ Inside(b, type) /\ Inside(b, map) /\ Inside(b, readInteger(b, at))
      /\ Inside(b, readString(b, at, 256))
      /\ Inside(b, readBool(b, at)) /\ Inside(b, readBin(b, at, UINT16_MAX))
  BY UIntStays, MapSizeStays, IntegerStays, StringStays, BoolStays, BinStays
<1>7. /\ Passes(at, Holding(readInteger(b, at), 0)) /\ Passes(at, Holding(map, 2 * map.n))
      /\ Passes(at, Holding(readString(b, at, 256), 0)) /\ Passes(at, Holding(readBool(b, at), 0))
      /\ Passes(at, Holding(readBin(b, at, UINT16_MAX), 0))
  BY <1>1, <1>2, <1>4, <1>5, <1>6
<1>8. verifyValue(b, at) =
        IF ~type.ok THEN type
        ELSE IF type.n \in FIXINT \union UINTS THEN Holding(readInteger(b, at), 0)
        ELSE IF type.n \in FIXMAP \union {MAP16} THEN Holding(map, 2 * map.n)
        ELSE IF type.n \in FIXARR \union {ARR16} THEN readArraySize(b, at)
        ELSE IF type.n \in FIXSTR \union {STR8} THEN Holding(readString(b, at, 256), 0)
        ELSE IF type.n \in BOOLS THEN Holding(readBool(b, at), 0)
        ELSE IF type.n \in {BIN8, BIN16} THEN Holding(readBin(b, at, UINT16_MAX), 0)
        ELSE Fail(at)
  BY DEF verifyValue
<1> HIDE DEF type, map
<1> QED
  BY <1>1, <1>3, <1>7, <1>8, FailPasses, Zenon

-----------------------------------------------------------------------------
(* One walk: its stops and its keys.                                         *)

\* Where the walk may stand.
Stops(b) == [at : 0..Len(b), left : Nat, pending : Nat]

\* It stays inside, and each step leaves something behind.
LEMMA OnwardStays ==
    ASSUME NEW b \in Seq(Byte), NEW stop \in Stops(b)
    PROVE  /\ Onward(b, stop) \in Stops(b)
           /\ IsReadable(b, stop) => Onward(b, stop).at > stop.at
<1> DEFINE key == readString(b, stop.at, TmpKeySize)
           value == verifyValue(b, stop.at)
           s == Onward(b, stop)
<1>1. stop.at \in 0..Len(b) /\ stop.left \in Nat /\ stop.pending \in Nat
  BY DEF Stops
<1>2. Inside(b, key) /\ Inside(b, value) /\ Passes(stop.at, key) /\ Passes(stop.at, value)
  BY <1>1, StringStays, SkippedStays, StringPasses, SkippedPasses
<1>3. /\ IsReadable(b, stop) <=> IF stop.pending > 0 THEN value.ok ELSE stop.left > 0 /\ key.ok
      /\ s = IF IsReadable(b, stop) THEN Beyond(b, stop) ELSE stop
      /\ stop.pending > 0 => Beyond(b, stop) = [at |-> value.at, left |-> stop.left,
                                                pending |-> stop.pending - 1 + value.n]
      /\ ~(stop.pending > 0) => Beyond(b, stop) = [at |-> key.at, left |-> stop.left - 1, pending |-> 1]
  BY Zenon DEF IsReadable, Onward, Beyond
<1> HIDE DEF key, value, s
<1>4. key.at \in 0..Len(b) /\ value.at \in 0..Len(b) /\ value.n \in Nat
  BY <1>2 DEF Inside
<1>5. CASE ~IsReadable(b, stop)
  <2>1. s = stop
    BY <1>3, <1>5, Zenon
  <2> QED
    BY <1>5, <2>1 DEF s
<1>6. CASE IsReadable(b, stop) /\ stop.pending > 0
  <2>1. s = [at |-> value.at, left |-> stop.left, pending |-> stop.pending - 1 + value.n] /\ value.ok
    BY <1>3, <1>6
  <2>2. stop.pending - 1 + value.n \in Nat
    BY <1>1, <1>4, <1>6
  <2>3. s \in Stops(b) /\ s.at > stop.at
    BY <1>1, <1>2, <1>4, <2>1, <2>2 DEF Stops, Passes
  <2> QED
    BY <2>3 DEF s
<1>7. CASE IsReadable(b, stop) /\ ~(stop.pending > 0)
  <2>1. s = [at |-> key.at, left |-> stop.left - 1, pending |-> 1] /\ key.ok /\ stop.left > 0
    BY <1>3, <1>7
  <2>2. stop.left - 1 \in Nat
    BY <1>1, <2>1
  <2>3. s \in Stops(b) /\ s.at > stop.at
    BY <1>1, <1>2, <1>4, <2>1, <2>2 DEF Stops, Passes
  <2> QED
    BY <2>3 DEF s
<1> QED
  BY <1>5, <1>6, <1>7

\* The walk is what its recursion says: the function exists, and every stop is inside the
\* bytes.
LEMMA WalkSteps ==
    ASSUME NEW b \in Seq(Byte)
    PROVE  /\ Walk(b)[0] = Beginning(b)
           /\ \A i \in 1..Len(b) : Walk(b)[i] = Onward(b, Walk(b)[i - 1])
           /\ \A i \in 0..Len(b) : Walk(b)[i] \in Stops(b)
<1> DEFINE X == Stops(b)
           n == Len(b)
           g == [stop \in X |-> Onward(b, stop)]
           next(f) == [i \in 0..n |-> IF i = 0 THEN Beginning(b) ELSE Onward(b, f[i - 1])]
           walk == CHOOSE f : f = next(f)
<1>0. n \in Nat
  OBVIOUS
<1>1. Beginning(b) \in X
  <2>1. Inside(b, readMapSize(b, 0))
    BY MapSizeStays
  <2> QED
    BY <2>1 DEF Inside, Beginning, Stops
<1>2. \A stop \in X : Onward(b, stop) \in X
  BY OnwardStays
<1>3. Walk(b) = walk
  BY DEF Walk
<1> HIDE DEF X, n
<1>4. g \in [X -> X]
  BY <1>2
<1>5. PICK h \in [0..n -> X] : Iterates(h, g, Beginning(b), n)
  BY <1>0, <1>1, <1>4, IterationExists
<1>6. h = next(h)
  <2>1. ASSUME NEW i \in 0..n, i # 0 PROVE h[i] = Onward(b, h[i - 1])
    <3>1. i \in 1..n /\ i - 1 \in 0..n
      BY <1>0, <2>1
    <3>2. h[i - 1] \in X /\ h[i] = g[h[i - 1]]
      BY <1>5, <3>1 DEF Iterates
    <3> QED
      BY <3>2
  <2>2. h[0] = Beginning(b)
    BY <1>5 DEF Iterates
  <2> QED
    BY <2>1, <2>2
<1>7. walk = next(walk)
  BY <1>6
<1> HIDE DEF walk
<1>8. walk[0] = Beginning(b) /\ \A i \in 1..n : walk[i] = Onward(b, walk[i - 1])
  <2>1. 0 \in 0..n /\ \A i \in 1..n : i \in 0..n /\ i # 0
    BY <1>0
  <2> QED
    BY <1>7, <2>1
<1>9. ASSUME NEW k \in 0..n PROVE walk[k] \in X
  <2>1. k \in Nat /\ \A i \in 1..k : i \in 1..n
    BY <1>0
  <2>2. \A i \in 1..k : walk[i - 1] \in X => walk[i] \in X
    BY <1>2, <1>8, <2>1
  <2>3. walk[0] \in X
    BY <1>1, <1>8
  <2> QED
    BY <2>1, <2>2, <2>3, IterationStays, Zenon
<1> QED
  BY <1>3, <1>8, <1>9 DEF X, n

\* The i-th stop is before a key, and that key.
IsKey(b, i) == i \in 0..Len(b) /\ Walk(b)[i].pending = 0 /\ IsReadable(b, Walk(b)[i])

KeyAt(b, i) ==
    LET key == readString(b, Walk(b)[i].at, TmpKeySize)
    IN  [nth |-> i, text |-> Contents(b, key), at |-> key.at]

\* MapKeys, key by key.
LEMMA KeysAre ==
    ASSUME NEW b, NEW k
    PROVE  k \in MapKeys(b) <=> \E i : IsKey(b, i) /\ k = KeyAt(b, i)
<1> DEFINE walk == Walk(b)
           key(i) == readString(b, walk[i].at, TmpKeySize)
           places == {j \in 0..Len(b) : walk[j].pending = 0 /\ IsReadable(b, walk[j])}
           record(i) == [nth |-> i, text |-> Contents(b, key(i)), at |-> key(i).at]
<1>1. MapKeys(b) = {record(i) : i \in places}
  BY DEF MapKeys
<1>2. \A i : KeyAt(b, i) = record(i) /\ (i \in places <=> IsKey(b, i))
  BY DEF KeyAt, IsKey
<1> HIDE DEF record, places
<1> QED
  BY <1>1, <1>2

\* No key before the i-th stop begins with the name.
Unanswered(b, i, name) ==
    \A k \in MapKeys(b) : k.nth < i => ~IsPrefix(Ascii[name], k.text)

\* There is at most one first key.
LEMMA OneFirst ==
    ASSUME NEW b, NEW name, NEW k \in FirstOf(MapKeys(b), name), NEW l \in FirstOf(MapKeys(b), name)
    PROVE  k = l
<1>1. k.nth <= l.nth /\ l.nth <= k.nth /\ k \in MapKeys(b) /\ l \in MapKeys(b)
  BY DEF FirstOf
<1>2. PICK i : IsKey(b, i) /\ k = KeyAt(b, i)
  BY <1>1, KeysAre
<1>3. PICK j : IsKey(b, j) /\ l = KeyAt(b, j)
  BY <1>1, KeysAre
<1>4. k.nth = i /\ l.nth = j /\ i \in 0..Len(b) /\ j \in 0..Len(b)
  BY <1>2, <1>3 DEF KeyAt, IsKey
<1>5. i = j
  BY <1>1, <1>4
<1> QED
  BY <1>2, <1>3, <1>5

\* The key at which a search ends well is the first of its name.
LEMMA AnswerIsFirst ==
    ASSUME NEW b, NEW name, NEW i, IsKey(b, i), Unanswered(b, i, name),
           IsPrefix(Ascii[name], KeyAt(b, i).text)
    PROVE  KeyAt(b, i) \in FirstOf(MapKeys(b), name)
<1> DEFINE called(k) == IsPrefix(Ascii[name], k.text)
           this == KeyAt(b, i)
<1>1. this \in MapKeys(b) /\ this.nth = i /\ i \in 0..Len(b)
  BY KeysAre DEF KeyAt, IsKey
<1>2. ASSUME NEW l \in MapKeys(b), called(l) PROVE this.nth <= l.nth
  <2>1. PICK j : IsKey(b, j) /\ l = KeyAt(b, j)
    BY KeysAre
  <2>2. l.nth = j /\ j \in 0..Len(b)
    BY <2>1 DEF KeyAt, IsKey
  <2>3. ~(l.nth < i)
    BY <1>2 DEF Unanswered
  <2> HIDE DEF this
  <2> QED
    BY <1>1, <2>2, <2>3
<1>3. called(this)
  OBVIOUS
<1> HIDE DEF called, this
<1>4. this \in {k \in {j \in MapKeys(b) : called(j)} : \A l \in {j \in MapKeys(b) : called(j)} : k.nth <= l.nth}
  BY <1>1, <1>2, <1>3
<1> QED
  BY <1>4 DEF FirstOf, called, this

\* Where the walk ends it stays.
LEMMA StuckIsLast ==
    ASSUME NEW b \in Seq(Byte), NEW i \in 0..Len(b), ~IsReadable(b, Walk(b)[i]),
           NEW k \in MapKeys(b)
    PROVE  k.nth < i
<1> DEFINE walk == Walk(b)
<1>1. PICK j : IsKey(b, j) /\ k = KeyAt(b, j)
  BY KeysAre
<1>2. k.nth = j /\ j \in 0..Len(b) /\ IsReadable(b, walk[j])
  BY <1>1 DEF KeyAt, IsKey
<1> SUFFICES ASSUME j >= i PROVE FALSE
  BY <1>2
<1> DEFINE f == [m \in 0..(j - i) |-> walk[i + m]]
<1>3. \A m \in 1..Len(b) : walk[m] = Onward(b, walk[m - 1])
  BY WalkSteps
<1> HIDE DEF walk
<1>4. j - i \in Nat /\ 0 \in 0..(j - i) /\ j - i \in 0..(j - i)
  BY <1>2
<1>5. ASSUME NEW m \in 1..(j - i), f[m - 1] \in {walk[i]} PROVE f[m] \in {walk[i]}
  <2>1. m - 1 \in 0..(j - i) /\ m \in 0..(j - i) /\ i + m \in 1..Len(b) /\ i + (m - 1) = (i + m) - 1
    BY <1>2
  <2>2. walk[i + m] = Onward(b, walk[i])
    <3>1. walk[(i + m) - 1] = walk[i]
      BY <1>5, <2>1
    <3> QED
      BY <1>3, <2>1, <3>1
  <2>3. Onward(b, walk[i]) = walk[i]
    BY DEF Onward, walk
  <2> QED
    BY <2>1, <2>2, <2>3
<1>6. f[0] \in {walk[i]}
  <2>1. i + 0 = i
    OBVIOUS
  <2> QED
    BY <1>4, <2>1
<1>7. f[j - i] = walk[j]
  <2>1. i + (j - i) = j
    BY <1>2
  <2> QED
    BY <1>4, <2>1
<1> HIDE DEF f
<1>8. f[j - i] \in {walk[i]}
  <2> DEFINE n == j - i
             X == {walk[i]}
  <2>1. n \in Nat /\ f[0] \in X /\ \A m \in 1..n : f[m - 1] \in X => f[m] \in X
    BY <1>4, <1>5, <1>6
  <2> HIDE DEF n, X
  <2>2. f[n] \in X
    BY <2>1, IterationStays, Zenon
  <2> QED
    BY <2>2 DEF n, X
<1> QED
  BY <1>2, <1>7, <1>8 DEF walk

\* A search that got stuck before its key has missed none.
LEMMA NoneIsFirst ==
    ASSUME NEW b \in Seq(Byte), NEW name, NEW i \in 0..Len(b), Unanswered(b, i, name),
           ~IsReadable(b, Walk(b)[i])
    PROVE  FirstOf(MapKeys(b), name) = {}
BY StuckIsLast, Zenon DEF FirstOf, Unanswered

\* One step further, behind a value or a key of another name.
LEMMA WalksOn ==
    ASSUME NEW b \in Seq(Byte), NEW name, NEW i \in 0..Len(b), Unanswered(b, i, name),
           i <= Walk(b)[i].at, IsReadable(b, Walk(b)[i]),
           IsKey(b, i) => ~IsPrefix(Ascii[name], KeyAt(b, i).text)
    PROVE  /\ i + 1 \in 0..Len(b) /\ Walk(b)[i + 1] = Beyond(b, Walk(b)[i])
           /\ i + 1 <= Walk(b)[i + 1].at /\ Unanswered(b, i + 1, name)
<1> DEFINE stop == Walk(b)[i]
           after == Onward(b, stop)
<1>1. stop \in Stops(b)
  BY WalkSteps
<1>2. after \in Stops(b) /\ after.at > stop.at /\ after = Beyond(b, stop)
  BY <1>1, OnwardStays DEF Onward
<1>3. i + 1 \in 1..Len(b) /\ i + 1 <= after.at
  <2>1. stop.at \in 0..Len(b) /\ after.at \in 0..Len(b) /\ i <= stop.at
    BY <1>1, <1>2 DEF Stops
  <2> HIDE DEF stop, after
  <2> QED
    BY <1>2, <2>1
<1>4. Walk(b)[i + 1] = after
  <2>1. (i + 1) - 1 = i
    OBVIOUS
  <2> QED
    BY <1>3, <2>1, WalkSteps
<1>5. ASSUME NEW k \in MapKeys(b), k.nth < i + 1 PROVE ~IsPrefix(Ascii[name], k.text)
  <2>1. PICK j : IsKey(b, j) /\ k = KeyAt(b, j)
    BY KeysAre
  <2>2. k.nth = j /\ j \in 0..Len(b)
    BY <2>1 DEF KeyAt, IsKey
  <2>3. j < i \/ j = i
    BY <1>5, <2>2
  <2> QED
    BY <2>1, <2>2, <2>3 DEF Unanswered
<1> HIDE DEF stop, after
<1>6. Unanswered(b, i + 1, name)
  BY <1>5, Zenon DEF Unanswered
<1> QED
  BY <1>2, <1>3, <1>4, <1>6 DEF stop

-----------------------------------------------------------------------------
(* One walk: the fields behind the keys.                                     *)

\* What is read behind a key.
ValueAt(b, name, at) == IF name = "type" THEN readString(b, at, 10) ELSE readValue(b, name, at)
ElementAt(b, name, at, i) == Value(b, name, i, readElement(b, name, at, i - 1, ValueAt(b, name, at).n))
HasElements(b, name, at, f) ==
    name \in {"apat", "apaa"} /\ \E i \in 1..ValueAt(b, name, at).n : f = ElementAt(b, name, at, i)

\* SaidAt, value by value.
LEMMA SaidIs ==
    ASSUME NEW b, NEW name, NEW at, NEW f
    PROVE  f \in SaidAt(b, name, at) <=>
              /\ name # "apar" /\ ValueAt(b, name, at).ok
              /\ f = Value(b, name, 0, ValueAt(b, name, at)) \/ HasElements(b, name, at, f)
<1> DEFINE value == ValueAt(b, name, at)
           elements == IF name \in {"apat", "apaa"} THEN value.n ELSE 0
           rest == {Value(b, name, i, readElement(b, name, at, i - 1, value.n)) : i \in 1..elements}
<1>1. SaidAt(b, name, at) =
        IF name = "apar" \/ ~value.ok THEN {} ELSE {Value(b, name, 0, value)} \union rest
  BY DEF SaidAt, ValueAt
<1>2. f \in rest <=> HasElements(b, name, at, f)
  <2>1. CASE name \in {"apat", "apaa"}
    <3>1. elements = value.n
      BY <2>1
    <3> QED
      BY <2>1, <3>1 DEF HasElements, ElementAt
  <2>2. CASE name \notin {"apat", "apaa"}
    <3>1. 1..elements = {}
      BY <2>2
    <3> QED
      BY <2>2, <3>1 DEF HasElements
  <2> QED
    BY <2>1, <2>2
<1> HIDE DEF value, rest
<1>3. f \in SaidAt(b, name, at) <=>
        /\ name # "apar" /\ value.ok
        /\ f = Value(b, name, 0, value) \/ f \in rest
  BY <1>1
<1> QED
  BY <1>2, <1>3 DEF value

Asked(b, type) == AskedFor(type, MapKeys(b))
First(b, name) == FirstOf(MapKeys(b), name)
Said(b, name) == SaidBy(b, MapKeys(b), name)

\* What the map says of a name is said behind its first key, and bears the name.
LEMMA SaidKey ==
    ASSUME NEW b, NEW name, NEW f
    PROVE  /\ f \in Said(b, name) <=> \E k \in First(b, name) : f \in SaidAt(b, name, k.at)
           /\ f \in Said(b, name) => f.key = name
<1>1. f \in Said(b, name) <=> \E k \in First(b, name) : f \in SaidAt(b, name, k.at)
  BY DEF Said, SaidBy, First
<1>2. ASSUME NEW at, f \in SaidAt(b, name, at) PROVE f.key = name
  BY <1>2, SaidIs DEF HasElements, ElementAt, Value
<1> QED
  BY <1>1, <1>2

\* A field is still to be looked for.
Pending(Q, name) == \E q \in Q : q.key = name /\ q.element = 0

\* What was found: the type, only what the map says, every field whose turn is over, the
\* sizes of its arrays and, when they are printed, their elements.
TypeFound(type, fs) == \E f \in fs : f.key = "type" /\ TextIs(f.bytes, type)

OnlySaid(b, type, fs) ==
    \A f \in fs : f.key \in Params \/ \E name \in Asked(b, type) : f \in Said(b, name)

FieldSaid(b, name, fs) == \A f \in Said(b, name) : f.element = 0 => f \in fs

FieldsSaid(b, type, Q, fs) ==
    \A name \in Asked(b, type) :
        \/ Pending(Q, name)
        \/ name = "votelst" /\ Pending(Q, "votefst") /\ First(b, "votefst") # {}
        \/ FieldSaid(b, name, fs)

CountedAt(b, name, at, sizes) ==
    readValue(b, name, at).ok /\ sizes[name] = readValue(b, name, at).n

Counted(b, type, Q, sizes) ==
    \A name \in {"apat", "apaa"} :
        /\ sizes[name] # 0 => name \in Asked(b, type) /\ \E k \in First(b, name) : CountedAt(b, name, k.at, sizes)
        /\ name \in Asked(b, type) =>
              Pending(Q, name) \/ \A k \in First(b, name) : CountedAt(b, name, k.at, sizes)

ElementsSaid(b, type, Q, fs) ==
    \A name \in Asked(b, type) : \A f \in Said(b, name) :
        f.element > 0 => f \in fs \/ \E q \in Q : q.key = name /\ q.element = f.element

QueriesFit(b, type, Q, sizes, printing) ==
    \A q \in Q :
        IF printing THEN q.required /\ q.key \in {"apat", "apaa"} /\ q.element \in 1..sizes[q.key]
        ELSE q.element = 0 /\ q.key \in Asked(b, type) /\ q.key \in PlainKeys

\* All of it.
Progress(b, type, Q, fs, sizes, printing) ==
    /\ TypeFound(type, fs)
    /\ OnlySaid(b, type, fs)
    /\ FieldsSaid(b, type, Q, fs)
    /\ Counted(b, type, Q, sizes)
    /\ printing => ElementsSaid(b, type, Q, fs)
    /\ QueriesFit(b, type, Q, sizes, printing)

\* Fields that are asked for are no parameters of an asset.
LEMMA AskedPlain ==
    ASSUME NEW b, NEW type \in TxTypes, NEW name \in Asked(b, type)
    PROVE  name \notin Params
<1> DEFINE base == {"type"} \union {q.key : q \in ToSet(ParseQueries(type))}
<1>1. ASSUME NEW q \in ToSet(ParseQueries(type)) PROVE q.key \in PlainKeys
  <2> DEFINE s == ParseQueries(type)
  <2>1. s \in Seq(PlainQuery)
    BY PlainQueries
  <2>2. PICK j \in DOMAIN s : q = s[j]
    BY DEF ToSet
  <2> HIDE DEF s
  <2>3. q \in PlainQuery
    BY <2>1, <2>2
  <2> QED
    BY <2>3 DEF PlainQuery
<1>2. name \in base \/ name = "votelst"
  BY Zenon DEF Asked, AskedFor
<1>3. base \subseteq PlainKeys \union {"type"}
  BY <1>1
<1>4. "votelst" \in PlainKeys
  BY DEF PlainKeys
<1> HIDE DEF base
<1> QED
  BY <1>2, <1>3, <1>4, PlainNames

\* The field looked for was read, or is not there: nothing of it is lost.
LEMMA FieldDone ==
    ASSUME NEW b, NEW type \in TxTypes, NEW Q, NEW fs, NEW sizes, Progress(b, type, Q, fs, sizes, FALSE),
           NEW w \in Q, NEW R, Q \subseteq {w} \union R,
           NEW more, more \subseteq Said(b, w.key), FieldSaid(b, w.key, more),
           NEW count,
           \A name \in {"apat", "apaa"} : name # w.key => count[name] = sizes[name],
           w.key \in {"apat", "apaa"} =>
              /\ \A k \in First(b, w.key) : CountedAt(b, w.key, k.at, count)
              /\ First(b, w.key) = {} => count[w.key] = sizes[w.key],
           w.key = "votefst" /\ First(b, "votefst") # {} => Pending(R, "votelst"),
           QueriesFit(b, type, R, count, FALSE)
    PROVE  Progress(b, type, R, fs \union more, count, FALSE)
<1> DEFINE new == fs \union more
<1>1. TypeFound(type, new)
  BY DEF Progress, TypeFound
<1>2. w.element = 0 /\ w.key \in Asked(b, type)
  BY DEF Progress, QueriesFit
<1>3. OnlySaid(b, type, new)
  BY <1>2 DEF Progress, OnlySaid
<1>4. ASSUME NEW name, Pending(Q, name) PROVE Pending(R, name) \/ name = w.key
  BY <1>4 DEF Pending
<1>5. FieldsSaid(b, type, R, new)
  <2> SUFFICES ASSUME NEW name \in Asked(b, type)
               PROVE  \/ Pending(R, name)
                      \/ name = "votelst" /\ Pending(R, "votefst") /\ First(b, "votefst") # {}
                      \/ FieldSaid(b, name, new)
    BY DEF FieldsSaid
  <2>1. FieldSaid(b, w.key, new)
    BY DEF FieldSaid
  <2>2. FieldSaid(b, name, fs) => FieldSaid(b, name, new)
    BY DEF FieldSaid
  <2>3. \/ Pending(Q, name)
        \/ name = "votelst" /\ Pending(Q, "votefst") /\ First(b, "votefst") # {}
        \/ FieldSaid(b, name, fs)
    BY DEF Progress, FieldsSaid
  <2> HIDE DEF new
  <2> QED
    BY <1>4, <2>1, <2>2, <2>3, Zenon
<1>6. Counted(b, type, R, count)
  <2> SUFFICES ASSUME NEW name \in {"apat", "apaa"}
               PROVE  /\ count[name] # 0 => name \in Asked(b, type) /\ \E k \in First(b, name) : CountedAt(b, name, k.at, count)
                      /\ name \in Asked(b, type) =>
                            Pending(R, name) \/ \A k \in First(b, name) : CountedAt(b, name, k.at, count)
    BY DEF Counted
  <2>1. /\ sizes[name] # 0 => name \in Asked(b, type) /\ \E k \in First(b, name) : CountedAt(b, name, k.at, sizes)
        /\ name \in Asked(b, type) =>
              Pending(Q, name) \/ \A k \in First(b, name) : CountedAt(b, name, k.at, sizes)
    BY DEF Progress, Counted
  <2>2. CASE name = w.key
    <3>1. First(b, name) = {} => count[name] = sizes[name]
      BY <2>2
    <3>2. \A k \in First(b, name) : CountedAt(b, name, k.at, count)
      BY <2>2
    <3>3. count[name] # 0 => First(b, name) # {}
      BY <2>1, <3>1
    <3> QED
      BY <1>2, <2>2, <3>2, <3>3
  <2>3. CASE name # w.key
    <3>1. count[name] = sizes[name]
      BY <2>3
    <3>2. \A at : CountedAt(b, name, at, count) <=> CountedAt(b, name, at, sizes)
      BY <3>1 DEF CountedAt
    <3> QED
      BY <1>4, <2>1, <2>3, <3>1, <3>2, Zenon
  <2> QED
    BY <2>2, <2>3
<1> QED
  BY <1>1, <1>3, <1>5, <1>6 DEF Progress

\* What is behind a key is inside, and the elements are numbered from one.
LEMMA FirstInside ==
    ASSUME NEW b \in Seq(Byte), NEW name, NEW k \in First(b, name)
    PROVE  k.at \in 0..Len(b) /\ Inside(b, ValueAt(b, name, k.at))
<1>1. PICK i : IsKey(b, i) /\ k = KeyAt(b, i)
  BY KeysAre DEF First, FirstOf
<1> DEFINE stop == Walk(b)[i]
           key == readString(b, stop.at, TmpKeySize)
<1>2. stop \in Stops(b)
  BY <1>1, WalkSteps DEF IsKey
<1>3. stop.at \in 0..Len(b) /\ k.at = key.at
  BY <1>1, <1>2 DEF Stops, KeyAt
<1>4. k.at \in 0..Len(b)
  <2>1. Inside(b, key)
    BY <1>3, StringStays
  <2> HIDE DEF key
  <2> QED
    BY <1>3, <2>1 DEF Inside
<1> QED
  BY <1>4, StringStays, ValueStays, Zenon DEF ValueAt

\* The field itself is element 0, and only arrays have others.
LEMMA SaidElement ==
    ASSUME NEW b \in Seq(Byte), NEW name, NEW k \in First(b, name), NEW f \in SaidAt(b, name, k.at)
    PROVE  /\ f.element \in Nat
           /\ f.element = 0 => f = Value(b, name, 0, ValueAt(b, name, k.at))
           /\ f.element > 0 => /\ name \in {"apat", "apaa"} /\ f.element \in 1..ValueAt(b, name, k.at).n
                               /\ f = ElementAt(b, name, k.at, f.element)
<1> DEFINE n == ValueAt(b, name, k.at).n
<1>1. n \in Nat
  BY FirstInside DEF Inside
<1>2. \A v, m : Value(b, name, m, v).element = m
  BY DEF Value
<1>3. CASE f = Value(b, name, 0, ValueAt(b, name, k.at))
  <2>1. f.element = 0
    BY <1>2, <1>3
  <2> QED
    BY <1>3, <2>1
<1>4. CASE HasElements(b, name, k.at, f)
  <2>1. PICK i \in 1..n : f = ElementAt(b, name, k.at, i)
    BY <1>4 DEF HasElements
  <2>2. f.element = i
    BY <1>2, <2>1 DEF ElementAt
  <2>3. name \in {"apat", "apaa"}
    BY <1>4 DEF HasElements
  <2> HIDE DEF n
  <2>4. f.element \in Nat /\ f.element # 0 /\ f.element \in 1..n /\ f = ElementAt(b, name, k.at, f.element)
    BY <1>1, <2>1, <2>2
  <2> QED
    BY <2>3, <2>4 DEF n
<1> QED
  BY <1>3, <1>4, SaidIs

\* One account or argument is printed.
LEMMA ElementDone ==
    ASSUME NEW b, NEW type \in TxTypes, NEW Q, NEW fs, NEW sizes \in Sizes, Progress(b, type, Q, fs, sizes, TRUE),
           NEW w \in Q, NEW R, Q \subseteq {w} \union R, R \subseteq Q,
           NEW more, more \subseteq Said(b, w.key),
           \A f \in Said(b, w.key) : f.element = w.element => f \in more
    PROVE  Progress(b, type, R, fs \union more, sizes, TRUE)
<1> DEFINE new == fs \union more
<1>1. TypeFound(type, new)
  BY DEF Progress, TypeFound
<1>2. ASSUME NEW q \in Q PROVE q.element # 0 /\ sizes[q.key] # 0 /\ q.key \in {"apat", "apaa"}
  <2>1. q.key \in {"apat", "apaa"} /\ q.element \in 1..sizes[q.key]
    BY DEF Progress, QueriesFit
  <2>2. sizes[q.key] \in Nat
    BY <2>1 DEF Sizes, MAX_ARG
  <2> QED
    BY <2>1, <2>2
<1>3. w.key \in Asked(b, type)
  BY <1>2 DEF Progress, Counted
<1>4. OnlySaid(b, type, new)
  BY <1>3 DEF Progress, OnlySaid
<1>6. FieldsSaid(b, type, R, new)
  BY <1>2 DEF Progress, FieldsSaid, Pending, FieldSaid
<1>7. Counted(b, type, R, sizes)
  BY <1>2 DEF Progress, Counted, Pending
<1>8. ElementsSaid(b, type, R, new)
  BY DEF Progress, ElementsSaid
<1>9. QueriesFit(b, type, R, sizes, TRUE)
  BY DEF Progress, QueriesFit
<1> QED
  BY <1>1, <1>4, <1>6, <1>7, <1>8, <1>9 DEF Progress

\* A parameter of an asset takes the place of an earlier one of the same name.
LEMMA ParamKept ==
    ASSUME NEW b, NEW type \in TxTypes, NEW Q, NEW fs, NEW sizes, NEW printing \in BOOLEAN,
           Progress(b, type, Q, fs, sizes, printing),
           NEW p \in Params, NEW v, v.key = p
    PROVE  Progress(b, type, Q, {f \in fs : f.key # p} \union {v}, sizes, printing)
<1> DEFINE new == {f \in fs : f.key # p} \union {v}
<1>1. ASSUME NEW name \in Asked(b, type), NEW f \in Said(b, name), f \in fs PROVE f \in new
  BY <1>1, AskedPlain, SaidKey
<1>2. TypeFound(type, new)
  BY PlainNames DEF Progress, TypeFound
<1>3. OnlySaid(b, type, new)
  BY DEF Progress, OnlySaid
<1> HIDE DEF new
<1>4. FieldsSaid(b, type, Q, new)
  BY <1>1 DEF Progress, FieldsSaid, FieldSaid
<1>5. printing => ElementsSaid(b, type, Q, new)
  BY <1>1 DEF Progress, ElementsSaid
<1> QED
  BY <1>2, <1>3, <1>4, <1>5 DEF Progress, new

\* The type is known, and every field of it is to be looked for.
LEMMA TypeBegins ==
    ASSUME NEW b, NEW type \in TxTypes, NEW v \in Said(b, "type"), TextIs(v.bytes, type),
           FieldSaid(b, "type", {v})
    PROVE  Progress(b, type, ToSet(ParseQueries(type)), {v}, [apat |-> 0, apaa |-> 0], FALSE)
<1> DEFINE Q == ToSet(ParseQueries(type))
           base == {"type"} \union {q.key : q \in Q}
           sizes == [apat |-> 0, apaa |-> 0]
<1>1. ASSUME NEW q \in Q PROVE q.key \in PlainKeys /\ q.element = 0
  <2> DEFINE s == ParseQueries(type)
  <2>1. s \in Seq(PlainQuery)
    BY PlainQueries
  <2>2. PICK j \in DOMAIN s : q = s[j]
    BY DEF ToSet
  <2> HIDE DEF s
  <2>3. q \in PlainQuery
    BY <2>1, <2>2
  <2> QED
    BY <2>3 DEF PlainQuery
<1>2. Asked(b, type) = base \union {k \in {"votelst"} : "votefst" \in base /\ First(b, "votefst") # {}}
  BY DEF Asked, AskedFor, First
<1> HIDE DEF Q
<1>3. ASSUME NEW name \in base, name # "type" PROVE Pending(Q, name)
  BY <1>1, <1>3 DEF Pending
<1>4. TypeFound(type, {v})
  BY SaidKey DEF TypeFound
<1>5. OnlySaid(b, type, {v})
  BY <1>2 DEF OnlySaid
<1>6. FieldsSaid(b, type, Q, {v})
  <2> SUFFICES ASSUME NEW name \in Asked(b, type)
               PROVE  \/ Pending(Q, name)
                      \/ name = "votelst" /\ Pending(Q, "votefst") /\ First(b, "votefst") # {}
                      \/ FieldSaid(b, name, {v})
    BY DEF FieldsSaid
  <2> QED
    BY <1>2, <1>3
<1>7. Counted(b, type, Q, sizes)
  <2>1. \A name \in {"apat", "apaa"} : name \in Asked(b, type) => Pending(Q, name)
    BY <1>2, <1>3
  <2>2. sizes["apat"] = 0 /\ sizes["apaa"] = 0
    OBVIOUS
  <2> QED
    BY <2>1, <2>2 DEF Counted
<1>8. QueriesFit(b, type, Q, sizes, FALSE)
  BY <1>1, <1>2 DEF QueriesFit
<1> QED
  BY <1>4, <1>5, <1>6, <1>7, <1>8 DEF Progress, Q

\* One query for each element.
LEMMA ElementsAre ==
    ASSUME NEW sizes \in Sizes, NEW q
    PROVE  q \in ToSet(Elements("apat", sizes.apat) \o Elements("apaa", sizes.apaa)) <=>
             \E key \in {"apat", "apaa"} : \E i \in 1..sizes[key] :
                 q = [key |-> key, required |-> TRUE, element |-> i]
<1> DEFINE query(key, i) == [key |-> key, required |-> TRUE, element |-> i]
           s == Elements("apat", sizes.apat)
           r == Elements("apaa", sizes.apaa)
           m == sizes.apat
           n == sizes.apaa
<1>1. m \in Nat /\ n \in Nat
  BY DEF Sizes, MAX_ARG
<1>2. s = [i \in 1..m |-> query("apat", i)] /\ r = [i \in 1..n |-> query("apaa", i)]
  BY DEF Elements
<1> HIDE DEF query, s, r, m, n
<1>3. /\ DOMAIN (s \o r) = 1..(m + n)
      /\ \A j \in 1..m : (s \o r)[j] = query("apat", j)
      /\ \A j \in 1..n : (s \o r)[m + j] = query("apaa", j)
  BY <1>1, <1>2
<1>4. q \in ToSet(s \o r) <=> \E j \in 1..(m + n) : q = (s \o r)[j]
  BY <1>3 DEF ToSet
<1>5. \A j \in 1..(m + n) : j \in 1..m \/ (j - m \in 1..n /\ j = m + (j - m))
  BY <1>1
<1>6. (\A j \in 1..m : j \in 1..(m + n)) /\ (\A j \in 1..n : m + j \in 1..(m + n))
  BY <1>1
<1>7. q \in ToSet(s \o r) <=> (\E j \in 1..m : q = query("apat", j)) \/ (\E j \in 1..n : q = query("apaa", j))
  BY <1>3, <1>4, <1>5, <1>6
<1> QED
  BY <1>7 DEF query, s, r, m, n

\* All fields were read: their elements are to be printed.
LEMMA ElementsBegin ==
    ASSUME NEW b \in Seq(Byte), NEW type \in TxTypes, NEW fs, NEW sizes \in Sizes,
           Progress(b, type, {}, fs, sizes, FALSE)
    PROVE  Progress(b, type, ToSet(Elements("apat", sizes.apat) \o Elements("apaa", sizes.apaa)), fs, sizes, TRUE)
<1> DEFINE Q == ToSet(Elements("apat", sizes.apat) \o Elements("apaa", sizes.apaa))
<1>1. \A name : ~Pending({}, name)
  BY DEF Pending
<1>2. FieldsSaid(b, type, Q, fs)
  BY <1>1 DEF Progress, FieldsSaid
<1>3. Counted(b, type, Q, sizes)
  BY <1>1 DEF Progress, Counted
<1>4. ElementsSaid(b, type, Q, fs)
  <2> SUFFICES ASSUME NEW name \in Asked(b, type), NEW f \in Said(b, name), f.element > 0
               PROVE  \E q \in Q : q.key = name /\ q.element = f.element
    BY DEF ElementsSaid
  <2>1. PICK k \in First(b, name) : f \in SaidAt(b, name, k.at)
    BY SaidKey
  <2>2. name \in {"apat", "apaa"} /\ f.element \in 1..ValueAt(b, name, k.at).n
    BY <2>1, SaidElement
  <2>3. sizes[name] = ValueAt(b, name, k.at).n
    BY <1>1, <2>2 DEF Progress, Counted, CountedAt, ValueAt
  <2>4. [key |-> name, required |-> TRUE, element |-> f.element] \in Q
    BY <2>2, <2>3, ElementsAre
  <2> QED
    BY <2>4
<1>5. QueriesFit(b, type, Q, sizes, TRUE)
  BY ElementsAre DEF QueriesFit
<1> HIDE DEF Q
<1> QED
  BY <1>2, <1>3, <1>4, <1>5 DEF Progress, Q

\* Everything was found.
LEMMA AllSaid ==
    ASSUME NEW b \in Seq(Byte), NEW type \in TxTypes, NEW fs, NEW sizes, Progress(b, type, {}, fs, sizes, TRUE)
    PROVE  {f \in fs : f.key \notin Params} = UNION {Said(b, name) : name \in Asked(b, type)}
<1>1. ASSUME NEW f \in fs, f.key \notin Params
      PROVE  \E name \in Asked(b, type) : f \in Said(b, name)
  BY <1>1 DEF Progress, OnlySaid
<1>2. ASSUME NEW name \in Asked(b, type), NEW f \in Said(b, name)
      PROVE  f \in fs /\ f.key \notin Params
  <2>1. f.key \notin Params
    BY AskedPlain, SaidKey
  <2>2. f.element = 0 \/ f.element > 0
    <3>1. PICK k \in First(b, name) : f \in SaidAt(b, name, k.at)
      BY SaidKey
    <3>2. f.element \in Nat
      BY <3>1, SaidElement
    <3> QED
      BY <3>2
  <2>3. f.element = 0 => f \in fs
    BY DEF Progress, FieldsSaid, Pending, FieldSaid
  <2>4. f.element > 0 => f \in fs
    BY DEF Progress, ElementsSaid
  <2> QED
    BY <2>1, <2>2, <2>3, <2>4
<1> QED
  BY <1>1, <1>2

-----------------------------------------------------------------------------
(* One walk: the searches are parts of it.                                   *)

\* The search has come as far as the i-th stop, and not by the key it looks for.
Standing(i) ==
    /\ i <= offset /\ Walk(buffer)[i] = [at |-> offset, left |-> left, pending |-> pending]
    /\ Unanswered(buffer, i, Want.key)

\* Before the type is known.
Begun ==
    /\ todo = <<Query(Required("type"))>> /\ found = {} /\ ~validating
    /\ num = [apat |-> 0, apaa |-> 0]

\* The search stands on the walk, and its fields are those of the walk.
OneWalkInv ==
    /\ phase = "keys" => \E i \in 0..Len(buffer) : Standing(i)
    /\ phase = "value" => \E k \in First(buffer, Want.key) : k.at = offset
    /\ phase = "params" => Want.key = "apar"
    /\ phase = "accepted" => todo = <<>> /\ validating
    /\ Searching \/ phase = "accepted" =>
          \/ Begun
          \/ \E type \in TxTypes : Progress(buffer, type, ToSet(todo), found, num, validating)

\* Every search stands at the beginning of the walk first.
LEMMA SearchStands ==
    ASSUME NEW queries, buffer' \in Seq(Byte), Search(queries, buffer')
    PROVE  /\ \E i \in 0..Len(buffer') : Standing(i)'
           /\ todo' = queries /\ phase' = IF queries = <<>> THEN "accepted" ELSE "keys"
<1> DEFINE b == buffer'
           map == readMapSize(b, 0)
<1>1. /\ offset' = map.at /\ left' = map.n /\ pending' = 0
      /\ todo' = queries /\ phase' = IF queries = <<>> THEN "accepted" ELSE "keys"
  BY DEF Search
<1>2. Walk(b)[0] = [at |-> offset', left |-> left', pending |-> pending']
  BY <1>1, WalkSteps DEF Beginning
<1>3. offset' \in 0..Len(b)
  BY <1>1, MapSizeStays DEF Inside
<1>4. Unanswered(b, 0, Want'.key)
  <2> SUFFICES ASSUME NEW k \in MapKeys(b) PROVE ~(k.nth < 0)
    BY DEF Unanswered
  <2>1. PICK i : IsKey(b, i) /\ k = KeyAt(b, i)
    BY KeysAre
  <2> QED
    BY <2>1 DEF IsKey, KeyAt
<1>5. 0 \in 0..Len(b) /\ 0 <= offset'
  BY <1>3
<1>6. Standing(0)'
  BY <1>2, <1>4, <1>5 DEF Standing
<1> QED
  BY <1>1, <1>5, <1>6

\* The next search, with what was found so far.
LEMMA ContinueWalks ==
    ASSUME SearchInv, NEW queries, NEW sizes \in Sizes, Continue(queries, sizes), buffer' = buffer,
           NEW type \in TxTypes, Progress(buffer, type, ToSet(queries), found', sizes, validating)
    PROVE  OneWalkInv'
<1> DEFINE elements == Elements("apat", sizes.apat) \o Elements("apaa", sizes.apaa)
           all == IF queries = <<>> /\ ~validating THEN elements ELSE queries
<1>1. buffer \in Seq(Byte) /\ validating \in BOOLEAN
  BY DEF SearchInv, SearchTypeOK, Byte
<1>2. validating' = (validating \/ queries = <<>>) /\ Search(all, buffer') /\ num' = sizes
  BY DEF Continue
<1> HIDE DEF elements
<1>3. /\ \E i \in 0..Len(buffer') : Standing(i)'
      /\ todo' = all /\ phase' = IF all = <<>> THEN "accepted" ELSE "keys"
  BY <1>1, <1>2, SearchStands
<1>4. ToSet(<<>>) = {}
  BY DEF ToSet
<1>5. Progress(buffer, type, ToSet(all), found', sizes, validating')
  <2>1. CASE queries = <<>> /\ ~validating
    <3>1. validating = FALSE /\ validating' = TRUE /\ all = elements
      BY <1>1, <1>2, <2>1
    <3>2. Progress(buffer, type, {}, found', sizes, FALSE)
      BY <1>4, <2>1, <3>1
    <3> QED
      BY <1>1, <3>1, <3>2, ElementsBegin DEF elements
  <2>2. CASE ~(queries = <<>> /\ ~validating)
    <3>1. all = queries
      BY <2>2
    <3>2. validating' = validating
      BY <1>1, <1>2, <2>2, Zenon
    <3> QED
      BY <3>1, <3>2
  <2> QED
    BY <2>1, <2>2
<1>6. all = <<>> => validating'
  BY <1>2
<1> HIDE DEF all
<1>7. Progress(buffer', type, ToSet(todo'), found', num', validating')
  BY <1>2, <1>3, <1>5
<1>8. phase' \in {"accepted", "keys"} /\ (phase' = "accepted" => todo' = <<>> /\ validating')
  BY <1>3, <1>6
<1> QED
  BY <1>3, <1>7, <1>8 DEF OneWalkInv

\* The members of a sequence are its head and those of its tail.
LEMMA HeadAndTail ==
    ASSUME NEW S, NEW s \in Seq(S), s # <<>>
    PROVE  /\ Head(s) \in ToSet(s) /\ ToSet(Tail(s)) \subseteq ToSet(s)
           /\ ToSet(s) \subseteq {Head(s)} \union ToSet(Tail(s))
<1> DEFINE t == Tail(s)
           n == Len(s)
<1>1. n \in Nat /\ n # 0 /\ DOMAIN s = 1..n /\ Head(s) = s[1]
  OBVIOUS
<1>2. DOMAIN t = 1..(n - 1) /\ \A i \in 1..(n - 1) : t[i] = s[i + 1]
  OBVIOUS
<1> HIDE DEF t, n
<1>3. Head(s) \in ToSet(s)
  BY <1>1 DEF ToSet
<1>4. ASSUME NEW x \in ToSet(t) PROVE x \in ToSet(s)
  <2>1. PICK i \in 1..(n - 1) : x = s[i + 1]
    BY <1>2 DEF ToSet
  <2>2. i + 1 \in 1..n
    BY <1>1
  <2> QED
    BY <1>1, <2>1, <2>2 DEF ToSet
<1>5. ASSUME NEW x \in ToSet(s), x # Head(s) PROVE x \in ToSet(t)
  <2>1. PICK i \in 1..n : x = s[i]
    BY <1>1 DEF ToSet
  <2>2. i - 1 \in 1..(n - 1) /\ (i - 1) + 1 = i
    BY <1>1, <1>5, <2>1
  <2>3. x = t[i - 1]
    BY <1>2, <2>1, <2>2
  <2> QED
    BY <1>2, <2>2, <2>3 DEF ToSet
<1> QED
  BY <1>3, <1>4, <1>5 DEF t

\* The members of two sequences, one behind the other.
LEMMA ConcatToSet ==
    ASSUME NEW S, NEW s \in Seq(S), NEW t \in Seq(S)
    PROVE  ToSet(s \o t) = ToSet(s) \union ToSet(t)
<1> DEFINE m == Len(s)
           n == Len(t)
           st == s \o t
<1>1. /\ m \in Nat /\ n \in Nat /\ DOMAIN s = 1..m /\ DOMAIN t = 1..n /\ DOMAIN st = 1..(m + n)
      /\ \A i \in 1..m : st[i] = s[i]
      /\ \A i \in 1..n : st[m + i] = t[i]
  OBVIOUS
<1> HIDE DEF m, n, st
<1>2. \A i \in 1..(m + n) : i \in 1..m \/ (i - m \in 1..n /\ i = m + (i - m))
  BY <1>1
<1>3. (\A i \in 1..m : i \in 1..(m + n)) /\ (\A i \in 1..n : m + i \in 1..(m + n))
  BY <1>1
<1>4. ASSUME NEW x \in ToSet(st) PROVE x \in ToSet(s) \/ x \in ToSet(t)
  <2>1. PICK i \in 1..(m + n) : x = st[i]
    BY <1>1 DEF ToSet
  <2>2. CASE i \in 1..m
    BY <1>1, <2>1, <2>2 DEF ToSet
  <2>3. CASE i - m \in 1..n /\ i = m + (i - m)
    <3>1. x = t[i - m]
      BY <1>1, <2>1, <2>3
    <3> QED
      BY <1>1, <2>3, <3>1 DEF ToSet
  <2> QED
    BY <1>2, <2>2, <2>3
<1>5. ToSet(s) \subseteq ToSet(st)
  BY <1>1, <1>3 DEF ToSet
<1>6. ToSet(t) \subseteq ToSet(st)
  <2> SUFFICES ASSUME NEW i \in 1..n PROVE t[i] \in ToSet(st)
    BY <1>1 DEF ToSet
  <2>1. m + i \in 1..(m + n) /\ t[i] = st[m + i]
    BY <1>1, <1>3
  <2> QED
    BY <1>1, <2>1 DEF ToSet
<1> QED
  BY <1>4, <1>5, <1>6 DEF st

\* What the search stands at, and the field it is for.
LEMMA WantStands ==
    ASSUME SearchInv, Searching
    PROVE  /\ buffer \in Seq(Byte) /\ offset \in 0..Len(buffer) /\ left \in Nat /\ pending \in Nat
           /\ num \in Sizes /\ validating \in BOOLEAN /\ todo \in Seq(QueryType) /\ todo # <<>>
           /\ Want \in QueryType /\ Want \in ToSet(todo) /\ ToSet(Tail(todo)) \subseteq ToSet(todo)
           /\ ToSet(todo) \subseteq {Want} \union ToSet(Tail(todo))
<1>1. /\ buffer \in Seq(Byte) /\ offset \in 0..Len(buffer) /\ left \in 0..UINT16_MAX /\ pending \in Nat
      /\ num \in Sizes /\ validating \in BOOLEAN /\ todo \in Seq(QueryType) /\ todo # <<>>
  BY DEF SearchInv, SearchTypeOK, OffsetInWindow, Byte, Sizes, QueryType
<1>2. left \in Nat
  BY <1>1, OneLess
<1>3. Want \in QueryType
  BY WantType
<1> QED
  BY <1>1, <1>2, <1>3, HeadAndTail DEF Want

\* A step that goes on in the same search, or in the map of the parameters.
LEMMA SameFields ==
    ASSUME OneWalkInv, Searching, UNCHANGED <<buffer, todo, validating, num, found>>,
           phase' \in {"keys", "value", "params"},
           phase' = "keys" => \E i \in 0..Len(buffer') : Standing(i)',
           phase' = "value" => \E k \in First(buffer, Want.key) : k.at = offset',
           phase' = "params" => Want.key = "apar"
    PROVE  OneWalkInv'
<1>1. Begun' <=> Begun
  BY DEF Begun
<1>2. Want' = Want
  BY DEF Want
<1> QED
  BY <1>1, <1>2 DEF OneWalkInv

\* A refused parse has nothing left to keep.
LEMMA RefuseWalks ==
    ASSUME Refuse
    PROVE  OneWalkInv'
BY DEF Refuse, OneWalkInv, Searching

\* A key is compared.
LEMMA NextKeyWalks ==
    ASSUME SearchInv, OneWalkInv, NextKey
    PROVE  OneWalkInv'
<1> DEFINE key == readString(buffer, offset, TmpKeySize)
           text == Contents(buffer, key)
<1>1. /\ phase = "keys" /\ pending = 0 /\ left > 0 /\ key.ok /\ offset' = key.at
      /\ UNCHANGED <<buffer, todo, validating, num, found>>
      /\ \/ IsPrefix(Ascii[Want.key], text) /\ phase' = "value"
         \/ /\ ~IsPrefix(Ascii[Want.key], text) /\ phase' = "keys"
            /\ left' = left - 1 /\ pending' = 1
  BY Zenon DEF NextKey, KeyIs
<1>2. Searching
  BY <1>1 DEF Searching
<1>3. buffer \in Seq(Byte) /\ offset \in 0..Len(buffer)
  BY <1>2, WantStands
<1>4. PICK i \in 0..Len(buffer) : Standing(i)
  BY <1>1 DEF OneWalkInv
<1> DEFINE stop == Walk(buffer)[i]
<1>5. stop.at = offset /\ stop.left = left /\ stop.pending = pending
  BY <1>4 DEF Standing
<1> HIDE DEF stop
<1>6. IsReadable(buffer, stop) /\ IsKey(buffer, i)
  BY <1>1, <1>5 DEF IsReadable, IsKey, stop
<1>7. KeyAt(buffer, i) = [nth |-> i, text |-> text, at |-> key.at]
  BY <1>5 DEF KeyAt, stop
<1>8. Beyond(buffer, stop) = [at |-> key.at, left |-> left - 1, pending |-> 1]
  BY <1>1, <1>5 DEF Beyond
<1> HIDE DEF key, text
<1>9. CASE IsPrefix(Ascii[Want.key], text) /\ phase' = "value"
  <2>1. KeyAt(buffer, i) \in First(buffer, Want.key) /\ KeyAt(buffer, i).at = offset'
    BY <1>1, <1>4, <1>6, <1>7, <1>9, AnswerIsFirst DEF Standing, First
  <2> QED
    BY <1>1, <1>2, <1>9, <2>1, SameFields
<1>10. CASE ~IsPrefix(Ascii[Want.key], text) /\ phase' = "keys" /\ left' = left - 1 /\ pending' = 1
  <2>1. i <= Walk(buffer)[i].at /\ Unanswered(buffer, i, Want.key)
    BY <1>4, <1>5 DEF Standing, stop
  <2>2. ~IsPrefix(Ascii[Want.key], KeyAt(buffer, i).text)
    BY <1>7, <1>10
  <2>3. /\ i + 1 \in 0..Len(buffer) /\ Walk(buffer)[i + 1] = Beyond(buffer, stop)
        /\ i + 1 <= Walk(buffer)[i + 1].at /\ Unanswered(buffer, i + 1, Want.key)
    BY <1>3, <1>6, <2>1, <2>2, WalksOn DEF stop
  <2>4. Walk(buffer)[i + 1] = [at |-> offset', left |-> left', pending |-> pending']
    BY <1>1, <1>8, <1>10, <2>3
  <2>5. i + 1 <= offset'
    BY <2>3, <2>4
  <2>6. Standing(i + 1)' /\ i + 1 \in 0..Len(buffer')
    BY <1>1, <2>3, <2>4, <2>5 DEF Standing, Want
  <2> QED
    BY <1>1, <1>2, <1>10, <2>6, SameFields
<1> QED
  BY <1>1, <1>9, <1>10

\* A value is walked over.
LEMMA SkipWalks ==
    ASSUME SearchInv, OneWalkInv, SkipValue
    PROVE  OneWalkInv'
<1> DEFINE value == verifyValue(buffer, offset)
<1>1. /\ phase = "keys" /\ pending > 0 /\ value.ok /\ offset' = value.at /\ pending' = pending - 1 + value.n
      /\ UNCHANGED <<buffer, todo, left, phase, validating, num, found>>
  BY Zenon DEF SkipValue, SkipOver
<1>2. Searching
  BY <1>1 DEF Searching
<1>3. buffer \in Seq(Byte) /\ offset \in 0..Len(buffer) /\ pending \in Nat
  BY <1>2, WantStands
<1>4. PICK i \in 0..Len(buffer) : Standing(i)
  BY <1>1 DEF OneWalkInv
<1> DEFINE stop == Walk(buffer)[i]
<1>5. stop.at = offset /\ stop.left = left /\ stop.pending = pending
  BY <1>4 DEF Standing
<1> HIDE DEF stop
<1>6. IsReadable(buffer, stop)
  BY <1>1, <1>5 DEF IsReadable
<1>7. Beyond(buffer, stop) = [at |-> value.at, left |-> left, pending |-> pending - 1 + value.n]
  BY <1>1, <1>5 DEF Beyond
<1> HIDE DEF value
<1>8. i <= Walk(buffer)[i].at /\ Unanswered(buffer, i, Want.key) /\ ~IsKey(buffer, i)
  BY <1>1, <1>3, <1>4, <1>5 DEF Standing, IsKey, stop
<1>9. /\ i + 1 \in 0..Len(buffer) /\ Walk(buffer)[i + 1] = Beyond(buffer, stop)
      /\ i + 1 <= Walk(buffer)[i + 1].at /\ Unanswered(buffer, i + 1, Want.key)
  BY <1>3, <1>6, <1>8, WalksOn DEF stop
<1>10. Walk(buffer)[i + 1] = [at |-> offset', left |-> left', pending |-> pending']
  BY <1>1, <1>7, <1>9
<1>11. i + 1 <= offset'
  BY <1>9, <1>10
<1>12. Standing(i + 1)' /\ i + 1 \in 0..Len(buffer')
  BY <1>1, <1>9, <1>10, <1>11 DEF Standing, Want
<1> QED
  BY <1>1, <1>2, <1>12, SameFields

\* The query of the type comes first, and never again.
LEMMA TypeOnce ==
    ASSUME SearchInv, OneWalkInv, Searching
    PROVE  IF Want.key = "type" THEN Begun /\ Want.required /\ Want.element = 0
           ELSE \E type \in TxTypes :
                   /\ Progress(buffer, type, ToSet(todo), found, num, validating)
                   /\ validating => Want.required /\ Want.element > 0
                   /\ validating => Want.key \in {"apat", "apaa"} /\ Want.element \in 1..num[Want.key]
                   /\ ~validating => Want.element = 0 /\ Want.key \in Asked(buffer, type)
<1>1. CASE Begun
  <2>1. todo = <<Query(Required("type"))>>
    BY <1>1 DEF Begun
  <2>2. Want = Query(Required("type"))
    BY <2>1 DEF Want
  <2> QED
    BY <1>1, <2>2 DEF Query, Required
<1>2. ASSUME NEW type \in TxTypes, Progress(buffer, type, ToSet(todo), found, num, validating)
      PROVE  /\ Want.key # "type"
             /\ validating => Want.required /\ Want.element > 0
             /\ validating => Want.key \in {"apat", "apaa"} /\ Want.element \in 1..num[Want.key]
             /\ ~validating => Want.element = 0 /\ Want.key \in Asked(buffer, type)
  <2>1. Want \in ToSet(todo) /\ num \in Sizes /\ validating \in BOOLEAN
    BY WantStands
  <2>2. CASE validating = TRUE
    <3>1. Want.required /\ Want.key \in {"apat", "apaa"} /\ Want.element \in 1..num[Want.key]
      BY <1>2, <2>1, <2>2 DEF Progress, QueriesFit
    <3>2. num[Want.key] \in Nat
      BY <2>1, <3>1 DEF Sizes, MAX_ARG
    <3>3. Want.element > 0
      BY <3>1, <3>2
    <3> QED
      BY <2>2, <3>1, <3>3
  <2>3. CASE validating = FALSE
    <3>1. Want.element = 0 /\ Want.key \in Asked(buffer, type) /\ Want.key \in PlainKeys
      BY <1>2, <2>1, <2>3 DEF Progress, QueriesFit
    <3>2. Want.key # "type"
      BY <3>1, PlainNames
    <3> QED
      BY <2>3, <3>1, <3>2
  <2> QED
    BY <2>1, <2>2, <2>3
<1>3. Begun \/ \E type \in TxTypes : Progress(buffer, type, ToSet(todo), found, num, validating)
  BY DEF OneWalkInv
<1> QED
  BY <1>1, <1>2, <1>3

\* The first key says one thing, and for each element one more.
LEMMA SaidOnce ==
    ASSUME NEW b \in Seq(Byte), NEW name, NEW k \in First(b, name), NEW f \in Said(b, name)
    PROVE  /\ ValueAt(b, name, k.at).ok /\ name # "apar"
           /\ f.element = 0 => f = Value(b, name, 0, ValueAt(b, name, k.at))
           /\ f.element > 0 => f = ElementAt(b, name, k.at, f.element)
<1>1. PICK l \in First(b, name) : f \in SaidAt(b, name, l.at)
  BY SaidKey
<1>2. l = k
  BY OneFirst DEF First
<1> QED
  BY <1>1, <1>2, SaidIs, SaidElement

\* The search is over without an answer, or the parse is.
LEMMA FailWalks ==
    ASSUME SearchInv, OneWalkInv, SearchFails
    PROVE  OneWalkInv'
<1>1. /\ phase = "keys"
      /\ IF pending > 0 THEN ~verifyValue(buffer, offset).ok
         ELSE left = 0 \/ ~readString(buffer, offset, TmpKeySize).ok
      /\ Refuse \/ (~Want.required /\ Continue(Tail(todo), num) /\ UNCHANGED <<upload, buffer, found>>)
  BY Zenon DEF SearchFails
<1>2. Searching
  BY <1>1 DEF Searching
<1>3. /\ buffer \in Seq(Byte) /\ left \in Nat /\ num \in Sizes /\ Want \in ToSet(todo)
      /\ ToSet(Tail(todo)) \subseteq ToSet(todo) /\ ToSet(todo) \subseteq {Want} \union ToSet(Tail(todo))
      /\ validating \in BOOLEAN
  BY <1>2, WantStands
<1>4. PICK i \in 0..Len(buffer) : Standing(i)
  BY <1>1 DEF OneWalkInv
<1>5. ~IsReadable(buffer, Walk(buffer)[i])
  <2> DEFINE stop == Walk(buffer)[i]
  <2>1. stop.at = offset /\ stop.left = left /\ stop.pending = pending
    BY <1>4 DEF Standing
  <2> HIDE DEF stop
  <2>2. ~IsReadable(buffer, stop)
    BY <1>1, <1>3, <2>1 DEF IsReadable
  <2> QED
    BY <2>2 DEF stop
<1>6. First(buffer, Want.key) = {}
  BY <1>3, <1>4, <1>5, NoneIsFirst DEF Standing, First
<1>7. CASE ~Want.required /\ Continue(Tail(todo), num) /\ UNCHANGED <<upload, buffer, found>>
  <2>1. PICK type \in TxTypes : /\ Progress(buffer, type, ToSet(todo), found, num, validating)
                                /\ validating => Want.required
    BY <1>2, <1>7, TypeOnce, Zenon
  <2>2. validating = FALSE
    BY <1>3, <1>7, <2>1
  <2>3. Said(buffer, Want.key) = {}
    BY <1>6, SaidKey
  <2>4. FieldSaid(buffer, Want.key, {})
    BY <2>3 DEF FieldSaid
  <2>5. QueriesFit(buffer, type, ToSet(Tail(todo)), num, FALSE)
    BY <1>3, <2>1, <2>2 DEF Progress, QueriesFit
  <2> DEFINE R == ToSet(Tail(todo))
             Q == ToSet(todo)
  <2> HIDE DEF R, Q
  <2>6. Want \in Q /\ Q \subseteq {Want} \union R /\ Progress(buffer, type, Q, found, num, FALSE)
    BY <1>3, <2>1, <2>2 DEF R, Q
  <2>7. Progress(buffer, type, R, found \union {}, num, FALSE)
    BY <1>6, <2>4, <2>5, <2>6, FieldDone DEF R
  <2>8. Progress(buffer, type, R, found', num, validating)
    BY <1>7, <2>2, <2>7
  <2> QED
    BY <1>3, <1>7, <2>8, ContinueWalks DEF R
<1> QED
  BY <1>1, <1>7, RefuseWalks

\* The type is read, and the fields of its transactions are next.
LEMMA TypeWalks ==
    ASSUME SearchInv, OneWalkInv, ReadType
    PROVE  OneWalkInv'
<1> DEFINE text == readString(buffer, offset, 10)
           v == Value(buffer, "type", 0, text)
<1>1. phase = "value" /\ Want.key = "type"
  BY DEF ReadType
<1>2. Searching
  BY <1>1 DEF Searching
<1>3. \/ Refuse
      \/ /\ \E t \in TxTypes : text.ok /\ TextIs(Contents(buffer, text), t) /\ Continue(ParseQueries(t), num)
         /\ found' = {v} /\ UNCHANGED <<upload, buffer>>
  <2> DEFINE types == {t \in TxTypes : text.ok /\ TextIs(Contents(buffer, text), t)}
  <2>1. \/ Refuse
        \/ /\ \E t \in types : Continue(ParseQueries(t), num)
           /\ found' = {v} /\ UNCHANGED <<upload, buffer>>
    BY Zenon DEF ReadType
  <2> QED
    BY <2>1
<1>4. PICK k \in First(buffer, "type") : k.at = offset
  BY <1>1 DEF OneWalkInv
<1>5. Begun /\ buffer \in Seq(Byte) /\ num \in Sizes
  BY <1>1, <1>2, TypeOnce, WantStands
<1>6. num = [apat |-> 0, apaa |-> 0] /\ validating = FALSE
  <2>1. validating \in BOOLEAN
    BY <1>2, WantStands
  <2> QED
    BY <1>5, <2>1 DEF Begun
<1>7. ASSUME NEW t \in TxTypes, text.ok, TextIs(Contents(buffer, text), t), Continue(ParseQueries(t), num),
             found' = {v}, UNCHANGED <<upload, buffer>>
      PROVE  OneWalkInv'
  <2>1. ValueAt(buffer, "type", offset) = text
    BY DEF ValueAt
  <2>2. v \in Said(buffer, "type")
    BY <1>4, <1>7, <2>1, SaidIs, SaidKey
  <2>3. FieldSaid(buffer, "type", {v})
    BY <1>4, <1>5, <2>1, SaidOnce DEF FieldSaid
  <2>4. v.bytes = Contents(buffer, text)
    BY DEF Value
  <2> HIDE DEF v, text
  <2>5. Progress(buffer, t, ToSet(ParseQueries(t)), {v}, num, FALSE)
    BY <1>6, <1>7, <2>2, <2>3, <2>4, TypeBegins
  <2> QED
    BY <1>5, <1>6, <1>7, <2>5, ContinueWalks
<1> QED
  BY <1>3, <1>7, RefuseWalks

\* A field is read.
LEMMA FieldWalks ==
    ASSUME SearchInv, OneWalkInv, ReadField
    PROVE  OneWalkInv'
<1> DEFINE key == Want.key
           value == readValue(buffer, key, offset)
           last == IF key = "votefst" THEN <<Query(Required("votelst"))>> ELSE <<>>
           more == IF value.ok THEN {Value(buffer, key, 0, value)} ELSE {}
           sizes == IF key \in DOMAIN num THEN [num EXCEPT ![key] = value.n] ELSE num
           Q == ToSet(todo)
           R == ToSet(last \o Tail(todo))
<1>1. phase = "value" /\ key \notin {"type", "apar"} /\ Want.element = 0
  BY DEF ReadField
<1>2. Searching
  BY <1>1 DEF Searching
<1>3. \/ Refuse
      \/ /\ value.ok \/ key = "afrz"
         /\ found' = found \union more /\ Continue(last \o Tail(todo), sizes)
         /\ UNCHANGED <<upload, buffer>>
  BY Zenon DEF ReadField
<1>4. /\ buffer \in Seq(Byte) /\ offset \in 0..Len(buffer) /\ num \in Sizes /\ Want \in Q
      /\ ToSet(Tail(todo)) \subseteq Q /\ Q \subseteq {Want} \union ToSet(Tail(todo))
      /\ validating \in BOOLEAN /\ Tail(todo) \in Seq(QueryType)
  BY <1>2, WantStands, WantType
<1>5. PICK k \in First(buffer, key) : k.at = offset
  BY <1>1 DEF OneWalkInv
<1>6. PICK type \in TxTypes : /\ Progress(buffer, type, Q, found, num, validating)
                              /\ validating => Want.element > 0
                              /\ ~validating => key \in Asked(buffer, type)
  BY <1>1, <1>2, TypeOnce
<1>7. validating = FALSE
  <2>1. ~(Want.element > 0)
    BY <1>1
  <2> QED
    BY <1>4, <1>6, <2>1
<1>8. ValueAt(buffer, key, k.at) = value
  BY <1>1, <1>5 DEF ValueAt
<1>9. more \subseteq Said(buffer, key) /\ FieldSaid(buffer, key, more)
  <2>1. ASSUME value.ok PROVE Value(buffer, key, 0, value) \in Said(buffer, key)
    BY <1>1, <1>5, <1>8, <2>1, SaidIs, SaidKey
  <2>2. ASSUME NEW f \in Said(buffer, key), f.element = 0 PROVE f \in more
    BY <1>4, <1>8, <2>2, SaidOnce
  <2> QED
    BY <2>1, <2>2 DEF FieldSaid
<1>10. Inside(buffer, value) /\ (key \in {"apat", "apaa"} => value.n <= MAX_ARG)
  BY <1>4, ValueStays
<1>11. last \in Seq(QueryType)
  <2>1. Query(Required("votelst")) \in QueryType
    BY KeyNames DEF Query, Required, QueryType
  <2> QED
    BY <2>1
<1>12. R = ToSet(last) \union ToSet(Tail(todo))
  <2> DEFINE rest == Tail(todo)
  <2>1. rest \in Seq(QueryType)
    BY <1>4
  <2> HIDE DEF last, rest
  <2>2. ToSet(last \o rest) = ToSet(last) \union ToSet(rest)
    BY <1>11, <2>1, ConcatToSet, Zenon
  <2> QED
    BY <2>2 DEF rest
<1>13. /\ key = "votefst" => ToSet(last) = {Query(Required("votelst"))}
       /\ key # "votefst" => ToSet(last) = {}
  BY DEF ToSet
<1>14. /\ DOMAIN num = {"apat", "apaa"}
       /\ sizes \in Sizes
       /\ \A name \in {"apat", "apaa"} : name # key => sizes[name] = num[name]
       /\ key \in {"apat", "apaa"} => sizes[key] = value.n
  <2> HIDE DEF key, value
  <2>1. value.n \in Nat /\ MAX_ARG \in Nat
    BY <1>10 DEF Inside, MAX_ARG
  <2>2. key \in {"apat", "apaa"} => value.n \in 0..MAX_ARG
    BY <1>10, <2>1
  <2> QED
    BY <1>4, <2>2 DEF Sizes
<1> HIDE DEF value, last, more, sizes, Q, R, key
<1>15. ASSUME value.ok \/ key = "afrz", found' = found \union more,
              Continue(last \o Tail(todo), sizes), UNCHANGED <<upload, buffer>>
       PROVE  OneWalkInv'
  <2>1. ASSUME key \in {"apat", "apaa"}, NEW l \in First(buffer, key)
        PROVE  CountedAt(buffer, key, l.at, sizes)
    <3>1. l = k /\ value.ok
      BY <1>5, <1>15, <2>1, OneFirst DEF First
    <3>2. readValue(buffer, key, l.at) = value
      BY <1>8, <2>1, <3>1 DEF ValueAt
    <3> QED
      BY <1>14, <2>1, <3>1, <3>2 DEF CountedAt
  <2>2. First(buffer, key) # {}
    BY <1>5
  <2>3. key = "votefst" => Pending(R, "votelst")
    <3> DEFINE query == Query(Required("votelst"))
    <3>1. query.key = "votelst" /\ query.element = 0
      BY DEF Query, Required
    <3> HIDE DEF query
    <3>2. key = "votefst" => query \in R
      BY <1>12, <1>13 DEF query
    <3> QED
      BY <3>1, <3>2 DEF Pending
  <2>4. QueriesFit(buffer, type, R, sizes, FALSE)
    <3> SUFFICES ASSUME NEW q \in R
                 PROVE  q.element = 0 /\ q.key \in Asked(buffer, type) /\ q.key \in PlainKeys
      BY DEF QueriesFit
    <3>1. CASE q \in ToSet(Tail(todo))
      BY <1>4, <1>6, <1>7, <3>1 DEF Progress, QueriesFit
    <3>2. CASE key = "votefst" /\ q = Query(Required("votelst"))
      <4>1. q.element = 0 /\ q.key = "votelst"
        BY <3>2 DEF Query, Required
      <4>2. "votefst" \in Asked(buffer, type)
        BY <1>6, <1>7, <3>2
      <4>3. "votelst" \in Asked(buffer, type)
        <5> DEFINE base == {"type"} \union {qu.key : qu \in ToSet(ParseQueries(type))}
        <5>1. Asked(buffer, type) = base \union {m \in {"votelst"} : "votefst" \in base /\ First(buffer, "votefst") # {}}
          BY DEF Asked, AskedFor, First
        <5> HIDE DEF base
        <5>2. "votefst" \in base
          BY <4>2, <5>1
        <5> QED
          BY <2>2, <3>2, <5>1, <5>2
      <4>4. "votelst" \in PlainKeys
        BY DEF PlainKeys
      <4> QED
        BY <4>1, <4>3, <4>4
    <3> QED
      BY <1>12, <1>13, <3>1, <3>2
  <2>5. /\ Progress(buffer, type, Q, found, num, FALSE) /\ Want \in Q
        /\ Q \subseteq {Want} \union R /\ Want.key = key
    BY <1>4, <1>6, <1>7, <1>12 DEF key
  <2>6. Progress(buffer, type, R, found \union more, sizes, FALSE)
    <3>1. \A name \in {"apat", "apaa"} : name # Want.key => sizes[name] = num[name]
      BY <1>14, <2>5
    <3>2. Want.key \in {"apat", "apaa"} =>
             /\ \A l \in First(buffer, Want.key) : CountedAt(buffer, Want.key, l.at, sizes)
             /\ First(buffer, Want.key) = {} => sizes[Want.key] = num[Want.key]
      BY <2>1, <2>2, <2>5, Zenon
    <3>3. Want.key = "votefst" /\ First(buffer, "votefst") # {} => Pending(R, "votelst")
      BY <2>3, <2>5
    <3>4. more \subseteq Said(buffer, Want.key) /\ FieldSaid(buffer, Want.key, more)
      BY <1>9, <2>5
    <3> QED
      BY <2>4, <2>5, <3>1, <3>2, <3>3, <3>4, FieldDone, Zenon
  <2>7. Progress(buffer, type, ToSet(last \o Tail(todo)), found', sizes, validating)
    BY <1>7, <1>15, <2>6 DEF R
  <2> QED
    BY <1>14, <1>15, <2>7, ContinueWalks
<1> QED
  BY <1>3, <1>15, RefuseWalks

\* The parameters of an asset begin.
LEMMA OpenWalks ==
    ASSUME SearchInv, OneWalkInv, OpenParams
    PROVE  OneWalkInv'
<1>1. phase = "value" /\ Want.key = "apar"
  BY DEF OpenParams
<1>2. Refuse \/ (phase' = "params" /\ UNCHANGED <<buffer, todo, validating, num, found>>)
  BY Zenon DEF OpenParams
<1>3. Searching
  BY <1>1 DEF Searching
<1> QED
  BY <1>1, <1>2, <1>3, SameFields, RefuseWalks

\* One of them is read, or skipped.
LEMMA ParamWalks ==
    ASSUME SearchInv, OneWalkInv, ReadParam
    PROVE  OneWalkInv'
<1>1. phase = "params"
  BY DEF ReadParam
<1>2. Searching /\ Want.key = "apar"
  BY <1>1 DEF Searching, OneWalkInv
<1>3. \/ Refuse
      \/ UNCHANGED <<buffer, todo, phase, validating, num, found>>
      \/ \E p \in Params : \E v : /\ found' = {f \in found : f.key # p} \union {v} /\ v.key = p
                                  /\ UNCHANGED <<buffer, todo, phase, validating, num>>
  <2> DEFINE key == readString(buffer, offset, 10)
             params == {p \in Params : key.ok /\ KeyIs(Contents(buffer, key), p)}
             value(p) == readValue(buffer, p, key.at)
  <2>1. \/ Refuse
        \/ UNCHANGED <<buffer, todo, phase, validating, num, found>>
        \/ \E p \in params : /\ found' = {f \in found : f.key # p} \union {Value(buffer, p, 0, value(p))}
                             /\ UNCHANGED <<buffer, todo, phase, validating, num>>
    BY Zenon DEF ReadParam
  <2>2. params \subseteq Params
    OBVIOUS
  <2>3. \A p, v : Value(buffer, p, 0, v).key = p
    BY DEF Value
  <2> HIDE DEF params, value
  <2> QED
    BY <2>1, <2>2, <2>3, Zenon
<1>4. CASE UNCHANGED <<buffer, todo, phase, validating, num, found>>
  BY <1>1, <1>2, <1>4, SameFields
<1>5. ASSUME NEW p \in Params, NEW v, v.key = p, found' = {f \in found : f.key # p} \union {v},
             UNCHANGED <<buffer, todo, phase, validating, num>>
      PROVE  OneWalkInv'
  <2>1. PICK type \in TxTypes : Progress(buffer, type, ToSet(todo), found, num, validating)
    BY <1>2, TypeOnce
  <2>2. validating \in BOOLEAN
    BY <1>2, WantStands
  <2>3. Progress(buffer, type, ToSet(todo), found', num, validating)
    BY <1>5, <2>1, <2>2, ParamKept
  <2>4. Progress(buffer', type, ToSet(todo'), found', num', validating')
    BY <1>5, <2>3
  <2>5. Want' = Want
    BY <1>5 DEF Want
  <2>6. phase' = "params" /\ Want'.key = "apar"
    BY <1>1, <1>2, <1>5, <2>5
  <2> QED
    BY <2>4, <2>6 DEF OneWalkInv
<1> QED
  BY <1>3, <1>4, <1>5, RefuseWalks

\* The parameters are over: nothing was said that is counted here.
LEMMA CloseWalks ==
    ASSUME SearchInv, OneWalkInv, CloseParams
    PROVE  OneWalkInv'
<1> DEFINE Q == ToSet(todo)
           R == ToSet(Tail(todo))
<1>1. phase = "params" /\ Continue(Tail(todo), num) /\ UNCHANGED <<upload, buffer, found>>
  BY DEF CloseParams
<1>2. Searching /\ Want.key = "apar"
  BY <1>1 DEF Searching, OneWalkInv
<1>3. num \in Sizes /\ Want \in Q /\ R \subseteq Q /\ Q \subseteq {Want} \union R /\ validating \in BOOLEAN
  BY <1>2, WantStands
<1>4. PICK type \in TxTypes : /\ Progress(buffer, type, Q, found, num, validating)
                              /\ validating => Want.key \in {"apat", "apaa"}
  BY <1>2, TypeOnce
<1>5. validating = FALSE
  BY <1>2, <1>3, <1>4
<1>6. FieldSaid(buffer, "apar", {})
  BY SaidIs, SaidKey DEF FieldSaid
<1> HIDE DEF Q, R
<1>7. QueriesFit(buffer, type, R, num, FALSE)
  BY <1>3, <1>4, <1>5 DEF Progress, QueriesFit
<1>8. Progress(buffer, type, Q, found, num, FALSE)
  BY <1>4, <1>5
<1>9. Progress(buffer, type, R, found \union {}, num, FALSE)
  BY <1>2, <1>3, <1>6, <1>7, <1>8, FieldDone
<1>10. Progress(buffer, type, ToSet(Tail(todo)), found', num, validating)
  BY <1>1, <1>5, <1>9 DEF R
<1> QED
  BY <1>1, <1>3, <1>10, ContinueWalks

\* An account or argument is read where the field was read.
LEMMA PrintWalks ==
    ASSUME SearchInv, OneWalkInv, PrintElement
    PROVE  OneWalkInv'
<1> DEFINE key == Want.key
           i == Want.element
           value == readElement(buffer, key, offset, i - 1, num.apat)
           v == Value(buffer, key, i, value)
           Q == ToSet(todo)
           R == ToSet(Tail(todo))
<1>1. phase = "value" /\ i > 0
  BY DEF PrintElement
<1>2. Searching
  BY <1>1 DEF Searching
<1>3. Refuse \/ (found' = found \union {v} /\ Continue(Tail(todo), num) /\ UNCHANGED <<upload, buffer>>)
  BY Zenon DEF PrintElement
<1>4. /\ buffer \in Seq(Byte) /\ num \in Sizes /\ Want \in Q /\ R \subseteq Q /\ Q \subseteq {Want} \union R
      /\ validating \in BOOLEAN
  BY <1>2, WantStands
<1>5. PICK k \in First(buffer, key) : k.at = offset
  BY <1>1 DEF OneWalkInv
<1>6. i # 0
  BY <1>1
<1>7. PICK type \in TxTypes : /\ Progress(buffer, type, Q, found, num, validating)
                              /\ validating => key \in {"apat", "apaa"} /\ i \in 1..num[key]
                              /\ ~validating => i = 0
  <2>1. key # "type"
    BY <1>2, <1>6, TypeOnce
  <2> QED
    BY <1>2, <2>1, TypeOnce
<1>8. validating = TRUE /\ key \in {"apat", "apaa"} /\ i \in 1..num[key]
  BY <1>4, <1>6, <1>7
<1>9. num[key] \in Nat
  BY <1>4, <1>8 DEF Sizes, MAX_ARG
<1>10. num[key] # 0
  BY <1>8, <1>9
<1>11. CountedAt(buffer, key, offset, num)
  <2>1. PICK l \in First(buffer, key) : CountedAt(buffer, key, l.at, num)
    BY <1>7, <1>8, <1>10 DEF Progress, Counted
  <2>2. l = k
    BY <1>5, <2>1, OneFirst DEF First
  <2> QED
    BY <1>5, <2>1, <2>2
<1>12. ValueAt(buffer, key, offset).ok /\ ValueAt(buffer, key, offset).n = num[key]
  BY <1>8, <1>11 DEF CountedAt, ValueAt
<1>13. v = ElementAt(buffer, key, offset, i)
  <2>1. CASE key = "apat"
    <3>1. num[key] = num.apat
      BY <2>1
    <3> QED
      BY <1>12, <3>1 DEF ElementAt
  <2>2. CASE key = "apaa"
    <3>1. \A n : readElement(buffer, key, offset, i - 1, n) = getAppArg(buffer, offset, i - 1)
      BY <2>2 DEF readElement
    <3> QED
      BY <3>1 DEF ElementAt
  <2> QED
    BY <1>8, <2>1, <2>2
<1> HIDE DEF v, value, key, i, Q, R
<1>14. {v} \subseteq Said(buffer, key)
  <2>1. HasElements(buffer, key, offset, v)
    BY <1>8, <1>12, <1>13 DEF HasElements
  <2>2. key # "apar"
    BY <1>8
  <2>3. v \in SaidAt(buffer, key, offset)
    BY <1>12, <2>1, <2>2, SaidIs
  <2> QED
    BY <1>5, <2>3, SaidKey
<1>15. ASSUME NEW f \in Said(buffer, key), f.element = i PROVE f \in {v}
  BY <1>1, <1>4, <1>5, <1>13, <1>15, SaidOnce
<1>16. Want.key = key /\ Want.element = i
  BY DEF key, i
<1>17. Progress(buffer, type, R, found \union {v}, num, TRUE)
  <2>1. Progress(buffer, type, Q, found, num, TRUE)
    BY <1>7, <1>8
  <2> QED
    BY <1>4, <1>14, <1>15, <1>16, <2>1, ElementDone
<1>18. ASSUME found' = found \union {v}, Continue(Tail(todo), num), UNCHANGED <<upload, buffer>>
       PROVE  OneWalkInv'
  <2>1. Progress(buffer, type, ToSet(Tail(todo)), found', num, validating)
    BY <1>8, <1>17, <1>18 DEF R
  <2> QED
    BY <1>4, <1>18, <2>1, ContinueWalks
<1> QED
  BY <1>3, <1>18, RefuseWalks

\* Another parse begins.
LEMMA ParseWalks ==
    ASSUME SearchInv', NEW u \in Uploads, NEW tail \in Tails, Parse(u, tail)
    PROVE  OneWalkInv'
<1> DEFINE queries == <<Query(Required("type"))>>
<1>1. /\ validating' = FALSE /\ num' = [apat |-> 0, apaa |-> 0] /\ found' = {}
      /\ Search(queries, buffer') \/ phase' = "refused"
  BY Zenon DEF Parse
<1>2. CASE phase' = "refused"
  BY <1>2 DEF OneWalkInv, Searching
<1>3. CASE Search(queries, buffer')
  <2>1. buffer' \in Seq(Byte)
    BY DEF SearchInv, SearchTypeOK, Byte
  <2>2. queries # <<>>
    OBVIOUS
  <2>3. /\ \E i \in 0..Len(buffer') : Standing(i)'
        /\ todo' = queries /\ phase' = "keys"
    BY <1>3, <2>1, <2>2, SearchStands
  <2>4. Begun'
    BY <1>1, <2>3 DEF Begun
  <2> QED
    BY <2>3, <2>4 DEF OneWalkInv
<1> QED
  BY <1>1, <1>2, <1>3

\* The search for a field is a part of the walk, and what was found so far is all the walk
\* finds of the fields looked for so far.
THEOREM OneWalkInvariant == Spec => []OneWalkInv
<1>1. Init => OneWalkInv
  BY DEF Init, OneWalkInv, Searching
<1>2. ASSUME SearchInv, SearchInv', OneWalkInv, [Next]_vars
      PROVE  OneWalkInv'
  <2>1. CASE NextKey
    BY <1>2, <2>1, NextKeyWalks
  <2>2. CASE SkipValue
    BY <1>2, <2>2, SkipWalks
  <2>3. CASE SearchFails
    BY <1>2, <2>3, FailWalks
  <2>4. CASE ReadType
    BY <1>2, <2>4, TypeWalks
  <2>5. CASE ReadField
    BY <1>2, <2>5, FieldWalks
  <2>6. CASE OpenParams
    BY <1>2, <2>6, OpenWalks
  <2>7. CASE ReadParam
    BY <1>2, <2>7, ParamWalks
  <2>8. CASE CloseParams
    BY <1>2, <2>8, CloseWalks
  <2>9. CASE PrintElement
    BY <1>2, <2>9, PrintWalks
  <2>10. ASSUME NEW u \in Uploads, NEW tail \in Tails, Parse(u, tail) PROVE OneWalkInv'
    BY <1>2, <2>10, ParseWalks
  <2>11. CASE UNCHANGED vars
    BY <1>2, <2>11 DEF vars, context, OneWalkInv, Searching, Standing, Want, Begun
  <2> QED
    BY <1>2, <2>1, <2>2, <2>3, <2>4, <2>5, <2>6, <2>7, <2>8, <2>9, <2>10, <2>11 DEF Next, Step
<1> QED
  BY <1>1, <1>2, SearchInvariant, PTL DEF Spec

\* An accepted transaction, whatever its bytes, is read as in one walk over its map: each
\* field is what stands behind the first key with its name, each account and argument an
\* element of the array behind it, and nothing the walk comes by is left out.
THEOREM FieldsFoundInOneWalk == Spec => []FoundInOneWalk
<1>1. ASSUME SearchInv, OneWalkInv PROVE FoundInOneWalk
  <2> SUFFICES ASSUME phase = "accepted"
               PROVE  \E keys \in {MapKeys(buffer)}, type \in TxTypes :
                         /\ \E f \in found : f.key = "type" /\ TextIs(f.bytes, type)
                         /\ {f \in found : f.key \notin Params} =
                               UNION {SaidBy(buffer, keys, name) : name \in AskedFor(type, keys)}
    BY DEF FoundInOneWalk
  <2>1. buffer \in Seq(Byte) /\ validating \in BOOLEAN
    BY <1>1 DEF SearchInv, SearchTypeOK, Byte
  <2>2. todo = <<>> /\ validating = TRUE
    BY <1>1, <2>1 DEF OneWalkInv
  <2>3. PICK type \in TxTypes : Progress(buffer, type, ToSet(todo), found, num, validating)
    BY <1>1, <2>2 DEF OneWalkInv, Begun
  <2>4. Progress(buffer, type, {}, found, num, TRUE)
    <3>1. ToSet(<<>>) = {}
      BY DEF ToSet
    <3>2. ToSet(todo) = {}
      BY <2>2, <3>1
    <3> QED
      BY <2>2, <2>3, <3>2
  <2>5. {f \in found : f.key \notin Params} = UNION {Said(buffer, name) : name \in Asked(buffer, type)}
    BY <2>1, <2>4, AllSaid
  <2>6. \E f \in found : f.key = "type" /\ TextIs(f.bytes, type)
    BY <2>4 DEF Progress, TypeFound
  <2> QED
    BY <2>5, <2>6 DEF Said, Asked
<1> QED
  BY <1>1, SearchInvariant, OneWalkInvariant, PTL

-----------------------------------------------------------------------------
(* Addresses: bits are moved from bytes to digits.                           *)

\* Bit k of x, from the lowest.
BitOf(x, k) == (x \div 2^k) % 2

\* A byte is put behind the bits that are left over.
LEMMA RefillBits ==
    ASSUME NEW x \in Nat, NEW d \in 0..255
    PROVE  /\ \A k \in 0..7 : BitOf(256 * x + d, k) = BitOf(d, k)
           /\ \A k \in 8..11 : BitOf(256 * x + d, k) = BitOf(x, k - 8)
<1> DEFINE y == 256 * x + d
<1>1. BitOf(y, 0) = BitOf(d, 0)
  BY SMTT(30) DEF BitOf
<1>2. BitOf(y, 1) = BitOf(d, 1)
  BY SMTT(30) DEF BitOf
<1>3. BitOf(y, 2) = BitOf(d, 2)
  BY SMTT(30) DEF BitOf
<1>4. BitOf(y, 3) = BitOf(d, 3)
  BY SMTT(30) DEF BitOf
<1>5. BitOf(y, 4) = BitOf(d, 4)
  BY SMTT(30) DEF BitOf
<1>6. BitOf(y, 5) = BitOf(d, 5)
  BY SMTT(30) DEF BitOf
<1>7. BitOf(y, 6) = BitOf(d, 6)
  BY SMTT(30) DEF BitOf
<1>8. BitOf(y, 7) = BitOf(d, 7)
  BY SMTT(30) DEF BitOf
<1>9. BitOf(y, 8) = BitOf(x, 0)
  <2>1. y \div 256 = x \div 1
    OBVIOUS
  <2> QED
    BY <2>1, SMTT(30) DEF BitOf
<1>10. BitOf(y, 9) = BitOf(x, 1)
  <2>1. y \div 512 = x \div 2
    OBVIOUS
  <2> QED
    BY <2>1, SMTT(30) DEF BitOf
<1>11. BitOf(y, 10) = BitOf(x, 2)
  <2>1. y \div 1024 = x \div 4
    OBVIOUS
  <2> QED
    BY <2>1, SMTT(30) DEF BitOf
<1>12. BitOf(y, 11) = BitOf(x, 3)
  <2>1. y \div 2048 = x \div 8
    OBVIOUS
  <2> QED
    BY <2>1, SMTT(30) DEF BitOf
<1> HIDE DEF y
<1>13. \A k \in {0, 1, 2, 3, 4, 5, 6, 7} : BitOf(y, k) = BitOf(d, k)
  BY <1>1, <1>2, <1>3, <1>4, <1>5, <1>6, <1>7, <1>8
<1>14. \A k \in {8, 9, 10, 11} : BitOf(y, k) = BitOf(x, k - 8)
  BY <1>9, <1>10, <1>11, <1>12
<1>15. 0..7 = {0, 1, 2, 3, 4, 5, 6, 7} /\ 8..11 = {8, 9, 10, 11}
  OBVIOUS
<1> QED
  BY <1>13, <1>14, <1>15 DEF y

\* The buffer has the bits of both, and no more.
LEMMA RefillFits ==
    ASSUME NEW n \in 0..4, NEW x \in Nat, x < 2^n, NEW d \in 0..255
    PROVE  256 * x + d \in Nat /\ 256 * x + d < 2^(n + 8)
<1>1. CASE n = 0
  BY <1>1
<1>2. CASE n = 1
  BY <1>2
<1>3. CASE n = 2
  BY <1>3
<1>4. CASE n = 3
  BY <1>4
<1>5. CASE n = 4
  BY <1>5
<1> QED
  BY <1>1, <1>2, <1>3, <1>4, <1>5

\* The last bits are filled up with zeros.
LEMMA PadBits ==
    ASSUME NEW n \in 1..4, NEW x \in Nat, x < 2^n
    PROVE  LET p == 5 - n
           IN  /\ x * 2^p \in Nat /\ x * 2^p < 2^5
               /\ \A k \in 0..(p - 1) : BitOf(x * 2^p, k) = 0
               /\ \A k \in p..4 : BitOf(x * 2^p, k) = BitOf(x, k - p)
<1> DEFINE p == 5 - n
           y == x * 2^p
<1>1. CASE n = 1
  <2>1. p = 4 /\ y = x * 16 /\ x < 2
    BY <1>1
  <2>2. y \in Nat /\ y < 2^5
    BY <2>1
  <2>3. BitOf(y, 0) = 0
    BY <2>1 DEF BitOf
  <2>4. BitOf(y, 1) = 0
    BY <2>1 DEF BitOf
  <2>5. BitOf(y, 2) = 0
    BY <2>1 DEF BitOf
  <2>6. BitOf(y, 3) = 0
    BY <2>1 DEF BitOf
  <2>7. BitOf(y, 4) = BitOf(x, 0)
    BY <2>1 DEF BitOf
  <2> HIDE DEF y, p
  <2>8. \A k \in 0..(p - 1) : BitOf(y, k) = 0
    BY <2>1, <2>3, <2>4, <2>5, <2>6
  <2>9. \A k \in p..4 : BitOf(y, k) = BitOf(x, k - p)
    BY <2>1, <2>7
  <2> QED
    BY <2>2, <2>8, <2>9 DEF y, p
<1>2. CASE n = 2
  <2>1. p = 3 /\ y = x * 8 /\ x < 4
    BY <1>2
  <2>2. y \in Nat /\ y < 2^5
    BY <2>1
  <2>3. BitOf(y, 0) = 0
    BY <2>1 DEF BitOf
  <2>4. BitOf(y, 1) = 0
    BY <2>1 DEF BitOf
  <2>5. BitOf(y, 2) = 0
    BY <2>1 DEF BitOf
  <2>6. BitOf(y, 3) = BitOf(x, 0)
    BY <2>1 DEF BitOf
  <2>7. BitOf(y, 4) = BitOf(x, 1)
    BY <2>1 DEF BitOf
  <2> HIDE DEF y, p
  <2>8. \A k \in 0..(p - 1) : BitOf(y, k) = 0
    BY <2>1, <2>3, <2>4, <2>5
  <2>9. \A k \in p..4 : BitOf(y, k) = BitOf(x, k - p)
    BY <2>1, <2>6, <2>7
  <2> QED
    BY <2>2, <2>8, <2>9 DEF y, p
<1>3. CASE n = 3
  <2>1. p = 2 /\ y = x * 4 /\ x < 8
    BY <1>3
  <2>2. y \in Nat /\ y < 2^5
    BY <2>1
  <2>3. BitOf(y, 0) = 0
    BY <2>1 DEF BitOf
  <2>4. BitOf(y, 1) = 0
    BY <2>1 DEF BitOf
  <2>5. BitOf(y, 2) = BitOf(x, 0)
    BY <2>1 DEF BitOf
  <2>6. BitOf(y, 3) = BitOf(x, 1)
    BY <2>1 DEF BitOf
  <2>7. BitOf(y, 4) = BitOf(x, 2)
    BY <2>1 DEF BitOf
  <2> HIDE DEF y, p
  <2>8. \A k \in 0..(p - 1) : BitOf(y, k) = 0
    BY <2>1, <2>3, <2>4
  <2>9. \A k \in p..4 : BitOf(y, k) = BitOf(x, k - p)
    BY <2>1, <2>5, <2>6, <2>7
  <2> QED
    BY <2>2, <2>8, <2>9 DEF y, p
<1>4. CASE n = 4
  <2>1. p = 1 /\ y = x * 2 /\ x < 16
    BY <1>4
  <2>2. y \in Nat /\ y < 2^5
    BY <2>1
  <2>3. BitOf(y, 0) = 0
    BY <2>1 DEF BitOf
  <2>4. BitOf(y, 1) = BitOf(x, 0)
    BY <2>1 DEF BitOf
  <2>5. BitOf(y, 2) = BitOf(x, 1)
    BY <2>1 DEF BitOf
  <2>6. BitOf(y, 3) = BitOf(x, 2)
    BY <2>1 DEF BitOf
  <2>7. BitOf(y, 4) = BitOf(x, 3)
    BY <2>1 DEF BitOf
  <2> HIDE DEF y, p
  <2>8. \A k \in 0..(p - 1) : BitOf(y, k) = 0
    BY <2>1, <2>3
  <2>9. \A k \in p..4 : BitOf(y, k) = BitOf(x, k - p)
    BY <2>1, <2>4, <2>5, <2>6, <2>7
  <2> QED
    BY <2>2, <2>8, <2>9 DEF y, p
<1> QED
  BY <1>1, <1>2, <1>3, <1>4

\* Five bits are taken from the top, and the others stay.
LEMMA TakeBits ==
    ASSUME NEW r \in 0..7, NEW x \in Nat, x < 2^(r + 5)
    PROVE  /\ x \div 2^r \in 0..31
           /\ \A k \in 0..4 : BitOf(x \div 2^r, k) = BitOf(x, k + r)
           /\ x % 2^r \in Nat /\ x % 2^r < 2^r
           /\ \A k \in 0..(r - 1) : BitOf(x % 2^r, k) = BitOf(x, k)
<1> DEFINE top == x \div 2^r
           rest == x % 2^r
<1>0. 0..4 = {0, 1, 2, 3, 4}
  OBVIOUS
<1>1. CASE r = 0
  <2>1. top = x \div 1 /\ rest = x % 1 /\ x < 32
    BY <1>1
  <2>2. top \in 0..31 /\ rest \in Nat /\ rest < 2^r
    BY <1>1, <2>1
  <2>3. BitOf(x \div 1, 0) = BitOf(x, 0)
    BY SMTT(30) DEF BitOf
  <2>4. BitOf(x \div 1, 1) = BitOf(x, 1)
    BY SMTT(30) DEF BitOf
  <2>5. BitOf(x \div 1, 2) = BitOf(x, 2)
    BY SMTT(30) DEF BitOf
  <2>6. BitOf(x \div 1, 3) = BitOf(x, 3)
    BY SMTT(30) DEF BitOf
  <2>7. BitOf(x \div 1, 4) = BitOf(x, 4)
    BY SMTT(30) DEF BitOf
  <2> HIDE DEF top, rest
  <2>8. \A k \in {0, 1, 2, 3, 4} : BitOf(top, k) = BitOf(x, k + r)
    BY <1>1, <2>1, <2>3, <2>4, <2>5, <2>6, <2>7
  <2>9. \A k \in 0..(r - 1) : BitOf(rest, k) = BitOf(x, k)
    BY <1>1
  <2> QED
    BY <1>0, <2>2, <2>8, <2>9 DEF top, rest
<1>2. CASE r = 1
  <2>1. top = x \div 2 /\ rest = x % 2 /\ x < 64
    BY <1>2
  <2>2. top \in 0..31 /\ rest \in Nat /\ rest < 2^r
    BY <1>2, <2>1
  <2>3. BitOf(x \div 2, 0) = BitOf(x, 1)
    BY SMTT(30) DEF BitOf
  <2>4. BitOf(x \div 2, 1) = BitOf(x, 2)
    BY SMTT(30) DEF BitOf
  <2>5. BitOf(x \div 2, 2) = BitOf(x, 3)
    BY SMTT(30) DEF BitOf
  <2>6. BitOf(x \div 2, 3) = BitOf(x, 4)
    BY SMTT(30) DEF BitOf
  <2>7. BitOf(x \div 2, 4) = BitOf(x, 5)
    BY SMTT(30) DEF BitOf
  <2>8. BitOf(x % 2, 0) = BitOf(x, 0)
    BY SMTT(30) DEF BitOf
  <2> HIDE DEF top, rest
  <2>9. \A k \in {0, 1, 2, 3, 4} : BitOf(top, k) = BitOf(x, k + r)
    BY <1>2, <2>1, <2>3, <2>4, <2>5, <2>6, <2>7
  <2>10. \A k \in 0..(r - 1) : BitOf(rest, k) = BitOf(x, k)
    BY <1>2, <2>1, <2>8
  <2> QED
    BY <1>0, <2>2, <2>9, <2>10 DEF top, rest
<1>3. CASE r = 2
  <2>1. top = x \div 4 /\ rest = x % 4 /\ x < 128
    BY <1>3
  <2>2. top \in 0..31 /\ rest \in Nat /\ rest < 2^r
    BY <1>3, <2>1
  <2>3. BitOf(x \div 4, 0) = BitOf(x, 2)
    BY SMTT(30) DEF BitOf
  <2>4. BitOf(x \div 4, 1) = BitOf(x, 3)
    BY SMTT(30) DEF BitOf
  <2>5. BitOf(x \div 4, 2) = BitOf(x, 4)
    BY SMTT(30) DEF BitOf
  <2>6. BitOf(x \div 4, 3) = BitOf(x, 5)
    BY SMTT(30) DEF BitOf
  <2>7. BitOf(x \div 4, 4) = BitOf(x, 6)
    BY SMTT(30) DEF BitOf
  <2>8. BitOf(x % 4, 0) = BitOf(x, 0)
    BY SMTT(30) DEF BitOf
  <2>9. BitOf(x % 4, 1) = BitOf(x, 1)
    BY SMTT(30) DEF BitOf
  <2> HIDE DEF top, rest
  <2>10. \A k \in {0, 1, 2, 3, 4} : BitOf(top, k) = BitOf(x, k + r)
    BY <1>3, <2>1, <2>3, <2>4, <2>5, <2>6, <2>7
  <2>11. \A k \in 0..(r - 1) : BitOf(rest, k) = BitOf(x, k)
    BY <1>3, <2>1, <2>8, <2>9
  <2> QED
    BY <1>0, <2>2, <2>10, <2>11 DEF top, rest
<1>4. CASE r = 3
  <2>1. top = x \div 8 /\ rest = x % 8 /\ x < 256
    BY <1>4
  <2>2. top \in 0..31 /\ rest \in Nat /\ rest < 2^r
    BY <1>4, <2>1
  <2>3. BitOf(x \div 8, 0) = BitOf(x, 3)
    BY SMTT(30) DEF BitOf
  <2>4. BitOf(x \div 8, 1) = BitOf(x, 4)
    BY SMTT(30) DEF BitOf
  <2>5. BitOf(x \div 8, 2) = BitOf(x, 5)
    BY SMTT(30) DEF BitOf
  <2>6. BitOf(x \div 8, 3) = BitOf(x, 6)
    BY SMTT(30) DEF BitOf
  <2>7. BitOf(x \div 8, 4) = BitOf(x, 7)
    BY SMTT(30) DEF BitOf
  <2>8. BitOf(x % 8, 0) = BitOf(x, 0)
    BY SMTT(30) DEF BitOf
  <2>9. BitOf(x % 8, 1) = BitOf(x, 1)
    BY SMTT(30) DEF BitOf
  <2>10. BitOf(x % 8, 2) = BitOf(x, 2)
    BY SMTT(30) DEF BitOf
  <2> HIDE DEF top, rest
  <2>11. \A k \in {0, 1, 2, 3, 4} : BitOf(top, k) = BitOf(x, k + r)
    BY <1>4, <2>1, <2>3, <2>4, <2>5, <2>6, <2>7
  <2>12. \A k \in 0..(r - 1) : BitOf(rest, k) = BitOf(x, k)
    BY <1>4, <2>1, <2>8, <2>9, <2>10
  <2> QED
    BY <1>0, <2>2, <2>11, <2>12 DEF top, rest
<1>5. CASE r = 4
  <2>1. top = x \div 16 /\ rest = x % 16 /\ x < 512
    BY <1>5
  <2>2. top \in 0..31 /\ rest \in Nat /\ rest < 2^r
    BY <1>5, <2>1
  <2>3. BitOf(x \div 16, 0) = BitOf(x, 4)
    BY SMTT(30) DEF BitOf
  <2>4. BitOf(x \div 16, 1) = BitOf(x, 5)
    BY SMTT(30) DEF BitOf
  <2>5. BitOf(x \div 16, 2) = BitOf(x, 6)
    BY SMTT(30) DEF BitOf
  <2>6. BitOf(x \div 16, 3) = BitOf(x, 7)
    BY SMTT(30) DEF BitOf
  <2>7. BitOf(x \div 16, 4) = BitOf(x, 8)
    BY SMTT(30) DEF BitOf
  <2>8. BitOf(x % 16, 0) = BitOf(x, 0)
    BY SMTT(30) DEF BitOf
  <2>9. BitOf(x % 16, 1) = BitOf(x, 1)
    BY SMTT(30) DEF BitOf
  <2>10. BitOf(x % 16, 2) = BitOf(x, 2)
    BY SMTT(30) DEF BitOf
  <2>11. BitOf(x % 16, 3) = BitOf(x, 3)
    BY SMTT(30) DEF BitOf
  <2> HIDE DEF top, rest
  <2>12. \A k \in {0, 1, 2, 3, 4} : BitOf(top, k) = BitOf(x, k + r)
    BY <1>5, <2>1, <2>3, <2>4, <2>5, <2>6, <2>7
  <2>13. \A k \in 0..(r - 1) : BitOf(rest, k) = BitOf(x, k)
    BY <1>5, <2>1, <2>8, <2>9, <2>10, <2>11
  <2> QED
    BY <1>0, <2>2, <2>12, <2>13 DEF top, rest
<1>6. CASE r = 5
  <2>1. top = x \div 32 /\ rest = x % 32 /\ x < 1024
    BY <1>6
  <2>2. top \in 0..31 /\ rest \in Nat /\ rest < 2^r
    BY <1>6, <2>1
  <2>3. BitOf(x \div 32, 0) = BitOf(x, 5)
    BY SMTT(30) DEF BitOf
  <2>4. BitOf(x \div 32, 1) = BitOf(x, 6)
    BY SMTT(30) DEF BitOf
  <2>5. BitOf(x \div 32, 2) = BitOf(x, 7)
    BY SMTT(30) DEF BitOf
  <2>6. BitOf(x \div 32, 3) = BitOf(x, 8)
    BY SMTT(30) DEF BitOf
  <2>7. BitOf(x \div 32, 4) = BitOf(x, 9)
    BY SMTT(30) DEF BitOf
  <2>8. BitOf(x % 32, 0) = BitOf(x, 0)
    BY SMTT(30) DEF BitOf
  <2>9. BitOf(x % 32, 1) = BitOf(x, 1)
    BY SMTT(30) DEF BitOf
  <2>10. BitOf(x % 32, 2) = BitOf(x, 2)
    BY SMTT(30) DEF BitOf
  <2>11. BitOf(x % 32, 3) = BitOf(x, 3)
    BY SMTT(30) DEF BitOf
  <2>12. BitOf(x % 32, 4) = BitOf(x, 4)
    BY SMTT(30) DEF BitOf
  <2> HIDE DEF top, rest
  <2>13. \A k \in {0, 1, 2, 3, 4} : BitOf(top, k) = BitOf(x, k + r)
    BY <1>6, <2>1, <2>3, <2>4, <2>5, <2>6, <2>7
  <2>14. \A k \in 0..(r - 1) : BitOf(rest, k) = BitOf(x, k)
    BY <1>6, <2>1, <2>8, <2>9, <2>10, <2>11, <2>12
  <2> QED
    BY <1>0, <2>2, <2>13, <2>14 DEF top, rest
<1>7. CASE r = 6
  <2>1. top = x \div 64 /\ rest = x % 64 /\ x < 2048
    BY <1>7
  <2>2. top \in 0..31 /\ rest \in Nat /\ rest < 2^r
    BY <1>7, <2>1
  <2>3. BitOf(x \div 64, 0) = BitOf(x, 6)
    BY SMTT(30) DEF BitOf
  <2>4. BitOf(x \div 64, 1) = BitOf(x, 7)
    BY SMTT(30) DEF BitOf
  <2>5. BitOf(x \div 64, 2) = BitOf(x, 8)
    BY SMTT(30) DEF BitOf
  <2>6. BitOf(x \div 64, 3) = BitOf(x, 9)
    BY SMTT(30) DEF BitOf
  <2>7. BitOf(x \div 64, 4) = BitOf(x, 10)
    BY SMTT(30) DEF BitOf
  <2>8. BitOf(x % 64, 0) = BitOf(x, 0)
    BY SMTT(30) DEF BitOf
  <2>9. BitOf(x % 64, 1) = BitOf(x, 1)
    BY SMTT(30) DEF BitOf
  <2>10. BitOf(x % 64, 2) = BitOf(x, 2)
    BY SMTT(30) DEF BitOf
  <2>11. BitOf(x % 64, 3) = BitOf(x, 3)
    BY SMTT(30) DEF BitOf
  <2>12. BitOf(x % 64, 4) = BitOf(x, 4)
    BY SMTT(30) DEF BitOf
  <2>13. BitOf(x % 64, 5) = BitOf(x, 5)
    BY SMTT(30) DEF BitOf
  <2> HIDE DEF top, rest
  <2>14. \A k \in {0, 1, 2, 3, 4} : BitOf(top, k) = BitOf(x, k + r)
    BY <1>7, <2>1, <2>3, <2>4, <2>5, <2>6, <2>7
  <2>15. \A k \in 0..(r - 1) : BitOf(rest, k) = BitOf(x, k)
    BY <1>7, <2>1, <2>8, <2>9, <2>10, <2>11, <2>12, <2>13
  <2> QED
    BY <1>0, <2>2, <2>14, <2>15 DEF top, rest
<1>8. CASE r = 7
  <2>1. top = x \div 128 /\ rest = x % 128 /\ x < 4096
    BY <1>8
  <2>2. top \in 0..31 /\ rest \in Nat /\ rest < 2^r
    BY <1>8, <2>1
  <2>3. BitOf(x \div 128, 0) = BitOf(x, 7)
    BY SMTT(30) DEF BitOf
  <2>4. BitOf(x \div 128, 1) = BitOf(x, 8)
    BY SMTT(30) DEF BitOf
  <2>5. BitOf(x \div 128, 2) = BitOf(x, 9)
    BY SMTT(30) DEF BitOf
  <2>6. BitOf(x \div 128, 3) = BitOf(x, 10)
    BY SMTT(30) DEF BitOf
  <2>7. BitOf(x \div 128, 4) = BitOf(x, 11)
    BY SMTT(30) DEF BitOf
  <2>8. BitOf(x % 128, 0) = BitOf(x, 0)
    BY SMTT(30) DEF BitOf
  <2>9. BitOf(x % 128, 1) = BitOf(x, 1)
    BY SMTT(30) DEF BitOf
  <2>10. BitOf(x % 128, 2) = BitOf(x, 2)
    BY SMTT(30) DEF BitOf
  <2>11. BitOf(x % 128, 3) = BitOf(x, 3)
    BY SMTT(30) DEF BitOf
  <2>12. BitOf(x % 128, 4) = BitOf(x, 4)
    BY SMTT(30) DEF BitOf
  <2>13. BitOf(x % 128, 5) = BitOf(x, 5)
    BY SMTT(30) DEF BitOf
  <2>14. BitOf(x % 128, 6) = BitOf(x, 6)
    BY SMTT(30) DEF BitOf
  <2> HIDE DEF top, rest
  <2>15. \A k \in {0, 1, 2, 3, 4} : BitOf(top, k) = BitOf(x, k + r)
    BY <1>8, <2>1, <2>3, <2>4, <2>5, <2>6, <2>7
  <2>16. \A k \in 0..(r - 1) : BitOf(rest, k) = BitOf(x, k)
    BY <1>8, <2>1, <2>8, <2>9, <2>10, <2>11, <2>12, <2>13, <2>14
  <2> QED
    BY <1>0, <2>2, <2>15, <2>16 DEF top, rest
<1> QED
  BY <1>1, <1>2, <1>3, <1>4, <1>5, <1>6, <1>7, <1>8

-----------------------------------------------------------------------------
(* Addresses: the loop of base32_encode.                                     *)

\* The state of the loop, after n bytes at most.
Loop(n) == [buffer : Nat, next : 1..n, bitsLeft : 0..12, text : Seq(0..31)]

\* The bits of the bytes, and zeros behind them.
BitAt(data, i) == IF i < 8 * Len(data) THEN Bit(data, 8, i) ELSE 0

\* How many bits were taken over, to the text or to the buffer.
Taken(loop) == 5 * Len(loop.text) + loop.bitsLeft

\* Every bit taken over is in its place, in the text or in the buffer, and none is
\* there twice: the bits taken over are those of the bytes before next; or all of them
\* and fewer than five zeros.
Carry(data, loop) ==
    /\ loop \in Loop(Len(data))
    /\ loop.buffer < 2^loop.bitsLeft
    /\ \/ Taken(loop) = 8 * loop.next
       \/ /\ loop.next = Len(data) /\ loop.bitsLeft \in {0, 5}
          /\ Taken(loop) > 8 * loop.next /\ Taken(loop) <= 8 * loop.next + 4
    /\ \A i \in 0..(5 * Len(loop.text) - 1) : Bit(loop.text, 5, i) = BitAt(data, i)
    /\ \A k \in 0..(loop.bitsLeft - 1) : BitOf(loop.buffer, k) = BitAt(data, Taken(loop) - 1 - k)

\* Where a bit of a sequence is.
LEMMA BitIs ==
    ASSUME NEW s, NEW w \in {5, 8}, NEW j \in Nat, NEW m \in 0..(w - 1)
    PROVE  Bit(s, w, w * j + m) = BitOf(s[j + 1], w - 1 - m)
<1> DEFINE i == w * j + m
<1>1. i \div w = j /\ i % w = m
  <2>1. CASE w = 5
    BY <2>1
  <2>2. CASE w = 8
    BY <2>2
  <2> QED
    BY <2>1, <2>2
<1> HIDE DEF i
<1>2. Bit(s, w, i) = BitOf(s[j + 1], w - 1 - m)
  BY <1>1 DEF Bit, BitOf
<1> QED
  BY <1>2 DEF i

\* An element of a sequence is of its elements' set.
LEMMA ElementOf ==
    ASSUME NEW S, NEW s \in Seq(S), NEW j \in 1..Len(s)
    PROVE  s[j] \in S
OBVIOUS

\* Reading more bytes, or filling up with zeros, keeps every bit in its place.
LEMMA RefillCarries ==
    ASSUME NEW data \in Seq(0..255), NEW loop, Carry(data, loop), loop.bitsLeft \in 0..8,
           loop.bitsLeft > 0 \/ loop.next < Len(data)
    PROVE  LET full == Refill(data, loop)
           IN  Carry(data, full) /\ full.bitsLeft \in 5..12 /\ full.text = loop.text
<1> DEFINE n == Len(data)
           full == Refill(data, loop)
           x == loop.buffer
           b == loop.bitsLeft
           t == Taken(loop)
<1>1. /\ loop \in Loop(n) /\ n \in Nat /\ x \in Nat /\ b \in 0..8 /\ loop.next \in 1..n
      /\ x < 2^b /\ Len(loop.text) \in Nat /\ t \in Nat
  BY DEF Carry, Loop, Taken
<1>2. CASE b >= 5
  <2>1. full = loop
    BY <1>2 DEF Refill
  <2> QED
    BY <1>1, <1>2, <2>1
<1>3. CASE b < 5 /\ loop.next < n
  <2> DEFINE d == data[loop.next + 1]
             y == 256 * x + d
             T == t + 8
  <2>1. full = [loop EXCEPT !.buffer = y, !.next = loop.next + 1, !.bitsLeft = b + 8]
    BY <1>3 DEF Refill
  <2>2. d \in 0..255 /\ b \in 0..4
    <3>1. loop.next + 1 \in 1..n
      BY <1>1, <1>3
    <3>2. d \in 0..255
      BY <3>1, ElementOf, Zenon
    <3> QED
      BY <1>1, <1>3, <3>2
  <2>3. y \in Nat /\ y < 2^(b + 8)
    BY <1>1, <2>2, RefillFits
  <2>4. /\ full.buffer = y /\ full.next = loop.next + 1 /\ full.bitsLeft = b + 8
        /\ full.text = loop.text /\ full \in Loop(n)
    <3>1. loop.next + 1 \in 1..n /\ b + 8 \in 0..12 /\ loop \in Loop(n) /\ y \in Nat
      <4>1. loop.next + 1 \in 1..n /\ b + 8 \in 0..12
        <5> HIDE DEF b, n, y, d
        <5> QED
          BY <1>1, <1>3, <2>2
      <4> QED
        BY <1>1, <2>3, <4>1
    <3> HIDE DEF y, b, n, d, full
    <3> QED
      BY <2>1, <3>1 DEF Loop
  <2>5. Taken(full) = T /\ t = 8 * loop.next /\ T = 8 * full.next
    <3> DEFINE l == Len(loop.text)
    <3>1. t = 8 * loop.next
      BY <1>3 DEF Carry
    <3>2. Taken(full) = 5 * l + full.bitsLeft /\ t = 5 * l + b /\ T = t + 8
      BY <2>4 DEF Taken
    <3>3. full.bitsLeft = b + 8 /\ full.next = loop.next + 1
      BY <2>4
    <3>4. l \in Nat /\ b \in 0..8 /\ loop.next \in Nat /\ t \in Nat
      BY <1>1
    <3> HIDE DEF l, b, t, T, full, n
    <3> QED
      BY <3>1, <3>2, <3>3, <3>4
  <2>6. \A k \in 0..7 : BitOf(y, k) = BitAt(data, T - 1 - k)
    <3> SUFFICES ASSUME NEW k \in 0..7 PROVE BitOf(y, k) = BitAt(data, T - 1 - k)
      OBVIOUS
    <3>1. T - 1 - k = 8 * loop.next + (7 - k) /\ 7 - k \in 0..7 /\ T - 1 - k < 8 * n
      <4>1. T = 8 * loop.next + 8 /\ loop.next \in Nat /\ n \in Nat /\ loop.next + 1 <= n
        <5>1. T = t + 8 /\ t = 8 * loop.next
          BY <2>5
        <5>2. loop.next \in Nat /\ n \in Nat /\ loop.next < n
          BY <1>1, <1>3
        <5> HIDE DEF T, t, n, full
        <5> QED
          BY <5>1, <5>2
      <4> HIDE DEF T, n, t, x, y, d, b, full
      <4> DEFINE j == loop.next
      <4>2. T = 8 * j + 8 /\ j \in Nat /\ n \in Nat /\ j + 1 <= n
        BY <4>1
      <4> HIDE DEF j
      <4>3. T - 1 - k = 8 * j + (7 - k) /\ 7 - k \in 0..7 /\ T - 1 - k < 8 * n
        BY <4>2
      <4> QED
        BY <4>3 DEF j
    <3>2. BitAt(data, T - 1 - k) = Bit(data, 8, 8 * loop.next + (7 - k))
      BY <3>1 DEF BitAt
    <3>3. Bit(data, 8, 8 * loop.next + (7 - k)) = BitOf(data[loop.next + 1], 8 - 1 - (7 - k))
      <4> HIDE DEF d
      <4>1. loop.next \in Nat /\ 7 - k \in 0..(8 - 1)
        BY <1>1, <3>1
      <4> QED
        BY <4>1, BitIs, Zenon
    <3>4. 8 - 1 - (7 - k) = k
      OBVIOUS
    <3>5. BitOf(y, k) = BitOf(d, k)
      <4>1. x \in Nat /\ d \in 0..255
        BY <1>1, <2>2
      <4> HIDE DEF x, d
      <4> QED
        BY <4>1, RefillBits, Zenon
    <3>6. BitOf(data[loop.next + 1], 8 - 1 - (7 - k)) = BitOf(d, k)
      BY <3>4, Zenon
    <3> HIDE DEF y, d, T
    <3> QED
      BY <3>2, <3>3, <3>5, <3>6, Zenon
  <2>7. \A k \in 8..(b + 7) : BitOf(y, k) = BitAt(data, T - 1 - k)
    <3> SUFFICES ASSUME NEW k \in 8..(b + 7) PROVE BitOf(y, k) = BitAt(data, T - 1 - k)
      OBVIOUS
    <3>1. k \in 8..11 /\ k - 8 \in 0..(b - 1) /\ T - 1 - k = t - 1 - (k - 8)
      <4>1. T = t + 8 /\ t \in Nat /\ b \in 0..4
        BY <1>1, <2>2
      <4> HIDE DEF T, t, b
      <4> QED
        BY <4>1
    <3>2. BitOf(y, k) = BitOf(x, k - 8)
      <4>1. x \in Nat /\ d \in 0..255
        BY <1>1, <2>2
      <4> HIDE DEF x, d
      <4> QED
        BY <3>1, <4>1, RefillBits, Zenon
    <3>3. BitOf(x, k - 8) = BitAt(data, t - 1 - (k - 8))
      BY <3>1 DEF Carry
    <3> QED
      BY <3>1, <3>2, <3>3
  <2> HIDE DEF d, y, T, full
  <2>8. \A k \in 0..(full.bitsLeft - 1) : BitOf(full.buffer, k) = BitAt(data, Taken(full) - 1 - k)
    <3> SUFFICES ASSUME NEW k \in 0..(full.bitsLeft - 1)
                 PROVE  BitOf(full.buffer, k) = BitAt(data, Taken(full) - 1 - k)
      OBVIOUS
    <3>1. k \in 0..7 \/ k \in 8..(b + 7)
      <4>1. full.bitsLeft = b + 8 /\ b \in 0..8
        BY <1>1, <2>4
      <4> HIDE DEF b
      <4> QED
        BY <4>1
    <3>2. full.buffer = y /\ Taken(full) = T
      BY <2>4, <2>5
    <3> HIDE DEF b
    <3> QED
      BY <2>6, <2>7, <3>1, <3>2, Zenon
  <2>9. \A i \in 0..(5 * Len(full.text) - 1) : Bit(full.text, 5, i) = BitAt(data, i)
    BY <2>4 DEF Carry
  <2>10. full.buffer < 2^full.bitsLeft /\ full.bitsLeft \in 5..12
    <3>1. full.buffer = y /\ full.bitsLeft = b + 8 /\ y < 2^(b + 8) /\ b \in 0..4
      BY <2>2, <2>3, <2>4
    <3> HIDE DEF b
    <3> QED
      BY <3>1
  <2>11. Taken(full) = 8 * full.next
    BY <2>5
  <2> QED
    BY <2>4, <2>8, <2>9, <2>10, <2>11 DEF Carry, full
<1>4. CASE b < 5 /\ ~(loop.next < n)
  <2> DEFINE p == 5 - b
             y == x * 2^p
             T == t + p
  <2>1. full = [loop EXCEPT !.buffer = y, !.bitsLeft = 5]
    BY <1>4 DEF Refill
  <2>2. b \in 1..4 /\ p \in 1..4 /\ loop.next = n
    BY <1>1, <1>4
  <2>3. /\ y \in Nat /\ y < 2^5
        /\ \A k \in 0..(p - 1) : BitOf(y, k) = 0
        /\ \A k \in p..4 : BitOf(y, k) = BitOf(x, k - p)
    BY <1>1, <2>2, PadBits
  <2>4. /\ full.buffer = y /\ full.next = n /\ full.bitsLeft = 5
        /\ full.text = loop.text /\ full \in Loop(n)
    <3>1. loop \in Loop(n) /\ loop.next = n /\ y \in Nat
      BY <1>1, <2>2, <2>3
    <3>2. 5 \in 0..12
      OBVIOUS
    <3>3. ASSUME NEW z \in Nat, full = [loop EXCEPT !.buffer = z, !.bitsLeft = 5]
          PROVE  /\ full.buffer = z /\ full.next = loop.next /\ full.bitsLeft = 5
                 /\ full.text = loop.text /\ full \in Loop(n)
      <4> HIDE DEF n, full
      <4> QED
        BY <3>1, <3>2, <3>3 DEF Loop
    <3> HIDE DEF y, n, full, p, T
    <3> QED
      BY <2>1, <3>1, <3>3
  <2>5. Taken(full) = T /\ t = 8 * n /\ T > 8 * n /\ T <= 8 * n + 4
    <3>1. t = 8 * n
      BY <2>2 DEF Carry
    <3>2. Taken(full) = 5 * Len(loop.text) + 5 /\ t = 5 * Len(loop.text) + b
      BY <2>4 DEF Taken
    <3>3. b \in Int /\ n \in Int /\ T = t + p /\ p = 5 - b /\ Len(loop.text) \in Int
      BY <1>1
    <3> HIDE DEF full, t, n, b, p, T
    <3> QED
      BY <2>2, <3>1, <3>2, <3>3
  <2>6. \A k \in 0..(p - 1) : BitOf(y, k) = BitAt(data, T - 1 - k)
    <3> SUFFICES ASSUME NEW k \in 0..(p - 1) PROVE BitOf(y, k) = BitAt(data, T - 1 - k)
      OBVIOUS
    <3>1. ~(T - 1 - k < 8 * n)
      BY <1>1, <2>2, <2>5
    <3>2. BitAt(data, T - 1 - k) = 0
      BY <3>1 DEF BitAt
    <3> QED
      BY <2>3, <3>2
  <2>7. \A k \in p..4 : BitOf(y, k) = BitAt(data, T - 1 - k)
    <3> SUFFICES ASSUME NEW k \in p..4 PROVE BitOf(y, k) = BitAt(data, T - 1 - k)
      OBVIOUS
    <3>1. k - p \in 0..(b - 1) /\ T - 1 - k = t - 1 - (k - p)
      <4>1. b \in Int /\ t \in Int
        BY <1>1
      <4> HIDE DEF b, t
      <4> QED
        BY <4>1
    <3>2. BitOf(x, k - p) = BitAt(data, t - 1 - (k - p))
      BY <3>1 DEF Carry
    <3> QED
      BY <2>3, <3>1, <3>2
  <2> HIDE DEF p, y, T, full
  <2>8. \A k \in 0..(full.bitsLeft - 1) : BitOf(full.buffer, k) = BitAt(data, Taken(full) - 1 - k)
    <3> SUFFICES ASSUME NEW k \in 0..(full.bitsLeft - 1)
                 PROVE  BitOf(full.buffer, k) = BitAt(data, Taken(full) - 1 - k)
      OBVIOUS
    <3>1. k \in 0..(p - 1) \/ k \in p..4
      BY <2>2, <2>4
    <3> QED
      BY <2>4, <2>5, <2>6, <2>7, <3>1
  <2>9. \A i \in 0..(5 * Len(full.text) - 1) : Bit(full.text, 5, i) = BitAt(data, i)
    BY <2>4 DEF Carry
  <2>10. full.buffer < 2^full.bitsLeft
    BY <2>3, <2>4
  <2>11. /\ full.next = n /\ full.bitsLeft \in {0, 5}
         /\ Taken(full) > 8 * full.next /\ Taken(full) <= 8 * full.next + 4
    BY <2>4, <2>5
  <2> QED
    BY <2>4, <2>8, <2>9, <2>10, <2>11 DEF Carry, full
<1> QED
  BY <1>1, <1>2, <1>3, <1>4

\* Taking a digit moves the top five bits to the end of the text.
LEMMA TakeCarries ==
    ASSUME NEW data \in Seq(0..255), NEW loop, Carry(data, loop), loop.bitsLeft \in 5..12
    PROVE  LET rest == TakeDigit(loop)
           IN  Carry(data, rest) /\ rest.bitsLeft \in 0..7 /\ Len(rest.text) = Len(loop.text) + 1
<1> DEFINE n == Len(data)
           rest == TakeDigit(loop)
           x == loop.buffer
           r == loop.bitsLeft - 5
           l == Len(loop.text)
           t == Taken(loop)
           digit == x \div 2^r
           y == x % 2^r
<1>1. /\ loop \in Loop(n) /\ x \in Nat /\ r \in 0..7 /\ x < 2^(r + 5) /\ l \in Nat
      /\ loop.text \in Seq(0..31) /\ t = 5 * l + 5 + r /\ loop.bitsLeft = r + 5
  <2>1. r + 5 = loop.bitsLeft
    OBVIOUS
  <2> QED
    BY <2>1 DEF Carry, Loop, Taken
<1>2. /\ digit \in 0..31
      /\ \A k \in 0..4 : BitOf(digit, k) = BitOf(x, k + r)
      /\ y \in Nat /\ y < 2^r
      /\ \A k \in 0..(r - 1) : BitOf(y, k) = BitOf(x, k)
  <2> HIDE DEF r
  <2> QED
    BY <1>1, TakeBits
<1>3. rest = [loop EXCEPT !.text = Append(loop.text, digit), !.buffer = y, !.bitsLeft = r]
  BY DEF TakeDigit, Digit
<1> HIDE DEF rest, digit, y
<1>4. /\ rest.text = Append(loop.text, digit) /\ rest.buffer = y /\ rest.bitsLeft = r
      /\ rest.next = loop.next /\ rest \in Loop(n) /\ Len(rest.text) = l + 1
  <2> DEFINE text == Append(loop.text, digit)
  <2>1. text \in Seq(0..31) /\ Len(text) = l + 1
    BY <1>1, <1>2
  <2>2. y \in Nat /\ r \in 0..12
    BY <1>1, <1>2
  <2>3. loop \in Loop(n) /\ rest = [loop EXCEPT !.text = text, !.buffer = y, !.bitsLeft = r]
    BY <1>1, <1>3
  <2> HIDE DEF text, r, l, n
  <2>4. /\ rest.text = text /\ rest.buffer = y /\ rest.bitsLeft = r
        /\ rest.next = loop.next /\ rest \in Loop(n)
    BY <2>1, <2>2, <2>3 DEF Loop
  <2> QED
    BY <2>1, <2>4 DEF text
<1>5. Taken(rest) = t
  BY <1>1, <1>4 DEF Taken
<1>6. \A k \in 0..(r - 1) : BitOf(y, k) = BitAt(data, t - 1 - k)
  <2> SUFFICES ASSUME NEW k \in 0..(r - 1) PROVE BitOf(y, k) = BitAt(data, t - 1 - k)
    OBVIOUS
  <2>1. k \in 0..(loop.bitsLeft - 1)
    BY <1>1
  <2>2. BitOf(x, k) = BitAt(data, t - 1 - k)
    BY <2>1 DEF Carry
  <2> QED
    BY <1>2, <2>2
<1>7. \A i \in 0..(5 * l - 1) : Bit(rest.text, 5, i) = BitAt(data, i)
  <2> SUFFICES ASSUME NEW i \in 0..(5 * l - 1) PROVE Bit(rest.text, 5, i) = BitAt(data, i)
    OBVIOUS
  <2>1. i \div 5 + 1 \in 1..l
    BY <1>1
  <2>2. rest.text[i \div 5 + 1] = loop.text[i \div 5 + 1]
    BY <1>1, <1>4, <2>1
  <2>3. Bit(rest.text, 5, i) = Bit(loop.text, 5, i)
    BY <2>2 DEF Bit
  <2> QED
    BY <2>3 DEF Carry
<1>8. \A m \in 0..4 : Bit(rest.text, 5, 5 * l + m) = BitAt(data, 5 * l + m)
  <2> SUFFICES ASSUME NEW m \in 0..4 PROVE Bit(rest.text, 5, 5 * l + m) = BitAt(data, 5 * l + m)
    OBVIOUS
  <2>1. rest.text[l + 1] = digit
    BY <1>1, <1>4
  <2>2. Bit(rest.text, 5, 5 * l + m) = BitOf(rest.text[l + 1], 5 - 1 - m)
    <3>1. m \in 0..(5 - 1)
      OBVIOUS
    <3> QED
      BY <1>1, <3>1, BitIs
  <2>3. 5 - 1 - m \in 0..4 /\ (5 - 1 - m) + r \in 0..(loop.bitsLeft - 1)
        /\ t - 1 - ((5 - 1 - m) + r) = 5 * l + m
    <3> HIDE DEF l, t, r
    <3> QED
      BY <1>1
  <2>4. BitOf(digit, 5 - 1 - m) = BitOf(x, (5 - 1 - m) + r)
    BY <1>2, <2>3
  <2>5. BitOf(x, (5 - 1 - m) + r) = BitAt(data, t - 1 - ((5 - 1 - m) + r))
    BY <2>3 DEF Carry
  <2> QED
    BY <2>1, <2>2, <2>3, <2>4, <2>5
<1>9. \A i \in 0..(5 * Len(rest.text) - 1) : Bit(rest.text, 5, i) = BitAt(data, i)
  <2> SUFFICES ASSUME NEW i \in 0..(5 * Len(rest.text) - 1)
               PROVE  Bit(rest.text, 5, i) = BitAt(data, i)
    OBVIOUS
  <2>1. CASE i < 5 * l
    BY <1>1, <1>7, <2>1
  <2>2. CASE ~(i < 5 * l)
    <3>1. i - 5 * l \in 0..4 /\ 5 * l + (i - 5 * l) = i
      <4> HIDE DEF l
      <4> QED
        BY <1>1, <1>4, <2>2
    <3> QED
      BY <1>8, <3>1
  <2> QED
    BY <2>1, <2>2
<1>10. \/ Taken(rest) = 8 * rest.next
       \/ /\ rest.next = Len(data) /\ rest.bitsLeft \in {0, 5}
          /\ Taken(rest) > 8 * rest.next /\ Taken(rest) <= 8 * rest.next + 4
  <2>1. \/ t = 8 * loop.next
        \/ /\ loop.next = Len(data) /\ loop.bitsLeft \in {0, 5}
           /\ t > 8 * loop.next /\ t <= 8 * loop.next + 4
    BY DEF Carry
  <2>2. loop.bitsLeft \in {0, 5} => rest.bitsLeft \in {0, 5}
    <3>1. rest.bitsLeft = r /\ r \in 0..7 /\ loop.bitsLeft = r + 5
      BY <1>1, <1>4
    <3> HIDE DEF r
    <3> QED
      BY <3>1
  <2>3. Taken(rest) = t /\ rest.next = loop.next
    BY <1>4, <1>5
  <2> HIDE DEF t, rest
  <2> QED
    BY <2>1, <2>2, <2>3, Zenon
<1>11. rest.buffer < 2^rest.bitsLeft
  BY <1>2, <1>4
<1>12. \A k \in 0..(rest.bitsLeft - 1) : BitOf(rest.buffer, k) = BitAt(data, Taken(rest) - 1 - k)
  BY <1>4, <1>5, <1>6
<1> QED
  BY <1>1, <1>4, <1>9, <1>10, <1>11, <1>12 DEF Carry, rest

\* What the loop can be between two rounds.
Loops(data) == {loop \in Loop(Len(data)) : Carry(data, loop) /\ loop.bitsLeft \in 0..8}

\* The first byte is in the buffer when it begins.
Begin(data) == [buffer |-> data[1], next |-> 1, bitsLeft |-> 8, text |-> <<>>]

\* All bits are taken over, and all are in the text.
Over(data, loop) == loop.bitsLeft = 0 /\ loop.next = Len(data)

\* The loop begins with the first byte in the buffer.
LEMMA BeginCarries ==
    ASSUME NEW data \in Seq(0..255), data # <<>>
    PROVE  Begin(data) \in Loops(data)
<1> DEFINE n == Len(data)
           loop == Begin(data)
           d == data[1]
<1>1. n \in Nat /\ 1 \in 1..n
  OBVIOUS
<1>2. d \in 0..255
  BY <1>1, ElementOf, Zenon
<1>3. /\ loop.buffer = d /\ loop.next = 1 /\ loop.bitsLeft = 8
      /\ loop.text = <<>> /\ Len(loop.text) = 0
  BY DEF Begin
<1>4. loop \in Loop(n)
  <2>1. d \in Nat /\ 8 \in 0..12 /\ <<>> \in Seq(0..31)
    <3> HIDE DEF d
    <3> QED
      BY <1>2
  <2>2. loop = [buffer |-> d, next |-> 1, bitsLeft |-> 8, text |-> <<>>]
    BY DEF Begin
  <2> HIDE DEF d, n, loop
  <2> QED
    BY <1>1, <2>1, <2>2 DEF Loop
<1> HIDE DEF loop
<1>5. Taken(loop) = 8
  BY <1>3 DEF Taken
<1>6. \A k \in 0..7 : BitOf(d, k) = BitAt(data, 8 - 1 - k)
  <2> SUFFICES ASSUME NEW k \in 0..7 PROVE BitOf(d, k) = BitAt(data, 8 - 1 - k)
    OBVIOUS
  <2>1. 8 - 1 - k = 8 * 0 + (7 - k) /\ 7 - k \in 0..(8 - 1) /\ 0 + 1 = 1
        /\ 8 - 1 - (7 - k) = k /\ 8 - 1 - k < 8 * n
    BY <1>1
  <2>2. BitAt(data, 8 - 1 - k) = Bit(data, 8, 8 - 1 - k)
    BY <2>1 DEF BitAt
  <2>3. Bit(data, 8, 8 * 0 + (7 - k)) = BitOf(data[0 + 1], 8 - 1 - (7 - k))
    BY <2>1, BitIs
  <2> QED
    BY <2>1, <2>2, <2>3
<1> HIDE DEF d, n
<1>7. loop.buffer < 2^loop.bitsLeft
  BY <1>2, <1>3
<1>8. \A i \in 0..(5 * Len(loop.text) - 1) : Bit(loop.text, 5, i) = BitAt(data, i)
  BY <1>3
<1>9. \A k \in 0..(loop.bitsLeft - 1) : BitOf(loop.buffer, k) = BitAt(data, Taken(loop) - 1 - k)
  BY <1>3, <1>5, <1>6
<1>10. Taken(loop) = 8 * loop.next
  BY <1>3, <1>5
<1>11. loop.bitsLeft \in 0..8
  BY <1>3
<1>12. Carry(data, loop)
  BY <1>4, <1>7, <1>8, <1>9, <1>10, Zenon DEF Carry, n
<1> QED
  BY <1>4, <1>11, <1>12 DEF Loops, loop, n

\* A round adds a digit, unless all bits are there.
LEMMA RoundCarries ==
    ASSUME NEW data \in Seq(0..255), NEW loop \in Loops(data)
    PROVE  /\ Round(data, loop) \in Loops(data)
           /\ \/ Over(data, loop) /\ Round(data, loop) = loop
              \/ Len(Round(data, loop).text) = Len(loop.text) + 1
<1>1. Carry(data, loop) /\ loop.bitsLeft \in 0..8 /\ loop.next \in 1..Len(data) /\ Len(data) \in Nat
  BY DEF Loops, Loop
<1>2. CASE loop.bitsLeft > 0 \/ loop.next < Len(data)
  <2> DEFINE full == Refill(data, loop)
             rest == TakeDigit(full)
  <2>1. Round(data, loop) = rest
    BY <1>2 DEF Round
  <2>2. Carry(data, full) /\ full.bitsLeft \in 5..12 /\ full.text = loop.text
    BY <1>1, <1>2, RefillCarries
  <2> HIDE DEF full
  <2>3. Carry(data, rest) /\ rest.bitsLeft \in 0..7 /\ Len(rest.text) = Len(full.text) + 1
    BY <2>2, TakeCarries
  <2> HIDE DEF rest
  <2>4. rest \in Loops(data)
    BY <2>3 DEF Loops, Carry
  <2> QED
    BY <2>1, <2>2, <2>3, <2>4
<1>3. CASE ~(loop.bitsLeft > 0 \/ loop.next < Len(data))
  BY <1>1, <1>3 DEF Round, Over
<1> QED
  BY <1>2, <1>3

\* The loop of base32_encode, round by round.
LEMMA RoundsOf ==
    ASSUME NEW data \in Seq(0..255), data # <<>>, NEW m \in Nat
    PROVE  \E h : /\ h[0] = Begin(data)
                  /\ \A i \in 1..m : h[i] = Round(data, h[i - 1])
                  /\ base32_encode(data, m) = IF Len(h[m].text) >= m THEN <<>> ELSE h[m].text
<1> DEFINE X == Loops(data)
           g == [loop \in X |-> Round(data, loop)]
           next(f) == [i \in 0..m |-> IF i = 0 THEN Begin(data) ELSE Round(data, f[i - 1])]
           after == CHOOSE f : f = next(f)
<1>1. Begin(data) \in X
  BY BeginCarries
<1>2. \A loop \in X : Round(data, loop) \in X
  BY RoundCarries
<1> HIDE DEF X
<1>3. g \in [X -> X]
  BY <1>2
<1>4. base32_encode(data, m) = IF Len(after[m].text) >= m THEN <<>> ELSE after[m].text
  <2>1. base32_encode(data, m) =
          IF data = <<>> \/ Len(after[m].text) >= m THEN <<>> ELSE after[m].text
    BY DEF base32_encode, Begin
  <2> HIDE DEF after
  <2> QED
    BY <2>1, Zenon
<1>5. PICK h \in [0..m -> X] : Iterates(h, g, Begin(data), m)
  BY <1>1, <1>3, IterationExists
<1>6. h = next(h)
  <2>1. ASSUME NEW i \in 0..m, i # 0 PROVE h[i] = Round(data, h[i - 1])
    <3>1. i \in 1..m /\ i - 1 \in 0..m
      BY <2>1
    <3>2. h[i - 1] \in X /\ h[i] = g[h[i - 1]]
      BY <1>5, <3>1 DEF Iterates
    <3> QED
      BY <3>2
  <2>2. h[0] = Begin(data)
    BY <1>5 DEF Iterates
  <2> QED
    BY <2>1, <2>2
<1>7. after = next(after)
  BY <1>6
<1> HIDE DEF after
<1>8. after[0] = Begin(data) /\ \A i \in 1..m : after[i] = Round(data, after[i - 1])
  <2>1. 0 \in 0..m /\ \A i \in 1..m : i \in 0..m /\ i # 0
    OBVIOUS
  <2> QED
    BY <1>7, <2>1
<1> QED
  BY <1>4, <1>8

\* What is printed for any bytes, if it fits: a digit for every five bits begun, with
\* each bit in its place.
LEMMA Base32KeepsBits ==
    ASSUME NEW data \in Seq(0..255), data # <<>>, NEW m \in Nat, 8 * Len(data) + 4 < 5 * m
    PROVE  LET text == base32_encode(data, m)
           IN  /\ text \in Seq(0..31)
               /\ Len(text) = (8 * Len(data) + 4) \div 5
               /\ \A i \in 0..(5 * Len(text) - 1) : Bit(text, 5, i) = BitAt(data, i)
<1> DEFINE X == Loops(data)
           n == Len(data)
<1>1. PICK h : /\ h[0] = Begin(data)
               /\ \A i \in 1..m : h[i] = Round(data, h[i - 1])
               /\ base32_encode(data, m) = IF Len(h[m].text) >= m THEN <<>> ELSE h[m].text
  BY RoundsOf
<1> DEFINE Good == {i \in Nat : h[i] \in X /\ (Len(h[i].text) = i \/ Over(data, h[i]))}
           id == [i \in 0..m |-> i]
<1>2. 0 \in Good
  <2>1. Len(Begin(data).text) = 0
    BY DEF Begin
  <2> QED
    BY <1>1, <2>1, BeginCarries
<1>3. ASSUME NEW i \in 1..m, i - 1 \in Good PROVE i \in Good
  <2>1. /\ h[i - 1] \in X /\ h[i] = Round(data, h[i - 1])
        /\ Len(h[i - 1].text) = i - 1 \/ Over(data, h[i - 1])
    BY <1>1, <1>3
  <2>2. /\ h[i] \in X
        /\ \/ Over(data, h[i - 1]) /\ h[i] = h[i - 1]
           \/ Len(h[i].text) = Len(h[i - 1].text) + 1 /\ ~Over(data, h[i - 1])
    <3>1. ASSUME Over(data, h[i - 1]) PROVE h[i] = h[i - 1]
      BY <2>1, <3>1 DEF Round, Over, Loops, Loop
    <3> QED
      BY <2>1, <3>1, RoundCarries, Zenon
  <2>3. (i - 1) + 1 = i
    OBVIOUS
  <2> QED
    BY <2>1, <2>2, <2>3
<1>4. m \in Good
  <2> HIDE DEF Good
  <2>1. id[0] \in Good /\ \A i \in 1..m : id[i - 1] \in Good => id[i] \in Good
    <3>1. \A i \in 1..m : i - 1 \in 0..m /\ i \in 0..m
      OBVIOUS
    <3> QED
      BY <1>2, <1>3, <3>1
  <2>2. id[m] = m
    OBVIOUS
  <2> HIDE DEF id
  <2>3. id[m] \in Good
    BY <2>1, IterationStays, Zenon
  <2> QED
    BY <2>2, <2>3
<1> DEFINE text == h[m].text
           l == Len(text)
<1>5. Carry(data, h[m]) /\ text \in Seq(0..31) /\ l \in Nat /\ n \in Nat
      /\ h[m].bitsLeft \in 0..8 /\ h[m].next \in 1..n
  BY <1>4 DEF Loops, Loop
<1>6. /\ Taken(h[m]) = 5 * l + h[m].bitsLeft
      /\ Taken(h[m]) <= 8 * h[m].next + 4 /\ (h[m].next = n => Taken(h[m]) >= 8 * n)
  <2>1. Taken(h[m]) = 5 * l + h[m].bitsLeft
    BY DEF Taken
  <2>2. \/ Taken(h[m]) = 8 * h[m].next
        \/ h[m].next = n /\ Taken(h[m]) > 8 * h[m].next /\ Taken(h[m]) <= 8 * h[m].next + 4
    BY <1>5 DEF Carry
  <2> HIDE DEF l, text, n
  <2>3. Taken(h[m]) \in Nat /\ h[m].next \in Nat
    <3>1. \A x \in Nat, y \in 0..8 : 5 * x + y \in Nat
      OBVIOUS
    <3>2. l \in Nat /\ h[m].bitsLeft \in 0..8 /\ h[m].next \in Nat
      BY <1>5
    <3> QED
      BY <2>1, <3>1, <3>2
  <2> DEFINE T == Taken(h[m])
             x == h[m].next
  <2>4. T = 8 * x \/ (x = n /\ T > 8 * x /\ T <= 8 * x + 4)
    BY <2>2, Zenon
  <2>5. T <= 8 * x + 4 /\ (x = n => T >= 8 * n)
    <3>1. T \in Nat /\ x \in Nat
      BY <2>3
    <3> HIDE DEF T, x
    <3> QED
      BY <2>4, <3>1
  <2> QED
    BY <2>1, <2>5, Zenon
<1>7. l # m
  <2> DEFINE T == Taken(h[m])
             b == h[m].bitsLeft
             x == h[m].next
  <2>1. l \in Nat /\ n \in Nat /\ b \in 0..8 /\ x \in 1..n
    BY <1>5
  <2>2. T = 5 * l + b /\ T <= 8 * x + 4 /\ 8 * n + 4 < 5 * m
    BY <1>6
  <2> HIDE DEF l, text, n, T, b, x
  <2> QED
    BY <2>1, <2>2
<1>8. h[m].bitsLeft = 0 /\ h[m].next = n
  BY <1>4, <1>7 DEF Over
<1>9. 5 * l >= 8 * n /\ 5 * l <= 8 * n + 4
  <2> DEFINE T == Taken(h[m])
             x == h[m].next
  <2>1. l \in Nat /\ n \in Nat /\ x = n
    BY <1>5, <1>8
  <2>2. T = 5 * l /\ T <= 8 * x + 4 /\ (x = n => T >= 8 * n)
    <3>1. T = 5 * l + h[m].bitsLeft /\ h[m].bitsLeft = 0 /\ 5 * l + 0 = 5 * l
      <4>1. l \in Nat => 5 * l + 0 = 5 * l
        <5> HIDE DEF l
        <5> QED
          OBVIOUS
      <4> QED
        BY <1>5, <1>6, <1>8, <4>1, Zenon
    <3> QED
      BY <1>6, <3>1, Zenon
  <2> HIDE DEF l, text, n, T, x
  <2> QED
    BY <2>1, <2>2
<1>10. l < m /\ l = (8 * n + 4) \div 5
  <2>1. 8 * n + 4 < 5 * m
    OBVIOUS
  <2> HIDE DEF l, text, n
  <2> QED
    BY <1>5, <1>9, <2>1
<1>11. base32_encode(data, m) = text
  <2>1. ~(l >= m)
    <3> HIDE DEF l, text, n
    <3> QED
      BY <1>5, <1>10
  <2> QED
    BY <1>1, <2>1
<1>12. \A i \in 0..(5 * l - 1) : Bit(text, 5, i) = BitAt(data, i)
  BY <1>5 DEF Carry
<1> HIDE DEF text
<1> QED
  BY <1>5, <1>10, <1>11, <1>12

-----------------------------------------------------------------------------
(* Addresses: what was found for one is as long as one.                      *)

\* Elements are searched of the two arrays that are not kept.
ElementQuery == {q \in QueryType : q.element > 0 => q.key \in {"apat", "apaa"}}

\* An account is as long as one.
IsSized(f) == IsAddress(f) => Len(f.bytes) = ACCT_SIZE

\* What every step keeps besides SearchInv.
AddressInv ==
    /\ todo \in Seq(ElementQuery)
    /\ \A f \in found : IsSized(f)

\* No list of queries asks for an element of another array.
LEMMA ElementQueries ==
    /\ \A type \in TxTypes : ParseQueries(type) \in Seq(ElementQuery)
    /\ \A key \in {"apat", "apaa"}, n \in Nat : Elements(key, n) \in Seq(ElementQuery)
    /\ <<Query(Required("type"))>> \in Seq(ElementQuery)
    /\ <<Query(Required("votelst"))>> \in Seq(ElementQuery)
<1>1. ASSUME NEW type \in TxTypes PROVE ParseQueries(type) \in Seq(ElementQuery)
  <2> DEFINE s == ParseQueries(type)
  <2>1. s \in Seq(QueryType)
    BY QueriesType
  <2>2. \A i \in DOMAIN s : s[i].element = 0
    BY Zenon DEF ParseQueries, Query
  <2> HIDE DEF s
  <2>3. Len(s) \in Nat /\ DOMAIN s = 1..Len(s) /\ \A i \in 1..Len(s) : s[i] \in QueryType
    BY <2>1
  <2>4. \A i \in 1..Len(s) : s[i] \in ElementQuery
    BY <2>2, <2>3 DEF ElementQuery
  <2>5. s = [i \in 1..Len(s) |-> s[i]]
    BY <2>1
  <2> QED
    BY <2>3, <2>4, <2>5 DEF s
<1>2. ASSUME NEW key \in {"apat", "apaa"}, NEW n \in Nat
      PROVE  Elements(key, n) \in Seq(ElementQuery)
  <2>1. \A i \in 1..n : [key |-> key, required |-> TRUE, element |-> i] \in ElementQuery
    BY KeyNames DEF QueryType, ElementQuery
  <2> QED
    BY <2>1 DEF Elements
<1>3. Query(Required("type")) \in ElementQuery /\ Query(Required("votelst")) \in ElementQuery
  BY KeyNames DEF Query, Required, QueryType, ElementQuery
<1> QED
  BY <1>1, <1>2, <1>3

\* A value of a fixed size has that size.
LEMMA BinFixedSize ==
    ASSUME NEW b \in Seq(Byte), NEW at \in 0..Len(b), NEW size \in Nat,
           readBinFixed(b, at, size).ok
    PROVE  Len(Contents(b, readBinFixed(b, at, size))) = size
<1> DEFINE length == readSize(b, at, {}, 0, BIN8, 1)
           r == readBinFixed(b, at, size)
           p == length.at
<1>1. Inside(b, length)
  BY SizeStays
<1>2. r = IF ~length.ok \/ length.n # size THEN Fail(at) ELSE readBytes(b, p, size)
  BY DEF readBinFixed
<1>3. p \in 0..Len(b)
  BY <1>1 DEF Inside
<1> HIDE DEF length, p
<1>4. r = IF Avail(b, p, size) THEN Read(p, p + size, size) ELSE Fail(p)
  <2>1. r # Fail(at)
    <3>1. ~Fail(at).ok
      BY DEF Fail
    <3> QED
      BY <3>1
  <2> QED
    BY <1>2, <2>1 DEF readBytes
<1>5. Avail(b, p, size) /\ r.from = p /\ r.at = p + size
  BY <1>4 DEF Fail, Read
<1> HIDE DEF r
<1>6. p + 1 \in 1..(Len(b) + 1) /\ p + size \in 0..Len(b)
  BY <1>3, <1>5 DEF Avail
<1>7. Len(SubSeq(b, p + 1, p + size)) = size
  BY <1>3, <1>6
<1>8. Contents(b, r) = SubSeq(b, p + 1, p + size)
  BY <1>5 DEF Contents
<1> QED
  BY <1>7, <1>8 DEF r

\* So has an account of the array.
LEMMA AccountSize ==
    ASSUME NEW b \in Seq(Byte), NEW at \in 0..Len(b), NEW idx \in Nat, NEW n,
           getAccount(b, at, idx, n).ok
    PROVE  Len(Contents(b, getAccount(b, at, idx, n))) = ACCT_SIZE
<1> DEFINE reader == [p \in Offsets(b) |-> readBinFixed(b, p, ACCT_SIZE)]
           size == readArraySize(b, at)
           some == [size EXCEPT !.n = idx + 1]
           r == getAccount(b, at, idx, n)
<1>1. \A p \in Offsets(b) : Inside(b, reader[p])
  BY BinFixedStays DEF Offsets
<1>2. Inside(b, some) /\ some.n = idx + 1
  <2>1. Inside(b, size)
    BY ArraySizeStays
  <2> HIDE DEF size
  <2> QED
    BY <2>1 DEF Inside
<1>3. r = Times(some, reader)
  <2>1. \/ r = Fail(at) \/ r = Times(some, reader)
    BY Zenon DEF getAccount, getElement
  <2>2. ~Fail(at).ok
    BY DEF Fail
  <2> QED
    BY <2>1, <2>2
<1> HIDE DEF some
<1>4. PICK read : /\ read[0] = some /\ Times(some, reader) = read[some.n]
                  /\ \A i \in 1..some.n : read[i] = ReadsOn(reader, read[i - 1])
                  /\ \A i \in 0..some.n : Inside(b, read[i])
  <2> HIDE DEF reader
  <2>1. ReadInSteps(b, some, reader)
    BY <1>1, <1>2, TimesSteps
  <2> QED
    BY <2>1 DEF ReadInSteps
<1>5. r = ReadsOn(reader, read[idx]) /\ Inside(b, read[idx])
  <2>1. idx + 1 \in 1..some.n /\ idx \in 0..some.n /\ (idx + 1) - 1 = idx
    BY <1>2
  <2> QED
    BY <1>2, <1>3, <1>4, <2>1
<1>6. read[idx].ok /\ read[idx].at \in 0..Len(b)
  BY <1>5 DEF ReadsOn, Inside
<1>7. r = readBinFixed(b, read[idx].at, ACCT_SIZE)
  BY <1>5, <1>6 DEF ReadsOn, Offsets
<1> HIDE DEF r
<1>8. ACCT_SIZE \in Nat
  BY AddressAssumption DEF PK_LEN_25519
<1> QED
  BY <1>6, <1>7, <1>8, BinFixedSize DEF r

\* What is found for an address has its size.
LEMMA SizedValue ==
    ASSUME NEW key \in AddressKeys, NEW at \in 0..Len(buffer), buffer \in Seq(Byte),
           readValue(buffer, key, at).ok
    PROVE  Len(Contents(buffer, readValue(buffer, key, at))) = ACCT_SIZE
<1>1. key \in DOMAIN BinSize /\ BinSize[key] = ACCT_SIZE /\ ACCT_SIZE \in Nat
  BY AddressAssumption DEF PK_LEN_25519
<1>2. readValue(buffer, key, at) = readBinFixed(buffer, at, BinSize[key])
  BY <1>1, SearchAssumption DEF readValue
<1> QED
  BY <1>1, <1>2, BinFixedSize

\* Whichever way a value was found.
LEMMA AddressStep ==
    ASSUME SearchInv, AddressInv, Step
    PROVE  AddressInv'
<1>1. /\ buffer \in Seq(Byte) /\ offset \in 0..Len(buffer) /\ num \in Sizes
  BY DEF SearchInv, SearchTypeOK, OffsetInWindow, Byte, Sizes
<1>2. todo \in Seq(ElementQuery) /\ \A f \in found : IsSized(f)
  BY DEF AddressInv
<1>3. Searching => Want \in ElementQuery /\ Tail(todo) \in Seq(ElementQuery)
  BY <1>2 DEF SearchInv, Want
<1>4. ASSUME NEW queries \in Seq(ElementQuery), NEW sizes \in Sizes, Continue(queries, sizes)
      PROVE  todo' \in Seq(ElementQuery)
  <2>1. sizes.apat \in Nat /\ sizes.apaa \in Nat
    BY DEF Sizes, MAX_ARG
  <2>2. /\ Elements("apat", sizes.apat) \in Seq(ElementQuery)
        /\ Elements("apaa", sizes.apaa) \in Seq(ElementQuery)
    BY <2>1, ElementQueries
  <2> DEFINE all == IF queries = <<>> /\ ~validating
                    THEN Elements("apat", sizes.apat) \o Elements("apaa", sizes.apaa)
                    ELSE queries
  <2>3. Search(all, buffer)
    BY <1>4 DEF Continue
  <2>4. all \in Seq(ElementQuery)
    BY <2>2
  <2> HIDE DEF all
  <2>5. todo' = all
    BY <2>3, Zenon DEF Search
  <2> QED
    BY <2>4, <2>5
<1>5. ASSUME todo' = todo, found' = found PROVE AddressInv'
  BY <1>2, <1>5 DEF AddressInv, IsSized
<1>6. ASSUME NEW queries \in Seq(ElementQuery), NEW sizes \in Sizes, Continue(queries, sizes),
             \A f \in found' : IsSized(f)
      PROVE  AddressInv'
  BY <1>4, <1>6 DEF AddressInv
<1>7. CASE NextKey
  BY <1>5, <1>7 DEF NextKey
<1>8. CASE SkipValue
  BY <1>5, <1>8 DEF SkipValue
<1>9. CASE SearchFails
  <2>1. Searching /\ (Refuse \/ (Continue(Tail(todo), num) /\ found' = found))
    BY <1>9 DEF SearchFails, Searching
  <2> QED
    BY <1>1, <1>2, <1>3, <1>5, <1>6, <2>1 DEF Refuse
<1>10. CASE ReadType
  <2> DEFINE text == readString(buffer, offset, 10)
  <2>1. \/ Refuse
        \/ /\ \E t \in TxTypes : Continue(ParseQueries(t), num)
           /\ found' = {Value(buffer, "type", 0, text)}
    BY <1>10, Zenon DEF ReadType
  <2> HIDE DEF text
  <2>2. IsSized(Value(buffer, "type", 0, text))
    BY DEF IsSized, IsAddress, Value, AddressKeys, Roles
  <2> QED
    BY <1>1, <1>5, <1>6, <2>1, <2>2, ElementQueries DEF Refuse
<1>11. CASE ReadField
  <2> DEFINE key == Want.key
             value == readValue(buffer, key, offset)
             last == IF key = "votefst" THEN <<Query(Required("votelst"))>> ELSE <<>>
             more == IF value.ok THEN {Value(buffer, key, 0, value)} ELSE {}
             sizes == IF key \in DOMAIN num THEN [num EXCEPT ![key] = value.n] ELSE num
  <2>1. /\ Searching
        /\ Refuse \/ (found' = found \union more /\ Continue(last \o Tail(todo), sizes))
    BY <1>11, Zenon DEF ReadField, Searching
  <2>2. Inside(buffer, value) /\ (key \in {"apat", "apaa"} => value.n <= MAX_ARG)
    BY <1>1, ValueStays
  <2>3. last \in Seq(ElementQuery)
    BY ElementQueries
  <2>4. value.ok => IsSized(Value(buffer, key, 0, value))
    <3> DEFINE bytes == Contents(buffer, value)
    <3>1. ASSUME value.ok, key \in AddressKeys PROVE Len(bytes) = ACCT_SIZE
      BY <1>1, <3>1, SizedValue
    <3> HIDE DEF key, value, bytes
    <3>2. Value(buffer, key, 0, value) = [key |-> key, element |-> 0, bytes |-> bytes]
      BY DEF Value, bytes
    <3> QED
      BY <3>1, <3>2 DEF IsSized, IsAddress
  <2> HIDE DEF key, value, last
  <2>5. \A f \in more : IsSized(f)
    BY <2>4
  <2>6. sizes \in Sizes
    <3>1. value.n \in Nat /\ MAX_ARG \in Nat
      BY <2>2 DEF Inside, MAX_ARG
    <3>2. key \in {"apat", "apaa"} => value.n \in 0..MAX_ARG
      BY <2>2, <3>1
    <3> QED
      BY <1>1, <3>2 DEF Sizes
  <2>7. Searching => last \o Tail(todo) \in Seq(ElementQuery)
    BY <1>3, <2>3
  <2> HIDE DEF more, sizes
  <2>8. CASE Refuse
    BY <1>5, <2>8 DEF Refuse
  <2>9. CASE found' = found \union more /\ Continue(last \o Tail(todo), sizes)
    <3>1. \A f \in found' : IsSized(f)
      BY <1>2, <2>5, <2>9
    <3> QED
      BY <1>6, <2>1, <2>6, <2>7, <2>9, <3>1
  <2> QED
    BY <2>1, <2>8, <2>9
<1>12. CASE OpenParams
  <2>1. todo' = todo /\ found' = found
    BY <1>12, Zenon DEF OpenParams, Refuse
  <2> QED
    BY <1>5, <2>1
<1>13. CASE ReadParam
  <2> DEFINE key == readString(buffer, offset, 10)
  <2>1. key.at \in 0..Len(buffer)
    BY <1>1, StringStays DEF Inside
  <2>2. todo' = todo
    BY <1>13, Zenon DEF ReadParam, Refuse
  <2>3. \/ found' = found
        \/ \E p \in Params :
             /\ readValue(buffer, p, key.at).ok
             /\ found' = {f \in found : f.key # p} \union {Value(buffer, p, 0, readValue(buffer, p, key.at))}
    <3>1. {p \in Params : key.ok /\ KeyIs(Contents(buffer, key), p)} \subseteq Params
      OBVIOUS
    <3> QED
      BY <1>13, Zenon DEF ReadParam, Refuse
  <2> HIDE DEF key
  <2>4. ASSUME NEW p \in Params, readValue(buffer, p, key.at).ok,
               found' = {f \in found : f.key # p} \union {Value(buffer, p, 0, readValue(buffer, p, key.at))}
        PROVE  \A f \in found' : IsSized(f)
    <3> DEFINE value == readValue(buffer, p, key.at)
               bytes == Contents(buffer, value)
    <3>1. p \in AddressKeys => Len(bytes) = ACCT_SIZE
      BY <1>1, <2>1, <2>4, SizedValue
    <3> HIDE DEF bytes
    <3>2. Value(buffer, p, 0, value) = [key |-> p, element |-> 0, bytes |-> bytes]
      BY DEF Value, bytes
    <3> HIDE DEF value
    <3>3. IsSized(Value(buffer, p, 0, value))
      BY <3>1, <3>2 DEF IsSized, IsAddress
    <3> QED
      BY <1>2, <2>4, <3>3 DEF value
  <2>5. \A f \in found' : IsSized(f)
    BY <1>2, <2>3, <2>4
  <2> QED
    BY <1>2, <2>2, <2>5 DEF AddressInv
<1>14. CASE CloseParams
  <2>1. Searching /\ Continue(Tail(todo), num) /\ found' = found
    BY <1>14 DEF CloseParams, Searching
  <2> QED
    BY <1>1, <1>2, <1>3, <1>6, <2>1
<1>15. CASE PrintElement
  <2> DEFINE key == Want.key
             value == readElement(buffer, key, offset, Want.element - 1, num.apat)
             new == Value(buffer, key, Want.element, value)
  <2>1. /\ Searching /\ Want.element > 0
        /\ Refuse \/ (value.ok /\ found' = found \union {new} /\ Continue(Tail(todo), num))
    BY <1>15, Zenon DEF PrintElement, Searching
  <2>2. Want \in ElementQuery /\ Want.element \in Nat /\ Want.element - 1 \in Nat
        /\ key \in {"apat", "apaa"}
    BY <1>3, <2>1 DEF ElementQuery, QueryType
  <2>3. value.ok => IsSized(new)
    <3> DEFINE bytes == Contents(buffer, value)
    <3>1. ASSUME value.ok, key = "apat" PROVE Len(bytes) = ACCT_SIZE
      <4>1. value = getAccount(buffer, offset, Want.element - 1, num.apat)
        BY <3>1 DEF readElement
      <4> QED
        BY <1>1, <2>2, <3>1, <4>1, AccountSize
    <3> HIDE DEF value, bytes
    <3>2. new = [key |-> key, element |-> Want.element, bytes |-> bytes]
      BY DEF Value, bytes
    <3> HIDE DEF key, new
    <3> QED
      BY <2>2, <3>1, <3>2 DEF IsSized, IsAddress, AddressKeys, Roles
  <2> HIDE DEF value, new, key
  <2>4. CASE Refuse
    BY <1>5, <2>4 DEF Refuse
  <2>5. CASE value.ok /\ found' = found \union {new} /\ Continue(Tail(todo), num)
    <3>1. \A f \in found' : IsSized(f)
      BY <1>2, <2>3, <2>5
    <3> QED
      BY <1>1, <1>3, <1>6, <2>1, <2>5, <3>1
  <2> QED
    BY <2>1, <2>4, <2>5
<1> QED
  BY <1>7, <1>8, <1>9, <1>10, <1>11, <1>12, <1>13, <1>14, <1>15, Zenon DEF Step

\* A new transaction begins with nothing found.
LEMMA AddressParse ==
    ASSUME SearchInv, AddressInv, NEW u \in Uploads, NEW tail \in Tails, Parse(u, tail)
    PROVE  AddressInv'
<1>1. found' = {} /\ (todo' = <<Query(Required("type"))>> \/ todo' = todo)
  BY Zenon DEF Parse, Search
<1> QED
  BY <1>1, ElementQueries DEF AddressInv

\* So all that is found for an address is of its size, in every state.
LEMMA AddressInvariant == Spec => []AddressInv
<1>1. Init => AddressInv
  BY DEF Init, AddressInv
<1>2. SearchInv /\ AddressInv /\ [Next]_vars => AddressInv'
  <2> SUFFICES ASSUME SearchInv, AddressInv, [Next]_vars PROVE AddressInv'
    OBVIOUS
  <2>1. CASE UNCHANGED vars
    BY <2>1 DEF vars, context, AddressInv, IsSized
  <2> QED
    BY <2>1, AddressStep, AddressParse, Zenon DEF Next
<1> QED
  BY <1>1, <1>2, SearchInvariant, PTL DEF Spec

\* What is printed for a key: the digits of its bits and of its checksum's.
LEMMA KeyText ==
    ASSUME NEW key \in Seq(0..255), Len(key) = ACCT_SIZE
    PROVE  LET data == key \o Checksum(key)
               text == encodePubKey(key, BUFF_SIZE)
           IN  /\ data \in Seq(0..255) /\ Len(data) = ACCT_SIZE + CHECKSUM_LEN
               /\ \A j \in 1..ACCT_SIZE : data[j] = key[j]
               /\ text \in Seq(0..31) /\ Len(text) = (8 * Len(data) + 4) \div 5 /\ Len(text) > 1
               /\ \A i \in 0..(5 * Len(text) - 1) : Bit(text, 5, i) = BitAt(data, i)
<1> DEFINE sum == Checksum(key)
           data == key \o sum
           text == encodePubKey(key, BUFF_SIZE)
<1>1. ACCT_SIZE \in 1..32 /\ CHECKSUM_LEN = 4
  BY AddressAssumption DEF PK_LEN_25519, CHECKSUM_LEN
<1>2. sum \in [1..4 -> 0..255]
  <2>1. key = [i \in 1..Len(key) |-> key[i]] /\ Len(key) \in Nat
    OBVIOUS
  <2>2. \A i \in 1..Len(key) : key[i] \in 0..255
    BY ElementOf, Zenon
  <2>3. key \in [1..Len(key) -> 0..255]
    BY <2>1, <2>2
  <2> QED
    BY <1>1, <2>3, AddressAssumption, Zenon DEF CHECKSUM_LEN
<1>3. sum \in Seq(0..255) /\ Len(sum) = 4
  <2> HIDE DEF sum
  <2>1. sum = [i \in 1..4 |-> sum[i]] /\ \A i \in 1..4 : sum[i] \in 0..255
    BY <1>2
  <2> QED
    BY <2>1
<1> HIDE DEF sum
<1>4. /\ data \in Seq(0..255) /\ Len(data) = ACCT_SIZE + 4
      /\ \A j \in 1..ACCT_SIZE : data[j] = key[j]
  <2>1. data \in Seq(0..255) /\ Len(data) = Len(key) + Len(sum)
    <3> DEFINE B == 0..255
    <3>1. key \in Seq(B) /\ sum \in Seq(B)
      BY <1>3
    <3> HIDE DEF B
    <3>2. data \in Seq(B)
      BY <3>1
    <3>3. Len(data) = Len(key) + Len(sum)
      BY <3>1
    <3> QED
      BY <3>2, <3>3 DEF B
  <2>2. \A j \in 1..Len(key) : data[j] = key[j]
    BY <1>3
  <2> HIDE DEF data
  <2> QED
    BY <1>3, <2>1, <2>2
<1>5. text = base32_encode(data, 65)
  BY DEF encodePubKey, BUFF_SIZE, PK_LEN_25519, sum
<1> HIDE DEF data
<1>6. data # <<>> /\ Len(data) \in 5..36
  BY <1>1, <1>4
<1>7. 8 * Len(data) + 4 < 5 * 65
  <2>1. ASSUME NEW n \in 5..36 PROVE 8 * n + 4 < 5 * 65
    OBVIOUS
  <2> QED
    BY <1>6, <2>1
<1>8. /\ text \in Seq(0..31) /\ Len(text) = (8 * Len(data) + 4) \div 5
      /\ \A i \in 0..(5 * Len(text) - 1) : Bit(text, 5, i) = BitAt(data, i)
  <2> HIDE DEF text
  <2>1. 65 \in Nat
    OBVIOUS
  <2> QED
    BY <1>4, <1>5, <1>6, <1>7, <2>1, Base32KeepsBits
<1> HIDE DEF text
<1>9. Len(text) > 1
  BY <1>6, <1>8
<1> QED
  BY <1>1, <1>4, <1>8, <1>9 DEF data, text, sum

\* A found address has the size of one.
LEMMA FoundAddress ==
    ASSUME SearchInv, AddressInv, NEW f \in found, IsAddress(f)
    PROVE  f.bytes \in Seq(0..255) /\ Len(f.bytes) = ACCT_SIZE
<1>1. f \in Field
  BY DEF SearchInv, SearchTypeOK
<1> QED
  BY <1>1 DEF AddressInv, IsSized, Field

\* The text of a found address is that of its key, but for the zero key of a role.
LEMMA TextOfFound ==
    ASSUME SearchInv, AddressInv, NEW f \in found, IsAddress(f)
    PROVE  IF TextOf(f) = Zero THEN ToSet(f.bytes) = {0}
           ELSE TextOf(f) = encodePubKey(f.bytes, BUFF_SIZE)
<1> DEFINE text == encodePubKey(f.bytes, BUFF_SIZE)
<1>1. f.bytes \in Seq(0..255) /\ Len(f.bytes) = ACCT_SIZE
  BY FoundAddress
<1>2. Len(text) > 1
  BY <1>1, KeyText
<1> HIDE DEF text
<1>3. text # Zero
  <2>1. Len(Zero) = 1 /\ ~(1 > 1)
    BY DEF Zero
  <2> QED
    BY <1>2, <2>1
<1>4. ASSUME all_zero_key(f.bytes) PROVE ToSet(f.bytes) = {0}
  <2>1. Len(f.bytes) \in Nat /\ 1 \in 1..Len(f.bytes) /\ DOMAIN f.bytes = 1..Len(f.bytes)
    BY <1>1, AddressAssumption DEF PK_LEN_25519
  <2> QED
    BY <1>4, <2>1 DEF all_zero_key, ToSet
<1> QED
  BY <1>3, <1>4 DEF TextOf, text

\* And its text says what it is.
LEMMA AddressInvNames ==
    ASSUME SearchInv, AddressInv
    PROVE  AddressNamesKey
<1> SUFFICES ASSUME NEW f \in found, IsAddress(f), TextOf(f) # Zero
             PROVE  LET data == f.bytes \o Checksum(f.bytes)
                        text == TextOf(f)
                        bits == 8 * Len(data)
                    IN  /\ ToSet(text) \subseteq 0..31
                        /\ Len(text) = (bits + 4) \div 5
                        /\ \A i \in 0..(5 * Len(text) - 1) :
                              Bit(text, 5, i) = IF i < bits THEN Bit(data, 8, i) ELSE 0
  BY TextOfFound, Zenon DEF AddressNamesKey
<1> DEFINE data == f.bytes \o Checksum(f.bytes)
           text == TextOf(f)
<1>1. f.bytes \in Seq(0..255) /\ Len(f.bytes) = ACCT_SIZE
  BY FoundAddress
<1>2. text = encodePubKey(f.bytes, BUFF_SIZE)
  BY TextOfFound
<1> HIDE DEF text
<1>3. /\ text \in Seq(0..31) /\ Len(text) = (8 * Len(data) + 4) \div 5
      /\ \A i \in 0..(5 * Len(text) - 1) : Bit(text, 5, i) = BitAt(data, i)
  BY <1>1, <1>2, KeyText
<1> HIDE DEF data
<1>4. ToSet(text) \subseteq 0..31
  <2>1. text \in Seq(0..31)
    BY <1>3
  <2>2. DOMAIN text = 1..Len(text)
    BY <2>1
  <2>3. \A j \in 1..Len(text) : text[j] \in 0..31
    BY <2>1, ElementOf, Zenon
  <2> QED
    BY <2>2, <2>3, Zenon DEF ToSet
<1> QED
  BY <1>3, <1>4 DEF data, text, BitAt

\* A byte is its bits.
LEMMA ByteIsBits ==
    ASSUME NEW a \in 0..255, NEW b \in 0..255, \A k \in 0..7 : BitOf(a, k) = BitOf(b, k)
    PROVE  a = b
<1>1. /\ BitOf(a, 0) = BitOf(b, 0) /\ BitOf(a, 1) = BitOf(b, 1)
      /\ BitOf(a, 2) = BitOf(b, 2) /\ BitOf(a, 3) = BitOf(b, 3)
      /\ BitOf(a, 4) = BitOf(b, 4) /\ BitOf(a, 5) = BitOf(b, 5)
      /\ BitOf(a, 6) = BitOf(b, 6) /\ BitOf(a, 7) = BitOf(b, 7)
  OBVIOUS
<1>2. a \div 128 = b \div 128
  BY <1>1, SMTT(30) DEF BitOf
<1>3. a \div 64 = b \div 64
  BY <1>1, <1>2, SMTT(30) DEF BitOf
<1>4. a \div 32 = b \div 32
  BY <1>1, <1>3, SMTT(30) DEF BitOf
<1>5. a \div 16 = b \div 16
  BY <1>1, <1>4, SMTT(30) DEF BitOf
<1>6. a \div 8 = b \div 8
  BY <1>1, <1>5, SMTT(30) DEF BitOf
<1>7. a \div 4 = b \div 4
  BY <1>1, <1>6, SMTT(30) DEF BitOf
<1>8. a \div 2 = b \div 2
  BY <1>1, <1>7, SMTT(30) DEF BitOf
<1> QED
  BY <1>1, <1>8, SMTT(30) DEF BitOf

\* Two keys with one text are one key.
LEMMA TextIsKey ==
    ASSUME NEW x \in Seq(0..255), Len(x) = ACCT_SIZE, NEW y \in Seq(0..255), Len(y) = ACCT_SIZE,
           encodePubKey(x, BUFF_SIZE) = encodePubKey(y, BUFF_SIZE)
    PROVE  x = y
<1> DEFINE dx == x \o Checksum(x)
           dy == y \o Checksum(y)
           text == encodePubKey(x, BUFF_SIZE)
<1>1. /\ dx \in Seq(0..255) /\ Len(dx) = ACCT_SIZE + CHECKSUM_LEN
      /\ \A j \in 1..ACCT_SIZE : dx[j] = x[j]
      /\ Len(text) = (8 * Len(dx) + 4) \div 5 /\ text \in Seq(0..31)
      /\ \A i \in 0..(5 * Len(text) - 1) : Bit(text, 5, i) = BitAt(dx, i)
  BY KeyText
<1>2. /\ dy \in Seq(0..255) /\ Len(dy) = ACCT_SIZE + CHECKSUM_LEN
      /\ \A j \in 1..ACCT_SIZE : dy[j] = y[j]
      /\ \A i \in 0..(5 * Len(text) - 1) : Bit(text, 5, i) = BitAt(dy, i)
  BY KeyText
<1> HIDE DEF dx, dy, text
<1>3. ACCT_SIZE \in 1..32 /\ CHECKSUM_LEN = 4
  BY AddressAssumption DEF PK_LEN_25519, CHECKSUM_LEN
<1>4. 8 * (ACCT_SIZE + 4) <= 5 * Len(text)
  BY <1>1, <1>3
<1>5. ASSUME NEW j \in 1..ACCT_SIZE PROVE x[j] = y[j]
  <2>1. j \in 1..Len(dx) /\ j \in 1..Len(dy) /\ j \in 1..Len(x) /\ j \in 1..Len(y)
    BY <1>1, <1>2, <1>3
  <2>2. x[j] \in 0..255 /\ y[j] \in 0..255
    BY <2>1, ElementOf, Zenon
  <2>3. ASSUME NEW k \in 0..7 PROVE BitOf(x[j], k) = BitOf(y[j], k)
    <3> DEFINE i == 8 * (j - 1) + (7 - k)
    <3>1. /\ i \in 0..(5 * Len(text) - 1) /\ i < 8 * Len(dx) /\ i < 8 * Len(dy)
          /\ 7 - k \in 0..(8 - 1) /\ j - 1 \in Nat /\ (j - 1) + 1 = j /\ 8 - 1 - (7 - k) = k
      BY <1>1, <1>2, <1>3, <1>4
    <3>2. Bit(dx, 8, i) = Bit(dy, 8, i)
      BY <1>1, <1>2, <3>1 DEF BitAt
    <3>3. /\ Bit(dx, 8, i) = BitOf(dx[(j - 1) + 1], 8 - 1 - (7 - k))
          /\ Bit(dy, 8, i) = BitOf(dy[(j - 1) + 1], 8 - 1 - (7 - k))
      BY <3>1, BitIs
    <3> HIDE DEF i
    <3> QED
      BY <1>1, <1>2, <3>1, <3>2, <3>3
  <2> QED
    BY <2>2, <2>3, ByteIsBits
<1> QED
  BY <1>5

\* AddressNamesKey for every transaction: whatever checksum belongs to a key, the text of
\* each account that was found has the bits of the account and its checksum, each in its
\* place, and "Zero" is the zero key alone.
THEOREM AddressesNameKeys == Spec => []AddressNamesKey
<1> QED
  BY SearchInvariant, AddressInvariant, AddressInvNames, PTL

\* What the user reads tells the keys apart: two accounts that were found and look alike on
\* the screen, as digits or as "Zero", are one account.
OneTextOneKey ==
    \A f, g \in found : IsAddress(f) /\ IsAddress(g) /\ TextOf(f) = TextOf(g) => f.bytes = g.bytes

\* Two accounts of a transaction that look alike on the screen are one account.
THEOREM AddressesDiffer == Spec => []OneTextOneKey
<1>1. SearchInv /\ AddressInv => OneTextOneKey
  <2> SUFFICES ASSUME SearchInv, AddressInv, NEW f \in found, NEW g \in found,
                      IsAddress(f), IsAddress(g), TextOf(f) = TextOf(g)
               PROVE  f.bytes = g.bytes
    BY DEF OneTextOneKey
  <2> DEFINE x == f.bytes
             y == g.bytes
  <2>1. x \in Seq(0..255) /\ Len(x) = ACCT_SIZE /\ y \in Seq(0..255) /\ Len(y) = ACCT_SIZE
    BY FoundAddress
  <2>2. CASE TextOf(f) = Zero
    <3>1. ToSet(x) = {0} /\ ToSet(y) = {0}
      BY <2>2, TextOfFound
    <3> HIDE DEF x, y
    <3>2. DOMAIN x = 1..ACCT_SIZE /\ DOMAIN y = 1..ACCT_SIZE
      BY <2>1
    <3>3. \A j \in 1..ACCT_SIZE : x[j] = 0 /\ y[j] = 0
      BY <3>1, <3>2 DEF ToSet
    <3> QED
      BY <2>1, <3>3 DEF x, y
  <2>3. CASE TextOf(f) # Zero
    BY <2>1, <2>3, TextOfFound, TextIsKey
  <2> QED
    BY <2>2, <2>3
<1> QED
  BY <1>1, SearchInvariant, AddressInvariant, PTL

===============================================================================
