-------------------------------- MODULE MsgPack --------------------------------
(***************************************************************************)
(* The MessagePack readers of app/src/parser_impl.c, as functions of the   *)
(* bytes of a buffer and the offset of the context.                        *)
(*                                                                         *)
(* A reader returns whether it succeeded, the offset it leaves, where the  *)
(* contents of the value begin, and a number it read where somebody uses   *)
(* it: a size, a count.  Which error a reader reports makes no difference  *)
(* to its callers, nor does the offset it leaves with an error: the next   *)
(* search starts at the beginning.                                         *)
(***************************************************************************)
EXTENDS TxFields

CONSTANTS
    Ascii,           \* the bytes of each key
    ACCT_SIZE        \* the bytes of an account

UINT16_MAX == 65535
MAX_ARGLEN == 2048
BOX_NAME_MAX_LENGTH == 64

\* msgpack.h
BOOLS == {194, 195}
BIN8 == 196
BIN16 == 197
UINTS == 204..207          \* UINT8, UINT16, UINT32, UINT64 ...
UIntSizes == <<1, 2, 4, 8>> \* ... and their bytes
STR8 == 217
ARR16 == 220
MAP16 == 222

FIXINT == 0..127
FIXMAP == 128..143
FIXARR == 144..159
FIXSTR == 160..191

Fail(at) == [ok |-> FALSE, at |-> at, from |-> at, n |-> 0]
Read(from, at, n) == [ok |-> TRUE, at |-> at, from |-> from, n |-> n]

Avail(b, at, size) == at + size <= Len(b)

\* _readUInt8 and _readUInt16, and the wider ones: nobody uses their number as a size.
readUInt(b, at, size) ==
    IF ~Avail(b, at, size) THEN Fail(at)
    ELSE Read(at, at + size, IF size = 2 THEN 256 * b[at + 1] + b[at + 2] ELSE b[at + 1])

\* _verifyBytes, _getPointerBytes and _readBytes.
readBytes(b, at, size) ==
    IF Avail(b, at, size) THEN Read(at, at + size, size) ELSE Fail(at)

\* A value whose first byte is in short stands for its size itself; one that starts
\* with a wider type has a number of that many bytes behind it.
readSize(b, at, short, base, wide, width) ==
    LET type == readUInt(b, at, 1)
    IN  IF ~type.ok THEN type
        ELSE IF type.n \in short THEN Read(type.at, type.at, type.n - base)
        ELSE IF type.n = wide THEN readUInt(b, type.at, width)
        ELSE Fail(at)

\* getMsgPackType takes the bytes of small arrays for maps.
readMapSize(b, at) == readSize(b, at, FIXMAP \union FIXARR, 128, MAP16, 2)

readArraySize(b, at) ==
    LET size == readSize(b, at, FIXARR, 144, ARR16, 2)
    IN  IF size.n > 255 THEN Fail(at) ELSE size

\* The text and its terminator have to fit in bufLen bytes.
readString(b, at, bufLen) ==
    LET size == readSize(b, at, FIXSTR, 160, STR8, 1)
    IN  IF ~size.ok \/ size.n >= bufLen THEN Fail(at) ELSE readBytes(b, size.at, size.n)

readInteger(b, at) ==
    LET type == readUInt(b, at, 1)
    IN  IF ~type.ok THEN type
        ELSE IF type.n \in FIXINT THEN Read(at, type.at, type.n)
        ELSE IF type.n \in UINTS THEN [readBytes(b, type.at, UIntSizes[type.n - 203]) EXCEPT !.from = at]
        ELSE Fail(at)

readBinFixed(b, at, size) ==
    LET length == readSize(b, at, {}, 0, BIN8, 1)
    IN  IF ~length.ok \/ length.n # size THEN Fail(at) ELSE readBytes(b, length.at, size)

readBinSize(b, at) ==
    LET type == readUInt(b, at, 1)
    IN  IF type.ok /\ type.n \in {BIN8, BIN16} THEN readUInt(b, type.at, type.n - BIN8 + 1)
        ELSE Fail(at)

\* Mutant: the bytes are not counted.
readBinUnchecked(b, at, max) ==
    LET length == readBinSize(b, at)
    IN  IF ~length.ok \/ length.n > max THEN Fail(at) ELSE Read(length.at, length.at + length.n, length.n)

\* _verifyBin, _readBin and _getPointerBin.
readBin(b, at, max) ==
    LET length == readBinSize(b, at)
    IN  IF ~length.ok \/ length.n > max THEN Fail(at) ELSE readBytes(b, length.at, length.n)

readBool(b, at) ==
    LET byte == readUInt(b, at, 1) IN IF byte.ok /\ byte.n \in BOOLS THEN byte ELSE Fail(at)

\* What a reader has read.
Contents(b, r) == SubSeq(b, r.from + 1, r.at)

\* strncmp with the size of the name: the text is this name, up to its terminator.
TextIs(text, name) == IsPrefix(Ascii[name] \o <<0>>, text \o <<0>>)

-----------------------------------------------------------------------------
(* Arrays and maps: their elements are read where the one before ended.      *)

\* A reader of elements is a function of the offset, anywhere in b.
Offsets(b) == 0..Len(b)

\* The sets have one element: TLC reads what stands before an element only once.
Times(size, reader) ==
    LET after(r) == IF r.ok THEN reader[r.at] ELSE r
        read[i \in 0..size.n] ==
            IF i = 0 THEN size ELSE CHOOSE r \in {after(before) : before \in {read[i - 1]}} : TRUE
    IN  read[size.n]

\* The whole value that starts at from, with its number of elements.
Whole(from, size, last) == [last EXCEPT !.from = from, !.n = size.n]

\* An array with at most limit elements.
readArray(b, at, limit, reader) ==
    LET size == readArraySize(b, at)
    IN  IF ~size.ok \/ size.n > limit THEN Fail(at) ELSE Whole(at, size, Times(size, reader))

readMap(b, at, reader) ==
    LET size == readMapSize(b, at) IN Whole(at, size, Times(size, reader))

verifyAppArgs(b, at) == readArray(b, at, MAX_ARG, [p \in Offsets(b) |-> readBin(b, p, MAX_ARGLEN)])
verifyAccounts(b, at) == readArray(b, at, MAX_ACCT, [p \in Offsets(b) |-> readBinFixed(b, p, ACCT_SIZE)])
readArrayU64(b, at, limit) == readArray(b, at, limit, [p \in Offsets(b) |-> readInteger(b, p)])

\* These two maps refuse a key they do not know.
readStateSchema(b, at) ==
    LET entry(p) ==
            LET key == readString(b, p, 32)
            IN  IF key.ok /\ \E name \in {"nui", "nbs"} : TextIs(Contents(b, key), name)
                THEN readInteger(b, key.at) ELSE Fail(p)
    IN  readMap(b, at, [p \in Offsets(b) |-> entry(p)])

readBoxElement(b, at) ==
    LET entry(p) ==
            LET key == readString(b, p, 2)
            IN  IF ~key.ok THEN key
                ELSE IF TextIs(Contents(b, key), "i") THEN readUInt(b, key.at, 1)
                ELSE IF TextIs(Contents(b, key), "n") THEN readBin(b, key.at, BOX_NAME_MAX_LENGTH)
                ELSE Fail(p)
    IN  readMap(b, at, [p \in Offsets(b) |-> entry(p)])

readBoxes(b, at) == readArray(b, at, MAX_FOREIGN_APPS, [p \in Offsets(b) |-> readBoxElement(b, p)])

\* One element of an array, for the screen: the ones before it are read again.
getElement(b, at, idx, limit, reader) ==
    LET size == readArraySize(b, at)
    IN  IF ~size.ok \/ size.n > limit \/ idx >= size.n THEN Fail(at)
        ELSE Times([size EXCEPT !.n = idx + 1], reader)

getAccount(b, at, idx, num) ==
    IF readArraySize(b, at).n # num THEN Fail(at)
    ELSE getElement(b, at, idx, num, [p \in Offsets(b) |-> readBinFixed(b, p, ACCT_SIZE)])

getAppArg(b, at, idx) == getElement(b, at, idx, MAX_ARG, [p \in Offsets(b) |-> readBin(b, p, MAX_ARGLEN)])

-----------------------------------------------------------------------------
(* _verifyValue: a value nobody asked for is walked over.  The recursion of  *)
(* the code is unfolded by its caller: n is how many values are inside.      *)

Holding(value, n) == [value EXCEPT !.n = n]

verifyValue(b, at) ==
    LET type == readUInt(b, at, 1)
        map == readMapSize(b, at)
    IN  IF ~type.ok THEN type
        ELSE IF type.n \in FIXINT \union UINTS THEN Holding(readInteger(b, at), 0)
        ELSE IF type.n \in FIXMAP \union {MAP16} THEN Holding(map, 2 * map.n)
        ELSE IF type.n \in FIXARR \union {ARR16} THEN readArraySize(b, at)
        ELSE IF type.n \in FIXSTR \union {STR8} THEN Holding(readString(b, at, 256), 0)
        ELSE IF type.n \in BOOLS THEN Holding(readBool(b, at), 0)
        ELSE IF type.n \in {BIN8, BIN16} THEN Holding(readBin(b, at, UINT16_MAX), 0)
        ELSE Fail(at)

===============================================================================
