------------------------------- MODULE KeySearch -------------------------------
(***************************************************************************)
(* How the parser finds the fields of a transaction in its bytes.  For     *)
(* every field _findKey of app/src/parser_impl.c starts at the first byte, *)
(* compares keys, and walks over the values of the keys it is not looking  *)
(* for; the value behind the key is then read by the field's reader.  The  *)
(* accounts and arguments of an application call are not kept but searched *)
(* and read again, once per element, when they are printed.                *)
(*                                                                         *)
(* tx_parse hands over two bytes more than the transaction has: it starts  *)
(* behind the prefix and passes the length of the upload with the prefix.  *)
(* Those two bytes are whatever the memory behind the upload holds.        *)
(*                                                                         *)
(* The limits that relate several fields of an application call, and the   *)
(* items, are the subject of TxItems; here the setting is off and there is *)
(* no group, so that every element is printed.                             *)
(***************************************************************************)
EXTENDS MsgPack

CONSTANTS
    Uploads,         \* the transactions sent, by name
    Bytes,           \* their bytes, without the prefix
    Meaning,         \* the fields of a whole and valid one
    Early,           \* the fields that stand before the type, in each of them
    Tails,           \* what may follow it in memory: pairs of bytes
    BinSize,         \* the size of each field that has a fixed one
    StringSize       \* the size of the buffer of each string

Params == ToSet(TypeIndex.acfg) \ {"caid"}
MAX_PARAM_SIZE == 12
MAX_NOTE_LEN == 1024
TmpKeySize == 20

ASSUME SearchAssumption ==
    /\ \A u \in Uploads : Bytes[u] \in Seq(0..255)
    /\ Tails \subseteq Seq(0..255)
    /\ DOMAIN BinSize \intersect DOMAIN StringSize = {}
    /\ (DOMAIN BinSize \union DOMAIN StringSize) \intersect
         {"nonpart", "afrz", "df", "note", "apbx", "apfa", "apas", "apat", "apaa",
          "apgs", "apls", "apep", "apap", "apsu"} = {}

VARIABLES
    upload,          \* the transaction being parsed
    buffer,          \* the bytes the parser may read
    offset,          \* the offset of the context
    todo,            \* the fields to look for, the current one first
    left,            \* keys of the map that were not compared yet
    pending,         \* values to walk over before the next key
    phase,           \* "idle", "keys", "value", "params", "accepted" or "refused"
    validating,      \* whether the parse is over and the items are being printed
    num,             \* num_accounts and num_app_args
    found            \* the fields that were read, with their bytes

context == <<offset, left, pending>>
vars == <<upload, buffer, context, todo, phase, validating, num, found>>

-----------------------------------------------------------------------------
(* Readers and queries.                                                      *)

readNote(b, at) ==
    LET size == readBinSize(b, at) IN IF size.n > MAX_NOTE_LEN THEN Fail(at) ELSE size

readExtraPages(b, at) ==
    LET pages == readUInt(b, at, 1) IN IF pages.n > 3 THEN Fail(at) ELSE pages

\* The reader of a field's value.
readValue(b, key, at) ==
    CASE key \in DOMAIN BinSize    -> readBinFixed(b, at, BinSize[key])
      [] key \in DOMAIN StringSize -> readString(b, at, StringSize[key])
      [] key \in {"nonpart", "afrz", "df"} -> readBool(b, at)
      [] key = "note"              -> readNote(b, at)
      [] key = "apbx"              -> readBoxes(b, at)
      [] key \in {"apfa", "apas"}  -> readArrayU64(b, at, ArrayLimit[key])
      [] key = "apat"              -> verifyAccounts(b, at)
      [] key = "apaa"              -> verifyAppArgs(b, at)
      [] key \in {"apgs", "apls"}  -> readStateSchema(b, at)
      [] key = "apep"              -> readExtraPages(b, at)
      [] key \in {"apap", "apsu"}  -> readBin(b, at, UINT16_MAX)
      [] OTHER                     -> readInteger(b, at)

readElement(b, key, at, idx, n) ==
    IF key = "apat" THEN getAccount(b, at, idx, n) ELSE getAppArg(b, at, idx)

\* Mutant: the last account and the last argument are not printed.
ElementsButLast(key, n) == [i \in 1..(n - 1) |-> [key |-> key, required |-> TRUE, element |-> i]]

\* A field to look for; element 0 is the field itself.
Query(field) == [key |-> field.key, required |-> field.required, element |-> 0]
Elements(key, n) == [i \in 1..n |-> [key |-> key, required |-> TRUE, element |-> i]]

ParseQueries(type) ==
    LET specific == IF type = "acfg" THEN <<Optional("caid"), Optional("apar")>>
                    ELSE FieldsOf(type, {})
        fields == CommonFields \o ValidityFields \o specific
    IN  [i \in DOMAIN fields |-> Query(fields[i])]

Want == Head(todo)
Value(b, key, element, value) ==
    [key |-> key, element |-> element, bytes |-> Contents(b, value)]

\* _findKey begins: the offset is set back and the size of the map is read.
Search(queries, from) ==
    /\ todo' = queries
    /\ phase' = IF queries = <<>> THEN "accepted" ELSE "keys"
    /\ LET map == readMapSize(from, 0)
       IN  offset' = map.at /\ left' = map.n /\ pending' = 0

\* Mutant: the items are printed again after the last one.
ContinueAgain(queries, sizes) ==
    /\ validating' = validating
    /\ Search(IF queries = <<>> /\ ~validating
              THEN Elements("apat", sizes.apat) \o Elements("apaa", sizes.apaa)
              ELSE queries, buffer)
    /\ num' = sizes

\* The next field; after the last one, parser_validate prints the items.
Continue(queries, sizes) ==
    /\ validating' = (validating \/ queries = <<>>)
    /\ Search(IF queries = <<>> /\ ~validating
              THEN Elements("apat", sizes.apat) \o Elements("apaa", sizes.apaa)
              ELSE queries, buffer)
    /\ num' = sizes

Refuse ==
    /\ phase' = "refused"
    /\ UNCHANGED <<upload, buffer, context, todo, validating, num, found>>

-----------------------------------------------------------------------------
(* Steps.                                                                    *)

Init ==
    /\ upload \in Uploads
    /\ buffer = <<>>
    /\ offset = 0 /\ left = 0 /\ pending = 0
    /\ todo = <<>>
    /\ phase = "idle"
    /\ validating = FALSE
    /\ num = [apat |-> 0, apaa |-> 0]
    /\ found = {}

\* tx_parse on an upload, with what follows it in memory; _read looks at the size of
\* the map and for the type first.
Parse(u, tail) ==
    /\ phase \in {"idle", "accepted", "refused"}
    /\ upload' = u
    /\ buffer' = Bytes[u] \o tail
    /\ validating' = FALSE
    /\ num' = [apat |-> 0, apaa |-> 0]
    /\ found' = {}
    /\ LET map == readMapSize(buffer', 0)
       IN  IF map.ok /\ map.n <= 255 THEN Search(<<Query(Required("type"))>>, buffer')
           ELSE phase' = "refused" /\ offset' = map.at /\ UNCHANGED <<left, pending, todo>>

\* Mutant: the keys are compared up to the shorter of them.
KeyBegins(text, key) == IsPrefix(text, Ascii[key]) \/ IsPrefix(Ascii[key], text)

\* strncmp with the length of the key that is looked for.
KeyIs(text, key) == IsPrefix(Ascii[key], text)

\* One key is read and compared; its value is next.
NextKey ==
    /\ phase = "keys" /\ pending = 0 /\ left > 0
    /\ LET key == readString(buffer, offset, TmpKeySize)
       IN  /\ key.ok
           /\ offset' = key.at
           /\ IF KeyIs(Contents(buffer, key), Want.key)
              THEN phase' = "value" /\ UNCHANGED <<left, pending>>
              ELSE left' = left - 1 /\ pending' = 1 /\ UNCHANGED phase
    /\ UNCHANGED <<upload, buffer, todo, validating, num, found>>

\* Mutant: the values of a nested map are taken for the next keys.
SkipAsArray(value) == pending' = pending - 1 + value.n \div 2

\* Mutant: one value too few is walked over.
SkipPair(value) == pending' = pending - 2 + value.n

SkipOver(value) == pending' = pending - 1 + value.n

\* A value, or the beginning of a map or an array, is walked over.
SkipValue ==
    /\ phase = "keys" /\ pending > 0
    /\ LET value == verifyValue(buffer, offset)
       IN  value.ok /\ offset' = value.at /\ SkipOver(value)
    /\ UNCHANGED <<upload, buffer, todo, left, phase, validating, num, found>>

\* The keys are over, or one of them or a value cannot be read.  For a field that may
\* be missing the second is taken for the first.
SearchFails ==
    /\ phase = "keys"
    /\ IF pending > 0 THEN ~verifyValue(buffer, offset).ok
       ELSE left = 0 \/ ~readString(buffer, offset, TmpKeySize).ok
    /\ IF Want.required THEN Refuse
       ELSE Continue(Tail(todo), num) /\ UNCHANGED <<upload, buffer, found>>

ReadType ==
    /\ phase = "value" /\ Want.key = "type"
    /\ LET text == readString(buffer, offset, 10)
           types == {t \in TxTypes : text.ok /\ TextIs(Contents(buffer, text), t)}
       IN  IF types = {} THEN Refuse
           ELSE /\ \E t \in types : Continue(ParseQueries(t), num)
                /\ found' = {Value(buffer, "type", 0, text)}
                /\ UNCHANGED <<upload, buffer>>

\* A frozen flag that cannot be read is no error.
ReadField ==
    /\ phase = "value" /\ Want.key \notin {"type", "apar"} /\ Want.element = 0
    /\ LET value == readValue(buffer, Want.key, offset)
           last == IF Want.key = "votefst" THEN <<Query(Required("votelst"))>> ELSE <<>>
       IN  IF ~value.ok /\ Want.key # "afrz" THEN Refuse
           ELSE /\ found' = found \union (IF value.ok THEN {Value(buffer, Want.key, 0, value)} ELSE {})
                /\ Continue(last \o Tail(todo), IF Want.key \in DOMAIN num
                                               THEN [num EXCEPT ![Want.key] = value.n] ELSE num)
                /\ UNCHANGED <<upload, buffer>>

OpenParams ==
    /\ phase = "value" /\ Want.key = "apar"
    /\ LET map == readMapSize(buffer, offset)
       IN  IF ~map.ok \/ map.n > MAX_PARAM_SIZE THEN Refuse
           ELSE /\ phase' = "params" /\ offset' = map.at /\ left' = map.n
                /\ UNCHANGED <<upload, buffer, pending, todo, validating, num, found>>

\* A parameter given twice keeps its last value.  A key that is no parameter is left
\* without its value, which is then read as the next key.
ReadParam ==
    /\ phase = "params" /\ left > 0
    /\ LET key == readString(buffer, offset, 10)
           params == {p \in Params : key.ok /\ KeyIs(Contents(buffer, key), p)}
       IN  IF ~key.ok THEN Refuse
           ELSE \/ /\ params = {} /\ left' = left - 1 /\ offset' = key.at
                   /\ UNCHANGED <<upload, buffer, pending, todo, phase, validating, num, found>>
                \/ \E p \in params :
                      LET value == readValue(buffer, p, key.at)
                      IN  IF ~value.ok THEN Refuse
                          ELSE /\ found' = {f \in found : f.key # p} \union {Value(buffer, p, 0, value)}
                               /\ left' = left - 1 /\ offset' = value.at
                               /\ UNCHANGED <<upload, buffer, pending, todo, phase, validating, num>>

CloseParams ==
    /\ phase = "params" /\ left = 0
    /\ Continue(Tail(todo), num)
    /\ UNCHANGED <<upload, buffer, found>>

\* One account or argument is printed: the array is searched and read again.
PrintElement ==
    /\ phase = "value" /\ Want.element > 0
    /\ LET value == readElement(buffer, Want.key, offset, Want.element - 1, num.apat)
       IN  IF ~value.ok THEN Refuse
           ELSE /\ found' = found \union {Value(buffer, Want.key, Want.element, value)}
                /\ Continue(Tail(todo), num)
                /\ UNCHANGED <<upload, buffer>>

Step == \/ NextKey \/ SkipValue \/ SearchFails
        \/ ReadType \/ ReadField \/ OpenParams \/ ReadParam \/ CloseParams \/ PrintElement

Next == (\E u \in Uploads, tail \in Tails : Parse(u, tail)) \/ Step

\* tx_parse runs to its end: there is nothing to wait for.
Spec == Init /\ [][Next]_vars /\ WF_vars(Step)

-----------------------------------------------------------------------------
(* What one walk over the map would find: all its keys, up to the last one,  *)
(* or to a key or value that cannot be read.                                 *)

Beginning(b) == LET map == readMapSize(b, 0) IN [at |-> map.at, left |-> map.n, pending |-> 0]

IsReadable(b, stop) ==
    IF stop.pending > 0 THEN verifyValue(b, stop.at).ok
    ELSE stop.left > 0 /\ readString(b, stop.at, TmpKeySize).ok

Beyond(b, stop) ==
    LET key == readString(b, stop.at, TmpKeySize)
        value == verifyValue(b, stop.at)
    IN  IF stop.pending > 0
        THEN [at |-> value.at, left |-> stop.left, pending |-> stop.pending - 1 + value.n]
        ELSE [at |-> key.at, left |-> stop.left - 1, pending |-> 1]

Onward(b, stop) == IF IsReadable(b, stop) THEN Beyond(b, stop) ELSE stop

\* From stop to stop, and no further than the last one.
Walk(b) ==
    LET walk[i \in 0..Len(b)] == IF i = 0 THEN Beginning(b) ELSE Onward(b, walk[i - 1])
    IN  walk

\* The keys, with their places in the walk and the offsets of their values.
MapKeys(b) ==
    LET walk == Walk(b)
        key(i) == readString(b, walk[i].at, TmpKeySize)
    IN  {[nth |-> i, text |-> Contents(b, key(i)), at |-> key(i).at] :
            i \in {j \in 0..Len(b) : walk[j].pending = 0 /\ IsReadable(b, walk[j])}}

\* The first of them that begins with the name of a field, if there is one.
FirstOf(keys, name) ==
    LET called == {k \in keys : IsPrefix(Ascii[name], k.text)}
    IN  {k \in called : \A l \in called : k.nth <= l.nth}

\* What the readers take there, element by element; the value of apar is a map of its own.
SaidAt(b, name, at) ==
    LET value == IF name = "type" THEN readString(b, at, 10) ELSE readValue(b, name, at)
        elements == IF name \in {"apat", "apaa"} THEN value.n ELSE 0
    IN  IF name = "apar" \/ ~value.ok THEN {}
        ELSE {Value(b, name, 0, value)} \union
             {Value(b, name, i, readElement(b, name, at, i - 1, value.n)) : i \in 1..elements}

SaidBy(b, keys, name) == UNION {SaidAt(b, name, k.at) : k \in FirstOf(keys, name)}

\* The last voting round is looked for behind a first one.
AskedFor(type, keys) ==
    LET asked == {"type"} \union {q.key : q \in ToSet(ParseQueries(type))}
    IN  asked \union {k \in {"votelst"} : "votefst" \in asked /\ FirstOf(keys, "votefst") # {}}

-----------------------------------------------------------------------------
(* Properties.                                                               *)

Field == [key : Keys \union {"type"}, element : Nat, bytes : Seq(0..255)]

SearchTypeOK ==
    /\ upload \in Uploads
    /\ buffer \in Seq(0..255)
    /\ offset \in Nat /\ left \in 0..UINT16_MAX /\ pending \in Nat
    /\ todo \in Seq([key : Keys \union {"type"}, required : BOOLEAN, element : Nat])
    /\ phase \in {"idle", "keys", "value", "params", "accepted", "refused"}
    /\ validating \in BOOLEAN
    /\ num \in [{"apat", "apaa"} -> 0..MAX_ARG]
    /\ found \subseteq Field

\* The parser never stands behind the bytes it was given, wherever they are cut
\* (CTX_CHECK_AND_ADVANCE, before every move).
OffsetInWindow == offset \in 0..Len(buffer)

\* A whole transaction is read for what it says: every field gets the bytes behind its
\* own key, with keys in any order, keys of nested maps and keys nobody asks for in
\* between, and whatever follows the upload in memory.
FoundIsMeaning ==
    phase = "accepted" /\ upload \in DOMAIN Meaning => found = Meaning[upload]

\* Every search starts over and stops at the first key that begins with the name of its
\* field, the elements of arrays are searched and read again, and an error may count as
\* absence.  Still an accepted transaction is read as in one walk over its map, and
\* nothing the walk comes by is lost (the parameters of an asset are read on their own).
FoundInOneWalk ==
    phase = "accepted" =>
        \E keys \in {MapKeys(buffer)}, type \in TxTypes :
            /\ \E f \in found : f.key = "type" /\ TextIs(f.bytes, type)
            /\ {f \in found : f.key \notin Params} = UNION {SaidBy(buffer, keys, name) : name \in AskedFor(type, keys)}

\* An error of a search is taken for the absence of a field that may be missing.  What
\* stands before the type cannot be lost that way: the search for the type has walked
\* over it before.
EarlyFieldsAreFound == phase = "accepted" => Early[upload] \subseteq found

\* A whole and valid transaction is never refused, not even for values and keys the
\* parser only walks over.
ValidIsAccepted == phase = "refused" => upload \notin DOMAIN Meaning

\* Every parse comes to an end, though each field is searched from the first byte and
\* the elements of arrays are searched again when they are printed.
Parsing == phase \in {"keys", "value", "params"}
SearchEnds == Parsing ~> ~Parsing

\* What the parser has read is part of what will be signed (the check of
\* app/src/parser_impl.h that the bytes are available).
ReadsAreSigned ==
    \A f \in found : \E i \in 0..Len(Bytes[upload]) :
        IsPrefix(f.bytes, SubSeq(Bytes[upload], i + 1, Len(Bytes[upload])))

===============================================================================
