---------------------------- MODULE ArbitraryItems ----------------------------
(***************************************************************************)
(* The review of an arbitrary message: tx_parse_arbitrary of               *)
(* app/src/common/tx.c stores where the keys and values of a JSON text     *)
(* are, tx_getNumItems_arbitrary counts them in a second scan of its own,  *)
(* and tx_getItem_arbitrary prints them.                                   *)
(*                                                                         *)
(* The upload is TO_SIGN_SIZE bytes to sign, which no scan looks at and    *)
(* the model leaves out, then the domain, a NUL and the JSON text.  The    *)
(* client sends no NUL after the text, and all three scans go on to the    *)
(* next NUL in memory.  A pointer is a position in memory.                 *)
(***************************************************************************)
EXTENDS Integers, Sequences, FiniteSets, FiniteSetsExt, SequencesExt

CONSTANTS
    Uploads,         \* the messages the client sends
    Domain,          \* the domain of each: a sequence of characters
    Json,            \* its text: a sequence of characters
    Members,         \* what the text says: the sequence of its keys and values
    Places,          \* where they are in the message
    DomainSize,      \* the size of arbitrary_sign_domain
    Entries,         \* the size of the arrays of tx_parsed_json_t
    KeySize,         \* outKeyLen: the size of the key's line on the screen
    TmpBufSize       \* the size of tmpBuf

NUL == "NUL"
Quote == "\""
Blank == {" ", "\t", "\n"}

\* idx is a uint8_t, as is the number of items.
ASSUME ArbitraryAssumption ==
    /\ DomainSize \in Nat \ {0} /\ Entries \in 1..254
    /\ KeySize \in Nat \ {0} /\ TmpBufSize \in Nat \ {0}
    /\ \A u \in Uploads : /\ Domain[u] \in Seq(STRING) /\ NUL \notin ToSet(Domain[u])
                          /\ Json[u] \in Seq(STRING) /\ NUL \notin ToSet(Json[u])

Message(u) == Domain[u] \o <<NUL>> \o Json[u]

VARIABLES
    memory,              \* what was ever written behind the bytes to sign
    upload,              \* the message that was sent last
    domain_len,          \* strlen(arbitrary_sign_domain)
    json,                \* the pointer of tx_parse_arbitrary
    idx,                 \* the entries it has stored
    key_positions, value_positions, value_lengths,
    phase                \* "empty", "parsing", "review", "overrun" or "overflow"

parsed == <<key_positions, value_positions, value_lengths>>
vars == <<memory, upload, domain_len, json, idx, parsed, phase>>

-----------------------------------------------------------------------------
(* Memory.  Behind the longest message so far it holds what the start of the *)
(* application left there.                                                   *)

At(p) == IF p \in DOMAIN memory THEN memory[p] ELSE NUL

\* while (*p && *p is not in stops) p++;
Seek(from, stops) ==
    Min({p \in from..Max({from, Len(memory) + 1}) : At(p) \in stops \union {NUL}})

SkipBlanks(from) == Min({p \in from..Max({from, Len(memory) + 1}) : At(p) \notin Blank})

Count(c, from, to) == Cardinality({p \in from..to : At(p) = c})

\* Behind the bracket that closes the one at from.
CloseBracket(from) ==
    Min({p \in (from + 1)..(Len(memory) + 1) :
            At(p) = NUL \/ Count("[", from, p - 1) = Count("]", from, p - 1)})

\* buffer + TO_SIGN_SIZE + strlen(arbitrary_sign_domain) + 1
Text == domain_len + 2

-----------------------------------------------------------------------------
(* The two scans and the items.                                              *)

\* Mutant: the first character of any value is skipped as if it were a quote.
ValueStartBehind(v) == v + 1

ValueStart(v) == IF At(v) = Quote THEN v + 1 ELSE v

\* Mutant: a string value ends where a number does.
ValueEndComma(v) == IF At(v) = "[" THEN CloseBracket(v) ELSE Seek(v, {",", "}"})

ValueEnd(v) ==
    CASE At(v) = Quote -> Seek(v + 1, {Quote})
      [] At(v) = "["   -> CloseBracket(v)
      [] OTHER         -> Seek(v, {",", "}"})

\* The value's first character, for the key that ends at key_end.
ValueOf(key_end) ==
    LET colon == Seek(key_end + 1, {":"})
    IN  SkipBlanks(IF At(colon) = ":" THEN colon + 1 ELSE colon)

\* Mutant: colons inside strings count.
CountAllColons == (1 + Count(":", Text, Seek(Text, {}) - 1)) % 256

\* The colons outside strings.
Colons == {p \in Text..(Seek(Text, {}) - 1) : At(p) = ":" /\ Count(Quote, Text, p - 1) % 2 = 0}

tx_getNumItems_arbitrary == (1 + Cardinality(Colons)) % 256

\* snprintf to size bytes: the characters from first to last, but for those that do not
\* fit before the NUL.
Printed(first, last, size) == SubSeq(memory, first, Min({last, first + size - 2}))

\* What is shown for displayIdx 1 and up.  Of a value the 255 first characters go through
\* tmpBuf.
tx_getItem_arbitrary(displayIdx) ==
    LET key == key_positions[displayIdx]
        value == value_positions[displayIdx]
    IN  [key   |-> Printed(key, Seek(key, {Quote}) - 1, KeySize),
         value |-> Printed(value, value + value_lengths[displayIdx] - 1, TmpBufSize)]

\* while (key_pos[key_len++] != '"'): a NUL does not end it, and without a quote in what
\* was ever written it runs on, further than any line is long.
QuoteBehind(key) ==
    Min({p \in key..Len(memory) : At(p) = Quote} \union {Max({key, Len(memory) + 1}) + KeySize})

\* Mutant: the NUL is written behind the quote's place.
KeyNulBehindQuote(displayIdx) ==
    LET key == key_positions[displayIdx]
    IN  /\ QuoteBehind(key) + 1 - key < KeySize
        /\ value_lengths[displayIdx] < TmpBufSize

\* outKey[key_len - 1] and tmpBuf[length], where the NULs are written, are in their arrays.
NulsInside(displayIdx) ==
    LET key == key_positions[displayIdx]
    IN  /\ QuoteBehind(key) - key < KeySize
        /\ value_lengths[displayIdx] < TmpBufSize

-----------------------------------------------------------------------------
Init ==
    /\ memory = <<>>
    /\ upload \in Uploads
    /\ domain_len = 0 /\ json = 0 /\ idx = 0
    /\ key_positions = [e \in 1..Entries |-> 0]
    /\ value_positions = [e \in 1..Entries |-> 0]
    /\ value_lengths = [e \in 1..Entries |-> 0]
    /\ phase = "empty"

\* The last chunk of a message arrives (handle_arbitrary_sign) and the domain is
\* copied.  A domain that fills its array is not terminated there: its length is then
\* found in the eight bytes of group_max_fees, or wherever the linker put what follows.
Upload(u) ==
    /\ phase \in {"empty", "review"}
    /\ memory' = Message(u) \o SubSeq(memory, Len(Message(u)) + 1, Len(memory))
    /\ domain_len' \in IF Len(Domain[u]) < DomainSize THEN {Len(Domain[u])}
                       ELSE DomainSize..(DomainSize + 8)
    /\ upload' = u
    /\ json' = domain_len' + 2
    /\ idx' = 0
    /\ phase' = "parsing"
    /\ UNCHANGED parsed

\* Mutant: the pointer is left at the end of the key.
StoreAgain(key, key_end, value) ==
    /\ json' = key_end + 1
    /\ idx' = idx + 1
    /\ key_positions' = [key_positions EXCEPT ![idx + 1] = key]
    /\ value_positions' = [value_positions EXCEPT ![idx + 1] = ValueStart(value)]
    /\ value_lengths' = [value_lengths EXCEPT ![idx + 1] = ValueEnd(value) - ValueStart(value)]

Store(key, key_end, value) ==
    /\ json' = ValueEnd(value) + 1
    /\ idx' = idx + 1
    /\ key_positions' = [key_positions EXCEPT ![idx + 1] = key]
    /\ value_positions' = [value_positions EXCEPT ![idx + 1] = ValueStart(value)]
    /\ value_lengths' = [value_lengths EXCEPT ![idx + 1] = ValueEnd(value) - ValueStart(value)]

\* The body of the loop of tx_parse_arbitrary.  There is no test of idx: an entry
\* more than the arrays have is written over what follows, and the model stops.
ParseMember ==
    /\ phase = "parsing" /\ At(json) # NUL
    /\ LET key == Seek(json, {Quote}) + 1
           key_end == Seek(key, {Quote})
       IN  IF idx < Entries
           THEN Store(key, key_end, ValueOf(key_end)) /\ UNCHANGED phase
           ELSE phase' = "overrun" /\ UNCHANGED <<json, idx, parsed>>
    /\ UNCHANGED <<memory, upload, domain_len>>

\* The end of the loop: the review opens.
ParseEnds ==
    /\ phase = "parsing" /\ At(json) = NUL
    /\ phase' = "review"
    /\ UNCHANGED <<memory, upload, domain_len, json, idx, parsed>>

\* The user pages to an item.  Nothing tests the lengths: a NUL outside its array is
\* written over what follows, and the model stops.  An item behind the arrays' last, which
\* a text that older bytes continue may have, is left out.
ShowItem(displayIdx) ==
    /\ phase = "review" /\ displayIdx < tx_getNumItems_arbitrary
    /\ phase' = IF NulsInside(displayIdx) THEN "review" ELSE "overflow"
    /\ UNCHANGED <<memory, upload, domain_len, json, idx, parsed>>

Next ==
    \/ \E u \in Uploads : Upload(u)
    \/ ParseMember
    \/ ParseEnds
    \/ \E displayIdx \in 1..Entries : ShowItem(displayIdx)

Spec == Init /\ [][Next]_vars

-----------------------------------------------------------------------------
(* What a text says: an object, one level deep, whose strings have no        *)
(* escaped quotes.  A place is where the quotes of a key, its colon and its   *)
(* value are in the message.                                                 *)

Without(chars, t, from, to) == \A p \in from..to : t[p] \notin chars
Occurs(c, t, from, to) == Cardinality({p \in from..to : t[p] = c})

IsString(t, first, last) ==
    /\ first < last /\ t[first] = Quote /\ t[last] = Quote
    /\ Without({Quote}, t, first + 1, last - 1)

\* Its last bracket closes the first.
IsArray(t, first, last) ==
    /\ t[first] = "["
    /\ \A p \in first..last : (Occurs("[", t, first, p) = Occurs("]", t, first, p)) <=> p = last

IsWord(t, first, last) ==
    /\ t[first] \notin Blank \union {Quote, "[", "{"}
    /\ Without({",", "}"}, t, first, last) /\ t[last + 1] \in {",", "}"}

IsMember(t, m) ==
    /\ m.colon < m.value /\ m.value <= m.last /\ m.last < Len(t)
    /\ IsString(t, m.open, m.close)
    /\ m.close < m.colon /\ t[m.colon] = ":" /\ Without({":"}, t, m.close + 1, m.colon - 1)
    /\ \A p \in (m.colon + 1)..(m.value - 1) : t[p] \in Blank
    /\ IsString(t, m.value, m.last) \/ IsArray(t, m.value, m.last) \/ IsWord(t, m.value, m.last)

MemberAt(t, m) ==
    [key   |-> SubSeq(t, m.open + 1, m.close - 1),
     value |-> IF t[m.value] = Quote THEN SubSeq(t, m.value + 1, m.last - 1)
               ELSE SubSeq(t, m.value, m.last)]

\* The end of the i-th member, or the NUL before the text.
Behind(u, i) == IF i = 0 THEN Len(Domain[u]) + 1 ELSE Places[u][i].last

Place == [open : Nat, close : Nat, colon : Nat, value : Nat, last : Nat]

\* The members follow one another, the only quotes are theirs, and so are the colons
\* that are not in a string.
ASSUME PlacesAssumption ==
    \A u \in Uploads :
        LET t == Message(u)
            n == Len(Members[u])
        IN  /\ n \in Nat /\ DOMAIN Members[u] = 1..n /\ Places[u] \in [1..n -> Place]
            /\ \A i \in 1..n :
                  /\ IsMember(t, Places[u][i]) /\ Members[u][i] = MemberAt(t, Places[u][i])
                  /\ Behind(u, i - 1) + 1 < Places[u][i].open
                  /\ Without({Quote}, t, Behind(u, i - 1) + 1, Places[u][i].open - 1)
            /\ Behind(u, n) < Len(t) /\ Without({Quote}, t, Behind(u, n) + 1, Len(t))
            /\ {p \in (Len(Domain[u]) + 2)..Len(t) :
                  t[p] = ":" /\ Occurs(Quote, t, Len(Domain[u]) + 2, p - 1) % 2 = 0}
                 = {Places[u][i].colon : i \in 1..n}

-----------------------------------------------------------------------------
(* Properties.                                                               *)

\* The domain and its NUL fit in their array.
DomainFits == Len(Domain[upload]) < DomainSize

\* Nothing an earlier upload left in memory continues the text.
Terminated == Len(memory) = Len(Domain[upload]) + 1 + Len(Json[upload])

\* Nor are there more colons in it than the uint8_t of the number of items can count.
CountFits == Cardinality(Colons) < 255

Characters == (UNION {ToSet(Domain[u]) \union ToSet(Json[u]) : u \in Uploads}) \union {NUL}

\* Every variable keeps its type.
ArbitraryTypeOK ==
    /\ memory \in Seq(Characters)
    /\ upload \in Uploads
    /\ domain_len \in 0..(DomainSize + 8)
    /\ json \in Nat
    /\ idx \in 0..Entries
    /\ key_positions \in [1..Entries -> Nat]
    /\ value_positions \in [1..Entries -> Nat]
    /\ value_lengths \in [1..Entries -> Nat]
    /\ phase \in {"empty", "parsing", "review", "overrun", "overflow"}

\* Whatever is in memory, the entries stored by this parse lie behind the domain, one
\* behind the other and behind none of them the pointer: no character is shown twice,
\* and each round of the loop moves on, so that it ends.
EntriesInOrder ==
    /\ phase # "empty" => json >= Text
    /\ \A e \in 1..idx :
        /\ Text < key_positions[e]
        /\ key_positions[e] < value_positions[e]
        /\ value_positions[e] + value_lengths[e] < json
        /\ e > 1 => value_positions[e - 1] + value_lengths[e - 1] < key_positions[e]

\* The key and the value of a member are shorter than what they are printed to.
MemberFits(member) == Len(member.key) < KeySize /\ Len(member.value) < TmpBufSize

\* The user pages through the members of the message, in their order, before anything
\* else; and through nothing else if memory ends with the message.  A member is shown
\* with its whole key and its whole value if both fit in what they are printed to.
\* ("JSON parser for maximum of 1 nesting level in JSON", tx.c:267.)  The two scans
\* have to agree, and no entry may be one an earlier message stored.
ReviewShowsMessage ==
    phase = "review" /\ DomainFits =>
        /\ \A i \in DOMAIN Members[upload] :
               /\ MemberFits(Members[upload][i]) =>
                     tx_getItem_arbitrary(i) = Members[upload][i]
               /\ CountFits => i < tx_getNumItems_arbitrary
        /\ Terminated => tx_getNumItems_arbitrary - 1 = Len(Members[upload])

\* Entries are written outside the arrays only for a message with at least as many
\* members as they hold: the brace behind the last value costs one entry, never two.
OverrunNeedsFullMessage ==
    phase = "overrun" /\ DomainFits /\ Terminated => Len(Members[upload]) >= Entries

\* To page through a message writes outside a line or outside tmpBuf only if a key or a
\* value of this message is too long: the NULs go where the parse of this text found an
\* end, never where an earlier message left one.
PagingStaysInside ==
    phase = "overflow" /\ DomainFits /\ Terminated =>
        \E i \in DOMAIN Members[upload] : ~MemberFits(Members[upload][i])

\* The comment at tx.c:267 names one limit, the nesting: a message whose members fit
\* in the arrays reaches its review.
OneLevelIsReviewed ==
    phase = "overrun" /\ Terminated => Len(Members[upload]) > Entries

===============================================================================
