------------------------- MODULE ArbitraryItems_proofs -------------------------
(***************************************************************************)
(* Proofs about ArbitraryItems, for every set of messages and whatever is  *)
(* in the memory behind them: what is stored is in order, whatever the     *)
(* texts are, and it is what the texts say.                                *)
(***************************************************************************)
EXTENDS ArbitraryItems, SequenceTheorems, FiniteSetTheorems, WellFoundedInduction, TLAPS

\* A non-empty set of natural numbers has a least element,
LEMMA LeastNat ==
    ASSUME NEW S \in SUBSET Nat, S # {}
    PROVE  \E x \in S : \A y \in S : x <= y
<1>1. PICK m \in S : \A n \in S : ~ (<<n, m>> \in OpToRel(<, Nat))
  BY NatLessThanWellFounded, WFMin, Zenon
<1>2. OpToRel(<, Nat) = {pair \in Nat \X Nat : pair[1] < pair[2]}
  BY DEF OpToRel
<1>3. \A n \in S : ~ (<<n, m>> \in {pair \in Nat \X Nat : pair[1] < pair[2]})
  BY <1>1, <1>2, Zenon
<1>4. ASSUME NEW n \in S
      PROVE  m <= n
  <2> DEFINE pair == <<n, m>>
  <2>1. pair \in Nat \X Nat /\ pair[1] = n /\ pair[2] = m
    OBVIOUS
  <2>2. ~ (pair[1] < pair[2])
    BY <1>3, <2>1, Zenon
  <2> QED
    BY <2>1, <2>2
<1> QED
  BY <1>4

\* and Min is one.
LEMMA MinNat ==
    ASSUME NEW S \in SUBSET Nat, S # {}
    PROVE  Min(S) \in S
BY LeastNat, Zenon DEF Min

\* The greater of two natural numbers is one of them and not less than either.
LEMMA MaxOfTwo ==
    ASSUME NEW a \in Nat, NEW b \in Nat
    PROVE  Max({a, b}) \in {a, b} /\ Max({a, b}) >= a /\ Max({a, b}) >= b
<1>1. \E x \in {a, b} : \A y \in {a, b} : x >= y
  OBVIOUS
<1> QED
  BY <1>1 DEF Max

\* The sizes of the arrays are numbers.
LEMMA EntriesNat == DomainSize \in Nat /\ Entries \in Nat
<1>1. Entries \in 1..254 /\ DomainSize \in Nat
  BY ArbitraryAssumption DEF ArbitraryAssumption
<1>2. 1..254 \subseteq Nat
  OBVIOUS
<1> QED
  BY <1>1, <1>2, Zenon

\* A pointer that is moved over characters never moves back: Seek returns a position
\* at from or behind it.
LEMMA SeekForward ==
    ASSUME NEW from \in Nat, memory \in Seq(Characters), NEW stops
    PROVE  Seek(from, stops) \in Nat /\ Seek(from, stops) >= from
<1> DEFINE last == Max({from, Len(memory) + 1})
           S == {p \in from..last : At(p) \in stops \union {NUL}}
<1>1. last \in Nat /\ last >= from /\ last >= Len(memory) + 1
  BY MaxOfTwo
<1>2. At(last) = NUL
  BY <1>1 DEF At
<1>3. S \in SUBSET Nat /\ last \in S
  BY <1>1, <1>2
<1>4. Min(S) \in S
  BY <1>3, MinNat, Zenon
<1>5. Seek(from, stops) = Min(S)
  BY DEF Seek
<1> HIDE DEF last
<1> QED
  BY <1>1, <1>4, <1>5

\* So does SkipBlanks.
LEMMA SkipForward ==
    ASSUME NEW from \in Nat, memory \in Seq(Characters)
    PROVE  SkipBlanks(from) \in Nat /\ SkipBlanks(from) >= from
<1> DEFINE last == Max({from, Len(memory) + 1})
           S == {p \in from..last : At(p) \notin Blank}
<1>1. last \in Nat /\ last >= from /\ last >= Len(memory) + 1
  BY MaxOfTwo
<1>2. At(last) \notin Blank
  <2>1. At(last) = NUL
    BY <1>1 DEF At
  <2>2. NUL \notin Blank
    BY Zenon DEF NUL, Blank
  <2> QED
    BY <2>1, <2>2, Zenon
<1>3. S \in SUBSET Nat /\ last \in S
  BY <1>1, <1>2
<1>4. Min(S) \in S
  BY <1>3, MinNat, Zenon
<1>5. SkipBlanks(from) = Min(S)
  BY DEF SkipBlanks
<1> HIDE DEF last
<1> QED
  BY <1>1, <1>4, <1>5

\* The bracket that closes an array is behind the one that opens it.
LEMMA CloseForward ==
    ASSUME NEW from \in Nat, memory \in Seq(Characters), At(from) = "["
    PROVE  CloseBracket(from) \in Nat /\ CloseBracket(from) > from
<1> DEFINE S == {p \in (from + 1)..(Len(memory) + 1) :
                    At(p) = NUL \/ Count("[", from, p - 1) = Count("]", from, p - 1)}
<1>1. from \in DOMAIN memory
  BY DEF At, NUL
<1>2. from <= Len(memory)
  BY <1>1
<1>3. At(Len(memory) + 1) = NUL
  BY DEF At
<1>4. S \in SUBSET Nat /\ Len(memory) + 1 \in S
  BY <1>2, <1>3
<1>5. Min(S) \in S
  BY <1>4, MinNat, Zenon
<1>6. CloseBracket(from) = Min(S)
  BY DEF CloseBracket
<1> QED
  BY <1>4, <1>5, <1>6

\* A value begins behind its key and does not end before it begins.
LEMMA ValueForward ==
    ASSUME NEW key_end \in Nat, memory \in Seq(Characters)
    PROVE  /\ ValueStart(ValueOf(key_end)) \in Nat /\ ValueEnd(ValueOf(key_end)) \in Nat
           /\ key_end < ValueStart(ValueOf(key_end))
           /\ ValueStart(ValueOf(key_end)) <= ValueEnd(ValueOf(key_end))
<1> DEFINE colon == Seek(key_end + 1, {":"})
           value == ValueOf(key_end)
<1>1. colon \in Nat /\ colon >= key_end + 1
  BY SeekForward
<1>2. value \in Nat /\ value > key_end
  <2> DEFINE behind == IF At(colon) = ":" THEN colon + 1 ELSE colon
  <2>1. behind \in Nat /\ behind > key_end
    BY <1>1
  <2>2. SkipBlanks(behind) \in Nat /\ SkipBlanks(behind) >= behind
    <3> HIDE DEF behind
    <3> QED BY <2>1, SkipForward
  <2>3. value = SkipBlanks(behind)
    BY DEF ValueOf
  <2> HIDE DEF behind, value
  <2> QED
    BY <2>1, <2>2, <2>3
<1> SUFFICES /\ ValueStart(value) \in Nat /\ ValueEnd(value) \in Nat
             /\ key_end < ValueStart(value) /\ ValueStart(value) <= ValueEnd(value)
  OBVIOUS
<1> HIDE DEF value
<1>3. CASE At(value) = Quote
  <2>1. Seek(value + 1, {Quote}) \in Nat /\ Seek(value + 1, {Quote}) >= value + 1
    BY <1>2, SeekForward
  <2>2. ValueStart(value) = value + 1 /\ ValueEnd(value) = Seek(value + 1, {Quote})
    <3>1. At(value) # "["
      BY <1>3 DEF Quote
    <3> QED
      BY <1>3, <3>1 DEF ValueStart, ValueEnd
  <2> QED
    BY <1>2, <2>1, <2>2
<1>4. CASE At(value) = "["
  <2>1. At(value) # Quote
    BY <1>4 DEF Quote
  <2> QED
    BY <1>2, <1>4, <2>1, CloseForward DEF ValueStart, ValueEnd
<1>5. CASE At(value) # Quote /\ At(value) # "["
  BY <1>2, <1>5, SeekForward DEF ValueStart, ValueEnd
<1> QED
  BY <1>3, <1>4, <1>5

\* The characters of a message are characters.
LEMMA MessageCharacters ==
    ASSUME NEW u \in Uploads
    PROVE  Message(u) \in Seq(Characters)
<1>1. Domain[u] \in Seq(STRING) /\ Json[u] \in Seq(STRING)
  BY ArbitraryAssumption DEF ArbitraryAssumption
<1>2. /\ \A i \in 1..Len(Domain[u]) : Domain[u][i] \in Characters
      /\ \A i \in 1..Len(Json[u]) : Json[u][i] \in Characters
      /\ NUL \in Characters
  <2>1. ToSet(Domain[u]) \subseteq Characters /\ ToSet(Json[u]) \subseteq Characters
    BY DEF Characters
  <2>2. NUL \in Characters
    BY Zenon DEF Characters
  <2> QED
    BY <1>1, <2>1, <2>2 DEF ToSet
<1>3. Domain[u] \in Seq(Characters) /\ Json[u] \in Seq(Characters) /\ <<NUL>> \in Seq(Characters)
  BY <1>1, <1>2
<1> QED
  BY <1>3 DEF Message

ArbitraryInv == ArbitraryTypeOK /\ EntriesInOrder

\* The arrays are empty when the application starts.
LEMMA InitArbitraryInv == Init => ArbitraryInv
BY ArbitraryAssumption DEF ArbitraryAssumption, Init, ArbitraryInv, ArbitraryTypeOK, EntriesInOrder

\* A new message starts at its own text with no entry.
LEMMA UploadKeepsInv ==
    ASSUME ArbitraryInv, NEW u \in Uploads, Upload(u)
    PROVE  ArbitraryInv'
<1>a. DomainSize \in Nat /\ Entries \in Nat
  BY EntriesNat
<1> DEFINE bytes == Message(u)
<1>1. memory' \in Seq(Characters)
  <2>1. bytes \in Seq(Characters)
    BY MessageCharacters
  <2>2. memory \in Seq(Characters)
    BY DEF ArbitraryInv, ArbitraryTypeOK
  <2>3. memory' = bytes \o SubSeq(memory, Len(bytes) + 1, Len(memory))
    BY DEF Upload
  <2> HIDE DEF bytes
  <2>4. SubSeq(memory, Len(bytes) + 1, Len(memory)) \in Seq(Characters)
    BY <2>1, <2>2
  <2> QED
    BY <2>1, <2>3, <2>4
<1>2. domain_len' \in 0..(DomainSize + 8)
  <2>1. Len(Domain[u]) \in Nat
    OBVIOUS
  <2> QED
    BY <1>a, <2>1 DEF Upload
<1>3. json' = domain_len' + 2 /\ idx' = 0 /\ upload' = u /\ phase' = "parsing"
  BY DEF Upload
<1>4. UNCHANGED <<key_positions, value_positions, value_lengths>>
  BY DEF Upload, parsed
<1>b. PICK d \in 0..(DomainSize + 8) : domain_len' = d
  BY <1>2
<1>c. json' = d + 2 /\ Text' = d + 2
  BY <1>b, <1>3, Zenon DEF Text
<1>d. d \in Nat
  BY <1>a
<1>5. ArbitraryTypeOK'
  <2>1. json' \in Nat /\ idx' \in 0..Entries
    BY <1>a, <1>c, <1>d, <1>3
  <2>2. /\ key_positions' \in [1..Entries -> Nat] /\ value_positions' \in [1..Entries -> Nat]
        /\ value_lengths' \in [1..Entries -> Nat]
    BY <1>4 DEF ArbitraryInv, ArbitraryTypeOK
  <2> QED
    BY <1>1, <1>2, <1>3, <2>1, <2>2, Zenon DEF ArbitraryTypeOK
<1>6. EntriesInOrder'
  <2>1. json' >= Text'
    BY <1>c, <1>d
  <2>2. 1..idx' = {}
    BY <1>3
  <2> QED
    BY <2>1, <2>2, Zenon DEF EntriesInOrder
<1> QED
  BY <1>5, <1>6 DEF ArbitraryInv

\* A member is stored behind the ones before it, and the pointer is left behind it.
LEMMA ParseMemberKeepsInv ==
    ASSUME ArbitraryInv, ParseMember
    PROVE  ArbitraryInv'
<1>a. DomainSize \in Nat /\ Entries \in Nat
  BY EntriesNat
<1> DEFINE key == Seek(json, {Quote}) + 1
           key_end == Seek(key, {Quote})
           value == ValueOf(key_end)
           start == ValueStart(value)
           end == ValueEnd(value)
<1>1. /\ memory \in Seq(Characters) /\ json \in Nat /\ domain_len \in Nat
      /\ phase = "parsing" /\ json >= Text
      /\ UNCHANGED <<memory, upload, domain_len>>
  BY <1>a DEF ArbitraryInv, ArbitraryTypeOK, EntriesInOrder, ParseMember
<1>2. CASE idx < Entries
  <2>1. key \in Nat /\ key > json
    BY <1>1, SeekForward
  <2>2. key_end \in Nat /\ key_end >= key
    <3> HIDE DEF key
    <3> QED BY <1>1, <2>1, SeekForward
  <2>3. start \in Nat /\ end \in Nat /\ key_end < start /\ start <= end
    <3> HIDE DEF key_end
    <3> QED BY <1>1, <2>2, ValueForward
  <2>4. /\ json' = end + 1 /\ idx' = idx + 1 /\ phase' = "parsing"
        /\ key_positions' = [key_positions EXCEPT ![idx + 1] = key]
        /\ value_positions' = [value_positions EXCEPT ![idx + 1] = start]
        /\ value_lengths' = [value_lengths EXCEPT ![idx + 1] = end - start]
    BY <1>1, <1>2 DEF ParseMember, Store
  <2> HIDE DEF key, key_end, value, start, end
  <2>5. /\ idx \in Nat /\ idx' \in 1..Entries
        /\ key_positions \in [1..Entries -> Nat] /\ value_positions \in [1..Entries -> Nat]
        /\ value_lengths \in [1..Entries -> Nat]
    <3>1. idx \in 0..Entries /\ Entries \in Nat
      BY <1>a DEF ArbitraryInv, ArbitraryTypeOK
    <3>2. idx' = idx + 1
      BY <2>4
    <3>3. idx \in Nat /\ idx' \in 1..Entries
      BY <1>2, <3>1, <3>2
    <3> QED
      BY <3>3 DEF ArbitraryInv, ArbitraryTypeOK
  <2>6. /\ key_positions' \in [1..Entries -> Nat] /\ value_positions' \in [1..Entries -> Nat]
        /\ value_lengths' \in [1..Entries -> Nat]
    BY <2>1, <2>3, <2>4, <2>5
  <2>7. ArbitraryTypeOK'
    <3>1. json' \in Nat /\ idx' \in 0..Entries
      BY <2>3, <2>4, <2>5
    <3>2. /\ memory' \in Seq(Characters) /\ upload' \in Uploads
          /\ domain_len' \in 0..(DomainSize + 8)
      BY <1>1 DEF ArbitraryInv, ArbitraryTypeOK
    <3> QED
      BY <2>4, <2>6, <3>1, <3>2, Zenon DEF ArbitraryTypeOK
  <2>8. Text' = Text /\ Text \in Nat
    BY <1>1 DEF Text
  <2>9. json' >= Text'
    BY <1>1, <2>1, <2>2, <2>3, <2>4, <2>8
  <2>10. ASSUME NEW e \in 1..idx'
         PROVE  /\ Text' < key_positions'[e] /\ key_positions'[e] < value_positions'[e]
                /\ value_positions'[e] + value_lengths'[e] < json'
                /\ e > 1 => value_positions'[e - 1] + value_lengths'[e - 1] < key_positions'[e]
    <3>1. \A f \in 1..idx :
            /\ Text < key_positions[f] /\ key_positions[f] < value_positions[f]
            /\ value_positions[f] + value_lengths[f] < json
            /\ f > 1 => value_positions[f - 1] + value_lengths[f - 1] < key_positions[f]
      BY DEF ArbitraryInv, EntriesInOrder
    <3>2. CASE e \in 1..idx
      <4>1. /\ key_positions'[e] = key_positions[e] /\ value_positions'[e] = value_positions[e]
            /\ value_lengths'[e] = value_lengths[e]
            /\ e > 1 => /\ value_positions'[e - 1] = value_positions[e - 1]
                        /\ value_lengths'[e - 1] = value_lengths[e - 1]
        BY <2>4, <2>5, <3>2
      <4>2. value_positions[e] \in Nat /\ value_lengths[e] \in Nat
        <5>1. e \in 1..Entries
          BY <1>a, <2>5, <1>2, <3>2
        <5> QED
          BY <2>5, <5>1
      <4> QED
        BY <1>1, <2>1, <2>2, <2>3, <2>4, <2>8, <3>1, <3>2, <4>1, <4>2
    <3>3. CASE e = idx + 1
      <4>1. key_positions'[e] = key /\ value_positions'[e] = start /\ value_lengths'[e] = end - start
        BY <2>4, <2>5, <3>3
      <4>2. e > 1 => value_positions'[e - 1] + value_lengths'[e - 1] < json
        <5>1. ASSUME e > 1
              PROVE  /\ idx \in 1..idx /\ value_positions'[idx] = value_positions[idx]
                     /\ value_lengths'[idx] = value_lengths[idx]
          BY <2>4, <2>5, <3>3, <5>1
        <5> QED
          BY <2>5, <3>1, <3>3, <5>1
      <4>3. e > 1 => value_positions'[e - 1] \in Nat /\ value_lengths'[e - 1] \in Nat
        <5>1. ASSUME e > 1
              PROVE  e - 1 \in 1..Entries
          <6>1. idx \in Nat /\ idx + 1 \in 1..Entries
            BY <2>4, <2>5, Zenon
          <6> QED
            BY <1>a, <3>3, <5>1, <6>1
        <5> QED
          BY <2>6, <5>1
      <4> QED
        BY <1>1, <2>1, <2>2, <2>3, <2>4, <2>8, <3>3, <4>1, <4>2, <4>3
    <3> QED
      BY <2>4, <2>5, <3>2, <3>3
  <2> QED
    BY <2>7, <2>9, <2>10 DEF ArbitraryInv, EntriesInOrder
<1>3. CASE ~(idx < Entries)
  <2>1. phase' = "overrun" /\ UNCHANGED <<json, idx, parsed>>
    BY <1>3 DEF ParseMember
  <2> QED
    BY <1>1, <2>1 DEF ArbitraryInv, ArbitraryTypeOK, EntriesInOrder, Characters, parsed, Text
<1> QED
  BY <1>2, <1>3

\* No step of the parser takes a variable out of its type or an entry out of order.
LEMMA NextArbitraryInv == ArbitraryInv /\ [Next]_vars => ArbitraryInv'
<1> SUFFICES ASSUME ArbitraryInv, [Next]_vars
             PROVE  ArbitraryInv'
  OBVIOUS
<1>1. CASE \E u \in Uploads : Upload(u)
  BY <1>1, UploadKeepsInv
<1>2. CASE ParseMember
  BY <1>2, ParseMemberKeepsInv
<1>3. CASE ParseEnds
  BY <1>3 DEF ParseEnds, ArbitraryInv, ArbitraryTypeOK, EntriesInOrder, Characters, parsed, Text
<1>4. CASE \E displayIdx \in 1..Entries : ShowItem(displayIdx)
  <2>1. UNCHANGED <<memory, upload, domain_len, json, idx, parsed>>
    BY <1>4 DEF ShowItem
  <2>2. phase = "review" /\ phase' \in {"review", "overflow"}
    BY <1>4 DEF ShowItem
  <2> QED
    BY <2>1, <2>2 DEF ArbitraryInv, ArbitraryTypeOK, EntriesInOrder, Characters, parsed, Text
<1>5. CASE UNCHANGED vars
  BY <1>5 DEF vars, ArbitraryInv, ArbitraryTypeOK, EntriesInOrder, Characters, parsed, Text
<1> QED
  BY <1>1, <1>2, <1>3, <1>4, <1>5, Zenon DEF Next

\* For every message and every content of the memory behind it, the variables keep
\* their types (tx_parse_arbitrary, tx.c:268).
THEOREM ArbitraryTypeCorrect == Spec => []ArbitraryTypeOK
<1>1. ArbitraryInv => ArbitraryTypeOK
  BY DEF ArbitraryInv
<1> QED
  BY InitArbitraryInv, NextArbitraryInv, <1>1, PTL DEF Spec

\* For every message and every content of the memory behind it, entries are disjoint
\* and in order, and every round of the loop moves the pointer on (tx.c:274-320).
THEOREM EntriesStayInOrder == Spec => []EntriesInOrder
<1>1. ArbitraryInv => EntriesInOrder
  BY DEF ArbitraryInv
<1> QED
  BY InitArbitraryInv, NextArbitraryInv, <1>1, PTL DEF Spec

-----------------------------------------------------------------------------
(* What a message says is read from memory.                                  *)

\* The least element is what is least.
LEMMA MinIs ==
    ASSUME NEW S \in SUBSET Nat, NEW x \in S, \A y \in S : x <= y
    PROVE  Min(S) = x
<1> DEFINE m == CHOOSE z \in S : \A y \in S : z <= y
<1>1. m \in S /\ \A y \in S : m <= y
  OBVIOUS
<1>2. Min(S) = m
  BY DEF Min
<1> HIDE DEF m
<1>3. m \in Nat /\ x \in Nat /\ m <= x /\ x <= m
  BY <1>1
<1> QED
  BY <1>2, <1>3

\* A pointer stops at the first character that stops it,
LEMMA SeekIs ==
    ASSUME memory \in Seq(Characters), NEW from \in Nat, NEW to \in Nat, from <= to,
           to <= Len(memory), NEW stops, At(to) \in stops,
           \A p \in from..(to - 1) : At(p) \notin stops \union {NUL}
    PROVE  Seek(from, stops) = to
<1> DEFINE last == Max({from, Len(memory) + 1})
           S == {p \in from..last : At(p) \in stops \union {NUL}}
<1>1. last \in Nat /\ last >= Len(memory) + 1
  BY MaxOfTwo
<1>2. Seek(from, stops) = Min(S)
  BY DEF Seek
<1> HIDE DEF last
<1>3. S \in SUBSET Nat /\ to \in S
  BY <1>1
<1>4. ASSUME NEW y \in S PROVE to <= y
  <2>1. y \in Nat /\ y >= from /\ At(y) \in stops \union {NUL}
    BY <1>1
  <2> QED
    BY <2>1
<1> QED
  BY <1>2, <1>3, <1>4, MinIs

\* or at a NUL.
LEMMA SeekStops ==
    ASSUME memory \in Seq(Characters), NEW from \in Nat, NEW stops
    PROVE  At(Seek(from, stops)) \in stops \union {NUL}
<1> DEFINE last == Max({from, Len(memory) + 1})
           S == {p \in from..last : At(p) \in stops \union {NUL}}
<1>1. last \in Nat /\ last >= from /\ last >= Len(memory) + 1
  BY MaxOfTwo
<1>2. Seek(from, stops) = Min(S)
  BY DEF Seek
<1> HIDE DEF last
<1>3. At(last) = NUL
  BY <1>1 DEF At
<1>4. S \in SUBSET Nat /\ last \in S
  BY <1>1, <1>3
<1>5. Min(S) \in S
  BY <1>4, MinNat, Zenon
<1> QED
  BY <1>2, <1>5

\* The same for blanks.
LEMMA SkipIs ==
    ASSUME memory \in Seq(Characters), NEW from \in Nat, NEW to \in Nat, from <= to,
           to <= Len(memory), At(to) \notin Blank, \A p \in from..(to - 1) : At(p) \in Blank
    PROVE  SkipBlanks(from) = to
<1> DEFINE last == Max({from, Len(memory) + 1})
           S == {p \in from..last : At(p) \notin Blank}
<1>1. last \in Nat /\ last >= Len(memory) + 1
  BY MaxOfTwo
<1>2. SkipBlanks(from) = Min(S)
  BY DEF SkipBlanks
<1> HIDE DEF last
<1>3. S \in SUBSET Nat /\ to \in S
  BY <1>1
<1>4. ASSUME NEW y \in S PROVE to <= y
  <2>1. y \in Nat /\ y >= from /\ At(y) \notin Blank
    BY <1>1
  <2> QED
    BY <2>1
<1> QED
  BY <1>2, <1>3, <1>4, MinIs

\* The text of a message has no NUL.
LEMMA TextCharacters ==
    ASSUME NEW u \in Uploads
    PROVE  /\ Len(Message(u)) = Len(Domain[u]) + 1 + Len(Json[u])
           /\ Len(Message(u)) \in Nat /\ Len(Domain[u]) \in Nat /\ Len(Json[u]) \in Nat
           /\ \A p \in (Len(Domain[u]) + 2)..Len(Message(u)) : Message(u)[p] # NUL
<1>1. /\ Domain[u] \in Seq(STRING)
      /\ Json[u] \in Seq(STRING) /\ NUL \notin ToSet(Json[u])
  BY ArbitraryAssumption DEF ArbitraryAssumption
<1> DEFINE d == Domain[u]
           j == Json[u]
           C == STRING \union {NUL}
<1>2. <<NUL>> \in Seq(C) /\ Len(<<NUL>>) = 1
  OBVIOUS
<1> HIDE DEF d, j
<1>3. d \in Seq(C) /\ j \in Seq(C) /\ Len(d) \in Nat /\ Len(j) \in Nat
  BY <1>1 DEF d, j
<1> HIDE DEF C
<1>4. d \o <<NUL>> \in Seq(C) /\ Len(d \o <<NUL>>) = Len(d) + 1
  BY <1>2, <1>3
<1> DEFINE h == d \o <<NUL>>
           t == h \o j
<1> HIDE DEF h
<1>5. t \in Seq(C) /\ Len(t) = Len(h) + Len(j)
  BY <1>3, <1>4 DEF h
<1>6. \A p \in (Len(h) + 1)..Len(t) : t[p] = j[p - Len(h)] /\ p - Len(h) \in 1..Len(j)
  BY <1>3, <1>4, <1>5 DEF h
<1>7. \A i \in 1..Len(j) : j[i] # NUL
  <2>1. DOMAIN j = 1..Len(j)
    BY <1>3
  <2> QED
    BY <1>1, <2>1 DEF ToSet, j
<1>8. Message(u) = t
  BY DEF Message, t, h, d, j
<1> HIDE DEF t
<1>9. \A p \in (Len(d) + 2)..Len(t) : t[p] # NUL
  <2>1. Len(h) + 1 = Len(d) + 2
    BY <1>3, <1>4 DEF h
  <2> QED
    BY <1>6, <1>7, <2>1
<1>10. Len(t) = Len(d) + 1 + Len(j)
  BY <1>4, <1>5 DEF h
<1>11. Len(t) \in Nat
  BY <1>5
<1> QED
  BY <1>3, <1>8, <1>9, <1>10, <1>11, Zenon DEF d, j

\* The upload is in memory, and the text begins where the parser takes it to begin.
MessageKept ==
    /\ domain_len = Len(Domain[upload])
    /\ Len(Message(upload)) <= Len(memory)
    /\ \A p \in 1..Len(Message(upload)) : memory[p] = Message(upload)[p]

\* So memory reads as the message does.
LEMMA MessageAt ==
    ASSUME ArbitraryTypeOK, MessageKept
    PROVE  /\ upload \in Uploads /\ memory \in Seq(Characters)
           /\ Len(Message(upload)) \in Nat /\ Len(memory) \in Nat
           /\ Len(Message(upload)) <= Len(memory)
           /\ Text \in Nat /\ Text >= 2
           /\ \A p \in 1..Len(Message(upload)) : At(p) = Message(upload)[p]
           /\ \A p \in Text..Len(Message(upload)) : At(p) # NUL
<1>1. upload \in Uploads /\ memory \in Seq(Characters)
  BY DEF ArbitraryTypeOK
<1>2. /\ Len(Message(upload)) \in Nat /\ Len(Domain[upload]) \in Nat
      /\ \A p \in (Len(Domain[upload]) + 2)..Len(Message(upload)) : Message(upload)[p] # NUL
  BY <1>1, TextCharacters
<1>3. Text = Len(Domain[upload]) + 2 /\ Len(Message(upload)) \in Nat /\ Len(memory) \in Nat
      /\ Len(Message(upload)) <= Len(memory)
  BY <1>1, <1>2 DEF Text, MessageKept
<1>4. ASSUME NEW p \in 1..Len(Message(upload)) PROVE At(p) = Message(upload)[p]
  <2>1. p \in DOMAIN memory
    BY <1>1, <1>3
  <2> QED
    BY <2>1 DEF At, MessageKept
<1>5. ASSUME NEW p \in Text..Len(Message(upload)) PROVE At(p) # NUL
  <2>1. p \in 1..Len(Message(upload)) /\ p \in (Len(Domain[upload]) + 2)..Len(Message(upload))
    BY <1>2, <1>3
  <2> QED
    BY <1>2, <1>4, <2>1
<1> QED
  BY <1>1, <1>2, <1>3, <1>4, <1>5

\* What stands in the text is found.
LEMMA ScanFinds ==
    ASSUME ArbitraryTypeOK, MessageKept, NEW from \in Nat, NEW to \in Nat, NEW stops,
           Text <= from, from <= to, to <= Len(Message(upload)), Message(upload)[to] \in stops,
           Without(stops, Message(upload), from, to - 1)
    PROVE  Seek(from, stops) = to
<1> DEFINE t == Message(upload)
<1>1. /\ memory \in Seq(Characters) /\ Len(t) \in Nat /\ Len(memory) \in Nat
      /\ Len(t) <= Len(memory) /\ Text \in Nat /\ Text >= 2
      /\ \A p \in 1..Len(t) : At(p) = t[p]
      /\ \A p \in Text..Len(t) : At(p) # NUL
  BY MessageAt
<1>2. t[to] \in stops /\ \A p \in from..(to - 1) : t[p] \notin stops
  BY DEF Without
<1>3. to <= Len(t)
  OBVIOUS
<1> HIDE DEF t
<1>4. At(to) \in stops
  BY <1>1, <1>2, <1>3
<1>5. \A p \in from..(to - 1) : At(p) \notin stops \union {NUL}
  BY <1>1, <1>2, <1>3
<1> QED
  BY <1>1, <1>3, <1>4, <1>5, SeekIs

\* The position of a place in the text.
InText(m) == m \in Place /\ Text <= m.open /\ IsMember(Message(upload), m)

\* A key and the beginning of its value are found from the key's first quote.
LEMMA KeyFound ==
    ASSUME ArbitraryTypeOK, MessageKept, NEW m, InText(m)
    PROVE  /\ Seek(m.open + 1, {Quote}) = m.close /\ ValueOf(m.close) = m.value
           /\ m.open < m.close /\ m.close < m.value /\ Text < m.value
<1> DEFINE t == Message(upload)
<1>1. /\ memory \in Seq(Characters) /\ Len(t) \in Nat /\ Len(memory) \in Nat
      /\ Len(t) <= Len(memory) /\ Text \in Nat /\ Text >= 2
      /\ \A p \in 1..Len(t) : At(p) = t[p]
      /\ \A p \in Text..Len(t) : At(p) # NUL
  BY MessageAt
<1>2. /\ m.open \in Nat /\ m.close \in Nat /\ m.colon \in Nat /\ m.value \in Nat /\ m.last \in Nat
      /\ Text <= m.open /\ m.open < m.close /\ m.close < m.colon /\ m.colon < m.value
      /\ m.value <= m.last /\ m.last < Len(t)
  BY DEF InText, IsMember, IsString, Place
<1>3. /\ t[m.close] = Quote /\ Without({Quote}, t, m.open + 1, m.close - 1)
      /\ t[m.colon] = ":" /\ Without({":"}, t, m.close + 1, m.colon - 1)
      /\ \A p \in (m.colon + 1)..(m.value - 1) : t[p] \in Blank
  BY DEF InText, IsMember, IsString
<1>4. Seek(m.open + 1, {Quote}) = m.close
  <2>1. m.open + 1 \in Nat /\ Text <= m.open + 1 /\ m.open + 1 <= m.close /\ m.close <= Len(t)
    BY <1>1, <1>2
  <2> QED
    BY <1>2, <1>3, <2>1, ScanFinds
<1>5. Seek(m.close + 1, {":"}) = m.colon
  <2>1. m.close + 1 \in Nat /\ Text <= m.close + 1 /\ m.close + 1 <= m.colon /\ m.colon <= Len(t)
    BY <1>1, <1>2
  <2> QED
    BY <1>2, <1>3, <2>1, ScanFinds
<1>6. ValueOf(m.close) = SkipBlanks(m.colon + 1)
  <2>1. At(m.colon) = ":"
    <3>1. m.colon \in 1..Len(t)
      BY <1>1, <1>2
    <3> QED
      BY <1>1, <1>3, <3>1
  <2> QED
    BY <1>5, <2>1 DEF ValueOf
<1>7. t[m.value] \notin Blank
  <2>1. \/ t[m.value] = Quote \/ t[m.value] = "[" \/ t[m.value] \notin Blank
    BY DEF InText, IsMember, IsString, IsArray, IsWord
  <2>2. Quote \notin Blank /\ "[" \notin Blank
    BY DEF Quote, Blank
  <2> QED
    BY <2>1, <2>2
<1> HIDE DEF t
<1>8. SkipBlanks(m.colon + 1) = m.value
  <2>1. m.colon + 1 \in Nat /\ m.colon + 1 <= m.value /\ m.value <= Len(memory)
    BY <1>1, <1>2
  <2>2. At(m.value) \notin Blank
    <3>1. m.value \in 1..Len(t)
      BY <1>1, <1>2
    <3> QED
      BY <1>1, <1>7, <3>1
  <2>3. \A p \in (m.colon + 1)..(m.value - 1) : At(p) \in Blank
    <3>1. \A p \in (m.colon + 1)..(m.value - 1) : p \in 1..Len(t)
      BY <1>1, <1>2
    <3> QED
      BY <1>1, <1>3, <3>1
  <2> QED
    BY <1>1, <1>2, <2>1, <2>2, <2>3, SkipIs
<1> QED
  BY <1>1, <1>2, <1>4, <1>6, <1>8

\* Past no NUL either: the loop that measures the key ends at its quote.
LEMMA QuoteFound ==
    ASSUME ArbitraryTypeOK, MessageKept, NEW m, InText(m)
    PROVE  QuoteBehind(m.open + 1) = m.close
<1> DEFINE t == Message(upload)
           far == Max({m.open + 1, Len(memory) + 1}) + KeySize
           S == {p \in (m.open + 1)..Len(memory) : At(p) = Quote} \union {far}
<1>1. /\ Len(t) \in Nat /\ Len(memory) \in Nat /\ Len(t) <= Len(memory)
      /\ \A p \in 1..Len(t) : At(p) = t[p]
  BY MessageAt
<1>2. /\ m.open \in Nat /\ m.close \in Nat /\ m.open < m.close /\ m.close < Len(t)
      /\ t[m.close] = Quote /\ Without({Quote}, t, m.open + 1, m.close - 1)
  <2>1. /\ m.open \in Nat /\ m.close \in Nat /\ m.colon \in Nat /\ m.value \in Nat /\ m.last \in Nat
        /\ m.open < m.close /\ m.close < m.colon /\ m.colon < m.value
        /\ m.value <= m.last /\ m.last < Len(t)
    BY DEF InText, IsMember, IsString, Place
  <2>2. t[m.close] = Quote /\ Without({Quote}, t, m.open + 1, m.close - 1)
    BY DEF InText, IsMember, IsString
  <2> HIDE DEF t
  <2> QED
    BY <1>1, <2>1, <2>2
<1>3. far \in Nat /\ far >= Len(memory) + 1
  <2>1. KeySize \in Nat
    BY ArbitraryAssumption DEF ArbitraryAssumption
  <2>2. m.open + 1 \in Nat /\ Len(memory) + 1 \in Nat
    BY <1>1, <1>2
  <2> DEFINE x == Max({m.open + 1, Len(memory) + 1})
  <2>3. x \in Nat /\ x >= Len(memory) + 1
    BY <2>2, MaxOfTwo
  <2> HIDE DEF x
  <2>4. x + KeySize \in Nat /\ x + KeySize >= Len(memory) + 1
    BY <1>1, <2>1, <2>3
  <2> QED
    BY <2>4 DEF x
<1> HIDE DEF t, far
<1>4. S \in SUBSET Nat
  BY <1>1, <1>2, <1>3
<1>5. m.close \in S
  <2>1. m.close \in 1..Len(t) /\ m.close \in (m.open + 1)..Len(memory)
    BY <1>1, <1>2
  <2> QED
    BY <1>1, <1>2, <2>1
<1>6. ASSUME NEW y \in S PROVE m.close <= y
  <2>1. CASE y = far
    BY <1>1, <1>2, <1>3, <2>1
  <2>2. CASE y \in (m.open + 1)..Len(memory) /\ At(y) = Quote
    <3>1. y \in (m.open + 1)..(m.close - 1) => y \in 1..Len(t)
      BY <1>1, <1>2
    <3>2. y \in (m.open + 1)..(m.close - 1) => t[y] # Quote
      BY <1>2 DEF Without
    <3>3. y \notin (m.open + 1)..(m.close - 1)
      BY <1>1, <2>2, <3>1, <3>2
    <3> QED
      BY <1>1, <1>2, <2>2, <3>3
  <2> QED
    BY <2>1, <2>2
<1>7. QuoteBehind(m.open + 1) = Min(S)
  BY DEF QuoteBehind, far
<1> HIDE DEF S
<1> QED
  BY <1>4, <1>5, <1>6, <1>7, MinIs

\* Counting brackets in memory is counting those of the text.
LEMMA CountIs ==
    ASSUME ArbitraryTypeOK, MessageKept, NEW c, NEW from \in Nat, NEW to \in Int,
           1 <= from, to <= Len(Message(upload))
    PROVE  Count(c, from, to) = Occurs(c, Message(upload), from, to)
<1> DEFINE t == Message(upload)
<1>1. Len(t) \in Nat /\ \A p \in 1..Len(t) : At(p) = t[p]
  BY MessageAt
<1>2. to <= Len(t)
  OBVIOUS
<1>3. Count(c, from, to) = Cardinality({p \in from..to : At(p) = c})
  BY DEF Count
<1>4. Occurs(c, t, from, to) = Cardinality({p \in from..to : t[p] = c})
  BY DEF Occurs
<1> HIDE DEF t
<1>5. {p \in from..to : At(p) = c} = {p \in from..to : t[p] = c}
  BY <1>1, <1>2
<1> QED
  BY <1>3, <1>4, <1>5 DEF t

\* So an array is read up to the bracket that closes it.
LEMMA ArrayFound ==
    ASSUME ArbitraryTypeOK, MessageKept, NEW v \in Nat, NEW last \in Nat, Text <= v, v <= last,
           last < Len(Message(upload)), IsArray(Message(upload), v, last)
    PROVE  CloseBracket(v) = last + 1
<1> DEFINE t == Message(upload)
           S == {p \in (v + 1)..(Len(memory) + 1) :
                    At(p) = NUL \/ Count("[", v, p - 1) = Count("]", v, p - 1)}
<1>1. /\ memory \in Seq(Characters) /\ Len(t) \in Nat /\ Len(memory) \in Nat
      /\ Len(t) <= Len(memory) /\ Text \in Nat /\ Text >= 2
      /\ \A p \in Text..Len(t) : At(p) # NUL
  BY MessageAt
<1>2. CloseBracket(v) = Min(S)
  BY DEF CloseBracket
<1>3. last < Len(t) /\ 1 <= v
  BY <1>1
<1>4. ASSUME NEW p \in v..last
      PROVE  (Count("[", v, p) = Count("]", v, p)) <=> p = last
  <2>1. p \in Int /\ p <= Len(t)
    BY <1>1, <1>3
  <2>2. Count("[", v, p) = Occurs("[", t, v, p) /\ Count("]", v, p) = Occurs("]", t, v, p)
    BY <1>3, <2>1, CountIs
  <2> QED
    BY <2>2 DEF IsArray
<1> HIDE DEF t
<1>5. S \in SUBSET Nat /\ last + 1 \in S
  <2>1. last + 1 \in (v + 1)..(Len(memory) + 1) /\ (last + 1) - 1 = last /\ last \in v..last
    BY <1>1, <1>3
  <2>2. Count("[", v, (last + 1) - 1) = Count("]", v, (last + 1) - 1)
    BY <1>4, <2>1
  <2> QED
    BY <2>1, <2>2
<1>6. ASSUME NEW y \in S PROVE last + 1 <= y
  <2> SUFFICES ASSUME y <= last PROVE FALSE
    BY <1>1
  <2>1. y \in Text..Len(t) /\ y - 1 \in v..last /\ y - 1 # last
    BY <1>1, <1>3
  <2> QED
    BY <1>1, <1>4, <2>1
<1> HIDE DEF S
<1> QED
  BY <1>2, <1>5, <1>6, MinIs

\* Where a value's text begins, and where what is behind it begins.
First(t, m) == IF t[m.value] = Quote THEN m.value + 1 ELSE m.value
After(t, m) == IF t[m.value] = Quote THEN m.last ELSE m.last + 1

\* Every value is read to its end.
LEMMA ValueFound ==
    ASSUME ArbitraryTypeOK, MessageKept, NEW m, InText(m)
    PROVE  /\ ValueStart(m.value) = First(Message(upload), m)
           /\ ValueEnd(m.value) = After(Message(upload), m)
           /\ First(Message(upload), m) \in Nat /\ After(Message(upload), m) \in Nat
           /\ First(Message(upload), m) <= After(Message(upload), m)
           /\ 1 <= First(Message(upload), m)
           /\ After(Message(upload), m) <= Len(Message(upload))
           /\ After(Message(upload), m) \in {m.last, m.last + 1}
<1> DEFINE t == Message(upload)
           start == ValueStart(m.value)
           end == ValueEnd(m.value)
<1>1. /\ memory \in Seq(Characters) /\ Len(t) \in Nat /\ Len(memory) \in Nat
      /\ Len(t) <= Len(memory) /\ Text \in Nat /\ Text >= 2
      /\ \A p \in 1..Len(t) : At(p) = t[p]
  BY MessageAt
<1>2. m.value \in Nat /\ m.last \in Nat /\ m.value <= m.last /\ m.last < Len(t)
  BY DEF InText, IsMember, Place
<1>3. Text < m.value
  BY KeyFound
<1>4. At(m.value) = t[m.value]
  <2>1. m.value \in 1..Len(t)
    BY <1>1, <1>2, <1>3
  <2> QED
    BY <1>1, <2>1
<1>5. ASSUME start = First(t, m), end = After(t, m), t[m.value] = Quote => m.value < m.last
      PROVE  /\ start \in Nat /\ end \in Nat /\ start <= end /\ 1 <= start
             /\ end <= Len(t) /\ end \in {m.last, m.last + 1}
  <2> HIDE DEF t, start, end
  <2>1. CASE t[m.value] = Quote
    BY <1>1, <1>2, <1>3, <1>5, <2>1 DEF First, After
  <2>2. CASE t[m.value] # Quote
    BY <1>1, <1>2, <1>3, <1>5, <2>2 DEF First, After
  <2> QED
    BY <2>1, <2>2
<1>6. CASE IsString(t, m.value, m.last)
  <2>1. /\ t[m.value] = Quote /\ t[m.last] \in {Quote} /\ m.value < m.last
        /\ Without({Quote}, t, m.value + 1, m.last - 1)
    BY <1>6 DEF IsString
  <2>2. m.value + 1 \in Nat /\ Text <= m.value + 1 /\ m.value + 1 <= m.last /\ m.last <= Len(t)
    BY <1>1, <1>2, <1>3, <2>1
  <2>3. Seek(m.value + 1, {Quote}) = m.last
    BY <1>2, <2>1, <2>2, ScanFinds
  <2>4. start = m.value + 1 /\ end = m.last
    <3>1. At(m.value) = Quote /\ Quote # "["
      BY <1>4, <2>1 DEF Quote
    <3> QED
      BY <2>3, <3>1 DEF ValueStart, ValueEnd
  <2>5. start = First(t, m) /\ end = After(t, m)
    <3> HIDE DEF t, start, end
    <3> QED
      BY <2>1, <2>4 DEF First, After
  <2> HIDE DEF t, start, end
  <2> QED
    BY <1>5, <2>1, <2>5 DEF t, start, end
<1>7. CASE IsArray(t, m.value, m.last)
  <2>1. t[m.value] = "[" /\ "[" # Quote
    BY <1>7 DEF IsArray, Quote
  <2>2. CloseBracket(m.value) = m.last + 1
    BY <1>2, <1>1, <1>3, <1>7, ArrayFound
  <2>3. start = m.value /\ end = m.last + 1
    BY <1>4, <2>1, <2>2 DEF ValueStart, ValueEnd
  <2>4. start = First(t, m) /\ end = After(t, m) /\ t[m.value] # Quote
    <3> HIDE DEF t, start, end
    <3> QED
      BY <2>1, <2>3 DEF First, After
  <2> HIDE DEF t, start, end
  <2> QED
    BY <1>5, <2>4 DEF t, start, end
<1>8. CASE IsWord(t, m.value, m.last)
  <2>1. /\ t[m.value] # "[" /\ t[m.value] # Quote
        /\ Without({",", "}"}, t, m.value, m.last) /\ t[m.last + 1] \in {",", "}"}
    BY <1>8 DEF IsWord
  <2>2. /\ m.last + 1 \in Nat /\ Text <= m.value /\ m.value <= m.last + 1
        /\ m.last + 1 <= Len(t) /\ (m.last + 1) - 1 = m.last
    BY <1>1, <1>2, <1>3
  <2>3. Seek(m.value, {",", "}"}) = m.last + 1
    BY <1>2, <2>1, <2>2, ScanFinds
  <2>4. start = m.value /\ end = m.last + 1
    BY <1>4, <2>1, <2>3 DEF ValueStart, ValueEnd
  <2>5. start = First(t, m) /\ end = After(t, m)
    <3> HIDE DEF t, start, end
    <3> QED
      BY <2>1, <2>4 DEF First, After
  <2> HIDE DEF t, start, end
  <2> QED
    BY <1>5, <2>1, <2>5 DEF t, start, end
<1> QED
  BY <1>6, <1>7, <1>8 DEF InText, IsMember

-----------------------------------------------------------------------------
(* The entries are the members.                                              *)

Size(u) == Len(Members[u])

\* What is assumed of the message in hand.
LEMMA Grammar ==
    ASSUME NEW u \in Uploads
    PROVE  /\ Size(u) \in Nat /\ DOMAIN Members[u] = 1..Size(u) /\ Places[u] \in [1..Size(u) -> Place]
           /\ \A i \in 1..Size(u) :
                  /\ IsMember(Message(u), Places[u][i])
                  /\ Members[u][i] = MemberAt(Message(u), Places[u][i])
                  /\ Behind(u, i - 1) + 1 < Places[u][i].open
                  /\ Without({Quote}, Message(u), Behind(u, i - 1) + 1, Places[u][i].open - 1)
           /\ Behind(u, Size(u)) < Len(Message(u))
           /\ Without({Quote}, Message(u), Behind(u, Size(u)) + 1, Len(Message(u)))
           /\ {p \in (Len(Domain[u]) + 2)..Len(Message(u)) :
                  /\ Message(u)[p] = ":"
                  /\ Occurs(Quote, Message(u), Len(Domain[u]) + 2, p - 1) % 2 = 0}
                 = {Places[u][i].colon : i \in 1..Size(u)}
BY PlacesAssumption, Zenon DEF Size

\* One member is behind the other, in the text.
LEMMA BehindText ==
    ASSUME NEW u \in Uploads, NEW i \in 0..Size(u)
    PROVE  Behind(u, i) \in Nat /\ Behind(u, i) > Len(Domain[u])
<1>1. /\ Size(u) \in Nat /\ Places[u] \in [1..Size(u) -> Place]
      /\ \A k \in 1..Size(u) : /\ IsMember(Message(u), Places[u][k])
                               /\ Behind(u, k - 1) + 1 < Places[u][k].open
  BY Grammar
<1>2. Len(Domain[u]) \in Nat
  BY TextCharacters
<1> DEFINE Wrong == {k \in Nat : k <= Size(u) /\ ~(Behind(u, k) \in Nat /\ Behind(u, k) > Len(Domain[u]))}
<1>3. ASSUME Wrong # {} PROVE FALSE
  <2>1. Wrong \in SUBSET Nat
    OBVIOUS
  <2>2. PICK x \in Wrong : \A y \in Wrong : x <= y
    <3> HIDE DEF Wrong
    <3> QED
      BY <1>3, <2>1, LeastNat
  <2>3. x \in Nat /\ x <= Size(u) /\ ~(Behind(u, x) \in Nat /\ Behind(u, x) > Len(Domain[u]))
    OBVIOUS
  <2>4. x # 0
    BY <1>2, <2>3 DEF Behind
  <2>5. x - 1 \notin Wrong
    <3>1. ASSUME x - 1 \in Wrong PROVE FALSE
      <4>1. x <= x - 1
        BY <2>2, <3>1
      <4> QED
        BY <2>3, <4>1
    <3> QED
      BY <3>1
  <2>6. Behind(u, x - 1) \in Nat /\ Behind(u, x - 1) > Len(Domain[u])
    BY <1>1, <2>3, <2>4, <2>5
  <2> HIDE DEF Wrong
  <2>7. x \in 1..Size(u) /\ Behind(u, x) = Places[u][x].last
    BY <1>1, <2>3, <2>4 DEF Behind
  <2>8. /\ Places[u][x].open \in Nat /\ Places[u][x].close \in Nat /\ Places[u][x].colon \in Nat
        /\ Places[u][x].value \in Nat /\ Places[u][x].last \in Nat
    BY <1>1, <2>7 DEF Place
  <2>9. Places[u][x].open < Places[u][x].last
    <3> DEFINE m == Places[u][x]
    <3>1. m.open < m.close /\ m.close < m.colon /\ m.colon < m.value /\ m.value <= m.last
      BY <1>1, <2>7, Zenon DEF IsMember, IsString
    <3> HIDE DEF m
    <3>2. m.open < m.last
      BY <2>8, <3>1 DEF m
    <3> QED
      BY <3>2 DEF m
  <2> QED
    BY <1>1, <1>2, <2>3, <2>6, <2>7, <2>8, <2>9
<1> QED
  BY <1>1, <1>3

\* So is each place.
LEMMA PlaceInText ==
    ASSUME ArbitraryTypeOK, MessageKept, NEW i \in 1..Size(upload)
    PROVE  /\ InText(Places[upload][i]) /\ Behind(upload, i) = Places[upload][i].last
           /\ Text <= Behind(upload, i - 1) + 1
<1>1. upload \in Uploads /\ Text = Len(Domain[upload]) + 2
  BY MessageAt DEF Text, MessageKept
<1>2. Len(Domain[upload]) \in Nat
  BY <1>1, TextCharacters
<1>3. /\ Size(upload) \in Nat /\ Places[upload] \in [1..Size(upload) -> Place]
      /\ IsMember(Message(upload), Places[upload][i])
      /\ Behind(upload, i - 1) + 1 < Places[upload][i].open
  BY <1>1, Grammar
<1>4. i - 1 \in 0..Size(upload) /\ i # 0
  BY <1>3
<1>5. Behind(upload, i - 1) \in Nat /\ Behind(upload, i - 1) > Len(Domain[upload])
  BY <1>1, <1>4, BehindText
<1>6. Places[upload][i] \in Place /\ Places[upload][i].open \in Nat
  BY <1>3 DEF Place
<1> QED
  BY <1>1, <1>2, <1>3, <1>4, <1>5, <1>6 DEF InText, Behind

\* What is stored for a member.
EntryIs(e) ==
    LET m == Places[upload][e]
        t == Message(upload)
    IN  /\ key_positions[e] = m.open + 1
        /\ value_positions[e] = First(t, m)
        /\ value_lengths[e] = After(t, m) - First(t, m)

\* The first entries are the members, in their order; the pointer is behind the last one
\* that was stored, or nothing is left.
EntriesAreMembers ==
    /\ MessageKept
    /\ \A e \in 1..idx : e <= Size(upload) => EntryIs(e)
    /\ idx <= Size(upload) => json \in {Behind(upload, idx) + 1, Behind(upload, idx) + 2}
    /\ Terminated /\ idx > Size(upload) => At(json) = NUL
    /\ phase \in {"review", "overflow"} => idx >= Size(upload)
    /\ phase = "overrun" => idx = Entries /\ At(json) # NUL

\* For a domain whose end is found.
MembersInv == phase # "empty" /\ DomainFits => EntriesAreMembers

\* A new message is in memory, and no entry is stored.
LEMMA UploadKeepsMembers ==
    ASSUME ArbitraryTypeOK, NEW u \in Uploads, Upload(u)
    PROVE  MembersInv'
<1> SUFFICES ASSUME DomainFits' PROVE EntriesAreMembers'
  BY DEF MembersInv
<1>1. /\ memory' = Message(u) \o SubSeq(memory, Len(Message(u)) + 1, Len(memory))
      /\ upload' = u /\ json' = domain_len' + 2 /\ idx' = 0 /\ phase' = "parsing"
      /\ domain_len' \in IF Len(Domain[u]) < DomainSize THEN {Len(Domain[u])}
                         ELSE DomainSize..(DomainSize + 8)
  BY DEF Upload
<1>2. domain_len' = Len(Domain[u])
  BY <1>1 DEF DomainFits
<1>3. memory \in Seq(Characters) /\ Message(u) \in Seq(Characters)
  BY MessageCharacters DEF ArbitraryTypeOK
<1>4. Size(u) \in Nat /\ Len(Domain[u]) \in Nat
  BY Grammar, TextCharacters
<1>5. MessageKept'
  <2> DEFINE t == Message(u)
             rest == SubSeq(memory, Len(t) + 1, Len(memory))
  <2>1. rest \in Seq(Characters)
    <3> HIDE DEF t
    <3> QED
      BY <1>3 DEF t
  <2>2. memory' = t \o rest
    BY <1>1
  <2> HIDE DEF t, rest
  <2>3. t \in Seq(Characters)
    BY <1>3 DEF t
  <2>4. Len(t) <= Len(memory') /\ \A p \in 1..Len(t) : memory'[p] = t[p]
    BY <2>1, <2>2, <2>3
  <2> QED
    BY <1>1, <1>2, <2>4 DEF MessageKept, t
<1>6. json' = Behind(u, 0) + 1
  BY <1>1, <1>2, <1>4 DEF Behind
<1>7. ~(idx' > Size(upload')) /\ 1..idx' = {}
  BY <1>1, <1>4
<1> QED
  BY <1>1, <1>5, <1>6, <1>7 DEF EntriesAreMembers

\* The next member is stored next.
LEMMA NextMember ==
    ASSUME ArbitraryTypeOK, EntriesAreMembers, ParseMember, idx < Entries, idx < Size(upload)
    PROVE  LET m == Places[upload][idx + 1]
               t == Message(upload)
           IN  /\ key_positions' = [key_positions EXCEPT ![idx + 1] = m.open + 1]
               /\ value_positions' = [value_positions EXCEPT ![idx + 1] = First(t, m)]
               /\ value_lengths' = [value_lengths EXCEPT ![idx + 1] = After(t, m) - First(t, m)]
               /\ json' \in {Behind(upload, idx + 1) + 1, Behind(upload, idx + 1) + 2}
               /\ idx' = idx + 1 /\ phase' = "parsing"
<1> DEFINE i == idx + 1
           m == Places[upload][i]
           t == Message(upload)
<1>1. MessageKept /\ upload \in Uploads /\ idx \in Nat
  <2>1. Entries \in Nat
    BY EntriesNat
  <2> QED
    BY <2>1 DEF EntriesAreMembers, ArbitraryTypeOK
<1>2. Size(upload) \in Nat /\ i \in 1..Size(upload) /\ i - 1 = idx
  BY <1>1, Grammar
<1> HIDE DEF i
<1>3. InText(m) /\ Behind(upload, i) = m.last /\ Text <= Behind(upload, idx) + 1
  BY <1>1, <1>2, PlaceInText
<1>4. Behind(upload, idx) + 1 < m.open /\ Without({Quote}, t, Behind(upload, idx) + 1, m.open - 1)
  BY <1>1, <1>2, Grammar
<1>5. json \in {Behind(upload, idx) + 1, Behind(upload, idx) + 2}
  BY <1>1, <1>2 DEF EntriesAreMembers
<1>6. Behind(upload, idx) \in Nat
  BY <1>1, <1>2, BehindText
<1>7. m.open \in Nat /\ m.open < m.close /\ m.close < Len(t) /\ t[m.open] \in {Quote} /\ Text \in Nat
      /\ Len(t) \in Nat
  <2>1. m \in Place /\ IsMember(t, m) /\ Text \in Nat /\ Len(t) \in Nat
    BY <1>1, <1>3, MessageAt DEF InText
  <2> HIDE DEF m, t
  <2>2. /\ t[m.open] = Quote /\ m.open < m.close /\ m.close < m.colon /\ m.colon < m.value
        /\ m.value <= m.last /\ m.last < Len(t)
    BY <2>1, Zenon DEF IsMember, IsString
  <2> QED
    BY <2>1, <2>2 DEF Place
<1>8. Seek(json, {Quote}) = m.open
  <2> HIDE DEF m, t
  <2>1. json \in Nat /\ Text <= json /\ json <= m.open /\ m.open <= Len(t)
    <3>1. m.close \in Nat
      BY <1>3 DEF InText, Place
    <3> QED
      BY <1>3, <1>4, <1>5, <1>6, <1>7, <3>1
  <2>2. Without({Quote}, t, json, m.open - 1)
    BY <1>4, <1>5, <1>6, <1>7 DEF Without
  <2> QED
    BY <1>1, <1>7, <2>1, <2>2, ScanFinds DEF t
<1>9. Seek(m.open + 1, {Quote}) = m.close /\ ValueOf(m.close) = m.value
  BY <1>1, <1>3, KeyFound
<1>10. Store(m.open + 1, m.close, m.value) /\ phase' = phase /\ phase = "parsing"
  BY <1>8, <1>9 DEF ParseMember
<1>11. /\ ValueStart(m.value) = First(t, m) /\ ValueEnd(m.value) = After(t, m)
       /\ After(t, m) \in {m.last, m.last + 1}
  BY <1>1, <1>3, ValueFound
<1>12. m.last \in Nat
  BY <1>3 DEF InText, Place
<1> HIDE DEF m, t
<1>13. /\ key_positions' = [key_positions EXCEPT ![idx + 1] = m.open + 1]
       /\ value_positions' = [value_positions EXCEPT ![idx + 1] = First(t, m)]
       /\ value_lengths' = [value_lengths EXCEPT ![idx + 1] = After(t, m) - First(t, m)]
       /\ json' = After(t, m) + 1 /\ idx' = idx + 1 /\ phase' = "parsing"
  BY <1>10, <1>11 DEF Store
<1>14. json' \in {Behind(upload, i) + 1, Behind(upload, i) + 2}
  BY <1>3, <1>11, <1>12, <1>13
<1> QED
  BY <1>13, <1>14, Zenon DEF i, m, t

\* A round of the loop stores the next member, or what is left once they are stored.
LEMMA ParseKeepsMembers ==
    ASSUME ArbitraryInv, MembersInv, ParseMember
    PROVE  MembersInv'
<1>1. UNCHANGED <<memory, upload, domain_len>> /\ phase = "parsing" /\ At(json) # NUL
  BY DEF ParseMember
<1> SUFFICES ASSUME DomainFits, EntriesAreMembers PROVE EntriesAreMembers'
  BY <1>1 DEF MembersInv, DomainFits
<1>2. ArbitraryTypeOK /\ MessageKept /\ upload \in Uploads /\ idx \in 0..Entries /\ Entries \in Nat
  BY EntriesNat DEF ArbitraryInv, EntriesAreMembers, ArbitraryTypeOK
<1>3. Size(upload) \in Nat /\ Places[upload] \in [1..Size(upload) -> Place]
  BY <1>2, Grammar
<1>4. MessageKept'
  BY <1>1, <1>2 DEF MessageKept
<1>5. \A p : At(p)' = At(p)
  BY <1>1 DEF At
<1>6. ASSUME UNCHANGED <<json, idx, parsed>>, phase' = "overrun", idx = Entries
      PROVE  EntriesAreMembers'
  BY <1>1, <1>2, <1>4, <1>5, <1>6 DEF EntriesAreMembers, EntryIs, Terminated, parsed, Size, Behind
<1>7. CASE ~(idx < Entries)
  <2>1. UNCHANGED <<json, idx, parsed>> /\ phase' = "overrun"
    BY <1>7 DEF ParseMember
  <2> QED
    BY <1>2, <1>6, <1>7, <2>1
<1>8. ASSUME idx < Entries, Size(upload) <= idx, Terminated PROVE At(json') = NUL
  <2> DEFINE t == Message(upload)
             n == Size(upload)
             first == Seek(json, {Quote})
             key_end == Seek(first + 1, {Quote})
             value == ValueOf(key_end)
  <2>1. idx = n /\ json \in {Behind(upload, n) + 1, Behind(upload, n) + 2}
    BY <1>1, <1>2, <1>3, <1>8 DEF EntriesAreMembers
  <2>2. /\ memory \in Seq(Characters) /\ Len(t) \in Nat /\ Text \in Nat /\ Text >= 2
        /\ \A p \in 1..Len(t) : At(p) = t[p]
        /\ \A p \in Text..Len(t) : At(p) # NUL
    BY <1>2, MessageAt
  <2>3. Without({Quote}, t, Behind(upload, n) + 1, Len(t))
    BY <1>2, Grammar
  <2>4. Behind(upload, n) \in Nat /\ Text <= Behind(upload, n) + 1
    <3>1. Text = Len(Domain[upload]) + 2 /\ Len(Domain[upload]) \in Nat
      BY <1>2, TextCharacters DEF Text, MessageKept
    <3>2. n \in 0..n
      BY <1>3
    <3> HIDE DEF n
    <3>3. Behind(upload, n) \in Nat /\ Behind(upload, n) > Len(Domain[upload])
      BY <1>2, <3>2, BehindText DEF n
    <3> QED
      BY <3>1, <3>3
  <2>5. Len(memory) = Len(t)
    BY <1>2, <1>8, TextCharacters DEF Terminated
  <2> HIDE DEF t, n
  <2>6. json \in Nat /\ json >= Behind(upload, n) + 1
    BY <2>1, <2>4
  <2>7. first \in Nat /\ first >= json /\ At(first) \in {Quote, NUL}
    BY <2>2, <2>6, SeekForward, SeekStops
  <2>8. first > Len(memory)
    <3> SUFFICES ASSUME first <= Len(t) PROVE FALSE
      BY <2>2, <2>5, <2>7
    <3> HIDE DEF first
    <3>1. /\ first \in 1..Len(t) /\ first \in Text..Len(t)
          /\ first \in (Behind(upload, n) + 1)..Len(t)
      BY <2>2, <2>4, <2>6, <2>7
    <3>2. t[first] # Quote
      BY <2>3, <3>1 DEF Without
    <3> QED
      BY <2>2, <2>7, <3>1, <3>2
  <2>9. json' = ValueEnd(value) + 1
    BY <1>8 DEF ParseMember, Store
  <2>10. key_end \in Nat /\ key_end >= first + 1
    <3> HIDE DEF first
    <3> QED
      BY <2>2, <2>7, SeekForward
  <2>11. ValueEnd(value) \in Nat /\ key_end < ValueEnd(value)
    <3> HIDE DEF key_end
    <3>1. /\ ValueStart(value) \in Nat /\ ValueEnd(value) \in Nat
          /\ key_end < ValueStart(value) /\ ValueStart(value) <= ValueEnd(value)
      BY <2>2, <2>10, ValueForward
    <3> HIDE DEF value
    <3> QED
      BY <2>10, <3>1
  <2> HIDE DEF value, key_end, first
  <2>12. json' \notin 1..Len(memory)
    BY <2>2, <2>7, <2>8, <2>9, <2>10, <2>11
  <2>13. DOMAIN memory = 1..Len(memory)
    BY <2>2
  <2> QED
    BY <2>12, <2>13 DEF At
<1>9. ASSUME idx < Entries
      PROVE  /\ idx' = idx + 1 /\ phase' = "parsing"
             /\ \A e \in 1..idx : /\ key_positions'[e] = key_positions[e]
                                  /\ value_positions'[e] = value_positions[e]
                                  /\ value_lengths'[e] = value_lengths[e]
  <2>1. PICK k, s, l : /\ key_positions' = [key_positions EXCEPT ![idx + 1] = k]
                       /\ value_positions' = [value_positions EXCEPT ![idx + 1] = s]
                       /\ value_lengths' = [value_lengths EXCEPT ![idx + 1] = l]
                       /\ idx' = idx + 1 /\ phase' = "parsing"
    BY <1>1, <1>9, Zenon DEF ParseMember, Store
  <2>2. \A e \in 1..idx : e \in 1..Entries /\ e # idx + 1
    BY <1>2
  <2>3. /\ key_positions \in [1..Entries -> Nat] /\ value_positions \in [1..Entries -> Nat]
        /\ value_lengths \in [1..Entries -> Nat]
    BY <1>2 DEF ArbitraryTypeOK
  <2> QED
    BY <2>1, <2>2, <2>3
<1>10. ASSUME idx < Entries, NEW e \in 1..idx, e <= Size(upload) PROVE EntryIs(e)'
  <2>1. EntryIs(e)
    BY <1>10 DEF EntriesAreMembers
  <2> QED
    BY <1>1, <1>9, <1>10, <2>1 DEF EntryIs
<1>11. CASE idx < Entries /\ idx < Size(upload)
  <2>1. /\ key_positions' = [key_positions EXCEPT ![idx + 1] = Places[upload][idx + 1].open + 1]
        /\ value_positions' = [value_positions EXCEPT
                ![idx + 1] = First(Message(upload), Places[upload][idx + 1])]
        /\ value_lengths' = [value_lengths EXCEPT
                ![idx + 1] = After(Message(upload), Places[upload][idx + 1])
                               - First(Message(upload), Places[upload][idx + 1])]
        /\ json' \in {Behind(upload, idx + 1) + 1, Behind(upload, idx + 1) + 2}
        /\ idx' = idx + 1 /\ phase' = "parsing"
    BY <1>2, <1>11, NextMember
  <2>2. idx + 1 \in 1..Entries
    BY <1>2, <1>11
  <2>3. ASSUME NEW e, e = idx + 1 PROVE EntryIs(e)'
    <3>1. /\ key_positions'[e] = Places[upload][e].open + 1
          /\ value_positions'[e] = First(Message(upload), Places[upload][e])
          /\ value_lengths'[e] = After(Message(upload), Places[upload][e])
                                   - First(Message(upload), Places[upload][e])
      BY <1>2, <2>1, <2>2, <2>3 DEF ArbitraryTypeOK
    <3> QED
      BY <1>1, <3>1 DEF EntryIs
  <2>4. ASSUME NEW e \in 1..idx', e <= Size(upload) PROVE EntryIs(e)'
    <3>1. e \in 1..idx \/ e = idx + 1
      BY <1>2, <2>1
    <3> QED
      BY <1>10, <1>11, <2>3, <2>4, <3>1
  <2>5. ~(idx' > Size(upload))
    BY <1>2, <1>3, <1>11, <2>1
  <2>6. Size(upload)' = Size(upload) /\ phase' \notin {"review", "overrun", "overflow"}
    BY <1>1, <2>1 DEF Size
  <2>7. json' \in {Behind(upload', idx') + 1, Behind(upload', idx') + 2}
    BY <1>1, <2>1
  <2> QED
    BY <1>1, <1>4, <2>4, <2>5, <2>6, <2>7 DEF EntriesAreMembers, Size
<1>12. CASE idx < Entries /\ Size(upload) <= idx
  <2>1. idx' = idx + 1 /\ phase' = "parsing"
    BY <1>9, <1>12
  <2>2. ASSUME NEW e \in 1..idx', e <= Size(upload) PROVE EntryIs(e)'
    <3>1. e \in 1..idx
      BY <1>2, <1>3, <1>12, <2>1, <2>2
    <3> QED
      BY <1>10, <1>12, <2>2, <3>1
  <2>3. ~(idx' <= Size(upload))
    BY <1>2, <1>3, <1>12, <2>1
  <2>4. Terminated' => At(json') = NUL
    BY <1>1, <1>8, <1>12 DEF Terminated
  <2>5. At(json') = At(json)'
    BY <1>1 DEF At
  <2> QED
    BY <1>1, <1>4, <2>1, <2>2, <2>3, <2>4, <2>5 DEF EntriesAreMembers, Size
<1> QED
  BY <1>2, <1>3, <1>7, <1>11, <1>12

\* The review opens behind the last member.
LEMMA EndKeepsMembers ==
    ASSUME ArbitraryInv, MembersInv, ParseEnds
    PROVE  MembersInv'
<1>1. /\ UNCHANGED <<memory, upload, domain_len, json, idx, parsed>>
      /\ phase = "parsing" /\ At(json) = NUL /\ phase' = "review"
  BY DEF ParseEnds
<1> SUFFICES ASSUME DomainFits, EntriesAreMembers PROVE EntriesAreMembers'
  BY <1>1 DEF MembersInv, DomainFits
<1>2. ArbitraryTypeOK /\ MessageKept /\ upload \in Uploads /\ idx \in Nat
  <2>1. Entries \in Nat
    BY EntriesNat
  <2> QED
    BY <2>1 DEF ArbitraryInv, EntriesAreMembers, ArbitraryTypeOK
<1>3. idx >= Size(upload)
  <2> SUFFICES ASSUME idx < Size(upload) PROVE FALSE
    BY <1>2, Grammar
  <2> DEFINE m == Places[upload][idx + 1]
             t == Message(upload)
  <2>1. Size(upload) \in Nat /\ idx + 1 \in 1..Size(upload) /\ (idx + 1) - 1 = idx
    BY <1>2, Grammar
  <2>2. InText(m) /\ Text <= Behind(upload, idx) + 1
    BY <1>2, <2>1, PlaceInText
  <2>3. Behind(upload, idx) + 1 < m.open /\ Behind(upload, idx) \in Nat
    BY <1>2, <2>1, Grammar, BehindText
  <2>4. json \in {Behind(upload, idx) + 1, Behind(upload, idx) + 2}
    BY <1>2, <2>1 DEF EntriesAreMembers
  <2>5. m.open \in Nat /\ m.open < Len(t) /\ Len(t) \in Nat /\ Text \in Nat
        /\ \A p \in Text..Len(t) : At(p) # NUL
    <3>1. Len(t) \in Nat /\ Text \in Nat /\ \A p \in Text..Len(t) : At(p) # NUL
      BY <1>2, MessageAt
    <3>2. m \in Place /\ IsMember(t, m)
      BY <2>2 DEF InText
    <3> HIDE DEF m, t
    <3>3. /\ m.open < m.close /\ m.close < m.colon /\ m.colon < m.value
          /\ m.value <= m.last /\ m.last < Len(t)
      BY <3>2, Zenon DEF IsMember, IsString
    <3> QED
      BY <3>1, <3>2, <3>3 DEF Place
  <2> HIDE DEF m, t
  <2>6. json \in Text..Len(t)
    BY <2>2, <2>3, <2>4, <2>5
  <2> QED
    BY <1>1, <2>5, <2>6
<1> QED
  BY <1>1, <1>3 DEF EntriesAreMembers, MessageKept, EntryIs, Terminated, At, parsed, Size, Behind

\* To page through it changes nothing of it.
LEMMA ShowKeepsMembers ==
    ASSUME MembersInv, NEW i, ShowItem(i)
    PROVE  MembersInv'
<1>1. UNCHANGED <<memory, upload, domain_len, json, idx, parsed>>
  BY DEF ShowItem
<1>2. phase = "review" /\ phase' \in {"review", "overflow"}
  BY DEF ShowItem
<1> QED
  BY <1>1, <1>2 DEF MembersInv, DomainFits, EntriesAreMembers, MessageKept, EntryIs, Terminated,
                    At, parsed, Size, Behind

\* So the entries are the members in every state.
LEMMA MembersInvariant == Spec => []MembersInv
<1>1. Init => MembersInv
  BY DEF Init, MembersInv
<1>2. ArbitraryInv /\ MembersInv /\ [Next]_vars => MembersInv'
  <2> SUFFICES ASSUME ArbitraryInv, MembersInv, [Next]_vars PROVE MembersInv'
    OBVIOUS
  <2>1. ArbitraryTypeOK
    BY DEF ArbitraryInv
  <2>2. CASE UNCHANGED vars
    BY <2>2 DEF vars, parsed, MembersInv, DomainFits, EntriesAreMembers, MessageKept, EntryIs,
                Terminated, At, Size, Behind
  <2> QED
    BY <2>1, <2>2, UploadKeepsMembers, ParseKeepsMembers, EndKeepsMembers, ShowKeepsMembers DEF Next
<1>3. Spec => []ArbitraryInv
  BY InitArbitraryInv, NextArbitraryInv, PTL DEF Spec
<1> QED
  BY <1>1, <1>2, <1>3, PTL DEF Spec

\* A piece of the text in memory is that piece of the message.
LEMMA PieceIs ==
    ASSUME ArbitraryTypeOK, MessageKept, NEW a \in Nat, NEW b \in Int,
           1 <= a, b <= Len(Message(upload))
    PROVE  SubSeq(memory, a, b) = SubSeq(Message(upload), a, b)
<1> DEFINE t == Message(upload)
<1>1. memory \in Seq(Characters) /\ t \in Seq(Characters) /\ Len(t) <= Len(memory)
      /\ \A p \in 1..Len(t) : memory[p] = t[p]
  BY MessageAt, MessageCharacters DEF MessageKept
<1>2. b <= Len(t)
  OBVIOUS
<1> HIDE DEF t
<1>3. SubSeq(memory, a, b) = [i \in 1..(1 + b - a) |-> memory[i + a - 1]]
  BY <1>1, <1>2
<1>4. SubSeq(t, a, b) = [i \in 1..(1 + b - a) |-> t[i + a - 1]]
  BY <1>1, <1>2
<1>5. \A i \in 1..(1 + b - a) : memory[i + a - 1] = t[i + a - 1]
  BY <1>1, <1>2
<1> QED
  BY <1>3, <1>4, <1>5 DEF t

\* Nothing is cut off a text that fits.
LEMMA WholePrinted ==
    ASSUME NEW first \in Nat, NEW last \in Int, NEW size \in Nat,
           last - first + 1 < size
    PROVE  Printed(first, last, size) = SubSeq(memory, first, last)
<1> DEFINE S == {last, first + size - 2}
<1>1. last <= first + size - 2
  OBVIOUS
<1>2. Min(S) = last
  <2> DEFINE m == CHOOSE z \in S : \A y \in S : z <= y
  <2>1. \A y \in S : last <= y
    BY <1>1
  <2>2. m \in S /\ \A y \in S : m <= y
    BY <2>1, Zenon
  <2>3. Min(S) = m
    BY Zenon DEF Min
  <2> HIDE DEF m
  <2>4. m \in Int /\ m <= last /\ last <= m
    BY <2>1, <2>2
  <2> QED
    BY <2>3, <2>4
<1> QED
  BY <1>2, Zenon DEF Printed

\* An entry is stored for the whole member, and printed whole if it fits.
LEMMA MemberShown ==
    ASSUME ArbitraryTypeOK, EntriesAreMembers, NEW i \in 1..Size(upload), i <= idx,
           MemberFits(Members[upload][i])
    PROVE  /\ tx_getItem_arbitrary(i) = Members[upload][i]
           /\ NulsInside(i)
<1> DEFINE m == Places[upload][i]
           t == Message(upload)
           key == key_positions[i]
           value == value_positions[i]
           length == value_lengths[i]
           close == Seek(key, {Quote})
<1>1. MessageKept /\ upload \in Uploads /\ i \in 1..idx
  <2>1. idx \in Nat
    <3>1. Entries \in Nat
      BY EntriesNat
    <3> QED
      BY <3>1 DEF ArbitraryTypeOK
  <2>2. upload \in Uploads /\ MessageKept
    BY DEF EntriesAreMembers, ArbitraryTypeOK
  <2>3. Size(upload) \in Nat
    BY <2>2, Grammar
  <2> QED
    BY <2>1, <2>2, <2>3
<1>2. key = m.open + 1 /\ value = First(t, m) /\ length = After(t, m) - First(t, m)
  <2>1. i <= Size(upload)
    BY <1>1, Grammar
  <2>2. EntryIs(i)
    BY <1>1, <2>1 DEF EntriesAreMembers
  <2> QED
    BY <2>2 DEF EntryIs
<1>3. InText(m) /\ Members[upload][i] = MemberAt(t, m)
  BY <1>1, PlaceInText, Grammar
<1>4. /\ Seek(m.open + 1, {Quote}) = m.close /\ m.open \in Nat /\ m.close \in Nat
      /\ m.open < m.close /\ m.close < m.value
  BY <1>1, <1>3, KeyFound DEF InText, Place
<1>5. /\ First(t, m) \in Nat /\ After(t, m) \in Nat
      /\ 1 <= First(t, m) /\ After(t, m) <= Len(t)
  BY <1>1, <1>3, ValueFound
<1>6. m.last \in Nat /\ m.value \in Nat /\ m.value <= m.last /\ m.last < Len(t) /\ Len(t) \in Nat
  BY <1>1, <1>3, TextCharacters DEF InText, Place, IsMember
<1>7. MemberAt(t, m) = [key   |-> SubSeq(t, m.open + 1, m.close - 1),
                        value |-> SubSeq(t, First(t, m), After(t, m) - 1)]
  <2>1. (m.last + 1) - 1 = m.last
    BY <1>6
  <2> HIDE DEF m, t
  <2>2. MemberAt(t, m).key = SubSeq(t, m.open + 1, m.close - 1)
    BY DEF MemberAt
  <2>3. MemberAt(t, m).value = SubSeq(t, First(t, m), After(t, m) - 1)
    <3>1. CASE t[m.value] = Quote
      <4>1. First(t, m) = m.value + 1 /\ After(t, m) = m.last
        BY <3>1 DEF First, After
      <4> QED
        BY <3>1, <4>1 DEF MemberAt
    <3>2. CASE t[m.value] # Quote
      <4>1. First(t, m) = m.value /\ After(t, m) - 1 = m.last
        BY <2>1, <3>2 DEF First, After
      <4> QED
        BY <3>2, <4>1 DEF MemberAt
    <3> QED
      BY <3>1, <3>2
  <2>4. MemberAt(t, m) = [key |-> MemberAt(t, m).key, value |-> MemberAt(t, m).value]
    BY DEF MemberAt
  <2> QED
    BY <2>2, <2>3, <2>4
<1>8. tx_getItem_arbitrary(i) = [key   |-> Printed(key, close - 1, KeySize),
                                 value |-> Printed(value, value + length - 1, TmpBufSize)]
  BY DEF tx_getItem_arbitrary
<1>9. close = m.close
  BY <1>2, <1>4
<1> HIDE DEF m, t, key, value, length, close
<1>10. value + length - 1 = After(t, m) - 1
  BY <1>2, <1>5
<1>11. SubSeq(memory, m.open + 1, m.close - 1) = SubSeq(t, m.open + 1, m.close - 1)
  <2>1. m.open + 1 \in Nat /\ 1 <= m.open + 1 /\ m.close - 1 \in Int /\ m.close - 1 <= Len(t)
    BY <1>4, <1>6
  <2> QED
    BY <1>1, <2>1, PieceIs DEF t
<1>12. SubSeq(memory, First(t, m), After(t, m) - 1) = SubSeq(t, First(t, m), After(t, m) - 1)
  <2>1. After(t, m) - 1 \in Int /\ After(t, m) - 1 <= Len(t)
    BY <1>5, <1>6
  <2> QED
    BY <1>1, <1>5, <2>1, PieceIs DEF t
<1>13. /\ KeySize \in Nat /\ TmpBufSize \in Nat
       /\ m.close - m.open - 1 < KeySize /\ After(t, m) - First(t, m) < TmpBufSize
  <2>1. KeySize \in Nat /\ TmpBufSize \in Nat
    BY ArbitraryAssumption DEF ArbitraryAssumption
  <2>2. /\ Len(SubSeq(t, m.open + 1, m.close - 1)) < KeySize
        /\ Len(SubSeq(t, First(t, m), After(t, m) - 1)) < TmpBufSize
    <3>1. MemberFits(MemberAt(t, m))
      BY <1>3, Zenon
    <3> DEFINE k == SubSeq(t, m.open + 1, m.close - 1)
               v == SubSeq(t, First(t, m), After(t, m) - 1)
    <3>2. MemberFits([key |-> k, value |-> v])
      BY <1>7, <3>1, Zenon
    <3> HIDE DEF k, v
    <3>3. Len(k) < KeySize /\ Len(v) < TmpBufSize
      BY <3>2 DEF MemberFits
    <3> QED
      BY <3>3 DEF k, v
  <2>3. t \in Seq(Characters)
    BY <1>1, MessageCharacters DEF t
  <2>4. Len(SubSeq(t, m.open + 1, m.close - 1)) = m.close - m.open - 1
    <3>1. m.open + 1 \in Nat /\ m.close - 1 \in Nat /\ m.close - 1 <= Len(t) /\ 1 <= m.open + 1
          /\ m.open + 1 <= (m.close - 1) + 1
      BY <1>4, <1>6
    <3>2. Len(SubSeq(t, m.open + 1, m.close - 1)) = (m.close - 1) - (m.open + 1) + 1
      BY <2>3, <3>1
    <3> QED
      BY <1>4, <3>2
  <2>5. First(t, m) > After(t, m) => After(t, m) - First(t, m) < TmpBufSize
    <3>1. First(t, m) \in Nat /\ After(t, m) \in Nat
      BY <1>5
    <3> QED
      BY <2>1, <3>1
  <2>6. ASSUME First(t, m) <= After(t, m) PROVE After(t, m) - First(t, m) < TmpBufSize
    <3>1. After(t, m) - 1 \in Nat /\ After(t, m) - 1 <= Len(t)
          /\ First(t, m) <= (After(t, m) - 1) + 1
      BY <1>5, <1>6, <2>6
    <3>2. Len(SubSeq(t, First(t, m), After(t, m) - 1)) = (After(t, m) - 1) - First(t, m) + 1
      BY <1>5, <2>3, <3>1
    <3>3. Len(SubSeq(t, First(t, m), After(t, m) - 1)) = After(t, m) - First(t, m)
      BY <1>5, <3>2
    <3> QED
      BY <2>2, <3>3, Zenon
  <2>7. After(t, m) - First(t, m) < TmpBufSize
    BY <1>5, <2>5, <2>6
  <2>8. m.close - m.open - 1 < KeySize
    BY <2>2, <2>4, Zenon
  <2> QED
    BY <2>1, <2>7, <2>8
<1>14. tx_getItem_arbitrary(i) = Members[upload][i]
  <2>1. Printed(key, close - 1, KeySize) = SubSeq(memory, m.open + 1, m.close - 1)
    <3>1. m.open + 1 \in Nat /\ m.close - 1 \in Int
          /\ (m.close - 1) - (m.open + 1) + 1 < KeySize
      BY <1>4, <1>13
    <3> QED
      BY <1>2, <1>9, <1>13, <3>1, WholePrinted
  <2>2. Printed(value, value + length - 1, TmpBufSize)
          = SubSeq(memory, First(t, m), After(t, m) - 1)
    <3>1. After(t, m) - 1 \in Int /\ (After(t, m) - 1) - First(t, m) + 1 < TmpBufSize
      BY <1>5, <1>13
    <3> QED
      BY <1>2, <1>5, <1>10, <1>13, <3>1, WholePrinted
  <2> QED
    BY <1>3, <1>7, <1>8, <1>11, <1>12, <2>1, <2>2, Zenon
<1>15. QuoteBehind(key) = m.close
  BY <1>1, <1>2, <1>3, QuoteFound DEF m
<1> QED
  BY <1>2, <1>4, <1>5, <1>13, <1>14, <1>15 DEF NulsInside, key, length

\* The text has as many colons outside strings as members.
LEMMA ColonsOfText ==
    ASSUME ArbitraryTypeOK, MessageKept
    PROVE  LET S == {Places[upload][i].colon : i \in 1..Size(upload)}
           IN  /\ IsFiniteSet(S) /\ Cardinality(S) = Size(upload)
               /\ S = {p \in Text..Len(Message(upload)) :
                          At(p) = ":" /\ Count(Quote, Text, p - 1) % 2 = 0}
<1> DEFINE n == Size(upload)
           t == Message(upload)
           S == {Places[upload][i].colon : i \in 1..n}
           f == [i \in 1..n |-> Places[upload][i].colon]
<1>1. /\ upload \in Uploads /\ Len(t) \in Nat /\ Text \in Nat /\ Text >= 2
      /\ \A p \in 1..Len(t) : At(p) = t[p]
  BY MessageAt
<1>2. n \in Nat
  BY <1>1, Grammar
<1>3. ASSUME NEW i \in 1..n
      PROVE  f[i] \in Nat /\ (i + 1 \in 1..n => f[i] < f[i + 1])
  <2> DEFINE m == Places[upload][i]
             next == Places[upload][i + 1]
  <2>1. m \in Place /\ IsMember(t, m) /\ Behind(upload, i) = m.last
    BY <1>1, <1>2, Grammar DEF Behind
  <2>2. ASSUME i + 1 \in 1..n PROVE next \in Place /\ IsMember(t, next) /\ m.last + 1 < next.open
    <3>1. Behind(upload, (i + 1) - 1) + 1 < next.open /\ next \in Place /\ IsMember(t, next)
      BY <1>1, <2>2, Grammar
    <3>2. (i + 1) - 1 = i
      OBVIOUS
    <3> QED
      BY <2>1, <3>1, <3>2
  <2>3. f[i] = m.colon /\ (i + 1 \in 1..n => f[i + 1] = next.colon)
    OBVIOUS
  <2> HIDE DEF m, next, f, t
  <2>4. m.colon < m.value /\ m.value <= m.last
    BY <2>1, Zenon DEF IsMember
  <2>5. ASSUME i + 1 \in 1..n PROVE next.open < next.close /\ next.close < next.colon
    BY <2>2, <2>5, Zenon DEF IsMember, IsString
  <2> QED
    BY <2>1, <2>2, <2>3, <2>4, <2>5 DEF Place
<1>4. IsFiniteSet(S) /\ Cardinality(S) = n
  <2> HIDE DEF n
  <2>1. f \in [1..n -> S] /\ S = {f[i] : i \in 1..n}
    OBVIOUS
  <2> HIDE DEF f, S
  <2>2. ASSUME NEW i \in 1..n, NEW k \in 1..n, i < k PROVE f[i] < f[k]
    <3> DEFINE Wrong == {j \in Nat : i < j /\ j <= n /\ ~(f[i] < f[j])}
    <3> SUFFICES ASSUME k \in Wrong PROVE FALSE
      BY <2>2
    <3>1. PICK x \in Wrong : \A y \in Wrong : x <= y
      <4>1. Wrong \in SUBSET Nat /\ Wrong # {}
        OBVIOUS
      <4> HIDE DEF Wrong
      <4> QED
        BY <4>1, LeastNat
    <3>2. x \in Nat /\ i < x /\ x <= n /\ ~(f[i] < f[x])
      OBVIOUS
    <3>3. x - 1 \notin Wrong
      <4>1. ASSUME x - 1 \in Wrong PROVE FALSE
        <5>1. x <= x - 1
          BY <3>1, <4>1
        <5> QED
          BY <3>2, <5>1
      <4> QED
        BY <4>1
    <3>4. x - 1 \in 1..n /\ (x - 1) + 1 = x /\ x \in 1..n
      BY <1>2, <3>2
    <3>5. f[x - 1] \in Nat /\ f[x] \in Nat /\ f[i] \in Nat /\ f[x - 1] < f[x]
      BY <1>3, <3>4
    <3>6. x - 1 = i \/ f[i] < f[x - 1]
      BY <1>2, <3>2, <3>3, <3>4
    <3> QED
      BY <3>2, <3>5, <3>6
  <2>3. \A i, k \in 1..n : f[i] = f[k] => i = k
    <3> SUFFICES ASSUME NEW i \in 1..n, NEW k \in 1..n, f[i] = f[k], i # k PROVE FALSE
      OBVIOUS
    <3>1. f[i] \in Nat /\ f[k] \in Nat
      BY <1>3
    <3>2. i < k \/ k < i
      BY <1>2
    <3> QED
      BY <2>2, <3>1, <3>2
  <2>4. f \in Bijection(1..n, S)
    BY <2>1, <2>3 DEF Bijection, Injection, Surjection, IsInjective
  <2>5. IsFiniteSet(1..n) /\ Cardinality(1..n) = n
    <3>1. 1 \in Int /\ n \in Int /\ (1 > n => n = 0) /\ n - 1 + 1 = n
      BY <1>2
    <3> QED
      BY <3>1, FS_Interval
  <2> QED
    BY <2>4, <2>5, FS_Bijection DEF ExistsBijection
<1>5. ASSUME NEW p \in Text..Len(t)
      PROVE  (At(p) = ":" /\ Count(Quote, Text, p - 1) % 2 = 0)
               <=> (t[p] = ":" /\ Occurs(Quote, t, Text, p - 1) % 2 = 0)
  <2>1. p \in 1..Len(t) /\ p - 1 \in Int /\ p - 1 <= Len(t) /\ 1 <= Text
    BY <1>1
  <2>2. At(p) = t[p]
    BY <1>1, <2>1
  <2>3. Count(Quote, Text, p - 1) = Occurs(Quote, t, Text, p - 1)
    BY <1>1, <2>1, CountIs
  <2> QED
    BY <2>2, <2>3
<1>6. {p \in Text..Len(t) : t[p] = ":" /\ Occurs(Quote, t, Text, p - 1) % 2 = 0} = S
  BY <1>1, Grammar DEF Text, MessageKept
<1> HIDE DEF t
<1> QED
  BY <1>4, <1>5, <1>6 DEF t

\* No NUL stands in the text, so the count of colons covers it.
LEMMA ColonsCover ==
    ASSUME ArbitraryTypeOK, MessageKept
    PROVE  /\ IsFiniteSet(Colons) /\ Cardinality(Colons) \in Nat
           /\ Cardinality(Colons) >= Size(upload)
           /\ Terminated => Cardinality(Colons) = Size(upload)
<1> DEFINE t == Message(upload)
           S == {Places[upload][i].colon : i \in 1..Size(upload)}
           T == {p \in Text..Len(t) : At(p) = ":" /\ Count(Quote, Text, p - 1) % 2 = 0}
           end == Seek(Text, {})
<1>1. /\ memory \in Seq(Characters) /\ upload \in Uploads
      /\ Len(t) \in Nat /\ Len(memory) \in Nat /\ Text \in Nat /\ Text >= 2
      /\ \A p \in Text..Len(t) : At(p) # NUL
  BY MessageAt
<1>2. IsFiniteSet(S) /\ Cardinality(S) = Size(upload) /\ S = T
  BY ColonsOfText
<1>3. end \in Nat /\ end >= Text /\ At(end) = NUL
  BY <1>1, SeekForward, SeekStops
<1>4. end > Len(t)
  <2> HIDE DEF t, end
  <2> QED
    BY <1>1, <1>3
<1>5. Colons = {p \in Text..(end - 1) : At(p) = ":" /\ Count(Quote, Text, p - 1) % 2 = 0}
  BY DEF Colons
<1>6. Terminated => end = Len(t) + 1
  <2> SUFFICES ASSUME Terminated PROVE end = Len(t) + 1
    OBVIOUS
  <2>1. Len(t) = Len(memory)
    BY <1>1, TextCharacters DEF Terminated
  <2> DEFINE last == Max({Text, Len(memory) + 1})
             Z == {p \in Text..last : At(p) \in {} \union {NUL}}
  <2>2. Text = Len(Domain[upload]) + 2 /\ Len(t) = Len(Domain[upload]) + 1 + Len(Json[upload])
        /\ Len(Json[upload]) \in Nat /\ Len(Domain[upload]) \in Nat
    BY <1>1, TextCharacters DEF Text, MessageKept
  <2>3. Text <= Len(memory) + 1
    <3>1. \A d, j \in Nat : d + 2 <= (d + 1 + j) + 1
      OBVIOUS
    <3>2. Text <= Len(t) + 1
      BY <2>2, <3>1, Zenon
    <3> QED
      BY <2>1, <3>2, Zenon
  <2>4. last = Len(memory) + 1
    BY <1>1, <2>3, MaxOfTwo
  <2>5. At(Len(memory) + 1) = NUL
    BY <1>1 DEF At
  <2> HIDE DEF t, last
  <2>6. Z \in SUBSET Nat /\ Len(memory) + 1 \in Z
    BY <1>1, <2>3, <2>4, <2>5
  <2>7. \A y \in Z : Len(memory) + 1 <= y
    BY <1>1, <2>1
  <2>8. Min(Z) = Len(memory) + 1
    <3> HIDE DEF Z
    <3> QED
      BY <2>6, <2>7, MinIs
  <2> QED
    BY <2>1, <2>8 DEF Seek, last
<1>7. IsFiniteSet(Colons) /\ Cardinality(Colons) \in Nat
  <2>1. IsFiniteSet(Text..(end - 1))
    BY <1>1, <1>3, FS_Interval
  <2>2. Colons \in SUBSET (Text..(end - 1))
    BY <1>5
  <2> HIDE DEF end
  <2> QED
    BY <2>1, <2>2, FS_Subset, FS_CardinalityType
<1>8. S \in SUBSET Colons
  <2> HIDE DEF S, t, end
  <2> QED
    BY <1>1, <1>2, <1>3, <1>4, <1>5
<1>9. Terminated => Colons = S
  <2> HIDE DEF S, t, end
  <2>1. (Len(t) + 1) - 1 = Len(t)
    BY <1>1
  <2> QED
    BY <1>2, <1>5, <1>6, <2>1
<1> HIDE DEF S
<1> QED
  BY <1>2, <1>7, <1>8, <1>9, FS_Subset

\* A review opens on exactly the members, for every message that is one object of one
\* level without escaped quotes, whatever an earlier one left behind it; and each is shown
\* whole whose key fits in a line and whose value fits in tmpBuf (tx.c:234-320).
THEOREM ReviewsShowMessages == Spec => []ReviewShowsMessage
<1>1. ArbitraryInv /\ MembersInv => ReviewShowsMessage
  <2> SUFFICES ASSUME ArbitraryTypeOK, EntriesAreMembers, phase = "review"
               PROVE  /\ \A i \in DOMAIN Members[upload] :
                             /\ MemberFits(Members[upload][i]) =>
                                   tx_getItem_arbitrary(i) = Members[upload][i]
                             /\ CountFits => i < tx_getNumItems_arbitrary
                      /\ Terminated => tx_getNumItems_arbitrary - 1 = Len(Members[upload])
    BY DEF ArbitraryInv, MembersInv, ReviewShowsMessage
  <2>1. upload \in Uploads /\ MessageKept /\ idx \in 0..Entries /\ Entries \in 1..254
        /\ idx >= Size(upload)
    BY ArbitraryAssumption DEF ArbitraryAssumption, ArbitraryTypeOK, EntriesAreMembers
  <2>2. Size(upload) \in Nat /\ DOMAIN Members[upload] = 1..Size(upload)
    BY <2>1, Grammar
  <2> DEFINE c == Cardinality(Colons)
  <2>3. c \in Nat /\ c >= Size(upload) /\ (Terminated => c = Size(upload))
    BY <2>1, ColonsCover
  <2>4. tx_getNumItems_arbitrary = (1 + c) % 256
    BY DEF tx_getNumItems_arbitrary
  <2>5. CountFits => c < 255
    BY DEF CountFits
  <2> HIDE DEF c
  <2>6. c < 255 => (1 + c) % 256 = 1 + c
    BY <2>3
  <2>7. Terminated => c < 255
    <3>1. Size(upload) <= 254
      BY <2>1, <2>2
    <3> QED
      BY <2>3, <3>1
  <2>8. ASSUME NEW i \in 1..Size(upload)
        PROVE  /\ MemberFits(Members[upload][i]) =>
                     tx_getItem_arbitrary(i) = Members[upload][i]
               /\ CountFits => i < tx_getNumItems_arbitrary
    <3>1. i <= idx
      BY <2>1, <2>2
    <3>2. CountFits => i < 1 + c
      BY <2>2, <2>3
    <3> QED
      BY <2>4, <2>5, <2>6, <3>1, <3>2, MemberShown
  <2>9. Terminated => tx_getNumItems_arbitrary - 1 = Size(upload)
    BY <2>2, <2>3, <2>4, <2>6, <2>7
  <2> QED
    BY <2>2, <2>8, <2>9 DEF Size
<1> QED
  BY <1>1, InitArbitraryInv, NextArbitraryInv, MembersInvariant, PTL DEF Spec

\* The item that was paged to when a NUL went outside its array.
OverflowInv ==
    phase = "overflow" =>
        \E i \in 1..Entries : i < tx_getNumItems_arbitrary /\ ~NulsInside(i)

\* It is still there: nothing runs behind it.
LEMMA OverflowInvariant == Spec => []OverflowInv
<1>1. Init => OverflowInv
  BY DEF Init, OverflowInv
<1>2. OverflowInv /\ [Next]_vars => OverflowInv'
  <2> SUFFICES ASSUME OverflowInv, [Next]_vars, phase' = "overflow"
               PROVE  \E i \in 1..Entries : (i < tx_getNumItems_arbitrary /\ ~NulsInside(i))'
    BY DEF OverflowInv
  <2>1. ASSUME UNCHANGED <<memory, upload, domain_len, json, idx, parsed>>, NEW i
        PROVE  /\ tx_getNumItems_arbitrary' = tx_getNumItems_arbitrary
               /\ NulsInside(i)' = NulsInside(i)
    BY <2>1 DEF tx_getNumItems_arbitrary, Colons, Count, Text, Seek, At, NulsInside, QuoteBehind,
                parsed
  <2>2. CASE \E u \in Uploads : Upload(u)
    BY <2>2 DEF Upload
  <2>3. CASE ParseMember
    BY <2>3 DEF ParseMember
  <2>4. CASE ParseEnds
    BY <2>4 DEF ParseEnds
  <2>5. CASE \E i \in 1..Entries : ShowItem(i)
    <3>1. PICK i \in 1..Entries : ShowItem(i)
      BY <2>5
    <3>2. i < tx_getNumItems_arbitrary /\ ~NulsInside(i)
      BY <3>1 DEF ShowItem
    <3>3. UNCHANGED <<memory, upload, domain_len, json, idx, parsed>>
      BY <3>1 DEF ShowItem
    <3> QED
      BY <2>1, <3>2, <3>3
  <2>6. CASE UNCHANGED vars
    <3>1. UNCHANGED <<memory, upload, domain_len, json, idx, parsed>> /\ phase = "overflow"
      BY <2>6 DEF vars
    <3>2. PICK i \in 1..Entries : i < tx_getNumItems_arbitrary /\ ~NulsInside(i)
      BY <3>1 DEF OverflowInv
    <3> QED
      BY <2>1, <3>1, <3>2
  <2> QED
    BY <2>2, <2>3, <2>4, <2>5, <2>6, Zenon DEF Next
<1> QED
  BY <1>1, <1>2, PTL DEF Spec

\* Paging writes outside an array only for a message with a key or a value that is too
\* long, for the same messages and whatever an earlier one stored (tx.c:234-246).
THEOREM PagingIsInside == Spec => []PagingStaysInside
<1>1. ArbitraryInv /\ MembersInv /\ OverflowInv => PagingStaysInside
  <2> SUFFICES ASSUME ArbitraryTypeOK, EntriesAreMembers, OverflowInv, phase = "overflow", Terminated
               PROVE  \E i \in DOMAIN Members[upload] : ~MemberFits(Members[upload][i])
    BY DEF ArbitraryInv, MembersInv, PagingStaysInside
  <2>1. PICK i \in 1..Entries : i < tx_getNumItems_arbitrary /\ ~NulsInside(i)
    BY DEF OverflowInv
  <2>2. upload \in Uploads /\ MessageKept /\ idx \in 0..Entries /\ Entries \in 1..254
        /\ idx >= Size(upload)
    BY ArbitraryAssumption DEF ArbitraryAssumption, ArbitraryTypeOK, EntriesAreMembers
  <2>3. Size(upload) \in Nat /\ DOMAIN Members[upload] = 1..Size(upload)
    BY <2>2, Grammar
  <2>4. Cardinality(Colons) = Size(upload)
    BY <2>2, ColonsCover
  <2>5. (1 + Size(upload)) % 256 = 1 + Size(upload)
    BY <2>2, <2>3
  <2>6. tx_getNumItems_arbitrary = 1 + Size(upload)
    BY <2>4, <2>5 DEF tx_getNumItems_arbitrary
  <2>7. i \in 1..Size(upload) /\ i <= idx
    BY <2>1, <2>2, <2>3, <2>6
  <2> QED
    BY <2>1, <2>3, <2>7, MemberShown
<1> QED
  BY <1>1, InitArbitraryInv, NextArbitraryInv, MembersInvariant, OverflowInvariant, PTL DEF Spec

\* The arrays are left only for a message with as many members as they hold, for the same
\* messages: the loop runs at most once more than there are members (tx.c:274-320).
THEOREM OverrunsNeedFullMessages == Spec => []OverrunNeedsFullMessage
<1>1. ArbitraryInv /\ MembersInv => OverrunNeedsFullMessage
  <2> SUFFICES ASSUME ArbitraryTypeOK, EntriesAreMembers, phase = "overrun", Terminated
               PROVE  Len(Members[upload]) >= Entries
    BY DEF ArbitraryInv, MembersInv, OverrunNeedsFullMessage
  <2>1. upload \in Uploads /\ idx = Entries /\ Entries \in Nat /\ ~(idx > Size(upload))
    BY ArbitraryAssumption DEF ArbitraryAssumption, ArbitraryTypeOK, EntriesAreMembers
  <2>2. Size(upload) \in Nat
    BY <2>1, Grammar
  <2> QED
    BY <2>1, <2>2 DEF Size
<1> QED
  BY <1>1, InitArbitraryInv, NextArbitraryInv, MembersInvariant, PTL DEF Spec

================================================================================
