---------------------------- MODULE TxItems_proofs ----------------------------
(***************************************************************************)
(* Proofs about TxItems, for every transaction and setting: the readers,   *)
(* the counters and the printing agree, position by position.              *)
(***************************************************************************)
EXTENDS TxItems, FiniteSetTheorems, SequenceTheorems, WellFoundedInduction, TLAPS

\* A set of positions has a first one.
LEMMA FirstPosition ==
    ASSUME NEW S, S \subseteq Nat, S # {}
    PROVE  \E x \in S : \A y \in S : x <= y
<1> DEFINE less == {ss \in Nat \X Nat : ss[1] < ss[2]}
<1>1. IsWellFoundedOn(less, Nat)
  BY NatLessThanWellFounded, Zenon DEF OpToRel
<1> HIDE DEF less
<1>2. \E x \in S : \A y \in S : ~(<<y, x>> \in less)
  BY <1>1, WFMin, Zenon
<1>3. PICK x \in S : \A y \in S : ~(<<y, x>> \in less)
  BY <1>2
<1>4. ASSUME NEW y \in S PROVE x <= y
  <2>1. x \in Nat /\ y \in Nat
    OBVIOUS
  <2>2. <<y, x>> \in less <=> y < x
    BY <2>1, SMT DEF less
  <2> QED
    BY <1>3, <2>1, <2>2
<1> QED
  BY <1>4

-----------------------------------------------------------------------------
(* Sequences put one behind the other.                                       *)

\* Where the i-th of the sequences s ends, when they stand one behind the other.
Ending(s, n, L) ==
    /\ L \in [0..n -> Nat]
    /\ L[0] = 0
    /\ \A i \in 1..n : L[i] = L[i - 1] + Len(s[i])

\* r is the sequences s one behind the other.
Joins(s, n, L, r, S) ==
    /\ r \in Seq(S)
    /\ Len(r) = L[n]
    /\ \A i \in 1..n : \A j \in 1..Len(s[i]) : L[i - 1] + j \in 1..L[n] /\ r[L[i - 1] + j] = s[i][j]
    /\ \A p \in 1..L[n] : \E i \in 1..n : \E j \in 1..Len(s[i]) : p = L[i - 1] + j

\* One more sequence behind the others.
LEMMA JoinOneMore ==
    ASSUME NEW S, NEW k \in Nat, NEW s, \A i \in 1..(k + 1) : s[i] \in Seq(S),
           NEW L, Ending(s, k, L), NEW r, Joins(s, k, L, r, S)
    PROVE  \E M : Ending(s, k + 1, M) /\ Joins(s, k + 1, M, r \o s[k + 1], S)
<1> DEFINE t == s[k + 1]
           M == [i \in 0..(k + 1) |-> IF i = k + 1 THEN L[k] + Len(t) ELSE L[i]]
<1>1. t \in Seq(S) /\ Len(t) \in Nat
  OBVIOUS
<1>2. /\ L \in [0..k -> Nat] /\ L[0] = 0 /\ L[k] \in Nat
      /\ \A i \in 1..k : L[i] = L[i - 1] + Len(s[i])
  BY DEF Ending
<1>3. /\ M[k + 1] = L[k] + Len(t)
      /\ \A i \in 0..k : M[i] = L[i]
      /\ M \in [0..(k + 1) -> Nat]
  BY <1>1, <1>2
<1> HIDE DEF M, t
<1>4. Ending(s, k + 1, M)
  <2>1. ASSUME NEW i \in 1..(k + 1) PROVE M[i] = M[i - 1] + Len(s[i])
    <3>1. CASE i = k + 1
      BY <1>3, <3>1 DEF t
    <3>2. CASE i # k + 1
      <4>1. i \in 1..k /\ i - 1 \in 0..k /\ i \in 0..k
        BY <3>2
      <4> QED
        BY <1>2, <1>3, <4>1
    <3> QED
      BY <3>1, <3>2
  <2> QED
    BY <1>2, <1>3, <2>1 DEF Ending
<1>5. /\ r \in Seq(S) /\ Len(r) = L[k]
      /\ \A i \in 1..k : \A j \in 1..Len(s[i]) : L[i - 1] + j \in 1..L[k] /\ r[L[i - 1] + j] = s[i][j]
      /\ \A p \in 1..L[k] : \E i \in 1..k : \E j \in 1..Len(s[i]) : p = L[i - 1] + j
  BY DEF Joins
<1> DEFINE q == r \o t
<1>6. /\ q \in Seq(S) /\ Len(q) = Len(r) + Len(t)
      /\ \A i \in 1..(Len(r) + Len(t)) : q[i] = IF i <= Len(r) THEN r[i] ELSE t[i - Len(r)]
  BY <1>1, <1>5, ConcatProperties, Zenon
<1> HIDE DEF q
<1>7. ASSUME NEW i \in 1..(k + 1), NEW j \in 1..Len(s[i])
      PROVE  M[i - 1] + j \in 1..M[k + 1] /\ q[M[i - 1] + j] = s[i][j]
  <2>1. CASE i = k + 1
    <3>1. j \in 1..Len(t) /\ M[i - 1] = Len(r) /\ Len(r) \in Nat
      BY <1>2, <1>3, <1>5, <2>1 DEF t
    <3>2. Len(r) + j \in 1..(Len(r) + Len(t)) /\ ~(Len(r) + j <= Len(r)) /\ Len(r) + j - Len(r) = j
      BY <1>1, <3>1
    <3>3. q[Len(r) + j] = t[j]
      BY <1>6, <3>2
    <3> QED
      BY <1>3, <1>5, <2>1, <3>1, <3>2, <3>3 DEF t
  <2>2. CASE i # k + 1
    <3>1. i \in 1..k /\ i - 1 \in 0..k
      BY <2>2
    <3>2. M[i - 1] = L[i - 1] /\ L[i - 1] + j \in 1..L[k] /\ r[L[i - 1] + j] = s[i][j]
      BY <1>3, <1>5, <3>1
    <3>3. L[i - 1] + j \in 1..(Len(r) + Len(t)) /\ L[i - 1] + j <= Len(r)
      BY <1>1, <1>2, <1>5, <3>2
    <3>4. q[L[i - 1] + j] = s[i][j]
      BY <1>6, <3>2, <3>3
    <3> QED
      BY <1>3, <1>5, <3>2, <3>3, <3>4
  <2> QED
    BY <2>1, <2>2
<1>8. ASSUME NEW p \in 1..M[k + 1]
      PROVE  \E i \in 1..(k + 1) : \E j \in 1..Len(s[i]) : p = M[i - 1] + j
  <2>1. CASE p \in 1..L[k]
    <3>1. PICK i \in 1..k : \E j \in 1..Len(s[i]) : p = L[i - 1] + j
      BY <1>5, <2>1
    <3>2. i \in 1..(k + 1) /\ M[i - 1] = L[i - 1]
      BY <1>3
    <3> QED
      BY <3>1, <3>2
  <2>2. CASE p \notin 1..L[k]
    <3>1. p - L[k] \in 1..Len(t) /\ k + 1 \in 1..(k + 1) /\ (k + 1) - 1 = k
      BY <1>1, <1>2, <1>3, <2>2
    <3>2. p = M[(k + 1) - 1] + (p - L[k])
      BY <1>2, <1>3, <3>1
    <3> QED
      BY <3>1, <3>2 DEF t
  <2> QED
    BY <2>1, <2>2
<1>9. Joins(s, k + 1, M, q, S)
  BY <1>3, <1>5, <1>6, <1>7, <1>8 DEF Joins
<1> QED
  BY <1>4, <1>9 DEF q, t

\* What FlattenSeq makes of a sequence of sequences.
LEMMA FlattenIsJoin ==
    ASSUME NEW S, NEW n \in Nat \ {0}, NEW s, s = [i \in 1..n |-> s[i]],
           \A i \in 1..n : s[i] \in Seq(S)
    PROVE  \E L : Ending(s, n, L) /\ Joins(s, n, L, FlattenSeq(s), S)
<1> DEFINE Step(g, i) == IF i = 1 THEN s[i] ELSE g[i - 1] \o s[i]
           Flat(g, k) == g = [i \in 1..k |-> Step(g, i)]
           Good(g, k) == Flat(g, k) /\ \E L : Ending(s, k, L) /\ Joins(s, k, L, g[k], S)
           bad == {k \in 1..n : ~\E g : Good(g, k)}
<1>1. Len(s) = n
  OBVIOUS
<1>2. FlattenSeq(s) = (CHOOSE g : Flat(g, n))[n]
  BY <1>1 DEF FlattenSeq
<1>3. \A g, h : Flat(g, n) /\ Flat(h, n) => g[n] = h[n]
  <2> SUFFICES ASSUME NEW g, NEW h, Flat(g, n), Flat(h, n), g[n] # h[n] PROVE FALSE
    OBVIOUS
  <2> DEFINE differ == {k \in 1..n : g[k] # h[k]}
  <2>1. \A i \in 1..n : g[i] = Step(g, i) /\ h[i] = Step(h, i)
    <3> HIDE DEF Step
    <3> QED
      OBVIOUS
  <2> HIDE DEF Flat
  <2>2. differ \subseteq Nat /\ differ # {}
    <3>1. n \in differ
      OBVIOUS
    <3> QED
      BY <3>1
  <2>3. PICK k \in differ : \A y \in differ : k <= y
    BY <2>2, FirstPosition
  <2>4. k \in 1..n /\ g[k] # h[k] /\ g[k] = Step(g, k) /\ h[k] = Step(h, k)
    BY <2>1, <2>3
  <2>5. k # 1
    BY <2>4
  <2>6. k - 1 \in 1..n /\ ~(k <= k - 1)
    BY <2>4, <2>5
  <2>7. g[k - 1] = h[k - 1]
    BY <2>3, <2>6
  <2> QED
    BY <2>4, <2>5, <2>7
<1>4. bad = {}
  <2> SUFFICES ASSUME bad # {} PROVE FALSE
    OBVIOUS
  <2> HIDE DEF Good
  <2>1. bad \subseteq Nat
    OBVIOUS
  <2>2. PICK k \in bad : \A y \in bad : k <= y
    BY <2>1, FirstPosition
  <2>3. k \in 1..n /\ ~\E g : Good(g, k)
    BY <2>2
  <2>4. CASE k = 1
    <3> DEFINE h == [i \in 1..1 |-> s[i]]
               L == [i \in 0..1 |-> IF i = 0 THEN 0 ELSE Len(s[1])]
    <3>1. h[1] = s[1] /\ s[1] \in Seq(S) /\ Len(s[1]) \in Nat
      OBVIOUS
    <3>2. Flat(h, 1)
      OBVIOUS
    <3>3. L \in [0..1 -> Nat] /\ L[0] = 0 /\ L[1] = Len(s[1])
      BY <3>1
    <3> HIDE DEF L, h
    <3>4. Ending(s, 1, L)
      <4>1. \A i \in 1..1 : i = 1
        OBVIOUS
      <4> QED
        BY <3>1, <3>3, <4>1 DEF Ending
    <3>5. Joins(s, 1, L, h[1], S)
      <4>1. \A i \in 1..1 : i = 1 /\ i - 1 = 0
        OBVIOUS
      <4>2. \A j \in 1..Len(s[1]) : 0 + j = j
        BY <3>1
      <4>3. 1 \in 1..1
        OBVIOUS
      <4>4. \A i \in 1..1 : \A j \in 1..Len(s[i]) : L[i - 1] + j \in 1..L[1] /\ h[1][L[i - 1] + j] = s[i][j]
        BY <3>1, <3>3, <4>1, <4>2
      <4>5. ASSUME NEW p \in 1..L[1] PROVE \E i \in 1..1 : \E j \in 1..Len(s[i]) : p = L[i - 1] + j
        <5>1. p \in 1..Len(s[1]) /\ p = L[1 - 1] + p
          BY <3>1, <3>3
        <5> QED
          BY <4>3, <5>1
      <4> QED
        BY <3>1, <3>3, <4>4, <4>5 DEF Joins
    <3> HIDE DEF Flat
    <3> QED
      BY <2>3, <2>4, <3>2, <3>4, <3>5 DEF Good
  <2>5. CASE k # 1
    <3> DEFINE m == k - 1
    <3>1. m \in 1..n /\ m \in Nat /\ ~(k <= m) /\ k = m + 1
      BY <2>3, <2>5
    <3> HIDE DEF m
    <3>2. m \notin bad
      BY <2>2, <3>1
    <3>3. PICK g : Good(g, m)
      BY <3>1, <3>2
    <3>4. Flat(g, m) /\ \E L : Ending(s, m, L) /\ Joins(s, m, L, g[m], S)
      BY <3>3 DEF Good
    <3>5. PICK L : Ending(s, m, L) /\ Joins(s, m, L, g[m], S)
      BY <3>4
    <3>6. \A i \in 1..(m + 1) : s[i] \in Seq(S)
      BY <2>3, <3>1
    <3>7. \E M : Ending(s, k, M) /\ Joins(s, k, M, g[m] \o s[k], S)
      BY <3>1, <3>5, <3>6, JoinOneMore
    <3> DEFINE h == [i \in 1..k |-> IF i = k THEN g[m] \o s[k] ELSE g[i]]
    <3>8. /\ h[k] = g[m] \o s[k]
          /\ \A i \in 1..m : h[i] = g[i]
      <4>1. k \in 1..k /\ \A i \in 1..m : i \in 1..k /\ i # k
        BY <2>3, <3>1
      <4> QED
        BY <4>1
    <3>9. \A i \in 1..m : g[i] = Step(g, i)
      <4> HIDE DEF Step
      <4> QED
        BY <3>4
    <3>10. ASSUME NEW i \in 1..k PROVE h[i] = Step(h, i)
      <4> HIDE DEF h
      <4>1. CASE i = k
        <5>1. k # 1 /\ k - 1 = m /\ m \in 1..m
          BY <2>5, <3>1
        <5>2. Step(h, k) = g[m] \o s[k]
          BY <3>8, <5>1
        <5> QED
          BY <3>8, <4>1, <5>2
      <4>2. CASE i # k
        <5>1. i \in 1..m
          BY <3>1, <4>2
        <5>2. i = 1 \/ i - 1 \in 1..m
          BY <3>1, <5>1
        <5>3. Step(h, i) = Step(g, i)
          BY <3>8, <5>2
        <5> QED
          BY <3>8, <3>9, <5>1, <5>3
      <4> QED
        BY <4>1, <4>2
    <3>11. h = [i \in 1..k |-> h[i]]
      OBVIOUS
    <3>12. Flat(h, k)
      <4> HIDE DEF h, Step
      <4> QED
        BY <3>10, <3>11
    <3> HIDE DEF h, Flat
    <3>13. Good(h, k)
      BY <3>7, <3>8, <3>12 DEF Good
    <3> QED
      BY <2>3, <3>13
  <2> QED
    BY <2>4, <2>5
<1>5. PICK g : Good(g, n)
  <2> HIDE DEF Good
  <2> QED
    BY <1>4
<1>6. FlattenSeq(s) = g[n]
  <2> HIDE DEF Flat
  <2>1. Flat(CHOOSE h : Flat(h, n), n)
    BY <1>5
  <2> QED
    BY <1>2, <1>3, <1>5, <2>1
<1> QED
  BY <1>5, <1>6

-----------------------------------------------------------------------------
(* The enumerations and the fields.                                          *)

\* The number of a key is where the enumeration names it.
LEMMA NumberNames ==
    ASSUME NEW m \in Nat, NEW e, DOMAIN e = 1..m, NEW key \in ToSet(e)
    PROVE  IDX(e, key) \in 0..(m - 1) /\ e[IDX(e, key) + 1] = key
<1> DEFINE i == CHOOSE i \in DOMAIN e : e[i] = key
<1>1. \E x \in DOMAIN e : e[x] = key
  BY DEF ToSet
<1>2. i \in DOMAIN e /\ e[i] = key
  BY <1>1, Zenon
<1>3. IDX(e, key) = i - 1
  BY DEF IDX
<1> HIDE DEF i
<1> QED
  BY <1>2, <1>3

\* The fields all transactions may have, with their keys and numbers.
LEMMA CommonFacts ==
    /\ DOMAIN CommonFields = 1..8 /\ DOMAIN CommonIndex = 1..10 /\ Len(CommonIndex) = 10
    /\ IDX(CommonIndex, "fv") = 8
    /\ \A i \in 1..8 : /\ CommonFields[i].key \in ToSet(CommonIndex) \ {"fv", "lv", "none", "type"}
                       /\ CommonFields[i].key \notin Arrays
                       /\ IDX(CommonIndex, CommonFields[i].key) \in 0..7
                       /\ CommonIndex[IDX(CommonIndex, CommonFields[i].key) + 1] = CommonFields[i].key
<1>1. DOMAIN CommonFields = 1..8 /\ DOMAIN CommonIndex = 1..10 /\ Len(CommonIndex) = 10
  BY DEF CommonFields, CommonIndex
<1>2. /\ CommonIndex[1] = "snd" /\ CommonIndex[2] = "lx" /\ CommonIndex[3] = "fee"
      /\ CommonIndex[4] = "gh" /\ CommonIndex[5] = "gen" /\ CommonIndex[6] = "note"
      /\ CommonIndex[7] = "grp" /\ CommonIndex[8] = "rekey" /\ CommonIndex[9] = "fv"
      /\ CommonIndex[10] = "lv"
  BY DEF CommonIndex
<1>3. ToSet(CommonIndex) = {"snd", "lx", "fee", "gh", "gen", "note", "grp", "rekey", "fv", "lv"}
  <2>1. ToSet(CommonIndex) = {CommonIndex[i] : i \in 1..10}
    BY <1>1 DEF ToSet
  <2>2. 1..10 = {1, 2, 3, 4, 5, 6, 7, 8, 9, 10}
    OBVIOUS
  <2> QED
    BY <1>2, <2>1, <2>2
<1>4. ASSUME NEW key \in ToSet(CommonIndex)
      PROVE  IDX(CommonIndex, key) \in 0..9 /\ CommonIndex[IDX(CommonIndex, key) + 1] = key
  <2>1. 10 \in Nat /\ 10 - 1 = 9
    OBVIOUS
  <2>2. IDX(CommonIndex, key) \in 0..(10 - 1) /\ CommonIndex[IDX(CommonIndex, key) + 1] = key
    BY <1>1, <2>1, NumberNames, Zenon
  <2> QED
    BY <2>1, <2>2, Zenon
<1>5. IDX(CommonIndex, "fv") = 8
  <2>1. IDX(CommonIndex, "fv") \in 0..9 /\ CommonIndex[IDX(CommonIndex, "fv") + 1] = "fv"
    BY <1>3, <1>4
  <2> QED
    BY <1>2, <2>1
<1>6. ASSUME NEW i \in 1..8
      PROVE  CommonFields[i].key \in {"snd", "lx", "fee", "gh", "gen", "note", "grp", "rekey"}
  BY DEF CommonFields, Required, Optional, Always
<1>7. Arrays = {"apbx", "apfa", "apas", "apat", "apaa"}
  BY DEF Arrays, ArrayLimit
<1>8. ASSUME NEW i \in 1..8
      PROVE  /\ IDX(CommonIndex, CommonFields[i].key) \in 0..7
             /\ CommonIndex[IDX(CommonIndex, CommonFields[i].key) + 1] = CommonFields[i].key
  <2> DEFINE key == CommonFields[i].key
             x == IDX(CommonIndex, key)
  <2>1. key \in {"snd", "lx", "fee", "gh", "gen", "note", "grp", "rekey"} /\ key \in ToSet(CommonIndex)
    BY <1>3, <1>6
  <2>2. x \in 0..9 /\ CommonIndex[x + 1] = key
    BY <1>4, <2>1
  <2> HIDE DEF key, x
  <2>3. x # 8 /\ x # 9
    BY <1>2, <2>1, <2>2
  <2> QED
    BY <2>2, <2>3 DEF key, x
<1> QED
  BY <1>1, <1>3, <1>5, <1>6, <1>7, <1>8

\* The enumeration of a type has at most twelve keys; none is a common one.
LEMMA TypeIndexFacts ==
    ASSUME NEW t \in TxTypes
    PROVE  /\ \E m \in 1..12 : DOMAIN TypeIndex[t] = 1..m /\ Len(TypeIndex[t]) = m
           /\ ToSet(TypeIndex[t]) \intersect (ToSet(CommonIndex) \union {"none", "type"}) = {}
           /\ t # "appl" => ToSet(TypeIndex[t]) \intersect Arrays = {}
<1> DEFINE other == {"snd", "lx", "fee", "gh", "gen", "note", "grp", "rekey", "fv", "lv", "none", "type"}
<1>1. ToSet(CommonIndex) \union {"none", "type"} = other
  <2>1. DOMAIN CommonIndex = {1, 2, 3, 4, 5, 6, 7, 8, 9, 10}
    BY DEF CommonIndex
  <2>2. ToSet(CommonIndex) = {CommonIndex[i] : i \in {1, 2, 3, 4, 5, 6, 7, 8, 9, 10}}
    BY <2>1 DEF ToSet
  <2>3. /\ CommonIndex[1] = "snd" /\ CommonIndex[2] = "lx" /\ CommonIndex[3] = "fee"
        /\ CommonIndex[4] = "gh" /\ CommonIndex[5] = "gen" /\ CommonIndex[6] = "note"
        /\ CommonIndex[7] = "grp" /\ CommonIndex[8] = "rekey" /\ CommonIndex[9] = "fv"
        /\ CommonIndex[10] = "lv"
    BY DEF CommonIndex
  <2> QED
    BY <2>2, <2>3
<1>2. Arrays = {"apbx", "apfa", "apas", "apat", "apaa"}
  BY DEF Arrays, ArrayLimit
<1>3. t \in {"pay", "keyreg", "axfer", "afrz", "acfg", "appl"}
  BY DEF TxTypes, TypeIndex
<1> DEFINE e == TypeIndex[t]
<1>4. ASSUME NEW m \in 1..12, DOMAIN e = 1..m, Len(e) = m,
             \A i \in 1..m : e[i] \notin other /\ (t # "appl" => e[i] \notin Arrays)
      PROVE  /\ \E k \in 1..12 : DOMAIN e = 1..k /\ Len(e) = k
             /\ ToSet(e) \intersect other = {}
             /\ t # "appl" => ToSet(e) \intersect Arrays = {}
  BY <1>4 DEF ToSet
<1> DEFINE Fine(m) == /\ m \in 1..12 /\ DOMAIN e = 1..m /\ Len(e) = m
                      /\ \A i \in 1..m : e[i] \notin other /\ (t # "appl" => e[i] \notin Arrays)
<1>5. CASE t = "pay"
  <2>1. e = <<"rcv", "amt", "close">>
    BY <1>5 DEF TypeIndex
  <2>2. Fine(3)
    BY <1>2, <2>1
  <2> QED
    BY <1>1, <1>4, <2>2
<1>6. CASE t = "keyreg"
  <2>1. e = <<"votekey", "selkey", "sprfkey", "votefst", "votelst", "votekd", "nonpart">>
    BY <1>6 DEF TypeIndex
  <2>2. Fine(7)
    BY <1>2, <2>1
  <2> QED
    BY <1>1, <1>4, <2>2
<1>7. CASE t = "axfer"
  <2>1. e = <<"xaid", "aamt", "arcv", "asnd", "aclose">>
    BY <1>7 DEF TypeIndex
  <2>2. Fine(5)
    BY <1>2, <2>1
  <2> QED
    BY <1>1, <1>4, <2>2
<1>8. CASE t = "afrz"
  <2>1. e = <<"faid", "fadd", "afrz">>
    BY <1>8 DEF TypeIndex
  <2>2. Fine(3)
    BY <1>2, <2>1
  <2> QED
    BY <1>1, <1>4, <2>2
<1>9. CASE t = "acfg"
  <2>1. e = <<"caid", "t", "df", "un", "dc", "an", "au", "am", "m", "r", "f", "c">>
    BY <1>9 DEF TypeIndex
  <2>2. Fine(12)
    BY <1>2, <2>1
  <2> QED
    BY <1>1, <1>4, <2>2
<1>10. CASE t = "appl"
  <2>1. e = <<"apid", "apan", "apbx", "apfa", "apas", "apat", "apaa",
              "apgs", "apls", "apep", "apap", "apsu">>
    BY <1>10 DEF TypeIndex
  <2>2. Fine(12)
    BY <1>10, <2>1
  <2> QED
    BY <1>1, <1>4, <2>2
<1> QED
  BY <1>3, <1>5, <1>6, <1>7, <1>8, <1>9, <1>10

\* f is a field with this key.
IsField(f, key) == f \in {Required(key), Optional(key), Always(key)}

\* The list f of fields is one of keys of type t, none twice, and the keys it leaves out
\* are those the code only looks for after another.
ListsFields(f, n, t, keys) ==
    /\ n \in 1..12 /\ DOMAIN f = 1..n /\ Len(f) = n /\ f = [i \in 1..n |-> f[i]]
    /\ \A i \in 1..n : f[i].key \in ToSet(TypeIndex[t]) /\ IsField(f[i], f[i].key)
    /\ \A i, k \in 1..n : f[i].key = f[k].key => i = k
    /\ \A key \in ToSet(TypeIndex[t]) :
         (\E i \in 1..n : f[i].key = key)
           <=> /\ key = "votelst" => "votefst" \in keys
               /\ key \in ToSet(TypeIndex.acfg) \ {"caid"} => "apar" \in keys

\* The keys of a field.
LEMMA FieldKey ==
    ASSUME NEW key
    PROVE  /\ Required(key).key = key /\ Optional(key).key = key /\ Always(key).key = key
           /\ IsField(Required(key), key) /\ IsField(Optional(key), key) /\ IsField(Always(key), key)
           /\ \A f : IsField(f, key) => f.key = key
BY DEF Required, Optional, Always, IsField

\* The keys of the asset parameters, which stand in the map "apar".
LEMMA ParamKeys ==
    ToSet(TypeIndex.acfg) \ {"caid"} = {"t", "df", "un", "dc", "an", "au", "am", "m", "r", "f", "c"}
<1> DEFINE e == TypeIndex.acfg
<1>1. e = <<"caid", "t", "df", "un", "dc", "an", "au", "am", "m", "r", "f", "c">>
  BY DEF TypeIndex
<1>2. ToSet(e) = {e[i] : i \in {1, 2, 3, 4, 5, 6, 7, 8, 9, 10, 11, 12}}
  <2>1. DOMAIN e = {1, 2, 3, 4, 5, 6, 7, 8, 9, 10, 11, 12}
    BY <1>1
  <2> QED
    BY <2>1 DEF ToSet
<1>3. ToSet(e) = {"caid", "t", "df", "un", "dc", "an", "au", "am", "m", "r", "f", "c"}
  BY <1>1, <1>2
<1> QED
  BY <1>3

\* A list that has the keys of the enumeration e, in some order p.
LEMMA ListOfKeys ==
    ASSUME NEW t \in TxTypes, NEW keys, NEW n \in 1..12, NEW f, DOMAIN f = 1..n, Len(f) = n,
           f = [i \in 1..n |-> f[i]], DOMAIN TypeIndex[t] = 1..n,
           \A i \in 1..n : IsField(f[i], TypeIndex[t][i]),
           \A i, k \in 1..n : TypeIndex[t][i] = TypeIndex[t][k] => i = k,
           \A i \in 1..n : /\ TypeIndex[t][i] = "votelst" => "votefst" \in keys
                           /\ TypeIndex[t][i] \in ToSet(TypeIndex.acfg) \ {"caid"} => "apar" \in keys
    PROVE  ListsFields(f, n, t, keys)
<1> DEFINE e == TypeIndex[t]
<1>1. \A i \in 1..n : f[i].key = e[i]
  BY FieldKey
<1>2. ToSet(e) = {e[i] : i \in 1..n}
  BY DEF ToSet
<1> HIDE DEF e
<1>3. \A i \in 1..n : f[i].key \in ToSet(e) /\ IsField(f[i], f[i].key)
  BY <1>1, <1>2 DEF e
<1>4. \A i, k \in 1..n : f[i].key = f[k].key => i = k
  BY <1>1 DEF e
<1>5. \A key \in ToSet(e) : \E i \in 1..n : f[i].key = key /\ e[i] = key
  BY <1>1, <1>2
<1> QED
  BY <1>3, <1>4, <1>5 DEF ListsFields, e

\* Tuples one behind the other.
LEMMA JoinedTuples ==
    ASSUME NEW a1, NEW a2, NEW a3, NEW a4, NEW c1, NEW c2
    PROVE  /\ \A b : <<a1, a2, a3, a4>> \o <<b>> \o <<c1, c2>> = <<a1, a2, a3, a4, b, c1, c2>>
           /\ <<a1, a2, a3, a4>> \o <<>> \o <<c1, c2>> = <<a1, a2, a3, a4, c1, c2>>
<1> SUFFICES ASSUME NEW b
             PROVE  /\ <<a1, a2, a3, a4>> \o <<b>> \o <<c1, c2>> = <<a1, a2, a3, a4, b, c1, c2>>
                    /\ <<a1, a2, a3, a4>> \o <<>> \o <<c1, c2>> = <<a1, a2, a3, a4, c1, c2>>
  OBVIOUS
<1> DEFINE S == {a1, a2, a3, a4, b, c1, c2}
           a == <<a1, a2, a3, a4>>
           c == <<c1, c2>>
           u == <<b>>
           r == <<a1, a2, a3, a4, b, c1, c2>>
           q == <<a1, a2, a3, a4, c1, c2>>
<1>1. a \in Seq(S) /\ u \in Seq(S) /\ c \in Seq(S) /\ r \in Seq(S) /\ q \in Seq(S)
  OBVIOUS
<1>2. Len(a) = 4 /\ Len(c) = 2 /\ Len(u) = 1 /\ Len(r) = 7 /\ Len(q) = 6
  OBVIOUS
<1>3. /\ a[1] = a1 /\ a[2] = a2 /\ a[3] = a3 /\ a[4] = a4 /\ c[1] = c1 /\ c[2] = c2 /\ u[1] = b
      /\ r[1] = a1 /\ r[2] = a2 /\ r[3] = a3 /\ r[4] = a4 /\ r[5] = b /\ r[6] = c1 /\ r[7] = c2
      /\ q[1] = a1 /\ q[2] = a2 /\ q[3] = a3 /\ q[4] = a4 /\ q[5] = c1 /\ q[6] = c2
  OBVIOUS
<1> HIDE DEF a, c, r, q, u, S
<1>4. a \o <<>> = a
  BY <1>1, ConcatEmptySeq, Zenon
<1> DEFINE ab == a \o u
           ac == a \o c
<1>5. /\ ab \in Seq(S) /\ Len(ab) = 5
      /\ \A i \in 1..5 : ab[i] = IF i <= 4 THEN a[i] ELSE u[i - 4]
  <2>1. /\ ab \in Seq(S) /\ Len(ab) = Len(a) + Len(u)
        /\ \A i \in 1..(Len(a) + Len(u)) :
             ab[i] = IF i <= Len(a) THEN a[i] ELSE u[i - Len(a)]
    BY <1>1, ConcatProperties, Zenon
  <2> HIDE DEF ab
  <2> QED
    BY <1>2, <2>1
<1>6. /\ ac \in Seq(S) /\ Len(ac) = 6
      /\ \A i \in 1..6 : ac[i] = IF i <= 4 THEN a[i] ELSE c[i - 4]
  <2>1. /\ ac \in Seq(S) /\ Len(ac) = Len(a) + Len(c)
        /\ \A i \in 1..(Len(a) + Len(c)) :
             ac[i] = IF i <= Len(a) THEN a[i] ELSE c[i - Len(a)]
    BY <1>1, ConcatProperties, Zenon
  <2> HIDE DEF ac
  <2> QED
    BY <1>2, <2>1
<1> HIDE DEF ab, ac
<1> DEFINE abc == ab \o c
<1>7. /\ abc \in Seq(S) /\ Len(abc) = 7
      /\ \A i \in 1..7 : abc[i] = IF i <= 5 THEN ab[i] ELSE c[i - 5]
  <2>1. /\ abc \in Seq(S) /\ Len(abc) = Len(ab) + Len(c)
        /\ \A i \in 1..(Len(ab) + Len(c)) :
             abc[i] = IF i <= Len(ab) THEN ab[i] ELSE c[i - Len(ab)]
    BY <1>1, <1>5, ConcatProperties, Zenon
  <2> HIDE DEF abc
  <2> QED
    BY <1>2, <1>5, <2>1
<1> HIDE DEF abc
<1>8. \A i \in 1..7 : i \in {1, 2, 3, 4, 5, 6, 7}
  OBVIOUS
<1>9. abc = r
  <2>1. \A i \in 1..7 : abc[i] = r[i]
    BY <1>3, <1>5, <1>7, <1>8
  <2> QED
    BY <1>1, <1>2, <1>7, <2>1, SeqEqual, Zenon
<1>10. ac = q
  <2>1. \A i \in 1..6 : ac[i] = q[i]
    <3>1. \A i \in 1..6 : i \in {1, 2, 3, 4, 5, 6}
      OBVIOUS
    <3> QED
      BY <1>3, <1>6, <3>1
  <2> QED
    BY <1>1, <1>2, <1>6, <2>1, SeqEqual, Zenon
<1> QED
  BY <1>4, <1>9, <1>10, Zenon DEF abc, ab, ac, r, q, a, c, u

\* The fields of every type are such a list.
LEMMA TypeFieldFacts ==
    ASSUME NEW t \in TxTypes, NEW keys
    PROVE  \E n \in 1..12 : ListsFields(FieldsOf(t, keys), n, t, keys)
<1> DEFINE F == FieldsOf(t, keys)
           e == TypeIndex[t]
<1>1. t \in {"pay", "keyreg", "axfer", "afrz", "acfg", "appl"}
  BY DEF TxTypes, TypeIndex
<1>2. CASE t = "pay"
  <2>1. F = <<Required("rcv"), Always("amt"), Optional("close")>>
    BY <1>2 DEF FieldsOf, PaymentFields
  <2>2. e = <<"rcv", "amt", "close">>
    BY <1>2 DEF TypeIndex
  <2> HIDE DEF F
  <2>3. DOMAIN F = 1..3 /\ Len(F) = 3 /\ DOMAIN e = 1..3 /\ F = [i \in 1..3 |-> F[i]]
    BY <2>1, <2>2
  <2>4. \A i \in 1..3 : IsField(F[i], e[i])
    BY <2>1, <2>2, FieldKey
  <2>5. /\ \A i, k \in 1..3 : e[i] = e[k] => i = k
        /\ \A i \in 1..3 : e[i] # "votelst" /\ e[i] \notin ToSet(TypeIndex.acfg) \ {"caid"}
    BY <2>2, ParamKeys
  <2> HIDE DEF e
  <2>6. 3 \in 1..12
    OBVIOUS
  <2>7. ListsFields(F, 3, t, keys)
    BY <2>3, <2>4, <2>5, <2>6, ListOfKeys, Zenon DEF e
  <2> QED
    BY <2>7 DEF F
<1>3. CASE t = "axfer"
  <2>1. F = <<Required("xaid"), Always("aamt"), Required("arcv"), Optional("asnd"), Optional("aclose")>>
    BY <1>3 DEF FieldsOf, AssetXferFields
  <2>2. e = <<"xaid", "aamt", "arcv", "asnd", "aclose">>
    BY <1>3 DEF TypeIndex
  <2> HIDE DEF F
  <2>3. DOMAIN F = 1..5 /\ Len(F) = 5 /\ DOMAIN e = 1..5 /\ F = [i \in 1..5 |-> F[i]]
    BY <2>1, <2>2
  <2>4. \A i \in 1..5 : IsField(F[i], e[i])
    BY <2>1, <2>2, FieldKey
  <2>5. /\ \A i, k \in 1..5 : e[i] = e[k] => i = k
        /\ \A i \in 1..5 : e[i] # "votelst" /\ e[i] \notin ToSet(TypeIndex.acfg) \ {"caid"}
    BY <2>2, ParamKeys
  <2> HIDE DEF e
  <2>6. 5 \in 1..12
    OBVIOUS
  <2>7. ListsFields(F, 5, t, keys)
    BY <2>3, <2>4, <2>5, <2>6, ListOfKeys, Zenon DEF e
  <2> QED
    BY <2>7 DEF F
<1>4. CASE t = "afrz"
  <2>1. F = <<Required("faid"), Required("fadd"), Always("afrz")>>
    BY <1>4 DEF FieldsOf, AssetFreezeFields
  <2>2. e = <<"faid", "fadd", "afrz">>
    BY <1>4 DEF TypeIndex
  <2> HIDE DEF F
  <2>3. DOMAIN F = 1..3 /\ Len(F) = 3 /\ DOMAIN e = 1..3 /\ F = [i \in 1..3 |-> F[i]]
    BY <2>1, <2>2
  <2>4. \A i \in 1..3 : IsField(F[i], e[i])
    BY <2>1, <2>2, FieldKey
  <2>5. /\ \A i, k \in 1..3 : e[i] = e[k] => i = k
        /\ \A i \in 1..3 : e[i] # "votelst" /\ e[i] \notin ToSet(TypeIndex.acfg) \ {"caid"}
    BY <2>2, ParamKeys
  <2> HIDE DEF e
  <2>6. 3 \in 1..12
    OBVIOUS
  <2>7. ListsFields(F, 3, t, keys)
    BY <2>3, <2>4, <2>5, <2>6, ListOfKeys, Zenon DEF e
  <2> QED
    BY <2>7 DEF F
<1>5. CASE t = "appl"
  <2>1. F = <<Always("apid"), Always("apan"), Optional("apbx"), Optional("apfa"), Optional("apas"),
              Optional("apat"), Optional("apaa"), Optional("apgs"), Optional("apls"),
              Optional("apep"), Optional("apap"), Optional("apsu")>>
    BY <1>5 DEF FieldsOf, ApplicationFields
  <2>2. e = <<"apid", "apan", "apbx", "apfa", "apas", "apat", "apaa",
              "apgs", "apls", "apep", "apap", "apsu">>
    BY <1>5 DEF TypeIndex
  <2> HIDE DEF F
  <2>3. DOMAIN F = 1..12 /\ Len(F) = 12 /\ DOMAIN e = 1..12 /\ F = [i \in 1..12 |-> F[i]]
    BY <2>1, <2>2
  <2>4. \A i \in 1..12 : IsField(F[i], e[i])
    BY <2>1, <2>2, FieldKey
  <2>5. /\ \A i, k \in 1..12 : e[i] = e[k] => i = k
        /\ \A i \in 1..12 : e[i] # "votelst" /\ e[i] \notin ToSet(TypeIndex.acfg) \ {"caid"}
    BY <2>2, ParamKeys
  <2> HIDE DEF e
  <2>6. 12 \in 1..12
    OBVIOUS
  <2>7. ListsFields(F, 12, t, keys)
    BY <2>3, <2>4, <2>5, <2>6, ListOfKeys, Zenon DEF e
  <2> QED
    BY <2>7 DEF F
<1>6. CASE t = "acfg"
  <2>1. e = <<"caid", "t", "df", "un", "dc", "an", "au", "am", "m", "r", "f", "c">>
    BY <1>6 DEF TypeIndex
  <2>2. DOMAIN e = 1..12 /\ Len(e) = 12 /\ TypeIndex.acfg = e
    BY <1>6, <2>1
  <2>3. CASE "apar" \in keys
    <3>1. F = <<Optional("caid")>> \o AssetParams
      BY <1>6, <2>3 DEF FieldsOf, AssetConfigFields
    <3>2. AssetParams = [i \in 1..11 |-> Optional(e[i + 1])]
      <4>1. Len(TypeIndex.acfg) - 1 = 11
        BY <2>2
      <4> QED
        BY <2>2, <4>1, Zenon DEF AssetParams
    <3> DEFINE S == {Optional(e[i]) : i \in 1..12}
               first == <<Optional("caid")>>
    <3> HIDE DEF F
    <3>3. /\ AssetParams \in Seq(S) /\ Len(AssetParams) = 11
          /\ \A i \in 1..11 : AssetParams[i] = Optional(e[i + 1])
      <4> HIDE DEF e
      <4>1. \A i \in 1..11 : i + 1 \in 1..12
        OBVIOUS
      <4>2. \A i \in 1..11 : Optional(e[i + 1]) \in S
        BY <4>1
      <4> HIDE DEF S
      <4> QED
        BY <3>2, <4>2
    <3>4. first \in Seq(S) /\ Len(first) = 1 /\ first[1] = Optional(e[1])
      <4>1. Optional("caid") = Optional(e[1])
        BY <2>1
      <4>2. 1 \in 1..12
        OBVIOUS
      <4>3. Optional("caid") \in S
        BY <4>1, <4>2
      <4> HIDE DEF S
      <4> QED
        BY <4>1, <4>3
    <3> HIDE DEF S, first
    <3>8. /\ F \in Seq(S) /\ Len(F) = 12
          /\ \A i \in 1..12 : F[i] = IF i <= 1 THEN first[i] ELSE AssetParams[i - 1]
      <4>1. F = first \o AssetParams
        BY <3>1 DEF first
      <4>2. /\ F \in Seq(S) /\ Len(F) = Len(first) + Len(AssetParams)
            /\ \A i \in 1..(Len(first) + Len(AssetParams)) :
                 F[i] = IF i <= Len(first) THEN first[i] ELSE AssetParams[i - Len(first)]
        BY <3>3, <3>4, <4>1, ConcatProperties, Zenon
      <4> QED
        BY <3>3, <3>4, <4>2
    <3>9. DOMAIN F = 1..12 /\ Len(F) = 12 /\ F = [i \in 1..12 |-> F[i]]
      BY <3>8
    <3>5. ASSUME NEW i \in 1..12 PROVE F[i] = Optional(e[i])
      <4> HIDE DEF e
      <4>1. CASE i = 1
        BY <3>4, <3>8, <4>1
      <4>2. CASE i # 1
        <5>1. ~(i <= 1) /\ i - 1 \in 1..11 /\ (i - 1) + 1 = i
          BY <4>2
        <5>2. F[i] = AssetParams[i - 1]
          BY <3>8, <5>1
        <5>3. AssetParams[i - 1] = Optional(e[(i - 1) + 1])
          BY <3>3, <5>1
        <5> QED
          BY <5>1, <5>2, <5>3
      <4> QED
        BY <4>1, <4>2
    <3>6. \A i \in 1..12 : IsField(F[i], e[i])
      BY <3>5, FieldKey
    <3>7. ListsFields(F, 12, t, keys)
      <4>1. /\ \A i, k \in 1..12 : e[i] = e[k] => i = k
            /\ \A i \in 1..12 : e[i] # "votelst"
        BY <2>1
      <4> HIDE DEF e
      <4>2. 12 \in 1..12
        OBVIOUS
      <4> QED
        BY <4>2, <2>2, <2>3, <3>9, <3>6, <4>1, ListOfKeys, Zenon DEF e
    <3> QED
      BY <3>7 DEF F
  <2>4. CASE "apar" \notin keys
    <3>1. F = <<Optional("caid")>>
      BY <1>6, <2>4 DEF FieldsOf, AssetConfigFields
    <3>2. DOMAIN F = 1..1 /\ Len(F) = 1 /\ F[1] = Optional("caid") /\ F = [i \in 1..1 |-> F[i]]
      BY <3>1
    <3>3. ToSet(e) = {"caid"} \union (ToSet(TypeIndex.acfg) \ {"caid"})
      <4>1. "caid" \in ToSet(e)
        BY <2>1, <2>2 DEF ToSet
      <4> QED
        BY <2>2, <4>1
    <3> HIDE DEF F, e
    <3>4. \A i \in 1..1 : i = 1
      OBVIOUS
    <3>5. ListsFields(F, 1, t, keys)
      BY <2>4, <3>2, <3>3, <3>4, ParamKeys, FieldKey DEF ListsFields, e
    <3> QED
      BY <3>5 DEF F
  <2> QED
    BY <2>3, <2>4
<1>7. CASE t = "keyreg"
  <2>1. e = <<"votekey", "selkey", "sprfkey", "votefst", "votelst", "votekd", "nonpart">>
    BY <1>7 DEF TypeIndex
  <2>2. CASE "votefst" \in keys
    <3>1. F = <<Optional("votekey"), Optional("selkey"), Optional("sprfkey"), Optional("votefst")>>
              \o <<Required("votelst")>> \o <<Optional("votekd"), Always("nonpart")>>
      BY <1>7, <2>2 DEF FieldsOf, KeyregFields
    <3>2. F = <<Optional("votekey"), Optional("selkey"), Optional("sprfkey"), Optional("votefst"),
                Required("votelst"), Optional("votekd"), Always("nonpart")>>
      BY <3>1, JoinedTuples
    <3> HIDE DEF F
    <3>3. DOMAIN F = 1..7 /\ Len(F) = 7 /\ DOMAIN e = 1..7 /\ F = [i \in 1..7 |-> F[i]]
      BY <2>1, <3>2
    <3>4. \A i \in 1..7 : IsField(F[i], e[i])
      BY <2>1, <3>2, FieldKey
    <3>5. ListsFields(F, 7, t, keys)
      <4>1. /\ \A i, k \in 1..7 : e[i] = e[k] => i = k
            /\ \A i \in 1..7 : e[i] \notin ToSet(TypeIndex.acfg) \ {"caid"}
        BY <2>1, ParamKeys
      <4> HIDE DEF e
      <4>2. 7 \in 1..12
        OBVIOUS
      <4> QED
        BY <4>1, <4>2, <2>2, <3>3, <3>4, ListOfKeys, ZenonT(30) DEF e
    <3> QED
      BY <3>5 DEF F
  <2>3. CASE "votefst" \notin keys
    <3>1. F = <<Optional("votekey"), Optional("selkey"), Optional("sprfkey"), Optional("votefst")>>
              \o <<>> \o <<Optional("votekd"), Always("nonpart")>>
      BY <1>7, <2>3 DEF FieldsOf, KeyregFields
    <3>2. F = <<Optional("votekey"), Optional("selkey"), Optional("sprfkey"), Optional("votefst"),
                Optional("votekd"), Always("nonpart")>>
      BY <3>1, JoinedTuples
    <3> HIDE DEF F
    <3>3. DOMAIN F = 1..6 /\ Len(F) = 6 /\ F = [i \in 1..6 |-> F[i]]
      BY <3>2
    <3>4. ToSet(e) = {"votekey", "selkey", "sprfkey", "votefst", "votelst", "votekd", "nonpart"}
      <4>1. DOMAIN e = {1, 2, 3, 4, 5, 6, 7}
        BY <2>1
      <4>2. ToSet(e) = {e[i] : i \in {1, 2, 3, 4, 5, 6, 7}}
        BY <4>1 DEF ToSet
      <4> QED
        BY <2>1, <4>2
    <3>5. /\ F[1].key = "votekey" /\ F[2].key = "selkey" /\ F[3].key = "sprfkey"
          /\ F[4].key = "votefst" /\ F[5].key = "votekd" /\ F[6].key = "nonpart"
          /\ \A i \in 1..6 : IsField(F[i], F[i].key)
      BY <3>2, FieldKey
    <3> HIDE DEF e
    <3>6. \A i \in 1..6 : i \in {1, 2, 3, 4, 5, 6}
      OBVIOUS
    <3>7. \A i, k \in 1..6 : F[i].key = F[k].key => i = k
      BY <3>5, <3>6
    <3>8. \A i \in 1..6 : F[i].key \in ToSet(e) /\ F[i].key # "votelst"
      BY <3>4, <3>5, <3>6
    <3>9. \A key \in ToSet(e) : key # "votelst" => \E i \in 1..6 : F[i].key = key
      <4>1. \A i \in {1, 2, 3, 4, 5, 6} : i \in 1..6
        OBVIOUS
      <4> QED
        BY <3>4, <3>5, <4>1
    <3>10. \A key \in ToSet(e) : key \notin ToSet(TypeIndex.acfg) \ {"caid"}
      BY <3>4, ParamKeys
    <3>11. ListsFields(F, 6, t, keys)
      BY <2>3, <3>3, <3>5, <3>7, <3>8, <3>9, <3>10 DEF ListsFields, e
    <3> QED
      BY <3>11 DEF F
  <2> QED
    BY <2>2, <2>3
<1> QED
  BY <1>1, <1>2, <1>3, <1>4, <1>5, <1>6, <1>7

-----------------------------------------------------------------------------
(* The items of a transaction.                                               *)

\* The transaction that is parsed, and the setting.
Parsable == tx \in Transaction /\ tx.type \in TxTypes /\ setting \in Setting

\* The items one field adds.
Run(on, f, e) == IF ~on THEN <<>> ELSE [j \in 1..Displayed(f) |-> IDX(e, f.key)]

CommonRuns ==
    [i \in 1..8 |-> Run(DISPLAY_COMMON_ITEM(CommonFields[i].key), CommonFields[i], CommonIndex)]
TypeRuns ==
    [i \in DOMAIN TypeFields |->
        Run(ShownOfType(TypeFields[i].key), TypeFields[i], TypeIndex[tx.type])]

\* A field that is no array has one item at most: when it is there or has a default.
LEMMA DisplayedType ==
    ASSUME Parsable, NEW key, NEW f, IsField(f, key)
    PROVE  /\ Displayed(f) \in Nat
           /\ key \in Arrays => Displayed(f) = NumElements(key)
           /\ key \notin Arrays => /\ Displayed(f) \in {0, 1}
                                   /\ Displayed(f) = 1 <=> Has(key) \/ f = Always(key)
<1>1. f.key = key /\ (f.always <=> f = Always(key))
  BY DEF IsField, Required, Optional, Always
<1>2. key \in Arrays => NumElements(key) \in Nat
  BY DEF NumElements, Parsable, Transaction
<1>3. CASE key \in Arrays
  BY <1>1, <1>2, <1>3 DEF Displayed
<1>4. CASE key \notin Arrays
  <2>1. Displayed(f) = IF Has(key) \/ f.always THEN 1 ELSE 0
    BY <1>1, <1>4 DEF Displayed
  <2> QED
    BY <1>1, <1>4, <2>1
<1> QED
  BY <1>3, <1>4

\* What one field adds is its number, once for each item displayed.
LEMMA RunIs ==
    ASSUME Parsable, NEW e, NEW m \in Nat, DOMAIN e = 1..m, NEW key \in ToSet(e),
           NEW f, IsField(f, key), NEW on \in BOOLEAN
    PROVE  /\ Run(on, f, e) \in Seq(0..(m - 1))
           /\ Len(Run(on, f, e)) = IF on THEN Displayed(f) ELSE 0
           /\ \A j \in 1..Len(Run(on, f, e)) : on /\ Run(on, f, e)[j] = IDX(e, key)
<1>1. Displayed(f) \in Nat /\ f.key = key
  BY DisplayedType, FieldKey
<1>2. IDX(e, key) \in 0..(m - 1)
  BY NumberNames
<1>3. CASE ~on
  <2>1. Run(on, f, e) = <<>>
    BY <1>3 DEF Run
  <2> QED
    BY <1>3, <2>1
<1>4. CASE on
  <2>1. Run(on, f, e) = [j \in 1..Displayed(f) |-> IDX(e, key)]
    BY <1>1, <1>4 DEF Run
  <2> DEFINE x == IDX(e, key)
             n == Displayed(f)
  <2> HIDE DEF x, n
  <2>2. Run(on, f, e) = [j \in 1..n |-> x] /\ x \in 0..(m - 1) /\ n \in Nat
    BY <1>1, <1>2, <2>1 DEF x, n
  <2>3. Run(on, f, e) \in Seq(0..(m - 1)) /\ Len(Run(on, f, e)) = n
    BY <2>2
  <2> QED
    BY <1>4, <2>2, <2>3 DEF x, n
<1> QED
  BY <1>3, <1>4

\* The settings decide on BOOLEANs.
LEMMA SwitchTypes ==
    ASSUME Parsable
    PROVE  /\ InBatch \in BOOLEAN
           /\ \A key : DISPLAY_COMMON_ITEM(key) \in BOOLEAN /\ ShownOfType(key) \in BOOLEAN
           /\ InBatch => \A key : ~DISPLAY_COMMON_ITEM(key) /\ ~ShownOfType(key)
<1>1. setting.group \in BOOLEAN /\ setting.blindsign \in BOOLEAN /\ setting.skipped \in BOOLEAN
  BY DEF Parsable, Setting
<1> QED
  BY <1>1 DEF InBatch, DISPLAY_COMMON_ITEM, ShownOfType, DISPLAY_ITEM, DISPLAY_APP_ITEM

\* The common items, field by field.
LEMMA CommonJoin ==
    ASSUME Parsable
    PROVE  /\ \A i \in 1..8 :
                /\ Len(CommonRuns[i]) = IF DISPLAY_COMMON_ITEM(CommonFields[i].key)
                                        THEN Displayed(CommonFields[i]) ELSE 0
                /\ Len(CommonRuns[i]) \in {0, 1}
                /\ \A j \in 1..Len(CommonRuns[i]) :
                     CommonRuns[i][j] = IDX(CommonIndex, CommonFields[i].key)
           /\ \E L : Ending(CommonRuns, 8, L) /\ Joins(CommonRuns, 8, L, CommonItems, 0..9)
<1> DEFINE f(i) == CommonFields[i]
           on(i) == DISPLAY_COMMON_ITEM(f(i).key)
<1>1. ASSUME NEW i \in 1..8
      PROVE  f(i).key \in ToSet(CommonIndex) /\ IsField(f(i), f(i).key) /\ on(i) \in BOOLEAN
             /\ f(i).key \notin Arrays
  <2>1. IsField(f(i), f(i).key)
    <3>1. i \in {1, 2, 3, 4, 5, 6, 7, 8}
      OBVIOUS
    <3> QED
      BY <3>1, FieldKey DEF CommonFields
  <2> QED
    BY <2>1, CommonFacts, SwitchTypes
<1>2. ASSUME NEW i \in 1..8
      PROVE  /\ CommonRuns[i] \in Seq(0..9)
             /\ Len(CommonRuns[i]) = IF on(i) THEN Displayed(f(i)) ELSE 0
             /\ Len(CommonRuns[i]) \in {0, 1}
             /\ \A j \in 1..Len(CommonRuns[i]) : CommonRuns[i][j] = IDX(CommonIndex, f(i).key)
  <2>1. CommonRuns[i] = Run(on(i), f(i), CommonIndex)
    BY DEF CommonRuns
  <2> DEFINE g == f(i)
             o == on(i)
             key == g.key
  <2>2. key \in ToSet(CommonIndex) /\ IsField(g, key) /\ o \in BOOLEAN /\ key \notin Arrays
    BY <1>1
  <2>3. CommonRuns[i] = Run(o, g, CommonIndex)
    BY <2>1
  <2> HIDE DEF g, o, key
  <2>4. \E m \in Nat : DOMAIN CommonIndex = 1..m /\ m = 10
    BY CommonFacts
  <2>9. PICK m \in Nat : DOMAIN CommonIndex = 1..m /\ m = 10
    BY <2>4
  <2> DEFINE e == CommonIndex
  <2>10. key \in ToSet(e) /\ DOMAIN e = 1..m /\ m - 1 = 9 /\ CommonRuns[i] = Run(o, g, e)
    BY <2>2, <2>3, <2>9
  <2> HIDE DEF e
  <2>5. /\ Run(o, g, e) \in Seq(0..(m - 1))
        /\ Len(Run(o, g, e)) = IF o THEN Displayed(g) ELSE 0
        /\ \A j \in 1..Len(Run(o, g, e)) : o /\ Run(o, g, e)[j] = IDX(e, key)
    BY <2>2, <2>10, RunIs, ZenonT(30)
  <2>6. Displayed(g) \in {0, 1}
    BY <2>2, DisplayedType
  <2>7. Len(CommonRuns[i]) \in {0, 1}
    BY <2>5, <2>6, <2>10
  <2> QED
    BY <2>5, <2>7, <2>10, Zenon DEF g, o, key, e
<1>3. CommonItems = FlattenSeq(CommonRuns)
  <2>1. DOMAIN CommonFields = 1..8
    BY CommonFacts
  <2> QED
    BY <2>1, Zenon DEF CommonItems, ItemsOf, CommonRuns, Run
<1>4. CommonRuns = [i \in 1..8 |-> CommonRuns[i]]
  BY DEF CommonRuns
<1>5. 8 \in Nat \ {0}
  OBVIOUS
<1>6. \E L : Ending(CommonRuns, 8, L) /\ Joins(CommonRuns, 8, L, FlattenSeq(CommonRuns), 0..9)
  BY <1>2, <1>4, <1>5, FlattenIsJoin, Zenon
<1> QED
  BY <1>2, <1>3, <1>6, Zenon

\* The fields of the type, by number.
LEMMA TypeFieldsListed ==
    ASSUME Parsable
    PROVE  \E n \in 1..12 : ListsFields(TypeFields, n, tx.type, tx.keys)
BY TypeFieldFacts DEF TypeFields, Parsable

\* The items of the type, field by field.
LEMMA TypeJoin ==
    ASSUME Parsable, NEW n \in 1..12, ListsFields(TypeFields, n, tx.type, tx.keys)
    PROVE  /\ \A i \in 1..n :
                /\ Len(TypeRuns[i]) = IF ShownOfType(TypeFields[i].key)
                                      THEN Displayed(TypeFields[i]) ELSE 0
                /\ Len(TypeRuns[i]) \in Nat
                /\ TypeFields[i].key \notin Arrays => Len(TypeRuns[i]) \in {0, 1}
                /\ \A j \in 1..Len(TypeRuns[i]) :
                     /\ ShownOfType(TypeFields[i].key)
                     /\ TypeRuns[i][j] = IDX(TypeIndex[tx.type], TypeFields[i].key)
           /\ \E M : Ending(TypeRuns, n, M) /\ Joins(TypeRuns, n, M, TypeItems, 0..11)
<1> DEFINE f(i) == TypeFields[i]
           on(i) == ShownOfType(f(i).key)
           e == TypeIndex[tx.type]
<1>0. /\ DOMAIN TypeFields = 1..n
      /\ \A i \in 1..n : f(i).key \in ToSet(e) /\ IsField(f(i), f(i).key)
  BY DEF ListsFields
<1>1. PICK m \in 1..12 : DOMAIN e = 1..m
  BY TypeIndexFacts DEF Parsable
<1>2. ASSUME NEW i \in 1..n
      PROVE  /\ TypeRuns[i] \in Seq(0..11)
             /\ Len(TypeRuns[i]) = IF on(i) THEN Displayed(f(i)) ELSE 0
             /\ Len(TypeRuns[i]) \in Nat
             /\ f(i).key \notin Arrays => Len(TypeRuns[i]) \in {0, 1}
             /\ \A j \in 1..Len(TypeRuns[i]) : on(i) /\ TypeRuns[i][j] = IDX(e, f(i).key)
  <2>1. TypeRuns[i] = Run(on(i), f(i), e)
    BY <1>0 DEF TypeRuns
  <2> DEFINE g == f(i)
             o == on(i)
             key == g.key
  <2>2. key \in ToSet(e) /\ IsField(g, key) /\ o \in BOOLEAN
    BY <1>0, SwitchTypes
  <2>3. TypeRuns[i] = Run(o, g, e)
    BY <2>1
  <2> HIDE DEF g, o, key
  <2> HIDE DEF e
  <2>4. m \in Nat
    OBVIOUS
  <2>5. /\ Run(o, g, e) \in Seq(0..(m - 1))
        /\ Len(Run(o, g, e)) = IF o THEN Displayed(g) ELSE 0
        /\ \A j \in 1..Len(Run(o, g, e)) : o /\ Run(o, g, e)[j] = IDX(e, key)
    BY <1>1, <2>2, <2>4, RunIs
  <2>6. Displayed(g) \in Nat /\ (key \notin Arrays => Displayed(g) \in {0, 1})
    BY <2>2, DisplayedType
  <2>7. Len(TypeRuns[i]) \in Nat /\ (key \notin Arrays => Len(TypeRuns[i]) \in {0, 1})
    BY <2>3, <2>5, <2>6
  <2>8. Run(o, g, e) \in Seq(0..11)
    <3>1. 0..(m - 1) \subseteq 0..11
      OBVIOUS
    <3> QED
      BY <2>5, <3>1, SeqMonotonic, Zenon
  <2> QED
    BY <2>3, <2>5, <2>7, <2>8, Zenon DEF g, o, key, e
<1>3. TypeItems = FlattenSeq(TypeRuns)
  BY Zenon DEF TypeItems, ItemsOf, TypeRuns, Run
<1>4. TypeRuns = [i \in 1..n |-> TypeRuns[i]]
  BY <1>0 DEF TypeRuns
<1>5. n \in Nat \ {0}
  OBVIOUS
<1>6. \E M : Ending(TypeRuns, n, M) /\ Joins(TypeRuns, n, M, FlattenSeq(TypeRuns), 0..11)
  BY <1>2, <1>4, <1>5, FlattenIsJoin, Zenon
<1> QED
  BY <1>2, <1>3, <1>6, Zenon

\* Nothing comes of empty sequences.
LEMMA JoinIsEmpty ==
    ASSUME NEW S, NEW n \in Nat, NEW s, NEW L, NEW r, Ending(s, n, L), Joins(s, n, L, r, S),
           \A i \in 1..n : Len(s[i]) = 0
    PROVE  L[n] = 0
<1>1. L[n] \in Nat
  BY DEF Ending
<1>2. ASSUME L[n] # 0 PROVE FALSE
  <2>1. L[n] \in 1..L[n]
    BY <1>1, <1>2
  <2>2. PICK i \in 1..n : \E j \in 1..Len(s[i]) : L[n] = L[i - 1] + j
    BY <2>1 DEF Joins
  <2> QED
    BY <2>2
<1> QED
  BY <1>2

\* And little of short ones.
LEMMA JoinIsSmall ==
    ASSUME NEW n \in Nat, NEW s, NEW L, Ending(s, n, L), \A i \in 1..n : Len(s[i]) \in {0, 1}
    PROVE  \A i \in 0..n : L[i] <= i
<1>1. /\ L \in [0..n -> Nat] /\ L[0] = 0 /\ L[n] \in Nat
      /\ \A i \in 1..n : L[i] = L[i - 1] + Len(s[i])
  BY DEF Ending
<1>2. ASSUME ~\A i \in 0..n : L[i] <= i PROVE FALSE
  <2> DEFINE bad == {i \in 0..n : ~(L[i] <= i)}
  <2>0. bad \subseteq Nat /\ bad # {}
    BY <1>2
  <2>1. PICK k \in bad : \A y \in bad : k <= y
    BY <2>0, FirstPosition
  <2>2. k \in 0..n /\ ~(L[k] <= k) /\ k # 0
    BY <1>1, <2>1
  <2>3. k - 1 \in 0..n /\ k \in 1..n /\ ~(k <= k - 1)
    BY <2>2
  <2>4. L[k - 1] <= k - 1
    BY <2>1, <2>3
  <2>5. L[k] = L[k - 1] + Len(s[k]) /\ Len(s[k]) \in {0, 1} /\ L[k - 1] \in Nat
    BY <1>1, <2>3
  <2>6. k \in Nat /\ L[k] \in Nat
    BY <1>1, <2>2
  <2>7. \A x \in Nat : \A d \in {0, 1} : x <= k - 1 => x + d <= k
    BY <2>6
  <2> QED
    BY <2>2, <2>4, <2>5, <2>7
<1> QED
  BY <1>2

-----------------------------------------------------------------------------
(* The screens.                                                              *)

\* What the screen of the j-th item of a field shows.
ShownAs(key, j) == IF key \in Arrays THEN Element(key, j - 1) ELSE Field(key)

\* A small index is within the bound it is compared with, or it is not.
LEMMA SmallIndex ==
    ASSUME NEW key, NEW index \in 0..255, NEW bound, index < bound
    PROVE  ElementOrNothing(key, index, bound) = Element(key, index)
<1>1. index % 256 = index
  OBVIOUS
<1> QED
  BY <1>1 DEF ElementOrNothing

\* The fields of an application call, their keys and the sizes of its arrays.
LEMMA ApplicationFacts ==
    ASSUME Parsable, tx.type = "appl", TypeReadable, NEW n \in 1..12,
           ListsFields(TypeFields, n, tx.type, tx.keys)
    PROVE  /\ n = 12 /\ Arrays = {"apbx", "apfa", "apas", "apat", "apaa"}
           /\ TypeFields[1].key = "apid" /\ TypeFields[2].key = "apan"
           /\ TypeFields[3].key = "apbx" /\ TypeFields[4].key = "apfa"
           /\ TypeFields[5].key = "apas" /\ TypeFields[6].key = "apat"
           /\ TypeFields[7].key = "apaa" /\ TypeFields[8].key = "apgs"
           /\ TypeFields[9].key = "apls" /\ TypeFields[10].key = "apep"
           /\ TypeFields[11].key = "apap" /\ TypeFields[12].key = "apsu"
           /\ Displayed(TypeFields[1]) = 1 /\ Displayed(TypeFields[2]) = 1
           /\ Displayed(TypeFields[3]) = NumElements("apbx")
           /\ Displayed(TypeFields[4]) = NumElements("apfa")
           /\ Displayed(TypeFields[5]) = NumElements("apas")
           /\ Displayed(TypeFields[6]) = NumElements("apat")
           /\ Displayed(TypeFields[7]) = NumElements("apaa")
           /\ NumElements("apbx") \in 0..8 /\ NumElements("apfa") \in 0..8
           /\ NumElements("apas") \in 0..8 /\ NumElements("apat") \in 0..4
           /\ NumElements("apaa") \in 0..16
           /\ NumElements("apfa") + NumElements("apas") + NumElements("apat") <= 8
<1> DEFINE F == TypeFields
           boxes == NumElements("apbx")
           apps == NumElements("apfa")
           assets == NumElements("apas")
           accounts == NumElements("apat")
           args == NumElements("apaa")
<1>1. F = <<Always("apid"), Always("apan"), Optional("apbx"), Optional("apfa"), Optional("apas"),
            Optional("apat"), Optional("apaa"), Optional("apgs"), Optional("apls"),
            Optional("apep"), Optional("apap"), Optional("apsu")>>
  BY DEF TypeFields, FieldsOf, ApplicationFields
<1>2. n = 12
  <2>1. Len(F) = n
    BY DEF ListsFields
  <2>2. Len(F) = 12
    BY <1>1
  <2> QED
    BY <2>1, <2>2
<1>3. /\ F[1].key = "apid" /\ F[2].key = "apan" /\ F[3].key = "apbx" /\ F[4].key = "apfa"
      /\ F[5].key = "apas" /\ F[6].key = "apat" /\ F[7].key = "apaa" /\ F[8].key = "apgs"
      /\ F[9].key = "apls" /\ F[10].key = "apep" /\ F[11].key = "apap" /\ F[12].key = "apsu"
  BY <1>1, FieldKey
<1>4. Arrays = {"apbx", "apfa", "apas", "apat", "apaa"}
  BY DEF Arrays, ArrayLimit
<1>5. /\ Displayed(F[1]) = 1 /\ Displayed(F[2]) = 1
      /\ Displayed(F[3]) = boxes /\ Displayed(F[4]) = apps /\ Displayed(F[5]) = assets
      /\ Displayed(F[6]) = accounts /\ Displayed(F[7]) = args
  <2>1. F[1] = Always("apid") /\ F[2] = Always("apan")
    BY <1>1
  <2>2. \A k \in 1..12 : IsField(F[k], F[k].key)
    BY <1>2 DEF ListsFields
  <2> HIDE DEF F
  <2>3. IsField(F[1], "apid") /\ IsField(F[2], "apan") /\ "apid" \notin Arrays /\ "apan" \notin Arrays
    BY <1>3, <1>4, <2>2
  <2>4. Displayed(F[1]) = 1 /\ Displayed(F[2]) = 1
    BY <2>1, <2>3, DisplayedType
  <2>5. /\ IsField(F[3], "apbx") /\ IsField(F[4], "apfa") /\ IsField(F[5], "apas")
        /\ IsField(F[6], "apat") /\ IsField(F[7], "apaa")
    BY <1>3, <2>2
  <2> QED
    BY <1>4, <2>4, <2>5, DisplayedType
<1>6. /\ boxes \in 0..8 /\ apps \in 0..8 /\ assets \in 0..8 /\ accounts \in 0..4 /\ args \in 0..16
      /\ apps + assets + accounts <= 8
  <2>1. \A key \in Arrays : NumElements(key) \in Nat
    BY DEF NumElements, Parsable, Transaction
  <2>2. \A k \in 1..12 : Readable(F[k])
    BY <1>2 DEF TypeReadable, ToSet, ListsFields
  <2>3. /\ Readable(F[3]) /\ Readable(F[4]) /\ Readable(F[5]) /\ Readable(F[6]) /\ Readable(F[7])
    BY <2>2
  <2>4. /\ boxes <= ArrayLimit["apbx"] /\ apps <= ArrayLimit["apfa"] /\ assets <= ArrayLimit["apas"]
        /\ accounts <= ArrayLimit["apat"] /\ args <= ArrayLimit["apaa"]
    BY <1>3, <1>4, <2>3 DEF Readable
  <2>5. /\ ArrayLimit["apbx"] = 8 /\ ArrayLimit["apfa"] = 8 /\ ArrayLimit["apas"] = 8
        /\ ArrayLimit["apat"] = 4 /\ ArrayLimit["apaa"] = 16
    BY DEF ArrayLimit, MAX_FOREIGN_APPS, MAX_FOREIGN_ASSETS, MAX_ACCT, MAX_ARG
  <2>6. boxes \in Nat /\ apps \in Nat /\ assets \in Nat /\ accounts \in Nat /\ args \in Nat
    BY <1>4, <2>1
  <2>7. accounts + apps + assets <= 8
    BY DEF TypeReadable, WithinForeignLimit, ACCT_FOREIGN_LIMIT
  <2> HIDE DEF boxes, apps, assets, accounts, args
  <2> QED
    BY <2>4, <2>5, <2>6, <2>7
<1> QED
  BY <1>2, <1>3, <1>4, <1>5, <1>6

\* The position of an element of an application call leads back to the element.
LEMMA ApplicationPage ==
    ASSUME Parsable, tx.type = "appl", TypeReadable, NEW n \in 1..12,
           ListsFields(TypeFields, n, tx.type, tx.keys),
           NEW M, Ending(TypeRuns, n, M), NEW i \in 1..n, NEW j \in 1..Len(TypeRuns[i])
    PROVE  parser_printTxApplication(M[i - 1] + j - 1, TypeFields[i].key)
             = ShownAs(TypeFields[i].key, j)
<1> DEFINE F == TypeFields
           boxes == NumElements("apbx")
           apps == NumElements("apfa")
           assets == NumElements("apas")
           accounts == NumElements("apat")
           args == NumElements("apaa")
           p == M[i - 1] + j - 1
<1>2. n = 12
  BY ApplicationFacts
<1>3. /\ F[1].key = "apid" /\ F[2].key = "apan" /\ F[3].key = "apbx" /\ F[4].key = "apfa"
      /\ F[5].key = "apas" /\ F[6].key = "apat" /\ F[7].key = "apaa" /\ F[8].key = "apgs"
      /\ F[9].key = "apls" /\ F[10].key = "apep" /\ F[11].key = "apap" /\ F[12].key = "apsu"
  BY ApplicationFacts
<1>4. Arrays = {"apbx", "apfa", "apas", "apat", "apaa"}
  BY ApplicationFacts
<1>5. ShownOfType(F[i].key) /\ DISPLAY_APP_ITEM
  BY TypeJoin DEF ShownOfType
<1>6. \A k \in 1..12 : Len(TypeRuns[k]) = Displayed(F[k])
  BY <1>2, <1>5, TypeJoin DEF ShownOfType
<1>7. /\ Displayed(F[1]) = 1 /\ Displayed(F[2]) = 1
      /\ Displayed(F[3]) = boxes /\ Displayed(F[4]) = apps /\ Displayed(F[5]) = assets
      /\ Displayed(F[6]) = accounts /\ Displayed(F[7]) = args
  BY ApplicationFacts
<1>8. /\ boxes \in 0..8 /\ apps \in 0..8 /\ assets \in 0..8 /\ accounts \in 0..4 /\ args \in 0..16
      /\ apps + assets + accounts <= 8
  BY ApplicationFacts
<1> HIDE DEF boxes, apps, assets, accounts, args
<1>9. /\ M \in [0..12 -> Nat] /\ M[0] = 0
      /\ \A k \in 1..12 : M[k] = M[k - 1] + Displayed(F[k])
  BY <1>2, <1>6 DEF Ending
<1>10. /\ M[1] = 1 /\ M[2] = 2 /\ M[3] = 2 + boxes /\ M[4] = 2 + boxes + apps
       /\ M[5] = 2 + boxes + apps + assets
       /\ M[6] = 2 + boxes + apps + assets + accounts
  <2>1. /\ M[1] = M[0] + Displayed(F[1]) /\ M[2] = M[1] + Displayed(F[2])
        /\ M[3] = M[2] + Displayed(F[3]) /\ M[4] = M[3] + Displayed(F[4])
        /\ M[5] = M[4] + Displayed(F[5]) /\ M[6] = M[5] + Displayed(F[6])
    BY <1>9
  <2> QED
    BY <1>7, <1>8, <1>9, <2>1
<1>11. j \in 1..Displayed(F[i])
  BY <1>2, <1>6
<1>12. IDX_BOXES = 2
  <2> DEFINE e == TypeIndex.appl
             x == IDX(e, "apbx")
  <2>1. e = <<"apid", "apan", "apbx", "apfa", "apas", "apat", "apaa",
              "apgs", "apls", "apep", "apap", "apsu">>
    BY DEF TypeIndex
  <2>2. DOMAIN e = 1..12 /\ e[3] = "apbx" /\ \A k \in 1..12 : e[k] = "apbx" => k = 3
    BY <2>1
  <2> HIDE DEF e
  <2>3. "apbx" \in ToSet(e)
    BY <2>2 DEF ToSet
  <2>4. PICK m \in Nat : m = 12 /\ DOMAIN e = 1..m
    BY <2>2
  <2>5. x \in 0..(m - 1) /\ e[x + 1] = "apbx"
    BY <2>3, <2>4, NumberNames
  <2>6. x = 2
    BY <2>2, <2>4, <2>5
  <2> QED
    BY <2>6 DEF IDX_BOXES, e
<1> HIDE DEF F
<1>13. CASE F[i].key = "apbx"
  <2>1. i = 3
    BY <1>2, <1>3, <1>13
  <2>2. p - 2 = j - 1 /\ j - 1 \in 0..255 /\ j - 1 < MAX_FOREIGN_APPS
    BY SMTT(30), <1>7, <1>8, <1>10, <1>11, <2>1 DEF MAX_FOREIGN_APPS
  <2>3. parser_printTxApplication(p, "apbx") = ElementOrNothing("apbx", p - 2, MAX_FOREIGN_APPS)
    BY <1>12 DEF parser_printTxApplication
  <2> QED
    BY <1>4, <1>13, <2>2, <2>3, SmallIndex DEF ShownAs, F
<1>14. CASE F[i].key = "apfa"
  <2>1. i = 4
    BY <1>2, <1>3, <1>14
  <2>4. j \in 1..apps /\ p = 2 + boxes + j - 1
    BY <1>7, <1>8, <1>10, <1>11, <2>1
  <2> HIDE DEF p
  <2>2. p - 2 - boxes = j - 1 /\ j - 1 \in 0..255 /\ j - 1 < MAX_FOREIGN_APPS
    BY <1>8, <2>4 DEF MAX_FOREIGN_APPS
  <2>3. parser_printTxApplication(p, "apfa") = ElementOrNothing("apfa", p - 2 - boxes, MAX_FOREIGN_APPS)
    BY <1>12 DEF parser_printTxApplication, boxes
  <2> QED
    BY <1>4, <1>14, <2>2, <2>3, SmallIndex DEF ShownAs, F, p
<1>15. CASE F[i].key = "apas"
  <2>1. i = 5
    BY <1>2, <1>3, <1>15
  <2>2. p - 2 - boxes - apps = j - 1 /\ j - 1 \in 0..255 /\ j - 1 < MAX_FOREIGN_ASSETS
    BY SMTT(30), <1>7, <1>8, <1>10, <1>11, <2>1 DEF MAX_FOREIGN_ASSETS
  <2>3. parser_printTxApplication(p, "apas")
          = ElementOrNothing("apas", p - 2 - boxes - apps, MAX_FOREIGN_ASSETS)
    BY <1>12 DEF parser_printTxApplication, boxes, apps
  <2> QED
    BY <1>4, <1>15, <2>2, <2>3, SmallIndex DEF ShownAs, F
<1>16. CASE F[i].key = "apat"
  <2>1. i = 6
    BY <1>2, <1>3, <1>16
  <2>2. p - 2 - boxes - apps - assets = j - 1 /\ j - 1 \in 0..255 /\ j - 1 < accounts
    BY SMTT(30), <1>7, <1>8, <1>10, <1>11, <2>1
  <2>3. parser_printTxApplication(p, "apat")
          = ElementOrNothing("apat", p - 2 - boxes - apps - assets, accounts)
    BY <1>12 DEF parser_printTxApplication, boxes, apps, assets, accounts
  <2> QED
    BY <1>4, <1>16, <2>2, <2>3, SmallIndex DEF ShownAs, F
<1>17. CASE F[i].key = "apaa"
  <2>1. i = 7
    BY <1>2, <1>3, <1>17
  <2>2. p - 2 - boxes - apps - assets - accounts = j - 1 /\ j - 1 \in 0..255 /\ j - 1 < args
    BY SMTT(30), <1>7, <1>8, <1>10, <1>11, <2>1
  <2>3. parser_printTxApplication(p, "apaa")
          = ElementOrNothing("apaa", p - 2 - boxes - apps - assets - accounts, args)
    BY <1>12 DEF parser_printTxApplication, boxes, apps, assets, accounts, args
  <2> QED
    BY <1>4, <1>17, <2>2, <2>3, SmallIndex DEF ShownAs, F
<1>18. CASE F[i].key \notin Arrays
  <2> DEFINE key == F[i].key
  <2>1. key \notin {"apbx", "apfa", "apas", "apat", "apaa"}
    BY <1>4, <1>18
  <2> HIDE DEF key
  <2>2. parser_printTxApplication(p, key) = Field(key)
    BY <2>1 DEF parser_printTxApplication
  <2> QED
    BY <1>18, <2>2 DEF ShownAs, F, key
<1> QED
  BY <1>4, <1>13, <1>14, <1>15, <1>16, <1>17, <1>18

\* The number of a key leads back to the field, whatever the type.
LEMMA TypePrint ==
    ASSUME Parsable, TypeReadable, NEW n \in 1..12, ListsFields(TypeFields, n, tx.type, tx.keys),
           NEW M, Ending(TypeRuns, n, M), NEW i \in 1..n, NEW j \in 1..Len(TypeRuns[i])
    PROVE  parser_printTx(M[i - 1] + j - 1, IDX(TypeIndex[tx.type], TypeFields[i].key))
             = ShownAs(TypeFields[i].key, j)
<1> DEFINE e == TypeIndex[tx.type]
           key == TypeFields[i].key
           x == IDX(e, key)
           p == M[i - 1] + j - 1
<1>1. PICK m \in 1..12 : DOMAIN e = 1..m /\ Len(e) = m
  BY TypeIndexFacts DEF Parsable
<1>2. key \in ToSet(e)
  BY DEF ListsFields
<1>3. x \in 0..(m - 1) /\ e[x + 1] = key
  <2> HIDE DEF e, key
  <2> QED
    BY <1>1, <1>2, NumberNames
<1>4. tx.type # "appl" => key \notin Arrays
  BY <1>2, TypeIndexFacts DEF Parsable
<1>5. parser_printTxApplication(p, key) = ShownAs(key, j) \/ tx.type # "appl"
  BY ApplicationPage
<1> HIDE DEF p, key, x
<1>6. FieldAt(e, x) = Field(key)
  BY <1>1, <1>3 DEF FieldAt
<1>7. tx.type \in {"pay", "keyreg", "axfer", "afrz", "acfg", "appl"}
  BY DEF Parsable, TxTypes, TypeIndex
<1>8. tx.type # "appl" => ShownAs(key, j) = Field(key)
  BY <1>4 DEF ShownAs
<1>9. parser_printTx(p, x) =
        CASE tx.type = "pay"    -> FieldAt(TypeIndex.pay, x)
          [] tx.type = "keyreg" -> FieldAt(TypeIndex.keyreg, x)
          [] tx.type = "axfer"  -> FieldAt(TypeIndex.axfer, x)
          [] tx.type = "afrz"   -> FieldAt(TypeIndex.afrz, x)
          [] tx.type = "acfg"   -> FieldAt(TypeIndex.acfg, x)
          [] tx.type = "appl"   -> parser_printTxApplication(p, TypeIndex.appl[x + 1])
  BY DEF parser_printTx, parser_printTxPayment, parser_printTxKeyreg, parser_printTxAssetXfer,
         parser_printTxAssetFreeze, parser_printTxAssetConfig
<1>10. ASSUME tx.type = "appl" PROVE parser_printTx(p, x) = ShownAs(key, j)
  <2>1. TypeIndex.appl[x + 1] = key
    BY <1>3, <1>10
  <2> QED
    BY <1>5, <1>9, <1>10, <2>1
<1>11. ASSUME tx.type # "appl" PROVE parser_printTx(p, x) = ShownAs(key, j)
  <2>1. parser_printTx(p, x) = FieldAt(e, x)
    BY <1>7, <1>9, <1>11
  <2> QED
    BY <1>6, <1>8, <1>11, <2>1
<1> QED
  BY <1>10, <1>11 DEF p, key, x

\* The item array and the counters after both readers.
Filled ==
    /\ itemArray = CommonItems \o TypeItems
    /\ common_num_items = Len(CommonItems)
    /\ tx_num_items = Len(TypeItems)
    /\ num_items = common_num_items + Len(TypeItems) + 1

\* Where the items of each field end, in the two parts of the array.
Laid(n, L, M) ==
    /\ n \in 1..12 /\ ListsFields(TypeFields, n, tx.type, tx.keys)
    /\ Ending(CommonRuns, 8, L) /\ Joins(CommonRuns, 8, L, CommonItems, 0..9)
    /\ Ending(TypeRuns, n, M) /\ Joins(TypeRuns, n, M, TypeItems, 0..11)

\* The items are put one behind the other, the common ones first.
LEMMA FilledItems ==
    ASSUME Parsable, Filled,
           NEW n, NEW L, NEW M, Laid(n, L, M)
    PROVE  /\ common_num_items = L[8] /\ tx_num_items = M[n] /\ L[8] \in Nat /\ M[n] \in Nat
           /\ itemArray \in Seq(0..11) /\ Len(itemArray) = L[8] + M[n] /\ num_items = L[8] + M[n] + 1
           /\ \A p \in 1..L[8] : itemArray[p] = CommonItems[p]
           /\ \A p \in 1..M[n] : itemArray[L[8] + p] = TypeItems[p]
<1>0. /\ n \in 1..12 /\ ListsFields(TypeFields, n, tx.type, tx.keys)
      /\ Ending(CommonRuns, 8, L) /\ Joins(CommonRuns, 8, L, CommonItems, 0..9)
      /\ Ending(TypeRuns, n, M) /\ Joins(TypeRuns, n, M, TypeItems, 0..11)
  BY DEF Laid
<1>1. L[8] \in Nat /\ M[n] \in Nat
  BY <1>0 DEF Ending
<1>2. /\ CommonItems \in Seq(0..9) /\ Len(CommonItems) = L[8]
      /\ TypeItems \in Seq(0..11) /\ Len(TypeItems) = M[n]
  BY <1>0 DEF Joins
<1>3. CommonItems \in Seq(0..11)
  <2>1. 0..9 \subseteq 0..11
    OBVIOUS
  <2> QED
    BY <1>2, <2>1, SeqMonotonic, Zenon
<1> DEFINE r == CommonItems \o TypeItems
<1>4. /\ r \in Seq(0..11) /\ Len(r) = Len(CommonItems) + Len(TypeItems)
      /\ \A p \in 1..(Len(CommonItems) + Len(TypeItems)) :
           r[p] = IF p <= Len(CommonItems) THEN CommonItems[p] ELSE TypeItems[p - Len(CommonItems)]
  BY <1>2, <1>3, ConcatProperties, Zenon
<1>5. itemArray = r /\ common_num_items = L[8] /\ tx_num_items = M[n] /\ num_items = L[8] + M[n] + 1
  BY <1>2 DEF Filled
<1> HIDE DEF r
<1>6. ASSUME NEW p \in 1..M[n] PROVE r[L[8] + p] = TypeItems[p]
  <2>1. L[8] + p \in 1..(L[8] + M[n]) /\ ~(L[8] + p <= L[8]) /\ (L[8] + p) - L[8] = p
    BY <1>1
  <2> QED
    BY <1>2, <1>4, <2>1
<1>7. ASSUME NEW p \in 1..L[8] PROVE r[p] = CommonItems[p]
  BY <1>1, <1>2, <1>4
<1> QED
  BY <1>1, <1>2, <1>4, <1>5, <1>6, <1>7

\* Outside a batch the screen of a common item shows its field.
LEMMA CommonPage ==
    ASSUME Parsable, ~InBatch, Filled,
           NEW n, NEW L, NEW M, Laid(n, L, M),
           NEW i \in 1..8, NEW j \in 1..Len(CommonRuns[i])
    PROVE  L[i - 1] + j \in 1..L[8] /\ parser_getItem(L[i - 1] + j) = Field(CommonFields[i].key)
<1>0. /\ n \in 1..12 /\ ListsFields(TypeFields, n, tx.type, tx.keys)
      /\ Ending(CommonRuns, 8, L) /\ Joins(CommonRuns, 8, L, CommonItems, 0..9)
      /\ Ending(TypeRuns, n, M) /\ Joins(TypeRuns, n, M, TypeItems, 0..11)
  BY DEF Laid
<1> DEFINE p == L[i - 1] + j
           key == CommonFields[i].key
           x == IDX(CommonIndex, key)
<1>1. p \in 1..L[8] /\ CommonItems[p] = CommonRuns[i][j]
  BY <1>0 DEF Joins
<1>2. CommonRuns[i][j] = x
  BY CommonJoin
<1>3. x \in 0..7 /\ CommonIndex[x + 1] = key /\ IDX(CommonIndex, "fv") = 8
  BY CommonFacts
<1>4. /\ common_num_items = L[8] /\ tx_num_items = M[n] /\ L[8] \in Nat /\ M[n] \in Nat
      /\ Len(itemArray) = L[8] + M[n] /\ num_items = L[8] + M[n] + 1 /\ itemArray[p] = x
  BY <1>1, <1>2, FilledItems
<1> HIDE DEF p, x, key
<1>5. parser_printCommonParams(x) = Field(key)
  BY <1>3 DEF parser_printCommonParams
<1>6. /\ common_num_items # 0 /\ ~(p >= parser_getNumItems) /\ p # 0 /\ ~(p > Len(itemArray))
      /\ p <= common_num_items
  BY <1>1, <1>4 DEF parser_getNumItems
<1>7. parser_getItem(p) = parser_printCommonParams(itemArray[p])
  BY <1>6, Zenon DEF parser_getItem
<1> QED
  BY <1>1, <1>4, <1>5, <1>7 DEF p, x, key

\* And that of an item of the type, when there are common ones.
LEMMA TypePage ==
    ASSUME Parsable, ~InBatch, Filled, TypeReadable, CommonItems # <<>>,
           NEW n, NEW L, NEW M, Laid(n, L, M),
           NEW i \in 1..n, NEW j \in 1..Len(TypeRuns[i])
    PROVE  /\ M[i - 1] + j \in 1..M[n]
           /\ parser_getItem(L[8] + (M[i - 1] + j)) = ShownAs(TypeFields[i].key, j)
<1>0. /\ n \in 1..12 /\ ListsFields(TypeFields, n, tx.type, tx.keys)
      /\ Ending(CommonRuns, 8, L) /\ Joins(CommonRuns, 8, L, CommonItems, 0..9)
      /\ Ending(TypeRuns, n, M) /\ Joins(TypeRuns, n, M, TypeItems, 0..11)
  BY DEF Laid
<1> DEFINE q == M[i - 1] + j
           p == L[8] + q
           x == IDX(TypeIndex[tx.type], TypeFields[i].key)
<1>1. q \in 1..M[n] /\ TypeItems[q] = TypeRuns[i][j]
  BY <1>0 DEF Joins
<1>2. TypeRuns[i][j] = x
  BY <1>0, TypeJoin
<1>3. parser_printTx(M[i - 1] + j - 1, x) = ShownAs(TypeFields[i].key, j)
  BY <1>0, TypePrint
<1>4. /\ common_num_items = L[8] /\ tx_num_items = M[n] /\ L[8] \in Nat /\ M[n] \in Nat
      /\ Len(itemArray) = L[8] + M[n] /\ num_items = L[8] + M[n] + 1 /\ itemArray[p] = x
  <2>1. /\ common_num_items = L[8] /\ tx_num_items = M[n] /\ L[8] \in Nat /\ M[n] \in Nat
        /\ Len(itemArray) = L[8] + M[n] /\ num_items = L[8] + M[n] + 1
        /\ \A y \in 1..M[n] : itemArray[L[8] + y] = TypeItems[y]
    BY FilledItems
  <2> HIDE DEF q, x
  <2> QED
    BY <1>1, <1>2, <2>1
<1>5. L[8] # 0
  BY <1>0 DEF Joins
<1>6. q = M[i - 1] + j /\ M[i - 1] \in Nat /\ j \in Nat
  <2>1. Len(TypeRuns[i]) \in Nat /\ i - 1 \in 0..n
    BY <1>0, TypeJoin
  <2>2. j \in Nat
    BY <2>1
  <2>3. M \in [0..n -> Nat]
    BY <1>0, Zenon DEF Ending
  <2>4. M[i - 1] \in Nat
    BY <2>1, <2>3, Zenon
  <2> QED
    BY <2>2, <2>4, Zenon DEF q
<1>7. /\ common_num_items # 0 /\ ~(p >= parser_getNumItems) /\ p # 0 /\ ~(p > Len(itemArray))
      /\ ~(p <= common_num_items) /\ p - common_num_items - 1 < tx_num_items
      /\ p - common_num_items - 1 = M[i - 1] + j - 1
  <2>1. parser_getNumItems = num_items + 0
    BY Zenon DEF parser_getNumItems
  <2> DEFINE l == L[8]
             mn == M[n]
             before == M[i - 1]
             shown == parser_getNumItems
             long == Len(itemArray)
  <2>2. /\ q \in 1..mn /\ p = l + q /\ l \in Nat \ {0} /\ mn \in Nat
        /\ q = before + j /\ before \in Nat /\ j \in Nat
        /\ shown = num_items + 0 /\ num_items = l + mn + 1 /\ long = l + mn
        /\ common_num_items = l /\ tx_num_items = mn
    <3> HIDE DEF l, mn, before, shown, long, q
    <3> QED
      BY <1>1, <1>4, <1>5, <1>6, <2>1 DEF l, mn, before, shown, long
  <2> HIDE DEF l, mn, before, shown, long, q, p
  <2>3. /\ common_num_items # 0 /\ ~(p >= shown) /\ p # 0 /\ ~(p > long)
        /\ ~(p <= common_num_items) /\ p - common_num_items - 1 < tx_num_items
        /\ p - common_num_items - 1 = before + j - 1
    BY <2>2
  <2> QED
    BY <2>3, Zenon DEF before, shown, long
<1> HIDE DEF p, x, q
<1>8. parser_getItem(p) = parser_printTx(p - common_num_items - 1, itemArray[p])
  BY <1>7, Zenon DEF parser_getItem
<1>9. parser_getItem(p) = parser_printTx(M[i - 1] + j - 1, x)
  BY <1>4, <1>7, <1>8
<1> QED
  BY <1>1, <1>3, <1>9 DEF p, q

\* There is no other screen, but for the first.
LEMMA AllPages ==
    ASSUME Parsable, Filled,
           NEW n, NEW L, NEW M, Laid(n, L, M),
           NEW last, last = num_items - 1, NEW p \in 1..last
    PROVE  \/ \E i \in 1..8 : \E j \in 1..Len(CommonRuns[i]) : p = L[i - 1] + j
           \/ \E i \in 1..n : \E j \in 1..Len(TypeRuns[i]) : p = L[8] + (M[i - 1] + j)
<1>0. /\ n \in 1..12 /\ ListsFields(TypeFields, n, tx.type, tx.keys)
      /\ Ending(CommonRuns, 8, L) /\ Joins(CommonRuns, 8, L, CommonItems, 0..9)
      /\ Ending(TypeRuns, n, M) /\ Joins(TypeRuns, n, M, TypeItems, 0..11)
  BY DEF Laid
<1>1. last = L[8] + M[n] /\ L[8] \in Nat /\ M[n] \in Nat
  <2>1. num_items = L[8] + M[n] + 1 /\ L[8] \in Nat /\ M[n] \in Nat
    BY FilledItems
  <2> QED
    BY <2>1
<1>2. CASE p \in 1..L[8]
  BY <1>0, <1>2 DEF Joins
<1>3. CASE p \notin 1..L[8]
  <2>1. p - L[8] \in 1..M[n] /\ p = L[8] + (p - L[8])
    BY <1>1, <1>3
  <2>2. PICK i \in 1..n : \E j \in 1..Len(TypeRuns[i]) : p - L[8] = M[i - 1] + j
    BY <1>0, <2>1 DEF Joins
  <2> QED
    BY <2>1, <2>2
<1> QED
  BY <1>2, <1>3

-----------------------------------------------------------------------------
(* The inductive invariant.                                                  *)

\* What has been shown are the pages before this one, in order.
ShownInOrder ==
    /\ Len(seen) = page
    /\ \A i \in 1..page : seen[i] = parser_getItem(i - 1)

\* Each phase knows what the readers have accepted so far, and that the array and the
\* counters hold exactly the items of it.
ItemsInv ==
    /\ ItemsTypeOK
    /\ phase \notin {"overflow", "invalid"}
    /\ phase \in {"common", "specific"} =>
         /\ Parsable /\ page = 0 /\ seen = <<>>
         /\ tx_num_items = 0 /\ num_items = 0
    /\ phase = "common" => itemArray = <<>> /\ common_num_items = 0
    /\ phase = "specific" =>
         CommonReadable /\ itemArray = CommonItems /\ common_num_items = Len(CommonItems)
    /\ phase \in {"validate", "show", "reviewed"} =>
         Parsable /\ CommonReadable /\ TypeReadable /\ Filled
    /\ phase = "validate" => seen = <<>> /\ page <= parser_getNumItems
    /\ phase = "show" => page <= tx_getNumItems /\ ShownInOrder
    /\ phase = "reviewed" => page = tx_getNumItems /\ ShownInOrder

\* What is computed of the transaction and the setting stays while they do.
LEMMA ItemsStay ==
    ASSUME tx' = tx, setting' = setting
    PROVE  /\ Parsable' <=> Parsable
           /\ CommonReadable' <=> CommonReadable
           /\ TypeReadable' <=> TypeReadable
           /\ CommonItems' = CommonItems /\ TypeItems' = TypeItems
           /\ InBatch' <=> InBatch
<1>1. /\ Parsable' <=> Parsable
      /\ InBatch' <=> InBatch
  BY DEF Parsable, InBatch
<1>2. /\ CommonReadable' <=> CommonReadable
      /\ TypeReadable' <=> TypeReadable
  BY DEF CommonReadable, TypeReadable, Readable, WithinForeignLimit, NumElements, Has, TypeFields
<1>3. CommonItems' = CommonItems
  BY DEF CommonItems, ItemsOf, DISPLAY_COMMON_ITEM, DISPLAY_ITEM, InBatch, Displayed, NumElements, Has
<1>4. TypeItems' = TypeItems
  BY DEF TypeItems, ItemsOf, ShownOfType, DISPLAY_ITEM, DISPLAY_APP_ITEM, InBatch, Displayed,
         NumElements, Has, TypeFields
<1> QED
  BY <1>1, <1>2, <1>3, <1>4

\* And the pages, while the items do.
LEMMA PagesStay ==
    ASSUME tx' = tx, setting' = setting, itemArray' = itemArray, num_items' = num_items,
           common_num_items' = common_num_items, tx_num_items' = tx_num_items
    PROVE  /\ parser_getNumItems' = parser_getNumItems /\ tx_getNumItems' = tx_getNumItems
           /\ \A idx : parser_getItem(idx)' = parser_getItem(idx)
           /\ Filled' <=> Filled
<1>1. parser_getNumItems' = parser_getNumItems /\ tx_getNumItems' = tx_getNumItems
  BY DEF parser_getNumItems, tx_getNumItems, InBatch
<1>2. Filled' <=> Filled
  BY ItemsStay DEF Filled
<1>3. ASSUME NEW idx PROVE parser_getItem(idx)' = parser_getItem(idx)
  BY <1>1 DEF parser_getItem, InBatch, parser_printTx, parser_printTxApplication, NumElements, Has
<1> QED
  BY <1>1, <1>2, <1>3

\* There is such a layout.
LEMMA Layout ==
    ASSUME Parsable
    PROVE  \E n, L, M : Laid(n, L, M)
<1>1. PICK n \in 1..12 : ListsFields(TypeFields, n, tx.type, tx.keys)
  BY TypeFieldsListed
<1>2. PICK L : Ending(CommonRuns, 8, L) /\ Joins(CommonRuns, 8, L, CommonItems, 0..9)
  BY CommonJoin
<1>3. PICK M : Ending(TypeRuns, n, M) /\ Joins(TypeRuns, n, M, TypeItems, 0..11)
  BY <1>1, TypeJoin
<1> QED
  BY <1>1, <1>2, <1>3 DEF Laid

\* In a batch no item is added.
LEMMA NothingInBatch ==
    ASSUME Parsable, InBatch
    PROVE  Len(CommonItems) = 0 /\ Len(TypeItems) = 0
<1>1. PICK n, L, M : Laid(n, L, M)
  BY Layout
<1>2. /\ n \in 1..12 /\ ListsFields(TypeFields, n, tx.type, tx.keys)
      /\ Ending(CommonRuns, 8, L) /\ Joins(CommonRuns, 8, L, CommonItems, 0..9)
      /\ Ending(TypeRuns, n, M) /\ Joins(TypeRuns, n, M, TypeItems, 0..11)
  BY <1>1 DEF Laid
<1>3. \A i \in 1..8 : Len(CommonRuns[i]) = 0
  BY CommonJoin, SwitchTypes
<1>4. \A i \in 1..n : Len(TypeRuns[i]) = 0
  BY <1>2, TypeJoin, SwitchTypes
<1>5. 8 \in Nat /\ n \in Nat
  BY <1>2
<1>6. L[8] = 0
  <2> PICK k \in Nat : k = 8
    OBVIOUS
  <2> DEFINE s == CommonRuns
             S == 0..9
             r == CommonItems
  <2>1. Ending(s, k, L) /\ Joins(s, k, L, r, S) /\ \A i \in 1..k : Len(s[i]) = 0
    BY <1>2, <1>3
  <2> HIDE DEF s, S, r
  <2>2. L[k] = 0
    BY <2>1, JoinIsEmpty
  <2> QED
    BY <2>1, <2>2
<1>7. M[n] = 0
  <2> DEFINE s == TypeRuns
             S == 0..11
             r == TypeItems
  <2>1. Ending(s, n, M) /\ Joins(s, n, M, r, S) /\ \A i \in 1..n : Len(s[i]) = 0
    BY <1>2, <1>4
  <2> HIDE DEF s, S, r
  <2>2. M[n] = 0
    BY <1>5, <2>1, JoinIsEmpty
  <2> QED
    BY <2>1, <2>2
<1> QED
  BY <1>2, <1>6, <1>7 DEF Joins

\* Outside a batch the sender is an item.
LEMMA SenderIsItem ==
    ASSUME Parsable, CommonReadable, ~InBatch
    PROVE  CommonItems # <<>> /\ Len(CommonRuns[1]) = 1 /\ CommonFields[1].key = "snd"
<1>1. CommonFields[1] = Required("snd") /\ CommonFields[1].key = "snd"
  BY FieldKey DEF CommonFields
<1>2. 1 \in 1..8 /\ DOMAIN CommonFields = 1..8
  BY CommonFacts
<1>3. CommonFields[1] \in ToSet(CommonFields \o ValidityFields)
  <2> DEFINE S == {Required("snd"), Optional("lx"), Optional("rekey"), Always("fee"), Optional("gen"),
                   Required("gh"), Optional("grp"), Optional("note"), Required("fv"), Required("lv")}
  <2>1. /\ Len(CommonFields) = 8 /\ Len(ValidityFields) = 2
        /\ CommonFields \in Seq(S) /\ ValidityFields \in Seq(S)
    BY DEF CommonFields, ValidityFields
  <2> DEFINE r == CommonFields \o ValidityFields
  <2>2. /\ Len(r) = Len(CommonFields) + Len(ValidityFields)
        /\ \A i \in 1..(Len(CommonFields) + Len(ValidityFields)) :
             r[i] = IF i <= Len(CommonFields) THEN CommonFields[i]
                    ELSE ValidityFields[i - Len(CommonFields)]
        /\ DOMAIN r = 1..Len(r)
    BY <2>1, ConcatProperties, LenProperties, Zenon
  <2> HIDE DEF r
  <2>3. 1 \in DOMAIN r /\ r[1] = CommonFields[1]
    BY <2>1, <2>2
  <2> QED
    BY <2>3 DEF ToSet, r
<1>4. Readable(CommonFields[1])
  BY <1>3 DEF CommonReadable
<1>5. Has("snd")
  BY <1>1, <1>4 DEF Readable, Required
<1>6. DISPLAY_COMMON_ITEM("snd")
  BY DEF DISPLAY_COMMON_ITEM, DISPLAY_ITEM
<1>7. "snd" \notin Arrays
  BY <1>1, <1>2, CommonFacts
<1>8. Displayed(CommonFields[1]) = 1
  BY <1>1, <1>5, <1>7 DEF Displayed
<1>9. Len(CommonRuns[1]) = 1
  BY <1>1, <1>2, <1>6, <1>8, CommonJoin
<1>10. PICK L : Ending(CommonRuns, 8, L) /\ Joins(CommonRuns, 8, L, CommonItems, 0..9)
  BY CommonJoin
<1>11. L[1 - 1] + 1 \in 1..L[8] /\ Len(CommonItems) = L[8]
  BY <1>2, <1>9, <1>10 DEF Joins
<1>12. L[8] \in Nat
  BY <1>10 DEF Ending
<1>13. Len(CommonItems) # 0
  BY <1>11, <1>12
<1> QED
  BY <1>1, <1>9, <1>13

\* The items of an application call, and of any other type, fit in the array.
LEMMA TypeItemsFit ==
    ASSUME Parsable, TypeReadable, NEW n \in 1..12, ListsFields(TypeFields, n, tx.type, tx.keys),
           NEW M, Ending(TypeRuns, n, M)
    PROVE  M[n] \in 0..39 /\ \A i \in 1..n : Len(TypeRuns[i]) <= 16
<1>1. /\ M \in [0..n -> Nat] /\ M[0] = 0 /\ M[n] \in Nat
      /\ \A i \in 1..n : M[i] = M[i - 1] + Len(TypeRuns[i])
  BY DEF Ending
<1>2. \A i \in 1..n : /\ Len(TypeRuns[i]) \in Nat
                      /\ Len(TypeRuns[i]) = Displayed(TypeFields[i]) \/ Len(TypeRuns[i]) = 0
                      /\ TypeFields[i].key \notin Arrays => Len(TypeRuns[i]) \in {0, 1}
  BY TypeJoin
<1>3. CASE tx.type = "appl"
  <2> DEFINE len(i) == Len(TypeRuns[i])
  <2>1. n = 12
    BY <1>3, ApplicationFacts
  <2>2. /\ len(1) \in {0, 1} /\ len(2) \in {0, 1} /\ len(8) \in {0, 1} /\ len(9) \in {0, 1}
        /\ len(10) \in {0, 1} /\ len(11) \in {0, 1} /\ len(12) \in {0, 1}
    <3>1. \A i \in {1, 2, 8, 9, 10, 11, 12} : i \in 1..n /\ TypeFields[i].key \notin Arrays
      BY <1>3, <2>1, ApplicationFacts
    <3> QED
      BY <1>2, <3>1
  <2>3. /\ len(3) \in 0..8 /\ len(4) \in 0..8 /\ len(5) \in 0..8 /\ len(6) \in 0..4
        /\ len(7) \in 0..16 /\ len(4) + len(5) + len(6) <= 8
    <3>0. \A i \in {3, 4, 5, 6, 7} : i \in 1..n
      BY <2>1
    <3>1. \A i \in {3, 4, 5, 6, 7} : len(i) = Displayed(TypeFields[i]) \/ len(i) = 0
      BY <1>2, <3>0
    <3> DEFINE boxes == NumElements("apbx")
               apps == NumElements("apfa")
               assets == NumElements("apas")
               accounts == NumElements("apat")
               args == NumElements("apaa")
    <3>2. /\ boxes \in 0..8 /\ apps \in 0..8 /\ assets \in 0..8 /\ accounts \in 0..4 /\ args \in 0..16
          /\ apps + assets + accounts <= 8
          /\ Displayed(TypeFields[3]) = boxes /\ Displayed(TypeFields[4]) = apps
          /\ Displayed(TypeFields[5]) = assets /\ Displayed(TypeFields[6]) = accounts
          /\ Displayed(TypeFields[7]) = args
      BY <1>3, ApplicationFacts
    <3> HIDE DEF boxes, apps, assets, accounts, args, len
    <3> QED
      BY <3>1, <3>2
  <2>7. \A k \in 1..12 : M[k] = M[k - 1] + len(k)
    BY <1>1, <2>1
  <2> HIDE DEF len
  <2>4. /\ M[1] = 0 + len(1) /\ M[2] = M[1] + len(2) /\ M[3] = M[2] + len(3)
        /\ M[4] = M[3] + len(4) /\ M[5] = M[4] + len(5) /\ M[6] = M[5] + len(6)
        /\ M[7] = M[6] + len(7) /\ M[8] = M[7] + len(8) /\ M[9] = M[8] + len(9)
        /\ M[10] = M[9] + len(10) /\ M[11] = M[10] + len(11) /\ M[12] = M[11] + len(12)
    BY <1>1, <2>7
  <2>5. M[12] \in 0..39
    BY <2>2, <2>3, <2>4
  <2>6. \A i \in 1..12 : len(i) <= 16
    <3>1. \A i \in 1..12 : i \in {1, 2, 3, 4, 5, 6, 7, 8, 9, 10, 11, 12}
      OBVIOUS
    <3> QED
      BY <2>2, <2>3, <3>1
  <2> QED
    BY <2>1, <2>5, <2>6 DEF len
<1>4. CASE tx.type # "appl"
  <2>1. \A i \in 1..n : TypeFields[i].key \notin Arrays
    BY <1>4, TypeIndexFacts DEF ListsFields, Parsable
  <2>2. \A i \in 1..n : Len(TypeRuns[i]) \in {0, 1}
    BY <1>2, <2>1
  <2>3. n \in Nat
    OBVIOUS
  <2>4. \A i \in 0..n : M[i] <= i
    BY <2>2, <2>3, JoinIsSmall
  <2>5. n \in 0..n /\ M[n] <= n
    BY <2>4
  <2>6. \A x \in {0, 1} : x <= 16
    OBVIOUS
  <2>7. M[n] \in 0..39
    <3>1. M[n] \in Nat
      BY <1>1
    <3> DEFINE x == M[n]
    <3> HIDE DEF x
    <3>2. x \in Nat /\ x <= n /\ n \in 1..12
      BY <2>5, <3>1 DEF x
    <3>3. x \in 0..39
      BY <3>2
    <3> QED
      BY <3>3 DEF x
  <2> QED
    BY <2>2, <2>6, <2>7
<1> QED
  BY <1>3, <1>4

\* Whatever the screen of an item shows is something.
LEMMA PageShown ==
    ASSUME Parsable, CommonReadable, TypeReadable, Filled, NEW p \in 0..(parser_getNumItems - 1)
    PROVE  parser_getItem(p) \in Shown /\ parser_getItem(p) # Nothing
<1>1. PICK n, L, M : Laid(n, L, M)
  BY Layout
<1>2. /\ n \in 1..12 /\ ListsFields(TypeFields, n, tx.type, tx.keys)
      /\ Ending(CommonRuns, 8, L) /\ Joins(CommonRuns, 8, L, CommonItems, 0..9)
      /\ Ending(TypeRuns, n, M) /\ Joins(TypeRuns, n, M, TypeItems, 0..11)
  BY <1>1 DEF Laid
<1>3. \A key \in Keys \union {"type", "max_fees"} :
        key # "none" => Field(key) \in Shown /\ Field(key) # Nothing
  BY DEF Shown, Field, Nothing
<1>4. \A key \in Arrays, i \in 0..255 :
        key # "none" => Element(key, i) \in Shown /\ Element(key, i) # Nothing
  <2> SUFFICES ASSUME NEW key \in Arrays, NEW i \in 0..255
               PROVE  Element(key, i) \in Shown /\ (key # "none" => Element(key, i) # Nothing)
    OBVIOUS
  <2>1. Element(key, i) \in Shown
    <3> DEFINE R == 0..255
    <3>1. Shown = ({Field(k) : k \in Keys \union {"type", "max_fees"}} \union {Nothing})
                     \union {Element(k, x) : k \in Arrays, x \in R}
      BY DEF Shown
    <3>2. i \in R
      OBVIOUS
    <3> HIDE DEF R
    <3> QED
      BY <3>1, <3>2
  <2>2. key # "none" => Element(key, i) # Nothing
    BY DEF Element, Nothing
  <2> QED
    BY <2>1, <2>2
<1>5. ToSet(CommonIndex) \subseteq Keys /\ ToSet(TypeIndex[tx.type]) \subseteq Keys
  BY DEF Keys, Parsable
<1>6. CASE InBatch
  <2>1. parser_getNumItems = num_items + 2 /\ num_items = 1
    BY <1>6, NothingInBatch DEF parser_getNumItems, Filled
  <2>2. p \in {0, 1, 2}
    BY <2>1
  <2>3. parser_getItem(p) = Field(<<"grp", "snd", "max_fees">>[p + 1])
    BY <1>6, <2>2 DEF parser_getItem
  <2>4. parser_getItem(p) \in {Field("grp"), Field("snd"), Field("max_fees")}
    BY <2>2, <2>3
  <2>5. "grp" \in ToSet(CommonIndex) /\ "snd" \in ToSet(CommonIndex)
    BY DEF CommonIndex, ToSet
  <2> QED
    BY <1>3, <1>5, <2>4, <2>5
<1>7. CASE ~InBatch
  <2>1. parser_getNumItems = num_items
    <3>1. num_items = L[8] + M[n] + 1 /\ L[8] \in Nat /\ M[n] \in Nat
      BY <1>1, FilledItems
    <3>2. parser_getNumItems = num_items + 0
      BY <1>7, Zenon DEF parser_getNumItems
    <3> QED
      BY <3>1, <3>2
  <2>2. num_items = L[8] + M[n] + 1 /\ common_num_items = L[8] /\ L[8] \in Nat /\ M[n] \in Nat
        /\ L[8] # 0
    <3>1. num_items = L[8] + M[n] + 1 /\ common_num_items = L[8] /\ L[8] \in Nat /\ M[n] \in Nat
      BY <1>1, FilledItems
    <3>2. CommonItems # <<>> /\ Len(CommonItems) = L[8] /\ CommonItems \in Seq(0..9)
      BY <1>2, <1>7, SenderIsItem DEF Joins
    <3> QED
      BY <3>1, <3>2
  <2>3. CASE p = 0
    <3>1. parser_getItem(p) = Field("type")
      BY <1>7, <2>1, <2>2, <2>3 DEF parser_getItem
    <3> QED
      BY <1>3, <3>1
  <2>4. CASE p # 0
    <3> DEFINE last == num_items - 1
    <3>1. p \in 1..last /\ last = num_items - 1
      BY <2>1, <2>4
    <3> HIDE DEF last
    <3>2. \/ \E i \in 1..8 : \E j \in 1..Len(CommonRuns[i]) : p = L[i - 1] + j
          \/ \E i \in 1..n : \E j \in 1..Len(TypeRuns[i]) : p = L[8] + (M[i - 1] + j)
      BY <1>1, <3>1, AllPages
    <3>3. ASSUME NEW i \in 1..8, NEW j \in 1..Len(CommonRuns[i]), p = L[i - 1] + j
          PROVE  parser_getItem(p) \in Shown /\ parser_getItem(p) # Nothing
      <4>1. parser_getItem(p) = Field(CommonFields[i].key)
        BY <1>1, <1>7, <3>3, CommonPage
      <4>2. CommonFields[i].key \in ToSet(CommonIndex) \ {"fv", "lv", "none", "type"}
        BY CommonFacts
      <4> QED
        BY <1>3, <1>5, <4>1, <4>2
    <3>4. ASSUME NEW i \in 1..n, NEW j \in 1..Len(TypeRuns[i]), p = L[8] + (M[i - 1] + j)
          PROVE  parser_getItem(p) \in Shown /\ parser_getItem(p) # Nothing
      <4>1. parser_getItem(p) = ShownAs(TypeFields[i].key, j)
        <5>1. CommonItems # <<>>
          BY <1>7, SenderIsItem
        <5>2. parser_getItem(L[8] + (M[i - 1] + j)) = ShownAs(TypeFields[i].key, j)
          BY <1>1, <1>7, <5>1, TypePage
        <5> QED
          BY <3>4, <5>2
      <4>2. TypeFields[i].key \in ToSet(TypeIndex[tx.type])
        BY <1>2 DEF ListsFields
      <4>3. TypeFields[i].key \in Keys /\ TypeFields[i].key # "none"
        BY <1>5, <4>2, TypeIndexFacts DEF Parsable
      <4>4. j - 1 \in 0..255
        <5>1. Len(TypeRuns[i]) <= 16 /\ Len(TypeRuns[i]) \in Nat
          BY <1>2, TypeItemsFit, TypeJoin
        <5> QED
          BY <5>1
      <4> QED
        BY <1>3, <1>4, <4>1, <4>3, <4>4 DEF ShownAs
    <3> QED
      BY <3>2, <3>3, <3>4
  <2> QED
    BY <2>3, <2>4
<1> QED
  BY <1>6, <1>7

\* Both counts of the screens are the same.
LEMMA CountsAgree ==
    ASSUME Parsable, Filled
    PROVE  /\ tx_getNumItems = parser_getNumItems
           /\ parser_getNumItems \in Nat /\ parser_getNumItems <= num_items + 2
<1>1. PICK n, L, M : Laid(n, L, M)
  BY Layout
<1>2. num_items = L[8] + M[n] + 1 /\ L[8] \in Nat /\ M[n] \in Nat
  BY <1>1, FilledItems
<1>3. CASE InBatch
  <2>1. num_items = 1
    BY <1>3, NothingInBatch DEF Filled
  <2> QED
    BY <1>3, <2>1 DEF tx_getNumItems, parser_getNumItems
<1>4. CASE ~InBatch
  <2>1. parser_getNumItems = num_items + 0 /\ tx_getNumItems = parser_getNumItems
    BY <1>4, Zenon DEF tx_getNumItems, parser_getNumItems
  <2> QED
    BY <1>2, <2>1
<1> QED
  BY <1>3, <1>4

\* The common items, and those of the type behind them, fit in the array.
LEMMA ItemsFit ==
    ASSUME Parsable
    PROVE  /\ CommonItems \in Seq(0..11) /\ Len(CommonItems) \in 0..8
           /\ TypeItems \in Seq(0..11) /\ Len(TypeItems) \in Nat
           /\ TypeReadable => Len(TypeItems) \in 0..39
<1>1. PICK n, L, M : Laid(n, L, M)
  BY Layout
<1>2. /\ n \in 1..12 /\ ListsFields(TypeFields, n, tx.type, tx.keys)
      /\ Ending(CommonRuns, 8, L) /\ Joins(CommonRuns, 8, L, CommonItems, 0..9)
      /\ Ending(TypeRuns, n, M) /\ Joins(TypeRuns, n, M, TypeItems, 0..11)
  BY <1>1 DEF Laid
<1>3. /\ CommonItems \in Seq(0..9) /\ Len(CommonItems) = L[8] /\ L[8] \in Nat
      /\ TypeItems \in Seq(0..11) /\ Len(TypeItems) = M[n] /\ M[n] \in Nat
  BY <1>2 DEF Joins, Ending
<1>4. CommonItems \in Seq(0..11)
  <2>1. 0..9 \subseteq 0..11
    OBVIOUS
  <2> QED
    BY <1>3, <2>1, SeqMonotonic, Zenon
<1>5. L[8] <= 8
  <2> PICK k \in Nat : k = 8
    OBVIOUS
  <2> DEFINE s == CommonRuns
  <2>1. Ending(s, k, L) /\ \A i \in 1..k : Len(s[i]) \in {0, 1}
    BY <1>2, CommonJoin
  <2> HIDE DEF s
  <2>2. \A i \in 0..k : L[i] <= i
    BY <2>1, JoinIsSmall
  <2> QED
    BY <2>2
<1>6. ASSUME TypeReadable PROVE M[n] \in 0..39
  BY <1>2, <1>6, TypeItemsFit
<1> QED
  BY <1>3, <1>4, <1>5, <1>6

\* The invariant holds at the start.
LEMMA ItemsStart == Init => ItemsInv
<1> SUFFICES ASSUME Init PROVE ItemsInv
  OBVIOUS
<1>1. setting \in Setting /\ tx \in Transactions \union {NoTransaction}
  BY DEF Init, Setting
<1>2. itemArray \in Seq(0..11) /\ Len(itemArray) = 0
  BY DEF Init
<1>3. seen \in Seq(Shown)
  <2> DEFINE S == Shown
  <2> HIDE DEF S
  <2>1. seen \in Seq(S)
    BY DEF Init
  <2> QED
    BY <2>1 DEF S
<1>4. ItemsTypeOK
  BY <1>1, <1>2, <1>3 DEF Init, ItemsTypeOK, Phases, Idle, MAX_ITEM_ARRAY
<1> QED
  BY <1>4 DEF Init, ItemsInv

\* A new transaction begins with nothing of the last.
LEMMA ParseKeeps == ItemsInv /\ parser_parse => ItemsInv'
<1> SUFFICES ASSUME ItemsInv, parser_parse PROVE ItemsInv'
  OBVIOUS
<1>1. /\ tx' \in Transactions /\ setting' \in Settings
      /\ itemArray' = <<>> /\ common_num_items' = 0 /\ tx_num_items' = 0 /\ num_items' = 0
      /\ page' = 0 /\ seen' = <<>>
      /\ phase' = IF tx'.type = "unknown" THEN "refused" ELSE "common"
  BY DEF parser_parse
<1>2. tx' \in Transaction /\ setting' \in Setting
  BY <1>1, ItemsAssumption
<1>3. itemArray' \in Seq(0..11) /\ Len(itemArray') = 0
  BY <1>1
<1>4. seen' \in Seq(Shown)
  <2> DEFINE S == Shown
             S2 == Shown'
  <2>1. Shown' = Shown
    BY DEF Shown
  <2> HIDE DEF S
  <2>2. seen' \in Seq(S)
    BY <1>1
  <2> QED
    BY <2>2 DEF S
<1>5. ItemsTypeOK'
  BY <1>1, <1>2, <1>3, <1>4 DEF ItemsTypeOK, Phases, Idle, MAX_ITEM_ARRAY
<1>6. phase' = "common" => Parsable'
  <2>1. tx'.type \in TxTypes \union {"unknown"}
    BY <1>2 DEF Transaction
  <2> QED
    BY <1>1, <1>2, <2>1 DEF Parsable
<1>7. phase' \in {"refused", "common"}
  BY <1>1
<1> QED
  BY <1>1, <1>5, <1>6, <1>7 DEF ItemsInv

\* A refusal leaves everything else.
LEMMA RefuseKeeps == ItemsInv /\ Refuse("refused") => ItemsInv'
<1> SUFFICES ASSUME ItemsInv, Refuse("refused") PROVE ItemsInv'
  OBVIOUS
<1>1. /\ phase' = "refused" /\ tx' = tx /\ setting' = setting /\ itemArray' = itemArray
      /\ common_num_items' = common_num_items /\ tx_num_items' = tx_num_items
      /\ num_items' = num_items /\ page' = page /\ seen' = seen
  BY DEF Refuse
<1>2. ItemsTypeOK'
  BY <1>1 DEF ItemsInv, ItemsTypeOK, Phases, Idle
<1> QED
  BY <1>1, <1>2 DEF ItemsInv

\* The common fields are read into an empty array.
LEMMA CommonKeeps == ItemsInv /\ readTxCommonParams => ItemsInv'
<1> SUFFICES ASSUME ItemsInv, readTxCommonParams PROVE ItemsInv'
  OBVIOUS
<1>1. /\ phase = "common" /\ Parsable /\ page = 0 /\ seen = <<>> /\ itemArray = <<>>
      /\ common_num_items = 0 /\ tx_num_items = 0 /\ num_items = 0 /\ ItemsTypeOK
  BY DEF readTxCommonParams, ItemsInv
<1>2. /\ CommonItems \in Seq(0..11) /\ Len(CommonItems) \in 0..8
  BY <1>1, ItemsFit
<1>3. CASE ~CommonReadable
  BY <1>3, RefuseKeeps DEF readTxCommonParams
<1>4. CASE CommonReadable
  <2>1. ~(Len(CommonItems) > MAX_ITEM_ARRAY)
    <3> DEFINE x == Len(CommonItems)
    <3>1. x \in 0..8
      BY <1>2
    <3> HIDE DEF x
    <3>2. ~(x > MAX_ITEM_ARRAY)
      BY <3>1 DEF MAX_ITEM_ARRAY
    <3> QED
      BY <3>2 DEF x
  <2>2. /\ Add(CommonItems) /\ common_num_items' = Len(CommonItems) /\ phase' = "specific"
        /\ UNCHANGED <<tx, setting, tx_num_items, num_items, page, seen>>
    BY <1>4, <2>1 DEF readTxCommonParams
  <2>3. itemArray' = CommonItems
    <3>1. itemArray' = <<>> \o CommonItems
      BY <1>1, <2>2 DEF Add
    <3> QED
      BY <1>2, <3>1, ConcatEmptySeq, Zenon
  <2>4. /\ common_num_items' = Len(CommonItems) /\ phase' = "specific"
        /\ tx' = tx /\ setting' = setting /\ tx_num_items' = tx_num_items
        /\ num_items' = num_items /\ page' = page /\ seen' = seen
    BY <2>2
  <2>5. Parsable' /\ CommonReadable' /\ CommonItems' = CommonItems
    BY <1>1, <1>4, <2>4, ItemsStay
  <2>6. ItemsTypeOK'
    BY <1>1, <1>2, <2>3, <2>4 DEF ItemsTypeOK, Phases, Idle, MAX_ITEM_ARRAY
  <2> QED
    BY <1>1, <2>3, <2>4, <2>5, <2>6 DEF ItemsInv
<1> QED
  BY <1>3, <1>4

\* The fields of the type are read behind the common ones.
LEMMA TypeKeeps == ItemsInv /\ readTxOfType => ItemsInv'
<1> SUFFICES ASSUME ItemsInv, readTxOfType PROVE ItemsInv'
  OBVIOUS
<1>1. /\ phase = "specific" /\ Parsable /\ page = 0 /\ seen = <<>> /\ CommonReadable
      /\ itemArray = CommonItems /\ common_num_items = Len(CommonItems) /\ ItemsTypeOK
  BY DEF readTxOfType, ItemsInv
<1>2. /\ CommonItems \in Seq(0..11) /\ Len(CommonItems) \in 0..8
      /\ TypeItems \in Seq(0..11) /\ Len(TypeItems) \in Nat
      /\ TypeReadable => Len(TypeItems) \in 0..39
  BY <1>1, ItemsFit
<1>3. CASE ~TypeReadable
  BY <1>3, RefuseKeeps DEF readTxOfType
<1>4. CASE TypeReadable
  <2> DEFINE r == CommonItems \o TypeItems
             x == Len(CommonItems)
             y == Len(TypeItems)
  <2>1. r \in Seq(0..11) /\ Len(r) = Len(CommonItems) + Len(TypeItems)
    BY <1>2, ConcatProperties, Zenon
  <2>2. x \in 0..8 /\ y \in 0..39
    BY <1>2, <1>4
  <2>3. itemArray \o TypeItems = r
    BY <1>1
  <2> HIDE DEF r, x, y
  <2>4. Len(r) = x + y
    BY <2>1 DEF x, y
  <2>5. Len(r) <= 50 /\ ~(Len(r) > 50)
    BY <2>2, <2>4
  <2>6. /\ Add(TypeItems) /\ tx_num_items' = y
        /\ num_items' = common_num_items + y + 1
        /\ phase' = "validate"
        /\ UNCHANGED <<tx, setting, common_num_items, page, seen>>
    BY <1>4, <2>3, <2>5 DEF readTxOfType, MAX_ITEM_ARRAY, y
  <2>7. itemArray' = r
    BY <2>3, <2>6 DEF Add
  <2>8. /\ common_num_items = x /\ num_items' = x + y + 1 /\ tx_num_items' = y
        /\ common_num_items' = x /\ num_items' \in 1..48
    <3>1. common_num_items = x /\ common_num_items' = common_num_items
      BY <1>1, <2>6 DEF x
    <3> QED
      BY <2>2, <2>6, <3>1
  <2>9. tx' = tx /\ setting' = setting /\ page' = 0 /\ seen' = <<>> /\ phase' = "validate"
    BY <1>1, <2>6
  <2>10. /\ Parsable' /\ CommonReadable' /\ TypeReadable'
         /\ CommonItems' = CommonItems /\ TypeItems' = TypeItems
    BY <1>1, <1>4, <2>9, ItemsStay
  <2>11. Filled'
    BY <2>7, <2>8, <2>10 DEF Filled, r, x, y
  <2>12. ItemsTypeOK'
    <3>1. tx' \in Transactions \union {NoTransaction} /\ setting' \in Setting /\ seen' = seen
      BY <1>1, <2>9 DEF ItemsTypeOK
    <3>2. phase' \in Phases /\ itemArray' \in Seq(0..11) /\ Len(itemArray') <= MAX_ITEM_ARRAY
      BY <2>1, <2>5, <2>7, <2>9 DEF Phases, MAX_ITEM_ARRAY
    <3>3. common_num_items' \in Nat /\ tx_num_items' \in Nat /\ num_items' \in 0..255
          /\ page' \in 0..num_items' + 2
      BY <2>2, <2>8, <2>9
    <3>4. seen' \in Seq(Shown)'
      BY <1>1, <3>1 DEF ItemsTypeOK, Shown
    <3> QED
      BY <3>1, <3>2, <3>3, <3>4 DEF ItemsTypeOK
  <2>13. page' <= parser_getNumItems'
    <3>1. parser_getNumItems' \in {num_items', num_items' + 2}
      <4>1. num_items' + 0 = num_items'
        BY <2>8
      <4> QED
        BY <4>1 DEF parser_getNumItems
    <3>2. parser_getNumItems' \in Nat
      BY <2>8, <3>1
    <3> QED
      BY <2>9, <3>2
  <2> QED
    BY <2>9, <2>10, <2>11, <2>12, <2>13 DEF ItemsInv
<1> QED
  BY <1>3, <1>4

\* Every item is printed once before the review.
LEMMA ValidateKeeps == ItemsInv /\ parser_validate => ItemsInv'
<1> SUFFICES ASSUME ItemsInv, parser_validate PROVE ItemsInv'
  OBVIOUS
<1>1. /\ phase = "validate" /\ Parsable /\ CommonReadable /\ TypeReadable /\ Filled /\ ItemsTypeOK
      /\ seen = <<>> /\ page <= parser_getNumItems
  BY DEF parser_validate, ItemsInv
<1>2. /\ tx' = tx /\ setting' = setting /\ itemArray' = itemArray /\ num_items' = num_items
      /\ common_num_items' = common_num_items /\ tx_num_items' = tx_num_items /\ seen' = seen
  BY DEF parser_validate
<1>3. /\ Parsable' /\ CommonReadable' /\ TypeReadable' /\ Filled'
      /\ parser_getNumItems' = parser_getNumItems
      /\ tx_getNumItems' = parser_getNumItems
  BY <1>1, <1>2, ItemsStay, PagesStay, CountsAgree
<1>4. /\ parser_getNumItems \in Nat /\ parser_getNumItems <= num_items + 2
      /\ num_items \in Nat /\ page \in Nat
  <2>1. parser_getNumItems \in Nat /\ parser_getNumItems <= num_items + 2
    BY <1>1, CountsAgree
  <2> QED
    BY <1>1, <2>1 DEF ItemsTypeOK
<1>5. CASE page = parser_getNumItems
  <2>1. phase' = "show" /\ page' = 0
    BY <1>5 DEF parser_validate
  <2>2. Len(seen') = 0
    BY <1>1, <1>2
  <2>3. ItemsTypeOK'
    BY <1>1, <1>2, <1>4, <2>1 DEF ItemsTypeOK, Phases, Shown
  <2>4. ShownInOrder'
    BY <2>1, <2>2 DEF ShownInOrder
  <2> QED
    BY <1>3, <1>4, <2>1, <2>3, <2>4 DEF ItemsInv
<1>6. CASE page # parser_getNumItems
  <2>1. page \in 0..(parser_getNumItems - 1)
    BY <1>1, <1>4, <1>6
  <2>2. parser_getItem(page) # Nothing
    BY <1>1, <2>1, PageShown
  <2>3. page' = page + 1 /\ phase' = "validate"
    BY <1>1, <1>6, <2>2 DEF parser_validate
  <2>4. page' <= parser_getNumItems /\ page' \in 0..num_items + 2
    BY <1>4, <2>1, <2>3
  <2>5. ItemsTypeOK'
    BY <1>1, <1>2, <2>3, <2>4 DEF ItemsTypeOK, Phases, Shown
  <2> QED
    BY <1>1, <1>2, <1>3, <2>3, <2>4, <2>5 DEF ItemsInv
<1> QED
  BY <1>5, <1>6

\* The user sees the next page.
LEMMA ReviewKeeps == ItemsInv /\ tx_getItem => ItemsInv'
<1> SUFFICES ASSUME ItemsInv, tx_getItem PROVE ItemsInv'
  OBVIOUS
<1>1. /\ phase = "show" /\ Parsable /\ CommonReadable /\ TypeReadable /\ Filled /\ ItemsTypeOK
      /\ page <= tx_getNumItems /\ ShownInOrder
  BY DEF tx_getItem, ItemsInv
<1>2. /\ tx' = tx /\ setting' = setting /\ itemArray' = itemArray /\ num_items' = num_items
      /\ common_num_items' = common_num_items /\ tx_num_items' = tx_num_items
  BY DEF tx_getItem
<1>3. /\ Parsable' /\ CommonReadable' /\ TypeReadable' /\ Filled'
      /\ tx_getNumItems' = tx_getNumItems
      /\ \A idx : parser_getItem(idx)' = parser_getItem(idx)
  BY <1>1, <1>2, ItemsStay, PagesStay
<1>4. /\ tx_getNumItems = parser_getNumItems /\ tx_getNumItems \in Nat
      /\ tx_getNumItems <= num_items + 2 /\ num_items \in Nat /\ page \in Nat
  <2>1. tx_getNumItems = parser_getNumItems
        /\ parser_getNumItems \in Nat /\ parser_getNumItems <= num_items + 2
    BY <1>1, CountsAgree
  <2> QED
    BY <1>1, <2>1 DEF ItemsTypeOK
<1>5. CASE page = tx_getNumItems
  <2>1. phase' = "reviewed" /\ page' = page /\ seen' = seen
    BY <1>5 DEF tx_getItem
  <2>2. ItemsTypeOK'
    BY <1>1, <1>2, <2>1 DEF ItemsTypeOK, Phases, Idle, Shown
  <2>3. ShownInOrder'
    BY <1>1, <1>3, <2>1 DEF ShownInOrder
  <2> QED
    BY <1>3, <1>5, <2>1, <2>2, <2>3 DEF ItemsInv
<1>6. CASE page # tx_getNumItems
  <2>1. page \in 0..(parser_getNumItems - 1)
    BY <1>1, <1>4, <1>6
  <2>2. parser_getItem(page) \in Shown
    BY <1>1, <2>1, PageShown
  <2>3. seen' = Append(seen, parser_getItem(page)) /\ page' = page + 1 /\ phase' = "show"
    BY <1>1, <1>6 DEF tx_getItem
  <2>4. page' <= tx_getNumItems /\ page' \in 0..num_items + 2
    BY <1>4, <2>1, <2>3
  <2> DEFINE S == Shown
             x == parser_getItem(page)
  <2>5. seen \in Seq(S) /\ Len(seen) = page /\ x \in S /\ Shown' = S
    BY <1>1, <2>2 DEF ItemsTypeOK, ShownInOrder, Shown
  <2> HIDE DEF S, x
  <2>6. /\ seen' \in Seq(S) /\ Len(seen') = page + 1
        /\ \A i \in 1..page : seen'[i] = seen[i]
        /\ seen'[page + 1] = x
    BY <1>4, <2>3, <2>5 DEF x
  <2>7. ItemsTypeOK'
    <3>1. seen' \in Seq(Shown')
      BY <2>5, <2>6
    <3> QED
      BY <1>1, <1>2, <2>3, <2>4, <3>1 DEF ItemsTypeOK, Phases
  <2>8. ShownInOrder'
    <3>1. ASSUME NEW i \in 1..(page + 1) PROVE seen'[i] = parser_getItem(i - 1)
      <4>1. CASE i = page + 1
        <5>1. i - 1 = page
          BY <1>4, <4>1
        <5> QED
          BY <2>6, <4>1, <5>1 DEF x
      <4>2. CASE i # page + 1
        <5>1. i \in 1..page
          BY <1>4, <4>2
        <5> QED
          BY <1>1, <2>6, <5>1 DEF ShownInOrder
      <4> QED
        BY <4>1, <4>2
    <3> QED
      BY <1>3, <2>3, <2>6, <3>1 DEF ShownInOrder
  <2> QED
    BY <1>3, <2>3, <2>4, <2>7, <2>8 DEF ItemsInv
<1> QED
  BY <1>5, <1>6

\* The invariant is inductive.
LEMMA ItemsStep == ItemsInv /\ [Next]_vars => ItemsInv'
<1> SUFFICES ASSUME ItemsInv, [Next]_vars PROVE ItemsInv'
  OBVIOUS
<1>1. CASE parser_parse
  BY <1>1, ParseKeeps
<1>2. CASE readTxCommonParams
  BY <1>2, CommonKeeps
<1>3. CASE readTxOfType
  BY <1>3, TypeKeeps
<1>4. CASE parser_validate
  BY <1>4, ValidateKeeps
<1>5. CASE tx_getItem
  BY <1>5, ReviewKeeps
<1>6. CASE UNCHANGED vars
  <2>1. /\ tx' = tx /\ setting' = setting /\ phase' = phase /\ itemArray' = itemArray
        /\ common_num_items' = common_num_items /\ tx_num_items' = tx_num_items
        /\ num_items' = num_items /\ page' = page /\ seen' = seen
    BY <1>6 DEF vars
  <2>2. ItemsTypeOK'
    BY <2>1 DEF ItemsInv, ItemsTypeOK, Phases, Shown
  <2>3. /\ Parsable' <=> Parsable
        /\ CommonReadable' <=> CommonReadable
        /\ TypeReadable' <=> TypeReadable
        /\ CommonItems' = CommonItems /\ (Filled' <=> Filled)
        /\ parser_getNumItems' = parser_getNumItems /\ tx_getNumItems' = tx_getNumItems
        /\ \A idx : parser_getItem(idx)' = parser_getItem(idx)
    BY <2>1, ItemsStay, PagesStay
  <2>4. ShownInOrder' <=> ShownInOrder
    BY <2>1, <2>3 DEF ShownInOrder
  <2> QED
    BY <2>1, <2>2, <2>3, <2>4 DEF ItemsInv
<1> QED
  BY <1>1, <1>2, <1>3, <1>4, <1>5, <1>6 DEF Next

\* Every reachable state of the parser and the review has the invariant.
LEMMA ItemsInvariant == Spec => []ItemsInv
<1> QED
  BY ItemsStart, ItemsStep, PTL DEF Spec

-----------------------------------------------------------------------------
(* The theorems.                                                             *)

\* Type correctness of the parser and the review.
THEOREM ItemsTypes == Spec => []ItemsTypeOK
<1>1. ItemsInv => ItemsTypeOK
  BY DEF ItemsInv
<1> QED
  BY <1>1, ItemsInvariant, PTL

\* For any transaction, the count of screens the application framework asks for and
\* the one the parser validates are the same, in a batch and outside one.
THEOREM CountsOfBatch == Spec => []BatchCountsAgree
<1>1. ItemsInv => BatchCountsAgree
  BY CountsAgree DEF ItemsInv, BatchCountsAgree
<1> QED
  BY <1>1, ItemsInvariant, PTL

\* For any transaction, what the readers accept neither overruns the item array nor has
\* an item or a screen that cannot be printed.
THEOREM AcceptedIsShown == Spec => []AcceptedIsShowable
<1>1. ItemsInv => AcceptedIsShowable
  <2> SUFFICES ASSUME ItemsInv, phase = "show", page < tx_getNumItems
               PROVE  parser_getItem(page) # Nothing
    BY DEF ItemsInv, AcceptedIsShowable
  <2>1. Parsable /\ CommonReadable /\ TypeReadable /\ Filled /\ page \in Nat
    BY DEF ItemsInv, ShownInOrder, ItemsTypeOK
  <2>2. tx_getNumItems = parser_getNumItems /\ parser_getNumItems \in Nat
    BY <2>1, CountsAgree
  <2>3. page \in 0..(parser_getNumItems - 1)
    BY <2>1, <2>2
  <2> QED
    BY <2>1, <2>3, PageShown
<1> QED
  BY <1>1, ItemsInvariant, PTL

-----------------------------------------------------------------------------
(* What a complete review has shown.                                         *)

\* Screen by screen, what has been shown.
ShownInFull(n, L, M) ==
    /\ L[8] \in Nat /\ M[n] \in Nat /\ Len(seen) = L[8] + M[n] + 1 /\ seen \in Seq(Shown)
    /\ seen[1] = Field("type")
    /\ \A i \in 1..8 : \A j \in 1..Len(CommonRuns[i]) :
         /\ L[i - 1] + j \in 1..L[8]
         /\ seen[(L[i - 1] + j) + 1] = Field(CommonFields[i].key)
    /\ \A i \in 1..n : \A j \in 1..Len(TypeRuns[i]) :
         /\ M[i - 1] + j \in 1..M[n]
         /\ seen[(L[8] + (M[i - 1] + j)) + 1] = ShownAs(TypeFields[i].key, j)
    /\ \A p \in 1..(L[8] + M[n]) :
         \/ \E i \in 1..8 : \E j \in 1..Len(CommonRuns[i]) : p = L[i - 1] + j
         \/ \E i \in 1..n : \E j \in 1..Len(TypeRuns[i]) : p = L[8] + (M[i - 1] + j)

\* That is so when a review outside a batch is through.
LEMMA SeenPages ==
    ASSUME ItemsInv, phase = "reviewed", ~InBatch, NEW n, NEW L, NEW M, Laid(n, L, M)
    PROVE  ShownInFull(n, L, M)
<1>1. /\ Parsable /\ CommonReadable /\ TypeReadable /\ Filled
      /\ page = tx_getNumItems /\ ShownInOrder /\ seen \in Seq(Shown)
  BY DEF ItemsInv, ItemsTypeOK
<1>2. CommonItems # <<>>
  BY <1>1, SenderIsItem
<1>3. /\ num_items = L[8] + M[n] + 1 /\ L[8] \in Nat /\ M[n] \in Nat /\ common_num_items = L[8]
  BY <1>1, FilledItems
<1>4. page = num_items
  <2>1. tx_getNumItems = num_items + 0
    BY Zenon DEF tx_getNumItems, parser_getNumItems
  <2> QED
    BY <1>1, <1>3, <2>1
<1>5. Len(seen) = L[8] + M[n] + 1 /\ \A i \in 1..(L[8] + M[n] + 1) : seen[i] = parser_getItem(i - 1)
  BY <1>1, <1>3, <1>4 DEF ShownInOrder
<1>6. ASSUME NEW p \in 0..(L[8] + M[n]) PROVE seen[p + 1] = parser_getItem(p)
  <2>1. p + 1 \in 1..(L[8] + M[n] + 1) /\ (p + 1) - 1 = p
    BY <1>3
  <2> QED
    BY <1>5, <2>1
<1>7. seen[1] = Field("type")
  <2>1. L[8] # 0
    <3>1. CommonItems # <<>> /\ Len(CommonItems) = L[8] /\ CommonItems \in Seq(0..9)
      BY <1>2 DEF Laid, Joins
    <3> QED
      BY <3>1
  <2>2. parser_getNumItems = num_items + 0
    BY Zenon DEF parser_getNumItems
  <2>3. ~(0 >= parser_getNumItems) /\ common_num_items # 0
    BY <1>3, <2>1, <2>2
  <2>4. parser_getItem(0) = Field("type")
    BY <2>3 DEF parser_getItem
  <2>5. 0 \in 0..(L[8] + M[n]) /\ 0 + 1 = 1
    BY <1>3
  <2> QED
    BY <1>6, <2>4, <2>5
<1>8. ASSUME NEW i \in 1..8, NEW j \in 1..Len(CommonRuns[i])
      PROVE  /\ L[i - 1] + j \in 1..L[8]
             /\ seen[(L[i - 1] + j) + 1] = Field(CommonFields[i].key)
  <2>1. L[i - 1] + j \in 1..L[8] /\ parser_getItem(L[i - 1] + j) = Field(CommonFields[i].key)
    BY <1>1, CommonPage
  <2>2. L[i - 1] + j \in 0..(L[8] + M[n])
    BY <1>3, <2>1
  <2> QED
    BY <1>6, <2>1, <2>2
<1>9. ASSUME NEW i \in 1..n, NEW j \in 1..Len(TypeRuns[i])
      PROVE  /\ M[i - 1] + j \in 1..M[n]
             /\ seen[(L[8] + (M[i - 1] + j)) + 1] = ShownAs(TypeFields[i].key, j)
  <2>1. /\ M[i - 1] + j \in 1..M[n]
        /\ parser_getItem(L[8] + (M[i - 1] + j)) = ShownAs(TypeFields[i].key, j)
    BY <1>1, <1>2, TypePage
  <2>2. L[8] + (M[i - 1] + j) \in 0..(L[8] + M[n])
    BY <1>3, <2>1
  <2> QED
    BY <1>6, <2>1, <2>2
<1>10. ASSUME NEW p \in 1..(L[8] + M[n])
       PROVE  \/ \E i \in 1..8 : \E j \in 1..Len(CommonRuns[i]) : p = L[i - 1] + j
              \/ \E i \in 1..n : \E j \in 1..Len(TypeRuns[i]) : p = L[8] + (M[i - 1] + j)
  <2> DEFINE last == L[8] + M[n]
  <2>1. p \in 1..last /\ last = num_items - 1
    BY <1>3
  <2> HIDE DEF last
  <2> QED
    BY SMTT(30), <1>1, <2>1, AllPages
<1> QED
  BY <1>1, <1>3, <1>5, <1>7, <1>8, <1>9, <1>10 DEF ShownInFull

\* A key is always displayed if it is the key of such a field.
LEMMA AlwaysFields ==
    ASSUME Parsable, NEW n \in 1..12, ListsFields(TypeFields, n, tx.type, tx.keys), NEW key
    PROVE  Always(key) \in ToSet(CommonFields \o TypeFields)
             <=> \/ \E i \in 1..8 : CommonFields[i] = Always(key)
                 \/ \E i \in 1..n : TypeFields[i] = Always(key)
<1> DEFINE C == CommonFields
           F == TypeFields
           S == {C[i] : i \in 1..8} \union {F[i] : i \in 1..n}
           r == C \o F
<1>1. DOMAIN C = 1..8 /\ Len(C) = 8 /\ C = [i \in 1..8 |-> C[i]]
  BY DEF CommonFields
<1>2. DOMAIN F = 1..n /\ Len(F) = n /\ F = [i \in 1..n |-> F[i]] /\ n \in Nat
  BY DEF ListsFields
<1> HIDE DEF C, F
<1>3. C \in Seq(S) /\ F \in Seq(S)
  <2>1. \A i \in 1..8 : C[i] \in S
    OBVIOUS
  <2>2. \A i \in 1..n : F[i] \in S
    OBVIOUS
  <2> HIDE DEF S
  <2>3. C \in Seq(S)
    BY <1>1, <2>1
  <2>4. F \in Seq(S)
    BY <1>2, <2>2
  <2> QED
    BY <2>3, <2>4
<1>4. /\ r \in Seq(S) /\ Len(r) = Len(C) + Len(F)
      /\ \A i \in 1..(Len(C) + Len(F)) : r[i] = IF i <= Len(C) THEN C[i] ELSE F[i - Len(C)]
  BY <1>3, ConcatProperties, Zenon
<1>5. DOMAIN r = 1..Len(r)
  BY <1>4, LenProperties, Zenon
<1> HIDE DEF r, S
<1>6. /\ DOMAIN r = 1..(8 + n)
      /\ \A i \in 1..(8 + n) : r[i] = IF i <= 8 THEN C[i] ELSE F[i - 8]
  BY <1>1, <1>2, <1>4, <1>5
<1>7. \A x : x \in ToSet(r) <=> \E i \in 1..(8 + n) : r[i] = x
  BY <1>6 DEF ToSet
<1>8. ASSUME NEW x, x \in ToSet(r) PROVE (\E i \in 1..8 : C[i] = x) \/ (\E i \in 1..n : F[i] = x)
  <2>1. PICK i \in 1..(8 + n) : r[i] = x
    BY <1>7, <1>8
  <2>2. CASE i <= 8
    BY <1>6, <2>1, <2>2
  <2>3. CASE ~(i <= 8)
    <3>1. i - 8 \in 1..n
      BY <2>3
    <3> QED
      BY <1>6, <2>1, <2>3, <3>1
  <2> QED
    BY <2>2, <2>3
<1>9. ASSUME NEW i \in 1..8 PROVE C[i] \in ToSet(r)
  <2>1. i \in 1..(8 + n) /\ i <= 8
    BY <1>2
  <2> QED
    BY <1>6, <1>7, <2>1
<1>10. ASSUME NEW i \in 1..n PROVE F[i] \in ToSet(r)
  <2>1. i + 8 \in 1..(8 + n) /\ ~(i + 8 <= 8) /\ (i + 8) - 8 = i
    BY <1>2
  <2> QED
    BY <1>6, <1>7, <2>1
<1> QED
  BY <1>8, <1>9, <1>10 DEF r, C, F

\* The common fields have different keys, and none of a type.
LEMMA CommonKeys ==
    /\ \A i \in 1..8 : IsField(CommonFields[i], CommonFields[i].key)
    /\ \A i, k \in 1..8 : CommonFields[i].key = CommonFields[k].key => i = k
    /\ \A key \in DisplayedCommon : \E i \in 1..8 : CommonFields[i].key = key
    /\ \A i \in 1..8 : /\ CommonFields[i].key \in DisplayedCommon
                       /\ CommonFields[i].key \notin Arrays
                       /\ CommonFields[i].key # "votelst"
                       /\ CommonFields[i].key \notin ToSet(TypeIndex.acfg) \ {"caid"}
                       /\ CommonFields[i].key # "type"
<1> DEFINE C == CommonFields
<1>1. /\ C[1] = Required("snd") /\ C[2] = Optional("lx") /\ C[3] = Optional("rekey")
      /\ C[4] = Always("fee") /\ C[5] = Optional("gen") /\ C[6] = Required("gh")
      /\ C[7] = Optional("grp") /\ C[8] = Optional("note")
  BY DEF CommonFields
<1> HIDE DEF C
<1>2. /\ C[1].key = "snd" /\ C[2].key = "lx" /\ C[3].key = "rekey" /\ C[4].key = "fee"
      /\ C[5].key = "gen" /\ C[6].key = "gh" /\ C[7].key = "grp" /\ C[8].key = "note"
  BY <1>1, FieldKey
<1>3. \A i \in 1..8 : i \in {1, 2, 3, 4, 5, 6, 7, 8}
  OBVIOUS
<1>4. \A i \in {1, 2, 3, 4, 5, 6, 7, 8} : i \in 1..8
  OBVIOUS
<1>5. \A i \in 1..8 : IsField(C[i], C[i].key)
  BY <1>1, <1>2, <1>3, FieldKey
<1>6. \A i, k \in 1..8 : C[i].key = C[k].key => i = k
  BY <1>2, <1>3
<1>7. \A key \in {"snd", "lx", "rekey", "fee", "gen", "gh", "grp", "note"} :
        \E i \in 1..8 : C[i].key = key
  BY <1>2, <1>4
<1>8. DisplayedCommon = {"snd", "lx", "rekey", "fee", "gen", "gh", "grp", "note"}
  <2> DEFINE e == CommonIndex
  <2>1. e = <<"snd", "lx", "fee", "gh", "gen", "note", "grp", "rekey", "fv", "lv">>
    BY DEF CommonIndex
  <2>2. DOMAIN e = {1, 2, 3, 4, 5, 6, 7, 8, 9, 10}
    BY <2>1
  <2>3. ToSet(e) = {e[i] : i \in {1, 2, 3, 4, 5, 6, 7, 8, 9, 10}}
    BY <2>2 DEF ToSet
  <2>4. /\ e[1] = "snd" /\ e[2] = "lx" /\ e[3] = "fee" /\ e[4] = "gh" /\ e[5] = "gen"
        /\ e[6] = "note" /\ e[7] = "grp" /\ e[8] = "rekey" /\ e[9] = "fv" /\ e[10] = "lv"
    BY <2>1
  <2> HIDE DEF e
  <2>5. ToSet(e) = {"snd", "lx", "fee", "gh", "gen", "note", "grp", "rekey", "fv", "lv"}
    BY <2>3, <2>4
  <2> QED
    BY <2>5 DEF DisplayedCommon, e
<1>9. \A i \in 1..8 : C[i].key \in {"snd", "lx", "rekey", "fee", "gen", "gh", "grp", "note"}
  BY <1>2, <1>3
<1>10. \A i \in 1..8 : C[i].key \notin Arrays
  BY CommonFacts DEF C
<1>11. ASSUME NEW i \in 1..8
       PROVE  /\ C[i].key # "votelst" /\ C[i].key # "type"
              /\ C[i].key \notin ToSet(TypeIndex.acfg) \ {"caid"}
  <2> DEFINE key == C[i].key
  <2>1. key \in {"snd", "lx", "rekey", "fee", "gen", "gh", "grp", "note"}
    BY <1>9
  <2> HIDE DEF key
  <2>2. key # "votelst" /\ key # "type" /\ key \notin ToSet(TypeIndex.acfg) \ {"caid"}
    BY <2>1, ParamKeys
  <2> QED
    BY <2>2 DEF key
<1> QED
  BY <1>5, <1>6, <1>7, <1>8, <1>9, <1>10, <1>11 DEF C

\* A field that is no array has an item if it has to be shown.
LEMMA ItemIfToShow ==
    ASSUME Parsable, NEW n \in 1..12, ListsFields(TypeFields, n, tx.type, tx.keys)
    PROVE  /\ \A i \in 1..8 :
                HasToShow(CommonFields[i].key) <=> Displayed(CommonFields[i]) = 1
           /\ \A i \in 1..n : TypeFields[i].key \notin Arrays =>
                (HasToShow(TypeFields[i].key) <=> Displayed(TypeFields[i]) = 1)
<1> DEFINE C == CommonFields
           F == TypeFields
<1>1. /\ \A i \in 1..n : F[i].key \in ToSet(TypeIndex[tx.type]) /\ IsField(F[i], F[i].key)
      /\ \A i, k \in 1..n : F[i].key = F[k].key => i = k
      /\ \A i \in 1..n : /\ F[i].key = "votelst" => Has("votefst")
                         /\ F[i].key \in ToSet(TypeIndex.acfg) \ {"caid"} => Has("apar")
  BY DEF ListsFields, Has
<1>2. \A i \in 1..8 : \A k \in 1..n : C[i].key # F[k].key
  BY <1>1, CommonFacts, TypeIndexFacts DEF Parsable
<1>3. ASSUME NEW key
      PROVE  Always(key) \in ToSet(CommonFields \o TypeFields)
               <=> (\E i \in 1..8 : C[i] = Always(key)) \/ (\E i \in 1..n : F[i] = Always(key))
  BY AlwaysFields
<1>4. ASSUME NEW i \in 1..8 PROVE HasToShow(C[i].key) <=> Displayed(C[i]) = 1
  <2> DEFINE key == C[i].key
  <2>1. /\ IsField(C[i], key) /\ key \notin Arrays /\ key # "votelst"
        /\ key \notin ToSet(TypeIndex.acfg) \ {"caid"}
    BY CommonKeys
  <2>2. Always(key).key = key
    BY FieldKey
  <2>3. Always(key) \in ToSet(CommonFields \o TypeFields) <=> C[i] = Always(key)
    <3>1. \A k \in 1..8 : C[k] = Always(key) => k = i
      BY <2>2, CommonKeys
    <3>2. \A k \in 1..n : F[k] # Always(key)
      BY <1>2, <2>2
    <3> QED
      BY <1>3, <3>1, <3>2
  <2>4. Displayed(C[i]) = 1 <=> Has(key) \/ C[i] = Always(key)
    BY <2>1, DisplayedType
  <2> HIDE DEF C, key
  <2> QED
    BY <2>1, <2>3, <2>4 DEF HasToShow, key
<1>5. ASSUME NEW i \in 1..n, F[i].key \notin Arrays
      PROVE  HasToShow(F[i].key) <=> Displayed(F[i]) = 1
  <2> DEFINE key == F[i].key
  <2>1. /\ IsField(F[i], key) /\ key \notin Arrays /\ (key = "votelst" => Has("votefst"))
        /\ (key \in ToSet(TypeIndex.acfg) \ {"caid"} => Has("apar"))
    BY <1>1, <1>5
  <2>2. Always(key).key = key
    BY FieldKey
  <2>3. Always(key) \in ToSet(CommonFields \o TypeFields) <=> F[i] = Always(key)
    <3>1. \A k \in 1..n : F[k] = Always(key) => k = i
      BY <1>1, <2>2
    <3>2. \A k \in 1..8 : C[k] # Always(key)
      BY <1>2, <2>2
    <3> QED
      BY <1>3, <3>1, <3>2
  <2>4. Displayed(F[i]) = 1 <=> Has(key) \/ F[i] = Always(key)
    BY <2>1, DisplayedType
  <2> HIDE DEF F, key
  <2> QED
    BY <2>1, <2>3, <2>4 DEF HasToShow, key
<1> QED
  BY <1>4, <1>5

\* For any transaction and setting, a review outside a batch has shown the sender and
\* the new owner of the account, whatever was skipped.
THEOREM SenderAndRekeyAreShown == Spec => []SenderAndRekeyShown
<1>1. ItemsInv => SenderAndRekeyShown
  <2> SUFFICES ASSUME ItemsInv, phase = "reviewed", ~InBatch,
                      NEW x \in FieldsToShow({"snd", "rekey"})
               PROVE  x \in ToSet(seen)
    BY DEF SenderAndRekeyShown
  <2>1. Parsable
    BY DEF ItemsInv
  <2>2. PICK n, L, M : Laid(n, L, M)
    BY <2>1, Layout
  <2>3. n \in 1..12 /\ ListsFields(TypeFields, n, tx.type, tx.keys)
    BY <2>2 DEF Laid
  <2>4. /\ CommonFields[1].key = "snd" /\ CommonFields[3].key = "rekey"
        /\ 1 \in 1..8 /\ 3 \in 1..8
    BY FieldKey DEF CommonFields
  <2>5. "snd" \notin Arrays /\ "rekey" \notin Arrays
    BY <2>4, CommonKeys
  <2>6. PICK k \in {"snd", "rekey"} : x = Field(k) /\ HasToShow(k)
    <3>1. {"snd", "rekey"} \intersect Arrays = {} /\ {"snd", "rekey"} \ Arrays = {"snd", "rekey"}
      BY <2>5
    <3>2. FieldsToShow({"snd", "rekey"}) =
            {Field(k) : k \in {key \in {"snd", "rekey"} : HasToShow(key)}}
      BY <3>1 DEF FieldsToShow
    <3> QED
      BY <3>2
  <2>7. PICK i \in 1..8 : CommonFields[i].key = k
    BY <2>4
  <2>8. Displayed(CommonFields[i]) = 1
    BY <2>1, <2>3, <2>6, <2>7, ItemIfToShow
  <2>9. DISPLAY_COMMON_ITEM(k)
    BY DEF DISPLAY_COMMON_ITEM, DISPLAY_ITEM
  <2>10. Len(CommonRuns[i]) = 1
    BY <2>1, <2>7, <2>8, <2>9, CommonJoin
  <2>11. 1 \in 1..Len(CommonRuns[i])
    BY <2>10
  <2>12. /\ L[i - 1] + 1 \in 1..L[8] /\ seen[(L[i - 1] + 1) + 1] = Field(k)
         /\ Len(seen) = L[8] + M[n] + 1 /\ L[8] \in Nat /\ M[n] \in Nat /\ seen \in Seq(Shown)
    <3>1. /\ L[8] \in Nat /\ M[n] \in Nat /\ Len(seen) = L[8] + M[n] + 1 /\ seen \in Seq(Shown)
          /\ \A h \in 1..8 : \A j \in 1..Len(CommonRuns[h]) :
               /\ L[h - 1] + j \in 1..L[8]
               /\ seen[(L[h - 1] + j) + 1] = Field(CommonFields[h].key)
      BY SMTT(30), <2>2, SeenPages DEF ShownInFull
    <3> QED
      BY <2>7, <2>11, <3>1
  <2>13. DOMAIN seen = 1..Len(seen)
    BY <2>12, LenProperties, Zenon
  <2>14. (L[i - 1] + 1) + 1 \in DOMAIN seen
    BY <2>12, <2>13
  <2> QED
    BY <2>6, <2>12, <2>14 DEF ToSet
<1> QED
  BY <1>1, ItemsInvariant, PTL

\* Different screens show different things.
LEMMA SeenOnce ==
    ASSUME ItemsInv, phase = "reviewed", ~InBatch
    PROVE  \A p, q \in 1..Len(seen) : seen[p] = seen[q] => p = q
<1>1. Parsable
  BY DEF ItemsInv
<1>2. PICK n, L, M : Laid(n, L, M)
  BY <1>1, Layout
<1>3. /\ n \in 1..12 /\ ListsFields(TypeFields, n, tx.type, tx.keys)
  BY <1>2 DEF Laid
<1>4. /\ L[8] \in Nat /\ M[n] \in Nat /\ Len(seen) = L[8] + M[n] + 1
      /\ seen[1] = Field("type")
      /\ \A i \in 1..8 : \A j \in 1..Len(CommonRuns[i]) :
           /\ L[i - 1] + j \in 1..L[8]
           /\ seen[(L[i - 1] + j) + 1] = Field(CommonFields[i].key)
      /\ \A i \in 1..n : \A j \in 1..Len(TypeRuns[i]) :
           /\ M[i - 1] + j \in 1..M[n]
           /\ seen[(L[8] + (M[i - 1] + j)) + 1] = ShownAs(TypeFields[i].key, j)
      /\ \A p \in 1..(L[8] + M[n]) :
           \/ \E i \in 1..8 : \E j \in 1..Len(CommonRuns[i]) : p = L[i - 1] + j
           \/ \E i \in 1..n : \E j \in 1..Len(TypeRuns[i]) : p = L[8] + (M[i - 1] + j)
  <2>1. ShownInFull(n, L, M)
    BY <1>2, SeenPages
  <2> QED
    BY <2>1, Zenon DEF ShownInFull
<1> DEFINE C(i) == CommonFields[i].key
           F(i) == TypeFields[i].key
           IsFirst(p) == p = 1 /\ seen[p] = Field("type")
           IsCommon(p, i) == p = (L[i - 1] + 1) + 1 /\ seen[p] = Field(C(i))
           IsOfType(p, i, j) == p = (L[8] + (M[i - 1] + j)) + 1 /\ seen[p] = ShownAs(F(i), j)
<1>5. ASSUME NEW p \in 1..Len(seen)
      PROVE  \/ IsFirst(p)
             \/ \E i \in 1..8 : IsCommon(p, i)
             \/ \E i \in 1..n : \E j \in 1..Len(TypeRuns[i]) : IsOfType(p, i, j)
  <2>1. CASE p = 1
    BY <1>4, <2>1
  <2>2. CASE p # 1
    <3>1. p - 1 \in 1..(L[8] + M[n]) /\ p = (p - 1) + 1
      BY <1>4, <2>2
    <3>2. CASE \E i \in 1..8 : \E j \in 1..Len(CommonRuns[i]) : p - 1 = L[i - 1] + j
      <4>1. PICK i \in 1..8 : \E j \in 1..Len(CommonRuns[i]) : p - 1 = L[i - 1] + j
        BY <3>2
      <4>2. PICK j \in 1..Len(CommonRuns[i]) : p - 1 = L[i - 1] + j
        BY <4>1
      <4>3. Len(CommonRuns[i]) \in {0, 1}
        BY <1>1, CommonJoin
      <4>4. j = 1
        <5> DEFINE len == Len(CommonRuns[i])
        <5>1. len \in {0, 1} /\ j \in 1..len
          BY <4>3
        <5> HIDE DEF len
        <5> QED
          BY <5>1
      <4>5. p = (L[i - 1] + 1) + 1 /\ seen[p] = Field(C(i))
        BY <1>4, <3>1, <4>2, <4>4
      <4> QED
        BY <4>5
    <3>3. CASE \E i \in 1..n : \E j \in 1..Len(TypeRuns[i]) : p - 1 = L[8] + (M[i - 1] + j)
      <4>1. PICK i \in 1..n : \E j \in 1..Len(TypeRuns[i]) : p - 1 = L[8] + (M[i - 1] + j)
        BY <3>3
      <4>2. PICK j \in 1..Len(TypeRuns[i]) : p - 1 = L[8] + (M[i - 1] + j)
        BY <4>1
      <4>3. p = (L[8] + (M[i - 1] + j)) + 1 /\ seen[p] = ShownAs(F(i), j)
        BY <1>4, <3>1, <4>2
      <4> QED
        BY <4>3
    <3> QED
      BY <1>4, <3>1, <3>2, <3>3
  <2> QED
    BY <2>1, <2>2
<1>6. \A i \in 1..8 : C(i) # "type" /\ \A k \in 1..8 : C(i) = C(k) => i = k
  BY CommonKeys
<1>7. /\ \A i \in 1..n : F(i) \in ToSet(TypeIndex[tx.type])
      /\ \A i, k \in 1..n : F(i) = F(k) => i = k
  BY <1>3 DEF ListsFields
<1>8. \A i \in 1..n : F(i) # "type" /\ \A k \in 1..8 : F(i) # C(k)
  BY <1>1, <1>7, CommonFacts, TypeIndexFacts DEF Parsable
<1>9. \A i \in 1..n : \A j \in 1..Len(TypeRuns[i]) :
        /\ j \in Nat /\ ShownAs(F(i), j).key = F(i)
        /\ F(i) \in Arrays => ShownAs(F(i), j).element = j - 1
        /\ F(i) \notin Arrays => j = 1
  <2> SUFFICES ASSUME NEW i \in 1..n, NEW j \in 1..Len(TypeRuns[i])
               PROVE  /\ j \in Nat /\ ShownAs(F(i), j).key = F(i)
                      /\ F(i) \in Arrays => ShownAs(F(i), j).element = j - 1
                      /\ F(i) \notin Arrays => j = 1
    OBVIOUS
  <2>1. Len(TypeRuns[i]) \in Nat /\ (F(i) \notin Arrays => Len(TypeRuns[i]) \in {0, 1})
    BY <1>1, <1>3, TypeJoin
  <2>2. j \in Nat /\ (F(i) \notin Arrays => j = 1)
    <3> DEFINE len == Len(TypeRuns[i])
    <3>1. len \in Nat /\ j \in 1..len /\ (F(i) \notin Arrays => len \in {0, 1})
      BY <2>1
    <3> HIDE DEF len, F
    <3> QED
      BY <3>1
  <2>3. /\ ShownAs(F(i), j).key = F(i)
        /\ F(i) \in Arrays => ShownAs(F(i), j).element = j - 1
    <3> HIDE DEF F
    <3> QED
      BY DEF ShownAs, Field, Element
  <2> QED
    BY <2>2, <2>3
<1>10. \A key : Field(key).key = key
  BY DEF Field
<1>11. ASSUME NEW p \in 1..Len(seen), NEW q \in 1..Len(seen), seen[p] = seen[q] PROVE p = q
  <2> HIDE DEF C, F
  <2>1. CASE IsFirst(p)
    <3>1. seen[q].key = "type"
      BY <1>10, <1>11, <2>1
    <3>2. \A i \in 1..8 : ~IsCommon(q, i)
      BY <1>6, <1>10, <3>1
    <3>3. \A i \in 1..n : \A j \in 1..Len(TypeRuns[i]) : ~IsOfType(q, i, j)
      BY <1>8, <1>9, <3>1
    <3>4. IsFirst(q)
      BY <1>5, <3>2, <3>3
    <3> QED
      BY <2>1, <3>4
  <2>2. CASE \E i \in 1..8 : IsCommon(p, i)
    <3>1. PICK i \in 1..8 : IsCommon(p, i)
      BY <2>2
    <3>2. seen[q].key = C(i) /\ C(i) # "type"
      BY <1>6, <1>10, <1>11, <3>1
    <3>3. ~IsFirst(q)
      BY <1>10, <3>2
    <3>4. \A k \in 1..n : \A j \in 1..Len(TypeRuns[k]) : ~IsOfType(q, k, j)
      BY <1>8, <1>9, <3>2
    <3>5. PICK k \in 1..8 : IsCommon(q, k)
      BY <1>5, <3>3, <3>4
    <3>6. k = i
      BY <1>6, <1>10, <3>2, <3>5
    <3> QED
      BY <3>1, <3>5, <3>6
  <2>3. CASE \E i \in 1..n : \E j \in 1..Len(TypeRuns[i]) : IsOfType(p, i, j)
    <3>1. PICK i \in 1..n : \E j \in 1..Len(TypeRuns[i]) : IsOfType(p, i, j)
      BY <2>3
    <3>2. PICK j \in 1..Len(TypeRuns[i]) : IsOfType(p, i, j)
      BY <3>1
    <3>3. seen[q].key = F(i) /\ F(i) # "type"
      BY <1>8, <1>9, <1>11, <3>2
    <3>4. ~IsFirst(q)
      BY <1>10, <3>3
    <3>5. \A k \in 1..8 : ~IsCommon(q, k)
      BY <1>8, <1>10, <3>3
    <3>6. PICK k \in 1..n : \E h \in 1..Len(TypeRuns[k]) : IsOfType(q, k, h)
      BY <1>5, <3>4, <3>5
    <3>7. PICK h \in 1..Len(TypeRuns[k]) : IsOfType(q, k, h)
      BY <3>6
    <3>8. k = i
      BY <1>7, <1>9, <3>3, <3>7
    <3>9. h = j
      <4>1. ShownAs(F(i), j) = ShownAs(F(i), h)
        BY <1>11, <3>2, <3>7, <3>8
      <4>2. CASE F(i) \in Arrays
        <5>1. j - 1 = h - 1 /\ j \in Nat /\ h \in Nat
          BY <1>9, <3>8, <4>1, <4>2
        <5> QED
          BY <5>1
      <4>3. CASE F(i) \notin Arrays
        BY <1>9, <3>8, <4>3
      <4> QED
        BY <4>2, <4>3
    <3> QED
      BY <3>2, <3>7, <3>8, <3>9
  <2> QED
    BY <1>5, <2>1, <2>2, <2>3
<1> QED
  BY <1>11

\* A sequence without repetition has as many elements as it is long.
LEMMA DistinctElements ==
    ASSUME NEW S, NEW s \in Seq(S), \A p, q \in 1..Len(s) : s[p] = s[q] => p = q
    PROVE  IsFiniteSet(ToSet(s)) /\ Cardinality(ToSet(s)) = Len(s)
<1>1. Len(s) \in Nat /\ DOMAIN s = 1..Len(s) /\ s = [i \in 1..Len(s) |-> s[i]]
  OBVIOUS
<1>2. s \in [1..Len(s) -> ToSet(s)]
  BY <1>1 DEF ToSet
<1>3. \A x \in ToSet(s) : \E i \in 1..Len(s) : s[i] = x
  BY <1>1 DEF ToSet
<1>4. s \in Bijection(1..Len(s), ToSet(s))
  BY <1>2, <1>3 DEF Bijection, Injection, Surjection, IsInjective
<1>5. ExistsBijection(1..Len(s), ToSet(s))
  BY <1>4 DEF ExistsBijection
<1> QED
  BY <1>1, <1>5, FS_NatBijection, FS_CountingElements

\* What has to be shown has been, and nothing else.
LEMMA SeenIsToShow ==
    ASSUME ItemsInv, phase = "reviewed", ~InBatch, tx.type = "appl" => DISPLAY_APP_ITEM
    PROVE  ToSet(seen) = FieldsToShow(DisplayedCommon \union ToSet(TypeIndex[tx.type]))
                           \union {Field("type")}
<1> DEFINE e == ToSet(TypeIndex[tx.type])
           keys == DisplayedCommon \union e
           C(i) == CommonFields[i].key
           F(i) == TypeFields[i].key
           ofCommon == {Field(C(i)) : i \in {k \in 1..8 : HasToShow(C(k))}}
<1>1. Parsable /\ TypeReadable
  BY DEF ItemsInv
<1>2. PICK n, L, M : Laid(n, L, M)
  BY <1>1, Layout
<1>3. /\ n \in 1..12 /\ ListsFields(TypeFields, n, tx.type, tx.keys)
  BY <1>2 DEF Laid
<1>4. /\ L[8] \in Nat /\ M[n] \in Nat /\ Len(seen) = L[8] + M[n] + 1 /\ seen \in Seq(Shown)
      /\ seen[1] = Field("type")
      /\ \A i \in 1..8 : \A j \in 1..Len(CommonRuns[i]) :
           /\ L[i - 1] + j \in 1..L[8]
           /\ seen[(L[i - 1] + j) + 1] = Field(C(i))
      /\ \A i \in 1..n : \A j \in 1..Len(TypeRuns[i]) :
           /\ M[i - 1] + j \in 1..M[n]
           /\ seen[(L[8] + (M[i - 1] + j)) + 1] = ShownAs(F(i), j)
      /\ \A p \in 1..(L[8] + M[n]) :
           \/ \E i \in 1..8 : \E j \in 1..Len(CommonRuns[i]) : p = L[i - 1] + j
           \/ \E i \in 1..n : \E j \in 1..Len(TypeRuns[i]) : p = L[8] + (M[i - 1] + j)
  <2>1. ShownInFull(n, L, M)
    BY <1>2, SeenPages
  <2> QED
    BY <2>1, Zenon DEF ShownInFull
<1>5. \A p \in 1..Len(seen) : seen[p] \in ToSet(seen)
  <2>1. DOMAIN seen = 1..Len(seen)
    BY <1>4, LenProperties, Zenon
  <2> QED
    BY <2>1 DEF ToSet
<1>6. \A x \in ToSet(seen) : \E p \in 1..Len(seen) : seen[p] = x
  <2>1. DOMAIN seen = 1..Len(seen)
    BY <1>4, LenProperties, Zenon
  <2> QED
    BY <2>1 DEF ToSet
<1>7. \A key : DISPLAY_COMMON_ITEM(key) /\ ShownOfType(key)
  BY DEF DISPLAY_COMMON_ITEM, DISPLAY_ITEM, DISPLAY_APP_ITEM, ShownOfType
<1>8. \A i \in 1..8 : /\ C(i) \in keys \ Arrays
                      /\ Len(CommonRuns[i]) = Displayed(CommonFields[i])
                      /\ HasToShow(C(i)) <=> Displayed(CommonFields[i]) = 1
                      /\ Len(CommonRuns[i]) \in {0, 1}
  BY <1>1, <1>3, <1>7, CommonKeys, CommonJoin, ItemIfToShow
<1>9. \A i \in 1..n : /\ F(i) \in keys
                      /\ Len(TypeRuns[i]) = Displayed(TypeFields[i])
                      /\ F(i) \notin Arrays => (HasToShow(F(i)) <=> Displayed(TypeFields[i]) = 1)
                      /\ F(i) \in Arrays => Displayed(TypeFields[i]) = NumElements(F(i))
                      /\ Len(TypeRuns[i]) \in Nat
                      /\ F(i) \notin Arrays => Len(TypeRuns[i]) \in {0, 1}
  <2>1. \A i \in 1..n : F(i) \in e /\ IsField(TypeFields[i], F(i))
    BY <1>3 DEF ListsFields
  <2> QED
    BY <1>1, <1>3, <1>7, <2>1, TypeJoin, ItemIfToShow, DisplayedType
<1>10. ASSUME NEW i \in 1..8, HasToShow(C(i)) PROVE Field(C(i)) \in ToSet(seen)
  <2>1. 1 \in 1..Len(CommonRuns[i])
    BY SMTT(30), <1>8, <1>10
  <2>2. L[i - 1] + 1 \in 1..L[8] /\ seen[(L[i - 1] + 1) + 1] = Field(C(i))
    BY <1>4, <2>1
  <2>3. (L[i - 1] + 1) + 1 \in 1..Len(seen)
    BY <1>4, <2>2
  <2> QED
    BY <1>5, <2>2, <2>3
<1>11. ASSUME NEW i \in 1..n, NEW j \in 1..Len(TypeRuns[i]) PROVE ShownAs(F(i), j) \in ToSet(seen)
  <2>1. M[i - 1] + j \in 1..M[n] /\ seen[(L[8] + (M[i - 1] + j)) + 1] = ShownAs(F(i), j)
    BY <1>4
  <2>2. (L[8] + (M[i - 1] + j)) + 1 \in 1..Len(seen)
    BY SMTT(30), <1>4, <2>1
  <2> QED
    BY <1>5, <2>1, <2>2
<1>12. Field("type") \in ToSet(seen)
  <2>1. 1 \in 1..Len(seen)
    BY <1>4
  <2> QED
    BY <1>4, <1>5, <2>1
<1>13. ASSUME NEW x \in ToSet(seen), x # Field("type")
       PROVE  \/ \E i \in 1..8 : HasToShow(C(i)) /\ x = Field(C(i))
              \/ \E i \in 1..n : \E j \in 1..Len(TypeRuns[i]) : x = ShownAs(F(i), j)
  <2>1. PICK p \in 1..Len(seen) : seen[p] = x
    BY <1>6
  <2>2. p - 1 \in 1..(L[8] + M[n]) /\ p = (p - 1) + 1
    BY <1>4, <1>13, <2>1
  <2>3. CASE \E i \in 1..8 : \E j \in 1..Len(CommonRuns[i]) : p - 1 = L[i - 1] + j
    <3>1. PICK i \in 1..8 : \E j \in 1..Len(CommonRuns[i]) : p - 1 = L[i - 1] + j
      BY <2>3
    <3>2. PICK j \in 1..Len(CommonRuns[i]) : p - 1 = L[i - 1] + j
      BY <3>1
    <3>3. x = Field(C(i))
      BY <1>4, <2>1, <2>2, <3>2
    <3>4. Len(CommonRuns[i]) = 1
      <4> DEFINE len == Len(CommonRuns[i])
      <4>1. len \in {0, 1} /\ j \in 1..len
        BY <1>8
      <4> HIDE DEF len
      <4>2. len = 1
        BY <4>1
      <4> QED
        BY <4>2 DEF len
    <3>5. HasToShow(C(i))
      BY <1>8, <3>4
    <3> QED
      BY <3>3, <3>5
  <2>4. CASE \E i \in 1..n : \E j \in 1..Len(TypeRuns[i]) : p - 1 = L[8] + (M[i - 1] + j)
    <3>1. PICK i \in 1..n : \E j \in 1..Len(TypeRuns[i]) : p - 1 = L[8] + (M[i - 1] + j)
      BY <2>4
    <3>2. PICK j \in 1..Len(TypeRuns[i]) : p - 1 = L[8] + (M[i - 1] + j)
      BY <3>1
    <3>3. x = ShownAs(F(i), j)
      BY <1>4, <2>1, <2>2, <3>2
    <3> QED
      BY <3>3
  <2> QED
    BY <1>4, <2>2, <2>3, <2>4
<1>14. ASSUME NEW i \in 1..n, NEW j \in 1..Len(TypeRuns[i])
       PROVE  ShownAs(F(i), j) \in FieldsToShow(keys)
  <2>1. CASE F(i) \notin Arrays
    <3>1. Len(TypeRuns[i]) = 1
      <4> DEFINE len == Len(TypeRuns[i])
      <4>1. len \in {0, 1} /\ j \in 1..len
        BY <1>9, <2>1
      <4> HIDE DEF len
      <4>2. len = 1
        BY <4>1
      <4> QED
        BY <4>2 DEF len
    <3>2. HasToShow(F(i)) /\ F(i) \in keys
      BY <1>9, <2>1, <3>1
    <3>3. ShownAs(F(i), j) = Field(F(i))
      BY <2>1 DEF ShownAs
    <3> HIDE DEF keys, F
    <3> QED
      BY <2>1, <3>2, <3>3 DEF FieldsToShow
  <2>2. CASE F(i) \in Arrays
    <3> DEFINE len == NumElements(F(i))
    <3>1. len = Len(TypeRuns[i]) /\ len \in Nat /\ F(i) \in keys
      BY <1>9, <2>2
    <3> HIDE DEF len
    <3>2. j - 1 \in 0..(len - 1)
      BY <3>1
    <3>3. ShownAs(F(i), j) = Element(F(i), j - 1)
      BY <2>2 DEF ShownAs
    <3> HIDE DEF keys, F
    <3>4. Element(F(i), j - 1) \in {Element(F(i), k) : k \in 0..(NumElements(F(i)) - 1)}
      BY <3>2 DEF len
    <3> QED
      BY <2>2, <3>1, <3>3, <3>4 DEF FieldsToShow
  <2> QED
    BY <2>1, <2>2
<1>15. ASSUME NEW i \in 1..8, HasToShow(C(i)) PROVE Field(C(i)) \in FieldsToShow(keys)
  <2>1. C(i) \in keys \ Arrays
    BY <1>8
  <2> HIDE DEF keys, C
  <2> QED
    BY <1>15, <2>1 DEF FieldsToShow
<1>16. ASSUME NEW key \in keys \ Arrays, HasToShow(key) PROVE Field(key) \in ToSet(seen)
  <2>1. CASE key \in DisplayedCommon
    <3>1. PICK i \in 1..8 : C(i) = key
      BY <2>1, CommonKeys
    <3> QED
      BY <1>10, <1>16, <3>1
  <2>2. CASE key \in e
    <3>1. PICK i \in 1..n : F(i) = key
      BY <1>3, <1>16, <2>2 DEF ListsFields, HasToShow, Has
    <3>2. Len(TypeRuns[i]) = 1
      BY <1>9, <1>16, <3>1
    <3>3. 1 \in 1..Len(TypeRuns[i])
      BY <3>2
    <3>4. ShownAs(F(i), 1) = Field(key)
      BY <3>1 DEF ShownAs
    <3> QED
      BY <1>11, <3>3, <3>4
  <2> QED
    BY <2>1, <2>2
<1>17. ASSUME NEW key \in keys \intersect Arrays, NEW k \in 0..(NumElements(key) - 1)
       PROVE  Element(key, k) \in ToSet(seen)
  <2>1. key \in e
    BY CommonKeys
  <2>2. key # "votelst" /\ key \notin ToSet(TypeIndex.acfg) \ {"caid"}
    <3>1. Arrays = {"apbx", "apfa", "apas", "apat", "apaa"}
      BY DEF Arrays, ArrayLimit
    <3> QED
      BY <3>1, ParamKeys
  <2>3. PICK i \in 1..n : F(i) = key
    BY <1>3, <2>1, <2>2 DEF ListsFields
  <2> DEFINE len == NumElements(key)
  <2>4. len = Len(TypeRuns[i]) /\ len \in Nat
    BY <1>9, <2>3
  <2>5. k \in 0..(len - 1)
    OBVIOUS
  <2> HIDE DEF len
  <2>6. k + 1 \in 1..Len(TypeRuns[i]) /\ (k + 1) - 1 = k
    BY <2>4, <2>5
  <2>7. ShownAs(F(i), k + 1) = Element(key, k)
    BY <2>3, <2>6 DEF ShownAs
  <2> QED
    BY <1>11, <2>6, <2>7
<1>18. ASSUME NEW x \in FieldsToShow(keys) PROVE x \in ToSet(seen)
  <2> HIDE DEF keys
  <2>1. \/ \E key \in keys \ Arrays : HasToShow(key) /\ x = Field(key)
        \/ \E key \in keys \intersect Arrays : \E k \in 0..(NumElements(key) - 1) : x = Element(key, k)
    BY DEF FieldsToShow
  <2> QED
    BY <1>16, <1>17, <2>1
<1> HIDE DEF C, F
<1>19. ASSUME NEW x \in ToSet(seen), x # Field("type") PROVE x \in FieldsToShow(keys)
  <2> HIDE DEF keys
  <2> QED
    BY <1>13, <1>14, <1>15, <1>19
<1> QED
  <2> HIDE DEF keys
  <2>1. ToSet(seen) = FieldsToShow(keys) \union {Field("type")}
    BY <1>12, <1>18, <1>19
  <2> QED
    BY <2>1 DEF keys

\* For any transaction and setting: outside a batch, and except for the fields of
\* application calls, a complete review has shown every field of the transaction and
\* every element of its arrays, each exactly once, and nothing else but the type.
THEOREM EveryFieldIsShown == Spec => []EveryFieldShownOnce
<1>1. ItemsInv => EveryFieldShownOnce
  <2> DEFINE keys == DisplayedCommon \union ToSet(TypeIndex[tx.type])
             fields == FieldsToShow(keys)
  <2> SUFFICES ASSUME ItemsInv, phase = "reviewed", ~InBatch, tx.type = "appl" => DISPLAY_APP_ITEM
               PROVE  ToSet(seen) = fields \union {Field("type")} /\ Len(seen) = Cardinality(fields) + 1
    BY DEF EveryFieldShownOnce
  <2>1. ToSet(seen) = fields \union {Field("type")}
    BY SeenIsToShow
  <2>2. seen \in Seq(Shown) /\ Parsable
    BY DEF ItemsInv, ItemsTypeOK
  <2>3. IsFiniteSet(ToSet(seen)) /\ Cardinality(ToSet(seen)) = Len(seen) /\ Len(seen) \in Nat
    <3>1. \A p, q \in 1..Len(seen) : seen[p] = seen[q] => p = q
      BY SeenOnce
    <3> DEFINE S == Shown
    <3> HIDE DEF S
    <3>2. seen \in Seq(S)
      BY <2>2 DEF S
    <3> QED
      BY <3>1, <3>2, DistinctElements
  <2>4. Field("type") \notin fields
    <3>1. "type" \notin keys
      <4>1. "type" \notin ToSet(TypeIndex[tx.type])
        BY <2>2, TypeIndexFacts DEF Parsable
      <4>2. "type" \notin DisplayedCommon
        BY CommonKeys
      <4> QED
        BY <4>1, <4>2
    <3> HIDE DEF keys
    <3>2. \A key, k : Element(key, k) = Field("type") => key = "type"
      BY DEF Element, Field
    <3>3. \A key : Field(key) = Field("type") => key = "type"
      BY DEF Field
    <3> QED
      BY <3>1, <3>2, <3>3 DEF FieldsToShow
  <2> HIDE DEF fields
  <2>5. ToSet(seen) \ {Field("type")} = fields /\ Field("type") \in ToSet(seen)
    BY <2>1, <2>4
  <2>6. IsFiniteSet(fields) /\ Cardinality(fields) = Cardinality(ToSet(seen)) - 1
    <3> DEFINE S == ToSet(seen)
               x == Field("type")
    <3>1. S \ {x} = fields /\ x \in S /\ IsFiniteSet(S)
      BY <2>3, <2>5
    <3> HIDE DEF S, x
    <3>2. IsFiniteSet(S \ {x}) /\ Cardinality(S \ {x}) = Cardinality(S) - 1
      BY <3>1, FS_RemoveElement
    <3> QED
      BY <3>1, <3>2 DEF S
  <2>7. Len(seen) = Cardinality(fields) + 1
    <3> DEFINE x == Len(seen)
               y == Cardinality(fields)
    <3>1. x \in Nat /\ y = x - 1
      BY <2>3, <2>6
    <3> HIDE DEF x, y
    <3>2. x = y + 1
      BY <3>1
    <3> QED
      BY <3>2 DEF x, y
  <2> QED
    BY <2>1, <2>7 DEF fields
<1> QED
  BY <1>1, ItemsInvariant, PTL

=============================================================================
