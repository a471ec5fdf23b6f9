--------------------------- MODULE MCArbitraryItems ---------------------------
(* ArbitraryItems for TLC: messages built from their members, one per kind of     *)
(* value in every place that matters, in every order of arrival.                  *)
EXTENDS ArbitraryItems

Chars(text) == [i \in 1..Len(text) |-> SubSeq(text, i, i)]

\* A member: its key, the characters before its value, its value, and whether the
\* value is a string.
Member(key, space, value, string) ==
    [key |-> key, space |-> space, value |-> value, string |-> string]
Text1(key, value) == Member(key, "", value, TRUE)
Other(key, value) == Member(key, "", value, FALSE)

MessageTable ==
    [none    |-> [domain |-> "d", members |-> <<>>],
     text    |-> [domain |-> "d", members |-> <<Text1("a", "b")>>],
     number  |-> [domain |-> "d", members |-> <<Other("a", "1")>>],
     colons  |-> [domain |-> "ex", members |-> <<Text1("a", "u:v,"), Text1("b", "")>>],
     spaced  |-> [domain |-> "d", members |-> <<Member("a", " \t", "1", FALSE), Member("k", "\n", "v", TRUE)>>],
     array   |-> [domain |-> "d", members |-> <<Other("a", "[[1,2],\"x\"]"), Text1("c", "{}")>>],
     last    |-> [domain |-> "d", members |-> <<Text1("c", "d"), Other("a", "[]")>>],
     full    |-> [domain |-> "d", members |-> <<Text1("a", "1"), Other("b", "2"), Other("c", "3")>>],
     over    |-> [domain |-> "d", members |-> <<Other("a", "1"), Other("b", "2"), Text1("c", "3")>>],
     domain4 |-> [domain |-> "dddd", members |-> <<Text1("a", "b"), Other("c", "1")>>],
     limits  |-> [domain |-> "d", members |-> <<Other("ab", "[123456789]"), Text1("c", "0123456789a")>>],
     value   |-> [domain |-> "d", members |-> <<Text1("a", "0123456789ab")>>],
     key     |-> [domain |-> "d", members |-> <<Text1("abc", "1")>>],
     escaped |-> [domain |-> "d", members |-> <<Text1("a", "b\\\"c")>>]]

Flat(m) == Chars(m.key) \o <<Quote, ":">> \o Chars(m.space)
             \o (IF m.string THEN <<Quote>> \o Chars(m.value) \o <<Quote>> ELSE Chars(m.value))

MCJson ==
    [u \in DOMAIN MessageTable |->
        LET members == MessageTable[u].members
        IN  <<"{">> \o FlattenSeq([i \in DOMAIN members |->
                          (IF i = 1 THEN <<>> ELSE <<",">>) \o <<Quote>> \o Flat(members[i])])
            \o <<"}">>]

MCMembers ==
    [u \in DOMAIN MessageTable |->
        [i \in DOMAIN MessageTable[u].members |->
            [key   |-> Chars(MessageTable[u].members[i].key),
             value |-> Chars(MessageTable[u].members[i].value)]]]

\* The text up to its i-th member.
Prefix(u, i) == <<"{">> \o FlattenSeq([j \in 1..(i - 1) |->
                  <<Quote>> \o Flat(MessageTable[u].members[j]) \o <<",">>])

MCPlaces ==
    [u \in DOMAIN MessageTable |->
        [i \in DOMAIN MessageTable[u].members |->
            LET m == MessageTable[u].members[i]
                open == Len(MessageTable[u].domain) + 1 + Len(Prefix(u, i)) + 1
                colon == open + Len(m.key) + 2
                value == colon + Len(m.space) + 1
            IN  [open  |-> open, close |-> colon - 1, colon |-> colon, value |-> value,
                 last  |-> value + Len(m.value) + (IF m.string THEN 1 ELSE -1)]]]

MCDomain == [u \in DOMAIN MessageTable |-> Chars(MessageTable[u].domain)]

===============================================================================
