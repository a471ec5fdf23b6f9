------------------------------- MODULE MCTxItems -------------------------------
(* TxItems for TLC: for every type the transactions with the fewest and the most  *)
(* fields, those one field away from them, and those with one unreadable field;   *)
(* and application calls with arrays at, below and above their limits.            *)
EXTENDS TxItems

NoArrays == [a \in Arrays |-> 0]
OneEach == [a \in Arrays |-> 1]
Sizes(bx, fa, as, at, aa) == [apbx |-> bx, apfa |-> fa, apas |-> as, apat |-> at, apaa |-> aa]

KeysOf(type) == ToSet(CommonIndex) \union ToSet(TypeIndex[type])
                    \union (IF type = "acfg" THEN {"apar"} ELSE {})

RequiredOf(type) ==
    {"snd", "gh", "fv", "lv"} \union
    (CASE type = "pay"   -> {"rcv"}
       [] type = "axfer" -> {"xaid", "arcv"}
       [] type = "afrz"  -> {"faid", "fadd"}
       [] OTHER          -> {})

Tx(type, keys, unreadable, size) ==
    [type |-> type, keys |-> keys, unreadable |-> unreadable, size |-> size]

OneAway(type) ==
    LET all == KeysOf(type)
        least == RequiredOf(type)
    IN  {Tx(type, keys, {}, OneEach) :
            keys \in {least, all} \union {least \union {k} : k \in all}
                                  \union {all \ {k} : k \in all}}

Unreadable(type) == {Tx(type, KeysOf(type), {k}, OneEach) : k \in KeysOf(type)}

Extremes ==
    {Tx("appl", KeysOf("appl"), {}, size) :
        size \in {NoArrays, Sizes(8, 4, 0, 4, 16), Sizes(8, 0, 8, 0, 16), Sizes(8, 8, 0, 0, 16),
                  Sizes(1, 2, 3, 2, 4), Sizes(0, 3, 0, 4, 1), Sizes(9, 0, 0, 0, 0),
                  Sizes(0, 0, 0, 5, 0), Sizes(0, 0, 0, 0, 17), Sizes(0, 4, 4, 1, 0), Sizes(8, 8, 8, 4, 16)}}

OneArray == {Tx("appl", RequiredOf("appl") \union {a}, {}, [NoArrays EXCEPT ![a] = 3]) : a \in Arrays}

MCTransactions ==
    UNION {OneAway(t) : t \in TxTypes} \union UNION {Unreadable(t) : t \in TxTypes}
    \union Extremes \union OneArray \union {NoTransaction}

MCSettings == Setting

================================================================================
