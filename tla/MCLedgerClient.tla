---------------------------- MODULE MCLedgerClient ----------------------------
(* LedgerClient for TLC: the transactions, messages and calls of the runs.     *)
EXTENDS LedgerClient

MCAccountIds == {0, 1}
MCTxns == {"a", "b", "c", "d", "e", "f", "x", "bad", "mix"}
MCMessages == {"msg"}
MCSize == [m \in MCTxns \union MCMessages |-> IF m \in {"a", "b", "e", "msg"} THEN 2 ELSE 1]
MCFee == [t \in MCTxns |-> IF t \in {"a", "c"} THEN 1 ELSE 2]
MCWellFormed == MCTxns \ {"bad"}
MCAppCalls == {"b"}

\* The first chunk of a transaction or message and the second of another
\* transaction: bytes the parser takes for one more transaction.
MCMixtures ==
    {[buffer |-> <<TXTag, <<s, 1>>, <<t, 2>>>>, txn |-> "mix"] :
        <<s, t>> \in {p \in {"a", "b", "e"} \X {"a", "b", "e"} : p[1] # p[2]}}
    \union {[buffer |-> << <<"msg", 1>>, <<t, 2>> >>, txn |-> "mix"] : t \in {"a", "b", "e"}}

MCSender == [m \in MCTxns \union MCMessages |-> IF m \in {"e", "x", "msg"} THEN 1 ELSE 0]

Call(kind, account, asks, items) ==
    [kind |-> kind, account |-> account, items |-> items, asks |-> asks]

RequestTable ==
    ("group1"    :> Call("signGroup", 0, TRUE,  <<"a", "x", "b", "f">>)) @@
    ("group2"    :> Call("signGroup", 0, TRUE,  <<"c", "d">>)) @@
    ("sign1"     :> Call("sign",      1, FALSE, <<"e">>)) @@
    ("asked1"    :> Call("sign",      1, TRUE,  <<"e">>)) @@
    ("sign0"     :> Call("sign",      0, TRUE,  <<"a">>)) @@
    ("retry"     :> Call("sign",      0, TRUE,  <<"a">>)) @@
    ("data"      :> Call("signData",  1, TRUE,  <<"msg">>)) @@
    ("badgroup"  :> Call("signGroup", 0, TRUE,  <<"a", "bad">>)) @@
    ("bare0"     :> Call("sign",      0, FALSE, <<"c">>)) @@
    ("lone"      :> Call("signGroup", 0, TRUE,  <<"a", "x">>)) @@
    ("group1of1" :> Call("signGroup", 1, TRUE,  <<"e", "x">>))

MCRequest == [c \in Calls |-> RequestTable[c]]

===============================================================================
