-------------------------- MODULE MCAlgorandDevice --------------------------
(* AlgorandDevice for TLC: a host that sends any well-framed command, in any  *)
(* order, about two transactions and one message.                             *)
EXTENDS AlgorandDevice

MCAccountIds == {0, 1}
MCTxns == {"pay", "appl", "bad", "mix"}
MCMessages == {"msg"}
MCSize == [m \in MCTxns \union MCMessages |-> IF m \in {"appl", "msg"} THEN 2 ELSE 1]
MCFee == [t \in MCTxns |-> 1]
MCWellFormed == {"pay", "appl", "mix"}
MCAppCalls == {"appl"}

\* A message's first chunk before the end of a transaction, a transaction's end
\* alone, and one cut short: read as another transaction, or not quite one.
MCMixtures ==
    {[buffer |-> <<<<"msg", 1>>, <<"appl", 2>>>>, txn |-> "mix"]}
      \union {[buffer |-> <<TXTag, <<"appl", 2>>>>, txn |-> t] : t \in {"mix", "bad"}}
      \union {[buffer |-> <<TXTag, <<"bad", 1>>>>, txn |-> "mix"]}

Counts == {0, 3}
Command(ins, p1, p2, data) == [ins |-> ins, p1 |-> p1, p2 |-> p2, data |-> data]

SignCommands ==
    LET S(p1, p2, data) == Command("INS_SIGN_MSGPACK", p1, p2, data)
    IN  UNION {{S(2 * n, P2_LAST, <<<<"pay", 1>>>>),
                S(2 * n, P2_LAST, <<<<"bad", 1>>>>),
                S(2 * n, P2_MORE, <<<<"appl", 1>>>>),
                S(P1_MORE + 2 * n, P2_MORE, <<<<"appl", 1>>, <<"appl", 2>>>>),
                S(P1_MORE + 2 * n, P2_LAST, <<<<"appl", 2>>>>)} : n \in Counts}
        \union {S(1, P2_LAST, <<AccountUnit(1), <<"pay", 1>>>>),
                S(5, P2_LAST, <<AccountUnit(1), <<"pay", 1>>>>),
                S(1, P2_MORE, <<AccountUnit(1), <<"appl", 1>>>>),
                S(1, P2_MORE, <<>>),
                S(2, P2_LAST, <<<<"pay", 1>>>>),
                S(34, P2_LAST, <<<<"pay", 1>>>>),
                S(4, P2_LAST, <<<<"pay", 1>>>>),
                S(128, 1, <<>>)}

MessageCommands ==
    {Command("INS_ARBITRARY_SIGN", 0, P2_MORE, <<<<"msg", 1>>>>),
     Command("INS_ARBITRARY_SIGN", P1_MORE, P2_LAST, <<<<"msg", 2>>>>),
     Command("INS_ARBITRARY_SIGN", 0, P2_LAST, <<<<"msg", 1>>, <<"msg", 2>>>>)}

OtherCommands ==
    {Command("INS_GET_PUBLIC_KEY", 0, 0, <<AccountUnit(1)>>),
     Command("INS_GET_ADDRESS", 1, 0, <<>>),
     Command("INS_GET_VERSION", 0, 0, <<>>),
     Command("other", 0, 0, <<>>)}

MCApdus == SignCommands \union MessageCommands \union OtherCommands

=============================================================================
