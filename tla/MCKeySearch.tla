------------------------------ MODULE MCKeySearch ------------------------------
(* KeySearch for TLC: transactions built from their fields.  Accounts, hashes and  *)
(* keys have the sizes below instead of 32 and 64 bytes.                           *)
EXTENDS AddressText

MCBinSize ==
    [k \in {"snd", "rcv", "close", "rekey", "arcv", "asnd", "aclose", "fadd", "m", "r", "f", "c"} |-> 2]
    @@ [k \in {"lx", "gh", "grp", "votekey", "selkey", "am"} |-> 1] @@ [sprfkey |-> 3]
MCStringSize == [gen |-> 5, un |-> 3, an |-> 4, au |-> 4]

Names == Keys \union TxTypes \union
            {"type", "nui", "nbs", "i", "n", "g", "zz", "no", "fees", "ab", "abc"}
Letters == "abcdefghijklmnopqrstuvwxyz"
Letter(c) == 96 + CHOOSE i \in 1..26 : SubSeq(Letters, i, i) = c
MCAscii == [k \in Names |-> [j \in 1..Len(k) |-> Letter(SubSeq(k, j, j))]]

\* Anything that depends on the bytes of the key will do.
MCChecksum(key) == <<key[1], 255 - key[2], (7 * key[1] + key[2]) % 256, (key[1] + 3 * key[2]) % 256>>

(* Values: their bytes, and what a reader keeps of them, by element.               *)
Val(bytes, kept) == [bytes |-> bytes, kept |-> kept]
Same(bytes) == Val(bytes, {<<0, bytes>>})
Fix(i) == Same(<<i>>)
Uint8(i) == Same(<<204, i>>)
Uint16(i) == Same(<<205, i, i>>)
Uint64(i) == Same(<<207, i, i, i, i, i, i, i, i>>)
Bool(b) == Same(<<IF b THEN 195 ELSE 194>>)
Payload(bytes) == Val(<<196, Len(bytes)>> \o bytes, {<<0, bytes>>})
Bytes16(bytes) == Val(<<197, 0, Len(bytes)>> \o bytes, {<<0, bytes>>})
Note(bytes) == Val(<<196, Len(bytes)>> \o bytes, {<<0, <<Len(bytes)>>>>})
Text(name) == Val(<<160 + Len(name)>> \o MCAscii[name], {<<0, MCAscii[name]>>})
Text8(name) == Val(<<217, Len(name)>> \o MCAscii[name], {<<0, MCAscii[name]>>})
Flat(values) == FlattenSeq([i \in DOMAIN values |-> values[i].bytes])
Array(values) == Same(<<144 + Len(values)>> \o Flat(values))
Array16(values) == Same(<<220, 0, Len(values)>> \o Flat(values))
Map(values) == Same(<<128 + Len(values) \div 2>> \o Flat(values))
Map16(values) == Same(<<222, 0, Len(values) \div 2>> \o Flat(values))
\* The elements of an array, which are read again when they are printed.
Printed(array, payloads) ==
    [array EXCEPT !.kept = @ \union {<<i, payloads[i]>> : i \in DOMAIN payloads}]
Unsupported == Same(<<202>>)

(* Transactions: pairs of a key and a value.  Params are fields of their own.      *)
F(key, value) == <<key, value>>
Encode(fields) ==
    <<128 + Len(fields)>> \o FlattenSeq([i \in DOMAIN fields |->
        Text(fields[i][1]).bytes \o fields[i][2].bytes])
Kept(field) == {[key |-> field[1], element |-> kept[1], bytes |-> kept[2]] : kept \in field[2].kept}
AllKept(fields) == UNION {Kept(fields[i]) : i \in DOMAIN fields}
Apar(params) == F("apar", Val(Encode(params), {}))
Type(t) == F("type", Text(t))

A(i) == Payload(<<i, i + 1>>)
Common == <<F("fee", Uint16(1)), F("fv", Fix(5)), F("gh", Payload(<<9>>)), F("lv", Uint8(200))>>
Snd == F("snd", A(16))
End == <<Snd, Type("pay")>>
Pay == <<F("amt", Uint64(7)), F("close", A(32))>> \o Common
Args == Printed(Array(<<Payload(<<1>>), Payload(<<>>), Bytes16(<<2, 3>>)>>), <<<<1>>, <<>>, <<2, 3>>>>)
Accounts == Printed(Array(<<A(48), A(50)>>), <<<<48, 49>>, <<50, 51>>>>)
AllParams == <<F("am", Payload(<<3>>)), F("an", Text("abc")), F("au", Text("ab")), F("c", A(64)),
               F("dc", Fix(2)), F("df", Bool(TRUE)), F("f", A(66)), F("m", Payload(<<0, 0>>)), F("r", Payload(<<0, 71>>)),
               F("t", Uint64(1)), F("un", Text("ab"))>>
Schema == Map(<<Text("nbs"), Fix(1), Text("nui"), Fix(2)>>)

\* Whole and valid ones; params lists the asset parameters of a configuration.
Plain(fields) == [fields |-> fields, params |-> <<>>]
ValidTxs ==
    [pay    |-> Plain(Pay \o <<F("note", Note(<<1, 2, 3>>)), F("rcv", A(34)), F("rekey", A(36))>> \o End),
     turned |-> Plain(Reverse(Pay \o <<F("grp", Payload(<<8>>)), F("lx", Payload(<<7>>)), F("rcv", A(34))>> \o End)),
     nested |-> Plain(<<F("ab", Map(<<Text("rcv"), A(90), Text("type"), Array(<<Fix(1), Map(<<>>), Text("axfer")>>)>>)),
                        F("g", Array16(<<Text8("snd"), Bool(FALSE)>>)), F("zz", Map16(<<Fix(1), Bytes16(<<4>>)>>))>>
                      \o Common \o <<F("rcv", A(34))>> \o End),
     hidden |-> Plain(<<F("no", Payload(<<1>>)), F("note", Note(<<1, 2, 3>>))>> \o End \o Common
                      \o <<F("rcv", A(34)), F("ab", Map(<<Text("ab"), Fix(1), Text("amt"), Fix(9)>>)),
                          F("amt", Fix(7))>>),
     keyreg |-> Plain(Common \o <<F("gen", Text("abc")), F("nonpart", Bool(TRUE)), F("selkey", Payload(<<4>>)), Snd,
                        F("sprfkey", Payload(<<5, 6, 7>>)), Type("keyreg"), F("votefst", Fix(1)),
                        F("votekd", Fix(2)), F("votekey", Payload(<<4>>)), F("votelst", Fix(3))>>),
     axfer  |-> Plain(<<F("aamt", Fix(1)), F("aclose", A(80)), F("arcv", A(82)), F("asnd", A(84))>> \o Common
                        \o <<Snd, Type("axfer"), F("xaid", Fix(77))>>),
     afrz   |-> Plain(<<F("afrz", Bool(TRUE)), F("fadd", A(86)), F("faid", Fix(4))>> \o Common \o <<Snd, Type("afrz")>>),
     acfg   |-> [fields |-> <<Apar(AllParams), F("caid", Fix(9))>> \o Common \o <<Snd, Type("acfg")>>,
                 params |-> AllParams],
     appl   |-> Plain(<<F("apaa", Args), F("apan", Fix(1)), F("apap", Bytes16(<<1, 2>>)), F("apat", Accounts),
                        F("apbx", Array(<<Map(<<Text("i"), Fix(0), Text("n"), Payload(<<1>>)>>), Map(<<>>)>>)),
                        F("apfa", Array(<<Fix(1), Uint8(2)>>)), F("apas", Array16(<<Fix(3)>>)), F("apep", Fix(3)),
                        F("apgs", Schema), F("apls", Map(<<>>)), F("apsu", Payload(<<9>>))>>
                        \o Common \o <<Snd, Type("appl")>>)]

\* Transactions the parser may refuse, or read in another way than they were meant.
OtherTxs ==
    [longer    |-> Plain(<<F("fees", Fix(3))>> \o Pay \o <<F("rcv", A(34))>> \o End),
     unsized   |-> Plain(Pay \o <<F("rcv", A(34)), F("grp", Unsupported)>> \o End),
     late      |-> Plain(Common \o <<F("nonpart", Bool(FALSE)), Snd, Type("keyreg"), F("ab", Unsupported),
                                     F("selkey", Payload(<<4>>))>>),
     noSender  |-> Plain(Pay \o <<F("rcv", A(34)), Type("pay")>>),
     noType    |-> Plain(Pay \o <<F("rcv", A(34)), Snd>>),
     otherType |-> Plain(Pay \o <<F("rcv", A(34)), Snd, F("type", Text("zz"))>>),
     noLast    |-> Plain(Common \o <<Snd, Type("keyreg"), F("votefst", Fix(1))>>),
     frozen    |-> Plain(<<F("afrz", Val(<<1>>, {})), F("fadd", A(86)), F("faid", Fix(4))>> \o Common \o <<Snd, Type("afrz")>>),
     shortKey  |-> Plain(Pay \o <<F("rcv", Payload(<<1, 2, 3>>))>> \o End),
     manyAccts |-> Plain(<<F("apat", Array([i \in 1..5 |-> A(i)]))>> \o Common \o <<Snd, Type("appl")>>),
     pages     |-> Plain(<<F("apep", Fix(4))>> \o Common \o <<Snd, Type("appl")>>),
     otherAsset|-> Plain(<<Apar(<<F("zz", Fix(1)), F("t", Fix(1))>>)>> \o Common \o <<Snd, Type("acfg")>>),
     twice     |-> [fields |-> <<Apar(<<F("t", Fix(1)), F("t", Fix(2))>>)>> \o Common \o <<Snd, Type("acfg")>>,
                    params |-> <<F("t", Fix(2))>>],
     manyPars  |-> Plain(<<Apar([i \in 1..13 |-> F("t", Fix(1))])>> \o Common \o <<Snd, Type("acfg")>>),
     noParams  |-> Plain(<<F("apar", Fix(1))>> \o Common \o <<Snd, Type("acfg")>>)]

\* The same, with their last bytes missing: name, and how many.
Cut(name, missing) == [of |-> name, missing |-> missing]
CutTxs == [cutKey   |-> Cut("keyreg", 6), cutValue |-> Cut("keyreg", 13), cutMap |-> Cut("turned", 10),
           cutBin   |-> Cut("keyreg", 52),
           cutOne   |-> Cut("axfer", 1),  cutTwo   |-> Cut("pay", 2)]

\* What is no map, or one with too many keys.
NoMap == [noMap |-> <<1, 2>>, nothing |-> <<>>, map32 |-> <<223, 0, 0, 0, 1>>, map256 |-> <<222, 1, 0, 161, 97>>]

WholeTxs == ValidTxs @@ OtherTxs
CommonBytes == [u \in DOMAIN WholeTxs |-> Encode(WholeTxs[u].fields)]
MCBytes ==
    CommonBytes @@ NoMap @@ [u \in DOMAIN CutTxs |->
        LET whole == CommonBytes[CutTxs[u].of] IN SubSeq(whole, 1, Len(whole) - CutTxs[u].missing)]

\* Keys nobody asks for are no fields; fees hides the fee that follows it.
Known(kept) == {k \in kept : k.key \in Keys \union {"type"}}
MCMeaning ==
    [u \in DOMAIN ValidTxs |->
        Known(AllKept(ValidTxs[u].fields) \union AllKept(ValidTxs[u].params))]
BeforeType(tx) ==
    LET types == {i \in DOMAIN tx.fields : tx.fields[i][1] = "type"}
    IN  IF types = {} THEN {}
        ELSE AllKept(SubSeq(tx.fields, 1, CHOOSE i \in types : TRUE)) \union AllKept(tx.params)
MCEarly ==
    [u \in DOMAIN MCBytes |->
        IF u \notin DOMAIN WholeTxs THEN {}
        ELSE {f \in Known(BeforeType(WholeTxs[u])) : u = "longer" => f.key # "fee"}]

MCUploads == DOMAIN MCBytes \ {"cutOne", "cutTwo"}
MCTails == {<<129, 161>>, <<0, 0>>}

\* What an earlier upload of the whole transaction has left there.
MCStaleTails == {Tail(MCAscii["pay"]), <<77, 0>>}

===============================================================================
