------------------------ MODULE LedgerClient_proofs ------------------------
(***************************************************************************)
(* Proofs about LedgerClient: the calls of the client keep their shape and *)
(* send only commands the device model covers, so what is proved of the    *)
(* device holds of the two together; and signatures over transactions are  *)
(* those of the request, however many calls run and whatever is lost.      *)
(***************************************************************************)
EXTENDS LedgerClient, AlgorandDevice_proofs, FiniteSetTheorems, WellFoundedInduction

\* A set of positions has a first one.
LEMMA FirstPosition ==
    ASSUME NEW S, S \subseteq Nat, S # {}
    PROVE  Min(S) \in S /\ \A y \in S : Min(S) <= y
<1> DEFINE less == {ss \in Nat \X Nat : ss[1] < ss[2]}
<1>1. IsWellFoundedOn(less, Nat)
  BY NatLessThanWellFounded, Zenon DEF OpToRel
<1> HIDE DEF less
<1>2. \E x \in S : \A y \in S : ~(<<y, x>> \in less)
  BY <1>1, WFMin, Zenon
<1>3. PICK x \in S : \A y \in S : ~(<<y, x>> \in less)
  BY <1>2
<1>4. ASSUME NEW y \in S PROVE x <= y
  <2>1. x \in Nat /\ y \in Nat
    OBVIOUS
  <2>2. <<y, x>> \in less <=> y < x
    BY <2>1, SMT DEF less
  <2> QED
    BY <1>3, <2>1, <2>2
<1> QED
  BY <1>4 DEF Min

-----------------------------------------------------------------------------
(* The calls keep their shape.                                               *)

\* What the assumption says of one request.
LEMMA RequestType ==
    ASSUME NEW c \in Calls
    PROVE  /\ Request[c] \in Requests
           /\ Request[c].account \in AccountIds
           /\ DOMAIN Request[c].items = 1..Len(Request[c].items)
           /\ Len(Request[c].items) \in 1..16
           /\ \A i \in DOMAIN Request[c].items : Request[c].items[i] \in Txns \union Messages
           /\ Request[c].kind # "signData"
                => \A i \in DOMAIN Request[c].items : Request[c].items[i] \in Txns
<1>1. /\ Request[c] \in Requests
      /\ Request[c].items \in Seq(IF Request[c].kind = "signData" THEN Messages ELSE Txns)
      /\ IF Request[c].kind = "signGroup" THEN Len(Request[c].items) \in 2..16
                                          ELSE Len(Request[c].items) = 1
  BY CallAssumption
<1>2. Request[c].items \in Seq(Txns \union Messages) /\ Request[c].account \in AccountIds
  BY <1>1 DEF Requests
<1>3. Len(Request[c].items) \in 1..16
  BY <1>1
<1>4. Request[c].kind # "signData" => Request[c].items \in Seq(Txns)
  BY <1>1
<1> QED
  BY <1>1, <1>2, <1>3, <1>4

\* Every transaction and message has at least one unit.
LEMMA ItemSize ==
    ASSUME NEW c \in Calls, NEW i \in DOMAIN Request[c].items
    PROVE  Request[c].items[i] \in Txns \union Messages /\ Size[Request[c].items[i]] \in Nat \ {0}
<1>1. Request[c].items[i] \in Txns \union Messages
  BY RequestType
<1> QED
  BY <1>1, DataAssumption

\* A position of a request, and the first of some, is one of its positions.
LEMMA FirstOfRequest ==
    ASSUME NEW c \in Calls, NEW S \in SUBSET DOMAIN Request[c].items, S # {}
    PROVE  /\ Min(S) \in S /\ Min(S) \in DOMAIN Request[c].items /\ Min(S) \in Nat
           /\ \A y \in S : Min(S) <= y
<1>1. DOMAIN Request[c].items \subseteq Nat
  BY RequestType
<1>2. S \subseteq Nat
  BY <1>1
<1>3. Min(S) \in S /\ \A y \in S : Min(S) <= y
  BY <1>2, FirstPosition
<1> QED
  BY <1>2, <1>3

\* A call begins in a state it can be in.
LEMMA NewCallType ==
    ASSUME NEW c \in Calls
    PROVE  CallOK(c, NewCall(c))
<1> DEFINE n == NewCall(c)
<1>1. 1 \in DOMAIN Request[c].items
  BY RequestType
<1>2. Size[Request[c].items[1]] \in Nat \ {0}
  BY <1>1, ItemSize
<1>3. [i \in DOMAIN Request[c].items |-> {}] \in [DOMAIN Request[c].items -> SUBSET Signature]
  OBVIOUS
<1>4. n \in CallType(c)
  BY <1>1, <1>3 DEF NewCall, CallType, Stages
<1>5. n.chunk = 1 /\ n.item = 1
  BY DEF NewCall
<1> HIDE DEF n
<1>6. CallOK(c, n)
  BY <1>2, <1>4, <1>5 DEF CallOK
<1> QED
  BY <1>6 DEF n

\* Signing starts at the first position to be signed.
LEMMA SigningType ==
    ASSUME NEW c \in Calls, CallOK(c, call[c]), call[c].stage \in {"idle", "pubkey"},
           NEW S \in SUBSET DOMAIN Request[c].items, S # {}
    PROVE  /\ CallOK(c, Signing(c, S))
           /\ Signing(c, S).stage = "signing"
           /\ Signing(c, S).item = Min(S)
           /\ Signing(c, S).toSign = S
           /\ Signing(c, S).chunk = 1
           /\ Signing(c, S).results = call[c].results
<1> DEFINE n == Signing(c, S)
<1>1. Min(S) \in DOMAIN Request[c].items
  BY FirstOfRequest
<1>2. call[c] \in CallType(c) /\ call[c].chunk = 1
  BY DEF CallOK
<1>3. /\ n \in CallType(c)
      /\ n.stage = "signing" /\ n.item = Min(S) /\ n.toSign = S
      /\ n.chunk = 1 /\ n.results = call[c].results
  BY <1>1, <1>2 DEF Signing, CallType, Stages
<1>4. Size[Request[c].items[Min(S)]] \in Nat \ {0}
  BY <1>1, ItemSize
<1> HIDE DEF n
<1>5. CallOK(c, n)
  BY <1>3, <1>4 DEF CallOK
<1> QED
  BY <1>3, <1>5 DEF n

\* A call that fails keeps what it had.
LEMMA FailedType ==
    ASSUME NEW c \in Calls, CallOK(c, call[c])
    PROVE  /\ CallOK(c, Failed(c))
           /\ Failed(c).stage = "failed"
           /\ Failed(c).toSign = call[c].toSign
           /\ Failed(c).item = call[c].item
           /\ Failed(c).results = call[c].results
<1> DEFINE n == Failed(c)
<1>1. call[c] \in CallType(c) /\ call[c].chunk \in 1..Size[Request[c].items[call[c].item]]
  BY DEF CallOK
<1>2. /\ n \in CallType(c)
      /\ n.stage = "failed" /\ n.toSign = call[c].toSign /\ n.item = call[c].item
      /\ n.chunk = call[c].chunk /\ n.results = call[c].results
  BY <1>1 DEF Failed, CallType, Stages
<1> HIDE DEF n
<1>3. CallOK(c, n)
  BY <1>1, <1>2 DEF CallOK
<1> QED
  BY <1>2, <1>3 DEF n

\* After the answer to getPubkey a call fails or starts signing some positions.
LEMMA AfterPubkeyCases ==
    ASSUME NEW c \in Calls, NEW sw, NEW key
    PROVE  \/ AfterPubkey(c, sw, key) = Failed(c)
           \/ \E S \in SUBSET DOMAIN Request[c].items :
                 S # {} /\ AfterPubkey(c, sw, key) = Signing(c, S)
BY Zenon DEF AfterPubkey

\* What an item leaves behind: its signatures, and the next position or the end.
LEMMA AfterItemType ==
    ASSUME NEW c \in Calls, CallOK(c, call[c]), NEW sigs \in SUBSET Signature
    PROVE  /\ CallOK(c, AfterItem(c, sigs)) \/ call[c].stage \in {"idle", "pubkey"}
           /\ AfterItem(c, sigs).toSign = call[c].toSign
           /\ AfterItem(c, sigs).chunk = 1
           /\ AfterItem(c, sigs).results = [call[c].results EXCEPT ![call[c].item] = sigs]
           /\ Later(c) = {} =>
                AfterItem(c, sigs).item = call[c].item /\ AfterItem(c, sigs).stage = "done"
           /\ Later(c) # {} =>
                AfterItem(c, sigs).item = Min(Later(c)) /\ AfterItem(c, sigs).stage = call[c].stage
<1> DEFINE r == [call[c].results EXCEPT ![call[c].item] = sigs]
           kept == [call[c] EXCEPT !.results[call[c].item] = sigs, !.chunk = 1]
           n == AfterItem(c, sigs)
<1>1. /\ call[c] \in CallType(c)
      /\ call[c].item \in DOMAIN Request[c].items
      /\ call[c].toSign \in SUBSET DOMAIN Request[c].items
      /\ call[c].results \in [DOMAIN Request[c].items -> SUBSET Signature]
  BY DEF CallOK, CallType
<1>2. r \in [DOMAIN Request[c].items -> SUBSET Signature]
  BY <1>1
<1> HIDE DEF r
<1>3. /\ kept \in CallType(c) /\ kept.results = r /\ kept.chunk = 1
      /\ kept.stage = call[c].stage /\ kept.item = call[c].item /\ kept.toSign = call[c].toSign
  BY <1>1, <1>2 DEF CallType, r
<1>4. Later(c) \in SUBSET DOMAIN Request[c].items
  BY <1>1 DEF Later
<1>5. \A i \in DOMAIN Request[c].items : Size[Request[c].items[i]] \in Nat \ {0}
  BY ItemSize
<1> HIDE DEF kept
<1>6. CASE Later(c) = {}
  <2>1. n = [kept EXCEPT !.stage = "done"]
    BY <1>6 DEF AfterItem, kept
  <2>2. /\ n \in CallType(c) /\ n.results = r /\ n.chunk = 1 /\ n.stage = "done"
        /\ n.item = call[c].item /\ n.toSign = call[c].toSign
    BY <1>3, <2>1 DEF CallType, Stages
  <2> HIDE DEF n
  <2>3. CallOK(c, n)
    BY <1>1, <1>5, <2>2 DEF CallOK
  <2> QED
    BY <1>6, <2>2, <2>3 DEF n, r
<1>7. CASE Later(c) # {}
  <2>1. n = [kept EXCEPT !.item = Min(Later(c))]
    BY <1>7 DEF AfterItem, kept
  <2>2. Min(Later(c)) \in DOMAIN Request[c].items
    BY <1>4, <1>7, FirstOfRequest
  <2>3. /\ n \in CallType(c) /\ n.results = r /\ n.chunk = 1 /\ n.stage = call[c].stage
        /\ n.item = Min(Later(c)) /\ n.toSign = call[c].toSign
    BY <1>3, <2>1, <2>2 DEF CallType
  <2> HIDE DEF n
  <2>4. CallOK(c, n)
    BY <1>5, <2>2, <2>3 DEF CallOK
  <2> QED
    BY <1>7, <2>3, <2>4 DEF n, r
<1> QED
  BY <1>6, <1>7

\* Whatever the answer, a call that waits for one goes to a state it can be in.
LEMMA AfterAnswerType ==
    ASSUME NEW c \in Calls, CallOK(c, call[c]), Active(c),
           NEW answer, answer.signatures \in SUBSET Signature
    PROVE  CallOK(c, AfterAnswer(c, answer))
<1>1. CASE call[c].stage = "pubkey"
  <2>1. AfterAnswer(c, answer) = AfterPubkey(c, answer.sw, answer.key)
    BY <1>1 DEF AfterAnswer
  <2> QED
    BY <1>1, <2>1, AfterPubkeyCases, FailedType, SigningType
<1>2. CASE call[c].stage = "signing"
  <2>1. AfterAnswer(c, answer) = AfterChunk(c, answer.sw, answer.signatures)
    BY <1>2 DEF AfterAnswer
  <2>2. CASE answer.sw # "OK" /\ ~AnswerIgnored(c)
    BY <2>1, <2>2, FailedType DEF AfterChunk
  <2>3. CASE ~(answer.sw # "OK" /\ ~AnswerIgnored(c)) /\ call[c].chunk < Size[Item(c)]
    <3> DEFINE n == [call[c] EXCEPT !.chunk = @ + 1]
    <3>1. AfterAnswer(c, answer) = n
      BY <2>1, <2>3 DEF AfterChunk
    <3>2. /\ call[c] \in CallType(c) /\ call[c].chunk \in 1..Size[Item(c)]
          /\ Size[Item(c)] \in Nat
      BY ItemSize DEF CallOK, CallType, Item
    <3>3. /\ n \in CallType(c) /\ n.chunk = call[c].chunk + 1
          /\ n.stage = "signing" /\ n.item = call[c].item
      BY <1>2, <3>2 DEF CallType
    <3> HIDE DEF n
    <3>4. n.chunk \in 1..Size[Request[c].items[n.item]]
      BY <2>3, <3>2, <3>3 DEF Item
    <3> QED
      BY <3>1, <3>3, <3>4 DEF CallOK
  <2>4. CASE ~(answer.sw # "OK" /\ ~AnswerIgnored(c)) /\ ~(call[c].chunk < Size[Item(c)])
    <3>1. AfterAnswer(c, answer) = AfterItem(c, answer.signatures)
      BY <2>1, <2>4 DEF AfterChunk
    <3> QED
      BY <1>2, <3>1, AfterItemType
  <2> QED
    BY <2>2, <2>3, <2>4
<1> QED
  BY <1>1, <1>2 DEF Active

\* The number of transactions a call announces.
LEMMA CountIsSmall ==
    ASSUME NEW c \in Calls, CallOK(c, call[c])
    PROVE  numOfTxns(c) \in 0..16
<1>1. /\ Len(Request[c].items) \in 1..16
      /\ call[c].toSign \in SUBSET (1..Len(Request[c].items))
  BY RequestType DEF CallOK, CallType
<1> DEFINE n == Len(Request[c].items)
<1>2. IsFiniteSet(1..n) /\ Cardinality(1..n) = n
  BY <1>1, FS_Interval
<1>3. IsFiniteSet(call[c].toSign) /\ Cardinality(call[c].toSign) <= n
  BY <1>1, <1>2, FS_Subset
<1>4. Cardinality(call[c].toSign) \in Nat
  BY <1>3, FS_CardinalityType
<1>5. n \in 1..16
  BY <1>1
<1> HIDE DEF n
<1>6. Cardinality(call[c].toSign) \in 0..16 /\ 0 \in 0..16
  BY <1>3, <1>4, <1>5
<1> QED
  BY <1>6, Zenon DEF numOfTxns

\* The chunk in hand is a unit of the item in hand.
LEMMA ChunkIsPayload ==
    ASSUME NEW c \in Calls, CallOK(c, call[c])
    PROVE  <<Item(c), call[c].chunk>> \in Payload
<1>1. call[c].item \in DOMAIN Request[c].items /\ call[c].chunk \in 1..Size[Item(c)]
  BY DEF CallOK, CallType, Item
<1>2. Item(c) \in Txns \union Messages
  BY <1>1, ItemSize DEF Item
<1>3. <<Item(c), call[c].chunk>> \in UnitsOf(Item(c))
  BY <1>1 DEF UnitsOf
<1> QED
  BY <1>2, <1>3 DEF Payload

\* The commands of a call are ones the device model covers.
LEMMA NextApduFramed ==
    ASSUME NEW c \in Calls, CallOK(c, call[c])
    PROVE  NextApdu(c) \in Framed
<1> DEFINE u == <<Item(c), call[c].chunk>>
           acct == AccountUnit(Request[c].account)
<1>1. u \in Payload /\ acct \in Payload /\ Request[c].account \in AccountIds
  BY ChunkIsPayload, RequestType DEF Payload
<1> HIDE DEF u
<1>2. P2(c) \in 0..255
  BY DEF P2, P2_LAST, P2_MORE
<1>3. getPubkey(c) \in Framed
  <2>1. <<acct>> \in Seq(Payload) /\ Head(<<acct>>) = acct
    BY <1>1
  <2> QED
    BY <1>1, <2>1 DEF getPubkey, Framed, Apdu, WellFramed, CLA_INS
<1>4. rawSignChunk(c) \in Framed
  <2>1. <<u>> \in Seq(Payload)
    BY <1>1
  <2>2. rawSignChunk(c) \in Apdu
    BY <1>2, <2>1 DEF rawSignChunk, Apdu, CLA_INS, P1_MORE, u
  <2>3. rawSignChunk(c).p1 # P1_FIRST_ACCOUNT_ID /\ rawSignChunk(c).ins = "INS_ARBITRARY_SIGN"
    BY DEF rawSignChunk, P1_MORE, P1_FIRST_ACCOUNT_ID
  <2> QED
    BY <2>2, <2>3 DEF Framed, WellFramed
<1>5. signSendChunk(c) \in Framed
  <2> DEFINE a == signSendChunk(c)
             n == numOfTxns(c)
             flag == IF call[c].chunk > 1 THEN P1_MORE
                     ELSE IF Request[c].account # 0 THEN P1_FIRST_ACCOUNT_ID ELSE 0
  <2>1. a = [ins |-> "INS_SIGN_MSGPACK", p1 |-> 2 * n + flag, p2 |-> P2(c), data |-> prepareChunk(c)]
    BY DEF signSendChunk
  <2>2. n \in 0..16
    BY CountIsSmall
  <2>3. flag \in {0, 1, 128}
    BY DEF P1_MORE, P1_FIRST_ACCOUNT_ID
  <2>4. prepareChunk(c) = <<acct>> \o <<u>> \/ prepareChunk(c) = <<>> \o <<u>>
    BY Zenon DEF prepareChunk, u
  <2>5. prepareChunk(c) \in Seq(Payload)
    <3>1. <<acct>> \in Seq(Payload) /\ <<u>> \in Seq(Payload) /\ <<>> \in Seq(Payload)
      BY <1>1, EmptySeq
    <3> QED
      BY <2>4, <3>1, ConcatProperties
  <2>6. call[c].chunk \in Nat \ {0}
    <3>1. call[c].chunk \in 1..Size[Request[c].items[call[c].item]]
      BY DEF CallOK
    <3> QED
      BY <3>1
  <2>7. flag = 1 => prepareChunk(c) = <<acct>> \o <<u>>
    BY <2>6 DEF prepareChunk, u, P1_MORE
  <2>8. flag = 1 => prepareChunk(c) # <<>> /\ Head(prepareChunk(c)) = acct
    BY <2>7
  <2> HIDE DEF n, flag
  <2>9. 2 * n + flag \in 0..255 /\ (2 * n + flag = 1 => flag = 1)
    BY <2>2, <2>3
  <2>10. a \in Apdu
    BY <1>2, <2>1, <2>5, <2>9 DEF Apdu, CLA_INS
  <2>11. a.ins = "INS_SIGN_MSGPACK" /\ a.p1 = 2 * n + flag /\ a.data = prepareChunk(c)
    BY <2>1
  <2> HIDE DEF a
  <2>12. WellFramed(a)
    BY <1>1, <2>8, <2>9, <2>11 DEF WellFramed, P1_FIRST_ACCOUNT_ID
  <2> QED
    BY <2>10, <2>12 DEF Framed, a
<1> QED
  BY <1>3, <1>4, <1>5 DEF NextApdu

-----------------------------------------------------------------------------
(* The steps of the client keep it, and are steps of the device.             *)

\* ClientTypeOK without the two conjuncts that follow from the rest, and with one
\* of its own: only a call that waits for an answer has an exchange open.
CallsTyped ==
    /\ call = [c \in Calls |-> call[c]]
    /\ \A c \in Calls : CallOK(c, call[c])
    /\ \A c \in pending : Active(c)
    /\ pending \in {{}} \union {{c} : c \in Calls}
    /\ approved \subseteq Txns \union Messages \union {"TX", "account"}
    /\ excused \subseteq Calls
    /\ faults \in 0..MaxFaults

\* One invariant of the device and the calls.
ClientInv == Inv /\ CallsTyped

\* It says what the runs check.
LEMMA ClientInvTypes == ClientInv => ClientTypeOK
BY NextApduFramed DEF ClientInv, CallsTyped, ClientTypeOK, Inv, Framed

\* Every step of the composition is one of the device, or the device rests.
LEMMA ClientStepsDevice ==
    ASSUME CallsTyped, [ClientNext]_allvars
    PROVE  [DeviceNext]_vars
<1>1. ASSUME NEW c \in Calls, Exchange(c)
      PROVE  DeviceNext
  <2>1. NextApdu(c) \in Framed /\ handleApdu(NextApdu(c))
    BY <1>1, NextApduFramed DEF Exchange, CallsTyped
  <2> QED
    BY <2>1 DEF DeviceNext
<1>2. ASSUME NEW c \in Calls,
             Start(c) \/ Resume(c) \/ SendFails(c) \/ AnswerLost(c) \/ Abandon(c)
      PROVE  UNCHANGED vars
  BY <1>2 DEF Start, Resume, SendFails, AnswerLost, Abandon, vars
<1>3. UserApproves \/ UserRejects \/ DeviceRestarts \/ UserTogglesBlindsign => DeviceNext
  BY DEF UserApproves, UserRejects, DeviceRestarts, UserTogglesBlindsign, DeviceNext
<1>4. UNCHANGED allvars => UNCHANGED vars
  BY DEF allvars
<1> QED
  BY <1>1, <1>2, <1>3, <1>4 DEF ClientNext

\* A step that moves one call to a state it can be in keeps them all typed.
LEMMA CallUpdate ==
    ASSUME call = [c \in Calls |-> call[c]], \A c \in Calls : CallOK(c, call[c]),
           NEW d \in Calls, NEW r, CallOK(d, r), call' = [call EXCEPT ![d] = r]
    PROVE  /\ call' = [c \in Calls |-> call'[c]]
           /\ \A c \in Calls : CallOK(c, call'[c])
           /\ \A c \in Calls : c # d => call'[c] = call[c]
<1>1. call' = [c \in Calls |-> IF c = d THEN r ELSE call[c]]
  OBVIOUS
<1>2. \A c \in Calls : call'[c] = IF c = d THEN r ELSE call[c]
  BY <1>1
<1>3. call' = [c \in Calls |-> call'[c]]
  BY <1>1, <1>2
<1> QED
  BY <1>2, <1>3

\* What the client has in hand as an answer carries signatures or nothing.
LEMMA ReplySignatures ==
    ASSUME TypeOK
    PROVE  reply.signatures \in SUBSET Signature /\ TransportError.signatures \in SUBSET Signature
BY DEF TypeOK, Answers, TransportError, Status, Answer

\* The counter of disruptions stays within its bound.
LEMMA DisruptType ==
    ASSUME CallsTyped, NEW kind, NEW victims \in SUBSET Calls, Disrupt(kind, victims)
    PROVE  /\ faults' \in 0..MaxFaults
           /\ excused' \subseteq Calls
           /\ approved' = approved
<1>1. faults \in 0..MaxFaults /\ MaxFaults \in Nat /\ excused \subseteq Calls
  BY CallAssumption DEF CallsTyped
<1> QED
  BY <1>1 DEF Disrupt

\* The client's steps keep its variables typed.
LEMMA ClientStepTyped ==
    ASSUME ClientInv, [ClientNext]_allvars
    PROVE  CallsTyped'
<1>t. /\ TypeOK
      /\ call = [c \in Calls |-> call[c]] /\ \A c \in Calls : CallOK(c, call[c])
      /\ \A c \in pending : Active(c)
      /\ pending \in {{}} \union {{c} : c \in Calls}
      /\ approved \subseteq Txns \union Messages \union {"TX", "account"}
      /\ excused \subseteq Calls /\ faults \in 0..MaxFaults
      /\ CallsTyped
  BY DEF ClientInv, Inv, CallsTyped
<1> DEFINE CallsKept == /\ call' = [c \in Calls |-> call'[c]]
                        /\ \A c \in Calls : CallOK(c, call'[c])
<1>1. ASSUME NEW c \in Calls, Start(c) PROVE CallsTyped'
  <2> DEFINE r == IF Request[c].asks THEN [call[c] EXCEPT !.stage = "pubkey"]
                                     ELSE Signing(c, DOMAIN Request[c].items)
  <2>1. /\ call' = [call EXCEPT ![c] = r]
        /\ UNCHANGED <<pending, approved, excused, faults>>
        /\ call[c].stage = "idle"
    BY <1>1, <1>t DEF Start
  <2>2. CallOK(c, [call[c] EXCEPT !.stage = "pubkey"])
    BY <1>t, <2>1 DEF CallOK, CallType, Stages
  <2>3. CallOK(c, Signing(c, DOMAIN Request[c].items))
    <3>1. 1 \in DOMAIN Request[c].items
      BY RequestType
    <3> QED
      BY <1>t, <2>1, <3>1, SigningType
  <2>4. CallOK(c, r)
    BY <2>2, <2>3
  <2> HIDE DEF r
  <2>5. CallsKept /\ \A d \in Calls : d # c => call'[d] = call[d]
    BY <1>t, <2>1, <2>4, CallUpdate
  <2>6. c \notin pending
    BY <1>t, <2>1 DEF Active
  <2>7. \A d \in pending' : Active(d)'
    BY <1>t, <2>1, <2>5, <2>6 DEF Active
  <2> QED
    BY <1>t, <2>1, <2>5, <2>7 DEF CallsTyped
<1>2. ASSUME NEW c \in Calls, Exchange(c) PROVE CallsTyped'
  <2>1. /\ pending' = {c} /\ excused' \subseteq Calls /\ UNCHANGED <<call, approved, faults>>
        /\ Active(c)
    BY <1>2, <1>t DEF Exchange
  <2>2. \A d \in pending' : Active(d)'
    BY <2>1 DEF Active
  <2> QED
    BY <1>t, <2>1, <2>2 DEF CallsTyped
<1>3. ASSUME NEW c \in Calls, Active(c), NEW answer, answer.signatures \in SUBSET Signature,
             call' = [call EXCEPT ![c] = AfterAnswer(c, answer)]
      PROVE  CallsKept
  <2>1. CallOK(c, AfterAnswer(c, answer))
    BY <1>t, <1>3, AfterAnswerType
  <2> QED
    BY <1>t, <1>3, <2>1, CallUpdate
<1>4. ASSUME NEW c \in Calls, Resume(c) PROVE CallsTyped'
  <2>1. /\ call' = [call EXCEPT ![c] = AfterAnswer(c, reply)]
        /\ pending = {c} /\ pending' = {}
        /\ UNCHANGED <<approved, excused, faults>>
    BY <1>4 DEF Resume
  <2>2. Active(c)
    BY <1>t, <2>1
  <2>3. CallsKept
    BY <1>t, <1>3, <2>1, <2>2, ReplySignatures
  <2> QED
    BY <1>t, <2>1, <2>3 DEF CallsTyped
<1>5. ASSUME NEW c \in Calls, SendFails(c) \/ AnswerLost(c) PROVE CallsTyped'
  <2>1. /\ call' = [call EXCEPT ![c] = AfterAnswer(c, TransportError)]
        /\ pending' = {} /\ Disrupt("lost", {c}) /\ Active(c)
    BY <1>5, <1>t DEF SendFails, AnswerLost
  <2>2. CallsKept
    BY <1>t, <1>3, <2>1, ReplySignatures
  <2>3. faults' \in 0..MaxFaults /\ excused' \subseteq Calls /\ approved' = approved
    BY <1>t, <2>1, DisruptType
  <2> QED
    BY <1>t, <2>1, <2>2, <2>3 DEF CallsTyped
<1>6. ASSUME NEW c \in Calls, Abandon(c) PROVE CallsTyped'
  <2>1. /\ call' = [call EXCEPT ![c] = Failed(c)]
        /\ pending' = pending \ {c} /\ Disrupt("abandon", {c})
    BY <1>6 DEF Abandon
  <2>2. CallsKept /\ \A d \in Calls : d # c => call'[d] = call[d]
    BY <1>t, <2>1, FailedType, CallUpdate
  <2>3. faults' \in 0..MaxFaults /\ excused' \subseteq Calls /\ approved' = approved
    BY <1>t, <2>1, DisruptType
  <2>4. \A d \in pending' : Active(d)'
    BY <1>t, <2>1, <2>2 DEF Active
  <2>5. pending' \in {{}} \union {{d} : d \in Calls}
    BY <1>t, <2>1
  <2> QED
    BY <2>2, <2>3, <2>4, <2>5, <1>t DEF CallsTyped
<1>7. ASSUME UserApproves \/ UserRejects PROVE CallsTyped'
  <2>1. /\ UNCHANGED <<call, pending, faults>>
        /\ approved' \subseteq approved \union screen.shows
        /\ excused' \subseteq excused \union pending
    BY <1>7 DEF UserApproves, UserRejects
  <2>2. screen.shows \subseteq Txns \union Messages \union {"TX", "account"}
    BY <1>t DEF TypeOK, Screen
  <2>3. pending \subseteq Calls
    BY <1>t
  <2>4. approved' \subseteq Txns \union Messages \union {"TX", "account"} /\ excused' \subseteq Calls
    BY <1>t, <2>1, <2>2, <2>3
  <2> QED
    BY <1>t, <2>1, <2>4 DEF CallsTyped, Active
<1>8. ASSUME DeviceRestarts \/ UserTogglesBlindsign PROVE CallsTyped'
  <2>1. UNCHANGED <<call, pending>>
    BY <1>8 DEF DeviceRestarts, UserTogglesBlindsign
  <2>2. \E kind, victims : victims \in SUBSET Calls /\ Disrupt(kind, victims)
    BY <1>8 DEF DeviceRestarts, UserTogglesBlindsign
  <2>3. faults' \in 0..MaxFaults /\ excused' \subseteq Calls /\ approved' = approved
    BY <1>t, <2>2, DisruptType
  <2> QED
    BY <1>t, <2>1, <2>3 DEF CallsTyped, Active
<1>9. ASSUME UNCHANGED allvars PROVE CallsTyped'
  BY <1>9, <1>t DEF allvars, cvars, CallsTyped, Active
<1> QED
  BY <1>1, <1>2, <1>4, <1>5, <1>6, <1>7, <1>8, <1>9 DEF ClientNext

\* The calls begin typed.
LEMMA ClientInitInv == ClientInit => ClientInv
<1> SUFFICES ASSUME ClientInit PROVE ClientInv
  OBVIOUS
<1>1. Inv
  BY InitInv DEF ClientInit
<1>2. /\ call = [c \in Calls |-> NewCall(c)] /\ pending = {} /\ approved = {}
      /\ excused = {} /\ faults = 0
  BY DEF ClientInit
<1>3. \A c \in Calls : call[c] = NewCall(c)
  BY <1>2
<1>4. call = [c \in Calls |-> call[c]]
  BY <1>2, <1>3
<1>5. faults \in 0..MaxFaults
  BY <1>2, CallAssumption
<1>6. CallsTyped
  BY <1>2, <1>3, <1>4, <1>5, NewCallType DEF CallsTyped
<1> QED
  BY <1>1, <1>6 DEF ClientInv

\* The invariant of device and calls is inductive.
LEMMA ClientNextInv == ClientInv /\ [ClientNext]_allvars => ClientInv'
<1> SUFFICES ASSUME ClientInv, [ClientNext]_allvars PROVE ClientInv'
  OBVIOUS
<1>1. Inv /\ CallsTyped
  BY DEF ClientInv
<1>2. [DeviceNext]_vars
  BY <1>1, ClientStepsDevice
<1>3. Inv'
  BY <1>1, <1>2, DeviceNextInv
<1>4. CallsTyped'
  BY ClientStepTyped
<1> QED
  BY <1>3, <1>4 DEF ClientInv

\* It holds in every state of every behaviour, with any number of calls open and
\* whatever is lost.
THEOREM ClientInvariance == ClientSpec => []ClientInv
<1> QED
  BY ClientInitInv, ClientNextInv, PTL DEF ClientSpec

\* The calls keep their shape and send only commands that are framed as the
\* device expects: no chunk that P1 says starts with an account id lacks it.
THEOREM ClientTypeCorrect == ClientSpec => []ClientTypeOK
<1> QED
  BY ClientInvariance, ClientInvTypes, PTL

\* The device a client drives does what the device does under any host: the
\* invariants and the two promises about signatures hold of the composition.
THEOREM ClientKeepsDevice ==
    ClientSpec => /\ []GroupCountConsistent
                  /\ []ReviewCoversUpload
                  /\ SignsWholeUpload
                  /\ UnreviewedSignatureOwesReview
<1>1. ClientInv => Inv /\ GroupCountConsistent /\ ReviewCoversUpload
  BY DEF ClientInv, Inv
<1>2. ClientInv /\ [ClientNext]_allvars
        => [NewSignatureIsWhole]_vars /\ [UnreviewedOwesReview]_vars
  BY ClientStepsDevice, StepSignsWhole, StepOwesReview DEF ClientInv
<1> QED
  BY <1>1, <1>2, ClientInvariance, PTL
  DEF ClientSpec, SignsWholeUpload, UnreviewedSignatureOwesReview
-----------------------------------------------------------------------------
(* Signatures are over what was asked for.                                   *)

\* Only one call is open.
OneOpen == \A c, d \in Calls : Active(c) /\ Active(d) => c = d

\* The first n units of m behind what the device puts before them.
Tag(m) == IF m \in Messages THEN <<>> ELSE <<TXTag>>
Uploaded(m, n) == Tag(m) \o [i \in 1..n |-> <<m, i>>]

\* The kind of chunk that the k-th unit of m is sent as.
ChunkType(m, k) ==
    IF k = 1 THEN IF Size[m] = 1 THEN "SINGLE" ELSE "INIT"
    ELSE IF k < Size[m] THEN "ADD" ELSE "LAST"

\* One call is open at a time, and its first chunk always reaches a device that
\* takes it: no upload of another call is continued.
FirstChunksArrive == MaxConcurrent <= 1 /\ Disruptions \intersect {"lost", "pin"} = {}

\* Nothing has come between the chunks of call c, if ex are the calls that met something.
Untroubled(c, ex) == c \notin ex \/ FirstChunksArrive

\* What a signature that call c gets for m may be over.
SignatureOver(c, ex, m, bytes) ==
    \/ bytes = SignedBytes(m)
    \/ ~Untroubled(c, ex) /\ (Request[c].kind = "signData" \/ EndsMixture(m, bytes))

\* SignatureOfRequest, of one call whose state is r.
SignaturesOK(c, ex, r) ==
    \A j \in DOMAIN Request[c].items :
        /\ j \in r.toSign /\ (j < r.item \/ r.stage = "done") => r.results[j] # {}
        /\ \A s \in r.results[j] : SignatureOver(c, ex, Request[c].items[j], s.message)

\* The last unit of a transaction: the client sends it with P2_LAST only.
LastUnit(u) == \E t \in Txns : u = <<t, Size[t]>>

\* The last unit of no transaction is in an upload that is still open.
OpenUpload == tx_initialized => \A i \in DOMAIN sent : ~LastUnit(sent[i])

\* How much of the item in hand call c has sent.
UnitsSent(c) == IF c \in pending THEN call[c].chunk ELSE call[c].chunk - 1

\* An account id that the device left in front of the transaction (P1 held a count).
AccountInFront(c, buf) ==
    /\ Request[c].kind # "signData"
    /\ Len(buf) > 1 /\ buf[2] = AccountUnit(Request[c].account)

\* What can be in the buffer after n chunks of m that nothing has come between.
HoldsUnits(c, m, n, buf) == buf = Uploaded(m, n) \/ AccountInFront(c, buf)

\* An open upload that nothing has come between is what the call has sent, unless
\* the device takes no chunk of it.
UploadOfCall ==
    \A c \in Calls :
        Untroubled(c, excused) /\ call[c].stage = "signing" /\ tx_initialized =>
            \/ UnitsSent(c) = 0
            \/ GroupCountRefused(numOfTxns(c))
            \/ HoldsUnits(c, Item(c), UnitsSent(c), buffer)

\* A review that a call waits for is of the item it has in hand.
ReviewOfItem ==
    \A c \in pending : screen.kind # "none" =>
        /\ call[c].stage = "signing"
        /\ call[c].chunk = Size[Item(c)]
        /\ IF Request[c].kind = "signData"
             THEN screen.kind = "message" /\ SignatureOver(c, excused, Item(c), ToSign(buffer))
             ELSE screen.kind \in {"transaction", "summary"}
                  /\ SignatureOver(c, excused, Item(c), buffer)

\* An answer that a call waits for has the signature of that item, and success at
\* its last chunk comes with one.
AnswerForItem ==
    \A c \in pending : call[c].stage = "signing" /\ reply.sw # "none" =>
        /\ \A s \in reply.signatures : SignatureOver(c, excused, Item(c), s.message)
        /\ reply.sw = "OK" /\ call[c].chunk = Size[Item(c)] => reply.signatures # {}

\* The strengthening of SignatureOfRequest.
SignatureInv ==
    /\ ClientInv
    /\ MaxConcurrent <= 1 => OneOpen
    /\ OpenUpload
    /\ UploadOfCall
    /\ ReviewOfItem
    /\ AnswerForItem
    /\ \A c \in Calls : SignaturesOK(c, excused, call[c])

\* It is one.
LEMMA SignatureInvSigns == SignatureInv => SignatureOfRequest
<1> SUFFICES ASSUME SignatureInv, NEW c \in Calls, NEW j \in DOMAIN Request[c].items
             PROVE  /\ Answered(c, j) => call[c].results[j] # {}
                    /\ \A s \in call[c].results[j] :
                         \/ s.message = SignedBytes(Request[c].items[j])
                         \/ /\ c \in excused
                            /\ Request[c].kind = "signData" \/ EndsMixture(Request[c].items[j], s.message)
  BY Zenon DEF SignatureOfRequest
<1>1. SignaturesOK(c, excused, call[c])
  BY DEF SignatureInv
<1> QED
  BY <1>1, Zenon DEF SignaturesOK, SignatureOver, Untroubled, Answered

\* What a call meets later takes nothing back.
LEMMA OverStays ==
    ASSUME NEW c, NEW ex, NEW ex2, ex \subseteq ex2
    PROVE  /\ Untroubled(c, ex2) => Untroubled(c, ex)
           /\ \A m, bytes : SignatureOver(c, ex, m, bytes) => SignatureOver(c, ex2, m, bytes)
           /\ \A r : SignaturesOK(c, ex, r) => SignaturesOK(c, ex2, r)
<1>1. Untroubled(c, ex2) => Untroubled(c, ex)
  BY DEF Untroubled
<1>2. \A m, bytes : SignatureOver(c, ex, m, bytes) => SignatureOver(c, ex2, m, bytes)
  BY <1>1, Zenon DEF SignatureOver
<1>3. \A r : SignaturesOK(c, ex, r) => SignaturesOK(c, ex2, r)
  BY <1>2, Zenon DEF SignaturesOK
<1> QED
  BY <1>1, <1>2, <1>3

\* No call that met something becomes one that did not.
LEMMA ExcusedGrows ==
    ASSUME [ClientNext]_allvars
    PROVE  excused \subseteq excused'
<1>1. ASSUME NEW c \in Calls, Start(c) \/ Exchange(c) \/ Resume(c) PROVE excused \subseteq excused'
  BY <1>1 DEF Start, Exchange, Resume
<1>2. ASSUME NEW c \in Calls, SendFails(c) \/ AnswerLost(c) \/ Abandon(c) PROVE excused \subseteq excused'
  BY <1>2 DEF SendFails, AnswerLost, Abandon, Disrupt
<1>3. UserApproves \/ UserRejects \/ DeviceRestarts \/ UserTogglesBlindsign => excused \subseteq excused'
  BY DEF UserApproves, UserRejects, DeviceRestarts, UserTogglesBlindsign, Disrupt
<1>4. UNCHANGED allvars => excused \subseteq excused'
  BY DEF allvars, cvars
<1> QED
  BY <1>1, <1>2, <1>3, <1>4 DEF ClientNext

\* With room for one call, no other is open when one starts.
LEMMA StartsAlone ==
    ASSUME MaxConcurrent <= 1, OneOpen, NEW c \in Calls, Start(c)
    PROVE  \A d \in Calls : ~Active(d)
<1> DEFINE active == {d \in Calls : Active(d)}
<1>1. Cardinality(active) < MaxConcurrent /\ MaxConcurrent \in Nat
  BY CallAssumption DEF Start
<1>2. SUFFICES ASSUME NEW d \in Calls, Active(d) PROVE FALSE
  OBVIOUS
<1>3. active = {d}
  BY <1>2 DEF OneOpen
<1> HIDE DEF active
<1>4. Cardinality(active) = 1
  BY <1>3, FS_Singleton
<1> QED
  BY <1>1, <1>4

\* Two units sent together, the first of which is dropped.
LEMMA TwoUnits ==
    ASSUME NEW x \in Units, NEW y \in Units
    PROVE  LET s == <<x>> \o <<y>>
           IN  /\ s \in Seq(Units) /\ s # <<>> /\ Len(s) = 2 /\ s[1] = x /\ s[2] = y
               /\ Tail(s) = <<y>>
               /\ s = <<x, y>>
<1> DEFINE s == <<x>> \o <<y>>
<1>1. <<x>> \in Seq(Units) /\ <<y>> \in Seq(Units) /\ Len(<<x>>) = 1 /\ Len(<<y>>) = 1
  OBVIOUS
<1>2. s \in Seq(Units) /\ Len(s) = 2 /\ s[1] = x /\ s[2] = y
  BY <1>1
<1> HIDE DEF s
<1>3. s # <<>>
  BY <1>2, EmptySeq
<1>4. Tail(s) = <<y>>
  <2> DEFINE one == <<y>>
             rest == Tail(s)
  <2>1. one \in Seq(Units) /\ Len(one) = 1 /\ one[1] = y
    BY <1>1
  <2>2. rest \in Seq(Units) /\ Len(rest) = 1 /\ rest[1] = y
    BY <1>2
  <2> HIDE DEF one, rest
  <2>3. ASSUME NEW i \in 1..Len(rest) PROVE rest[i] = one[i]
    <3>1. i = 1
      BY <2>2
    <3> QED
      BY <2>1, <2>2, <3>1
  <2>4. rest = one
    BY <2>1, <2>2, <2>3, SeqEqual
  <2> QED
    BY <2>4 DEF one, rest
<1>6. s = <<x, y>>
  <2>1. <<x, y>> \in Seq(Units) /\ Len(<<x, y>>) = 2 /\ <<x, y>>[1] = x /\ <<x, y>>[2] = y
    OBVIOUS
  <2> QED
    BY <1>2, <2>1, SeqEqual
<1> QED
  BY <1>2, <1>3, <1>4, <1>6 DEF s

\* An upload grows by one unit.
LEMMA UploadGrows ==
    ASSUME NEW m \in Txns \union Messages, NEW k \in 1..Size[m]
    PROVE  /\ Uploaded(m, 0) = Tag(m)
           /\ Len(Uploaded(m, k - 1)) = Len(Tag(m)) + k - 1
           /\ Uploaded(m, k - 1) \o << <<m, k>> >> = Uploaded(m, k)
<1> DEFINE U == {TXTag} \union {<<m, i>> : i \in 1..Size[m]}
           t == Tag(m)
           none == [i \in 1..0 |-> <<m, i>>]
           before == [i \in 1..(k - 1) |-> <<m, i>>]
           after == [i \in 1..k |-> <<m, i>>]
           u == <<m, k>>
<1>1. Size[m] \in Nat /\ k \in Nat /\ k >= 1 /\ k <= Size[m]
  BY DataAssumption
<1>2. TXTag \in U /\ u \in U
  BY <1>1
<1>3. /\ before \in Seq(U) /\ Len(before) = k - 1 /\ \A i \in 1..(k - 1) : before[i] = <<m, i>>
      /\ none = <<>>
  BY <1>1
<1>4. /\ Uploaded(m, 0) = t \o none
      /\ Uploaded(m, k - 1) = t \o before
      /\ Uploaded(m, k) = t \o after
  BY Zenon DEF Uploaded
<1>5. before \o <<u>> = after
  <2>1. before \o <<u>> = [i \in 1..k |-> IF i < k THEN before[i] ELSE u]
    <3> HIDE DEF u, before, U
    <3> QED
      BY <1>1, <1>2, <1>3
  <2>2. ASSUME NEW i \in 1..k PROVE (IF i < k THEN before[i] ELSE u) = <<m, i>>
    <3>1. CASE i < k
      <4>1. i \in 1..(k - 1)
        BY <1>1, <3>1
      <4> QED
        BY <1>3, <3>1, <4>1
    <3>2. CASE i = k
      BY <1>1, <3>2
    <3> QED
      BY <1>1, <3>1, <3>2
  <2> HIDE DEF before, u
  <2> QED
    BY <2>1, <2>2
<1> HIDE DEF U, none, before, after, u
<1>6. t \in Seq(U)
  BY <1>2 DEF Tag
<1> HIDE DEF t
<1>7. Uploaded(m, 0) = t
  BY <1>3, <1>4, <1>6
<1>8. Len(Uploaded(m, k - 1)) = Len(t) + k - 1
  <2>1. Len(t \o before) = Len(t) + Len(before) /\ Len(t) \in Nat
    BY <1>3, <1>6
  <2> QED
    BY <1>1, <1>3, <1>4, <2>1
<1>9. Uploaded(m, k - 1) \o <<u>> = Uploaded(m, k)
  <2>1. (t \o before) \o <<u>> = t \o (before \o <<u>>)
    BY <1>2, <1>3, <1>6
  <2> QED
    BY <1>4, <1>5, <2>1
<1> QED
  BY <1>7, <1>8, <1>9 DEF t, u

\* P1 holds the count and the position of a chunk.
LEMMA CountInP1 ==
    ASSUME NEW n \in 0..16, NEW flag \in {0, 1, 128}
    PROVE  P1_NUM_OF_TXNS_IN_GROUP(2 * n + flag) = n
<1>1. CASE flag = 0
  BY <1>1 DEF P1_NUM_OF_TXNS_IN_GROUP
<1>2. CASE flag = 1
  BY <1>2 DEF P1_NUM_OF_TXNS_IN_GROUP
<1>3. CASE flag = 128
  BY <1>3 DEF P1_NUM_OF_TXNS_IN_GROUP
<1> QED
  BY <1>1, <1>2, <1>3

\* P1 and P2 of a chunk say which one it is.
LEMMA KindOfChunk ==
    ASSUME NEW n \in 0..16, NEW flag \in {0, 1, 128},
           NEW m \in Txns \union Messages, NEW k \in 1..Size[m], k > 1 <=> flag = 128
    PROVE  convertP1P2(2 * n + flag, IF k = Size[m] THEN P2_LAST ELSE P2_MORE) = ChunkType(m, k)
<1> DEFINE p1 == 2 * n + flag
           p2 == IF k = Size[m] THEN P2_LAST ELSE P2_MORE
<1>1. p1 - 2 * P1_NUM_OF_TXNS_IN_GROUP(p1) = flag
  BY CountInP1
<1>2. /\ Size[m] \in Nat \ {0} /\ k \in 1..Size[m]
      /\ flag = P1_MORE \/ flag <= P1_FIRST_ACCOUNT_ID
      /\ flag = P1_MORE <=> k > 1
      /\ ~(P1_MORE <= P1_FIRST_ACCOUNT_ID) /\ P2_MORE # P2_LAST
  BY DataAssumption DEF P1_MORE, P1_FIRST_ACCOUNT_ID, P2_LAST, P2_MORE
<1> HIDE DEF p1
<1>3. convertP1P2(p1, p2) =
        CASE flag <= P1_FIRST_ACCOUNT_ID /\ p2 = P2_MORE -> "INIT"
          [] flag = P1_MORE /\ p2 = P2_MORE              -> "ADD"
          [] flag = P1_MORE /\ p2 = P2_LAST              -> "LAST"
          [] flag <= P1_FIRST_ACCOUNT_ID /\ p2 = P2_LAST -> "SINGLE"
          [] OTHER                                       -> "NONE"
  BY <1>1 DEF convertP1P2
<1>4. CASE k = Size[m]
  <2>1. p2 = P2_LAST
    BY <1>4
  <2> HIDE DEF p2
  <2>2. convertP1P2(p1, p2) = IF k > 1 THEN "LAST" ELSE "SINGLE"
    BY <1>2, <1>3, <2>1
  <2> QED
    BY <1>2, <1>4, <2>2 DEF ChunkType, p1, p2
<1>5. CASE k # Size[m]
  <2>1. p2 = P2_MORE
    BY <1>5
  <2> HIDE DEF p2
  <2>2. convertP1P2(p1, p2) = IF k > 1 THEN "ADD" ELSE "INIT"
    BY <1>2, <1>3, <2>1
  <2> QED
    BY <1>2, <1>5, <2>2 DEF ChunkType, p1, p2
<1> QED
  BY <1>4, <1>5

\* An account id is not the last unit of a transaction, and neither is a unit of
\* an item that is not its last.
LEMMA NotLast ==
    /\ \A id : ~LastUnit(AccountUnit(id))
    /\ \A m, k : k # Size[m] => ~LastUnit(<<m, k>>)
BY NameAssumption DEF LastUnit, AccountUnit

\* An upload grows by units at its end.
LEMMA UploadEnd ==
    ASSUME NEW pre \in Seq(Units), NEW acct \in Units, NEW u \in Units,
           NEW body, body = <<u>> \/ body = <<acct>> \o <<u>>,
           ~LastUnit(acct), \A i \in DOMAIN pre : ~LastUnit(pre[i])
    PROVE  /\ pre \o body \in Seq(Units)
           /\ Len(pre \o body) \in Nat \ {0}
           /\ (pre \o body)[Len(pre \o body)] = u
           /\ \A i \in 1..(Len(pre \o body) - 1) : ~LastUnit((pre \o body)[i])
<1>1. CASE body = <<u>>
  BY <1>1
<1>2. CASE body = <<acct>> \o <<u>>
  <2> DEFINE s == pre \o body
  <2>1. body \in Seq(Units) /\ Len(body) = 2 /\ body[1] = acct /\ body[2] = u
    BY <1>2, TwoUnits
  <2>2. /\ s \in Seq(Units) /\ Len(s) = Len(pre) + 2 /\ Len(pre) \in Nat
        /\ \A i \in 1..Len(pre) : s[i] = pre[i]
        /\ s[Len(pre) + 1] = acct /\ s[Len(pre) + 2] = u
    <3>1. /\ s \in Seq(Units) /\ Len(s) = Len(pre) + Len(body) /\ Len(pre) \in Nat
          /\ \A i \in 1..Len(pre) + Len(body) :
                s[i] = IF i <= Len(pre) THEN pre[i] ELSE body[i - Len(pre)]
      <4>1. body \in Seq(Units) /\ Len(pre) \in Nat
        BY <2>1
      <4> QED
        BY <4>1, ConcatProperties, Zenon
    <3> HIDE DEF s
    <3> DEFINE n == Len(pre)
    <3>2. n \in Nat /\ Len(s) = n + 2
      BY <2>1, <3>1
    <3>3. \A i \in 1..(n + 2) : s[i] = IF i <= n THEN pre[i] ELSE body[i - n]
      BY <2>1, <3>1
    <3> HIDE DEF n
    <3>4. /\ \A i \in 1..n : s[i] = pre[i]
          /\ s[n + 1] = body[1] /\ s[n + 2] = body[2]
      BY <3>2, <3>3
    <3> QED
      BY <2>1, <3>1, <3>2, <3>4 DEF n
  <2> HIDE DEF s
  <2>3. ASSUME NEW i \in 1..(Len(s) - 1) PROVE ~LastUnit(s[i])
    <3>1. i \in 1..Len(pre) \/ i = Len(pre) + 1
      BY <2>2
    <3> QED
      BY <2>2, <3>1
  <2>4. Len(s) \in Nat \ {0} /\ s[Len(s)] = u
    BY <2>2
  <2> QED
    BY <2>2, <2>3, <2>4 DEF s
<1> QED
  BY <1>1, <1>2

\* A success of the device's signature comes with one.
LEMMA SignedOrRefused ==
    ASSUME NEW path, NEW message
    PROVE  Signed(path, message).sw = "OK" => Signed(path, message).signatures # {}
BY DEF Signed, Status, Answer

-----------------------------------------------------------------------------
(* The device takes a chunk.                                                 *)

\* The device puts nothing before a message and the prefix before a transaction.
LEMMA TagOfItem ==
    ASSUME NEW c \in Calls, CallOK(c, call[c])
    PROVE  /\ Item(c) \in Txns \union Messages
           /\ call[c].chunk \in 1..Size[Item(c)] /\ Size[Item(c)] \in Nat \ {0}
           /\ Request[c].kind = "signData" => Item(c) \in Messages /\ Tag(Item(c)) = <<>>
           /\ Request[c].kind # "signData"
                => Item(c) \in Txns /\ Item(c) \notin Messages /\ Tag(Item(c)) = <<TXTag>>
<1>1. call[c].item \in DOMAIN Request[c].items /\ call[c].chunk \in 1..Size[Item(c)]
  BY DEF CallOK, CallType, Item
<1>2. Item(c) \in Txns \union Messages /\ Size[Item(c)] \in Nat \ {0}
  BY <1>1, ItemSize DEF Item
<1>3. Request[c].kind # "signData" => Item(c) \in Txns
  BY <1>1, RequestType DEF Item
<1>4. Request[c].kind = "signData" => Item(c) \in Messages
  <2>1. Request[c].kind = "signData" => Request[c].items \in Seq(Messages)
    BY CallAssumption
  <2> QED
    BY <1>1, <2>1 DEF Item
<1> QED
  BY <1>1, <1>2, <1>3, <1>4, NameAssumption DEF Tag

\* What a call that signs sends is one more chunk of the item in hand.
LEMMA ChunkOfItem ==
    ASSUME NEW c \in Calls, CallOK(c, call[c]), call[c].stage = "signing"
    PROVE  LET a == NextApdu(c)
               k == call[c].chunk
               u == <<Item(c), k>>
           IN  /\ a.ins = IF Request[c].kind = "signData" THEN "INS_ARBITRARY_SIGN" ELSE "INS_SIGN_MSGPACK"
               /\ \/ Body(a) = <<u>>
                  \/ /\ k = 1 /\ Request[c].kind # "signData"
                     /\ Body(a) = <<AccountUnit(Request[c].account)>> \o <<u>>
               /\ ~TooShort(a)
               /\ P1_NUM_OF_TXNS_IN_GROUP(a.p1) = numOfTxns(c)
               /\ convertP1P2(a.p1, a.p2) = ChunkType(Item(c), k)
<1> DEFINE a == NextApdu(c)
           k == call[c].chunk
           u == <<Item(c), k>>
           acct == AccountUnit(Request[c].account)
           n == numOfTxns(c)
           p2 == IF k = Size[Item(c)] THEN P2_LAST ELSE P2_MORE
<1>1. /\ Item(c) \in Txns \union Messages /\ k \in 1..Size[Item(c)]
      /\ u \in Payload /\ acct \in Payload /\ u \in Units /\ acct \in Units
  BY TagOfItem, ChunkIsPayload, RequestType DEF Payload, Units
<1>2. n \in 0..16 /\ P2(c) = p2
  BY CountIsSmall DEF P2
<1>3. CASE Request[c].kind = "signData"
  <2> DEFINE flag == IF k > 1 THEN P1_MORE ELSE 0
  <2>1. a = rawSignChunk(c)
    BY <1>3 DEF NextApdu
  <2>2. /\ a.ins = "INS_ARBITRARY_SIGN" /\ a.p1 = flag /\ a.p2 = p2
        /\ a.data = <<u>>
    BY <1>2, <2>1 DEF rawSignChunk
  <2>3. flag \in {0, 1, 128} /\ (k > 1 <=> flag = 128) /\ flag = 2 * 0 + flag /\ flag # 1
    BY DEF P1_MORE
  <2>4. n = 0
    BY <1>3 DEF numOfTxns
  <2> HIDE DEF a, flag, p2, n
  <2>5. ~HasAccount(a)
    BY <2>2, <2>3 DEF HasAccount, P1_FIRST_ACCOUNT_ID
  <2>6. P1_NUM_OF_TXNS_IN_GROUP(a.p1) = 0
    BY <2>2, <2>3, CountInP1
  <2>7. convertP1P2(2 * 0 + flag, p2) = ChunkType(Item(c), k)
    BY <1>1, <2>3, KindOfChunk DEF p2
  <2> QED
    BY <1>3, <2>2, <2>3, <2>4, <2>5, <2>6, <2>7 DEF a, n, Body, TooShort
<1>4. CASE Request[c].kind # "signData"
  <2> DEFINE flag == IF k > 1 THEN P1_MORE
                     ELSE IF Request[c].account # 0 THEN P1_FIRST_ACCOUNT_ID ELSE 0
  <2>1. a = signSendChunk(c)
    BY <1>4 DEF NextApdu
  <2>2. /\ a.ins = "INS_SIGN_MSGPACK" /\ a.p1 = 2 * n + flag /\ a.p2 = p2
        /\ a.data = prepareChunk(c)
    BY <1>2, <2>1 DEF signSendChunk
  <2>3. /\ flag \in {0, 1, 128} /\ (k > 1 <=> flag = 128)
        /\ flag = 1 => Request[c].account # 0 /\ k = 1
    BY <1>1 DEF P1_MORE, P1_FIRST_ACCOUNT_ID
  <2>4. /\ (k = 1 /\ prepareChunk(c) = <<acct>> \o <<u>>) \/ prepareChunk(c) = <<>> \o <<u>>
        /\ flag = 1 => prepareChunk(c) = <<acct>> \o <<u>>
    BY <2>3, Zenon DEF prepareChunk
  <2> HIDE DEF a, flag, p2, n, u, acct, k
  <2>5. /\ Tail(<<acct>> \o <<u>>) = <<u>> /\ <<acct>> \o <<u>> # <<>>
        /\ <<>> \o <<u>> = <<u>> /\ <<u>> # <<>>
    <3>1. <<u>> \in Seq(Units) /\ <<u>> # <<>>
      BY <1>1
    <3>2. <<>> \o <<u>> = <<u>>
      BY <3>1, ConcatEmptySeq
    <3> QED
      BY <1>1, <3>1, <3>2, TwoUnits
  <2>6. HasAccount(a) => flag = 1
    BY <1>2, <2>2, <2>3 DEF HasAccount, P1_FIRST_ACCOUNT_ID
  <2>7. a.data # <<>> /\ (Body(a) = <<u>> \/ (k = 1 /\ Body(a) = <<acct>> \o <<u>>))
    BY <2>2, <2>3, <2>4, <2>5, <2>6 DEF Body
  <2>8. P1_NUM_OF_TXNS_IN_GROUP(a.p1) = n
    BY <1>2, <2>2, <2>3, CountInP1
  <2>9. convertP1P2(2 * n + flag, p2) = ChunkType(Item(c), k)
    BY <1>1, <1>2, <2>3, KindOfChunk DEF p2, k
  <2> QED
    BY <1>4, <2>2, <2>7, <2>8, <2>9 DEF a, n, u, acct, k, TooShort
<1> QED
  BY <1>3, <1>4

\* The upload in hand after the device has taken a chunk or refused it.
LEMMA UploadAfterChunk ==
    ASSUME NEW c \in Calls, CallOK(c, call[c]), call[c].stage = "signing",
           buffer \in Seq(Units), tx_initialized \in BOOLEAN,
           process_chunk(NextApdu(c), Tag(Item(c))),
           call[c].chunk > 1 /\ tx_initialized =>
             \/ GroupCountRefused(numOfTxns(c))
             \/ HoldsUnits(c, Item(c), call[c].chunk - 1, buffer)
    PROVE  tx_initialized' \/ ChunkStatus(NextApdu(c), Tag(Item(c))) = "complete" =>
             \/ GroupCountRefused(numOfTxns(c)) /\ tx_initialized'
             \/ HoldsUnits(c, Item(c), call[c].chunk, buffer')
<1> DEFINE a == NextApdu(c)
           k == call[c].chunk
           m == Item(c)
           u == <<m, k>>
           acct == AccountUnit(Request[c].account)
           status == ChunkStatus(a, Tag(m))
           base == UploadBase(a, Tag(m))
<1>1. /\ m \in Txns \union Messages /\ k \in 1..Size[m] /\ Size[m] \in Nat \ {0}
      /\ u \in Units /\ acct \in Units
  BY TagOfItem, ChunkIsPayload, RequestType DEF Payload, Units
<1>2. /\ Body(a) = <<u>> \/ (k = 1 /\ Request[c].kind # "signData" /\ Body(a) = <<acct>> \o <<u>>)
      /\ ~TooShort(a)
      /\ P1_NUM_OF_TXNS_IN_GROUP(a.p1) = numOfTxns(c)
      /\ convertP1P2(a.p1, a.p2) = ChunkType(m, k)
  BY ChunkOfItem
<1>3. /\ k > 1 /\ tx_initialized => GroupCountRefused(numOfTxns(c)) \/ HoldsUnits(c, m, k - 1, buffer)
      /\ process_chunk(a, Tag(m))
  OBVIOUS
<1>4. /\ Request[c].kind # "signData" => Tag(m) = <<TXTag>>
      /\ Tag(m) \in Seq(Units)
  <2>1. /\ Request[c].kind = "signData" => Tag(m) = <<>>
        /\ Request[c].kind # "signData" => Tag(m) = <<TXTag>>
    BY TagOfItem
  <2>2. <<>> \in Seq(Units) /\ <<TXTag>> \in Seq(Units)
    BY EmptySeq DEF Units
  <2> QED
    BY <2>1, <2>2
<1> SUFFICES ASSUME tx_initialized' \/ status = "complete"
             PROVE  \/ GroupCountRefused(numOfTxns(c)) /\ tx_initialized'
                    \/ HoldsUnits(c, m, k, buffer')
  OBVIOUS
<1> HIDE DEF a, k, m, u, acct, base
<1>5. CASE ChunkIgnored(a, Tag(m))
  <2>1. status \in {"INVALIDP1P2", "TX_NOT_INITIALIZED"} /\ tx_initialized' = tx_initialized
    BY <1>5 DEF ChunkIgnored
  <2>2. tx_initialized
    BY <2>1
  <2>3. ChunkType(m, k) # "NONE"
    BY DEF ChunkType
  <2>4. GroupCountRefused(numOfTxns(c))
    BY <1>2, <2>1, <2>2, <2>3, Zenon DEF ChunkStatus
  <2> QED
    BY <2>1, <2>2, <2>4
<1>6. CASE ChunkAppended(a, Tag(m))
  <2>1. /\ status \notin {"INVALIDP1P2", "TX_NOT_INITIALIZED"}
        /\ tx_initialized' = (status \in {"OK", "WRONG_LENGTH"})
        /\ buffer' = tx_append(base, Body(a))
    BY <1>6 DEF ChunkAppended, base
  <2>2. status \in {"OK", "WRONG_LENGTH", "complete"}
    BY <2>1
  <2>3. /\ ~GroupCountRefused(numOfTxns(c))
        /\ ChunkType(m, k) \in {"ADD", "LAST"} => tx_initialized
        /\ Fits(base, Body(a))
    <3>1. status # "OUTPUT_BUFFER_TOO_SMALL"
      BY <2>2
    <3> QED
      BY <1>2, <2>1, <3>1, Zenon DEF ChunkStatus, base
  <2>4. buffer' = base \o Body(a)
    BY <2>1, <2>3 DEF tx_append
  <2>5. CASE k = 1
    <3>1. base = Tag(m)
      BY <1>2, <2>5 DEF UploadBase, ChunkType, base
    <3>2. Uploaded(m, 0) = Tag(m) /\ Uploaded(m, 1 - 1) \o << <<m, 1>> >> = Uploaded(m, 1)
      BY <1>1, <2>5, UploadGrows
    <3>3. CASE Body(a) = <<u>>
      <4>1. buffer' = Uploaded(m, 1)
        BY <2>4, <2>5, <3>1, <3>2, <3>3 DEF u
      <4> QED
        BY <2>5, <4>1 DEF HoldsUnits
    <3>4. CASE Request[c].kind # "signData" /\ Body(a) = <<acct>> \o <<u>>
      <4>1. Len(<<TXTag>>) = 1 /\ <<TXTag>> \in Seq(Units)
        BY DEF Units
      <4> DEFINE two == <<acct>> \o <<u>>
                 one == <<TXTag>>
      <4>2. two \in Seq(Units) /\ Len(two) = 2 /\ two[1] = acct
        BY <1>1, TwoUnits
      <4>3. buffer' = one \o two
        BY <1>4, <2>4, <3>1, <3>4
      <4> HIDE DEF two, one
      <4>4. Len(buffer') > 1 /\ buffer'[2] = acct
        BY <4>1, <4>2, <4>3 DEF one
      <4> QED
        BY <3>4, <4>4 DEF HoldsUnits, AccountInFront, acct
    <3> QED
      BY <1>2, <3>3, <3>4
  <2>6. CASE k > 1
    <3>1. base = buffer /\ tx_initialized /\ Body(a) = <<u>>
      BY <1>2, <2>3, <2>6 DEF UploadBase, ChunkType, base
    <3>2. HoldsUnits(c, m, k - 1, buffer)
      BY <1>3, <2>3, <2>6, <3>1
    <3>3. CASE buffer = Uploaded(m, k - 1)
      <4>1. buffer' = Uploaded(m, k)
        BY <1>1, <2>4, <3>1, <3>3, UploadGrows DEF u
      <4> QED
        BY <4>1 DEF HoldsUnits
    <3>4. CASE AccountInFront(c, buffer)
      <4>1. buffer' = buffer \o <<u>> /\ <<u>> \in Seq(Units)
        BY <1>1, <2>4, <3>1
      <4>2. Len(buffer) > 1 /\ Len(buffer') > 1 /\ buffer'[2] = buffer[2]
        BY <3>4, <4>1 DEF AccountInFront
      <4> QED
        BY <3>4, <4>2 DEF HoldsUnits, AccountInFront
    <3> QED
      BY <3>2, <3>3, <3>4 DEF HoldsUnits
  <2> QED
    BY <1>1, <2>5, <2>6
<1> QED
  BY <1>3, <1>5, <1>6 DEF process_chunk

\* The last chunk of an item ends the upload, and no other ends in the middle of it.
LEMMA UploadEndsWithChunk ==
    ASSUME SignatureInv, NEW c \in Calls, call[c].stage = "signing",
           process_chunk(NextApdu(c), Tag(Item(c)))
    PROVE  /\ OpenUpload'
           /\ ChunkStatus(NextApdu(c), Tag(Item(c))) = "complete" =>
                /\ call[c].chunk = Size[Item(c)]
                /\ buffer' = sent' /\ sent' \in Seq(Units) /\ Len(sent') \in Nat \ {0}
                /\ sent'[Len(sent')] = <<Item(c), call[c].chunk>>
                /\ \A i \in 1..(Len(sent') - 1) : ~LastUnit(sent'[i])
<1> DEFINE a == NextApdu(c)
           k == call[c].chunk
           m == Item(c)
           u == <<m, k>>
           acct == AccountUnit(Request[c].account)
           status == ChunkStatus(a, Tag(m))
           type == ChunkType(m, k)
           pre == IF type \in {"INIT", "SINGLE"} THEN Tag(m) ELSE sent
           body == Body(a)
<1>1. /\ Inv /\ CallOK(c, call[c]) /\ OpenUpload /\ sent \in Seq(Units)
  BY DEF SignatureInv, ClientInv, CallsTyped, Inv, TypeOK
<1>2. /\ m \in Txns \union Messages /\ k \in 1..Size[m] /\ Size[m] \in Nat \ {0}
      /\ u \in Units /\ acct \in Units /\ TXTag \in Units
      /\ Tag(m) \in {<<>>, <<TXTag>>}
  BY <1>1, TagOfItem, ChunkIsPayload, RequestType DEF Payload, Units
<1>3. /\ a.ins \in {"INS_SIGN_MSGPACK", "INS_ARBITRARY_SIGN"}
      /\ body = <<u>> \/ body = <<acct>> \o <<u>>
      /\ ~TooShort(a)
      /\ convertP1P2(a.p1, a.p2) = type
      /\ a \in Framed
  BY <1>1, ChunkOfItem, NextApduFramed
<1>4. process_chunk(a, Tag(m))
  OBVIOUS
<1> HIDE DEF a, m, k, body
<1>5. /\ status = "complete" => UploadWhole' /\ ~tx_initialized'
      /\ sent' \in Seq(Units)
  BY <1>1, <1>2, <1>3, <1>4, ChunkInSync
<1>6. CASE ChunkIgnored(a, Tag(m))
  <2>1. status # "complete" /\ UNCHANGED <<tx_initialized, sent>>
    BY <1>6 DEF ChunkIgnored
  <2> QED
    BY <1>1, <2>1 DEF OpenUpload, LastUnit, a, m
<1>7. CASE ChunkAppended(a, Tag(m))
  <2>1. /\ tx_initialized' = (status \in {"OK", "WRONG_LENGTH"})
        /\ status \notin {"INVALIDP1P2", "TX_NOT_INITIALIZED"}
    BY <1>7 DEF ChunkAppended
  <2>0. sent' = pre \o body
    BY <1>3, <1>7 DEF ChunkAppended, body
  <2>2. /\ type \in {"ADD", "LAST"} => tx_initialized
        /\ status = "complete" => type \in {"LAST", "SINGLE"}
        /\ status \in {"OK", "WRONG_LENGTH"} => type \in {"INIT", "ADD"}
    <3>1. type \in {"INIT", "SINGLE", "ADD", "LAST"}
      BY DEF ChunkType
    <3> HIDE DEF type
    <3> QED
      BY <1>3, <2>1, <3>1 DEF ChunkStatus
  <2>3. pre \in Seq(Units) /\ \A i \in DOMAIN pre : ~LastUnit(pre[i])
    <3>1. CASE type \in {"INIT", "SINGLE"}
      <4>1. pre = <<>> \/ pre = <<TXTag>>
        BY <1>2, <3>1
      <4>2. ~LastUnit(TXTag)
        BY NameAssumption DEF LastUnit, TXTag
      <4>3. <<>> \in Seq(Units) /\ <<TXTag>> \in Seq(Units) /\ DOMAIN <<>> = {}
            /\ DOMAIN <<TXTag>> = {1} /\ <<TXTag>>[1] = TXTag
        BY <1>2, EmptySeq
      <4> HIDE DEF pre
      <4> QED
        BY <4>1, <4>2, <4>3
    <3>2. CASE type \notin {"INIT", "SINGLE"}
      <4>1. pre = sent /\ type \in {"ADD", "LAST"}
        BY <3>2 DEF ChunkType
      <4> QED
        BY <1>1, <2>2, <4>1 DEF OpenUpload
    <3> QED
      BY <3>1, <3>2
  <2>4. ~LastUnit(acct)
    BY NotLast DEF acct
  <2> HIDE DEF pre, u, acct
  <2>5. /\ sent' \in Seq(Units) /\ Len(sent') \in Nat \ {0}
        /\ sent'[Len(sent')] = u
        /\ \A i \in 1..(Len(sent') - 1) : ~LastUnit(sent'[i])
    <3>1. /\ pre \o body \in Seq(Units)
          /\ Len(pre \o body) \in Nat \ {0}
          /\ (pre \o body)[Len(pre \o body)] = u
          /\ \A i \in 1..(Len(pre \o body) - 1) : ~LastUnit((pre \o body)[i])
      BY <1>2, <1>3, <2>3, <2>4, UploadEnd
    <3> QED
      BY <2>0, <3>1, Zenon
  <2>6. ASSUME tx_initialized' PROVE \A i \in DOMAIN sent' : ~LastUnit(sent'[i])
    <3>1. type \in {"INIT", "ADD"}
      BY <2>1, <2>2, <2>6
    <3>2. k # Size[m]
      BY <1>2, <3>1 DEF ChunkType
    <3>3. ~LastUnit(u)
      BY <3>2, NotLast DEF u
    <3>4. \A i \in DOMAIN sent' : i \in 1..(Len(sent') - 1) \/ i = Len(sent')
      BY <2>5
    <3> QED
      BY <2>5, <3>3, <3>4
  <2>7. OpenUpload'
    BY <2>6 DEF OpenUpload, LastUnit
  <2>8. status = "complete" => k = Size[m] /\ buffer' = sent'
    <3>1. type \in {"LAST", "SINGLE"} => k = Size[m]
      BY <1>2 DEF ChunkType
    <3> QED
      BY <1>5, <2>2, <3>1 DEF UploadWhole
  <2> QED
    BY <2>5, <2>7, <2>8 DEF a, m, k, u
<1> QED
  BY <1>4, <1>6, <1>7 DEF process_chunk

\* An upload of all the units of an item is what a signature of it is over; of a
\* message, what the device signs of it is.
LEMMA UploadedIsSigned ==
    ASSUME NEW m \in Txns \union Messages
    PROVE  /\ m \notin Messages => Uploaded(m, Size[m]) = SignedBytes(m)
           /\ m \in Messages => ToSign(Uploaded(m, Size[m])) = SignedBytes(m)
<1>1. Size[m] \in Nat \ {0}
  BY DataAssumption
<1>2. m \notin Messages => Uploaded(m, Size[m]) = SignedBytes(m)
  BY Zenon DEF Uploaded, Tag, SignedBytes, Encoding
<1>3. ASSUME m \in Messages PROVE ToSign(Uploaded(m, Size[m])) = SignedBytes(m)
  <2> DEFINE units == [i \in 1..Size[m] |-> <<m, i>>]
             buf == Uploaded(m, Size[m])
  <2>1. units \in Seq({<<m, i>> : i \in 1..Size[m]}) /\ Len(units) = Size[m] /\ units[1] = <<m, 1>>
    BY <1>1
  <2>2. buf = <<>> \o units
    BY <1>3, Zenon DEF Uploaded, Tag
  <2> HIDE DEF units
  <2>3. buf = units
    BY <2>1, <2>2
  <2> HIDE DEF buf
  <2>4. buf # <<>> /\ buf[1] = <<m, 1>> /\ <<m, 1>> # TXTag
    BY <1>1, <1>3, <2>1, <2>3, NameAssumption DEF TXTag
  <2>5. ToSign(buf) = << <<m, 1>> >>
    BY <2>4 DEF ToSign
  <2> QED
    BY <1>3, <2>5 DEF SignedBytes, buf
<1> QED
  BY <1>2, <1>3

\* The parser makes nothing of an account id.
LEMMA AccountIsNotParsed ==
    ASSUME NEW c \in Calls, NEW buf, AccountInFront(c, buf)
    PROVE  ParsedTxns(buf) = {}
<1>1. Request[c].account \in AccountIds
  BY RequestType
<1>2. ASSUME NEW t \in Txns, HoldsWhole(buf, t) PROVE FALSE
  <2>1. 1 \in 1..Size[t]
    BY DataAssumption
  <2>2. buf[1 + 1] = <<t, 1>>
    BY <1>2, <2>1, Zenon DEF HoldsWhole
  <2>3. buf[2] = <<t, 1>>
    BY <2>2
  <2>4. t \in STRING /\ t # "account"
    BY NameAssumption
  <2> QED
    BY <2>3, <2>4 DEF AccountInFront, AccountUnit
<1>3. ASSUME NEW r \in Mixtures, r.buffer = buf PROVE FALSE
  BY <1>1, <1>3, SmallAccountAssumption DEF AccountInFront
<1> QED
  BY <1>2, <1>3, Zenon DEF ParsedTxns

\* What the last chunk of a transaction completes, if the parser accepts a
\* transaction in it at all, is that one, whole, or a mixture that ends with its
\* last unit.
LEMMA CompleteIsOver ==
    ASSUME SignatureInv, NEW c \in Calls, call[c].stage = "signing", Request[c].kind # "signData",
           process_chunk(NextApdu(c), Tag(Item(c))),
           ChunkStatus(NextApdu(c), Tag(Item(c))) = "complete",
           NEW t \in ParsedTxns(buffer') \intersect WellFormed,
           Untroubled(c, excused) => HoldsUnits(c, Item(c), call[c].chunk, buffer')
    PROVE  SignatureOver(c, excused, Item(c), buffer')
<1> DEFINE k == call[c].chunk
           m == Item(c)
<1>1. /\ k = Size[m] /\ m \in Txns /\ m \notin Messages /\ Size[m] \in Nat \ {0}
      /\ buffer' \in Seq(Units) /\ Len(buffer') \in Nat \ {0}
      /\ buffer'[Len(buffer')] = <<m, Size[m]>>
      /\ \A i \in 1..(Len(buffer') - 1) : ~LastUnit(buffer'[i])
  <2>1. CallOK(c, call[c])
    BY DEF SignatureInv, ClientInv, CallsTyped
  <2>2. m \in Txns /\ m \notin Messages /\ Size[m] \in Nat \ {0}
    BY <2>1, TagOfItem
  <2>3. /\ k = Size[m]
        /\ buffer' = sent' /\ sent' \in Seq(Units) /\ Len(sent') \in Nat \ {0}
        /\ sent'[Len(sent')] = <<m, k>>
        /\ \A i \in 1..(Len(sent') - 1) : ~LastUnit(sent'[i])
    BY UploadEndsWithChunk
  <2> HIDE DEF k, m
  <2> QED
    BY <2>2, <2>3
<1> HIDE DEF m, k
<1>2. CASE HoldsWhole(buffer', t)
  <2>1. /\ t \in Txns /\ Size[t] \in Nat \ {0}
        /\ Len(buffer') > Size[t] /\ buffer'[1] = TXTag
        /\ \A i \in 1..Size[t] : buffer'[i + 1] = <<t, i>>
    BY <1>2, NameAssumption, DataAssumption DEF HoldsWhole
  <2>2. LastUnit(buffer'[Size[t] + 1])
    BY <2>1 DEF LastUnit
  <2>3. Size[t] + 1 = Len(buffer')
    BY <1>1, <2>1, <2>2
  <2>4. t = m
    <3>1. buffer'[Size[t] + 1] = <<t, Size[t]>>
      BY <2>1
    <3> QED
      BY <1>1, <2>3, <3>1
  <2>5. buffer' = <<TXTag>> \o Encoding(m)
    <3> DEFINE units == Encoding(m)
               one == <<TXTag>>
               whole == one \o units
    <3>1. units \in Seq({<<m, i>> : i \in 1..Size[m]}) /\ Len(units) = Size[m]
          /\ \A i \in 1..Size[m] : units[i] = <<m, i>>
      BY <1>1 DEF Encoding
    <3>2. one \in Seq({TXTag}) /\ Len(one) = 1 /\ one[1] = TXTag
      OBVIOUS
    <3> DEFINE U == {TXTag} \union {<<m, i>> : i \in 1..Size[m]}
    <3>3. units \in Seq(U) /\ one \in Seq(U)
      BY <3>1, <3>2
    <3> HIDE DEF units, one, U
    <3>4. /\ whole \in Seq(U) /\ Len(whole) = Len(one) + Len(units)
          /\ \A i \in 1..(Len(one) + Len(units)) :
                whole[i] = IF i <= Len(one) THEN one[i] ELSE units[i - Len(one)]
      BY <3>3, ConcatProperties, Zenon
    <3> HIDE DEF whole
    <3>5. Len(whole) = Len(buffer')
      BY <1>1, <2>3, <2>4, <3>1, <3>2, <3>4
    <3>6. ASSUME NEW i \in 1..Len(whole) PROVE whole[i] = buffer'[i]
      <4>1. CASE i = 1
        BY <1>1, <2>1, <3>1, <3>2, <3>4, <4>1
      <4>2. CASE i # 1
        <5>1. i - 1 \in 1..Size[m] /\ i = (i - 1) + 1 /\ ~(i <= 1)
          BY <1>1, <2>3, <2>4, <3>5, <4>2
        <5>2. buffer'[(i - 1) + 1] = <<m, i - 1>>
          BY <2>1, <2>4, <5>1
        <5>3. whole[i] = units[i - 1]
          BY <3>1, <3>2, <3>4, <5>1, <3>6
        <5> QED
          BY <3>1, <5>1, <5>2, <5>3
      <4> QED
        BY <4>1, <4>2
    <3>7. whole = buffer'
      BY <1>1, <3>4, <3>5, <3>6, SeqEqual
    <3> QED
      BY <3>7 DEF whole, one, units
  <2>6. buffer' = SignedBytes(m)
    BY <1>1, <2>5, Zenon DEF SignedBytes
  <2> QED
    BY <2>6 DEF SignatureOver, m
<1>3. CASE ~HoldsWhole(buffer', t)
  <2>1. PICK r \in Mixtures : r.buffer = buffer' /\ r.txn = t
    BY <1>3 DEF ParsedTxns
  <2>2. CASE Untroubled(c, excused)
    <3>1. HoldsUnits(c, m, Size[m], buffer')
      BY <1>1, <2>2 DEF m, k
    <3>2. ~AccountInFront(c, buffer')
      BY AccountIsNotParsed
    <3>3. buffer' = SignedBytes(m)
      BY <1>1, <3>1, <3>2, UploadedIsSigned DEF HoldsUnits
    <3> QED
      BY <3>3 DEF SignatureOver, m
  <2>3. CASE ~Untroubled(c, excused)
    <3>1. buffer' # <<>> /\ Last(buffer') = <<m, Size[m]>>
      BY <1>1 DEF Last
    <3>2. EndsMixture(m, buffer')
      BY <2>1, <3>1 DEF EndsMixture
    <3> QED
      BY <2>3, <3>2 DEF SignatureOver, m
  <2> QED
    BY <2>2, <2>3
<1> QED
  BY <1>2, <1>3

\* A chunk is answered, or put on the screen, for the item in hand.
SignGoal(c) ==
    /\ screen'.kind # "none" =>
          /\ call[c].chunk = Size[Item(c)]
          /\ IF Request[c].kind = "signData"
               THEN screen'.kind = "message" /\ SignatureOver(c, excused, Item(c), ToSign(buffer'))
               ELSE screen'.kind \in {"transaction", "summary"}
                    /\ SignatureOver(c, excused, Item(c), buffer')
    /\ reply'.sw # "none" =>
          /\ \A s \in reply'.signatures : SignatureOver(c, excused, Item(c), s.message)
          /\ reply'.sw = "OK" /\ call[c].chunk = Size[Item(c)] => reply'.signatures # {}

\* So it is for a transaction.
LEMMA TxAnswered ==
    ASSUME SignatureInv, NEW c \in Calls, call[c].stage = "signing", Request[c].kind # "signData",
           handle_sign_msgpack(NextApdu(c)), screen.kind = "none",
           Untroubled(c, excused) /\ ChunkStatus(NextApdu(c), Tag(Item(c))) = "complete"
             => HoldsUnits(c, Item(c), call[c].chunk, buffer')
    PROVE  SignGoal(c)
<1> DEFINE a == NextApdu(c)
<1>1. Inv /\ CallOK(c, call[c])
  BY DEF SignatureInv, ClientInv, CallsTyped
<1>2. Tag(Item(c)) = <<TXTag>> /\ call[c].chunk \in 1..Size[Item(c)]
  BY <1>1, TagOfItem
<1>3. a \in Framed /\ a.ins = "INS_SIGN_MSGPACK" /\ convertP1P2(a.p1, a.p2) = ChunkType(Item(c), call[c].chunk)
  BY <1>1, ChunkOfItem, NextApduFramed
<1>5. \A sw : Status(sw).sw = sw /\ Status(sw).signatures = {}
  BY DEF Status, Answer
<1>6. StoreTxChunk(a) \/ RejectTx(a) \/ SignInBatch(a) \/ ReviewTx(a)
  BY DEF handle_sign_msgpack
<1>7. ASSUME process_chunk(a, <<TXTag>>), ChunkStatus(a, <<TXTag>>) = "complete"
      PROVE  /\ call[c].chunk = Size[Item(c)]
             /\ hdPath' \in Keys /\ buffer' \in Seq(Units)
             /\ ParsedTxns(buffer') \intersect WellFormed # {}
                  => SignatureOver(c, excused, Item(c), buffer')
  <2>1. call[c].chunk = Size[Item(c)]
    BY <1>2, <1>7, UploadEndsWithChunk
  <2>2. hdPath' \in Keys /\ buffer' \in Seq(Units)
    BY <1>1, <1>3, <1>7, ChunkInSync
  <2>3. ASSUME NEW t \in ParsedTxns(buffer') \intersect WellFormed
        PROVE  SignatureOver(c, excused, Item(c), buffer')
    BY <1>2, <1>7, CompleteIsOver
  <2> QED
    BY <2>1, <2>2, <2>3
<1>8. ASSUME call[c].chunk = Size[Item(c)] PROVE ChunkStatus(a, <<TXTag>>) # "OK"
  <2>1. ChunkType(Item(c), call[c].chunk) \in {"SINGLE", "LAST"}
    BY <1>2, <1>8 DEF ChunkType
  <2> QED
    BY <1>3, <2>1 DEF ChunkStatus
<1> HIDE DEF a
<1>9. CASE StoreTxChunk(a)
  <2>1. screen' = screen /\ reply' = Status(ChunkStatus(a, <<TXTag>>))
    BY <1>9 DEF StoreTxChunk
  <2> QED
    BY <1>5, <1>8, <2>1 DEF SignGoal
<1>10. CASE RejectTx(a)
  <2>1. screen' = screen /\ reply' = Status("DATA_INVALID")
    BY <1>10 DEF RejectTx
  <2> QED
    BY <1>5, <2>1 DEF SignGoal
<1>11. CASE SignInBatch(a)
  <2>1. /\ screen' = screen /\ reply' = Signed(hdPath', buffer')
        /\ process_chunk(a, <<TXTag>>) /\ ChunkStatus(a, <<TXTag>>) = "complete"
        /\ ParsedTxns(buffer') \intersect WellFormed # {}
    BY <1>11 DEF SignInBatch, app_sign
  <2>2. /\ \A s \in reply'.signatures : s.message = buffer'
        /\ reply'.sw = "OK" => reply'.signatures # {}
    BY <1>7, <2>1, SignedType, SignedOrRefused
  <2> QED
    BY <1>7, <2>1, <2>2 DEF SignGoal
<1>12. CASE ReviewTx(a)
  <2>1. /\ reply' = Status("none")
        /\ process_chunk(a, <<TXTag>>) /\ ChunkStatus(a, <<TXTag>>) = "complete"
    BY <1>12 DEF ReviewTx
  <2>2. PICK t \in ParsedTxns(buffer') \intersect WellFormed :
          screen'.kind = "summary" \/ screen'.kind = "transaction"
    BY <1>12 DEF ReviewTx
  <2> QED
    BY <1>5, <1>7, <2>1, <2>2 DEF SignGoal
<1> QED
  BY <1>6, <1>9, <1>10, <1>11, <1>12 DEF a

\* And for a message.
LEMMA MessageAnswered ==
    ASSUME SignatureInv, NEW c \in Calls, call[c].stage = "signing", Request[c].kind = "signData",
           handle_arbitrary_sign(NextApdu(c)), screen.kind = "none",
           Untroubled(c, excused) /\ ChunkStatus(NextApdu(c), Tag(Item(c))) = "complete"
             => HoldsUnits(c, Item(c), call[c].chunk, buffer')
    PROVE  SignGoal(c)
<1> DEFINE a == NextApdu(c)
<1>1. CallOK(c, call[c])
  BY DEF SignatureInv, ClientInv, CallsTyped
<1>2. /\ Tag(Item(c)) = <<>> /\ call[c].chunk \in 1..Size[Item(c)] /\ Item(c) \in Messages
      /\ convertP1P2(a.p1, a.p2) = ChunkType(Item(c), call[c].chunk)
  BY <1>1, TagOfItem, ChunkOfItem
<1>3. \A sw : Status(sw).sw = sw /\ Status(sw).signatures = {}
  BY DEF Status, Answer
<1>4. StoreMessageChunk(a) \/ ReviewMessage(a)
  BY DEF handle_arbitrary_sign
<1>5. ASSUME call[c].chunk = Size[Item(c)] PROVE ChunkStatus(a, <<>>) # "OK"
  <2>1. ChunkType(Item(c), call[c].chunk) \in {"SINGLE", "LAST"}
    BY <1>2, <1>5 DEF ChunkType
  <2> HIDE DEF a
  <2> QED
    BY <1>2, <2>1 DEF ChunkStatus
<1>6. CASE StoreMessageChunk(a)
  <2> HIDE DEF a
  <2>1. screen' = screen /\ reply' = Status(ChunkStatus(a, <<>>))
    BY <1>6 DEF StoreMessageChunk
  <2> QED
    BY <1>3, <1>5, <2>1 DEF SignGoal
<1>7. CASE ReviewMessage(a)
  <2>1. /\ process_chunk(a, <<>>) /\ ChunkStatus(a, <<>>) = "complete"
        /\ screen'.kind = "message" /\ reply' = Status("none")
    BY <1>7 DEF ReviewMessage, NoScreen
  <2>2. call[c].chunk = Size[Item(c)]
    BY <1>2, <2>1, UploadEndsWithChunk
  <2>3. SignatureOver(c, excused, Item(c), ToSign(buffer'))
    <3>1. CASE Untroubled(c, excused)
      <4>1. HoldsUnits(c, Item(c), Size[Item(c)], buffer')
        BY <1>2, <2>1, <2>2, <3>1
      <4>2. buffer' = Uploaded(Item(c), Size[Item(c)])
        BY <4>1 DEF HoldsUnits, AccountInFront
      <4> QED
        BY <1>2, <4>2, UploadedIsSigned DEF SignatureOver
    <3>2. CASE ~Untroubled(c, excused)
      BY <3>2 DEF SignatureOver
    <3> QED
      BY <3>1, <3>2
  <2> QED
    BY <1>3, <2>1, <2>2, <2>3 DEF SignGoal
<1> QED
  BY <1>4, <1>6, <1>7

-----------------------------------------------------------------------------
(* The steps of the composition.                                             *)

\* Of the other calls that are open, none is untroubled by this one's command.
LEMMA OthersTroubled ==
    ASSUME SignatureInv, NEW c \in Calls, Exchange(c), NEW d \in Calls, d # c, Active(d)
    PROVE  ~Untroubled(d, excused')
<1>1. d \in excused' /\ Active(c)
  BY DEF Exchange
<1>2. ~FirstChunksArrive
  BY <1>1 DEF SignatureInv, OneOpen, FirstChunksArrive
<1> QED
  BY <1>1, <1>2 DEF Untroubled

\* A command of a call that signs.
LEMMA SignExchange ==
    ASSUME SignatureInv, NEW c \in Calls, call[c].stage = "signing", Exchange(c)
    PROVE  /\ OpenUpload' /\ UploadOfCall'
           /\ ReviewOfItem'
           /\ AnswerForItem'
<1> DEFINE a == NextApdu(c)
           m == Item(c)
           k == call[c].chunk
<1>1. /\ Inv /\ CallOK(c, call[c]) /\ OpenUpload
      /\ buffer \in Seq(Units) /\ tx_initialized \in BOOLEAN
      /\ screen.kind = "none" /\ pending = {} /\ pending' = {c} /\ call' = call
      /\ excused \subseteq excused' /\ handleApdu(a)
  BY DEF SignatureInv, ClientInv, CallsTyped, Exchange, handleApdu, Inv, TypeOK
<1>2. /\ k \in 1..Size[m] /\ Size[m] \in Nat \ {0}
      /\ Tag(m) = IF Request[c].kind = "signData" THEN <<>> ELSE <<TXTag>>
      /\ a.ins = IF Request[c].kind = "signData" THEN "INS_ARBITRARY_SIGN" ELSE "INS_SIGN_MSGPACK"
  BY <1>1, TagOfItem, ChunkOfItem
<1>3. /\ Item(c)' = m /\ numOfTxns(c)' = numOfTxns(c) /\ UnitsSent(c)' = k
      /\ call'[c] = call[c]
  BY <1>1 DEF Item, numOfTxns, UnitsSent
<1>4. /\ Untroubled(c, excused') => Untroubled(c, excused)
      /\ \A bytes : SignatureOver(c, excused, m, bytes) => SignatureOver(c, excused', m, bytes)
  BY <1>1, OverStays
\* What an untroubled call has in the buffer after its chunk.
<1> DEFINE Kept == Untroubled(c, excused') /\ tx_initialized' =>
                     GroupCountRefused(numOfTxns(c)) \/ HoldsUnits(c, m, k, buffer')
<1>5. ASSUME process_chunk(a, Tag(m))
      PROVE  /\ Kept /\ OpenUpload'
             /\ Untroubled(c, excused) /\ ChunkStatus(a, Tag(m)) = "complete"
                  => HoldsUnits(c, m, k, buffer')
  <2>1. OpenUpload'
    BY <1>5, UploadEndsWithChunk
  <2>2. ASSUME Untroubled(c, excused), tx_initialized' \/ ChunkStatus(a, Tag(m)) = "complete"
        PROVE  \/ GroupCountRefused(numOfTxns(c)) /\ tx_initialized'
               \/ HoldsUnits(c, m, k, buffer')
    <3>1. k > 1 /\ tx_initialized =>
            GroupCountRefused(numOfTxns(c)) \/ HoldsUnits(c, m, k - 1, buffer)
      <4>1. UnitsSent(c) = k - 1
        BY <1>1 DEF UnitsSent
      <4> QED
        BY <1>2, <2>2, <4>1 DEF SignatureInv, UploadOfCall
    <3> QED
      BY <1>1, <1>5, <2>2, <3>1, UploadAfterChunk
  <2>3. ChunkStatus(a, Tag(m)) = "complete" => ~tx_initialized'
    <3>1. a \in Framed /\ Tag(m) \in {<<>>, <<TXTag>>}
          /\ a.ins \in {"INS_SIGN_MSGPACK", "INS_ARBITRARY_SIGN"}
      BY <1>1, <1>2, NextApduFramed
    <3> HIDE DEF a, m
    <3> QED
      BY <1>1, <1>5, <3>1, ChunkInSync
  <2>4. Kept
    BY <1>4, <2>2
  <2> QED
    BY <2>1, <2>2, <2>3, <2>4
\* The cases.
<1>6. Kept /\ OpenUpload' /\ SignGoal(c)
  <2>1. CASE handle_sign_msgpack(a)
    <3>1. Request[c].kind # "signData" /\ process_chunk(a, Tag(m))
      BY <1>2, <2>1 DEF handle_sign_msgpack, StoreTxChunk, RejectTx, SignInBatch, ReviewTx
    <3> QED
      BY <1>1, <1>5, <2>1, <3>1, TxAnswered
  <2>2. CASE handle_arbitrary_sign(a)
    <3>1. Request[c].kind = "signData" /\ process_chunk(a, Tag(m))
      BY <1>2, <2>2 DEF handle_arbitrary_sign, StoreMessageChunk, ReviewMessage
    <3> QED
      BY <1>1, <1>5, <2>2, <3>1, MessageAnswered
  <2>3. CASE RefuseLocked(a)
    <3>1. /\ "pin" \in Disruptions /\ reply' = Status("LOCKED")
          /\ UNCHANGED <<tx_initialized, sent, screen>>
      BY <2>3 DEF RefuseLocked
    <3>2. reply'.sw = "LOCKED" /\ reply'.signatures = {}
      BY <3>1 DEF Status, Answer
    <3>3. ~Untroubled(c, excused')
      BY <3>1, <3>2 DEF Exchange, Untroubled, FirstChunksArrive
    <3>4. OpenUpload'
      BY <1>1, <3>1 DEF OpenUpload, LastUnit
    <3>5. SignGoal(c)
      BY <1>1, <3>1, <3>2 DEF SignGoal
    <3> QED
      BY <3>3, <3>4, <3>5
  <2>4. ~handle_get_public_key(a) /\ ~handle_other(a)
    BY <1>2 DEF handle_get_public_key, handle_other
  <2> QED
    BY <1>1, <2>1, <2>2, <2>3, <2>4 DEF handleApdu
<1>7. UploadOfCall'
  <2>1. ASSUME NEW d \in Calls, Untroubled(d, excused'), call[d].stage = "signing" PROVE d = c
    BY <2>1, OthersTroubled DEF Active
  <2>2. ASSUME Untroubled(c, excused'), tx_initialized'
        PROVE  GroupCountRefused(numOfTxns(c))' \/ HoldsUnits(c, Item(c), UnitsSent(c), buffer)'
    <3>1. GroupCountRefused(numOfTxns(c)) \/ HoldsUnits(c, m, k, buffer')
      BY <1>6, <2>2
    <3>2. GroupCountRefused(numOfTxns(c))' = GroupCountRefused(numOfTxns(c))
      BY <1>3 DEF GroupCountRefused
    <3>3. HoldsUnits(c, Item(c), UnitsSent(c), buffer)' = HoldsUnits(c, m, k, buffer')
      BY <1>3, Zenon DEF HoldsUnits, Uploaded, Tag, AccountInFront
    <3> QED
      BY <3>1, <3>2, <3>3
  <2> QED
    BY <1>1, <2>1, <2>2, Zenon DEF UploadOfCall, Untroubled
<1>8. ReviewOfItem'
  <2> SUFFICES ASSUME screen'.kind # "none"
               PROVE  /\ call'[c].stage = "signing"
                      /\ call'[c].chunk = Size[Item(c)']
                      /\ IF Request[c].kind = "signData"
                           THEN screen'.kind = "message" /\ SignatureOver(c, excused', Item(c)', ToSign(buffer'))
                           ELSE screen'.kind \in {"transaction", "summary"}
                                /\ SignatureOver(c, excused', Item(c)', buffer')
    BY <1>1, Zenon DEF ReviewOfItem, SignatureOver, Untroubled, ToSign, SignedBytes, Encoding, EndsMixture
  <2> QED
    BY <1>3, <1>4, <1>6 DEF SignGoal
<1>9. AnswerForItem'
  <2> SUFFICES ASSUME reply'.sw # "none"
               PROVE  /\ \A s \in reply'.signatures : SignatureOver(c, excused', Item(c)', s.message)
                      /\ reply'.sw = "OK" /\ call'[c].chunk = Size[Item(c)'] => reply'.signatures # {}
    BY <1>1, Zenon DEF AnswerForItem, SignatureOver, Untroubled, SignedBytes, Encoding, EndsMixture
  <2> QED
    BY <1>3, <1>4, <1>6 DEF SignGoal
<1> QED
  BY <1>6, <1>7, <1>8, <1>9

\* The question for a public key touches neither upload nor screen.
LEMMA PubkeyExchange ==
    ASSUME SignatureInv, NEW c \in Calls, call[c].stage = "pubkey", Exchange(c)
    PROVE  /\ OpenUpload' /\ UploadOfCall'
           /\ ReviewOfItem'
           /\ AnswerForItem'
           /\ screen'.kind = "none"
<1>1. /\ OpenUpload /\ screen.kind = "none" /\ pending' = {c} /\ call' = call
      /\ handleApdu(getPubkey(c))
  BY DEF SignatureInv, Exchange, handleApdu, NextApdu
<1>2. getPubkey(c).ins = "INS_GET_PUBLIC_KEY" /\ getPubkey(c).p1 = 0
  BY DEF getPubkey
<1>3. handle_get_public_key(getPubkey(c)) \/ RefuseLocked(getPubkey(c))
  BY <1>1, <1>2 DEF handleApdu, handle_sign_msgpack, handle_arbitrary_sign, handle_other
<1>4. UNCHANGED <<tx_initialized, sent, screen>>
  BY <1>2, <1>3 DEF handle_get_public_key, RefuseLocked
<1>5. ASSUME NEW d \in Calls, call[d].stage = "signing" PROVE ~Untroubled(d, excused')
  BY <1>5, OthersTroubled DEF Active
<1>6. UploadOfCall'
  BY <1>1, <1>5, Zenon DEF UploadOfCall, Untroubled
<1> QED
  BY <1>1, <1>4, <1>6 DEF OpenUpload, LastUnit, ReviewOfItem, AnswerForItem

\* The user's answer to a review is about the item of the call that waits for it.
LEMMA UserAnswers ==
    ASSUME SignatureInv, excused \subseteq excused',
           UserApproves \/ UserRejects \/ DeviceRestarts \/ UserTogglesBlindsign
    PROVE  /\ OpenUpload' /\ UploadOfCall'
           /\ ReviewOfItem'
           /\ AnswerForItem'
<1>1. /\ hdPath \in Keys /\ buffer \in Seq(Units) /\ OpenUpload
      /\ call' = call /\ pending' = pending /\ pending \subseteq Calls
  BY DEF SignatureInv, ClientInv, CallsTyped, Inv, TypeOK, UserApproves, UserRejects, DeviceRestarts,
         UserTogglesBlindsign
<1>2. \A sw : Status(sw).sw = sw /\ Status(sw).signatures = {}
  BY DEF Status, Answer
<1>3. NoScreen.kind = "none"
  BY NoScreenType
<1>4. /\ UNCHANGED <<tx_initialized, sent, buffer>> \/ tx_initialized' = FALSE
      /\ ~UserTogglesBlindsign => screen' = NoScreen
      /\ UserTogglesBlindsign => UNCHANGED <<screen, reply, buffer>>
  BY DEF UserApproves, Approve, UserRejects, app_reject, DeviceRestarts, Restart,
         UserTogglesBlindsign, ToggleBlindsign
<1>5. OpenUpload'
  BY <1>1, <1>4 DEF OpenUpload, LastUnit
<1>6. /\ \A c : Untroubled(c, excused') => Untroubled(c, excused)
      /\ \A c, m, bytes : SignatureOver(c, excused, m, bytes) => SignatureOver(c, excused', m, bytes)
  BY OverStays
<1>7. \A c : /\ Item(c)' = Item(c) /\ call'[c] = call[c]
             /\ UnitsSent(c)' = UnitsSent(c) /\ numOfTxns(c)' = numOfTxns(c)
  BY <1>1 DEF Item, UnitsSent, numOfTxns
<1>8. UploadOfCall'
  <2> SUFFICES ASSUME NEW c \in Calls, Untroubled(c, excused'), call[c].stage = "signing", tx_initialized',
                      UnitsSent(c) # 0
               PROVE  GroupCountRefused(numOfTxns(c)) \/ HoldsUnits(c, Item(c), UnitsSent(c), buffer')
    BY <1>1, <1>7, Zenon DEF UploadOfCall, Untroubled, HoldsUnits, AccountInFront, Uploaded, Tag, GroupCountRefused
  <2>1. tx_initialized /\ buffer' = buffer
    BY <1>4
  <2>2. GroupCountRefused(numOfTxns(c)) \/ HoldsUnits(c, Item(c), UnitsSent(c), buffer)
    BY <1>6, <2>1 DEF SignatureInv, UploadOfCall
  <2> QED
    BY <2>1, <2>2
<1>9. ReviewOfItem'
  <2>1. CASE ~UserTogglesBlindsign
    BY <1>3, <1>4, <2>1 DEF ReviewOfItem
  <2>2. CASE UserTogglesBlindsign
    <3> SUFFICES ASSUME NEW c \in pending, screen.kind # "none"
                 PROVE  /\ call[c].stage = "signing"
                        /\ call[c].chunk = Size[Item(c)]
                        /\ IF Request[c].kind = "signData"
                             THEN screen.kind = "message" /\ SignatureOver(c, excused', Item(c), ToSign(buffer))
                             ELSE screen.kind \in {"transaction", "summary"}
                                  /\ SignatureOver(c, excused', Item(c), buffer)
      BY <1>1, <1>4, <1>7, <2>2, Zenon DEF ReviewOfItem, SignatureOver, Untroubled, ToSign, SignedBytes, Encoding, EndsMixture
    <3> QED
      BY <1>6 DEF SignatureInv, ReviewOfItem
  <2> QED
    BY <2>1, <2>2
<1>10. AnswerForItem'
  <2> SUFFICES ASSUME NEW c \in pending, call[c].stage = "signing", reply'.sw # "none"
               PROVE  /\ \A s \in reply'.signatures : SignatureOver(c, excused', Item(c), s.message)
                      /\ reply'.sw = "OK" /\ call[c].chunk = Size[Item(c)] => reply'.signatures # {}
    BY <1>1, <1>7, Zenon DEF AnswerForItem, SignatureOver, Untroubled, SignedBytes, Encoding, EndsMixture
  <2>1. CASE UserApproves
    <3>1. screen.kind # "none"
          /\ reply' = CASE screen.kind = "address" -> Answer("OK", screen.key, {})
                        [] screen.kind = "message" -> app_sign_arbitrary(hdPath, buffer)
                        [] OTHER                   -> app_sign(hdPath, buffer)
      BY <2>1 DEF UserApproves, Approve
    <3>2. IF Request[c].kind = "signData"
             THEN screen.kind = "message" /\ SignatureOver(c, excused, Item(c), ToSign(buffer))
             ELSE screen.kind \in {"transaction", "summary"} /\ SignatureOver(c, excused, Item(c), buffer)
      BY <3>1 DEF SignatureInv, ReviewOfItem
    <3>3. CASE Request[c].kind = "signData"
      <4>1. reply' = Signed(hdPath, ToSign(buffer))
        BY <3>1, <3>2, <3>3 DEF app_sign_arbitrary
      <4>2. ToSign(buffer) \in Seq(Units)
        BY <1>1, ToSignType
      <4> QED
        BY <1>1, <1>6, <3>2, <3>3, <4>1, <4>2, SignedType, SignedOrRefused
    <3>4. CASE Request[c].kind # "signData"
      <4>1. reply' = Signed(hdPath, buffer)
        BY <3>1, <3>2, <3>4 DEF app_sign
      <4> QED
        BY <1>1, <1>6, <3>2, <3>4, <4>1, SignedType, SignedOrRefused
    <3> QED
      BY <3>3, <3>4
  <2>2. CASE UserRejects \/ DeviceRestarts
    <3>1. reply' = Status("COMMAND_NOT_ALLOWED") \/ reply' = Status("DISCONNECTED")
      BY <2>2 DEF UserRejects, app_reject, DeviceRestarts, Restart
    <3>2. reply'.signatures = {} /\ reply'.sw # "OK"
      BY <1>2, <3>1
    <3> QED
      BY <3>2
  <2>3. CASE UserTogglesBlindsign
    BY <1>4, <1>6, <2>3 DEF SignatureInv, AnswerForItem
  <2> QED
    BY <2>1, <2>2, <2>3
<1> QED
  BY <1>5, <1>8, <1>9, <1>10

\* A call that begins to sign has nothing yet, and owes nothing yet.
LEMMA SigningOwesNothing ==
    ASSUME NEW c \in Calls, NEW ex, CallOK(c, call[c]), call[c].stage \in {"idle", "pubkey"},
           SignaturesOK(c, ex, call[c]), NEW S \in SUBSET DOMAIN Request[c].items, S # {}
    PROVE  SignaturesOK(c, ex, Signing(c, S))
<1> DEFINE n == Signing(c, S)
<1>1. n.stage = "signing" /\ n.item = Min(S) /\ n.toSign = S /\ n.results = call[c].results
  BY SigningType
<1>2. Min(S) \in Nat /\ \A y \in S : Min(S) <= y
  BY FirstOfRequest
<1>3. S \subseteq Nat
  BY RequestType
<1> HIDE DEF n
<1>4. \A j \in S : ~(j < n.item) /\ n.stage # "done"
  BY <1>1, <1>2, <1>3
<1>5. SignaturesOK(c, ex, n)
  BY <1>1, <1>4 DEF SignaturesOK
<1> QED
  BY <1>5 DEF n

\* An item whose signatures are over it leaves none behind without.
LEMMA AfterItemSignatures ==
    ASSUME NEW c \in Calls, NEW ex, CallOK(c, call[c]), call[c].stage = "signing",
           SignaturesOK(c, ex, call[c]), NEW sigs \in SUBSET Signature,
           sigs # {}, \A s \in sigs : SignatureOver(c, ex, Item(c), s.message)
    PROVE  SignaturesOK(c, ex, AfterItem(c, sigs))
<1> DEFINE n == AfterItem(c, sigs)
           i == call[c].item
<1>1. /\ i \in DOMAIN Request[c].items
      /\ call[c].toSign \in SUBSET DOMAIN Request[c].items
      /\ call[c].results \in [DOMAIN Request[c].items -> SUBSET Signature]
  BY DEF CallOK, CallType
<1>2. DOMAIN Request[c].items \subseteq Nat
  BY RequestType
<1>3. /\ n.toSign = call[c].toSign /\ n.results = [call[c].results EXCEPT ![i] = sigs]
      /\ Later(c) = {} => n.item = i /\ n.stage = "done"
      /\ Later(c) # {} => n.item = Min(Later(c)) /\ n.stage = call[c].stage
  BY AfterItemType
<1>4. Later(c) # {} => Min(Later(c)) \in Nat /\ \A y \in Later(c) : Min(Later(c)) <= y
  <2>1. Later(c) \in SUBSET DOMAIN Request[c].items
    BY <1>1 DEF Later
  <2> QED
    BY <2>1, FirstOfRequest
<1>5. /\ n.results[i] = sigs
      /\ \A j \in DOMAIN Request[c].items : j # i => n.results[j] = call[c].results[j]
  BY <1>1, <1>3
<1> HIDE DEF n
<1>6. ASSUME NEW j \in DOMAIN Request[c].items, j \in n.toSign, j < n.item \/ n.stage = "done"
      PROVE  n.results[j] # {}
  <2>1. j \in Nat /\ i \in Nat /\ j \in call[c].toSign
    BY <1>1, <1>2, <1>3, <1>6
  <2>2. ~(j > i)
    <3>1. CASE Later(c) = {}
      BY <2>1, <3>1 DEF Later
    <3>2. CASE Later(c) # {}
      <4>1. j < Min(Later(c))
        BY <1>3, <1>6, <3>2
      <4>2. j \notin Later(c)
        BY <1>4, <2>1, <3>2, <4>1
      <4> QED
        BY <2>1, <4>2 DEF Later
    <3> QED
      BY <3>1, <3>2
  <2>3. CASE j = i
    BY <1>5, <2>3
  <2>4. CASE j < i
    BY <1>5, <2>1, <2>4 DEF SignaturesOK
  <2> QED
    BY <2>1, <2>2, <2>3, <2>4
<1>7. ASSUME NEW j \in DOMAIN Request[c].items, NEW s \in n.results[j]
      PROVE  SignatureOver(c, ex, Request[c].items[j], s.message)
  BY <1>5, <1>7 DEF SignaturesOK, Item
<1>8. SignaturesOK(c, ex, n)
  BY <1>6, <1>7 DEF SignaturesOK
<1> QED
  BY <1>8 DEF n

\* What a call makes of an answer for its item keeps its signatures right.  It goes
\* on with the next chunk, begins with a first one, or has ended.
LEMMA AfterAnswerSignatures ==
    ASSUME NEW c \in Calls, NEW ex, CallOK(c, call[c]), SignaturesOK(c, ex, call[c]), Active(c),
           NEW answer, answer.signatures \in SUBSET Signature,
           call[c].stage = "signing" =>
             /\ \A s \in answer.signatures : SignatureOver(c, ex, Item(c), s.message)
             /\ answer.sw = "OK" /\ call[c].chunk = Size[Item(c)] => answer.signatures # {}
    PROVE  /\ SignaturesOK(c, ex, AfterAnswer(c, answer))
           /\ AfterAnswer(c, answer).stage = "signing" =>
                \/ AfterAnswer(c, answer).chunk = 1
                \/ /\ call[c].stage = "signing"
                   /\ AfterAnswer(c, answer).chunk = call[c].chunk + 1
                   /\ AfterAnswer(c, answer).item = call[c].item
                   /\ AfterAnswer(c, answer).toSign = call[c].toSign
<1>0. SignaturesOK(c, ex, Failed(c)) /\ Failed(c).stage = "failed"
  BY FailedType DEF SignaturesOK
<1>1. CASE call[c].stage = "pubkey"
  <2>1. AfterAnswer(c, answer) = AfterPubkey(c, answer.sw, answer.key)
    BY <1>1 DEF AfterAnswer
  <2>2. CASE AfterAnswer(c, answer) = Failed(c)
    BY <1>0, <2>2
  <2>3. ASSUME NEW S \in SUBSET DOMAIN Request[c].items, S # {},
               AfterAnswer(c, answer) = Signing(c, S)
        PROVE  SignaturesOK(c, ex, AfterAnswer(c, answer)) /\ AfterAnswer(c, answer).chunk = 1
    BY <1>1, <2>3, SigningOwesNothing, SigningType
  <2> QED
    BY <2>1, <2>2, <2>3, AfterPubkeyCases
<1>2. CASE call[c].stage = "signing"
  <2>1. AfterAnswer(c, answer) = AfterChunk(c, answer.sw, answer.signatures)
    BY <1>2 DEF AfterAnswer
  <2>2. CASE answer.sw # "OK" /\ ~AnswerIgnored(c)
    BY <1>0, <2>1, <2>2 DEF AfterChunk
  <2>3. CASE ~(answer.sw # "OK" /\ ~AnswerIgnored(c)) /\ call[c].chunk < Size[Item(c)]
    <3> DEFINE n == [call[c] EXCEPT !.chunk = @ + 1]
    <3>1. AfterAnswer(c, answer) = n
      BY <2>1, <2>3 DEF AfterChunk
    <3>2. call[c] \in CallType(c)
      BY DEF CallOK
    <3>3. /\ n.results = call[c].results /\ n.toSign = call[c].toSign
          /\ n.stage = call[c].stage /\ n.item = call[c].item /\ n.chunk = call[c].chunk + 1
      BY <3>2 DEF CallType
    <3> HIDE DEF n
    <3> QED
      BY <1>2, <3>1, <3>3 DEF SignaturesOK
  <2>4. CASE ~(answer.sw # "OK" /\ ~AnswerIgnored(c)) /\ ~(call[c].chunk < Size[Item(c)])
    <3>1. call[c].chunk \in 1..Size[Item(c)] /\ Size[Item(c)] \in Nat
      BY ItemSize DEF CallOK, CallType, Item
    <3>2. call[c].chunk = Size[Item(c)] /\ ~AnswerIgnored(c)
      BY <2>4, <3>1 DEF AnswerIgnored
    <3>3. AfterAnswer(c, answer) = AfterItem(c, answer.signatures)
      BY <2>1, <2>4 DEF AfterChunk
    <3>4. AfterItem(c, answer.signatures).chunk = 1
      BY AfterItemType
    <3> QED
      BY <1>2, <2>4, <3>2, <3>3, <3>4, AfterItemSignatures
  <2> QED
    BY <2>2, <2>3, <2>4
<1> QED
  BY <1>1, <1>2 DEF Active

\* A step that moves one call, which then does not wait, and leaves the device alone.
LEMMA CallMoves ==
    ASSUME SignatureInv, UNCHANGED vars, NEW c \in Calls, NEW r,
           CallOK(c, r), SignaturesOK(c, excused, r), call' = [call EXCEPT ![c] = r],
           excused \subseteq excused', pending' = pending \ {c},
           r.stage \in {"pubkey", "signing"} =>
             Active(c) \/ (MaxConcurrent <= 1 => \A d \in Calls : ~Active(d)),
           Untroubled(c, excused') /\ r.stage = "signing" /\ r.chunk # 1 =>
             /\ c \in pending /\ call[c].stage = "signing"
             /\ r.chunk = call[c].chunk + 1
             /\ r.item = call[c].item /\ r.toSign = call[c].toSign
    PROVE  /\ MaxConcurrent <= 1 => OneOpen'
           /\ OpenUpload' /\ UploadOfCall'
           /\ ReviewOfItem'
           /\ AnswerForItem'
           /\ \A d \in Calls : SignaturesOK(d, excused', call'[d])
<1>1. /\ call = [d \in Calls |-> call[d]] /\ \A d \in Calls : CallOK(d, call[d])
      /\ \A d \in Calls : SignaturesOK(d, excused, call[d])
      /\ pending \subseteq Calls
  BY DEF SignatureInv, ClientInv, CallsTyped
<1>2. call'[c] = r /\ \A d \in Calls : d # c => call'[d] = call[d]
  BY <1>1
<1>3. /\ \A d : Untroubled(d, excused') => Untroubled(d, excused)
      /\ \A d, m, bytes : SignatureOver(d, excused, m, bytes) => SignatureOver(d, excused', m, bytes)
      /\ \A d, x : SignaturesOK(d, excused, x) => SignaturesOK(d, excused', x)
  BY OverStays
<1>4. \A d \in Calls : SignaturesOK(d, excused', call'[d])
  BY <1>1, <1>2, <1>3
<1>5. \A d \in pending' : d \in pending /\ call'[d] = call[d] /\ Item(d)' = Item(d)
  BY <1>1, <1>2 DEF Item
<1>6. UNCHANGED <<tx_initialized, sent, buffer, screen, reply>>
  BY DEF vars
<1>7. ReviewOfItem'
  <2> SUFFICES ASSUME NEW d \in pending', screen.kind # "none"
               PROVE  /\ call[d].stage = "signing"
                      /\ call[d].chunk = Size[Item(d)]
                      /\ IF Request[d].kind = "signData"
                           THEN screen.kind = "message" /\ SignatureOver(d, excused', Item(d), ToSign(buffer))
                           ELSE screen.kind \in {"transaction", "summary"}
                                /\ SignatureOver(d, excused', Item(d), buffer)
    BY <1>5, <1>6, Zenon DEF ReviewOfItem, SignatureOver, Untroubled, ToSign, SignedBytes, Encoding, EndsMixture
  <2> QED
    BY <1>3, <1>5 DEF SignatureInv, ReviewOfItem
<1>8. AnswerForItem'
  <2> SUFFICES ASSUME NEW d \in pending', call'[d].stage = "signing", reply'.sw # "none"
               PROVE  /\ \A s \in reply'.signatures : SignatureOver(d, excused', Item(d)', s.message)
                      /\ reply'.sw = "OK" /\ call'[d].chunk = Size[Item(d)'] => reply'.signatures # {}
    BY Zenon DEF AnswerForItem, SignatureOver, Untroubled, SignedBytes, Encoding, EndsMixture
  <2>1. d \in pending /\ call'[d] = call[d] /\ Item(d)' = Item(d) /\ reply' = reply
    BY <1>5, <1>6
  <2>2. /\ \A s \in reply.signatures : SignatureOver(d, excused, Item(d), s.message)
        /\ reply.sw = "OK" /\ call[d].chunk = Size[Item(d)] => reply.signatures # {}
    BY <2>1 DEF SignatureInv, AnswerForItem
  <2> QED
    BY <1>3, <2>1, <2>2
<1>9. MaxConcurrent <= 1 => OneOpen'
  BY <1>2 DEF SignatureInv, OneOpen, Active
<1>10. OpenUpload'
  BY <1>6 DEF SignatureInv, OpenUpload, LastUnit
<1>11. UploadOfCall'
  <2> SUFFICES ASSUME NEW d \in Calls, Untroubled(d, excused'), call'[d].stage = "signing", tx_initialized,
                      UnitsSent(d)' # 0
               PROVE  (GroupCountRefused(numOfTxns(d)) \/ HoldsUnits(d, Item(d), UnitsSent(d), buffer))'
    BY <1>6, Zenon DEF UploadOfCall, Untroubled
  <2>1. Untroubled(d, excused)
    BY <1>3
  <2>2. /\ call[d].stage = "signing" /\ UnitsSent(d)' = UnitsSent(d)
        /\ Item(d)' = Item(d) /\ numOfTxns(d)' = numOfTxns(d)
    <3>1. CASE d # c
      BY <1>2, <3>1 DEF UnitsSent, Item, numOfTxns
    <3>2. CASE d = c
      <4>1. c \notin pending' /\ call'[c] = r
        BY <1>2
      <4>2. r.chunk \in Nat
        BY DEF CallOK, CallType
      <4>3. UnitsSent(c)' = r.chunk - 1
        BY <4>1 DEF UnitsSent
      <4>4. /\ c \in pending /\ call[c].stage = "signing"
            /\ r.chunk = call[c].chunk + 1
            /\ r.item = call[c].item /\ r.toSign = call[c].toSign
        BY <3>2, <4>1, <4>2, <4>3
      <4>5. UnitsSent(c) = call[c].chunk /\ call[c].chunk \in Nat
        BY <1>1, <4>4 DEF UnitsSent, CallOK, CallType
      <4> QED
        BY <3>2, <4>1, <4>3, <4>4, <4>5 DEF Item, numOfTxns
    <3> QED
      BY <3>1, <3>2
  <2>3. GroupCountRefused(numOfTxns(d)) \/ HoldsUnits(d, Item(d), UnitsSent(d), buffer)
    BY <2>1, <2>2 DEF SignatureInv, UploadOfCall
  <2> QED
    BY <1>6, <2>2, <2>3 DEF GroupCountRefused, HoldsUnits, AccountInFront, Uploaded, Tag
<1> QED
  BY <1>4, <1>7, <1>8, <1>9, <1>10, <1>11

\* The strengthening is inductive.
LEMMA SignatureNextInv ==
    ASSUME SignatureInv, [ClientNext]_allvars
    PROVE  SignatureInv'
<1>1. /\ ClientInv' /\ TypeOK /\ CallsTyped /\ \A c \in Calls : SignaturesOK(c, excused, call[c])
      /\ excused \subseteq excused'
  BY ClientNextInv, ExcusedGrows DEF SignatureInv, ClientInv, Inv
<1> DEFINE Goal == /\ MaxConcurrent <= 1 => OneOpen'
                   /\ OpenUpload' /\ UploadOfCall'
                   /\ ReviewOfItem'
                   /\ AnswerForItem'
                   /\ \A d \in Calls : SignaturesOK(d, excused', call'[d])
<1> SUFFICES Goal
  BY <1>1, Zenon DEF SignatureInv, SignaturesOK, SignatureOver, Untroubled, SignedBytes, Encoding, EndsMixture
<1>2. call' = call => \A d \in Calls : SignaturesOK(d, excused', call'[d])
  BY <1>1, OverStays
<1>3. call' = call => (MaxConcurrent <= 1 => OneOpen')
  BY DEF SignatureInv, OneOpen, Active
<1>4. \A c \in Calls : CallOK(c, call[c])
  BY <1>1 DEF CallsTyped
<1>5. ASSUME NEW c \in Calls, Start(c) PROVE Goal
  <2> DEFINE r == IF Request[c].asks THEN [call[c] EXCEPT !.stage = "pubkey"]
                                     ELSE Signing(c, DOMAIN Request[c].items)
  <2>1. /\ call' = [call EXCEPT ![c] = r] /\ pending' = pending /\ UNCHANGED vars
        /\ call[c].stage = "idle"
    BY <1>1, <1>5 DEF Start, CallsTyped
  <2>2. c \notin pending
    BY <1>1, <2>1 DEF CallsTyped, Active
  <2>3. CallOK(c, r) /\ SignaturesOK(c, excused, r) /\ r.chunk = 1
    <3>1. CASE Request[c].asks
      <4>1. r = [call[c] EXCEPT !.stage = "pubkey"]
        BY <3>1
      <4>2. call[c] \in CallType(c) /\ call[c].chunk = 1
        BY <1>4, <2>1 DEF CallOK
      <4>3. /\ r.toSign = call[c].toSign /\ r.item = call[c].item
            /\ r.results = call[c].results /\ r.stage = "pubkey"
            /\ r \in CallType(c) /\ r.chunk = call[c].chunk
        BY <4>1, <4>2 DEF CallType, Stages
      <4> HIDE DEF r
      <4>5. SignaturesOK(c, excused, call[c])
        BY <1>1
      <4>6. SignaturesOK(c, excused, r)
        BY <2>1, <4>3, <4>5 DEF SignaturesOK
      <4> QED
        BY <1>4, <2>1, <4>2, <4>3, <4>6 DEF CallOK
    <3>2. CASE ~Request[c].asks
      <4>1. 1 \in DOMAIN Request[c].items
        BY RequestType
      <4>2. DOMAIN Request[c].items # {} /\ r = Signing(c, DOMAIN Request[c].items)
        BY <3>2, <4>1
      <4> DEFINE S == DOMAIN Request[c].items
      <4>3. CallOK(c, call[c]) /\ SignaturesOK(c, excused, call[c])
        BY <1>1, <1>4
      <4>4. S \in SUBSET DOMAIN Request[c].items /\ S # {} /\ r = Signing(c, S)
        BY <4>2
      <4> HIDE DEF r, S
      <4>5. CallOK(c, Signing(c, S)) /\ Signing(c, S).chunk = 1
        BY <2>1, <4>3, <4>4, SigningType
      <4>6. SignaturesOK(c, excused, Signing(c, S))
        BY <2>1, <4>3, <4>4, SigningOwesNothing
      <4> QED
        BY <4>4, <4>5, <4>6
    <3> QED
      BY <3>1, <3>2
  <2>4. MaxConcurrent <= 1 => \A d \in Calls : ~Active(d)
    BY <1>5, StartsAlone DEF SignatureInv
  <2>5. pending' = pending \ {c}
    BY <2>1, <2>2
  <2> HIDE DEF r
  <2> QED
    BY <1>1, <2>1, <2>3, <2>4, <2>5, CallMoves
<1>6. ASSUME NEW c \in Calls, Exchange(c) PROVE Goal
  <2>1. call' = call /\ (call[c].stage = "pubkey" \/ call[c].stage = "signing")
    BY <1>6 DEF Exchange, Active
  <2> QED
    BY <1>2, <1>3, <1>6, <2>1, SignExchange, PubkeyExchange
<1>7. ASSUME NEW c \in Calls, Resume(c) PROVE Goal
  <2>1. /\ call' = [call EXCEPT ![c] = AfterAnswer(c, reply)]
        /\ pending = {c} /\ pending' = {} /\ UNCHANGED vars /\ reply.sw # "none"
    BY <1>7 DEF Resume
  <2>2. Active(c) /\ reply.signatures \in SUBSET Signature
    BY <1>1, <2>1, ReplySignatures DEF CallsTyped
  <2>3. call[c].stage = "signing" =>
          /\ \A s \in reply.signatures : SignatureOver(c, excused, Item(c), s.message)
          /\ reply.sw = "OK" /\ call[c].chunk = Size[Item(c)] => reply.signatures # {}
    BY <2>1 DEF SignatureInv, AnswerForItem
  <2> DEFINE r == AfterAnswer(c, reply)
  <2>4. SignaturesOK(c, excused, r) /\ CallOK(c, r)
    BY <1>1, <1>4, <2>2, <2>3, AfterAnswerSignatures, AfterAnswerType
  <2>5. r.stage = "signing" /\ r.chunk # 1 =>
             /\ call[c].stage = "signing" /\ r.chunk = call[c].chunk + 1
             /\ r.item = call[c].item /\ r.toSign = call[c].toSign
    BY <1>1, <1>4, <2>2, <2>3, AfterAnswerSignatures
  <2>6. call' = [call EXCEPT ![c] = r] /\ pending' = pending \ {c} /\ c \in pending
    BY <2>1
  <2> HIDE DEF r
  <2> QED
    BY <1>1, <2>1, <2>2, <2>4, <2>5, <2>6, CallMoves
<1>8. ASSUME NEW c \in Calls, SendFails(c) \/ AnswerLost(c) PROVE Goal
  <2> DEFINE r == AfterAnswer(c, TransportError)
  <2>1. /\ call' = [call EXCEPT ![c] = r]
        /\ pending' = pending \ {c} /\ UNCHANGED vars /\ Active(c)
        /\ "lost" \in Disruptions /\ excused' = excused \union {c}
    BY <1>1, <1>8 DEF SendFails, AnswerLost, CallsTyped, Disrupt
  <2>2. TransportError.signatures = {} /\ TransportError.sw # "OK"
    BY DEF TransportError, Status, Answer
  <2>3. SignaturesOK(c, excused, r) /\ CallOK(c, r)
    BY <1>1, <1>4, <2>1, <2>2, AfterAnswerSignatures, AfterAnswerType
  <2>4. ~Untroubled(c, excused')
    BY <2>1 DEF Untroubled, FirstChunksArrive
  <2> HIDE DEF r
  <2> QED
    BY <1>1, <2>1, <2>3, <2>4, CallMoves
<1>9. ASSUME NEW c \in Calls, Abandon(c) PROVE Goal
  <2> DEFINE r == Failed(c)
  <2>1. /\ call' = [call EXCEPT ![c] = r]
        /\ pending' = pending \ {c} /\ UNCHANGED vars
    BY <1>9 DEF Abandon
  <2>2. SignaturesOK(c, excused, r) /\ CallOK(c, r) /\ r.stage = "failed"
    BY <1>1, <1>4, FailedType DEF SignaturesOK
  <2> HIDE DEF r
  <2> QED
    BY <1>1, <2>1, <2>2, CallMoves
<1>10. ASSUME UserApproves \/ UserRejects \/ DeviceRestarts \/ UserTogglesBlindsign PROVE Goal
  <2>1. call' = call
    BY <1>10 DEF UserApproves, UserRejects, DeviceRestarts, UserTogglesBlindsign
  <2> QED
    BY <1>1, <1>2, <1>3, <1>10, <2>1, UserAnswers
<1>11. ASSUME UNCHANGED allvars PROVE Goal
  <2>1. call' = call /\ pending' = pending /\ excused' = excused
        /\ UNCHANGED <<tx_initialized, sent, buffer, screen, reply>>
    BY <1>11 DEF allvars, vars, cvars
  <2>2. OpenUpload'
    BY <2>1 DEF SignatureInv, OpenUpload, LastUnit
  <2>3. UploadOfCall'
    BY <2>1, Zenon DEF SignatureInv, UploadOfCall, UnitsSent, numOfTxns, Untroubled, HoldsUnits,
       AccountInFront, Uploaded, Tag, GroupCountRefused, Item
  <2>4. ReviewOfItem'
    BY <2>1, Zenon DEF SignatureInv, ReviewOfItem, Item, SignatureOver, Untroubled, ToSign,
       SignedBytes, Encoding, EndsMixture
  <2>5. AnswerForItem'
    <3> SUFFICES ASSUME NEW d \in pending', call'[d].stage = "signing", reply'.sw # "none"
                 PROVE  /\ \A s \in reply'.signatures : SignatureOver(d, excused', Item(d)', s.message)
                        /\ reply'.sw = "OK" /\ call'[d].chunk = Size[Item(d)'] => reply'.signatures # {}
      BY Zenon DEF AnswerForItem, SignatureOver, Untroubled, SignedBytes, Encoding, EndsMixture
    <3>1. Item(d)' = Item(d)
      BY <2>1 DEF Item
    <3> QED
      BY <2>1, <3>1 DEF SignatureInv, AnswerForItem
  <2> QED
    BY <1>2, <1>3, <2>1, <2>2, <2>3, <2>4, <2>5
<1> QED
  BY <1>5, <1>6, <1>7, <1>8, <1>9, <1>10, <1>11 DEF ClientNext

\* It holds at first.
LEMMA SignatureInitInv == ClientInit => SignatureInv
<1> SUFFICES ASSUME ClientInit PROVE SignatureInv
  OBVIOUS
<1>1. ClientInv
  BY ClientInitInv
<1>2. tx_initialized = FALSE /\ screen = NoScreen /\ pending = {}
  BY DEF ClientInit, Init
<1>3. \A c \in Calls : call[c] = NewCall(c)
  BY Zenon DEF ClientInit
<1>4. ASSUME NEW c \in Calls PROVE SignaturesOK(c, excused, call[c]) /\ ~Active(c)
  <2> DEFINE n == NewCall(c)
  <2>1. call[c] = n
    BY <1>3
  <2>2. n.toSign = {} /\ n.results = [i \in DOMAIN Request[c].items |-> {}] /\ n.stage = "idle"
    BY DEF NewCall
  <2> HIDE DEF n
  <2>3. \A j \in DOMAIN Request[c].items : n.results[j] = {}
    BY <2>2
  <2> QED
    BY <2>1, <2>2, <2>3 DEF SignaturesOK, Active
<1> QED
  BY <1>1, <1>2, <1>4 DEF SignatureInv, OneOpen, OpenUpload, UploadOfCall, ReviewOfItem, AnswerForItem

\* A call that nothing has troubled is given signatures of its own items only, each
\* whole; one that something has, also over a mixture that the parser accepts and
\* that ends in its own item's last chunk, and over nothing else.  Every call has a
\* signature for each item it passed, however many calls are open and interleave,
\* whatever is lost or restarted, and though sign ignores the answer to a first
\* chunk (index.ts:290).
THEOREM SignaturesAreOfRequest == ClientSpec => []SignatureOfRequest
<1>1. SignatureInv /\ [ClientNext]_allvars => SignatureInv'
  BY SignatureNextInv
<1> QED
  BY <1>1, SignatureInvSigns, SignatureInitInv, PTL DEF ClientSpec

=============================================================================
