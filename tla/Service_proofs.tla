---------------------------- MODULE Service_proofs ----------------------------
(***************************************************************************)
(* Proof that the client over the device implements SigningService, for    *)
(* calls that run one after another: with blind signing off whatever       *)
(* disturbs them, if the parser accepts no mixture, and whatever loses     *)
(* none of their chunks, if it does; with blind signing on when nothing    *)
(* disturbs them.  Every call gives out all its signatures, over what was  *)
(* asked for and of its account, after the user has consented, or none.    *)
(***************************************************************************)
EXTENDS Alone_proofs, Released_proofs

\* Messages are left to other properties: their review does not show what is signed.
TransactionsOnly == \A c \in Calls : Request[c].kind # "signData"

\* The parser accepts nothing but a whole transaction that is well formed.
MixturesFail == \A r \in Mixtures : r.txn \notin WellFormed

\* Where a transaction is whole the parser finds no other, well formed or not.
CutAreRefused == \A r \in Mixtures : \A t \in Txns : ~HoldsWhole(r.buffer, t)

\* No mixture is accepted, or none comes about and no item is taken for another.
ItemsAreTaken == MixturesFail \/ (FirstChunksArrive /\ CutAreRefused)

\* What the refinement rests on.
ServiceInv == SignatureInv /\ PlanInv

\* Every step keeps it.
LEMMA ServiceNextInv ==
    ASSUME OneAtATime, ServiceInv, [ClientNext]_allvars
    PROVE  ServiceInv'
BY SignatureNextInv, PlanNextInv DEF ServiceInv

\* It holds at first.
LEMMA ServiceInitInv == ClientInit => ServiceInv
BY SignatureInitInv, PlanInitInv DEF ServiceInv

\* Every signature is over the item it was asked for.
SignedAsAsked ==
    \A c \in Calls : \A j \in DOMAIN Request[c].items :
        \A s \in call[c].results[j] : s.message = SignedBytes(Request[c].items[j])

\* A call that has ended well has signed what the user approved, all of it.
ApprovedWhenDone ==
    \A c \in Calls : call[c].stage = "done" => Chosen(c) \subseteq approved

\* The parser accepts no item of a call as another transaction.
ItemsReadAlone ==
    \A c \in Calls : \A i \in DOMAIN Request[c].items :
        ParsedTxns(SignedBytes(Request[c].items[i])) \intersect WellFormed
          \subseteq {Request[c].items[i]}

\* Signatures are exact where no mixture is accepted, or none comes about.
LEMMA ExactSignatures ==
    ASSUME TransactionsOnly, MixturesFail \/ FirstChunksArrive, SignatureInv
    PROVE  SignedAsAsked
<1> SUFFICES ASSUME NEW c \in Calls, NEW j \in DOMAIN Request[c].items,
                    NEW s \in call[c].results[j]
             PROVE  s.message = SignedBytes(Request[c].items[j])
  BY DEF SignedAsAsked
<1>1. SignatureOver(c, excused, Request[c].items[j], s.message)
  BY DEF SignatureInv, SignaturesOK
<1>2. FirstChunksArrive => Untroubled(c, excused)
  BY DEF Untroubled
<1>3. MixturesFail => ~EndsMixture(Request[c].items[j], s.message)
  BY DEF MixturesFail, EndsMixture
<1> QED
  BY <1>1, <1>2, <1>3 DEF SignatureOver, TransactionsOnly

\* An item is read as itself where the parser accepts no mixture, where it takes no
\* whole transaction for another, and where the device can sign it.
LEMMA ItemReadAlone ==
    ASSUME TransactionsOnly,
           MixturesFail \/ CutAreRefused \/ \A c \in Calls : Signable(c)
    PROVE  ItemsReadAlone
<1> SUFFICES ASSUME NEW c \in Calls, NEW i \in DOMAIN Request[c].items,
                    NEW u \in ParsedTxns(SignedBytes(Request[c].items[i])) \intersect WellFormed
             PROVE  u = Request[c].items[i]
  BY DEF ItemsReadAlone
<1> DEFINE t == Request[c].items[i]
           bytes == SignedBytes(t)
<1>1. t \in Txns /\ HoldsWhole(bytes, t)
  <2>1. t \in Txns
    BY RequestType DEF TransactionsOnly
  <2> QED
    BY <2>1, ItemIsWhole
<1>2. u \in Txns /\ u \in WellFormed /\ u \in ParsedTxns(bytes)
  BY NameAssumption
<1>3. t \in ToSet(Request[c].items)
  BY Zenon DEF ToSet
<1> HIDE DEF t, bytes
<1>4. CASE \E r \in Mixtures : r.buffer = bytes /\ r.txn = u
  <2>1. Signable(c) => ParsedTxns(bytes) = {t}
    <3>1. Signable(c) => t \in WellFormed
      BY <1>1, <1>3 DEF Signable, Unsignable, t
    <3> QED
      BY <1>1, <3>1, WholeIsRead
  <2>2. ~MixturesFail /\ ~CutAreRefused
    BY <1>1, <1>2, <1>4 DEF MixturesFail, CutAreRefused
  <2> QED
    BY <1>2, <2>1, <2>2 DEF t
<1>5. CASE HoldsWhole(bytes, u)
  BY <1>1, <1>2, <1>5, WholeIsFound DEF t
<1> QED
  BY <1>2, <1>4, <1>5, Zenon DEF ParsedTxns

\* With blind signing off what a call has signed was approved, item after item.
LEMMA ItemsApproved ==
    ASSUME TransactionsOnly, ItemsReadAlone, ApprovedInv, SignatureInv, SignedAsAsked
    PROVE  ApprovedWhenDone
<1> SUFFICES ASSUME NEW c \in Calls, call[c].stage = "done", NEW i \in call[c].toSign
             PROVE  Request[c].items[i] \in approved
  BY DEF ApprovedWhenDone, Chosen
<1>1. i \in DOMAIN Request[c].items
  BY DEF SignatureInv, ClientInv, CallsTyped, CallOK, CallType
<1>2. PICK s \in call[c].results[i] : TRUE
  BY <1>1 DEF SignatureInv, SignaturesOK
<1>3. Seen(s.message, approved) /\ s.message = SignedBytes(Request[c].items[i])
  BY <1>1, <1>2 DEF ApprovedInv, SeenResults, SignedAsAsked, TransactionsOnly
<1> QED
  BY <1>1, <1>3 DEF Seen, ItemsReadAlone

-----------------------------------------------------------------------------
(* The steps of the client are steps of the service.                         *)

\* What an application sees of a call whose state is r.
OutcomeOf(r) ==
    CASE r.stage = "idle"   -> "idle"
      [] r.stage = "done"   -> "signed"
      [] r.stage = "failed" -> "failed"
      [] OTHER              -> "open"
GivenOf(r) == IF r.stage = "done" THEN UNION ToSet(r.results) ELSE {}
ConsentedTo(c, r) == r.toSign # {} /\ {Request[c].items[i] : i \in r.toSign} \subseteq approved

\* A call that has ended well gives out what it owes: a signature of its account over
\* each of its transactions, and none but those.
Settled ==
    \A c \in Calls : call[c].stage = "done" => UNION ToSet(call[c].results) = OwedBy(c)

\* It does: a result it has not planned it does not have, and the others are right.
LEMMA GivenIsOwed == ServiceInv /\ SignedAsAsked => Settled
<1> SUFFICES ASSUME ServiceInv, SignedAsAsked, NEW c \in Calls, call[c].stage = "done"
             PROVE  UNION ToSet(call[c].results) = OwedBy(c)
  BY DEF Settled
<1> DEFINE Due(i) == [key |-> Request[c].account, message |-> SignedBytes(Request[c].items[i])]
           results == call[c].results
<1>1. /\ results \in [DOMAIN Request[c].items -> SUBSET Signature]
      /\ PlanOK(c, call[c])
  BY DEF ServiceInv, PlanInv, SignatureInv, ClientInv, CallsTyped, CallOK, CallType
<1>2. call[c].toSign = OwnPositions(c) /\ OwnPositions(c) \subseteq DOMAIN Request[c].items
  BY <1>1 DEF PlanOK, OwnPositions
<1>3. ASSUME NEW i \in DOMAIN Request[c].items, NEW s \in results[i]
      PROVE  s = Due(i) /\ i \in OwnPositions(c)
  <2>1. s.key = Request[c].account /\ s.message = SignedBytes(Request[c].items[i])
    BY DEF ServiceInv, PlanInv, KeyInv, KeyOfAccount, SignedAsAsked
  <2>2. s \in Signature
    BY <1>1
  <2>3. s = Due(i)
    BY <2>1, <2>2 DEF Signature
  <2> QED
    BY <1>1, <1>2, <2>3 DEF PlanOK
<1>4. ASSUME NEW i \in OwnPositions(c) PROVE Due(i) \in results[i]
  <2>1. results[i] # {}
    BY <1>2 DEF ServiceInv, SignatureInv, SignaturesOK
  <2> QED
    BY <1>2, <1>3, <2>1
<1>5. OwedBy(c) = {Due(i) : i \in OwnPositions(c)}
  BY Zenon DEF OwedBy, Own, OwnPositions, ToSet
<1>6. UNION ToSet(results) = {Due(i) : i \in OwnPositions(c)}
  <2> HIDE DEF Due, results
  <2>1. DOMAIN results = DOMAIN Request[c].items
    BY <1>1
  <2>2. ToSet(results) = {results[i] : i \in DOMAIN Request[c].items}
    BY <2>1 DEF ToSet
  <2> QED
    BY <1>2, <1>3, <1>4, <2>2
<1> QED
  BY <1>5, <1>6

\* A step that moves one call moves what is seen of that call only.
LEMMA OneCallSeen ==
    ASSUME call = [d \in Calls |-> call[d]], NEW c \in Calls, NEW r,
           call' = [call EXCEPT ![c] = r], approved' = approved
    PROVE  /\ Outcome' = [Outcome EXCEPT ![c] = OutcomeOf(r)]
           /\ Given' = [Given EXCEPT ![c] = GivenOf(r)]
           /\ Outcome[c] = OutcomeOf(call[c]) /\ Given[c] = GivenOf(call[c])
           /\ c \in Consented <=> ConsentedTo(c, call[c])
           /\ Consented' = IF ConsentedTo(c, r) THEN Consented \union {c} ELSE Consented \ {c}
<1>1. call'[c] = r /\ \A d \in Calls : d # c => call'[d] = call[d]
  OBVIOUS
<1>2. /\ Outcome = [d \in Calls |-> OutcomeOf(call[d])]
      /\ Outcome' = [d \in Calls |-> OutcomeOf(call'[d])]
  BY DEF Outcome, OutcomeOf
<1>3. /\ Given = [d \in Calls |-> GivenOf(call[d])]
      /\ Given' = [d \in Calls |-> GivenOf(call'[d])]
  BY DEF Given, GivenOf
<1>4. /\ Consented = {d \in Calls : ConsentedTo(d, call[d])}
      /\ Consented' = {d \in Calls : ConsentedTo(d, call'[d])}
  BY DEF Consented, ConsentedTo, Chosen
<1>5. Outcome' = [Outcome EXCEPT ![c] = OutcomeOf(r)] /\ Outcome[c] = OutcomeOf(call[c])
  BY <1>1, <1>2
<1>6. Given' = [Given EXCEPT ![c] = GivenOf(r)] /\ Given[c] = GivenOf(call[c])
  BY <1>1, <1>3
<1> QED
  BY <1>1, <1>4, <1>5, <1>6

\* A call that fails gives nothing out.
LEMMA FailureIsFail ==
    ASSUME call = [d \in Calls |-> call[d]], NEW c \in Calls, NEW r,
           call' = [call EXCEPT ![c] = r], approved' = approved,
           Active(c), r.stage = "failed", r.toSign = call[c].toSign
    PROVE  Service!Fail(c)
<1>1. /\ OutcomeOf(r) = "failed" /\ OutcomeOf(call[c]) = "open"
      /\ GivenOf(r) = {} /\ GivenOf(call[c]) = {}
      /\ ConsentedTo(c, r) <=> ConsentedTo(c, call[c])
  BY DEF OutcomeOf, GivenOf, ConsentedTo, Active
<1>2. Given = [d \in Calls |-> Given[d]]
  BY DEF Given
<1> HIDE DEF OutcomeOf
<1>3. /\ Outcome' = [Outcome EXCEPT ![c] = "failed"] /\ Outcome[c] = "open"
      /\ Given' = [Given EXCEPT ![c] = {}] /\ Given[c] = {}
  BY <1>1, OneCallSeen
<1>4. Given' = Given
  BY <1>2, <1>3
<1>5. Consented' = Consented
  <2>1. /\ c \in Consented <=> ConsentedTo(c, r)
        /\ Consented' = IF ConsentedTo(c, r) THEN Consented \union {c} ELSE Consented \ {c}
    BY <1>1, OneCallSeen
  <2> QED
    BY <2>1
<1> QED
  BY <1>3, <1>4, <1>5 DEF Service!Fail

\* A call that goes on is not seen to move, or is seen to have consent it already
\* had: a transaction can have been approved before.
LEMMA GoingOnIsConsent ==
    ASSUME call = [d \in Calls |-> call[d]], NEW c \in Calls, NEW r,
           call' = [call EXCEPT ![c] = r], approved' = approved,
           Active(c), r.stage \in {"pubkey", "signing"},
           ConsentedTo(c, call[c]) => ConsentedTo(c, r)
    PROVE  \E cs \in SUBSET Calls : Service!Consent(cs)
<1>1. /\ OutcomeOf(r) = "open" /\ OutcomeOf(call[c]) = "open"
      /\ GivenOf(r) = {} /\ GivenOf(call[c]) = {}
  BY DEF OutcomeOf, GivenOf, Active
<1>2. Given = [d \in Calls |-> Given[d]] /\ Outcome = [d \in Calls |-> Outcome[d]]
  BY DEF Given, Outcome
<1>3. /\ Outcome' = [Outcome EXCEPT ![c] = "open"] /\ Outcome[c] = "open"
      /\ Given' = [Given EXCEPT ![c] = {}] /\ Given[c] = {}
      /\ Consented' = Consented \/ Consented' = Consented \union {c}
  BY <1>1, OneCallSeen
<1>4. UNCHANGED <<Outcome, Given>>
  BY <1>2, <1>3
<1>5. \E cs \in {{}, {c}} : Consented' = Consented \union cs
  BY <1>3
<1>6. PICK cs \in {{}, {c}} : Consented' = Consented \union cs
  BY <1>5
<1>7. Service!Consent(cs)
  BY <1>3, <1>4, <1>6 DEF Service!Consent
<1> QED
  BY <1>7

\* A call that ends well gives out what it owes, and had consent to it.
LEMMA EndIsRelease ==
    ASSUME ServiceInv, ServiceInv', SignedAsAsked', ApprovedWhenDone', NEW c \in Calls, NEW r,
           call' = [call EXCEPT ![c] = r], approved' = approved,
           Active(c), r.stage = "done", r.toSign = call[c].toSign
    PROVE  Service!Release(c)
<1>1. call = [d \in Calls |-> call[d]]
  BY DEF ServiceInv, SignatureInv, ClientInv, CallsTyped
<1>2. call'[c] = r
  BY <1>1
<1>3. GivenOf(r) = OwedBy(c)
  <2>1. Settled'
    BY GivenIsOwed, PTL
  <2>2. UNION ToSet(call'[c].results) = OwedBy(c)'
    BY <1>2, <2>1 DEF Settled
  <2>3. OwedBy(c)' = OwedBy(c)
    BY DEF OwedBy, Own, SignedBytes, Encoding
  <2> QED
    BY <1>2, <2>2, <2>3 DEF GivenOf
<1>4. ConsentedTo(c, r)
  <2>1. r.toSign # {}
    BY <1>2 DEF ServiceInv, PlanInv, PlanOK
  <2>2. Chosen(c)' \subseteq approved'
    BY <1>2 DEF ApprovedWhenDone
  <2> QED
    BY <1>2, <2>1, <2>2 DEF ConsentedTo, Chosen
<1>5. ConsentedTo(c, call[c])
  BY <1>4 DEF ConsentedTo
<1>6. OutcomeOf(r) = "signed" /\ OutcomeOf(call[c]) = "open"
  BY DEF OutcomeOf, Active
<1>7. /\ Outcome' = [Outcome EXCEPT ![c] = "signed"] /\ Outcome[c] = "open"
      /\ Given' = [Given EXCEPT ![c] = OwedBy(c)]
  BY <1>1, <1>3, <1>6, OneCallSeen
<1>8. c \in Consented /\ Consented' = Consented
  <2>1. /\ c \in Consented
        /\ Consented' = IF ConsentedTo(c, r) THEN Consented \union {c} ELSE Consented \ {c}
    BY <1>1, <1>5, OneCallSeen
  <2> QED
    BY <1>4, <2>1
<1> QED
  BY <1>7, <1>8 DEF Service!Release

\* What a call makes of an answer is a step of the service.
LEMMA AnswerIsServed ==
    ASSUME ServiceInv, ServiceInv', SignedAsAsked', ApprovedWhenDone', NEW c \in Calls, Active(c),
           NEW answer, answer.signatures \in SUBSET Signature,
           call[c].stage = "pubkey" /\ answer.sw = "OK" => answer.key = Request[c].account,
           call' = [call EXCEPT ![c] = AfterAnswer(c, answer)], approved' = approved
    PROVE  Service!Next
<1> DEFINE r == AfterAnswer(c, answer)
<1>1. /\ call = [d \in Calls |-> call[d]]
      /\ CallOK(c, call[c]) /\ PlanOK(c, call[c])
  BY DEF ServiceInv, PlanInv, SignatureInv, ClientInv, CallsTyped
<1>2. /\ \/ r.stage = "failed" /\ r.toSign = call[c].toSign
         \/ r.stage = "signing"
         \/ r.stage = "done" /\ r.toSign = call[c].toSign
      /\ call[c].stage = "signing" => r.toSign = call[c].toSign
  BY <1>1, AfterAnswerPlan
<1>3. call' = [call EXCEPT ![c] = r]
  OBVIOUS
<1> HIDE DEF r
<1>4. CASE r.stage = "failed" /\ r.toSign = call[c].toSign
  <2>1. Service!Fail(c)
    BY <1>1, <1>3, <1>4, FailureIsFail
  <2> QED
    BY <2>1 DEF Service!Next
<1>5. CASE r.stage = "signing"
  <2>1. ConsentedTo(c, call[c]) => ConsentedTo(c, r)
    BY <1>1, <1>2 DEF ConsentedTo, PlanOK, Active
  <2>2. \E cs \in SUBSET Calls : Service!Consent(cs)
    BY <1>1, <1>3, <1>5, <2>1, GoingOnIsConsent
  <2> QED
    BY <2>2 DEF Service!Next
<1>6. CASE r.stage = "done" /\ r.toSign = call[c].toSign
  <2>1. Service!Release(c)
    BY <1>3, <1>6, EndIsRelease
  <2> QED
    BY <2>1 DEF Service!Next
<1> QED
  BY <1>2, <1>4, <1>5, <1>6

\* A call that begins is one the service opens.
LEMMA StartIsOpen ==
    ASSUME OneAtATime, ServiceInv, NEW c \in Calls, Start(c)
    PROVE  Service!Open(c)
<1> DEFINE r == [call[c] EXCEPT !.stage = "pubkey"]
<1>1. call = [d \in Calls |-> call[d]] /\ call[c] \in CallType(c)
  BY DEF ServiceInv, SignatureInv, ClientInv, CallsTyped, CallOK
<1>2. /\ call' = [call EXCEPT ![c] = r] /\ approved' = approved
      /\ call[c].stage = "idle"
  BY <1>1 DEF Start, OneAtATime
<1>3. r.stage = "pubkey" /\ r.toSign = call[c].toSign
  BY <1>1 DEF CallType
<1> HIDE DEF r
<1>4. call[c].toSign = {}
  BY <1>2 DEF ServiceInv, PlanInv, PlanOK
<1>5. /\ OutcomeOf(r) = "open" /\ OutcomeOf(call[c]) = "idle"
      /\ GivenOf(r) = {} /\ GivenOf(call[c]) = {}
      /\ ~ConsentedTo(c, r) /\ ~ConsentedTo(c, call[c])
  BY <1>2, <1>3, <1>4 DEF OutcomeOf, GivenOf, ConsentedTo
<1>6. Given = [d \in Calls |-> Given[d]]
  BY DEF Given
<1>7. /\ Outcome' = [Outcome EXCEPT ![c] = "open"] /\ Outcome[c] = "idle"
      /\ Given' = [Given EXCEPT ![c] = {}] /\ Given[c] = {}
  BY <1>1, <1>2, <1>5, OneCallSeen
<1>8. Given' = Given
  BY <1>6, <1>7
<1>9. Consented' = Consented
  <2>1. /\ ~(c \in Consented)
        /\ Consented' = IF ConsentedTo(c, r) THEN Consented \union {c} ELSE Consented \ {c}
    BY <1>1, <1>2, <1>5, OneCallSeen
  <2> QED
    BY <1>5, <2>1
<1> QED
  BY <1>7, <1>8, <1>9 DEF Service!Open

\* An approval is the consent to all calls that had been waiting for it only.
LEMMA ApprovalIsConsent ==
    ASSUME ServiceInv, call' = call, approved \subseteq approved'
    PROVE  \E cs \in SUBSET Calls : Service!Consent(cs)
<1> DEFINE cs == Consented' \ Consented
<1>1. Outcome' = Outcome /\ Given' = Given
  BY DEF Outcome, Given
<1>2. Consented \subseteq Consented'
  BY DEF Consented, Chosen
<1>3. cs \in SUBSET Calls /\ \A c \in cs : call[c].toSign # {}
  BY DEF Consented
<1>4. \A c \in cs : Outcome[c] # "idle"
  <2>1. \A c \in cs : call[c].stage # "idle"
    BY <1>3 DEF ServiceInv, PlanInv, PlanOK
  <2>2. \A c \in Calls : Outcome[c] = OutcomeOf(call[c])
    BY DEF Outcome, OutcomeOf
  <2>3. \A r : r.stage # "idle" => OutcomeOf(r) # "idle"
    BY DEF OutcomeOf
  <2> HIDE DEF OutcomeOf
  <2> QED
    BY <1>3, <2>1, <2>2, <2>3
<1>5. Consented' = Consented \union cs
  BY <1>2
<1> HIDE DEF cs
<1>6. Service!Consent(cs)
  BY <1>1, <1>4, <1>5 DEF Service!Consent
<1> QED
  BY <1>3, <1>6

\* Every step of the client over the device is one of the service, or is not seen.
LEMMA StepsAreServed ==
    ASSUME OneAtATime, ServiceInv, ServiceInv', SignedAsAsked', ApprovedWhenDone', [ClientNext]_allvars
    PROVE  [Service!Next]_(Service!svars)
<1>1. /\ TypeOK /\ call = [d \in Calls |-> call[d]]
      /\ \A c \in Calls : CallOK(c, call[c])
      /\ \A c \in pending : c \in Calls /\ Active(c)
  BY DEF ServiceInv, SignatureInv, ClientInv, CallsTyped, Inv
<1>2. call' = call /\ approved' = approved => UNCHANGED Service!svars
  BY DEF Service!svars, Outcome, Consented, Given, Chosen
<1>3. ASSUME NEW c \in Calls, Start(c) PROVE Service!Next
  BY <1>3, StartIsOpen DEF Service!Next
<1>4. ASSUME NEW c \in Calls, Exchange(c) PROVE UNCHANGED Service!svars
  BY <1>2, <1>4 DEF Exchange
<1>5. ASSUME NEW c \in Calls, Resume(c) PROVE Service!Next
  <2>1. /\ call' = [call EXCEPT ![c] = AfterAnswer(c, reply)]
        /\ c \in pending /\ approved' = approved
    BY <1>5 DEF Resume
  <2>2. call[c].stage = "pubkey" /\ reply.sw = "OK" => reply.key = Request[c].account
    BY <2>1 DEF ServiceInv, PlanInv, KeyOfReply
  <2>3. reply.signatures \in SUBSET Signature /\ Active(c)
    BY <1>1, <2>1, ReplySignatures
  <2> QED
    BY <2>1, <2>2, <2>3, AnswerIsServed
<1>6. ASSUME NEW c \in Calls, SendFails(c) \/ AnswerLost(c) PROVE Service!Next
  <2>1. /\ call' = [call EXCEPT ![c] = AfterAnswer(c, TransportError)]
        /\ Active(c) /\ approved' = approved
    BY <1>1, <1>6 DEF SendFails, AnswerLost, Disrupt
  <2>2. TransportError.signatures \in SUBSET Signature /\ TransportError.sw # "OK"
    BY DEF TransportError, Status, Answer
  <2> QED
    BY <2>1, <2>2, AnswerIsServed
<1>7. ASSUME NEW c \in Calls, Abandon(c) PROVE Service!Next
  <2> DEFINE r == Failed(c)
  <2>1. call' = [call EXCEPT ![c] = r] /\ Active(c) /\ approved' = approved
    BY <1>7 DEF Abandon, Disrupt
  <2>2. r.stage = "failed" /\ r.toSign = call[c].toSign
    BY <1>1, FailedType
  <2> HIDE DEF r
  <2>3. Service!Fail(c)
    BY <1>1, <2>1, <2>2, FailureIsFail
  <2> QED
    BY <2>3 DEF Service!Next
<1>8. ASSUME UserApproves PROVE Service!Next
  <2>1. call' = call /\ approved \subseteq approved'
    BY <1>8 DEF UserApproves
  <2> QED
    BY <2>1, ApprovalIsConsent DEF Service!Next
<1>9. ASSUME UserRejects \/ DeviceRestarts \/ UserTogglesBlindsign PROVE UNCHANGED Service!svars
  BY <1>2, <1>9 DEF UserRejects, DeviceRestarts, UserTogglesBlindsign, Disrupt
<1>10. ASSUME UNCHANGED allvars PROVE UNCHANGED Service!svars
  BY <1>2, <1>10 DEF allvars, cvars
<1> QED
  BY <1>3, <1>4, <1>5, <1>6, <1>7, <1>8, <1>9, <1>10 DEF ClientNext

\* At first no call has begun.
LEMMA NoneServedAtFirst == ClientInit => Service!Init
<1> SUFFICES ASSUME ClientInit PROVE Service!Init
  OBVIOUS
<1>1. \A c \in Calls : call[c] = NewCall(c)
  BY Zenon DEF ClientInit
<1>2. \A c \in Calls : call[c].stage = "idle" /\ call[c].toSign = {}
  <2>1. ASSUME NEW c \in Calls PROVE NewCall(c).stage = "idle" /\ NewCall(c).toSign = {}
    BY DEF NewCall
  <2> QED
    BY <1>1, <2>1
<1> QED
  BY <1>2 DEF Service!Init, Outcome, Consented, Given

\* Calls made one after another keep the promise of SigningService as long as they are
\* given signatures of their items only, and none ends without the user's approval.
LEMMA ServedIfApproved ==
    ASSUME OneAtATime
    PROVE  ClientSpec /\ []SignedAsAsked /\ []ApprovedWhenDone => ImplementsService
<1>1. ServiceInv /\ [ClientNext]_allvars => ServiceInv'
  BY ServiceNextInv
<1>2. ServiceInv /\ ServiceInv' /\ SignedAsAsked' /\ ApprovedWhenDone' /\ [ClientNext]_allvars
        => [Service!Next]_(Service!svars)
  BY StepsAreServed
<1> QED
  BY <1>1, <1>2, ServiceInitInv, NoneServedAtFirst, PTL DEF ClientSpec, ImplementsService, Service!Spec

\* With blind signing off they do: a call gives out all its signatures at once, over
\* what was asked for, of its account and after consent, or it fails and gives out
\* none (index.ts:318-408).  It does with any number of lost commands and answers,
\* abandoned calls, locks and restarts in between if the parser accepts no mixture of
\* chunks; if it may accept some, then with abandoned calls and restarts, but no chunk
\* lost or refused by a locked device, and none of what the calls ask for taken for
\* another transaction.
THEOREM ClientImplementsService ==
    ASSUME TransactionsOnly, OneAtATime, SettingOff, ItemsAreTaken
    PROVE  ClientSpec => ImplementsService
<1>1. ItemsReadAlone
  BY ItemReadAlone DEF ItemsAreTaken
<1>2. SignatureInv /\ [ClientNext]_allvars => SignatureInv'
  BY SignatureNextInv
<1>3. ApprovedInv /\ [ClientNext]_allvars => ApprovedInv'
  BY ApprovedNextInv DEF SettingOff
<1>4. ClientInit => ApprovedInv
  <2>1. ClientInit => mode.blindsign = FALSE
    BY DEF ClientInit, Init, SettingOff
  <2> QED
    BY <2>1, ApprovedInitInv
<1>5. SignatureInv => SignedAsAsked
  BY ExactSignatures DEF ItemsAreTaken
<1>6. ApprovedInv /\ SignatureInv /\ SignedAsAsked => ApprovedWhenDone
  BY <1>1, ItemsApproved
<1> QED
  BY <1>2, <1>3, <1>4, <1>5, <1>6, SignatureInitInv, ServedIfApproved, PTL DEF ClientSpec

\* With blind signing on, the batches of groups keep that promise too, as long as
\* nothing is lost, abandoned, locked or restarted: the signatures that came without a
\* review are given out with the one the summary's approval gave, or not at all.
THEOREM BatchesImplementService ==
    ASSUME TransactionsOnly, OneAtATime, GroupsAreTaken, Undisrupted
    PROVE  ClientSpec => ImplementsService
<1>1. ItemsReadAlone
  BY ItemReadAlone DEF Undisrupted
<1>2. SettingStays /\ FirstChunksArrive
  BY DEF SettingStays, FirstChunksArrive, OneAtATime, Undisrupted
<1>3. SignatureInv /\ [ClientNext]_allvars => SignatureInv'
  BY SignatureNextInv
<1>4. BatchInv /\ [ClientNext]_allvars => BatchInv'
  BY BatchNextInv
<1>5. ApprovedInv /\ [ClientNext]_allvars => ApprovedInv'
  BY <1>2, ApprovedNextInv
<1>6. ClientInit => BatchInv \/ ApprovedInv
  BY SettingAtFirst, BatchInitInv, ApprovedInitInv
<1>7. SignatureInv => SignedAsAsked
  BY <1>2, ExactSignatures
<1>8. ApprovedInv /\ SignatureInv /\ SignedAsAsked => ApprovedWhenDone
  BY <1>1, ItemsApproved
<1>9. BatchInv => ApprovedWhenDone
  BY DEF BatchInv, BatchKept, ApprovedWhenDone, TransactionsOnly
<1> QED
  BY <1>3, <1>4, <1>5, <1>6, <1>7, <1>8, <1>9, SignatureInitInv, ServedIfApproved, PTL DEF ClientSpec

==============================================================================
