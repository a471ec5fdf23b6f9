--------------------------- MODULE Released_proofs ---------------------------
(***************************************************************************)
(* Proof that the signatures a call returns are all of transactions the    *)
(* user has approved on a screen: with blind signing off for any number of *)
(* calls that interleave over the one upload buffer and the one screen;    *)
(* with it on for undisturbed calls that run one after another, where the  *)
(* device's group state counts, transaction by transaction, what the call  *)
(* has sent of its group, and the summary shows exactly that.              *)
(***************************************************************************)
EXTENDS Alone_proofs

\* The user does not change the blind-signing setting between commands.
SettingStays == "toggle" \notin Disruptions

\* Blind signing is off, and stays off.
SettingOff == Blindsign \subseteq {FALSE} /\ SettingStays

\* The parser finds in these bytes a transaction among those in ap.
Seen(bytes, ap) == \E t \in ParsedTxns(bytes) \intersect WellFormed : t \in ap

\* A review that sign or signGroup waits for is of transactions.
TxOnScreen ==
    \A c \in pending :
        Request[c].kind # "signData" /\ screen.kind # "none"
          => screen.kind \in {"transaction", "summary"}

\* A signature that such a call waits for is over what the user has approved.
SeenAnswer ==
    \A c \in pending :
        Request[c].kind # "signData" => \A s \in reply.signatures : Seen(s.message, approved)

\* What a call whose state is r has been given is over what is in ap.
SeenResults(c, r, ap) ==
    Request[c].kind # "signData" =>
        \A j \in DOMAIN Request[c].items : \A s \in r.results[j] : Seen(s.message, ap)

\* The strengthening of ReleasedIsApproved.
ApprovedInv ==
    /\ ClientInv
    /\ mode.blindsign = FALSE
    /\ TxOnScreen
    /\ SeenAnswer
    /\ \A c \in Calls : SeenResults(c, call[c], approved)

\* A call that has ended gives out what it has been given.
LEMMA ApprovedInvReleases == ApprovedInv => ReleasedIsApproved
<1> SUFFICES ASSUME ApprovedInv, NEW c \in Calls, Request[c].kind # "signData",
                    NEW s \in UNION ToSet(call[c].results)
             PROVE  ParsedTxns(s.message) \intersect approved # {}
  BY DEF ReleasedIsApproved
<1>1. call[c].results \in [DOMAIN Request[c].items -> SUBSET Signature]
  BY DEF ApprovedInv, ClientInv, CallsTyped, CallOK, CallType
<1>2. PICK j \in DOMAIN Request[c].items : s \in call[c].results[j]
  BY <1>1 DEF ToSet
<1>3. Seen(s.message, approved)
  BY <1>2 DEF ApprovedInv, SeenResults
<1> QED
  BY <1>3 DEF Seen

\* What is approved stays approved.
LEMMA SeenStays ==
    ASSUME NEW ap, NEW aq, ap \subseteq aq
    PROVE  /\ \A bytes : Seen(bytes, ap) => Seen(bytes, aq)
           /\ \A c, r : SeenResults(c, r, ap) => SeenResults(c, r, aq)
BY DEF Seen, SeenResults

-----------------------------------------------------------------------------
(* The device.                                                               *)

\* What is signed is what was given to be signed.
LEMMA SignedMessage ==
    ASSUME NEW path, NEW message
    PROVE  \A s \in Signed(path, message).signatures : s.message = message
BY DEF Signed, Status, Answer

\* Without blind signing a chunk is answered with no signature, or put on the screen.
LEMMA ChunkIsShown ==
    ASSUME ApprovedInv, NEW a, handle_sign_msgpack(a)
    PROVE  /\ reply'.signatures = {}
           /\ mode'.blindsign = FALSE
           /\ screen' = screen \/ screen'.kind = "transaction"
<1>1. mode \in Modes /\ mode.blindsign = FALSE
  BY DEF ApprovedInv, ClientInv, Inv, TypeOK
<1>2. \A g : ~InBatch(g)
  BY <1>1 DEF InBatch, app_mode_blindsign_required
<1>3. \A sw : Status(sw).signatures = {}
  BY DEF Status, Answer
<1>4. CASE StoreTxChunk(a)
  BY <1>1, <1>3, <1>4 DEF StoreTxChunk
<1>5. CASE RejectTx(a)
  BY <1>1, <1>3, <1>5 DEF RejectTx
<1>6. ~SignInBatch(a)
  BY <1>2, Zenon DEF SignInBatch
<1>7. CASE ReviewTx(a)
  <2>1. PICK t \in ParsedTxns(buffer') \intersect WellFormed :
           \E g : /\ screen' = [kind      |-> IF InBatch(g) THEN "summary" ELSE "transaction",
                                shows     |-> IF InBatch(g) THEN g.members ELSE {t},
                                max_fees  |-> g.max_fees,
                                to_review |-> g.num_of_txns - g.num_of_txns_reviewed,
                                key       |-> Unset]
                  /\ mode' = ModeAfter(t)
    BY <1>7, Zenon DEF ReviewTx
  <2>2. screen'.kind = "transaction"
    BY <1>2, <2>1
  <2>3. mode'.blindsign = FALSE
    BY <1>1, <2>1 DEF ModeAfter, Modes
  <2>4. reply'.signatures = {}
    BY <1>3, <1>7 DEF ReviewTx
  <2> QED
    BY <2>2, <2>3, <2>4
<1> QED
  BY <1>4, <1>5, <1>6, <1>7 DEF handle_sign_msgpack

\* A command of a call is answered with no signature, and a review it opens is of
\* its kind.
LEMMA ExchangeIsShown ==
    ASSUME ApprovedInv, NEW c \in Calls, Exchange(c)
    PROVE  TxOnScreen' /\ SeenAnswer' /\ mode'.blindsign = FALSE
<1>1. /\ screen.kind = "none" /\ pending' = {c} /\ mode.blindsign = FALSE
      /\ handleApdu(NextApdu(c))
  BY DEF ApprovedInv, Exchange, handleApdu
<1>2. \A sw : Status(sw).signatures = {}
  BY DEF Status, Answer
<1>3. Request[c].kind # "signData" =>
        \/ NextApdu(c).ins = "INS_SIGN_MSGPACK"
        \/ NextApdu(c).ins = "INS_GET_PUBLIC_KEY" /\ NextApdu(c).p1 = 0
  BY Zenon DEF NextApdu, getPubkey, signSendChunk
<1> DEFINE a == NextApdu(c)
<1> HIDE DEF a
<1>4. CASE handle_sign_msgpack(a)
  <2>1. /\ reply'.signatures = {} /\ mode'.blindsign = FALSE
        /\ screen' = screen \/ screen'.kind = "transaction"
    BY <1>4, ChunkIsShown
  <2> QED
    BY <1>1, <2>1 DEF TxOnScreen, SeenAnswer
<1>5. CASE handle_arbitrary_sign(a)
  <2>1. mode' = mode /\ Request[c].kind = "signData"
    BY <1>3, <1>5 DEF handle_arbitrary_sign, a
  <2> QED
    BY <1>1, <2>1 DEF TxOnScreen, SeenAnswer
<1>6. CASE handle_get_public_key(a)
  <2>1. mode' = mode /\ (a.p1 = 0 => screen' = screen /\ reply' = Answer("OK", hdPath', {}))
    BY <1>6 DEF handle_get_public_key
  <2>2. Request[c].kind # "signData" => a.p1 = 0
    BY <1>3, <1>6 DEF handle_get_public_key, a
  <2>3. Answer("OK", hdPath', {}).signatures = {}
    BY DEF Answer
  <2> QED
    BY <1>1, <2>1, <2>2, <2>3 DEF TxOnScreen, SeenAnswer
<1>7. CASE handle_other(a) \/ RefuseLocked(a)
  <2>1. mode' = mode /\ screen' = screen /\ reply'.signatures = {}
    BY <1>2, <1>7, Zenon DEF handle_other, RefuseLocked
  <2> QED
    BY <1>1, <2>1 DEF TxOnScreen, SeenAnswer
<1> QED
  BY <1>1, <1>4, <1>5, <1>6, <1>7 DEF handleApdu, a

\* What the user approves is approved before its signature can be read.
LEMMA ApprovalIsKept ==
    ASSUME ApprovedInv, SettingStays, UserApproves \/ UserRejects \/ DeviceRestarts \/ UserTogglesBlindsign
    PROVE  /\ TxOnScreen' /\ SeenAnswer' /\ mode'.blindsign = FALSE
           /\ approved \subseteq approved' /\ call' = call
<1>1. ~UserTogglesBlindsign
  BY DEF SettingStays, UserTogglesBlindsign, ToggleBlindsign
<1>2. mode \in Modes /\ mode.blindsign = FALSE /\ NoScreen.kind = "none"
  BY NoScreenType DEF ApprovedInv, ClientInv, Inv, TypeOK
<1>3. call' = call /\ pending' = pending /\ screen' = NoScreen
  BY <1>1 DEF UserApproves, Approve, UserRejects, app_reject, DeviceRestarts, Restart
<1>4. TxOnScreen'
  BY <1>2, <1>3 DEF TxOnScreen
<1>5. CASE UserApproves
  <2>1. /\ screen.kind # "none" /\ mode' = mode /\ approved' = approved \union screen.shows
        /\ screen.kind \in {"transaction", "summary"} => reply' = Signed(hdPath, buffer)
    BY <1>5, Zenon DEF UserApproves, Approve, app_sign
  <2>2. ASSUME NEW c \in pending, Request[c].kind # "signData", NEW s \in reply'.signatures
        PROVE  Seen(s.message, approved')
    <3>1. screen.kind \in {"transaction", "summary"}
      BY <2>1, <2>2 DEF ApprovedInv, TxOnScreen
    <3>2. s.message = buffer
      BY <2>1, <2>2, <3>1, SignedMessage
    <3>3. \E t \in screen.shows \intersect WellFormed : t \in ParsedTxns(buffer)
      BY <3>1 DEF ApprovedInv, ClientInv, Inv, ReviewCoversUpload
    <3> QED
      BY <2>1, <3>2, <3>3 DEF Seen
  <2>3. SeenAnswer'
    BY <1>3, <2>2, Zenon DEF SeenAnswer, Seen, ParsedTxns, HoldsWhole
  <2> QED
    BY <1>2, <1>3, <1>4, <2>1, <2>3
<1>6. CASE UserRejects \/ DeviceRestarts
  <2>1. /\ approved' = approved
        /\ mode' = mode \/ mode' = [mode EXCEPT !.skipped = FALSE]
        /\ reply' = Status("COMMAND_NOT_ALLOWED") \/ reply' = Status("DISCONNECTED")
    BY <1>6 DEF UserRejects, app_reject, DeviceRestarts, Restart, Disrupt
  <2>2. mode'.blindsign = FALSE
    BY <1>2, <2>1 DEF Modes
  <2>3. reply'.signatures = {}
    BY <2>1 DEF Status, Answer
  <2> QED
    BY <1>3, <1>4, <2>1, <2>2, <2>3 DEF SeenAnswer
<1> QED
  BY <1>1, <1>5, <1>6

-----------------------------------------------------------------------------
(* The calls.                                                                *)

\* What a call makes of an answer about what is approved.
LEMMA AfterAnswerSeen ==
    ASSUME NEW c \in Calls, CallOK(c, call[c]), NEW ap, SeenResults(c, call[c], ap), Active(c),
           NEW answer, answer.signatures \in SUBSET Signature,
           Request[c].kind # "signData" => \A s \in answer.signatures : Seen(s.message, ap)
    PROVE  SeenResults(c, AfterAnswer(c, answer), ap)
<1>1. SeenResults(c, Failed(c), ap)
  BY FailedType DEF SeenResults
<1>2. CASE call[c].stage = "pubkey"
  <2>1. AfterAnswer(c, answer) = AfterPubkey(c, answer.sw, answer.key)
    BY <1>2 DEF AfterAnswer
  <2>2. ASSUME NEW S \in SUBSET DOMAIN Request[c].items, S # {}
        PROVE  SeenResults(c, Signing(c, S), ap)
    <3>1. Signing(c, S).results = call[c].results
      BY <1>2, <2>2, SigningType
    <3> QED
      BY <3>1 DEF SeenResults
  <2> QED
    BY <1>1, <2>1, <2>2, AfterPubkeyCases
<1>3. CASE call[c].stage = "signing"
  <2>1. AfterAnswer(c, answer) = AfterChunk(c, answer.sw, answer.signatures)
    BY <1>3 DEF AfterAnswer
  <2>2. call[c] \in CallType(c)
    BY DEF CallOK
  <2> DEFINE n == [call[c] EXCEPT !.chunk = @ + 1]
             m == AfterItem(c, answer.signatures)
             i == call[c].item
  <2>3. SeenResults(c, n, ap)
    BY <2>2 DEF CallType, SeenResults
  <2>4. /\ i \in DOMAIN Request[c].items
        /\ call[c].results \in [DOMAIN Request[c].items -> SUBSET Signature]
        /\ m.results = [call[c].results EXCEPT ![i] = answer.signatures]
    BY <2>2, AfterItemType DEF CallType
  <2> HIDE DEF m, n
  <2>5. \A j \in DOMAIN Request[c].items :
           m.results[j] = answer.signatures \/ m.results[j] = call[c].results[j]
    BY <2>4
  <2>6. SeenResults(c, m, ap)
    BY <2>5 DEF SeenResults
  <2> QED
    BY <1>1, <2>1, <2>3, <2>6 DEF AfterChunk, m, n
<1> QED
  BY <1>2, <1>3 DEF Active

\* A step that moves one call, which is not the one that waits, and leaves the
\* device alone.
LEMMA MoveKeepsApproved ==
    ASSUME ApprovedInv, UNCHANGED <<vars, approved>>, NEW c \in Calls, NEW r,
           call' = [call EXCEPT ![c] = r], SeenResults(c, r, approved),
           pending' \subseteq pending
    PROVE  /\ TxOnScreen' /\ SeenAnswer' /\ mode'.blindsign = FALSE
           /\ \A d \in Calls : SeenResults(d, call'[d], approved')
<1>1. /\ call = [d \in Calls |-> call[d]] /\ pending \subseteq Calls
      /\ UNCHANGED <<mode, screen, reply>>
  BY DEF ApprovedInv, ClientInv, CallsTyped, vars
<1>2. call'[c] = r /\ \A d \in Calls : d # c => call'[d] = call[d]
  BY <1>1
<1>3. TxOnScreen' /\ mode'.blindsign = FALSE
  BY <1>1 DEF ApprovedInv, TxOnScreen
<1>4. SeenAnswer'
  <2>1. \A d \in pending' : Request[d].kind # "signData"
          => \A s \in reply'.signatures : Seen(s.message, approved')
    BY <1>1 DEF ApprovedInv, SeenAnswer
  <2> QED
    BY <2>1, Zenon DEF SeenAnswer, Seen, ParsedTxns, HoldsWhole
<1>5. \A d \in Calls : SeenResults(d, call'[d], approved')
  BY <1>2 DEF ApprovedInv
<1> QED
  BY <1>3, <1>4, <1>5

\* The strengthening is inductive.
LEMMA ApprovedNextInv ==
    ASSUME SettingStays, ApprovedInv, [ClientNext]_allvars
    PROVE  ApprovedInv'
<1> DEFINE Goal == /\ TxOnScreen' /\ SeenAnswer' /\ mode'.blindsign = FALSE
                   /\ \A d \in Calls : SeenResults(d, call'[d], approved')
<1>1. ClientInv' /\ TypeOK /\ CallsTyped
  BY ClientNextInv DEF ApprovedInv, ClientInv, Inv
<1> SUFFICES Goal
  BY <1>1, Zenon DEF ApprovedInv, SeenResults, Seen, ParsedTxns, HoldsWhole
<1>2. /\ \A c \in Calls : CallOK(c, call[c]) /\ SeenResults(c, call[c], approved)
      /\ \A c \in pending : c \in Calls /\ Active(c)
  BY <1>1 DEF ApprovedInv, CallsTyped
<1>3. call' = call /\ approved \subseteq approved'
        => \A d \in Calls : SeenResults(d, call'[d], approved')
  BY <1>2, SeenStays
<1>4. ASSUME NEW c \in Calls, Start(c) PROVE Goal
  <2> DEFINE r == IF Request[c].asks THEN [call[c] EXCEPT !.stage = "pubkey"]
                                     ELSE Signing(c, DOMAIN Request[c].items)
  <2>1. /\ call[c].stage = "idle" /\ pending' = pending /\ UNCHANGED <<vars, approved>>
        /\ call' = [call EXCEPT ![c] = r]
    BY <1>1, <1>4 DEF Start, CallsTyped
  <2>2. r.results = call[c].results
    <3>1. 1 \in DOMAIN Request[c].items
      BY RequestType
    <3>2. DOMAIN Request[c].items # {}
      BY <3>1, Zenon
    <3>3. Signing(c, DOMAIN Request[c].items).results = call[c].results
      BY <1>2, <2>1, <3>2, SigningType
    <3>4. [call[c] EXCEPT !.stage = "pubkey"].results = call[c].results
      BY <1>2 DEF CallOK, CallType
    <3> QED
      BY <3>3, <3>4
  <2> HIDE DEF r
  <2>3. SeenResults(c, r, approved)
    BY <1>2, <2>2 DEF SeenResults
  <2> QED
    BY <2>1, <2>3, MoveKeepsApproved
<1>5. ASSUME NEW c \in Calls, Exchange(c) PROVE Goal
  <2>1. call' = call /\ approved' = approved
    BY <1>5 DEF Exchange
  <2> QED
    BY <1>3, <1>5, <2>1, ExchangeIsShown
<1>6. ASSUME NEW c \in Calls, Resume(c) PROVE Goal
  <2>1. /\ call' = [call EXCEPT ![c] = AfterAnswer(c, reply)]
        /\ c \in pending /\ pending' = {} /\ UNCHANGED <<vars, approved>>
    BY <1>6 DEF Resume
  <2>2. SeenResults(c, AfterAnswer(c, reply), approved)
    BY <1>1, <1>2, <2>1, ReplySignatures, AfterAnswerSeen DEF ApprovedInv, SeenAnswer
  <2> QED
    BY <2>1, <2>2, MoveKeepsApproved
<1>7. ASSUME NEW c \in Calls, SendFails(c) \/ AnswerLost(c) PROVE Goal
  <2>1. /\ call' = [call EXCEPT ![c] = AfterAnswer(c, TransportError)]
        /\ pending' = {} /\ UNCHANGED <<vars, approved>> /\ Active(c)
    BY <1>2, <1>7 DEF SendFails, AnswerLost, Disrupt
  <2>2. TransportError.signatures = {}
    BY DEF TransportError, Status, Answer
  <2>3. SeenResults(c, AfterAnswer(c, TransportError), approved)
    BY <1>2, <2>1, <2>2, AfterAnswerSeen
  <2> QED
    BY <2>1, <2>3, MoveKeepsApproved
<1>8. ASSUME NEW c \in Calls, Abandon(c) PROVE Goal
  <2>1. /\ call' = [call EXCEPT ![c] = Failed(c)]
        /\ pending' = pending \ {c} /\ UNCHANGED <<vars, approved>>
    BY <1>8 DEF Abandon, Disrupt
  <2>2. SeenResults(c, Failed(c), approved)
    BY <1>2, FailedType DEF SeenResults
  <2> QED
    BY <2>1, <2>2, MoveKeepsApproved
<1>9. ASSUME UserApproves \/ UserRejects \/ DeviceRestarts \/ UserTogglesBlindsign PROVE Goal
  BY <1>3, <1>9, ApprovalIsKept
<1>10. ASSUME UNCHANGED allvars PROVE Goal
  <2>1. UNCHANGED <<call, pending, approved, mode, screen, reply>>
    BY <1>10 DEF allvars, vars, cvars
  <2>2. TxOnScreen' /\ mode'.blindsign = FALSE
    BY <2>1 DEF ApprovedInv, TxOnScreen
  <2>3. SeenAnswer'
    BY <2>1, Zenon DEF ApprovedInv, SeenAnswer, Seen, ParsedTxns, HoldsWhole
  <2> QED
    BY <1>3, <2>1, <2>2, <2>3
<1> QED
  BY <1>4, <1>5, <1>6, <1>7, <1>8, <1>9, <1>10 DEF ClientNext

\* It holds at first.
LEMMA ApprovedInitInv ==
    ASSUME ClientInit, mode.blindsign = FALSE
    PROVE  ApprovedInv
<1>1. ClientInv
  BY ClientInitInv
<1>2. pending = {}
  BY DEF ClientInit, Init
<1>3. ASSUME NEW c \in Calls PROVE SeenResults(c, call[c], approved)
  <2> DEFINE n == NewCall(c)
  <2>1. n.results = [i \in DOMAIN Request[c].items |-> {}]
    BY DEF NewCall
  <2>2. call[c] = n
    BY Zenon DEF ClientInit
  <2> HIDE DEF n
  <2> QED
    BY <2>1, <2>2 DEF SeenResults
<1> QED
  BY <1>1, <1>2, <1>3 DEF ApprovedInv, TxOnScreen, SeenAnswer

\* With blind signing off every signature that leaves a call is over bytes in which
\* the parser found a transaction that the user saw by itself and approved, with any
\* number of calls that share the device's buffer and screen, whatever mixture of
\* their chunks the parser accepts, and whatever is lost, abandoned or restarted.
\* (With it on, the counters of a batch that ended early break this: apdu_handler.c:172.)
THEOREM ReleasedAreApproved ==
    ASSUME SettingOff
    PROVE  ClientSpec => []ReleasedIsApproved
<1>1. ApprovedInv /\ [ClientNext]_allvars => ApprovedInv'
  BY ApprovedNextInv DEF SettingOff
<1>2. ClientInit => ApprovedInv
  <2>1. ClientInit => mode.blindsign = FALSE
    BY DEF ClientInit, Init, SettingOff
  <2> QED
    BY <2>1, ApprovedInitInv
<1> QED
  BY <1>1, <1>2, ApprovedInvReleases, PTL DEF ClientSpec

-----------------------------------------------------------------------------
(* Fees.                                                                     *)

\* The running total is one: it starts at nothing, a position in S adds its fee, and
\* one that is not adds nothing.
LEMMA FeesAddUp ==
    ASSUME NEW c \in Calls, NEW S
    PROVE  LET f == FeesTo(c, S)
           IN  /\ f[0] = 0
               /\ \A n \in 1..Len(Request[c].items) :
                    f[n] = IF n \in S THEN (f[n - 1] + Fee[Request[c].items[n]]) % FeeModulus
                           ELSE f[n - 1]
<1> DEFINE N == Len(Request[c].items)
           fee(n) == Fee[Request[c].items[n]]
           Step(g, n) == IF n = 0 THEN 0
                         ELSE IF n \in S THEN (g[n - 1] + fee(n)) % FeeModulus
                         ELSE g[n - 1]
           Total(g, k) == g = [n \in 0..k |-> Step(g, n)]
           bad == {k \in 0..N : ~\E g : Total(g, k)}
<1>1. N \in Nat
  BY RequestType
<1>2. FeesTo(c, S) = CHOOSE g : Total(g, N)
  BY DEF FeesTo
<1>3. bad = {}
  <2> SUFFICES ASSUME bad # {} PROVE FALSE
    OBVIOUS
  <2> DEFINE k == Min(bad)
  <2>1. bad \subseteq Nat
    BY <1>1
  <2>2. k \in bad /\ \A y \in bad : k <= y
    BY <2>1, FirstPosition
  <2>3. k \in 0..N /\ ~\E g : Total(g, k)
    BY <2>2
  <2> HIDE DEF k
  <2>4. CASE k = 0
    <3> DEFINE h == [n \in 0..0 |-> 0]
    <3>1. h = [n \in 0..0 |-> Step(h, n)]
      <4>1. \A n \in 0..0 : Step(h, n) = 0
        OBVIOUS
      <4> HIDE DEF Step
      <4> QED
        BY <4>1
    <3>2. Total(h, k)
      BY <2>4, <3>1
    <3> QED
      BY <2>3, <3>2
  <2>5. CASE k # 0
    <3>1. k - 1 \in 0..N /\ ~(k <= k - 1) /\ k \in Nat
      BY <1>1, <2>3, <2>5
    <3>2. k - 1 \notin bad
      BY <2>2, <3>1
    <3>3. PICK g : Total(g, k - 1)
      BY <3>1, <3>2
    <3> DEFINE h == [n \in 0..k |-> IF n = k THEN Step(g, k) ELSE g[n]]
    <3>4. \A n \in 0..(k - 1) : g[n] = Step(g, n) /\ h[n] = g[n]
      <4> HIDE DEF Step
      <4>1. \A n \in 0..(k - 1) : g[n] = Step(g, n)
        BY <3>3
      <4>2. \A n \in 0..(k - 1) : n \in 0..k /\ n # k
        BY <3>1
      <4> QED
        BY <4>1, <4>2
    <3>5. ASSUME NEW n \in 0..k PROVE h[n] = Step(h, n)
      <4>1. n = 0 \/ n - 1 \in 0..(k - 1)
        BY <3>1, <3>5
      <4>2. Step(h, n) = Step(g, n)
        BY <3>4, <4>1
      <4>3. CASE n = k
        BY <4>2, <4>3
      <4>4. CASE n # k
        <5>1. n \in 0..(k - 1)
          BY <3>1, <3>5, <4>4
        <5> HIDE DEF Step, h
        <5> QED
          BY <3>4, <4>2, <5>1
      <4> QED
        BY <4>3, <4>4
    <3>6. h = [n \in 0..k |-> Step(h, n)]
      <4>1. h = [n \in 0..k |-> h[n]]
        OBVIOUS
      <4> HIDE DEF h, Step
      <4> QED
        BY <3>5, <4>1
    <3>7. Total(h, k)
      BY <3>6
    <3> HIDE DEF Total
    <3> QED
      BY <2>3, <3>7
  <2> QED
    BY <2>4, <2>5
<1>4. \E g : Total(g, N)
  <2>1. N \in 0..N
    BY <1>1
  <2> QED
    BY <1>3, <2>1
<1>5. Total(FeesTo(c, S), N)
  <2> HIDE DEF Total
  <2> QED
    BY <1>2, <1>4
<1> DEFINE f == FeesTo(c, S)
<1>6. \A n \in 0..N : f[n] = Step(f, n)
  <2>1. f = [n \in 0..N |-> Step(f, n)]
    BY <1>5
  <2> HIDE DEF f, Step
  <2> QED
    BY <2>1
<1> HIDE DEF f, N
<1>7. f[0] = 0
  BY <1>1, <1>6
<1>8. ASSUME NEW n \in 1..N
      PROVE  f[n] = IF n \in S THEN (f[n - 1] + fee(n)) % FeeModulus ELSE f[n - 1]
  BY <1>1, <1>6
<1> QED
  BY <1>7, <1>8 DEF f, N

\* A stretch of positions outside S adds nothing.
LEMMA FeesOverGap ==
    ASSUME NEW c \in Calls, NEW S, NEW a \in 0..Len(Request[c].items),
           NEW b \in a..Len(Request[c].items), \A n \in S : n <= a \/ n > b
    PROVE  FeesTo(c, S)[b] = FeesTo(c, S)[a]
<1> DEFINE N == Len(Request[c].items)
           f == FeesTo(c, S)
           bad == {n \in a..b : f[n] # f[a]}
<1>1. N \in Nat /\ a \in Nat /\ b \in Nat /\ a <= b /\ b <= N
  BY RequestType
<1>2. \A n \in 1..N : f[n] = IF n \in S THEN (f[n - 1] + Fee[Request[c].items[n]]) % FeeModulus
                             ELSE f[n - 1]
  BY FeesAddUp
<1> HIDE DEF N, f
<1>3. bad = {}
  <2> SUFFICES ASSUME bad # {} PROVE FALSE
    OBVIOUS
  <2> DEFINE k == Min(bad)
  <2>1. bad \subseteq Nat
    BY <1>1
  <2>2. k \in bad /\ \A y \in bad : k <= y
    BY <2>1, FirstPosition
  <2>3. k \in a..b /\ f[k] # f[a]
    BY <2>2
  <2> HIDE DEF k
  <2>4. k > a /\ k - 1 \in a..b /\ k \in 1..N
    BY <1>1, <2>3
  <2>5. k - 1 \notin bad
    BY <2>2, <2>4
  <2>6. k \notin S
    BY <1>1, <2>3, <2>4
  <2> QED
    BY <1>2, <2>3, <2>4, <2>5, <2>6
<1>4. b \in a..b
  BY <1>1
<1> QED
  BY <1>3, <1>4 DEF f

-----------------------------------------------------------------------------
(* Batches: with blind signing on, the group state counts the call's own     *)
(* transactions and no others.                                               *)

\* Nothing disturbs the calls but the user's answers, and the device can sign all
\* they hold.
Undisrupted == Disruptions = {} /\ \A c \in Calls : Signable(c)

\* The positions to be signed up to the n-th.
Upto(c, n) == {i \in OwnPositions(c) : i <= n}

\* A group state, field by field.
GroupState(opened, n, k, fees, names) ==
    [initialized |-> opened, num_of_txns |-> n, num_of_txns_reviewed |-> k,
     max_fees |-> fees, members |-> names]

\* The group state when they have been counted.
Counted(c, n) ==
    GroupState(TRUE, Cardinality(OwnPositions(c)), Cardinality(Upto(c, n)),
               FeesTo(c, OwnPositions(c))[n], {Request[c].items[i] : i \in Upto(c, n)})

\* The next count will start a group of its own.
AtRest == group_txn.num_of_txns_reviewed >= group_txn.num_of_txns

\* What the group state is for a signGroup call whose state is r: it counts the
\* item in hand once its last chunk is handled.
GroupFits(c, r, waits) ==
    IF waits /\ r.chunk = Size[Request[c].items[r.item]] THEN group_txn = Counted(c, r.item)
    ELSE IF ~waits /\ r.chunk = 1 /\ Upto(c, r.item - 1) = {} THEN AtRest
    ELSE group_txn = Counted(c, r.item - 1)

SignsGroup(c) == call[c].stage = "signing" /\ Request[c].kind = "signGroup"

\* The last chunk of the last transaction, or of the message, is in hand.
LastInHand(c) ==
    call[c].stage = "signing" /\ call[c].chunk = Size[Item(c)] /\ Later(c) = {}

\* The review on the screen is that of call c.
ShownFor(c) ==
    /\ LastInHand(c)
    /\ IF Request[c].kind = "signData" THEN screen.kind = "message"
       ELSE screen.kind \in {"transaction", "summary"} /\ Chosen(c) \subseteq screen.shows
    /\ screen.kind = "summary" =>
         /\ Request[c].kind = "signGroup"
         /\ screen.shows = group_txn.members /\ screen.max_fees = group_txn.max_fees

\* What blind signing keeps between the steps of the calls.
BatchKept ==
    /\ app_mode_blindsign_required(mode)
    /\ \A c \in Calls : call[c].stage = "idle" => c \notin excused
    /\ \A c \in Calls : Active(c) /\ c \in excused =>
         /\ c \in pending /\ LastInHand(c)
         /\ reply.sw = "COMMAND_NOT_ALLOWED" /\ screen.kind = "none"
    /\ (\A c \in Calls : ~SignsGroup(c)) => AtRest
    /\ \A c \in Calls : SignsGroup(c) => GroupFits(c, call[c], c \in pending)
    /\ \A c \in pending : screen.kind # "none" => ShownFor(c)
    /\ \A c \in pending :
         Request[c].kind # "signData" /\ LastInHand(c) /\ reply.sw = "OK" => Chosen(c) \subseteq approved
    /\ \A c \in Calls :
         Request[c].kind # "signData" /\ call[c].stage = "done" => Chosen(c) \subseteq approved

\* The strengthening of SummaryCoversGroup and ReleasedIsApproved, with blind
\* signing on.
BatchInv == CauseInv /\ BatchKept

\* The fields of a group state.
LEMMA GroupFields ==
    ASSUME NEW opened, NEW n, NEW k, NEW fees, NEW names
    PROVE  /\ GroupState(opened, n, k, fees, names).initialized = opened
           /\ GroupState(opened, n, k, fees, names).num_of_txns = n
           /\ GroupState(opened, n, k, fees, names).num_of_txns_reviewed = k
           /\ GroupState(opened, n, k, fees, names).max_fees = fees
           /\ GroupState(opened, n, k, fees, names).members = names
BY DEF GroupState

\* What a call signs is finitely many.
LEMMA OwnIsFinite ==
    ASSUME NEW c \in Calls
    PROVE  /\ OwnPositions(c) \subseteq 1..Len(Request[c].items)
           /\ \A T \in SUBSET OwnPositions(c) :
                /\ IsFiniteSet(T) /\ Cardinality(T) \in Nat
                /\ Cardinality(T) <= Cardinality(OwnPositions(c))
                /\ Cardinality(T) = Cardinality(OwnPositions(c)) <=> T = OwnPositions(c)
<1> DEFINE N == Len(Request[c].items)
           S == OwnPositions(c)
<1>1. S \subseteq 1..N /\ N \in Nat
  BY RequestType DEF OwnPositions
<1>2. IsFiniteSet(1..N)
  BY <1>1, FS_Interval
<1>3. IsFiniteSet(S)
  BY <1>1, <1>2, FS_Subset
<1> HIDE DEF S, N
<1>4. ASSUME NEW T \in SUBSET S
      PROVE  /\ IsFiniteSet(T) /\ Cardinality(T) \in Nat
             /\ Cardinality(T) <= Cardinality(S)
             /\ Cardinality(T) = Cardinality(S) <=> T = S
  BY <1>3, FS_Subset, FS_CardinalityType
<1> QED
  BY <1>1, <1>4 DEF S, N

\* With the item in hand one more transaction is counted; it is the last if no later
\* one is to be signed.
LEMMA CountStep ==
    ASSUME NEW c \in Calls, CallOK(c, call[c]), PlanOK(c, call[c]), call[c].stage = "signing"
    PROVE  LET i == call[c].item
               n == Cardinality(OwnPositions(c))
               b == Cardinality(Upto(c, i - 1))
           IN  /\ b \in Nat /\ n \in Nat /\ b < n
               /\ Cardinality(Upto(c, i)) = b + 1
               /\ Upto(c, i) = Upto(c, i - 1) \union {i}
               /\ b + 1 = n <=> Later(c) = {}
               /\ Later(c) = {} <=> Upto(c, i) = OwnPositions(c)
<1> DEFINE i == call[c].item
           S == OwnPositions(c)
           B == Upto(c, i - 1)
           W == Upto(c, i)
<1>1. i \in S /\ S \subseteq 1..Len(Request[c].items) /\ Later(c) = {j \in S : j > i}
  BY OwnIsFinite DEF PlanOK, Later
<1>2. \A j \in S : j \in Nat /\ i \in Nat
  BY <1>1, RequestType
<1>3. B = {j \in S : j <= i - 1} /\ W = {j \in S : j <= i}
  BY DEF Upto
<1>4. B \in SUBSET S /\ W \in SUBSET S /\ S \in SUBSET S
  BY <1>3
<1>5. i \notin B /\ W = B \union {i}
  BY <1>1, <1>2, <1>3
<1>6. Later(c) = {} <=> W = S
  BY <1>1, <1>2, <1>3
<1>7. \A T \in SUBSET S :
        /\ IsFiniteSet(T) /\ Cardinality(T) \in Nat
        /\ Cardinality(T) <= Cardinality(S)
        /\ Cardinality(T) = Cardinality(S) <=> T = S
  BY OwnIsFinite
<1> HIDE DEF i, S, B, W
<1>8. Cardinality(W) = Cardinality(B) + 1
  BY <1>4, <1>5, <1>7, FS_AddElement
<1>9. /\ Cardinality(B) \in Nat /\ Cardinality(S) \in Nat
      /\ Cardinality(W) <= Cardinality(S)
      /\ Cardinality(W) = Cardinality(S) <=> W = S
  BY <1>4, <1>7
<1> QED
  BY <1>5, <1>6, <1>8, <1>9 DEF i, S, B, W

\* The group state with the fee of one more transaction.
Joined(g, t) == [g EXCEPT !.max_fees = (@ + Fee[t]) % FeeModulus, !.members = @ \union {t}]

\* The group state moves on as the count does.
LEMMA CountedStep ==
    ASSUME NEW c \in Calls, CallOK(c, call[c]), PlanOK(c, call[c]), call[c].stage = "signing",
           NEW g, g = Counted(c, call[c].item - 1),
           NEW h, h = Joined(g, Item(c))
    PROVE  /\ increment_num_of_txns_reviewed(h) = Counted(c, call[c].item)
           /\ h.initialized /\ h.num_of_txns = Cardinality(OwnPositions(c))
           /\ h.num_of_txns_reviewed = Cardinality(Upto(c, call[c].item - 1))
           /\ h.members = Counted(c, call[c].item).members
           /\ h.max_fees = Counted(c, call[c].item).max_fees
<1> DEFINE i == call[c].item
           f == FeesTo(c, OwnPositions(c))
           names(T) == {Request[c].items[j] : j \in T}
           yes == TRUE
<1>1. i \in OwnPositions(c) /\ i \in 1..Len(Request[c].items)
  BY OwnIsFinite DEF PlanOK
<1>2. f[i] = (f[i - 1] + Fee[Item(c)]) % FeeModulus
  BY <1>1, FeesAddUp DEF Item
<1>3. /\ Cardinality(Upto(c, i)) = Cardinality(Upto(c, i - 1)) + 1
      /\ Upto(c, i) = Upto(c, i - 1) \union {i}
  BY CountStep
<1>4. names(Upto(c, i)) = names(Upto(c, i - 1)) \union {Item(c)}
  BY <1>3 DEF Item
<1> HIDE DEF f, names, i, yes
<1>5. \A n : Counted(c, n) = GroupState(yes, Cardinality(OwnPositions(c)),
                                        Cardinality(Upto(c, n)), f[n], names(Upto(c, n)))
  BY Zenon DEF Counted, f, names, yes
<1> DEFINE n == Cardinality(OwnPositions(c))
           k == Cardinality(Upto(c, i - 1))
           q == Cardinality(Upto(c, i))
           fees == f[i]
           m == names(Upto(c, i))
           e == f[i - 1]
           l == names(Upto(c, i - 1))
<1>6. g = GroupState(yes, n, k, e, l)
  BY <1>5 DEF i
<1>7. Counted(c, i) = GroupState(yes, n, q, fees, m)
  BY <1>5
<1>8. g.max_fees = f[i - 1] /\ g.members = names(Upto(c, i - 1))
  <2> HIDE DEF e, l, n, k
  <2>1. g.max_fees = e /\ g.members = l
    BY <1>6, GroupFields
  <2> QED
    BY <2>1 DEF e, l
<1>9. h = [g EXCEPT !.max_fees = fees, !.members = m]
  <2>1. (g.max_fees + Fee[Item(c)]) % FeeModulus = fees /\ g.members \union {Item(c)} = m
    BY <1>2, <1>4, <1>8, Zenon
  <2> HIDE DEF fees, m
  <2> QED
    BY <2>1, Zenon DEF Joined
<1> HIDE DEF n, k, q, fees, m, e, l
<1>10. h = GroupState(yes, n, k, fees, m)
  <2> DEFINE r == GroupState(yes, n, k, e, l)
             t == GroupState(yes, n, k, fees, l)
  <2>1. [r EXCEPT !.max_fees = fees] = t /\ [t EXCEPT !.members = m] = GroupState(yes, n, k, fees, m)
    BY DEF GroupState
  <2>2. g = r
    BY <1>6
  <2> HIDE DEF r, t
  <2>3. [r EXCEPT !.max_fees = fees, !.members = m] = [[r EXCEPT !.max_fees = fees] EXCEPT !.members = m]
    BY Zenon
  <2> QED
    BY <1>9, <2>1, <2>2, <2>3, Zenon
<1>11. /\ h.initialized = yes /\ h.num_of_txns = n /\ h.num_of_txns_reviewed = k
       /\ h.max_fees = fees /\ h.members = m
  <2> DEFINE r == GroupState(yes, n, k, fees, m)
  <2>1. r.initialized = yes
    BY DEF GroupState
  <2>2. r.num_of_txns = n /\ r.num_of_txns_reviewed = k /\ r.max_fees = fees /\ r.members = m
    BY GroupFields
  <2>3. h = r
    BY <1>10
  <2> HIDE DEF r
  <2> QED
    BY <2>1, <2>2, <2>3, Zenon
<1>12. /\ Counted(c, i).max_fees = fees /\ Counted(c, i).members = m
  BY <1>7, GroupFields
<1>13. [h EXCEPT !.num_of_txns_reviewed = q] = GroupState(yes, n, q, fees, m)
  <2> DEFINE r == GroupState(yes, n, k, fees, m)
  <2>1. [r EXCEPT !.num_of_txns_reviewed = q] = GroupState(yes, n, q, fees, m)
    BY DEF GroupState
  <2>2. h = r
    BY <1>10
  <2> HIDE DEF r
  <2> QED
    BY <2>1, <2>2, Zenon
<1>14. h.num_of_txns_reviewed + 1 = q
  BY <1>3, <1>11 DEF k, q
<1>15. increment_num_of_txns_reviewed(h) = GroupState(yes, n, q, fees, m)
  BY <1>13, <1>14, Zenon DEF increment_num_of_txns_reviewed
<1> QED
  BY <1>7, <1>11, <1>12, <1>15, Zenon DEF i, n, k, yes

\* Before the first nothing is counted.
LEMMA CountedNone ==
    ASSUME NEW c \in Calls, NEW i \in OwnPositions(c), Upto(c, i - 1) = {}
    PROVE  Counted(c, i - 1) =
             [NoGroup EXCEPT !.initialized = TRUE, !.num_of_txns = Cardinality(OwnPositions(c))]
<1> DEFINE f == FeesTo(c, OwnPositions(c))
           b == i - 1
<1>1. i \in 1..Len(Request[c].items) /\ Len(Request[c].items) \in Nat
  BY OwnIsFinite, RequestType
<1>2. b \in 0..Len(Request[c].items) /\ 0 \in 0..Len(Request[c].items)
  BY <1>1
<1>3. \A n \in OwnPositions(c) : n <= 0 \/ n > b
  <2>1. \A n \in OwnPositions(c) : n \in Nat /\ ~(n <= b)
    BY OwnIsFinite, RequestType DEF Upto
  <2> QED
    BY <1>2, <2>1
<1>4. f[b] = f[0] /\ f[0] = 0
  BY <1>2, <1>3, FeesOverGap, FeesAddUp
<1>5. Cardinality({}) = 0
  BY FS_EmptySet
<1> DEFINE n == Cardinality(OwnPositions(c))
<1> HIDE DEF f, b
<1>6. Counted(c, b) = GroupState(TRUE, n, 0, 0, {})
  <2>1. Counted(c, b) = GroupState(TRUE, n, Cardinality({}), f[b],
                                   {Request[c].items[j] : j \in {}})
    BY Zenon DEF Counted, f, b
  <2>2. {Request[c].items[j] : j \in {}} = {}
    OBVIOUS
  <2> QED
    BY <1>4, <1>5, <2>1, <2>2
<1>7. NoGroup = GroupState(FALSE, 0, 0, 0, {})
  BY Zenon DEF NoGroup, GroupState
<1> DEFINE yes == TRUE
           no == FALSE
<1> HIDE DEF n, yes, no
<1>8. [NoGroup EXCEPT !.initialized = TRUE, !.num_of_txns = n] = GroupState(TRUE, n, 0, 0, {})
  <2>1. NoGroup = GroupState(no, 0, 0, 0, {})
    BY <1>7, Zenon DEF no
  <2>2. [NoGroup EXCEPT !.initialized = yes, !.num_of_txns = n] = GroupState(yes, n, 0, 0, {})
    <3> DEFINE r == GroupState(no, 0, 0, 0, {})
               t == GroupState(yes, 0, 0, 0, {})
    <3>1. [r EXCEPT !.initialized = yes] = t /\ [t EXCEPT !.num_of_txns = n] = GroupState(yes, n, 0, 0, {})
      BY DEF GroupState
    <3>2. NoGroup = r
      BY <2>1
    <3> HIDE DEF r, t
    <3>3. [r EXCEPT !.initialized = yes, !.num_of_txns = n] = [[r EXCEPT !.initialized = yes] EXCEPT !.num_of_txns = n]
      BY Zenon
    <3> QED
      BY <3>1, <3>2, <3>3, Zenon
  <2> QED
    BY <2>2, Zenon DEF yes
<1> QED
  BY <1>6, <1>8, Zenon DEF b, n

\* Between one transaction of the call and the next nothing is counted.
LEMMA CountedNext ==
    ASSUME NEW c \in Calls, CallOK(c, call[c]), PlanOK(c, call[c]), call[c].stage = "signing",
           Later(c) # {}
    PROVE  /\ Counted(c, Min(Later(c)) - 1) = Counted(c, call[c].item)
           /\ Upto(c, Min(Later(c)) - 1) # {}
<1> DEFINE i == call[c].item
           j == Min(Later(c))
           b == j - 1
           S == OwnPositions(c)
           f == FeesTo(c, S)
<1>1. i \in S /\ S \subseteq 1..Len(Request[c].items) /\ Later(c) = {k \in S : k > i}
  BY OwnIsFinite DEF PlanOK, Later
<1>2. S \subseteq Nat /\ Len(Request[c].items) \in Nat
  BY <1>1, RequestType
<1>3. j \in Later(c) /\ \A k \in Later(c) : j <= k
  <2>1. Later(c) \subseteq Nat
    BY <1>1, <1>2
  <2> QED
    BY <2>1, FirstPosition
<1> HIDE DEF S, i, j
<1>4. j \in S /\ j > i /\ \A k \in S : ~(k > i /\ k < j)
  <2>1. j \in S /\ j > i /\ j \in Nat
    BY <1>1, <1>2, <1>3
  <2>2. ASSUME NEW k \in S, k > i, k < j PROVE FALSE
    <3>1. k \in Later(c) /\ k \in Nat
      BY <1>1, <1>2, <2>2
    <3>2. j <= k
      BY <1>3, <3>1
    <3> QED
      BY <2>1, <2>2, <3>1, <3>2
  <2> QED
    BY <2>1, <2>2
<1>5. i \in 0..Len(Request[c].items) /\ b \in i..Len(Request[c].items)
  BY <1>1, <1>2, <1>4
<1>6. \A k \in S : k <= i \/ k > b
  BY <1>1, <1>2, <1>4
<1>7. f[b] = f[i]
  BY <1>5, <1>6, FeesOverGap
<1>8. Upto(c, b) = Upto(c, i) /\ i \in Upto(c, b)
  BY <1>1, <1>2, <1>4, <1>6 DEF Upto, S
<1> HIDE DEF f, b
<1>9. Counted(c, b) = Counted(c, i)
  BY <1>7, <1>8, Zenon DEF Counted, f, S
<1> QED
  BY <1>8, <1>9, Zenon DEF b, i, j

\* P1 of a chunk counts the transactions of the group.
LEMMA CountOfChunk ==
    ASSUME NEW c \in Calls, CallOK(c, call[c]), PlanOK(c, call[c]), call[c].stage = "signing"
    PROVE  /\ P1_NUM_OF_TXNS_IN_GROUP(signSendChunk(c).p1) =
                IF Request[c].kind = "signGroup" THEN Cardinality(OwnPositions(c)) ELSE 0
           /\ P1_NUM_OF_TXNS_IN_GROUP(rawSignChunk(c).p1) = 0
<1> DEFINE n == numOfTxns(c)
           flag == IF call[c].chunk > 1 THEN P1_MORE
                   ELSE IF Request[c].account # 0 THEN P1_FIRST_ACCOUNT_ID ELSE 0
<1>1. signSendChunk(c).p1 = 2 * n + flag
  BY DEF signSendChunk
<1>2. n \in 0..16 /\ flag \in {0, 1, 128}
  BY CountIsSmall DEF P1_MORE, P1_FIRST_ACCOUNT_ID
<1>3. n = IF Request[c].kind = "signGroup" THEN Cardinality(OwnPositions(c)) ELSE 0
  <2>1. call[c].toSign = OwnPositions(c)
    BY DEF PlanOK
  <2> QED
    BY <2>1, Zenon DEF numOfTxns
<1> HIDE DEF n, flag
<1>4. P1_NUM_OF_TXNS_IN_GROUP(signSendChunk(c).p1) = n
  BY <1>1, <1>2, CountInP1
<1>5. P1_NUM_OF_TXNS_IN_GROUP(rawSignChunk(c).p1) = 0
  BY DEF rawSignChunk, P1_NUM_OF_TXNS_IN_GROUP, P1_MORE
<1> QED
  BY <1>3, <1>4, <1>5

\* A group of the client has two transactions at least.
LEMMA GroupIsCounted ==
    ASSUME GroupsAreTaken, NEW c \in Calls, CallOK(c, call[c]), PlanOK(c, call[c]),
           SignsGroup(c)
    PROVE  /\ Cardinality(OwnPositions(c)) \in Nat \ {0, 1}
           /\ ~GroupCountRefused(Cardinality(OwnPositions(c)))
<1>1. call[c].stage = "signing" /\ Request[c].kind = "signGroup"
  BY DEF SignsGroup
<1>2. ~GroupCountRefused(P1_NUM_OF_TXNS_IN_GROUP(signSendChunk(c).p1))
  BY <1>1, SignCommand
<1>3. Cardinality(OwnPositions(c)) \in Nat /\ Cardinality(OwnPositions(c)) > 0
  <2>1. /\ Cardinality(Upto(c, call[c].item - 1)) \in Nat /\ Cardinality(OwnPositions(c)) \in Nat
        /\ Cardinality(Upto(c, call[c].item - 1)) < Cardinality(OwnPositions(c))
    BY <1>1, CountStep
  <2> QED
    BY <2>1
<1>4. Cardinality(OwnPositions(c)) # 1
  BY <1>1 DEF GroupsAreTaken
<1> QED
  BY <1>1, <1>2, <1>3, <1>4, CountOfChunk

\* A chunk of a call that fits and is undisturbed is taken, and the last one leaves the
\* item in hand in the buffer, and nothing else.
LEMMA ChunkIsOfItem ==
    ASSUME CauseInv, GroupsAreTaken, NEW c \in Calls, call[c].stage = "signing",
           Request[c].kind # "signData", Undisturbed(c), pending = {},
           process_chunk(signSendChunk(c), <<TXTag>>)
    PROVE  /\ ChunkStatus(signSendChunk(c), <<TXTag>>) =
                IF call[c].chunk = Size[Item(c)] THEN "complete" ELSE "OK"
           /\ call[c].chunk = Size[Item(c)] => ParsedTxns(buffer') = {Item(c)}
           /\ Item(c) \in WellFormed
<1> DEFINE a == signSendChunk(c)
           k == call[c].chunk
           m == Item(c)
<1>1. CallOK(c, call[c]) /\ PlanOK(c, call[c]) /\ UploadKept(c)
  BY DEF CauseInv, PlanInv, KeyInv, ClientInv, CallsTyped
<1>2. m \in Txns /\ m \notin Messages /\ k \in 1..Size[m] /\ Size[m] \in Nat \ {0}
  <2>1. m \in Txns /\ k \in 1..Size[m]
    BY <1>1, RequestType DEF CallOK, CallType, Item
  <2> QED
    BY <2>1, NameAssumption, DataAssumption
<1>3. m \notin Unsignable
  <2>1. call[c].item \in DOMAIN Request[c].items
    BY <1>1 DEF CallOK, CallType
  <2>2. Request[c].items[call[c].item] \in ToSet(Request[c].items)
    BY <2>1, Zenon DEF ToSet
  <2> QED
    BY <2>2 DEF Undisturbed, Signable, Item
<1>4. Tag(m) = <<TXTag>> /\ m \in WellFormed
  BY <1>2, <1>3 DEF Tag, Unsignable
<1>5. /\ Body(a) = << <<m, k>> >> /\ ~TooShort(a)
      /\ ~GroupCountRefused(P1_NUM_OF_TXNS_IN_GROUP(a.p1))
      /\ convertP1P2(a.p1, a.p2) = ChunkType(m, k)
  BY <1>1, SignCommand
<1>6. k > 1 => tx_initialized /\ buffer = Uploaded(m, k - 1)
  BY <1>1 DEF UploadKept
<1> HIDE DEF a, k, m
<1>7. process_chunk(a, Tag(m))
  BY <1>4 DEF a
<1>8. /\ ChunkStatus(a, Tag(m)) = IF k < Size[m] THEN "OK" ELSE "complete"
      /\ buffer' = Uploaded(m, k)
  BY <1>2, <1>3, <1>5, <1>6, <1>7, ChunkIsTaken
<1>9. ASSUME k = Size[m]
      PROVE  ParsedTxns(buffer') = {m}
  <2>1. HoldsWhole(buffer', m)
    BY <1>2, <1>8, <1>9, UploadedIsWhole
  <2> QED
    BY <1>4, <2>1, WholeIsRead
<1> QED
  BY <1>2, <1>4, <1>8, <1>9 DEF a, k, m

\* The same for a message.
LEMMA ChunkIsOfMessage ==
    ASSUME CauseInv, NEW c \in Calls, call[c].stage = "signing",
           Request[c].kind = "signData", Undisturbed(c), pending = {},
           process_chunk(rawSignChunk(c), <<>>)
    PROVE  ChunkStatus(rawSignChunk(c), <<>>) =
             IF call[c].chunk = Size[Item(c)] THEN "complete" ELSE "OK"
<1> DEFINE a == rawSignChunk(c)
           k == call[c].chunk
           m == Item(c)
<1>1. CallOK(c, call[c]) /\ PlanOK(c, call[c]) /\ UploadKept(c)
  BY DEF CauseInv, PlanInv, KeyInv, ClientInv, CallsTyped
<1>2. m \in Messages /\ k \in 1..Size[m] /\ Size[m] \in Nat \ {0}
  <2>1. m \in Messages /\ k \in 1..Size[m]
    BY <1>1, RequestType, CallAssumption DEF CallOK, CallType, Item
  <2> QED
    BY <2>1, DataAssumption
<1>3. m \notin Unsignable
  <2>1. call[c].item \in DOMAIN Request[c].items
    BY <1>1 DEF CallOK, CallType
  <2>2. Request[c].items[call[c].item] \in ToSet(Request[c].items)
    BY <2>1, Zenon DEF ToSet
  <2> QED
    BY <2>2 DEF Undisturbed, Signable, Item
<1>4. Tag(m) = <<>>
  BY <1>2 DEF Tag
<1>5. /\ Body(a) = << <<m, k>> >> /\ ~TooShort(a)
      /\ ~GroupCountRefused(P1_NUM_OF_TXNS_IN_GROUP(a.p1))
      /\ convertP1P2(a.p1, a.p2) = ChunkType(m, k)
  BY <1>1, RawSignCommand
<1>6. k > 1 => tx_initialized /\ buffer = Uploaded(m, k - 1)
  BY <1>1 DEF UploadKept
<1> HIDE DEF a, k, m
<1>7. process_chunk(a, Tag(m))
  BY <1>4 DEF a
<1>8. ChunkStatus(a, Tag(m)) = IF k < Size[m] THEN "OK" ELSE "complete"
  BY <1>2, <1>3, <1>5, <1>6, <1>7, ChunkIsTaken
<1> QED
  BY <1>2, <1>4, <1>8 DEF a, k, m

\* A call whose exchange begins is undisturbed, and nobody else's is open.
LEMMA ExchangeUndisturbed ==
    ASSUME BatchInv, Undisrupted, NEW c \in Calls, Active(c), pending = {}
    PROVE  Undisturbed(c) /\ c \notin pending /\ CallOK(c, call[c]) /\ PlanOK(c, call[c])
<1>1. CallOK(c, call[c]) /\ PlanOK(c, call[c])
  BY DEF BatchInv, CauseInv, PlanInv, KeyInv, ClientInv, CallsTyped
<1>2. c \notin excused
  BY DEF BatchInv, BatchKept
<1> QED
  BY <1>1, <1>2 DEF Undisturbed, Undisrupted

\* At a chunk of a group the group state counts what came before the item in hand.
LEMMA GroupAtItem ==
    ASSUME BatchInv, GroupsAreTaken, NEW c \in Calls, SignsGroup(c), pending = {}
    PROVE  GroupForChunk(signSendChunk(c)) = Counted(c, call[c].item - 1)
<1> DEFINE n == Cardinality(OwnPositions(c))
           i == call[c].item
           g == ForgetCompleteGroup(group_txn)
           before == Counted(c, i - 1)
<1>1. /\ CallOK(c, call[c]) /\ PlanOK(c, call[c]) /\ call[c].stage = "signing"
      /\ Request[c].kind = "signGroup"
  BY DEF BatchInv, CauseInv, PlanInv, KeyInv, ClientInv, CallsTyped, SignsGroup
<1>2. n \in Nat \ {0, 1} /\ ~GroupCountRefused(n)
  BY <1>1, GroupIsCounted
<1>3. P1_NUM_OF_TXNS_IN_GROUP(signSendChunk(c).p1) = n
  BY <1>1, CountOfChunk
<1>4. GroupForChunk(signSendChunk(c)) =
        IF g.initialized THEN g ELSE [g EXCEPT !.initialized = TRUE, !.num_of_txns = n]
  <2> HIDE DEF n, g
  <2>1. GroupForChunk(signSendChunk(c)) = GroupAtChunk(g, n)
    BY <1>3, Zenon DEF GroupForChunk, g
  <2>2. n # 0 /\ ~GroupCountRefused(n)
    BY <1>2
  <2> QED
    BY <2>1, <2>2, Zenon DEF GroupAtChunk
<1>5. GroupFits(c, call[c], FALSE)
  <2>1. GroupFits(c, call[c], c \in pending)
    BY DEF BatchInv, BatchKept
  <2>2. c \notin pending
    OBVIOUS
  <2> QED
    BY <2>1, <2>2 DEF GroupFits
<1>6. CASE call[c].chunk = 1 /\ Upto(c, i - 1) = {}
  <2>1. AtRest
    BY <1>5, <1>6 DEF GroupFits
  <2>2. g = NoGroup
    BY <2>1 DEF AtRest, ForgetCompleteGroup
  <2>3. NoGroup.initialized = FALSE
    BY DEF NoGroup
  <2>4. i \in OwnPositions(c)
    BY <1>1 DEF PlanOK
  <2>5. before = [NoGroup EXCEPT !.initialized = TRUE, !.num_of_txns = n]
    BY <1>6, <2>4, CountedNone, Zenon
  <2> HIDE DEF g, n, before
  <2> QED
    BY <1>4, <2>2, <2>3, <2>5, Zenon DEF before
<1>7. CASE ~(call[c].chunk = 1 /\ Upto(c, i - 1) = {})
  <2>1. group_txn = before
    BY <1>5, <1>7, Zenon DEF GroupFits
  <2> DEFINE k == Cardinality(Upto(c, i - 1))
             fees == FeesTo(c, OwnPositions(c))[i - 1]
             names == {Request[c].items[j] : j \in Upto(c, i - 1)}
             yes == TRUE
  <2>2. k \in Nat /\ k < n
    BY <1>1, CountStep
  <2>3. before = GroupState(yes, n, k, fees, names)
    BY Zenon DEF Counted
  <2> HIDE DEF n, k, fees, names, before, yes
  <2>4. before.num_of_txns = n /\ before.num_of_txns_reviewed = k /\ before.initialized = yes
    BY <2>3 DEF GroupState
  <2>5. before.initialized
    BY <2>4 DEF yes
  <2>6. ~(before.num_of_txns_reviewed >= before.num_of_txns)
    BY <1>2, <2>2, <2>4
  <2>7. g = before
    BY <2>1, <2>6, Zenon DEF ForgetCompleteGroup
  <2> HIDE DEF g
  <2> QED
    BY <1>4, <2>5, <2>7, Zenon DEF before
<1> QED
  BY <1>6, <1>7

\* What a handled command leaves, for the call c that sent it.
Handled(c) ==
    /\ app_mode_blindsign_required(mode)
    /\ reply.sw # "LOCKED"
    /\ SignsGroup(c) => GroupFits(c, call[c], TRUE)
    /\ ~SignsGroup(c) => AtRest
    /\ screen.kind # "none" => ShownFor(c) /\ reply.sw = "none"
    /\ Request[c].kind # "signData" /\ LastInHand(c) => screen.kind # "none"

\* The last chunk of a transaction of a group is signed at once if another one follows,
\* and brings up the summary of the whole group if none does.
LEMMA GroupItemHandled ==
    ASSUME BatchInv, Undisrupted, GroupsAreTaken, NEW c \in Calls, SignsGroup(c), pending = {},
           handle_sign_msgpack(signSendChunk(c)), screen.kind = "none", UNCHANGED call
    PROVE  Handled(c)'
<1> DEFINE a == signSendChunk(c)
           i == call[c].item
           before == Counted(c, i - 1)
           after == Counted(c, i)
           m == Item(c)
           h == Joined(before, m)
           status == ChunkStatus(a, <<TXTag>>)
           last == call[c].chunk = Size[m]
<1>1. /\ CallOK(c, call[c]) /\ PlanOK(c, call[c]) /\ Undisturbed(c)
      /\ call[c].stage = "signing" /\ Request[c].kind = "signGroup" /\ CauseInv
  BY ExchangeUndisturbed DEF SignsGroup, Active, BatchInv
<1>2. ASSUME process_chunk(a, <<TXTag>>)
      PROVE  /\ status = IF last THEN "complete" ELSE "OK"
             /\ last => ParsedTxns(buffer') = {m}
             /\ m \in WellFormed
  BY <1>1, <1>2, ChunkIsOfItem
<1>3. GroupForChunk(a) = before
  BY GroupAtItem
<1>4. /\ increment_num_of_txns_reviewed(h) = after
      /\ h.initialized /\ h.num_of_txns = Cardinality(OwnPositions(c))
      /\ h.num_of_txns_reviewed = Cardinality(Upto(c, i - 1))
      /\ h.members = after.members /\ h.max_fees = after.max_fees
  BY <1>1, CountedStep
<1>5. app_mode_blindsign_required(mode) /\ mode.blindsign
  BY DEF BatchInv, BatchKept, app_mode_blindsign_required
<1>6. before.initialized
  BY Zenon DEF Counted, GroupState
<1>7. InBatch(before) /\ InBatch(h)
  BY <1>4, <1>5, <1>6, Zenon DEF InBatch
<1>8. AddFees(GroupForChunk(a), m) = h
  <2> HIDE DEF before, h, m
  <2> QED
    BY <1>3, <1>7, Zenon DEF h, AddFees, Joined
<1>9. NotLastOfGroup(h) <=> Later(c) # {}
  BY <1>1, <1>4, CountStep DEF NotLastOfGroup
<1> HIDE DEF h, before, after, m, a, status, last
<1>11. /\ group_txn' = (IF last THEN after ELSE before)
       /\ app_mode_blindsign_required(mode')
       /\ reply'.sw # "LOCKED"
       /\ screen'.kind # "none" =>
            /\ last /\ Later(c) = {} /\ reply'.sw = "none"
            /\ screen'.kind = "summary"
            /\ screen'.shows = after.members /\ screen'.max_fees = after.max_fees
       /\ last /\ Later(c) = {} => screen'.kind # "none"
  <2>1. CASE StoreTxChunk(a)
    <3>1. /\ process_chunk(a, <<TXTag>>) /\ status # "complete" /\ group_txn' = before
          /\ reply' = Status(status) /\ mode' = mode /\ screen' = screen
      BY <1>3, <2>1 DEF StoreTxChunk, status
    <3>2. status = "OK" /\ ~last
      BY <1>2, <3>1
    <3> QED
      BY <1>5, <3>1, <3>2 DEF Status, Answer
  <2>2. CASE RejectTx(a)
    <3>1. /\ process_chunk(a, <<TXTag>>) /\ status = "complete"
          /\ ParsedTxns(buffer') = {} \/ \E t \in ParsedTxns(buffer') : t \notin WellFormed
      BY <2>2 DEF RejectTx, status
    <3> QED
      BY <1>2, <3>1
  <2>3. ASSUME process_chunk(a, <<TXTag>>), status = "complete"
        PROVE  last /\ ParsedTxns(buffer') \intersect WellFormed = {m}
    BY <1>2, <2>3
  <2>4. CASE SignInBatch(a)
    <3>1. /\ process_chunk(a, <<TXTag>>) /\ status = "complete" /\ mode' = mode /\ screen' = screen
          /\ reply' = app_sign(hdPath', buffer')
      BY <2>4 DEF SignInBatch, status
    <3>2. \E t \in ParsedTxns(buffer') \intersect WellFormed :
            LET g == AddFees(GroupForChunk(a), t)
            IN  NotLastOfGroup(g) /\ group_txn' = increment_num_of_txns_reviewed(g)
      BY <2>4, Zenon DEF SignInBatch
    <3>3. NotLastOfGroup(h) /\ group_txn' = increment_num_of_txns_reviewed(h)
      BY <1>8, <2>3, <3>1, <3>2
    <3>4. reply'.sw # "LOCKED"
      BY <3>1 DEF app_sign, Signed, Status, Answer
    <3> QED
      BY <1>4, <1>5, <1>9, <2>3, <3>1, <3>3, <3>4
  <2>5. CASE ReviewTx(a)
    <3>1. /\ process_chunk(a, <<TXTag>>) /\ status = "complete" /\ reply' = Status("none")
      BY <2>5 DEF ReviewTx, status
    <3>2. \E t \in ParsedTxns(buffer') \intersect WellFormed :
         LET g == AddFees(GroupForChunk(a), t)
         IN  /\ InBatch(g) => ~NotLastOfGroup(g)
             /\ screen' = [kind      |-> IF InBatch(g) THEN "summary" ELSE "transaction",
                           shows     |-> IF InBatch(g) THEN g.members ELSE {t},
                           max_fees  |-> g.max_fees,
                           to_review |-> g.num_of_txns - g.num_of_txns_reviewed,
                           key       |-> Unset]
             /\ group_txn' = IF g.initialized THEN increment_num_of_txns_reviewed(g) ELSE g
             /\ mode' = ModeAfter(t)
      BY <2>5, Zenon DEF ReviewTx
    <3>3. PICK t \in {m} :
         LET g == AddFees(GroupForChunk(a), t)
         IN  /\ InBatch(g) => ~NotLastOfGroup(g)
             /\ screen' = [kind      |-> IF InBatch(g) THEN "summary" ELSE "transaction",
                           shows     |-> IF InBatch(g) THEN g.members ELSE {t},
                           max_fees  |-> g.max_fees,
                           to_review |-> g.num_of_txns - g.num_of_txns_reviewed,
                           key       |-> Unset]
             /\ group_txn' = IF g.initialized THEN increment_num_of_txns_reviewed(g) ELSE g
             /\ mode' = ModeAfter(t)
      BY <2>3, <3>1, <3>2
    <3>4. t = m
      OBVIOUS
    <3>5. /\ ~NotLastOfGroup(h)
          /\ screen' = [kind |-> "summary", shows |-> h.members, max_fees |-> h.max_fees,
                        to_review |-> h.num_of_txns - h.num_of_txns_reviewed, key |-> Unset]
          /\ group_txn' = increment_num_of_txns_reviewed(h)
          /\ mode' = ModeAfter(m)
      BY <1>4, <1>7, <1>8, <3>3, <3>4
    <3>6. mode' = mode
      BY <1>5, <3>5 DEF ModeAfter
    <3>7. /\ screen'.kind = "summary" /\ screen'.shows = after.members
          /\ screen'.max_fees = after.max_fees /\ group_txn' = after
      BY <1>4, <3>5
    <3>8. reply'.sw = "none"
      BY <3>1 DEF Status, Answer
    <3> QED
      BY <1>5, <1>9, <2>3, <3>1, <3>5, <3>6, <3>7, <3>8
  <2> QED
    BY <2>1, <2>2, <2>4, <2>5 DEF handle_sign_msgpack, a
<1>12. Later(c) = {} => Chosen(c) \subseteq after.members
  <2>1. call[c].toSign = OwnPositions(c)
    BY <1>1 DEF PlanOK
  <2>2. Later(c) = {} => Upto(c, i) = OwnPositions(c)
    BY <1>1, CountStep
  <2>3. after.members = {Request[c].items[j] : j \in Upto(c, i)}
    BY Zenon DEF after, Counted, GroupState
  <2> QED
    BY <2>1, <2>2, <2>3 DEF Chosen
<1>13. /\ call' = call
       /\ LastInHand(c)' <=> last /\ Later(c) = {}
       /\ SignsGroup(c)'
       /\ GroupFits(c, call[c], TRUE)' <=> group_txn' = IF last THEN after ELSE before
  <2>1. SignsGroup(c)'
    BY DEF SignsGroup
  <2>2. LastInHand(c)' <=> last /\ Later(c) = {}
    BY <1>1 DEF LastInHand, Later, Item, last, m
  <2>3. GroupFits(c, call[c], TRUE)' <=> group_txn' = IF last THEN after ELSE before
    BY DEF GroupFits, last, after, before, Item, m, i
  <2> QED
    BY <2>1, <2>2, <2>3
<1>14. screen'.kind # "none" => ShownFor(c)'
  <2>1. Chosen(c)' = Chosen(c) /\ Request[c].kind = "signGroup"
    BY <1>1 DEF Chosen
  <2>2. CASE screen'.kind # "none"
    <3>1. group_txn' = after /\ LastInHand(c)' /\ Chosen(c) \subseteq screen'.shows
      BY <1>11, <1>12, <1>13, <2>2
    <3> QED
      BY <1>11, <2>1, <2>2, <3>1 DEF ShownFor
  <2> QED
    BY <2>2
<1> QED
  BY <1>11, <1>13, <1>14 DEF Handled

\* A transaction on its own is always shown, and ends any group.
LEMMA LoneItemHandled ==
    ASSUME BatchInv, Undisrupted, GroupsAreTaken, NEW c \in Calls, call[c].stage = "signing",
           Request[c].kind = "sign", pending = {},
           handle_sign_msgpack(signSendChunk(c)), screen.kind = "none", UNCHANGED call
    PROVE  Handled(c)'
<1> DEFINE a == signSendChunk(c)
           m == Item(c)
           status == ChunkStatus(a, <<TXTag>>)
           last == call[c].chunk = Size[m]
<1>1. /\ CallOK(c, call[c]) /\ PlanOK(c, call[c]) /\ Undisturbed(c) /\ CauseInv
  BY ExchangeUndisturbed DEF Active, BatchInv
<1>2. ASSUME process_chunk(a, <<TXTag>>)
      PROVE  /\ status = IF last THEN "complete" ELSE "OK"
             /\ last => ParsedTxns(buffer') = {m}
             /\ m \in WellFormed
  BY <1>1, <1>2, ChunkIsOfItem
<1>3. GroupForChunk(a) = NoGroup
  <2>1. P1_NUM_OF_TXNS_IN_GROUP(a.p1) = 0
    BY <1>1, CountOfChunk
  <2> QED
    BY <2>1 DEF GroupForChunk, GroupAtChunk, GroupCountRefused
<1>4. /\ NoGroup.initialized = FALSE
      /\ NoGroup.num_of_txns_reviewed >= NoGroup.num_of_txns
  BY DEF NoGroup
<1>5. app_mode_blindsign_required(mode) /\ mode.blindsign
  BY DEF BatchInv, BatchKept, app_mode_blindsign_required
<1>6. ~InBatch(NoGroup)
  BY <1>4, Zenon DEF InBatch
<1>7. \A t : AddFees(GroupForChunk(a), t) = NoGroup
  BY <1>3, <1>6, Zenon DEF AddFees
<1>8. Chosen(c) = {m} /\ Later(c) = {}
  <2>1. Len(Request[c].items) = 1 /\ DOMAIN Request[c].items = 1..Len(Request[c].items)
    BY RequestType, CallAssumption
  <2>2. DOMAIN Request[c].items = {1}
    BY <2>1
  <2>3. OwnPositions(c) = {1} /\ call[c].item = 1 /\ call[c].toSign = {1}
    BY <1>1, <2>2 DEF OwnPositions, PlanOK, CallOK, CallType
  <2> QED
    BY <2>3 DEF Chosen, Later, Item
<1> HIDE DEF m, a, status, last
<1>9. /\ group_txn' = NoGroup
      /\ app_mode_blindsign_required(mode')
      /\ reply'.sw # "LOCKED"
      /\ screen'.kind # "none" =>
           /\ last /\ reply'.sw = "none"
           /\ screen'.kind = "transaction" /\ screen'.shows = {m}
      /\ last => screen'.kind # "none"
  <2>1. CASE StoreTxChunk(a)
    <3>1. /\ process_chunk(a, <<TXTag>>) /\ status # "complete" /\ group_txn' = NoGroup
          /\ reply' = Status(status) /\ mode' = mode /\ screen' = screen
      BY <1>3, <2>1 DEF StoreTxChunk, status
    <3>2. status = "OK" /\ ~last
      BY <1>2, <3>1
    <3> QED
      BY <1>5, <3>1, <3>2 DEF Status, Answer
  <2>2. CASE RejectTx(a)
    <3>1. /\ process_chunk(a, <<TXTag>>) /\ status = "complete"
          /\ ParsedTxns(buffer') = {} \/ \E t \in ParsedTxns(buffer') : t \notin WellFormed
      BY <2>2 DEF RejectTx, status
    <3> QED
      BY <1>2, <3>1
  <2>3. ASSUME process_chunk(a, <<TXTag>>), status = "complete"
        PROVE  last /\ ParsedTxns(buffer') \intersect WellFormed = {m}
    BY <1>2, <2>3
  <2>4. ~SignInBatch(a)
    BY <1>6, <1>7, Zenon DEF SignInBatch
  <2>5. CASE ReviewTx(a)
    <3>1. /\ process_chunk(a, <<TXTag>>) /\ status = "complete" /\ reply' = Status("none")
      BY <2>5 DEF ReviewTx, status
    <3>2. \E t \in ParsedTxns(buffer') \intersect WellFormed :
         LET g == AddFees(GroupForChunk(a), t)
         IN  /\ InBatch(g) => ~NotLastOfGroup(g)
             /\ screen' = [kind      |-> IF InBatch(g) THEN "summary" ELSE "transaction",
                           shows     |-> IF InBatch(g) THEN g.members ELSE {t},
                           max_fees  |-> g.max_fees,
                           to_review |-> g.num_of_txns - g.num_of_txns_reviewed,
                           key       |-> Unset]
             /\ group_txn' = IF g.initialized THEN increment_num_of_txns_reviewed(g) ELSE g
             /\ mode' = ModeAfter(t)
      BY <2>5, Zenon DEF ReviewTx
    <3>3. /\ screen'.kind = "transaction" /\ screen'.shows = {m}
          /\ group_txn' = NoGroup
          /\ mode' = ModeAfter(m)
      BY <1>4, <1>6, <1>7, <2>3, <3>1, <3>2
    <3>4. mode' = mode
      BY <1>5, <3>3 DEF ModeAfter
    <3>5. reply'.sw = "none"
      BY <3>1 DEF Status, Answer
    <3> QED
      BY <1>5, <2>3, <3>1, <3>3, <3>4, <3>5
  <2> QED
    BY <2>1, <2>2, <2>4, <2>5 DEF handle_sign_msgpack, a
<1>10. /\ LastInHand(c)' <=> last
       /\ ~SignsGroup(c)'
       /\ AtRest'
       /\ Chosen(c)' = {m}
  <2>1. ~SignsGroup(c)'
    BY DEF SignsGroup
  <2>2. LastInHand(c)' <=> last
    BY <1>1, <1>8 DEF LastInHand, Later, Item, last, m
  <2>3. AtRest'
    BY <1>4, <1>9 DEF AtRest
  <2>4. Chosen(c)' = {m}
    BY <1>8 DEF Chosen
  <2> QED
    BY <2>1, <2>2, <2>3, <2>4
<1>11. screen'.kind # "none" => ShownFor(c)'
  BY <1>9, <1>10 DEF ShownFor
<1> QED
  BY <1>9, <1>10, <1>11 DEF Handled

\* A message is shown, and ends any group.
LEMMA MessageHandled ==
    ASSUME BatchInv, Undisrupted, NEW c \in Calls, call[c].stage = "signing",
           Request[c].kind = "signData", pending = {},
           handle_arbitrary_sign(rawSignChunk(c)), screen.kind = "none", UNCHANGED call
    PROVE  Handled(c)'
<1> DEFINE a == rawSignChunk(c)
           m == Item(c)
           status == ChunkStatus(a, <<>>)
           last == call[c].chunk = Size[m]
<1>1. /\ CallOK(c, call[c]) /\ PlanOK(c, call[c]) /\ Undisturbed(c) /\ CauseInv
  BY ExchangeUndisturbed DEF Active, BatchInv
<1>2. process_chunk(a, <<>>) => status = IF last THEN "complete" ELSE "OK"
  BY <1>1, ChunkIsOfMessage
<1>3. group_txn' = NoGroup /\ mode' = mode
  <2>1. P1_NUM_OF_TXNS_IN_GROUP(a.p1) = 0
    BY <1>1, CountOfChunk
  <2> QED
    BY <2>1 DEF handle_arbitrary_sign, GroupAtChunk, GroupCountRefused
<1>4. NoGroup.num_of_txns_reviewed >= NoGroup.num_of_txns
  BY DEF NoGroup
<1>5. app_mode_blindsign_required(mode)
  BY DEF BatchInv, BatchKept
<1>6. Later(c) = {}
  <2>1. Len(Request[c].items) = 1 /\ DOMAIN Request[c].items = 1..Len(Request[c].items)
    BY RequestType, CallAssumption
  <2>2. DOMAIN Request[c].items = {1}
    BY <2>1
  <2>3. call[c].item = 1 /\ call[c].toSign \subseteq {1}
    BY <1>1, <2>2 DEF CallOK, CallType
  <2> QED
    BY <2>3 DEF Later
<1> HIDE DEF m, a, status, last
<1>7. /\ reply'.sw # "LOCKED"
      /\ screen'.kind # "none" => last /\ reply'.sw = "none" /\ screen'.kind = "message"
  <2>1. CASE StoreMessageChunk(a)
    <3>1. /\ process_chunk(a, <<>>) /\ status # "complete"
          /\ reply' = Status(status) /\ screen' = screen
      BY <2>1 DEF StoreMessageChunk, status
    <3>2. status = "OK" /\ ~last
      BY <1>2, <3>1
    <3> QED
      BY <3>1, <3>2 DEF Status, Answer
  <2>2. CASE ReviewMessage(a)
    <3>1. /\ process_chunk(a, <<>>) /\ status = "complete" /\ reply' = Status("none")
          /\ screen'.kind = "message"
      BY <2>2 DEF ReviewMessage, status, NoScreen
    <3>2. last
      BY <1>2, <3>1
    <3> QED
      BY <3>1, <3>2 DEF Status, Answer
  <2> QED
    BY <2>1, <2>2 DEF handle_arbitrary_sign, a
<1>8. /\ LastInHand(c)' <=> last
      /\ ~SignsGroup(c)'
      /\ AtRest'
  <2>1. ~SignsGroup(c)'
    BY DEF SignsGroup
  <2>2. LastInHand(c)' <=> last
    BY <1>1, <1>6 DEF LastInHand, Later, Item, last, m
  <2>3. AtRest'
    BY <1>3, <1>4 DEF AtRest
  <2> QED
    BY <2>1, <2>2, <2>3
<1>9. screen'.kind # "none" => ShownFor(c)'
  BY <1>7, <1>8 DEF ShownFor
<1> QED
  BY <1>3, <1>5, <1>7, <1>8, <1>9 DEF Handled

\* The account's command touches neither the group nor the screen.
LEMMA PubkeyHandled ==
    ASSUME BatchInv, NEW c \in Calls, call[c].stage = "pubkey", pending = {},
           handle_get_public_key(getPubkey(c)), screen.kind = "none", UNCHANGED call
    PROVE  Handled(c)'
<1>1. /\ group_txn' = group_txn /\ mode' = mode /\ screen' = screen /\ reply' = Answer("OK", hdPath', {})
  BY DEF handle_get_public_key, getPubkey
<1>2. reply'.sw = "OK"
  BY <1>1 DEF Answer
<1>3. \A d \in Calls : ~SignsGroup(d)
  <2>1. \A d \in Calls : Active(d) => d = c
    BY DEF BatchInv, CauseInv, PlanInv, KeyInv, OneOpen, Active
  <2> QED
    BY <2>1 DEF SignsGroup, Active
<1>4. AtRest /\ app_mode_blindsign_required(mode)
  BY <1>3 DEF BatchInv, BatchKept
<1>5. AtRest'
  BY <1>1, <1>4 DEF AtRest
<1>6. ~SignsGroup(c)' /\ ~LastInHand(c)'
  BY DEF SignsGroup, LastInHand
<1> QED
  BY <1>1, <1>2, <1>4, <1>5, <1>6 DEF Handled

\* Whatever a call sends is handled as the batch needs it.
LEMMA ExchangeHandled ==
    ASSUME BatchInv, Undisrupted, GroupsAreTaken, NEW c \in Calls, Exchange(c)
    PROVE  Handled(c)'
<1>1. /\ Active(c) /\ pending = {} /\ screen.kind = "none" /\ UNCHANGED call
  BY DEF Exchange, handleApdu
<1> DEFINE a == NextApdu(c)
<1>2. \/ handle_sign_msgpack(a) \/ handle_arbitrary_sign(a)
      \/ handle_get_public_key(a) \/ handle_other(a)
  BY DEF Exchange, handleApdu, RefuseLocked, Undisrupted
<1>3. CASE call[c].stage = "pubkey"
  <2>1. a = getPubkey(c) /\ getPubkey(c).ins = "INS_GET_PUBLIC_KEY"
    BY <1>3 DEF NextApdu, getPubkey
  <2>2. handle_get_public_key(getPubkey(c))
    BY <1>2, <2>1 DEF handle_sign_msgpack, handle_arbitrary_sign, handle_other
  <2> QED
    BY <1>1, <1>3, <2>2, PubkeyHandled
<1>4. CASE call[c].stage = "signing" /\ Request[c].kind = "signData"
  <2>1. a = rawSignChunk(c) /\ rawSignChunk(c).ins = "INS_ARBITRARY_SIGN"
    BY <1>4 DEF NextApdu, rawSignChunk
  <2>2. handle_arbitrary_sign(rawSignChunk(c))
    BY <1>2, <2>1 DEF handle_sign_msgpack, handle_get_public_key, handle_other
  <2> QED
    BY <1>1, <1>4, <2>2, MessageHandled
<1>5. CASE call[c].stage = "signing" /\ Request[c].kind # "signData"
  <2>1. a = signSendChunk(c) /\ signSendChunk(c).ins = "INS_SIGN_MSGPACK"
    BY <1>5 DEF NextApdu, signSendChunk
  <2>2. handle_sign_msgpack(signSendChunk(c))
    BY <1>2, <2>1 DEF handle_arbitrary_sign, handle_get_public_key, handle_other
  <2>3. CASE Request[c].kind = "signGroup"
    BY <1>1, <1>5, <2>2, <2>3, GroupItemHandled DEF SignsGroup
  <2>4. CASE Request[c].kind = "sign"
    BY <1>1, <1>5, <2>2, <2>4, LoneItemHandled
  <2> QED
    BY <1>5, <2>3, <2>4, RequestType DEF Requests
<1> QED
  BY <1>1, <1>3, <1>4, <1>5 DEF Active

\* An exchange keeps what blind signing keeps.
LEMMA ExchangeKeepsBatch ==
    ASSUME BatchInv, Undisrupted, GroupsAreTaken, NEW c \in Calls, Exchange(c)
    PROVE  BatchKept'
<1>1. /\ Active(c) /\ pending = {} /\ pending' = {c} /\ call' = call /\ approved' = approved
      /\ excused' = excused
  <2>1. reply'.sw # "LOCKED"
    BY ExchangeHandled DEF Handled
  <2>2. OneOpen /\ Active(c)
    BY DEF BatchInv, CauseInv, PlanInv, KeyInv, Exchange
  <2>3. ~\E d \in Calls : IF d = c THEN reply'.sw = "LOCKED" ELSE Active(d)
    BY <2>1, <2>2 DEF OneOpen
  <2> QED
    BY <2>3 DEF Exchange
<1>2. Handled(c)'
  BY ExchangeHandled
<1>3. \A d \in Calls : Active(d) => d = c /\ d \notin excused
  <2>1. \A d \in Calls : Active(d) => d = c
    BY <1>1 DEF BatchInv, CauseInv, PlanInv, KeyInv, OneOpen
  <2>2. \A d \in Calls : Active(d) => d \notin excused
    BY <1>1 DEF BatchInv, BatchKept
  <2> QED
    BY <2>1, <2>2
<1>4. /\ \A d : Active(d)' <=> Active(d)
      /\ \A d : SignsGroup(d)' <=> SignsGroup(d)
      /\ \A d : Chosen(d)' = Chosen(d)
      /\ \A d \in Calls : SignsGroup(d) => Active(d)
  BY <1>1 DEF Active, SignsGroup, Chosen
<1>5. app_mode_blindsign_required(mode')
  BY <1>2 DEF Handled
<1>6. \A d \in Calls : (call[d].stage = "idle" => d \notin excused)'
  BY <1>1 DEF BatchInv, BatchKept
<1>7. \A d \in Calls : Active(d)' => d \notin excused'
  BY <1>1, <1>3, <1>4
<1>8. ((\A d \in Calls : ~SignsGroup(d)) => AtRest)'
  BY <1>2 DEF Handled
<1>9. ASSUME NEW d \in Calls, SignsGroup(d)'
      PROVE  GroupFits(d, call[d], d \in pending)'
  <2>1. d = c
    BY <1>3, <1>4, <1>9
  <2>2. GroupFits(c, call[c], TRUE)'
    BY <1>2, <1>9, <2>1 DEF Handled
  <2>3. c \in pending'
    BY <1>1
  <2> QED
    BY <2>1, <2>2, <2>3 DEF GroupFits
<1>10. \A d \in pending' : screen'.kind # "none" => ShownFor(d)'
  BY <1>1, <1>2 DEF Handled
<1>11. \A d \in pending' : ~(Request[d].kind # "signData" /\ LastInHand(d)' /\ reply'.sw = "OK")
  <2>1. Request[c].kind # "signData" /\ LastInHand(c)' => reply'.sw = "none"
    BY <1>2 DEF Handled
  <2> QED
    BY <1>1, <2>1
<1>12. \A d \in Calls :
         Request[d].kind # "signData" /\ call'[d].stage = "done" => Chosen(d)' \subseteq approved'
  BY <1>1, <1>4 DEF BatchInv, BatchKept
<1> QED
  BY <1>5, <1>6, <1>7, <1>8, <1>9, <1>10, <1>11, <1>12 DEF BatchKept

\* The user's answer keeps it.
LEMMA UserKeepsBatch ==
    ASSUME BatchInv, Undisrupted, UserApproves \/ UserRejects
    PROVE  BatchKept'
<1>1. /\ call' = call /\ pending' = pending /\ group_txn' = group_txn /\ mode' = mode
      /\ screen.kind # "none" /\ screen'.kind = "none"
      /\ approved \subseteq approved'
      /\ \/ approved' = approved \union screen.shows /\ excused' = excused
         \/ excused' = excused \union pending /\ reply'.sw = "COMMAND_NOT_ALLOWED"
  BY DEF UserApproves, UserRejects, Approve, app_reject, NoScreen, Status, Answer
<1>2. \A d \in pending : ShownFor(d)
  BY <1>1 DEF BatchInv, BatchKept
<1>3. \A d \in Calls : Active(d) => d \notin excused
  BY <1>1 DEF BatchInv, BatchKept
<1>4. \A d \in pending : d \in Calls /\ Active(d)
  BY DEF BatchInv, CauseInv, PlanInv, KeyInv, ClientInv, CallsTyped
<1>5. /\ \A d : Active(d)' <=> Active(d)
      /\ \A d : SignsGroup(d)' <=> SignsGroup(d)
      /\ \A d : Chosen(d)' = Chosen(d)
      /\ \A d : LastInHand(d)' <=> LastInHand(d)
      /\ AtRest' <=> AtRest
  BY <1>1 DEF Active, SignsGroup, Chosen, LastInHand, Later, Item, AtRest
<1>6. app_mode_blindsign_required(mode')
  BY <1>1 DEF BatchInv, BatchKept
<1>7. \A d \in Calls : (call[d].stage = "idle" => d \notin excused)'
  <2>1. \A d \in Calls : call[d].stage = "idle" => d \notin excused /\ d \notin pending
    BY <1>4 DEF BatchInv, BatchKept, Active
  <2> QED
    BY <1>1, <2>1
<1>8. ASSUME NEW d \in Calls, Active(d)', d \in excused'
      PROVE  (/\ d \in pending /\ LastInHand(d)
              /\ reply.sw = "COMMAND_NOT_ALLOWED" /\ screen.kind = "none")'
  <2>1. d \notin excused
    BY <1>3, <1>5, <1>8
  <2>2. d \in pending /\ reply'.sw = "COMMAND_NOT_ALLOWED"
    BY <1>1, <1>8, <2>1
  <2>3. LastInHand(d)
    BY <1>2, <2>2 DEF ShownFor
  <2> QED
    BY <1>1, <1>5, <2>2, <2>3
<1>9. ((\A d \in Calls : ~SignsGroup(d)) => AtRest)'
  BY <1>5 DEF BatchInv, BatchKept
<1>10. ASSUME NEW d \in Calls, SignsGroup(d)'
       PROVE  GroupFits(d, call[d], d \in pending)'
  <2>1. GroupFits(d, call[d], d \in pending)
    BY <1>5, <1>10 DEF BatchInv, BatchKept
  <2> QED
    BY <1>1, <2>1 DEF GroupFits, AtRest, Counted, GroupState, Upto
<1>11. ASSUME NEW d \in pending', Request[d].kind # "signData", reply'.sw = "OK"
       PROVE  Chosen(d)' \subseteq approved'
  <2>1. approved' = approved \union screen.shows
    BY <1>1, <1>11
  <2>2. Chosen(d) \subseteq screen.shows
    BY <1>1, <1>2, <1>11 DEF ShownFor
  <2> QED
    BY <1>5, <2>1, <2>2
<1>12. \A d \in Calls :
         Request[d].kind # "signData" /\ call'[d].stage = "done" => Chosen(d)' \subseteq approved'
  <2>1. \A d \in Calls :
          Request[d].kind # "signData" /\ call[d].stage = "done" => Chosen(d) \subseteq approved
    BY DEF BatchInv, BatchKept
  <2> QED
    BY <1>1, <1>5, <2>1
<1> QED
  BY <1>1, <1>6, <1>7, <1>8, <1>9, <1>10, <1>11, <1>12 DEF BatchKept

\* A call begins.
LEMMA StartKeepsBatch ==
    ASSUME BatchInv, OneAtATime, NEW c \in Calls, Start(c)
    PROVE  BatchKept'
<1>1. /\ call = [d \in Calls |-> call[d]] /\ CallOK(c, call[c]) /\ call[c].stage = "idle"
      /\ \A d \in pending : d \in Calls /\ Active(d)
  BY DEF BatchInv, CauseInv, PlanInv, KeyInv, ClientInv, CallsTyped, Start
<1>2. \A d \in Calls : ~Active(d)
  BY StartsAlone DEF BatchInv, CauseInv, PlanInv, KeyInv, OneAtATime
<1>3. pending = {} /\ pending' = {}
  BY <1>1, <1>2 DEF Start
<1>4. call' = [call EXCEPT ![c] = [call[c] EXCEPT !.stage = "pubkey"]]
  BY DEF OneAtATime, Start
<1>5. call'[c].stage = "pubkey" /\ \A d \in Calls : d # c => call'[d] = call[d]
  BY <1>1, <1>4 DEF CallOK, CallType
<1>6. /\ group_txn' = group_txn /\ mode' = mode /\ excused' = excused /\ approved' = approved
  BY DEF Start, vars
<1>7. c \notin excused
  BY <1>1 DEF BatchInv, BatchKept
<1>8. \A d \in Calls : ~SignsGroup(d)'
  BY <1>2, <1>5 DEF SignsGroup, Active
<1>9. AtRest'
  BY <1>2, <1>6 DEF BatchInv, BatchKept, SignsGroup, Active, AtRest
<1>10. app_mode_blindsign_required(mode')
  BY <1>6 DEF BatchInv, BatchKept
<1>11. \A d \in Calls : (call[d].stage = "idle" => d \notin excused)'
  BY <1>5, <1>6, <1>7 DEF BatchInv, BatchKept
<1>12. \A d \in Calls : Active(d)' => d \notin excused'
  BY <1>2, <1>5, <1>6, <1>7 DEF Active
<1>13. \A d \in Calls :
         Request[d].kind # "signData" /\ call'[d].stage = "done" => Chosen(d)' \subseteq approved'
  BY <1>5, <1>6 DEF BatchInv, BatchKept, Chosen
<1> QED
  BY <1>3, <1>8, <1>9, <1>10, <1>11, <1>12, <1>13 DEF BatchKept

\* Outside a group, and at the end of one, the next count starts a group of its own.
LEMMA GroupIsOver ==
    ASSUME BatchInv, NEW c \in Calls, Active(c), ~SignsGroup(c) \/ (c \in pending /\ LastInHand(c))
    PROVE  AtRest
<1>1. CASE ~SignsGroup(c)
  <2>1. \A d \in Calls : Active(d) => d = c
    BY DEF BatchInv, CauseInv, PlanInv, KeyInv, OneOpen
  <2>2. \A d \in Calls : ~SignsGroup(d)
    BY <1>1, <2>1 DEF SignsGroup, Active
  <2> QED
    BY <2>2 DEF BatchInv, BatchKept
<1>2. CASE SignsGroup(c) /\ c \in pending /\ LastInHand(c)
  <2> DEFINE n == Cardinality(OwnPositions(c))
             i == call[c].item
             fees == FeesTo(c, OwnPositions(c))[i]
             names == {Request[c].items[j] : j \in Upto(c, i)}
             yes == TRUE
  <2>1. CallOK(c, call[c]) /\ PlanOK(c, call[c])
    BY DEF BatchInv, CauseInv, PlanInv, KeyInv, ClientInv, CallsTyped
  <2>2. n \in Nat /\ Cardinality(Upto(c, i)) = n
    BY <1>2, <2>1, CountStep DEF LastInHand
  <2>3. group_txn = Counted(c, i)
    <3>1. GroupFits(c, call[c], c \in pending)
      BY <1>2 DEF BatchInv, BatchKept
    <3> QED
      BY <1>2, <3>1 DEF GroupFits, LastInHand, Item
  <2>4. group_txn = GroupState(yes, n, n, fees, names)
    BY <2>2, <2>3, Zenon DEF Counted
  <2> HIDE DEF n, fees, names, yes
  <2>5. group_txn.num_of_txns = n /\ group_txn.num_of_txns_reviewed = n
    BY <2>4 DEF GroupState
  <2> QED
    BY <2>2, <2>5 DEF AtRest
<1> QED
  BY <1>1, <1>2

\* What a call whose state becomes r needs of the device.
ResumesWell(c, r) ==
    /\ r.stage \in {"signing", "done", "failed"}
    /\ r.stage = "signing" => c \notin excused
    /\ r.stage = "signing" /\ Request[c].kind = "signGroup" => GroupFits(c, r, FALSE)
    /\ ~(r.stage = "signing" /\ Request[c].kind = "signGroup") => AtRest
    /\ Request[c].kind # "signData" /\ r.stage = "done"
         => {Request[c].items[i] : i \in r.toSign} \subseteq approved

\* The answer to the account's command.
LEMMA PubkeyResumes ==
    ASSUME BatchInv, Undisrupted, NEW c \in Calls, pending = {c}, call[c].stage = "pubkey"
    PROVE  ResumesWell(c, AfterAnswer(c, reply))
<1>1. /\ CallOK(c, call[c]) /\ PlanOK(c, call[c]) /\ c \in pending
      /\ reply.sw = "OK" => reply.key = Request[c].account
  BY DEF BatchInv, CauseInv, PlanInv, KeyInv, ClientInv, CallsTyped, KeyOfReply
<1>2. Active(c) /\ ~SignsGroup(c) /\ ~LastInHand(c)
  BY DEF Active, SignsGroup, LastInHand
<1>3. AtRest /\ c \notin excused
  BY <1>1, <1>2, GroupIsOver DEF BatchInv, BatchKept
<1> DEFINE r == AfterAnswer(c, reply)
<1>4. r = AfterPubkey(c, reply.sw, reply.key)
  BY DEF AfterAnswer
<1>5. CASE r = Failed(c)
  <2>1. r.stage = "failed"
    BY <1>1, <1>5, FailedType
  <2> HIDE DEF r
  <2>2. ResumesWell(c, r)
    BY <1>3, <2>1 DEF ResumesWell
  <2> QED
    BY <2>2 DEF r
<1>6. CASE OwnPositions(c) # {} /\ r = Signing(c, OwnPositions(c))
  <2>1. OwnPositions(c) \in SUBSET DOMAIN Request[c].items
    BY DEF OwnPositions
  <2>2. r.stage = "signing" /\ r.chunk = 1 /\ r.item = Min(OwnPositions(c))
    BY <1>1, <1>6, <2>1, SigningType
  <2>3. Upto(c, r.item - 1) = {}
    <3>1. OwnPositions(c) \subseteq Nat
      BY <2>1, RequestType
    <3>2. r.item \in OwnPositions(c) /\ \A y \in OwnPositions(c) : r.item <= y
      BY <1>6, <2>2, <3>1, FirstPosition
    <3> HIDE DEF r
    <3>3. \A y \in OwnPositions(c) : y \in Nat /\ r.item \in Nat /\ r.item <= y
      BY <3>1, <3>2
    <3> QED
      BY <3>3 DEF Upto
  <2> HIDE DEF r
  <2>4. GroupFits(c, r, FALSE)
    BY <1>3, <2>2, <2>3 DEF GroupFits
  <2>5. ResumesWell(c, r)
    BY <1>3, <2>2, <2>4 DEF ResumesWell
  <2> QED
    BY <2>5 DEF r
<1> QED
  BY <1>1, <1>4, <1>5, <1>6, PubkeyPlan

\* The answer to a chunk.
LEMMA ChunkResumes ==
    ASSUME BatchInv, Undisrupted, NEW c \in Calls, pending = {c}, call[c].stage = "signing",
           reply.sw # "none"
    PROVE  ResumesWell(c, AfterAnswer(c, reply))
<1>1. /\ CallOK(c, call[c]) /\ PlanOK(c, call[c]) /\ c \in pending /\ TypeOK
      /\ Undisturbed(c) => UploadKept(c)
  BY DEF BatchInv, CauseInv, PlanInv, KeyInv, ClientInv, CallsTyped, Inv
<1>2. Active(c) /\ (SignsGroup(c) <=> Request[c].kind = "signGroup")
  BY DEF Active, SignsGroup
<1>3. GroupFits(c, call[c], TRUE) \/ ~SignsGroup(c)
  <2>1. SignsGroup(c) => GroupFits(c, call[c], c \in pending)
    BY DEF BatchInv, BatchKept
  <2> QED
    BY <1>1, <2>1 DEF GroupFits
<1> DEFINE r == AfterAnswer(c, reply)
           n == [call[c] EXCEPT !.chunk = @ + 1]
           d == AfterItem(c, reply.signatures)
<1>4. r = AfterChunk(c, reply.sw, reply.signatures)
  BY DEF AfterAnswer
<1>5. CASE c \in excused
  <2>1. LastInHand(c) /\ reply.sw = "COMMAND_NOT_ALLOWED"
    BY <1>2, <1>5 DEF BatchInv, BatchKept
  <2>2. AtRest
    BY <1>1, <1>2, <2>1, GroupIsOver
  <2>3. ~AnswerIgnored(c)
    BY <2>1, ItemSize DEF AnswerIgnored, LastInHand
  <2>4. r = Failed(c)
    BY <1>4, <2>1, <2>3, Zenon DEF AfterChunk
  <2>5. r.stage = "failed"
    BY <1>1, <2>4, FailedType
  <2> HIDE DEF r
  <2>6. ResumesWell(c, r)
    BY <2>2, <2>5 DEF ResumesWell
  <2> QED
    BY <2>6 DEF r
<1>6. CASE c \notin excused
  <2>1. reply.sw = "OK"
    BY <1>1, <1>2, <1>6 DEF Undisturbed, Undisrupted, UploadKept
  <2>2. r = IF call[c].chunk < Size[Item(c)] THEN n ELSE d
    BY <1>4, <2>1 DEF AfterChunk
  <2>3. call[c] \in CallType(c) /\ call[c].chunk \in 1..Size[Item(c)] /\ Size[Item(c)] \in Nat
    BY <1>1, ItemSize DEF CallOK, CallType, Item
  <2>4. CASE call[c].chunk < Size[Item(c)]
    <3>1. /\ n.stage = "signing" /\ n.item = call[c].item /\ n.chunk = call[c].chunk + 1
      BY <2>3 DEF CallType
    <3> HIDE DEF n, r
    <3>2. n.chunk # 1 /\ call[c].chunk # Size[Request[c].items[call[c].item]]
      BY <2>3, <2>4, <3>1 DEF Item
    <3>3. SignsGroup(c) => GroupFits(c, n, FALSE)
      BY <1>3, <3>1, <3>2 DEF GroupFits
    <3>4. ~SignsGroup(c) => AtRest
      BY <1>2, GroupIsOver
    <3>5. ResumesWell(c, n)
      BY <1>2, <1>6, <3>1, <3>3, <3>4 DEF ResumesWell
    <3> QED
      BY <2>2, <2>4, <3>5 DEF r
  <2>5. CASE ~(call[c].chunk < Size[Item(c)])
    <3>1. reply.signatures \in SUBSET Signature
      BY <1>1, ReplySignatures
    <3>2. /\ d.chunk = 1 /\ d.toSign = call[c].toSign
          /\ Later(c) = {} => d.stage = "done"
          /\ Later(c) # {} => d.item = Min(Later(c)) /\ d.stage = "signing"
      BY <1>1, <3>1, AfterItemType
    <3>3. call[c].chunk = Size[Item(c)] /\ r = d
      BY <2>2, <2>3, <2>5
    <3> HIDE DEF d, r
    <3>4. CASE Later(c) = {}
      <4>1. LastInHand(c)
        BY <3>3, <3>4 DEF LastInHand
      <4>2. AtRest
        BY <1>1, <1>2, <4>1, GroupIsOver
      <4>3. Request[c].kind # "signData" => Chosen(c) \subseteq approved
        BY <1>1, <2>1, <4>1 DEF BatchInv, BatchKept
      <4>4. Chosen(c) = {Request[c].items[i] : i \in d.toSign}
        BY <3>2 DEF Chosen
      <4>5. ResumesWell(c, d)
        BY <3>2, <3>4, <4>2, <4>3, <4>4 DEF ResumesWell
      <4> QED
        BY <3>3, <4>5 DEF r
    <3>5. CASE Later(c) # {}
      <4>1. /\ Counted(c, Min(Later(c)) - 1) = Counted(c, call[c].item)
            /\ Upto(c, Min(Later(c)) - 1) # {}
        BY <1>1, <3>5, CountedNext
      <4>2. SignsGroup(c) => group_txn = Counted(c, call[c].item)
        BY <1>3, <3>3 DEF GroupFits, Item
      <4>3. SignsGroup(c) => GroupFits(c, d, FALSE)
        BY <3>2, <3>5, <4>1, <4>2 DEF GroupFits
      <4>4. ~SignsGroup(c) => AtRest
        BY <1>2, GroupIsOver
      <4>5. ResumesWell(c, d)
        BY <1>2, <1>6, <3>2, <3>5, <4>3, <4>4 DEF ResumesWell
      <4> QED
        BY <3>3, <4>5 DEF r
    <3> QED
      BY <3>4, <3>5
  <2> QED
    BY <2>4, <2>5
<1> QED
  BY <1>5, <1>6

\* The client reads the answer.
LEMMA ResumeKeepsBatch ==
    ASSUME BatchInv, Undisrupted, NEW c \in Calls, Resume(c)
    PROVE  BatchKept'
<1> DEFINE r == AfterAnswer(c, reply)
<1>1. /\ call = [d \in Calls |-> call[d]] /\ pending = {c} /\ pending' = {} /\ Active(c)
      /\ call' = [call EXCEPT ![c] = r] /\ reply.sw # "none"
      /\ group_txn' = group_txn /\ mode' = mode /\ approved' = approved /\ excused' = excused
  BY DEF BatchInv, CauseInv, PlanInv, KeyInv, ClientInv, CallsTyped, Resume, vars
<1>2. ResumesWell(c, r)
  BY <1>1, PubkeyResumes, ChunkResumes DEF Active
<1> HIDE DEF r
<1>3. call'[c] = r /\ \A d \in Calls : d # c => call'[d] = call[d]
  BY <1>1
<1>4. \A d \in Calls : d # c => ~Active(d)
  BY <1>1 DEF BatchInv, CauseInv, PlanInv, KeyInv, OneOpen
<1>5. app_mode_blindsign_required(mode')
  BY <1>1 DEF BatchInv, BatchKept
<1>6. \A d \in Calls : (call[d].stage = "idle" => d \notin excused)'
  BY <1>1, <1>2, <1>3 DEF BatchInv, BatchKept, ResumesWell
<1>7. \A d \in Calls : Active(d)' => d \notin excused'
  BY <1>1, <1>2, <1>3, <1>4 DEF Active, ResumesWell
<1>8. \A d \in Calls : SignsGroup(d)' => d = c /\ r.stage = "signing"
  BY <1>3, <1>4 DEF SignsGroup, Active
<1>9. ((\A d \in Calls : ~SignsGroup(d)) => AtRest)'
  <2>1. SignsGroup(c)' <=> r.stage = "signing" /\ Request[c].kind = "signGroup"
    BY <1>3 DEF SignsGroup
  <2>2. ~SignsGroup(c)' => AtRest
    BY <1>2, <2>1 DEF ResumesWell
  <2>3. AtRest' <=> AtRest
    BY <1>1 DEF AtRest
  <2> QED
    BY <2>2, <2>3
<1>10. ASSUME NEW d \in Calls, SignsGroup(d)'
       PROVE  GroupFits(d, call[d], d \in pending)'
  <2>1. d = c /\ r.stage = "signing" /\ Request[c].kind = "signGroup"
    BY <1>8, <1>10 DEF SignsGroup
  <2>2. GroupFits(c, r, FALSE)
    BY <1>2, <2>1 DEF ResumesWell
  <2>3. c \notin pending' /\ call'[c] = r /\ group_txn' = group_txn
    BY <1>1, <1>3
  <2>4. (AtRest' <=> AtRest) /\ \A n : Counted(c, n)' = Counted(c, n)
    BY <1>1 DEF AtRest, Counted, GroupState, Upto
  <2> QED
    BY <2>1, <2>2, <2>3, <2>4 DEF GroupFits
<1>11. \A d \in Calls :
         Request[d].kind # "signData" /\ call'[d].stage = "done" => Chosen(d)' \subseteq approved'
  <2>1. \A d \in Calls :
          Request[d].kind # "signData" /\ call[d].stage = "done" => Chosen(d) \subseteq approved
    BY DEF BatchInv, BatchKept
  <2> QED
    BY <1>1, <1>2, <1>3, <2>1 DEF ResumesWell, Chosen
<1> QED
  BY <1>1, <1>5, <1>6, <1>7, <1>9, <1>10, <1>11 DEF BatchKept

\* Undisrupted, every step keeps the batch.
LEMMA BatchNextInv ==
    ASSUME OneAtATime, GroupsAreTaken, Undisrupted, BatchInv, [ClientNext]_allvars
    PROVE  BatchInv'
<1>1. CauseInv'
  BY CauseNextInv DEF BatchInv
<1>2. BatchKept'
  <2>1. ASSUME NEW c \in Calls, Start(c) PROVE BatchKept'
    BY <2>1, StartKeepsBatch
  <2>2. ASSUME NEW c \in Calls, Exchange(c) PROVE BatchKept'
    BY <2>2, ExchangeKeepsBatch
  <2>3. ASSUME NEW c \in Calls, Resume(c) PROVE BatchKept'
    BY <2>3, ResumeKeepsBatch
  <2>4. CASE UserApproves \/ UserRejects
    BY <2>4, UserKeepsBatch
  <2>5. CASE UNCHANGED allvars
    <3>1. /\ mode' = mode /\ call' = call /\ excused' = excused /\ pending' = pending
          /\ reply' = reply /\ screen' = screen /\ group_txn' = group_txn /\ approved' = approved
      BY <2>5 DEF allvars, vars, cvars
    <3>2. /\ \A d : Active(d)' <=> Active(d)
          /\ \A d : SignsGroup(d)' <=> SignsGroup(d)
          /\ \A d : Chosen(d)' = Chosen(d)
          /\ \A d : LastInHand(d)' <=> LastInHand(d)
          /\ AtRest' <=> AtRest
      BY <3>1 DEF Active, SignsGroup, Chosen, LastInHand, Later, Item, AtRest
    <3>3. \A d : ShownFor(d)' <=> ShownFor(d)
      BY <3>1, <3>2 DEF ShownFor
    <3>4. ASSUME NEW d \in Calls, SignsGroup(d)
          PROVE  GroupFits(d, call[d], d \in pending)'
      <4>1. GroupFits(d, call[d], d \in pending)
        BY <3>4 DEF BatchInv, BatchKept
      <4> QED
        BY <3>1, <4>1 DEF GroupFits, AtRest, Counted, GroupState, Upto
    <3>5. BatchKept
      BY DEF BatchInv
    <3> QED
      BY <3>1, <3>2, <3>3, <3>4, <3>5 DEF BatchKept, app_mode_blindsign_required
  <2>6. \A kind, victims : ~Disrupt(kind, victims)
    BY DEF Disrupt, Undisrupted
  <2>7. ~DeviceRestarts /\ ~UserTogglesBlindsign
    BY <2>6 DEF DeviceRestarts, UserTogglesBlindsign
  <2>8. \A c \in Calls : ~SendFails(c) /\ ~AnswerLost(c) /\ ~Abandon(c)
    BY <2>6 DEF SendFails, AnswerLost, Abandon
  <2> QED
    BY <2>1, <2>2, <2>3, <2>4, <2>5, <2>7, <2>8 DEF ClientNext
<1> QED
  BY <1>1, <1>2 DEF BatchInv

\* It holds to begin with where the setting is on.
LEMMA BatchInitInv ==
    ASSUME ClientInit, mode.blindsign
    PROVE  BatchInv
<1>1. CauseInv
  BY CauseInitInv
<1>2. /\ call = [c \in Calls |-> NewCall(c)] /\ pending = {} /\ excused = {}
      /\ group_txn = NoGroup /\ mode.skipped = FALSE
  BY DEF ClientInit, Init
<1>3. \A c \in Calls : call[c].stage = "idle"
  BY <1>2 DEF NewCall
<1>4. \A c \in Calls : ~SignsGroup(c) /\ ~Active(c)
  BY <1>3 DEF SignsGroup, Active
<1>5. AtRest
  BY <1>2 DEF AtRest, NoGroup
<1>6. app_mode_blindsign_required(mode)
  BY <1>2 DEF app_mode_blindsign_required
<1> QED
  BY <1>1, <1>2, <1>3, <1>4, <1>5, <1>6 DEF BatchInv, BatchKept

\* A summary in the batch stands for what the account owns in the call.
LEMMA BatchInvSummary == BatchInv => SummaryCoversGroup
<1> SUFFICES ASSUME BatchInv, screen.kind = "summary", NEW c \in pending
             PROVE  /\ screen.shows = Own(c)
                    /\ screen.max_fees = FeesTo(c, call[c].toSign)[Len(Request[c].items)]
  BY DEF SummaryCoversGroup
<1> DEFINE i == call[c].item
           S == OwnPositions(c)
           N == Len(Request[c].items)
<1>1. c \in Calls /\ CallOK(c, call[c]) /\ PlanOK(c, call[c])
  BY DEF BatchInv, CauseInv, PlanInv, KeyInv, ClientInv, CallsTyped
<1>2. /\ LastInHand(c) /\ Request[c].kind = "signGroup"
      /\ screen.shows = group_txn.members /\ screen.max_fees = group_txn.max_fees
  BY DEF BatchInv, BatchKept, ShownFor
<1>3. call[c].stage = "signing" /\ Later(c) = {} /\ call[c].toSign = S /\ i \in S
  BY <1>1, <1>2 DEF LastInHand, PlanOK
<1>4. group_txn = Counted(c, i)
  <2>1. GroupFits(c, call[c], c \in pending)
    BY <1>1, <1>2, <1>3 DEF BatchInv, BatchKept, SignsGroup
  <2> QED
    BY <1>2, <2>1 DEF GroupFits, LastInHand, Item
<1>5. Upto(c, i) = S
  BY <1>1, <1>3, CountStep
<1>6. group_txn.members = {Request[c].items[j] : j \in S} /\ group_txn.max_fees = FeesTo(c, S)[i]
  <2>1. group_txn.members = {Request[c].items[j] : j \in Upto(c, i)}
    BY <1>4, Zenon DEF Counted, GroupState
  <2>2. group_txn.max_fees = FeesTo(c, S)[i]
    BY <1>4, Zenon DEF Counted, GroupState
  <2> QED
    BY <1>5, <2>1, <2>2, Zenon
<1>7. {Request[c].items[j] : j \in S} = Own(c)
  <2>1. ToSet(Request[c].items) = {Request[c].items[j] : j \in DOMAIN Request[c].items}
    BY Zenon DEF ToSet
  <2> QED
    BY <2>1 DEF Own, OwnPositions
<1>8. FeesTo(c, S)[N] = FeesTo(c, S)[i]
  <2>1. S \subseteq 1..N /\ N \in Nat /\ i \in 1..N
    BY <1>1, <1>3, OwnIsFinite, RequestType
  <2>2. \A n \in S : n <= i
    BY <1>3, <2>1 DEF Later
  <2>3. i \in 0..N /\ N \in i..N
    BY <2>1
  <2> HIDE DEF S, N, i
  <2>4. \A n \in S : n <= i \/ n > N
    BY <2>2
  <2> QED
    BY <1>1, <2>3, <2>4, FeesOverGap DEF N
<1> QED
  BY <1>2, <1>3, <1>6, <1>7, <1>8

-----------------------------------------------------------------------------
(* Whatever the setting.                                                     *)

\* Blind signing is off, and no summary is on the screen.
QuietInv == ClientInv /\ mode.blindsign = FALSE /\ screen.kind # "summary"

\* A chunk with blind signing off opens no summary.
LEMMA ChunkIsQuiet ==
    ASSUME QuietInv, NEW a, handle_sign_msgpack(a)
    PROVE  mode'.blindsign = FALSE /\ screen'.kind # "summary"
<1>1. mode \in Modes /\ mode.blindsign = FALSE
  BY DEF QuietInv, ClientInv, Inv, TypeOK
<1>2. \A g : ~InBatch(g)
  BY <1>1 DEF InBatch, app_mode_blindsign_required
<1>3. CASE UNCHANGED <<mode, screen>>
  BY <1>3 DEF QuietInv
<1>4. CASE ReviewTx(a)
  <2>1. PICK t \in ParsedTxns(buffer') \intersect WellFormed :
           \E g : /\ screen' = [kind      |-> IF InBatch(g) THEN "summary" ELSE "transaction",
                                shows     |-> IF InBatch(g) THEN g.members ELSE {t},
                                max_fees  |-> g.max_fees,
                                to_review |-> g.num_of_txns - g.num_of_txns_reviewed,
                                key       |-> Unset]
                  /\ mode' = ModeAfter(t)
    BY <1>4, Zenon DEF ReviewTx
  <2>2. screen'.kind = "transaction"
    BY <1>2, <2>1
  <2>3. mode'.blindsign = FALSE
    BY <1>1, <2>1 DEF ModeAfter, Modes
  <2> QED
    BY <2>2, <2>3
<1> QED
  BY <1>3, <1>4 DEF handle_sign_msgpack, StoreTxChunk, RejectTx, SignInBatch

\* It stays so.
LEMMA QuietNextInv ==
    ASSUME SettingStays, QuietInv, [ClientNext]_allvars
    PROVE  QuietInv'
<1>1. ClientInv'
  BY ClientNextInv DEF QuietInv
<1>2. NoScreen.kind = "none" /\ mode \in Modes
  BY NoScreenType DEF QuietInv, ClientInv, Inv, TypeOK
<1> DEFINE Goal == mode'.blindsign = FALSE /\ screen'.kind # "summary"
<1>3. ASSUME mode' = mode, screen' = screen PROVE Goal
  BY <1>3 DEF QuietInv
<1>4. ASSUME NEW c \in Calls, Exchange(c) PROVE Goal
  <2>1. PICK a : handleApdu(a)
    BY <1>4, Zenon DEF Exchange
  <2>2. CASE handle_sign_msgpack(a)
    BY <2>2, ChunkIsQuiet
  <2>3. CASE handle_arbitrary_sign(a)
    <3>1. mode' = mode /\ (screen' = screen \/ screen'.kind = "message")
      BY <2>3 DEF handle_arbitrary_sign, StoreMessageChunk, ReviewMessage, NoScreen
    <3> QED
      BY <3>1 DEF QuietInv
  <2>4. CASE handle_get_public_key(a)
    <3>1. mode' = mode /\ (screen' = screen \/ screen'.kind = "address")
      BY <2>4 DEF handle_get_public_key, NoScreen
    <3> QED
      BY <3>1 DEF QuietInv
  <2>5. CASE handle_other(a)
    BY <1>3, <2>5 DEF handle_other
  <2>6. CASE RefuseLocked(a)
    BY <1>3, <2>6 DEF RefuseLocked
  <2> QED
    BY <2>1, <2>2, <2>3, <2>4, <2>5, <2>6 DEF handleApdu
<1>5. ASSUME UserApproves \/ UserRejects PROVE Goal
  BY <1>2, <1>5 DEF UserApproves, UserRejects, Approve, app_reject, QuietInv
<1>6. ASSUME DeviceRestarts PROVE Goal
  <2>1. screen' = NoScreen /\ mode' = [mode EXCEPT !.skipped = FALSE]
    BY <1>6 DEF DeviceRestarts, Restart
  <2>2. mode'.blindsign = FALSE
    BY <1>2, <2>1 DEF QuietInv, Modes
  <2> QED
    BY <1>2, <2>1, <2>2
<1>7. ~UserTogglesBlindsign
  BY DEF SettingStays, UserTogglesBlindsign, ToggleBlindsign
<1>8. ASSUME NEW c \in Calls,
             Start(c) \/ Resume(c) \/ SendFails(c) \/ AnswerLost(c) \/ Abandon(c)
      PROVE  Goal
  <2>1. UNCHANGED vars
    BY <1>8 DEF Start, Resume, SendFails, AnswerLost, Abandon
  <2> QED
    BY <1>3, <2>1 DEF vars
<1>9. ASSUME UNCHANGED allvars PROVE Goal
  BY <1>3, <1>9 DEF allvars, vars
<1>10. Goal
  <2> HIDE DEF Goal
  <2> QED
    BY <1>4, <1>5, <1>6, <1>7, <1>8, <1>9 DEF ClientNext
<1> QED
  BY <1>1, <1>10 DEF QuietInv

\* It is so at first, when the setting is off.
LEMMA QuietInitInv ==
    ASSUME ClientInit, mode.blindsign = FALSE
    PROVE  QuietInv
<1>1. screen = NoScreen
  BY DEF ClientInit, Init
<1> QED
  BY <1>1, ClientInitInv, NoScreenType DEF QuietInv

\* The setting is on or off.
LEMMA SettingAtFirst == ClientInit => mode.blindsign \/ mode.blindsign = FALSE
<1> SUFFICES ASSUME ClientInit PROVE mode.blindsign \/ mode.blindsign = FALSE
  OBVIOUS
<1>1. mode \in Modes
  BY ClientInitInv DEF ClientInv, Inv, TypeOK
<1>2. mode.blindsign \in BOOLEAN
  BY <1>1 DEF Modes
<1> QED
  BY <1>2

\* The summary of a batch shows the transactions of the account in the call that
\* waits for it, all of them and no others, and the sum of their fees (parser.c:714,
\* 731), for groups of any number of calls one after another that nothing disturbs.
THEOREM SummariesCoverGroups ==
    ASSUME OneAtATime, GroupsAreTaken, Undisrupted
    PROVE  ClientSpec => []SummaryCoversGroup
<1>1. SettingStays
  BY DEF SettingStays, Undisrupted
<1>2. BatchInv /\ [ClientNext]_allvars => BatchInv'
  BY BatchNextInv
<1>3. QuietInv /\ [ClientNext]_allvars => QuietInv'
  BY <1>1, QuietNextInv
<1>4. ClientInit => BatchInv \/ QuietInv
  BY SettingAtFirst, BatchInitInv, QuietInitInv
<1>5. QuietInv => SummaryCoversGroup
  BY DEF QuietInv, SummaryCoversGroup
<1> QED
  BY <1>2, <1>3, <1>4, <1>5, BatchInvSummary, PTL DEF ClientSpec

\* What a call that has ended was given is of what it chose, whole.
LEMMA BatchInvReleases == BatchInv /\ SignatureInv /\ FirstChunksArrive => ReleasedIsApproved
<1> SUFFICES ASSUME BatchInv, SignatureInv, FirstChunksArrive,
                    NEW c \in Calls, call[c].stage = "done", Request[c].kind # "signData",
                    NEW s \in UNION ToSet(call[c].results)
             PROVE  ParsedTxns(s.message) \intersect approved # {}
  BY DEF ReleasedIsApproved
<1>1. /\ call[c].results \in [DOMAIN Request[c].items -> SUBSET Signature]
      /\ PlanOK(c, call[c])
  BY DEF BatchInv, CauseInv, PlanInv, SignatureInv, ClientInv, CallsTyped, CallOK, CallType
<1>2. PICK j \in DOMAIN Request[c].items : s \in call[c].results[j]
  BY <1>1 DEF ToSet
<1> DEFINE t == Request[c].items[j]
<1>3. s.message = SignedBytes(t)
  BY <1>2 DEF SignatureInv, SignaturesOK, SignatureOver, Untroubled
<1>4. t \in Chosen(c) /\ Chosen(c) \subseteq approved
  <2>1. call[c].toSign = OwnPositions(c) /\ j \in OwnPositions(c)
    BY <1>1, <1>2 DEF PlanOK
  <2> QED
    BY <2>1 DEF Chosen, BatchInv, BatchKept
<1>5. t \in Txns
  BY RequestType
<1>6. t \in ParsedTxns(SignedBytes(t))
  BY <1>5, ItemIsWhole, WholeIsFound
<1> QED
  BY <1>3, <1>4, <1>6

\* With blind signing on or off, no signature of an undisturbed call that has ended is
\* of a transaction the user has not approved: the ones a group's transactions got
\* without a review (apdu_handler.c:197) leave the call only after the summary of
\* them all was approved.
THEOREM BatchesAreApproved ==
    ASSUME OneAtATime, GroupsAreTaken, Undisrupted
    PROVE  ClientSpec => []ReleasedIsApproved
<1>1. SettingStays /\ FirstChunksArrive
  BY DEF SettingStays, FirstChunksArrive, OneAtATime, Undisrupted
<1>2. BatchInv /\ [ClientNext]_allvars => BatchInv'
  BY BatchNextInv
<1>3. ApprovedInv /\ [ClientNext]_allvars => ApprovedInv'
  BY <1>1, ApprovedNextInv
<1>4. SignatureInv /\ [ClientNext]_allvars => SignatureInv'
  BY SignatureNextInv
<1>5. ClientInit => BatchInv \/ ApprovedInv
  BY SettingAtFirst, BatchInitInv, ApprovedInitInv
<1>6. BatchInv /\ SignatureInv => ReleasedIsApproved
  BY <1>1, BatchInvReleases
<1> QED
  BY <1>2, <1>3, <1>4, <1>5, <1>6, SignatureInitInv, ApprovedInvReleases, PTL DEF ClientSpec

=============================================================================
