----------------------- MODULE AlgorandDevice_proofs -----------------------
(***************************************************************************)
(* Proofs about AlgorandDevice, for every set of accounts, transactions,   *)
(* messages and well-framed commands, and every size of the upload buffer. *)
(***************************************************************************)
EXTENDS AlgorandDevice, SequenceTheorems, TLAPS

\* ReviewCoversUpload is not inductive alone: what is under review was, one
\* command before, an upload that was open.
Inv ==
    /\ TypeOK
    /\ GroupCountConsistent
    /\ tx_initialized => UploadWhole
    /\ ReviewCoversUpload

\* The commands a host may send at all.
Framed == {a \in Apdu : WellFramed(a)}

\* Next, of a host that sends any of them.
DeviceNext ==
    \/ \E a \in Framed : handleApdu(a)
    \/ Approve
    \/ app_reject
    \/ ToggleBlindsign
    \/ Restart

-----------------------------------------------------------------------------
(* Lemmas about the operators.                                               *)

\* The hosts of the specification send no others.
LEMMA HostsAreFramed == Next => DeviceNext
BY ApduAssumption DEF Next, DeviceNext, Framed

\* What the parser finds is a transaction.
LEMMA ParsedType ==
    ASSUME NEW b
    PROVE  ParsedTxns(b) \subseteq Txns
BY MixtureAssumption DEF ParsedTxns, MixtureAssumption

\* A command's body is part of its data.
LEMMA BodyType ==
    ASSUME NEW a \in Framed
    PROVE  a \in Apdu /\ Body(a) \in Seq(Payload)
<1>1. a \in Apdu /\ a.data \in Seq(Payload)
  BY DEF Framed, Apdu
<1>2. a.data # <<>> => Tail(a.data) \in Seq(Payload)
  BY <1>1
<1> QED
  BY <1>1, <1>2 DEF Body

\* Where the device looks for an account id there is one, or the default applies.
LEMMA PathType ==
    ASSUME NEW a \in Framed
    PROVE  /\ HasAccount(a) /\ a.ins \in {"INS_SIGN_MSGPACK", "INS_ARBITRARY_SIGN"}
                => extractHDPath(a.data) \in AccountIds
           /\ a.ins \in {"INS_GET_PUBLIC_KEY", "INS_GET_ADDRESS"}
                => extractHDPath(a.data) \in AccountIds
<1>1. WellFramed(a) /\ 0 \in AccountIds
  BY AccountAssumption DEF Framed
<1>2. \A id \in AccountIds : AccountUnit(id)[2] = id
  BY DEF AccountUnit
<1> QED
  BY <1>1, <1>2 DEF WellFramed, HasAccount, extractHDPath

\* The count of a command is a number of five bits.
LEMMA CountType ==
    ASSUME NEW a \in Framed
    PROVE  P1_NUM_OF_TXNS_IN_GROUP(a.p1) \in 0..31
<1>1. a.p1 \in 0..255
  BY DEF Framed, Apdu
<1>2. \A x \in 0..255 : x % 64 \in 0..63
  OBVIOUS
<1>3. \A x \in 0..63 : x \div 2 \in 0..31
  OBVIOUS
<1> QED
  BY <1>1, <1>2, <1>3 DEF P1_NUM_OF_TXNS_IN_GROUP

\* What handle_sign_msgpack does to the group before it looks at the payload
\* leaves it consistent, and with a transaction to come if it is open.
LEMMA GroupForChunkConsistent ==
    ASSUME NEW a \in Framed,
           group_txn \in Group, CountsConsistent(group_txn)
    PROVE  LET g == GroupForChunk(a)
           IN  /\ g \in Group
               /\ CountsConsistent(g)
               /\ g.initialized => g.num_of_txns_reviewed < g.num_of_txns
<1> DEFINE n == P1_NUM_OF_TXNS_IN_GROUP(a.p1)
           f == ForgetCompleteGroup(group_txn)
<1>1. n \in Nat
  BY CountType
<1>2. NoGroup \in Group /\ CountsConsistent(NoGroup) /\ ~NoGroup.initialized
  BY DEF NoGroup, Group, CountsConsistent
<1>3. f \in Group /\ CountsConsistent(f)
      /\ (f.initialized => f.num_of_txns_reviewed < f.num_of_txns)
  BY <1>2 DEF ForgetCompleteGroup, CountsConsistent, Group
<1> HIDE DEF f
<1>4. CASE n # 0 /\ ~GroupCountRefused(n) /\ ~f.initialized
  <2>1. GroupAtChunk(f, n) = [NoGroup EXCEPT !.initialized = TRUE, !.num_of_txns = n]
    BY <1>3, <1>4 DEF GroupAtChunk, CountsConsistent
  <2>2. n \in 2..16
    BY <1>4, <1>1 DEF GroupCountRefused, MIN_NUM_OF_TXNS_IN_GROUP, MAX_NUM_OF_TXNS_IN_GROUP
  <2> DEFINE g == [initialized |-> TRUE, num_of_txns |-> n, num_of_txns_reviewed |-> 0,
                   max_fees |-> 0, members |-> {}]
  <2>3. GroupForChunk(a) = g
    BY <2>1 DEF GroupForChunk, f, NoGroup
  <2> HIDE DEF n
  <2>4. g \in Group /\ CountsConsistent(g) /\ g.num_of_txns_reviewed < g.num_of_txns
    BY <2>2 DEF Group, CountsConsistent
  <2> QED
    BY <2>3, <2>4
<1>5. CASE ~(n # 0 /\ ~GroupCountRefused(n) /\ ~f.initialized)
  <2>1. GroupAtChunk(f, n) \in {f, NoGroup}
    BY <1>5 DEF GroupAtChunk
  <2> QED
    BY <2>1, <1>2, <1>3 DEF GroupForChunk, f
<1> QED
  BY <1>4, <1>5

\* The instruction that signs messages takes the same count from P1, but does not
\* forget a complete group.
LEMMA GroupAtChunkConsistent ==
    ASSUME NEW a \in Framed,
           group_txn \in Group, CountsConsistent(group_txn)
    PROVE  LET g == GroupAtChunk(group_txn, P1_NUM_OF_TXNS_IN_GROUP(a.p1))
           IN  g \in Group /\ CountsConsistent(g)
<1> DEFINE n == P1_NUM_OF_TXNS_IN_GROUP(a.p1)
<1>1. n \in Nat
  BY CountType
<1>2. NoGroup \in Group /\ CountsConsistent(NoGroup)
  BY DEF NoGroup, Group, CountsConsistent
<1>4. CASE n # 0 /\ ~GroupCountRefused(n) /\ ~group_txn.initialized
  <2>1. GroupAtChunk(group_txn, n) = [NoGroup EXCEPT !.initialized = TRUE, !.num_of_txns = n]
    BY <1>4 DEF GroupAtChunk, CountsConsistent
  <2>2. n \in 2..16
    BY <1>4, <1>1 DEF GroupCountRefused, MIN_NUM_OF_TXNS_IN_GROUP, MAX_NUM_OF_TXNS_IN_GROUP
  <2> DEFINE g == [initialized |-> TRUE, num_of_txns |-> n, num_of_txns_reviewed |-> 0,
                   max_fees |-> 0, members |-> {}]
  <2>3. GroupAtChunk(group_txn, n) = g
    BY <2>1 DEF NoGroup
  <2> HIDE DEF n
  <2>4. g \in Group /\ CountsConsistent(g)
    BY <2>2 DEF Group, CountsConsistent
  <2> QED
    BY <2>3, <2>4 DEF n
<1>5. CASE ~(n # 0 /\ ~GroupCountRefused(n) /\ ~group_txn.initialized)
  <2>1. GroupAtChunk(group_txn, n) \in {group_txn, NoGroup}
    BY <1>5 DEF GroupAtChunk
  <2> QED
    BY <2>1, <1>2
<1> QED
  BY <1>4, <1>5

\* Adding a fee changes the total and what it covers, and neither count.
LEMMA AddFeesConsistent ==
    ASSUME NEW g \in Group, CountsConsistent(g), NEW t \in Txns
    PROVE  LET h == AddFees(g, t)
           IN  /\ h \in Group
               /\ CountsConsistent(h)
               /\ h.initialized = g.initialized
               /\ h.num_of_txns = g.num_of_txns
               /\ h.num_of_txns_reviewed = g.num_of_txns_reviewed
<1>1. CASE InBatch(g)
  <2> DEFINE sum == (g.max_fees + Fee[t]) % FeeModulus
  <2>1. sum \in Nat
    <3>1. Fee[t] \in Nat /\ g.max_fees \in Nat /\ FeeModulus \in Nat \ {0}
      BY DataAssumption DEF Group
    <3> QED
      BY <3>1
  <2>2. AddFees(g, t) =
          [g EXCEPT !.max_fees = sum, !.members = g.members \union {t}]
    BY <1>1 DEF AddFees
  <2>3. g.members \union {t} \in SUBSET Txns
    BY DEF Group
  <2>4. g.initialized
    BY <1>1 DEF InBatch
  <2> HIDE DEF sum
  <2> QED
    BY <2>1, <2>2, <2>3, <2>4 DEF Group, CountsConsistent
<1>2. CASE ~InBatch(g)
  BY <1>2 DEF AddFees
<1> QED
  BY <1>1, <1>2

\* Chunks keep the upload buffer in step with what the host sent.
LEMMA ChunkInSync ==
    ASSUME Inv, NEW a \in Framed, NEW tag \in {<<>>, <<TXTag>>},
           a.ins \in {"INS_SIGN_MSGPACK", "INS_ARBITRARY_SIGN"},
           process_chunk(a, tag)
    PROVE  /\ hdPath' \in Keys /\ tx_initialized' \in BOOLEAN
           /\ buffer' \in Seq(Units) /\ sent' \in Seq(Units)
           /\ tx_initialized' => UploadWhole'
           /\ ChunkStatus(a, tag) = "complete" => ~tx_initialized' /\ UploadWhole'
<1>0. /\ hdPath \in Keys /\ tx_initialized \in BOOLEAN
      /\ buffer \in Seq(Units) /\ sent \in Seq(Units)
      /\ tx_initialized => UploadWhole
  BY DEF Inv, TypeOK
<1>1. CASE ChunkIgnored(a, tag)
  BY <1>0, <1>1 DEF ChunkIgnored, UploadWhole
<1>2. CASE ChunkAppended(a, tag)
  <2> DEFINE base == UploadBase(a, tag)
             body == Body(a)
             status == ChunkStatus(a, tag)
             first == convertP1P2(a.p1, a.p2) \in {"INIT", "SINGLE"}
  <2>1. body \in Seq(Units)
    BY BodyType DEF Units
  <2>2. /\ base \in Seq(Units) /\ tag \in Seq(Units)
        /\ (first => base = tag) /\ (~first => base = buffer)
    <3>1. TXTag \in Units
      BY DEF Units
    <3>2. tag \in Seq(Units)
      <4>1. <<TXTag>> \in Seq(Units)
        BY <3>1
      <4>2. <<>> \in Seq(Units)
        BY EmptySeq
      <4> QED
        BY <4>1, <4>2
    <3> QED
      BY <1>0, <3>2 DEF UploadBase
  <2>3. /\ tx_initialized' = (status \in {"OK", "WRONG_LENGTH"})
        /\ buffer' = tx_append(base, body)
        /\ first => sent' = tag \o body
        /\ ~first => sent' = sent \o body
    BY <1>2 DEF ChunkAppended
  <2>4. buffer' \in Seq(Units) /\ (Fits(base, body) => buffer' = base \o body)
    BY <2>1, <2>2, <2>3 DEF tx_append
  <2>5. hdPath' \in Keys
    BY <1>0, <1>2, PathType DEF ChunkAppended, Keys
  <2>6. sent' \in Seq(Units)
    <3>1. sent \o body \in Seq(Units) /\ tag \o body \in Seq(Units)
      BY <1>0, <2>1, <2>2, ConcatProperties
    <3> HIDE DEF first, body
    <3> QED
      BY <2>3, <3>1
  <2>7. ~first => tx_initialized
    BY <1>2 DEF ChunkAppended, ChunkStatus, convertP1P2
  <2>8. ASSUME status \in {"OK", "complete"} PROVE UploadWhole'
    <3>1. buffer' = base \o body
      BY <2>4, <2>8 DEF ChunkStatus
    <3>2. ~first => buffer = sent
      BY <1>0, <2>7 DEF UploadWhole
    <3> HIDE DEF first, body, base
    <3> QED
      BY <2>2, <2>3, <3>1, <3>2 DEF UploadWhole
  <2>9. ASSUME status = "WRONG_LENGTH" PROVE UploadWhole'
    <3>1. first /\ body = <<>>
      BY <2>9 DEF ChunkStatus, TooShort, Body
    <3>2. tag \o <<>> = tag
      BY <2>2, ConcatEmptySeq
    <3>3. buffer' = tag /\ sent' = tag
      BY <2>2, <2>3, <3>1, <3>2 DEF tx_append
    <3> QED
      BY <3>3 DEF UploadWhole
  <2>10. /\ tx_initialized' \in BOOLEAN
         /\ tx_initialized' => status \in {"OK", "WRONG_LENGTH"}
         /\ status = "complete" => ~tx_initialized'
    <3>1. tx_initialized' = (status \in {"OK", "WRONG_LENGTH"})
      BY <1>2 DEF ChunkAppended
    <3> HIDE DEF status
    <3>2. (status \in {"OK", "WRONG_LENGTH"}) \in BOOLEAN
      OBVIOUS
    <3>3. tx_initialized' \in BOOLEAN
      BY <3>1, <3>2, Zenon
    <3>4. tx_initialized' => status \in {"OK", "WRONG_LENGTH"}
      BY <3>1, Zenon
    <3>5. status = "complete" => ~(status \in {"OK", "WRONG_LENGTH"})
      OBVIOUS
    <3> QED
      BY <3>3, <3>4, <3>5
  <2> HIDE DEF base, body, first
  <2> QED
    BY <2>4, <2>5, <2>6, <2>8, <2>9, <2>10
<1> QED
  BY <1>1, <1>2 DEF process_chunk

-----------------------------------------------------------------------------
(* Answers.                                                                  *)

\* A status without a signature is an answer.
LEMMA StatusType ==
    ASSUME NEW sw \in StatusWords
    PROVE  Status(sw) \in Answers /\ Status(sw).signatures = {}
BY DEF Status, Answer, Answers, Keys

\* What process_chunk reports is one of its six statuses.
LEMMA ChunkStatusType ==
    ASSUME NEW a, NEW tag
    PROVE  ChunkStatus(a, tag) # "complete" => ChunkStatus(a, tag) \in StatusWords
BY DEF ChunkStatus, StatusWords

\* The device signs with the current path, and only if one was ever set.
LEMMA SignedType ==
    ASSUME NEW path \in Keys, NEW message \in Seq(Units)
    PROVE  /\ Signed(path, message) \in Answers
           /\ \A s \in Signed(path, message).signatures : s.message = message
<1>1. CASE path = Unset
  <2>1. Signed(path, message) = Status("SIGN_VERIFY_ERROR")
    BY <1>1 DEF Signed
  <2>2. /\ Status("SIGN_VERIFY_ERROR") \in Answers
        /\ Status("SIGN_VERIFY_ERROR").signatures = {}
    BY StatusType DEF StatusWords
  <2> QED
    BY <2>1, <2>2
<1>2. CASE path # Unset
  <2>1. path \in AccountIds
    BY <1>2 DEF Keys
  <2>2. [key |-> path, message |-> message] \in Signature
    BY <2>1 DEF Signature
  <2> DEFINE sig == [key |-> path, message |-> message]
  <2>3. Signed(path, message) = [sw |-> "OK", key |-> Unset, signatures |-> {sig}]
    BY <1>2 DEF Signed, Answer
  <2>4. sig.message = message
    OBVIOUS
  <2> HIDE DEF sig
  <2>5. Signed(path, message) \in Answers
    BY <2>2, <2>3 DEF Answers, StatusWords, Keys, sig
  <2> QED
    BY <2>3, <2>4, <2>5
<1> QED
  BY <1>1, <1>2

\* What is signed of an arbitrary message is a piece of the upload buffer.
LEMMA ToSignType ==
    ASSUME NEW b \in Seq(Units)
    PROVE  ToSign(b) \in Seq(Units)
<1>1. CASE b = <<>>
  BY <1>1, EmptySeq DEF ToSign
<1>2. CASE b # <<>>
  <2>1. b[1] \in Units /\ (Len(b) > 1 => b[2] \in Units)
    BY <1>2
  <2>2. Len(b) > 1 => <<b[1], b[2]>> \in Seq(Units)
    BY <2>1
  <2>3. <<b[1]>> \in Seq(Units)
    BY <2>1
  <2> QED
    BY <1>2, <2>2, <2>3 DEF ToSign
<1> QED
  BY <1>1, <1>2

-----------------------------------------------------------------------------
(* The invariant, handler by handler.                                        *)

\* The group a complete transaction is counted in.
LEMMA GroupAfterFees ==
    ASSUME Inv, NEW a \in Framed, NEW t \in Txns
    PROVE  LET g == AddFees(GroupForChunk(a), t)
           IN  /\ g \in Group
               /\ CountsConsistent(g)
               /\ g.initialized => g.num_of_txns_reviewed < g.num_of_txns
               /\ g.initialized =>
                    /\ increment_num_of_txns_reviewed(g) \in Group
                    /\ CountsConsistent(increment_num_of_txns_reviewed(g))
<1> DEFINE f == GroupForChunk(a)
           g == AddFees(f, t)
<1>1. group_txn \in Group /\ CountsConsistent(group_txn)
  BY DEF Inv, TypeOK, GroupCountConsistent
<1>2. /\ f \in Group /\ CountsConsistent(f)
      /\ f.initialized => f.num_of_txns_reviewed < f.num_of_txns
  BY <1>1, GroupForChunkConsistent
<1> HIDE DEF f
<1>3. /\ g \in Group /\ CountsConsistent(g)
      /\ g.initialized = f.initialized
      /\ g.num_of_txns = f.num_of_txns
      /\ g.num_of_txns_reviewed = f.num_of_txns_reviewed
  BY <1>2, AddFeesConsistent
<1>4. g.initialized => g.num_of_txns_reviewed < g.num_of_txns
  BY <1>2, <1>3
<1> HIDE DEF g
<1>5. ASSUME g.initialized
      PROVE  /\ increment_num_of_txns_reviewed(g) \in Group
             /\ CountsConsistent(increment_num_of_txns_reviewed(g))
  BY <1>3, <1>4, <1>5 DEF increment_num_of_txns_reviewed, Group, CountsConsistent
<1> QED
  BY <1>3, <1>4, <1>5 DEF g, f

\* handle_sign_msgpack keeps the invariant: one case per way it can answer.
LEMMA SignMsgpackPreserves ==
    ASSUME Inv, NEW a \in Framed, handle_sign_msgpack(a), screen.kind = "none"
    PROVE  Inv'
<1> DEFINE tag == <<TXTag>>
           g(t) == AddFees(GroupForChunk(a), t)
<1>1. a.ins = "INS_SIGN_MSGPACK" /\ process_chunk(a, tag)
  BY DEF handle_sign_msgpack, StoreTxChunk, RejectTx, SignInBatch, ReviewTx
<1>2. /\ hdPath' \in Keys /\ tx_initialized' \in BOOLEAN
      /\ buffer' \in Seq(Units) /\ sent' \in Seq(Units)
      /\ tx_initialized' => UploadWhole'
  BY <1>1, ChunkInSync
<1>3. mode \in Modes /\ screen \in Screen
  BY DEF Inv, TypeOK
<1>4. ParsedTxns(buffer') \subseteq Txns
  BY ParsedType
<1>5. CASE StoreTxChunk(a)
  <2>1. group_txn' \in Group /\ CountsConsistent(group_txn')
    BY <1>5, GroupForChunkConsistent
    DEF StoreTxChunk, Inv, TypeOK, GroupCountConsistent
  <2>2. /\ ChunkStatus(a, tag) # "complete"
        /\ reply' = Status(ChunkStatus(a, tag)) /\ mode' = mode /\ screen' = screen
    BY <1>5 DEF StoreTxChunk
  <2>3. reply' \in Answers
    BY <2>2, ChunkStatusType, StatusType
  <2> QED
    BY <1>2, <1>3, <2>1, <2>2, <2>3 DEF Inv, TypeOK, GroupCountConsistent, ReviewCoversUpload
<1>6. CASE RejectTx(a)
  <2>1. group_txn' \in Group /\ CountsConsistent(group_txn')
    <3>1. CASE group_txn' = GroupForChunk(a)
      BY <3>1, GroupForChunkConsistent DEF Inv, TypeOK, GroupCountConsistent
    <3>2. ASSUME NEW t \in ParsedTxns(buffer'), group_txn' = g(t)
          PROVE  group_txn' \in Group /\ CountsConsistent(group_txn')
      BY <1>4, <3>2, GroupAfterFees
    <3> QED
      BY <1>6, <3>1, <3>2 DEF RejectTx
  <2>2. reply' = Status("DATA_INVALID") /\ mode' = mode /\ screen' = screen
    BY <1>6 DEF RejectTx
  <2>3. reply' \in Answers
    BY <2>2, StatusType DEF StatusWords
  <2> QED
    BY <1>2, <1>3, <2>1, <2>2, <2>3 DEF Inv, TypeOK, GroupCountConsistent, ReviewCoversUpload
<1>7. CASE SignInBatch(a)
  <2>1. PICK t \in ParsedTxns(buffer') \intersect WellFormed :
          /\ InBatch(g(t))
          /\ group_txn' = increment_num_of_txns_reviewed(g(t))
    BY <1>7 DEF SignInBatch
  <2>2. t \in Txns /\ g(t).initialized
    BY <1>4, <2>1 DEF InBatch
  <2>3. group_txn' \in Group /\ CountsConsistent(group_txn')
    BY <2>1, <2>2, GroupAfterFees
  <2>4. reply' \in Answers /\ mode' = mode /\ screen' = screen
    BY <1>2, <1>7, SignedType DEF SignInBatch, app_sign
  <2> QED
    BY <1>2, <1>3, <2>3, <2>4 DEF Inv, TypeOK, GroupCountConsistent, ReviewCoversUpload
<1>8. CASE ReviewTx(a)
  <2> DEFINE reviewScreen(t) ==
               [kind      |-> IF InBatch(g(t)) THEN "summary" ELSE "transaction",
                shows     |-> IF InBatch(g(t)) THEN g(t).members ELSE {t},
                max_fees  |-> g(t).max_fees,
                to_review |-> g(t).num_of_txns - g(t).num_of_txns_reviewed,
                key       |-> Unset]
  <2>1. PICK t \in ParsedTxns(buffer') \intersect WellFormed :
          /\ InBatch(g(t)) => ~NotLastOfGroup(g(t))
          /\ screen' = reviewScreen(t)
          /\ group_txn' = IF g(t).initialized
                            THEN increment_num_of_txns_reviewed(g(t)) ELSE g(t)
          /\ mode' = ModeAfter(t)
    BY <1>8 DEF ReviewTx
  <2> DEFINE h == g(t)
  <2>2. t \in Txns
    BY <1>4, <2>1
  <2>3. /\ h \in Group /\ CountsConsistent(h)
        /\ h.initialized =>
             /\ h.num_of_txns_reviewed < h.num_of_txns
             /\ increment_num_of_txns_reviewed(h) \in Group
             /\ CountsConsistent(increment_num_of_txns_reviewed(h))
    BY <2>2, GroupAfterFees
  <2>4. InBatch(h) => h.initialized /\ t \in h.members
    BY DEF InBatch, AddFees
  <2>5. group_txn' \in Group /\ CountsConsistent(group_txn')
    BY <2>1, <2>3
  <2>6. screen' \in Screen
    <3>1. h.members \in SUBSET Txns /\ {t} \in SUBSET Txns
      BY <2>2, <2>3 DEF Group
    <3>2. h.max_fees \in Nat /\ h.num_of_txns - h.num_of_txns_reviewed \in Int
      BY <2>3 DEF Group
    <3> HIDE DEF h
    <3>3. screen' = [kind      |-> IF InBatch(h) THEN "summary" ELSE "transaction",
                     shows     |-> IF InBatch(h) THEN h.members ELSE {t},
                     max_fees  |-> h.max_fees,
                     to_review |-> h.num_of_txns - h.num_of_txns_reviewed,
                     key       |-> Unset]
      BY <2>1 DEF h
    <3> QED
      BY <3>1, <3>2, <3>3 DEF Screen, Keys
  <2>7. screen'.kind = "summary" => screen'.to_review = 1
    <3>1. screen'.kind = "summary" => InBatch(h)
      BY <2>1
    <3>2. screen'.to_review = h.num_of_txns - h.num_of_txns_reviewed
      BY <2>1
    <3>3. InBatch(h) => ~(h.num_of_txns_reviewed < h.num_of_txns - 1)
      BY <2>1 DEF NotLastOfGroup
    <3>4. h.num_of_txns \in Nat /\ h.num_of_txns_reviewed \in Nat
      BY <2>3 DEF Group
    <3> HIDE DEF h
    <3> QED
      BY <2>3, <2>4, <3>1, <3>2, <3>3, <3>4
  <2>8. mode' \in Modes /\ reply' \in Answers
    <3>1. reply' = Status("none")
      BY <1>8 DEF ReviewTx
    <3>2. mode' \in Modes
      BY <1>3, <2>1 DEF ModeAfter, Modes
    <3> QED
      BY <3>1, <3>2, StatusType DEF StatusWords
  <2>9. ~tx_initialized' /\ UploadWhole'
    BY <1>1, <1>8, ChunkInSync DEF ReviewTx
  <2>10. t \in screen'.shows \intersect WellFormed
    BY <2>1, <2>4
  <2>11. ReviewCoversUpload'
    BY <2>1, <2>9, <2>10 DEF ReviewCoversUpload
  <2> QED
    BY <1>2, <2>5, <2>6, <2>7, <2>8, <2>11 DEF Inv, TypeOK, GroupCountConsistent
<1> QED
  BY <1>5, <1>6, <1>7, <1>8 DEF handle_sign_msgpack

\* Every unit carries the name of a transaction, of a message, or one of the two tags.
LEMMA UnitName ==
    ASSUME NEW u \in Units
    PROVE  u[1] \in Txns \union Messages \union {"TX", "account"}
BY DEF Units, Payload, UnitsOf, AccountUnit, TXTag

\* The empty screen is a screen.
LEMMA NoScreenType == NoScreen \in Screen /\ NoScreen.kind = "none"
BY DEF NoScreen, Screen, Keys

\* handle_arbitrary_sign, which shares the upload buffer, keeps the invariant.
LEMMA ArbitrarySignPreserves ==
    ASSUME Inv, NEW a \in Framed, handle_arbitrary_sign(a), screen.kind = "none"
    PROVE  Inv'
<1>1. a.ins = "INS_ARBITRARY_SIGN" /\ process_chunk(a, <<>>)
  BY DEF handle_arbitrary_sign, StoreMessageChunk, ReviewMessage
<1>2. /\ hdPath' \in Keys /\ tx_initialized' \in BOOLEAN
      /\ buffer' \in Seq(Units) /\ sent' \in Seq(Units)
      /\ tx_initialized' => UploadWhole'
  BY <1>1, ChunkInSync
<1>3. mode' = mode /\ mode \in Modes /\ screen \in Screen
  BY DEF Inv, TypeOK, handle_arbitrary_sign
<1>4. group_txn' \in Group /\ CountsConsistent(group_txn')
  <2>1. group_txn' = GroupAtChunk(group_txn, P1_NUM_OF_TXNS_IN_GROUP(a.p1))
    BY DEF handle_arbitrary_sign
  <2>2. group_txn \in Group /\ CountsConsistent(group_txn)
    BY DEF Inv, TypeOK, GroupCountConsistent
  <2> QED
    BY <2>1, <2>2, GroupAtChunkConsistent
<1>5. CASE StoreMessageChunk(a)
  <2>1. /\ ChunkStatus(a, <<>>) # "complete"
        /\ reply' = Status(ChunkStatus(a, <<>>)) /\ screen' = screen
    BY <1>5 DEF StoreMessageChunk
  <2>2. reply' \in Answers
    BY <2>1, ChunkStatusType, StatusType
  <2> QED
    BY <1>2, <1>3, <1>4, <2>1, <2>2 DEF Inv, TypeOK, GroupCountConsistent, ReviewCoversUpload
<1>6. CASE ReviewMessage(a)
  <2> DEFINE names == {buffer'[i][1] : i \in 2..Len(buffer')}
  <2>1. /\ screen' = [NoScreen EXCEPT !.kind = "message", !.shows = names]
        /\ reply' = Status("none")
    BY <1>6 DEF ReviewMessage
  <2>2. names \subseteq Txns \union Messages \union {"TX", "account"}
    <3>1. \A i \in 2..Len(buffer') : buffer'[i] \in Units
      BY <1>2
    <3> QED
      BY <3>1, UnitName
  <2>3. screen' \in Screen /\ screen'.kind = "message"
    <3> HIDE DEF names
    <3>1. screen' = [kind |-> "message", shows |-> names, max_fees |-> 0,
                     to_review |-> 0, key |-> Unset]
      BY <2>1 DEF NoScreen
    <3> QED
      BY <2>2, <3>1 DEF Screen, Keys
  <2>4. reply' \in Answers
    BY <2>1, StatusType DEF StatusWords
  <2> QED
    BY <1>2, <1>3, <1>4, <2>3, <2>4 DEF Inv, TypeOK, GroupCountConsistent, ReviewCoversUpload
<1> QED
  BY <1>5, <1>6 DEF handle_arbitrary_sign

\* handle_get_public_key moves the path and leaves the upload alone.
LEMMA GetPublicKeyPreserves ==
    ASSUME Inv, NEW a \in Framed, handle_get_public_key(a), screen.kind = "none"
    PROVE  Inv'
<1>1. hdPath' = extractHDPath(a.data) /\ hdPath' \in AccountIds
  BY PathType DEF handle_get_public_key
<1>2. /\ tx_initialized' = tx_initialized /\ buffer' = buffer /\ sent' = sent
      /\ group_txn' = group_txn /\ mode' = mode
  BY DEF handle_get_public_key
<1>3. hdPath' \in Keys
  BY <1>1 DEF Keys
<1>4. screen' \in Screen /\ screen'.kind \in {"none", "address"} /\ reply' \in Answers
  <2>1. CASE a.p1 # 0
    <3>1. screen' = [NoScreen EXCEPT !.kind = "address", !.key = hdPath']
          /\ reply' = Status("none")
      BY <2>1 DEF handle_get_public_key
    <3>2. screen' \in Screen /\ screen'.kind = "address"
      <4>1. screen' = [kind |-> "address", shows |-> {}, max_fees |-> 0,
                       to_review |-> 0, key |-> hdPath']
        BY <3>1 DEF NoScreen
      <4> QED
        BY <1>3, <4>1 DEF Screen
    <3> QED
      BY <3>1, <3>2, StatusType DEF StatusWords
  <2>2. CASE a.p1 = 0
    <3>1. screen' = screen /\ reply' = Answer("OK", hdPath', {})
      BY <2>2 DEF handle_get_public_key
    <3>2. reply' \in Answers
      BY <1>3, <3>1 DEF Answer, Answers, StatusWords
    <3> QED
      BY <3>1, <3>2 DEF Inv, TypeOK
  <2> QED
    BY <2>1, <2>2
<1> QED
  BY <1>2, <1>3, <1>4
  DEF Inv, TypeOK, GroupCountConsistent, ReviewCoversUpload, UploadWhole

\* Every command keeps the invariant.
LEMMA HandleApduPreserves ==
    ASSUME Inv, NEW a \in Framed, handleApdu(a)
    PROVE  Inv'
<1>1. screen.kind = "none"
  BY DEF handleApdu
<1>2. CASE handle_other(a) \/ RefuseLocked(a)
  <2>1. /\ hdPath' = hdPath /\ tx_initialized' = tx_initialized /\ buffer' = buffer
        /\ group_txn' = group_txn /\ mode' = mode /\ screen' = screen /\ sent' = sent
    BY <1>2 DEF handle_other, RefuseLocked
  <2>2. reply' \in {Status("INS_NOT_SUPPORTED"), Status("OK"), Status("LOCKED")}
    BY <1>2 DEF handle_other, RefuseLocked
  <2>3. reply' \in Answers
    BY <2>2, StatusType DEF StatusWords
  <2> QED
    BY <2>1, <2>3
    DEF Inv, TypeOK, GroupCountConsistent, ReviewCoversUpload, UploadWhole
<1> QED
  BY <1>1, <1>2, SignMsgpackPreserves, ArbitrarySignPreserves, GetPublicKeyPreserves
  DEF handleApdu

\* The user's answer, and the settings menu, keep the invariant.
LEMMA UserPreserves ==
    ASSUME Inv, Approve \/ app_reject \/ ToggleBlindsign
    PROVE  Inv'
<1>1. /\ hdPath' = hdPath /\ tx_initialized' = tx_initialized /\ buffer' = buffer
      /\ group_txn' = group_txn /\ sent' = sent
      /\ hdPath \in Keys /\ buffer \in Seq(Units)
  BY DEF Approve, app_reject, ToggleBlindsign, Inv, TypeOK
<1>2. CASE Approve
  <2>1. reply' \in Answers
    <3>1. Answer("OK", screen.key, {}) \in Answers
      BY DEF Inv, TypeOK, Screen, Answer, Answers, StatusWords
    <3>2. app_sign_arbitrary(hdPath, buffer) \in Answers
      BY <1>1, ToSignType, SignedType DEF app_sign_arbitrary
    <3>3. app_sign(hdPath, buffer) \in Answers
      BY <1>1, SignedType DEF app_sign
    <3> QED
      BY <1>2, <3>1, <3>2, <3>3 DEF Approve
  <2> QED
    BY <1>1, <1>2, <2>1, NoScreenType
    DEF Approve, Inv, TypeOK, GroupCountConsistent, ReviewCoversUpload, UploadWhole
<1>3. CASE app_reject
  <2>1. reply' = Status("COMMAND_NOT_ALLOWED")
    BY <1>3 DEF app_reject
  <2>2. reply' \in Answers
    BY <2>1, StatusType DEF StatusWords
  <2> QED
    BY <1>1, <1>3, <2>2, NoScreenType
    DEF app_reject, Inv, TypeOK, GroupCountConsistent, ReviewCoversUpload, UploadWhole
<1>4. CASE ToggleBlindsign
  <2>1. mode' \in Modes
    <3>1. PICK s \in {FALSE, mode.skipped} :
             mode' = [blindsign |-> ~mode.blindsign, skipped |-> s]
      BY <1>4 DEF ToggleBlindsign
    <3>2. mode.blindsign \in BOOLEAN /\ mode.skipped \in BOOLEAN
      BY DEF Inv, TypeOK, Modes
    <3>3. s \in BOOLEAN /\ (~mode.blindsign) \in BOOLEAN
      BY <3>2
    <3> QED
      BY <3>1, <3>3 DEF Modes
  <2> QED
    BY <1>1, <1>4, <2>1
    DEF ToggleBlindsign, Inv, TypeOK, GroupCountConsistent, ReviewCoversUpload, UploadWhole
<1> QED
  BY <1>2, <1>3, <1>4

\* The state after a start, of the application or of the device, satisfies the invariant.
LEMMA InitialState ==
    ASSUME hdPath = Unset, tx_initialized = FALSE, buffer = <<>>, group_txn = NoGroup,
           mode \in Modes, screen = NoScreen, sent = <<>>, reply \in Answers
    PROVE  Inv
<1>1. NoGroup \in Group /\ CountsConsistent(NoGroup)
  BY DEF NoGroup, Group, CountsConsistent
<1>2. <<>> \in Seq(Units) /\ Unset \in Keys
  BY EmptySeq DEF Keys
<1> QED
  BY <1>1, <1>2, NoScreenType DEF Inv, TypeOK, GroupCountConsistent, ReviewCoversUpload

\* A restart returns to such a state.
LEMMA RestartPreserves ==
    ASSUME Inv, Restart
    PROVE  Inv'
<1>1. reply' \in Answers
  BY StatusType DEF Restart, StatusWords
<1>2. mode' \in Modes
  BY DEF Restart, Inv, TypeOK, Modes
<1>3. NoGroup \in Group /\ CountsConsistent(NoGroup)
  BY DEF NoGroup, Group, CountsConsistent
<1>4. <<>> \in Seq(Units) /\ Unset \in Keys
  BY EmptySeq DEF Keys
<1> QED
  BY <1>1, <1>2, <1>3, <1>4, NoScreenType
  DEF Restart, Inv, TypeOK, GroupCountConsistent, ReviewCoversUpload

\* The invariant holds at first.
LEMMA InitInv == Init => Inv
<1> SUFFICES ASSUME Init PROVE Inv
  OBVIOUS
<1>1. mode \in Modes
  BY DataAssumption DEF Init, Modes
<1>2. reply \in Answers
  BY StatusType DEF Init, StatusWords
<1> QED
  BY <1>1, <1>2, InitialState DEF Init

\* The invariant is inductive, whichever commands hosts send.
LEMMA DeviceNextInv == Inv /\ [DeviceNext]_vars => Inv'
<1> SUFFICES ASSUME Inv, [DeviceNext]_vars PROVE Inv'
  OBVIOUS
<1>1. CASE DeviceNext
  BY <1>1, HandleApduPreserves, UserPreserves, RestartPreserves DEF DeviceNext
<1>2. CASE UNCHANGED vars
  BY <1>2 DEF vars, Inv, TypeOK, GroupCountConsistent, ReviewCoversUpload, UploadWhole, ParsedTxns
<1> QED
  BY <1>1, <1>2

\* The inductive invariant holds in every state of every behaviour.
THEOREM Invariance == Spec => []Inv
<1> QED
  BY InitInv, DeviceNextInv, HostsAreFramed, PTL DEF Spec

-----------------------------------------------------------------------------
(* The theorems.                                                             *)

\* Every reachable state of the device has the shape of its C objects, whatever
\* well-framed commands a host sends and in whatever order.
THEOREM TypeCorrect == Spec => []TypeOK
<1>1. Inv => TypeOK
  BY DEF Inv
<1> QED
  BY <1>1, Invariance, PTL

\* The group counters stay consistent over all resets and all missing resets.
THEOREM GroupCounts == Spec => []GroupCountConsistent
<1>1. Inv => GroupCountConsistent
  BY DEF Inv
<1> QED
  BY <1>1, Invariance, PTL

\* What the user is asked to approve is the whole of the last upload, and the
\* screen shows what the parser made of it, whatever it takes for a transaction.
THEOREM ReviewCovers == Spec => []ReviewCoversUpload
<1>1. Inv => ReviewCoversUpload
  BY DEF Inv
<1> QED
  BY <1>1, Invariance, PTL

-----------------------------------------------------------------------------
(* Signatures.                                                               *)

\* Only two steps answer with a signature.
LEMMA WhoSigns ==
    ASSUME Inv, DeviceNext, reply' # reply, reply'.signatures # {}
    PROVE  \/ \E a \in Framed : screen.kind = "none" /\ handle_sign_msgpack(a) /\ SignInBatch(a)
           \/ Approve /\ screen.kind # "none"
<1>1. \A sw \in StatusWords : Status(sw).signatures = {}
  BY StatusType
<1>2. ASSUME NEW a \in Framed, handleApdu(a)
      PROVE  screen.kind = "none" /\ handle_sign_msgpack(a) /\ SignInBatch(a)
  <2>1. ~handle_other(a) /\ ~RefuseLocked(a)
    BY <1>1 DEF handle_other, RefuseLocked, StatusWords
  <2>2. ~handle_get_public_key(a)
    BY <1>1 DEF handle_get_public_key, StatusWords, Answer
  <2>3. ~handle_arbitrary_sign(a)
    BY <1>1, ChunkStatusType DEF handle_arbitrary_sign, StoreMessageChunk, ReviewMessage,
                                 StatusWords
  <2>4. ~StoreTxChunk(a)
    BY <1>1, ChunkStatusType DEF StoreTxChunk
  <2>5. ~RejectTx(a) /\ ~ReviewTx(a)
    BY <1>1 DEF RejectTx, ReviewTx, StatusWords
  <2> QED
    BY <1>2, <2>1, <2>2, <2>3, <2>4, <2>5 DEF handleApdu, handle_sign_msgpack
<1>3. ~app_reject /\ ~Restart /\ ~ToggleBlindsign
  BY <1>1 DEF app_reject, Restart, ToggleBlindsign, StatusWords
<1> QED
  BY <1>2, <1>3 DEF DeviceNext, Approve

\* Every step gives out signatures over whole uploads only.
LEMMA StepSignsWhole ==
    ASSUME Inv, DeviceNext
    PROVE  NewSignatureIsWhole
<1> SUFFICES ASSUME reply' # reply, screen.kind # "message", reply'.signatures # {}
             PROVE  \A s \in reply'.signatures : s.message = sent'
  BY DEF NewSignatureIsWhole
<1>1. ASSUME NEW a \in Framed, handle_sign_msgpack(a), SignInBatch(a)
      PROVE  \A s \in reply'.signatures : s.message = sent'
  <2>1. /\ a.ins = "INS_SIGN_MSGPACK" /\ process_chunk(a, <<TXTag>>)
        /\ ChunkStatus(a, <<TXTag>>) = "complete"
        /\ reply' = Signed(hdPath', buffer')
    BY <1>1 DEF handle_sign_msgpack, SignInBatch, app_sign
  <2>2. hdPath' \in Keys /\ buffer' \in Seq(Units) /\ UploadWhole'
    BY <2>1, ChunkInSync
  <2> QED
    BY <2>1, <2>2, SignedType DEF UploadWhole
<1>2. ASSUME Approve, screen.kind # "none"
      PROVE  \A s \in reply'.signatures : s.message = sent'
  <2>1. hdPath \in Keys /\ buffer \in Seq(Units) /\ sent' = sent
    BY <1>2 DEF Inv, TypeOK, Approve
  <2>2. screen.kind \in {"transaction", "summary", "address"}
    BY <1>2 DEF Inv, TypeOK, Screen
  <2>3. CASE screen.kind = "address"
    BY <1>2, <2>3 DEF Approve, Answer
  <2>4. CASE screen.kind \in {"transaction", "summary"}
    <3>1. reply' = Signed(hdPath, buffer)
      BY <1>2, <2>4 DEF Approve, app_sign
    <3>2. UploadWhole
      BY <2>4 DEF Inv, ReviewCoversUpload
    <3> QED
      BY <2>1, <3>1, <3>2, SignedType DEF UploadWhole
  <2> QED
    BY <2>2, <2>3, <2>4
<1> QED
  BY <1>1, <1>2, WhoSigns

\* The device never signs less, or other, than the whole of the last upload: for
\* every size of the buffer and every order of commands.
THEOREM SignaturesAreWhole == Spec => SignsWholeUpload
<1>1. Inv /\ [Next]_vars => [NewSignatureIsWhole]_vars
  BY StepSignsWhole, HostsAreFramed
<1> QED
  BY <1>1, Invariance, PTL DEF Spec, SignsWholeUpload

\* Every step that signs without a review leaves one due.
LEMMA StepOwesReview ==
    ASSUME Inv, DeviceNext
    PROVE  UnreviewedOwesReview
<1> SUFFICES ASSUME reply' # reply, reply'.signatures # {}, screen.kind = "none"
             PROVE  /\ group_txn'.initialized
                    /\ mode.blindsign
                    /\ group_txn'.num_of_txns_reviewed < group_txn'.num_of_txns
  BY DEF UnreviewedOwesReview
<1>1. PICK a \in Framed : SignInBatch(a)
  BY WhoSigns
<1> DEFINE g(t) == AddFees(GroupForChunk(a), t)
<1>2. PICK t \in ParsedTxns(buffer') \intersect WellFormed :
        /\ InBatch(g(t))
        /\ NotLastOfGroup(g(t))
        /\ group_txn' = increment_num_of_txns_reviewed(g(t))
  BY <1>1 DEF SignInBatch
<1> DEFINE h == g(t)
<1>3. t \in Txns
  BY <1>2, ParsedType
<1>4. h \in Group
  BY <1>3, GroupAfterFees
<1> HIDE DEF h
<1>5. /\ InBatch(h) /\ h.num_of_txns_reviewed < h.num_of_txns - 1
      /\ group_txn' = increment_num_of_txns_reviewed(h)
  BY <1>2 DEF h, NotLastOfGroup
<1>6. h.initialized /\ mode.blindsign
  BY <1>5 DEF InBatch, app_mode_blindsign_required
<1>7. /\ group_txn'.initialized = h.initialized
      /\ group_txn'.num_of_txns = h.num_of_txns
      /\ group_txn'.num_of_txns_reviewed = h.num_of_txns_reviewed + 1
  BY <1>4, <1>5 DEF increment_num_of_txns_reviewed, Group
<1>8. h.num_of_txns \in Nat /\ h.num_of_txns_reviewed \in Nat
  BY <1>4 DEF Group
<1> QED
  BY <1>5, <1>6, <1>7, <1>8

\* Signing without a review always leaves a review of the same group due.
THEOREM UnreviewedSignaturesOweReview == Spec => UnreviewedSignatureOwesReview
<1>1. Inv /\ [Next]_vars => [UnreviewedOwesReview]_vars
  BY StepOwesReview, HostsAreFramed
<1> QED
  BY <1>1, Invariance, PTL DEF Spec, UnreviewedSignatureOwesReview

=============================================================================
