---------------------------- MODULE Alone_proofs ----------------------------
(***************************************************************************)
(* Calls that run one after another, each asking for its key first.        *)
(*                                                                         *)
(* A call is only given signatures of the account it asked for: the        *)
(* derivation path, a global of the device (crypto.c:23), is the call's    *)
(* own from the answer to that question until the call ends, or is unset   *)
(* by a restart, and nothing is signed without one.  It signs what it      *)
(* planned, the transactions of that account.  And it fails only for a     *)
(* cause: without a disruption the device takes every chunk of what it     *)
(* can sign.                                                               *)
(***************************************************************************)
EXTENDS LedgerClient_proofs

\* The application makes one call at a time, and each begins with getPubkey.
OneAtATime == MaxConcurrent = 1 /\ \A c \in Calls : Request[c].asks

\* The call's own path, or none.
OwnPath(c) == hdPath \in {Unset, Request[c].account}

\* A call that signs, or is about to read that it may, has its own path.
PathOfCall ==
    \A c \in Calls :
        call[c].stage = "signing" \/ (c \in pending /\ reply.sw = "OK") => OwnPath(c)

\* The question for a key leaves no review.
ReviewOfSigning == screen.kind # "none" => \A c \in pending : call[c].stage = "signing"

\* The answer a call waits for is of its account.
KeyOfAnswer == \A c \in pending : \A s \in reply.signatures : s.key = Request[c].account

\* The strengthening of KeyOfAccount.
KeyInv ==
    /\ ClientInv
    /\ OneOpen
    /\ PathOfCall
    /\ ReviewOfSigning
    /\ KeyOfAnswer
    /\ KeyOfAccount

\* KeyOfAccount, of one call whose state is r.
KeysOK(c, r) ==
    \A j \in DOMAIN Request[c].items : \A s \in r.results[j] : s.key = Request[c].account

-----------------------------------------------------------------------------
(* The device.                                                               *)

\* What is signed is signed with the current path.
LEMMA SignedKey ==
    ASSUME NEW path, NEW message
    PROVE  \A s \in Signed(path, message).signatures : s.key = path /\ path # Unset
BY DEF Signed, Status, Answer

\* A chunk leaves the path alone, or names the account.
LEMMA ChunkPath ==
    ASSUME NEW a, NEW tag, NEW id, process_chunk(a, tag),
           HasAccount(a) => a.data # <<>> /\ Head(a.data) = AccountUnit(id)
    PROVE  hdPath' = hdPath \/ hdPath' = id
<1>1. HasAccount(a) => extractHDPath(a.data) = id
  BY DEF extractHDPath, AccountUnit
<1> QED
  BY <1>1 DEF process_chunk, ChunkIgnored, ChunkAppended

\* Where P1 says that a chunk of a call starts with an account id, it is the call's.
LEMMA ChunkAccount ==
    ASSUME NEW c \in Calls, CallOK(c, call[c])
    PROVE  /\ HasAccount(signSendChunk(c)) =>
                signSendChunk(c).data # <<>>
                /\ Head(signSendChunk(c).data) = AccountUnit(Request[c].account)
           /\ ~HasAccount(rawSignChunk(c))
<1> DEFINE a == signSendChunk(c)
           u == <<Item(c), call[c].chunk>>
           acct == AccountUnit(Request[c].account)
           n == numOfTxns(c)
           flag == IF call[c].chunk > 1 THEN P1_MORE
                   ELSE IF Request[c].account # 0 THEN P1_FIRST_ACCOUNT_ID ELSE 0
<1>1. a.p1 = 2 * n + flag /\ a.data = prepareChunk(c)
  BY DEF signSendChunk
<1>2. n \in 0..16 /\ flag \in {0, 1, 128}
  BY CountIsSmall DEF P1_MORE, P1_FIRST_ACCOUNT_ID
<1>3. call[c].chunk \in 1..Size[Request[c].items[call[c].item]]
  BY DEF CallOK
<1>4. flag = 1 => Request[c].account # 0 /\ call[c].chunk = 1
  BY <1>3 DEF P1_MORE, P1_FIRST_ACCOUNT_ID
<1>5. flag = 1 => prepareChunk(c) = <<acct>> \o <<u>>
  BY <1>4, Zenon DEF prepareChunk, u
<1>6. u \in Payload /\ acct \in Payload
  BY ChunkIsPayload, RequestType DEF Payload
<1> HIDE DEF a, n, flag, u, acct
<1>7. HasAccount(a) => flag = 1
  BY <1>1, <1>2 DEF HasAccount, P1_FIRST_ACCOUNT_ID
<1>8. <<acct>> \o <<u>> # <<>> /\ Head(<<acct>> \o <<u>>) = acct
  <2> DEFINE s == <<acct>> \o <<u>>
  <2>1. s \in Seq(Payload) /\ Len(s) = 2 /\ s[1] = acct /\ s # <<>>
    BY <1>6, TwoUnits
  <2> HIDE DEF s
  <2>2. Head(s) = acct
    BY <2>1
  <2> QED
    BY <2>1, <2>2 DEF s
<1>9. ~HasAccount(rawSignChunk(c))
  BY DEF HasAccount, rawSignChunk, P1_MORE, P1_FIRST_ACCOUNT_ID
<1> QED
  BY <1>1, <1>5, <1>7, <1>8, <1>9 DEF a, acct

\* A command of a call that signs keeps its path, and signs with it.
LEMMA ChunkExchange ==
    ASSUME KeyInv, NEW c \in Calls, call[c].stage = "signing", Exchange(c)
    PROVE  /\ OwnPath(c)'
           /\ \A s \in reply'.signatures : s.key = Request[c].account
<1>1. /\ OwnPath(c) /\ CallOK(c, call[c])
      /\ handleApdu(NextApdu(c))
      /\ NextApdu(c) \in {signSendChunk(c), rawSignChunk(c)}
  BY DEF KeyInv, ClientInv, CallsTyped, PathOfCall, Exchange, NextApdu
<1>2. \A sw : Status(sw).signatures = {}
  BY DEF Status, Answer
<1>3. PICK a \in {signSendChunk(c), rawSignChunk(c)} : handleApdu(a)
  BY <1>1
<1>4. /\ a.ins \in {"INS_SIGN_MSGPACK", "INS_ARBITRARY_SIGN"}
      /\ HasAccount(a) => a.data # <<>> /\ Head(a.data) = AccountUnit(Request[c].account)
  <2>1. signSendChunk(c).ins = "INS_SIGN_MSGPACK" /\ rawSignChunk(c).ins = "INS_ARBITRARY_SIGN"
    BY DEF signSendChunk, rawSignChunk
  <2>2. a = signSendChunk(c) \/ a = rawSignChunk(c)
    BY <1>3
  <2> QED
    BY <1>1, <2>1, <2>2, ChunkAccount
<1>5. ASSUME NEW tag, process_chunk(a, tag) PROVE OwnPath(c)'
  <2>1. hdPath' = hdPath \/ hdPath' = Request[c].account
    BY <1>4, <1>5, ChunkPath
  <2> QED
    BY <1>1, <2>1 DEF OwnPath
<1>6. CASE handle_sign_msgpack(a)
  <2>1. OwnPath(c)'
    BY <1>5, <1>6 DEF handle_sign_msgpack, StoreTxChunk, RejectTx, SignInBatch, ReviewTx
  <2>2. reply'.signatures = {} \/ reply' = Signed(hdPath', buffer')
    BY <1>2, <1>6 DEF handle_sign_msgpack, StoreTxChunk, RejectTx, SignInBatch, ReviewTx, app_sign
  <2> QED
    BY <2>1, <2>2, SignedKey DEF OwnPath
<1>7. CASE handle_arbitrary_sign(a)
  <2>1. OwnPath(c)' /\ reply'.signatures = {}
    BY <1>2, <1>5, <1>7 DEF handle_arbitrary_sign, StoreMessageChunk, ReviewMessage
  <2> QED
    BY <2>1
<1>8. CASE RefuseLocked(a)
  <2>1. hdPath' = hdPath /\ reply'.signatures = {}
    BY <1>2, <1>8 DEF RefuseLocked
  <2> QED
    BY <1>1, <2>1 DEF OwnPath
<1> QED
  BY <1>3, <1>4, <1>6, <1>7, <1>8 DEF handleApdu, handle_get_public_key, handle_other

\* The question for a key sets the path, or is refused; it signs nothing.
LEMMA KeyExchange ==
    ASSUME NEW c \in Calls, call[c].stage = "pubkey", Exchange(c)
    PROVE  /\ reply'.sw = "OK" => OwnPath(c)'
           /\ reply'.signatures = {}
           /\ screen' = screen
<1> DEFINE a == getPubkey(c)
<1>1. a.ins = "INS_GET_PUBLIC_KEY" /\ a.p1 = 0 /\ extractHDPath(a.data) = Request[c].account
  BY DEF getPubkey, extractHDPath, AccountUnit
<1>2. handle_get_public_key(a) \/ RefuseLocked(a)
  BY <1>1 DEF Exchange, NextApdu, handleApdu, handle_sign_msgpack, handle_arbitrary_sign, handle_other
<1> HIDE DEF a
<1>3. CASE handle_get_public_key(a)
  BY <1>1, <1>3 DEF handle_get_public_key, OwnPath, Answer
<1>4. CASE RefuseLocked(a)
  BY <1>4 DEF RefuseLocked, Status, Answer
<1> QED
  BY <1>2, <1>3, <1>4

\* The user's answer is signed with the current path; a restart leaves none.
LEMMA AnswerKey ==
    ASSUME UserApproves \/ UserRejects \/ DeviceRestarts \/ UserTogglesBlindsign
    PROVE  /\ hdPath' = hdPath \/ hdPath' = Unset
           /\ reply' # reply => \A s \in reply'.signatures : s.key = hdPath /\ hdPath # Unset
           /\ reply' # reply /\ reply'.sw = "OK" => screen.kind # "none" /\ hdPath' = hdPath
           /\ reply' # reply /\ reply'.signatures # {} => screen.kind # "none"
           /\ screen'.kind \in {"none", screen.kind}
<1>1. \A sw : Status(sw).signatures = {} /\ Status(sw).sw = sw
  BY DEF Status, Answer
<1>2. NoScreen.kind = "none"
  BY NoScreenType
<1>3. CASE UserApproves
  <2>1. /\ screen.kind # "none" /\ screen' = NoScreen /\ hdPath' = hdPath
        /\ reply' = Answer("OK", screen.key, {}) \/ \E m : reply' = Signed(hdPath, m)
    BY <1>3, Zenon DEF UserApproves, Approve, app_sign, app_sign_arbitrary
  <2>2. Answer("OK", screen.key, {}).signatures = {}
    BY DEF Answer
  <2> QED
    BY <1>2, <2>1, <2>2, SignedKey
<1>4. CASE UserRejects \/ DeviceRestarts
  <2>1. /\ screen' = NoScreen /\ (hdPath' = hdPath \/ hdPath' = Unset)
        /\ reply' = Status("COMMAND_NOT_ALLOWED") \/ reply' = Status("DISCONNECTED")
    BY <1>4 DEF UserRejects, app_reject, DeviceRestarts, Restart
  <2> QED
    BY <1>1, <1>2, <2>1
<1>5. CASE UserTogglesBlindsign
  BY <1>5 DEF UserTogglesBlindsign, ToggleBlindsign
<1> QED
  BY <1>3, <1>4, <1>5

-----------------------------------------------------------------------------
(* The calls.                                                                *)

\* KeyOfAccount is the conjunction of those.
LEMMA KeysByCall == KeyOfAccount <=> \A c \in Calls : KeysOK(c, call[c])
BY Zenon DEF KeyOfAccount, KeysOK

\* What a call makes of an answer of its account keeps its signatures its own; it
\* goes on to sign only if it was signing, or was told its key.
LEMMA AfterAnswerKeys ==
    ASSUME NEW c \in Calls, CallOK(c, call[c]), KeysOK(c, call[c]), Active(c),
           NEW answer, answer.signatures \in SUBSET Signature,
           \A s \in answer.signatures : s.key = Request[c].account
    PROVE  /\ KeysOK(c, AfterAnswer(c, answer))
           /\ AfterAnswer(c, answer).stage = "signing"
                => call[c].stage = "signing" \/ answer.sw = "OK"
<1>1. KeysOK(c, Failed(c)) /\ Failed(c).stage = "failed"
  BY FailedType DEF KeysOK
<1>2. CASE call[c].stage = "pubkey"
  <2>1. AfterAnswer(c, answer) = AfterPubkey(c, answer.sw, answer.key)
    BY <1>2 DEF AfterAnswer
  <2>2. answer.sw # "OK" => AfterPubkey(c, answer.sw, answer.key) = Failed(c)
    BY Zenon DEF AfterPubkey
  <2>3. ASSUME NEW S \in SUBSET DOMAIN Request[c].items, S # {}
        PROVE  KeysOK(c, Signing(c, S))
    <3>1. Signing(c, S).results = call[c].results
      BY <1>2, <2>3, SigningType
    <3> QED
      BY <3>1 DEF KeysOK
  <2> QED
    BY <1>1, <2>1, <2>2, <2>3, AfterPubkeyCases
<1>3. CASE call[c].stage = "signing"
  <2>1. AfterAnswer(c, answer) = AfterChunk(c, answer.sw, answer.signatures)
    BY <1>3 DEF AfterAnswer
  <2>2. call[c] \in CallType(c)
    BY DEF CallOK
  <2> DEFINE n == [call[c] EXCEPT !.chunk = @ + 1]
  <2>3. n.results = call[c].results
    BY <2>2 DEF CallType
  <2>4. KeysOK(c, n)
    BY <2>3 DEF KeysOK
  <2>5. KeysOK(c, AfterItem(c, answer.signatures))
    <3> DEFINE i == call[c].item
               m == AfterItem(c, answer.signatures)
    <3>1. /\ i \in DOMAIN Request[c].items
          /\ call[c].results \in [DOMAIN Request[c].items -> SUBSET Signature]
          /\ m.results = [call[c].results EXCEPT ![i] = answer.signatures]
      BY <2>2, AfterItemType DEF CallType
    <3> HIDE DEF m
    <3>2. \A j \in DOMAIN Request[c].items :
             m.results[j] = answer.signatures \/ m.results[j] = call[c].results[j]
      BY <3>1
    <3>3. KeysOK(c, m)
      BY <3>2 DEF KeysOK
    <3> QED
      BY <3>3 DEF m
  <2> HIDE DEF n
  <2> QED
    BY <1>1, <1>3, <2>1, <2>4, <2>5 DEF AfterChunk, n
<1> QED
  BY <1>2, <1>3 DEF Active

\* A step that moves one call and leaves the device alone.
LEMMA MoveKeeps ==
    ASSUME KeyInv, UNCHANGED vars, NEW c \in Calls, NEW r, call' = [call EXCEPT ![c] = r],
           KeysOK(c, r), r.stage = "signing" => OwnPath(c),
           r.stage \in {"pubkey", "signing"} => Active(c) \/ \A d \in Calls : ~Active(d),
           pending' \subseteq pending, c \notin pending'
    PROVE  OneOpen' /\ PathOfCall' /\ ReviewOfSigning' /\ KeyOfAnswer' /\ KeyOfAccount'
<1>1. /\ call = [d \in Calls |-> call[d]] /\ pending \subseteq Calls
      /\ \A d \in Calls : KeysOK(d, call[d])
  BY KeysByCall DEF KeyInv, ClientInv, CallsTyped
<1>2. call'[c] = r /\ \A d \in Calls : d # c => call'[d] = call[d]
  BY <1>1
<1>3. UNCHANGED <<hdPath, screen, reply>>
  BY DEF vars
<1>4. \A d \in Calls : KeysOK(d, call'[d])
  BY <1>1, <1>2
<1>5. KeyOfAccount'
  BY <1>4, Zenon DEF KeyOfAccount, KeysOK
<1>6. OneOpen'
  BY <1>2 DEF KeyInv, OneOpen, Active
<1>7. PathOfCall'
  BY <1>2, <1>3 DEF KeyInv, PathOfCall, OwnPath
<1>8. ReviewOfSigning' /\ KeyOfAnswer'
  BY <1>1, <1>2, <1>3 DEF KeyInv, ReviewOfSigning, KeyOfAnswer
<1> QED
  BY <1>5, <1>6, <1>7, <1>8

\* The strengthening is inductive.
LEMMA KeyNextInv ==
    ASSUME OneAtATime, KeyInv, [ClientNext]_allvars
    PROVE  KeyInv'
<1> DEFINE Goal == OneOpen' /\ PathOfCall' /\ ReviewOfSigning' /\ KeyOfAnswer' /\ KeyOfAccount'
<1>1. ClientInv' /\ TypeOK /\ CallsTyped
  BY ClientNextInv DEF KeyInv, ClientInv, Inv
<1> SUFFICES Goal
  BY <1>1 DEF KeyInv
<1>2. /\ \A c \in Calls : CallOK(c, call[c]) /\ KeysOK(c, call[c])
      /\ \A c \in pending : c \in Calls /\ Active(c)
  BY <1>1, KeysByCall DEF KeyInv, CallsTyped
<1>3. call' = call => OneOpen' /\ KeyOfAccount'
  BY DEF KeyInv, OneOpen, Active, KeyOfAccount
<1>4. ASSUME NEW c \in Calls, Start(c) PROVE Goal
  <2> DEFINE r == [call[c] EXCEPT !.stage = "pubkey"]
  <2>1. /\ call' = [call EXCEPT ![c] = r] /\ pending' = pending /\ UNCHANGED vars
        /\ call[c].stage = "idle"
    BY <1>1, <1>4 DEF Start, CallsTyped, OneAtATime
  <2>2. \A d \in Calls : ~Active(d)
    BY <1>4, StartsAlone DEF KeyInv, OneAtATime
  <2>3. c \notin pending
    BY <1>2, <2>2
  <2>4. r.stage = "pubkey" /\ r.results = call[c].results
    BY <1>2 DEF CallOK, CallType
  <2>5. KeysOK(c, r)
    BY <1>2, <2>4 DEF KeysOK
  <2> HIDE DEF r
  <2> QED
    BY <2>1, <2>2, <2>3, <2>4, <2>5, MoveKeeps
<1>5. ASSUME NEW c \in Calls, Exchange(c) PROVE Goal
  <2>1. call' = call /\ pending' = {c} /\ screen.kind = "none"
        /\ (call[c].stage = "pubkey" \/ call[c].stage = "signing")
    BY <1>5 DEF Exchange, Active, handleApdu
  <2>2. \A d \in Calls : call[d].stage = "signing" => d = c
    BY <2>1 DEF KeyInv, OneOpen, Active
  <2>3. CASE call[c].stage = "signing"
    <3>1. OwnPath(c)' /\ \A s \in reply'.signatures : s.key = Request[c].account
      BY <1>5, <2>3, ChunkExchange
    <3>2. PathOfCall'
      BY <2>1, <2>2, <3>1 DEF PathOfCall, OwnPath
    <3>3. ReviewOfSigning' /\ KeyOfAnswer'
      BY <2>1, <2>3, <3>1 DEF ReviewOfSigning, KeyOfAnswer
    <3> QED
      BY <1>3, <2>1, <3>2, <3>3
  <2>4. CASE call[c].stage = "pubkey"
    <3>1. /\ reply'.sw = "OK" => OwnPath(c)'
          /\ reply'.signatures = {} /\ screen' = screen
      BY <1>5, <2>4, KeyExchange
    <3>2. PathOfCall'
      BY <2>1, <2>2, <2>4, <3>1 DEF PathOfCall, OwnPath
    <3>3. ReviewOfSigning' /\ KeyOfAnswer'
      BY <2>1, <3>1 DEF ReviewOfSigning, KeyOfAnswer
    <3> QED
      BY <1>3, <2>1, <3>2, <3>3
  <2> QED
    BY <2>1, <2>3, <2>4
<1>6. ASSUME NEW c \in Calls, Resume(c) PROVE Goal
  <2>1. /\ call' = [call EXCEPT ![c] = AfterAnswer(c, reply)]
        /\ c \in pending /\ pending' = {} /\ UNCHANGED vars
    BY <1>6 DEF Resume
  <2>2. /\ Active(c) /\ reply.signatures \in SUBSET Signature
        /\ \A s \in reply.signatures : s.key = Request[c].account
    BY <1>1, <1>2, <2>1, ReplySignatures DEF KeyInv, KeyOfAnswer
  <2>3. /\ KeysOK(c, AfterAnswer(c, reply))
        /\ AfterAnswer(c, reply).stage = "signing"
             => call[c].stage = "signing" \/ reply.sw = "OK"
    BY <1>2, <2>2, AfterAnswerKeys
  <2>4. AfterAnswer(c, reply).stage = "signing" => OwnPath(c)
    BY <2>1, <2>3 DEF KeyInv, PathOfCall
  <2> QED
    BY <2>1, <2>2, <2>3, <2>4, MoveKeeps
<1>7. ASSUME NEW c \in Calls, SendFails(c) \/ AnswerLost(c) PROVE Goal
  <2>1. /\ call' = [call EXCEPT ![c] = AfterAnswer(c, TransportError)]
        /\ pending' = {} /\ UNCHANGED vars /\ Active(c)
    BY <1>2, <1>7 DEF SendFails, AnswerLost
  <2>2. TransportError.signatures = {} /\ TransportError.sw # "OK"
    BY DEF TransportError, Status, Answer
  <2>3. /\ KeysOK(c, AfterAnswer(c, TransportError))
        /\ AfterAnswer(c, TransportError).stage = "signing" => call[c].stage = "signing"
    BY <1>2, <2>1, <2>2, AfterAnswerKeys
  <2>4. AfterAnswer(c, TransportError).stage = "signing" => OwnPath(c)
    BY <2>3 DEF KeyInv, PathOfCall
  <2> QED
    BY <2>1, <2>3, <2>4, MoveKeeps
<1>8. ASSUME NEW c \in Calls, Abandon(c) PROVE Goal
  <2>1. /\ call' = [call EXCEPT ![c] = Failed(c)]
        /\ pending' = pending \ {c} /\ UNCHANGED vars
    BY <1>8 DEF Abandon
  <2>2. KeysOK(c, Failed(c)) /\ Failed(c).stage = "failed"
    BY <1>2, FailedType DEF KeysOK
  <2> QED
    BY <2>1, <2>2, MoveKeeps
<1>9. ASSUME UserApproves \/ UserRejects \/ DeviceRestarts \/ UserTogglesBlindsign PROVE Goal
  <2>1. call' = call /\ pending' = pending
    BY <1>9 DEF UserApproves, UserRejects, DeviceRestarts, UserTogglesBlindsign
  <2>2. /\ hdPath' = hdPath \/ hdPath' = Unset
        /\ reply' # reply => \A s \in reply'.signatures : s.key = hdPath /\ hdPath # Unset
        /\ reply' # reply /\ reply'.sw = "OK" => screen.kind # "none" /\ hdPath' = hdPath
        /\ reply' # reply /\ reply'.signatures # {} => screen.kind # "none"
        /\ screen'.kind \in {"none", screen.kind}
    BY <1>9, AnswerKey
  <2>3. \A c \in pending : screen.kind # "none" => call[c].stage = "signing" /\ OwnPath(c)
    BY <1>2 DEF KeyInv, ReviewOfSigning, PathOfCall
  <2>4. PathOfCall'
    <3> SUFFICES ASSUME NEW c \in Calls,
                        call[c].stage = "signing" \/ (c \in pending /\ reply'.sw = "OK")
                 PROVE  OwnPath(c)'
      BY <2>1 DEF PathOfCall
    <3>1. OwnPath(c)
      BY <2>2, <2>3 DEF KeyInv, PathOfCall
    <3> QED
      BY <2>2, <3>1 DEF OwnPath
  <2>5. KeyOfAnswer'
    <3> SUFFICES ASSUME NEW c \in pending, NEW s \in reply'.signatures
                 PROVE  s.key = Request[c].account
      BY <2>1 DEF KeyOfAnswer
    <3>1. CASE reply' = reply
      BY <3>1 DEF KeyInv, KeyOfAnswer
    <3>2. CASE reply' # reply
      BY <2>2, <2>3, <3>2 DEF OwnPath
    <3> QED
      BY <3>1, <3>2
  <2>6. ReviewOfSigning'
    BY <2>1, <2>2 DEF KeyInv, ReviewOfSigning
  <2> QED
    BY <1>3, <2>1, <2>4, <2>5, <2>6
<1>10. ASSUME UNCHANGED allvars PROVE Goal
  BY <1>3, <1>10 DEF KeyInv, allvars, vars, cvars, PathOfCall, OwnPath, ReviewOfSigning, KeyOfAnswer
<1> QED
  BY <1>4, <1>5, <1>6, <1>7, <1>8, <1>9, <1>10 DEF ClientNext

\* It holds at first.
LEMMA KeyInitInv == ClientInit => KeyInv
<1> SUFFICES ASSUME ClientInit PROVE KeyInv
  OBVIOUS
<1>1. ClientInv /\ screen = NoScreen /\ pending = {}
  BY ClientInitInv DEF ClientInit, Init
<1>2. \A c \in Calls : call[c] = NewCall(c)
  BY Zenon DEF ClientInit
<1>3. ASSUME NEW c \in Calls PROVE call[c].stage = "idle" /\ KeysOK(c, call[c])
  <2> DEFINE n == NewCall(c)
  <2>1. n.stage = "idle" /\ n.results = [i \in DOMAIN Request[c].items |-> {}]
    BY DEF NewCall
  <2>2. call[c] = n
    BY <1>2
  <2> HIDE DEF n
  <2>3. \A j \in DOMAIN Request[c].items : n.results[j] = {}
    BY <2>1
  <2> QED
    BY <2>1, <2>2, <2>3 DEF KeysOK
<1>4. KeyOfAccount
  BY <1>3, KeysByCall
<1> QED
  BY <1>1, <1>3, <1>4, NoScreenType
  DEF KeyInv, OneOpen, Active, PathOfCall, ReviewOfSigning, KeyOfAnswer

\* Calls that are made one after another, and ask for their key first, are given
\* signatures of their own account only, whatever is lost, abandoned or restarted,
\* though every signature is made with a path that some earlier command has left.
THEOREM KeysAreOfAccount ==
    ASSUME OneAtATime
    PROVE  ClientSpec => []KeyOfAccount
<1>1. KeyInv /\ [ClientNext]_allvars => KeyInv'
  BY KeyNextInv
<1>2. KeyInv => KeyOfAccount
  BY DEF KeyInv
<1> QED
  BY <1>1, <1>2, KeyInitInv, PTL DEF ClientSpec

-----------------------------------------------------------------------------
(* The calls keep to what they have to sign.                                 *)

\* The positions a call has to sign.
OwnPositions(c) ==
    {i \in DOMAIN Request[c].items :
        Request[c].kind # "sign" => Sender[Request[c].items[i]] = Request[c].account}

\* A call whose state is r signs what is its account's, from when it knows which
\* that is, and keeps no signature for anything else.
PlanOK(c, r) ==
    /\ r.stage \in {"idle", "pubkey"} => r.toSign = {}
    /\ r.stage \in {"signing", "done"} => r.toSign = OwnPositions(c) /\ r.item \in r.toSign
    /\ \A j \in DOMAIN Request[c].items : r.results[j] # {} => j \in r.toSign

\* The key a call is told is its account's.
KeyOfReply ==
    \A c \in pending :
        call[c].stage = "pubkey" /\ reply.sw = "OK" => reply.key = Request[c].account

\* Keys and plans.
PlanInv ==
    /\ KeyInv
    /\ KeyOfReply
    /\ \A c \in Calls : PlanOK(c, call[c])

\* A call that has not begun has nothing to sign yet.
LEMMA NewCallPlan ==
    ASSUME NEW c \in Calls
    PROVE  PlanOK(c, NewCall(c)) /\ NewCall(c).stage = "idle"
<1> DEFINE n == NewCall(c)
<1>1. n.stage = "idle" /\ n.toSign = {} /\ n.results = [i \in DOMAIN Request[c].items |-> {}]
  BY DEF NewCall
<1> HIDE DEF n
<1>2. PlanOK(c, n)
  BY <1>1 DEF PlanOK
<1> QED
  BY <1>1, <1>2 DEF n

\* A call that fails keeps its plan.
LEMMA FailedPlan ==
    ASSUME NEW c \in Calls, CallOK(c, call[c]), PlanOK(c, call[c])
    PROVE  PlanOK(c, Failed(c))
<1> DEFINE n == Failed(c)
<1>1. n.stage = "failed" /\ n.toSign = call[c].toSign /\ n.results = call[c].results
  BY FailedType
<1> HIDE DEF n
<1>2. PlanOK(c, n)
  BY <1>1 DEF PlanOK
<1> QED
  BY <1>2 DEF n

\* A call that begins to sign plans all that is its account's.
LEMMA SigningPlan ==
    ASSUME NEW c \in Calls, CallOK(c, call[c]), PlanOK(c, call[c]),
           call[c].stage \in {"idle", "pubkey"}, OwnPositions(c) # {}
    PROVE  PlanOK(c, Signing(c, OwnPositions(c)))
<1> DEFINE S == OwnPositions(c)
           n == Signing(c, S)
<1>1. S \in SUBSET DOMAIN Request[c].items /\ S # {}
  BY DEF OwnPositions
<1> HIDE DEF S
<1>2. Min(S) \in S
  BY <1>1, FirstOfRequest
<1>3. n.stage = "signing" /\ n.toSign = S /\ n.item = Min(S) /\ n.results = call[c].results
  BY <1>1, SigningType
<1>4. \A j \in DOMAIN Request[c].items : call[c].results[j] = {}
  BY DEF PlanOK
<1> HIDE DEF n
<1>5. PlanOK(c, n)
  BY <1>2, <1>3, <1>4 DEF PlanOK, S
<1> QED
  BY <1>5 DEF n, S

\* Told the key of its account, a call signs what is its account's.
LEMMA PubkeyPlan ==
    ASSUME NEW c \in Calls, NEW sw, NEW key, sw = "OK" => key = Request[c].account
    PROVE  \/ /\ AfterPubkey(c, sw, key) = Failed(c)
              /\ sw = "OK" => OwnPositions(c) = {}
           \/ OwnPositions(c) # {} /\ AfterPubkey(c, sw, key) = Signing(c, OwnPositions(c))
<1>1. CASE sw # "OK"
  BY <1>1, Zenon DEF AfterPubkey
<1>2. CASE sw = "OK"
  <2> DEFINE mine == {i \in DOMAIN Request[c].items : Sender[Request[c].items[i]] = key}
             S == IF Request[c].kind = "sign" THEN DOMAIN Request[c].items ELSE mine
  <2>1. S = OwnPositions(c)
    BY <1>2 DEF OwnPositions
  <2>2. AfterPubkey(c, sw, key) = IF S = {} THEN Failed(c) ELSE Signing(c, S)
    BY <1>2 DEF AfterPubkey
  <2> HIDE DEF S
  <2> QED
    BY <2>1, <2>2
<1> QED
  BY <1>1, <1>2

\* An item that is done leaves the plan as it is, and the next one is in it.
LEMMA AfterItemPlan ==
    ASSUME NEW c \in Calls, CallOK(c, call[c]), PlanOK(c, call[c]),
           call[c].stage = "signing", NEW sigs \in SUBSET Signature
    PROVE  PlanOK(c, AfterItem(c, sigs))
<1> DEFINE n == AfterItem(c, sigs)
           i == call[c].item
<1>1. /\ i \in DOMAIN Request[c].items
      /\ call[c].toSign \in SUBSET DOMAIN Request[c].items
      /\ call[c].results \in [DOMAIN Request[c].items -> SUBSET Signature]
  BY DEF CallOK, CallType
<1>2. /\ n.toSign = call[c].toSign /\ n.results = [call[c].results EXCEPT ![i] = sigs]
      /\ Later(c) = {} => n.item = i /\ n.stage = "done"
      /\ Later(c) # {} => n.item = Min(Later(c)) /\ n.stage = "signing"
  BY AfterItemType
<1>3. Later(c) # {} => Min(Later(c)) \in call[c].toSign
  <2>1. Later(c) \in SUBSET DOMAIN Request[c].items /\ Later(c) \subseteq call[c].toSign
    BY <1>1 DEF Later
  <2> QED
    BY <2>1, FirstOfRequest
<1>4. \A j \in DOMAIN Request[c].items : j = i \/ n.results[j] = call[c].results[j]
  BY <1>1, <1>2
<1> HIDE DEF n
<1>5. n.stage \in {"signing", "done"} /\ n.toSign = OwnPositions(c) /\ n.item \in n.toSign
  BY <1>2, <1>3 DEF PlanOK
<1>6. ASSUME NEW j \in DOMAIN Request[c].items, n.results[j] # {} PROVE j \in n.toSign
  BY <1>2, <1>4, <1>6 DEF PlanOK
<1>7. PlanOK(c, n)
  BY <1>5, <1>6 DEF PlanOK
<1> QED
  BY <1>7 DEF n

\* Whatever the answer, the call fails, begins to sign, goes on, or has all it
\* planned; and it keeps to its plan.
LEMMA AfterAnswerPlan ==
    ASSUME NEW c \in Calls, CallOK(c, call[c]), PlanOK(c, call[c]), Active(c),
           NEW answer, answer.signatures \in SUBSET Signature,
           call[c].stage = "pubkey" /\ answer.sw = "OK" => answer.key = Request[c].account
    PROVE  LET r == AfterAnswer(c, answer)
           IN  /\ PlanOK(c, r)
               /\ \/ r.stage = "failed" /\ r.toSign = call[c].toSign
                  \/ r.stage = "signing"
                  \/ call[c].stage = "signing" /\ r.stage = "done" /\ r.toSign = call[c].toSign
               /\ call[c].stage = "signing" => r.toSign = call[c].toSign
<1> DEFINE r == AfterAnswer(c, answer)
<1>1. PlanOK(c, Failed(c)) /\ Failed(c).stage = "failed" /\ Failed(c).toSign = call[c].toSign
  BY FailedPlan, FailedType
<1>2. CASE call[c].stage = "pubkey"
  <2>1. r = AfterPubkey(c, answer.sw, answer.key)
    BY <1>2 DEF AfterAnswer
  <2>2. CASE r = Failed(c)
    BY <1>1, <1>2, <2>2
  <2>3. CASE OwnPositions(c) # {} /\ r = Signing(c, OwnPositions(c))
    <3>1. OwnPositions(c) \in SUBSET DOMAIN Request[c].items
      BY DEF OwnPositions
    <3>2. Signing(c, OwnPositions(c)).stage = "signing"
      BY <1>2, <2>3, <3>1, SigningType
    <3> QED
      BY <1>2, <2>3, <3>2, SigningPlan
  <2> QED
    BY <1>2, <2>1, <2>2, <2>3, PubkeyPlan
<1>3. CASE call[c].stage = "signing"
  <2>1. r = AfterChunk(c, answer.sw, answer.signatures)
    BY <1>3 DEF AfterAnswer
  <2> DEFINE n == [call[c] EXCEPT !.chunk = @ + 1]
  <2>2. r = Failed(c) \/ r = n \/ r = AfterItem(c, answer.signatures)
    BY <2>1, Zenon DEF AfterChunk
  <2>3. CASE r = Failed(c)
    BY <1>1, <1>3, <2>3
  <2>4. CASE r = n
    <3>1. call[c] \in CallType(c)
      BY DEF CallOK
    <3>2. /\ n.stage = "signing" /\ n.toSign = call[c].toSign /\ n.item = call[c].item
          /\ n.results = call[c].results
      BY <1>3, <3>1 DEF CallType
    <3> HIDE DEF n
    <3>3. PlanOK(c, n)
      BY <1>3, <3>2 DEF PlanOK
    <3> QED
      BY <2>4, <3>2, <3>3
  <2>5. CASE r = AfterItem(c, answer.signatures)
    <3> DEFINE m == AfterItem(c, answer.signatures)
    <3>1. PlanOK(c, m)
      BY <1>3, AfterItemPlan
    <3>2. m.toSign = call[c].toSign /\ m.stage \in {"signing", "done"}
      BY <1>3, AfterItemType
    <3> HIDE DEF m
    <3>3. r = m
      BY <2>5 DEF m
    <3> QED
      BY <1>3, <3>1, <3>2, <3>3
  <2> HIDE DEF n
  <2> QED
    BY <2>2, <2>3, <2>4, <2>5
<1> QED
  BY <1>2, <1>3 DEF Active

-----------------------------------------------------------------------------
(* They do so in every step.                                                 *)

\* The question for a key is answered with the account's, or refused.
LEMMA PubkeyAnswer ==
    ASSUME NEW c \in Calls, call[c].stage = "pubkey", Exchange(c)
    PROVE  reply'.sw = "OK" => reply'.key = Request[c].account
<1> DEFINE a == getPubkey(c)
<1>1. a.ins = "INS_GET_PUBLIC_KEY" /\ a.p1 = 0 /\ extractHDPath(a.data) = Request[c].account
  BY DEF getPubkey, extractHDPath, AccountUnit
<1>2. handle_get_public_key(a) \/ RefuseLocked(a)
  BY <1>1 DEF Exchange, NextApdu, handleApdu, handle_sign_msgpack, handle_arbitrary_sign, handle_other
<1> HIDE DEF a
<1> QED
  BY <1>1, <1>2 DEF handle_get_public_key, RefuseLocked, Status, Answer

\* What the user or the environment does changes no plan and tells no key.
LEMMA AnswerTellsNoKey ==
    ASSUME PlanInv, UserApproves \/ UserRejects \/ DeviceRestarts \/ UserTogglesBlindsign
    PROVE  call' = call /\ pending' = pending /\ KeyOfReply'
<1>1. call' = call /\ pending' = pending
  BY DEF UserApproves, UserRejects, DeviceRestarts, UserTogglesBlindsign
<1>2. reply' # reply /\ reply'.sw = "OK" => screen.kind # "none"
  BY AnswerKey
<1>3. \A c \in pending : screen.kind # "none" => call[c].stage # "pubkey"
  BY DEF PlanInv, KeyInv, ReviewOfSigning
<1>4. KeyOfReply'
  BY <1>1, <1>2, <1>3 DEF PlanInv, KeyOfReply
<1> QED
  BY <1>1, <1>4

\* A step that moves one call, not the one that waits, and leaves the device alone.
LEMMA MoveKeepsPlan ==
    ASSUME PlanInv, reply' = reply, NEW c \in Calls, NEW r,
           call' = [call EXCEPT ![c] = r], PlanOK(c, r), pending' \subseteq pending, c \notin pending'
    PROVE  KeyOfReply' /\ \A d \in Calls : PlanOK(d, call[d])'
<1>1. call = [d \in Calls |-> call[d]] /\ pending \subseteq Calls
  BY DEF PlanInv, KeyInv, ClientInv, CallsTyped
<1>2. call'[c] = r /\ \A d \in Calls : d # c => call'[d] = call[d]
  BY <1>1
<1>3. \A d \in Calls : PlanOK(d, call'[d])
  BY <1>2 DEF PlanInv
<1>4. \A d \in Calls : PlanOK(d, call[d])'
  BY <1>3 DEF PlanOK, OwnPositions
<1>5. KeyOfReply'
  BY <1>1, <1>2 DEF PlanInv, KeyOfReply
<1> QED
  BY <1>4, <1>5

\* Every step keeps the plans.
LEMMA PlanNextInv ==
    ASSUME OneAtATime, PlanInv, [ClientNext]_allvars
    PROVE  PlanInv'
<1> DEFINE Goal == KeyOfReply' /\ \A d \in Calls : PlanOK(d, call[d])'
<1>1. KeyInv' /\ TypeOK /\ CallsTyped
  BY KeyNextInv DEF PlanInv, KeyInv, ClientInv, Inv
<1> SUFFICES Goal
  BY <1>1 DEF PlanInv
<1>2. /\ \A c \in Calls : CallOK(c, call[c]) /\ PlanOK(c, call[c])
      /\ \A c \in pending : c \in Calls /\ Active(c)
  BY <1>1 DEF PlanInv, CallsTyped
<1>3. call' = call => \A d \in Calls : PlanOK(d, call[d])'
  BY <1>2 DEF PlanOK, OwnPositions
<1>4. ASSUME NEW c \in Calls, Start(c) PROVE Goal
  <2> DEFINE r == [call[c] EXCEPT !.stage = "pubkey"]
  <2>1. /\ call' = [call EXCEPT ![c] = r] /\ pending' = pending /\ reply' = reply
        /\ call[c].stage = "idle"
    BY <1>1, <1>4 DEF Start, CallsTyped, OneAtATime, vars
  <2>2. c \notin pending
    BY <1>2, <2>1 DEF Active
  <2>3. r.stage = "pubkey" /\ r.toSign = call[c].toSign /\ r.results = call[c].results
    BY <1>2 DEF CallOK, CallType
  <2>4. PlanOK(c, r)
    BY <1>2, <2>1, <2>3 DEF PlanOK
  <2> HIDE DEF r
  <2> QED
    BY <2>1, <2>2, <2>4, MoveKeepsPlan
<1>5. ASSUME NEW c \in Calls, Exchange(c) PROVE Goal
  <2>1. call' = call /\ pending' = {c}
    BY <1>5 DEF Exchange
  <2>2. KeyOfReply'
    BY <1>5, <2>1, PubkeyAnswer DEF KeyOfReply
  <2> QED
    BY <1>3, <2>1, <2>2
<1>6. ASSUME NEW c \in Calls, Resume(c) PROVE Goal
  <2>1. /\ call' = [call EXCEPT ![c] = AfterAnswer(c, reply)]
        /\ c \in pending /\ pending' = {} /\ reply' = reply
    BY <1>6 DEF Resume, vars
  <2>2. PlanOK(c, AfterAnswer(c, reply))
    BY <1>1, <1>2, <2>1, ReplySignatures, AfterAnswerPlan DEF PlanInv, KeyOfReply
  <2> QED
    BY <2>1, <2>2, MoveKeepsPlan
<1>7. ASSUME NEW c \in Calls, SendFails(c) \/ AnswerLost(c) PROVE Goal
  <2>1. /\ call' = [call EXCEPT ![c] = AfterAnswer(c, TransportError)]
        /\ pending' = {} /\ reply' = reply /\ Active(c)
    BY <1>2, <1>7 DEF SendFails, AnswerLost, vars
  <2>2. TransportError.signatures = {} /\ TransportError.sw # "OK"
    BY DEF TransportError, Status, Answer
  <2>3. PlanOK(c, AfterAnswer(c, TransportError))
    BY <1>2, <2>1, <2>2, AfterAnswerPlan
  <2> QED
    BY <2>1, <2>3, MoveKeepsPlan
<1>8. ASSUME NEW c \in Calls, Abandon(c) PROVE Goal
  <2>1. /\ call' = [call EXCEPT ![c] = Failed(c)]
        /\ pending' = pending \ {c} /\ reply' = reply
    BY <1>8 DEF Abandon, vars
  <2> QED
    BY <1>2, <2>1, FailedPlan, MoveKeepsPlan
<1>9. ASSUME UserApproves \/ UserRejects \/ DeviceRestarts \/ UserTogglesBlindsign PROVE Goal
  BY <1>3, <1>9, AnswerTellsNoKey
<1>10. ASSUME UNCHANGED allvars PROVE Goal
  BY <1>3, <1>10 DEF allvars, vars, cvars, PlanInv, KeyOfReply
<1> QED
  BY <1>4, <1>5, <1>6, <1>7, <1>8, <1>9, <1>10 DEF ClientNext

\* It holds at first.
LEMMA PlanInitInv == ClientInit => PlanInv
<1> SUFFICES ASSUME ClientInit PROVE PlanInv
  OBVIOUS
<1>1. KeyInv
  BY KeyInitInv
<1>2. pending = {} /\ \A c \in Calls : call[c] = NewCall(c)
  BY Zenon DEF ClientInit
<1>3. \A c \in Calls : PlanOK(c, call[c])
  BY <1>2, NewCallPlan
<1> QED
  BY <1>1, <1>2, <1>3 DEF PlanInv, KeyOfReply

-----------------------------------------------------------------------------
(* Why a call fails: the upload of a call that nothing has disturbed.        *)

\* signGroup is taken for account 0 only, and not with a single transaction to sign:
\* the device refuses the one and does not see the account of the other.
GroupsAreTaken ==
    \A c \in Calls : Request[c].kind = "signGroup" =>
        Request[c].account = 0 /\ Cardinality(OwnPositions(c)) # 1

Signable(c) == ToSet(Request[c].items) \intersect Unsignable = {}

\* As long as nothing disturbs it, an open call is answered well, with its path set,
\* and between its chunks the buffer holds what it sent of the item in hand.
UploadKept(c) ==
    /\ call[c].stage = "signing" \/ c \in pending => hdPath = Request[c].account
    /\ c \in pending => reply.sw \in {"none", "OK"}
    /\ call[c].stage = "signing" /\ c \notin pending /\ call[c].chunk > 1
         => tx_initialized /\ buffer = Uploaded(Item(c), call[c].chunk - 1)
    /\ call[c].stage = "signing" /\ c \in pending /\ call[c].chunk < Size[Item(c)]
         => tx_initialized /\ buffer = Uploaded(Item(c), call[c].chunk)

Undisturbed(c) == Active(c) /\ c \notin excused /\ Signable(c)

\* The strengthening of FailsOnlyForCause.
CauseInv ==
    /\ PlanInv
    /\ \A c \in Calls : Undisturbed(c) => UploadKept(c)
    /\ FailsOnlyForCause

\* A chunk that continues an upload the device can hold is taken.
LEMMA ChunkIsTaken ==
    ASSUME NEW m \in (Txns \union Messages) \ Unsignable, NEW k \in 1..Size[m], NEW a,
           Body(a) = << <<m, k>> >>, ~TooShort(a),
           ~GroupCountRefused(P1_NUM_OF_TXNS_IN_GROUP(a.p1)),
           convertP1P2(a.p1, a.p2) = ChunkType(m, k),
           k > 1 => tx_initialized /\ buffer = Uploaded(m, k - 1),
           process_chunk(a, Tag(m))
    PROVE  /\ ChunkStatus(a, Tag(m)) = IF k < Size[m] THEN "OK" ELSE "complete"
           /\ buffer' = Uploaded(m, k)
           /\ tx_initialized' = (k < Size[m])
           /\ hdPath' = hdPath \/ (HasAccount(a) /\ hdPath' = extractHDPath(a.data))
<1> DEFINE type == ChunkType(m, k)
           base == UploadBase(a, Tag(m))
<1>1. /\ Size[m] \in Nat \ {0} /\ k \in Nat /\ k >= 1 /\ k <= Size[m]
      /\ BufferSize \in Nat /\ m \in Txns \union Messages
  BY DataAssumption
<1>2. base = Uploaded(m, k - 1)
  <2>1. CASE k = 1
    <3>1. base = Tag(m)
      BY <2>1 DEF UploadBase, ChunkType
    <3>2. Uploaded(m, 0) = Tag(m) /\ k - 1 = 0
      BY <1>1, <2>1, UploadGrows
    <3> QED
      BY <3>1, <3>2
  <2>2. CASE k > 1
    <3>1. type \in {"ADD", "LAST"}
      BY <2>2 DEF ChunkType
    <3>2. base = buffer
      BY <3>1 DEF UploadBase
    <3> QED
      BY <2>2, <3>2
  <2> QED
    BY <1>1, <2>1, <2>2
<1>3. Len(Tag(m)) + k <= BufferSize
  <2>1. CASE m \in Messages
    <3>1. Len(Tag(m)) = 0 /\ Size[m] <= BufferSize
      BY <1>1, <2>1 DEF Tag, Unsignable
    <3> QED
      BY <1>1, <3>1
  <2>2. CASE m \notin Messages
    <3>1. Len(Tag(m)) = 1 /\ Size[m] < BufferSize
      BY <1>1, <2>2 DEF Tag, Unsignable
    <3> QED
      BY <1>1, <3>1
  <2> QED
    BY <2>1, <2>2
<1> DEFINE u == << <<m, k>> >>
<1>4. Len(base) = Len(Tag(m)) + k - 1 /\ base \o u = Uploaded(m, k)
  BY <1>1, <1>2, UploadGrows
<1>5. Len(Tag(m)) \in Nat /\ Len(u) = 1
  BY DEF Tag
<1>6. Fits(base, u)
  BY <1>1, <1>3, <1>4, <1>5 DEF Fits
<1> HIDE DEF u, base
<1>7. ChunkStatus(a, Tag(m)) = IF k < Size[m] THEN "OK" ELSE "complete"
  <2>1. /\ type # "NONE"
        /\ type \in {"ADD", "LAST"} => tx_initialized
        /\ type \in {"INIT", "ADD"} <=> k < Size[m]
    BY <1>1 DEF ChunkType
  <2>2. Fits(UploadBase(a, Tag(m)), Body(a))
    BY <1>6 DEF base, u
  <2> QED
    BY <2>1, <2>2 DEF ChunkStatus
<1>8. ChunkAppended(a, Tag(m))
  BY <1>7 DEF process_chunk, ChunkIgnored
<1>9. buffer' = Uploaded(m, k)
  <2>1. buffer' = tx_append(base, u)
    BY <1>8 DEF ChunkAppended, base, u
  <2> QED
    BY <1>4, <1>6, <2>1 DEF tx_append
<1>10. tx_initialized' = (k < Size[m])
  BY <1>7, <1>8 DEF ChunkAppended
<1>11. hdPath' = hdPath \/ (HasAccount(a) /\ hdPath' = extractHDPath(a.data))
  <2>1. hdPath' = hdPath \/ hdPath' = IF HasAccount(a) THEN extractHDPath(a.data) ELSE hdPath
    BY <1>8 DEF ChunkAppended
  <2> QED
    BY <2>1
<1> QED
  BY <1>7, <1>9, <1>10, <1>11

\* What signSend sends is one more chunk of the item in hand, with a count the
\* device takes and, if an account id, the call's.
LEMMA SignCommand ==
    ASSUME GroupsAreTaken, NEW c \in Calls, CallOK(c, call[c]), PlanOK(c, call[c]),
           call[c].stage = "signing", Request[c].kind # "signData"
    PROVE  LET a == signSendChunk(c)
           IN  /\ Body(a) = << <<Item(c), call[c].chunk>> >>
               /\ ~TooShort(a)
               /\ ~GroupCountRefused(P1_NUM_OF_TXNS_IN_GROUP(a.p1))
               /\ convertP1P2(a.p1, a.p2) = ChunkType(Item(c), call[c].chunk)
               /\ HasAccount(a) => extractHDPath(a.data) = Request[c].account
<1> DEFINE a == signSendChunk(c)
           k == call[c].chunk
           u == <<Item(c), k>>
           acct == AccountUnit(Request[c].account)
           n == numOfTxns(c)
           flag == IF k > 1 THEN P1_MORE
                   ELSE IF Request[c].account # 0 THEN P1_FIRST_ACCOUNT_ID ELSE 0
<1>1. a.p1 = 2 * n + flag /\ a.data = prepareChunk(c) /\ a.p2 = P2(c)
  BY DEF signSendChunk
<1>2. n \in 0..16 /\ flag \in {0, 1, 128}
  BY CountIsSmall DEF P1_MORE, P1_FIRST_ACCOUNT_ID
<1>3. /\ Item(c) \in Txns \union Messages /\ k \in 1..Size[Item(c)]
      /\ Size[Item(c)] \in Nat \ {0}
  BY RequestType, DataAssumption DEF CallOK, CallType, Item
<1>4. /\ flag = 1 <=> Request[c].account # 0 /\ k = 1
      /\ flag = 128 <=> k > 1
  BY <1>3 DEF P1_MORE, P1_FIRST_ACCOUNT_ID
<1>5. Request[c].account # 0 => n = 0
  BY DEF GroupsAreTaken, numOfTxns
<1>6. ~GroupCountRefused(n)
  <2>1. CASE Request[c].kind = "signGroup"
    <3>0. /\ call[c].toSign \in SUBSET (1..Len(Request[c].items))
          /\ Len(Request[c].items) \in 1..16
      BY RequestType DEF CallOK, CallType
    <3>1. /\ call[c].toSign = OwnPositions(c) /\ call[c].toSign # {}
      BY Zenon DEF PlanOK
    <3>5. n = Cardinality(call[c].toSign)
      BY <2>1 DEF numOfTxns
    <3>2. IsFiniteSet(call[c].toSign)
      <4> DEFINE N == Len(Request[c].items)
      <4>1. IsFiniteSet(1..N)
        BY <3>0, FS_Interval
      <4> QED
        BY <3>0, <4>1, FS_Subset
    <3>3. n # 0
      BY <3>1, <3>2, <3>5, FS_EmptySet
    <3>4. n # 1
      BY <2>1, <3>1, <3>5 DEF GroupsAreTaken
    <3> QED
      BY <1>2, <3>3, <3>4 DEF GroupCountRefused, MIN_NUM_OF_TXNS_IN_GROUP, MAX_NUM_OF_TXNS_IN_GROUP
  <2>2. CASE Request[c].kind # "signGroup"
    BY <2>2 DEF numOfTxns, GroupCountRefused
  <2> QED
    BY <2>1, <2>2
<1>7. u \in Payload /\ acct \in Payload
  BY ChunkIsPayload, RequestType DEF Payload
<1>8. prepareChunk(c) = IF flag = 1 THEN <<acct>> \o <<u>> ELSE <<>> \o <<u>>
  BY <1>4, Zenon DEF prepareChunk
<1>9. P2(c) = IF k = Size[Item(c)] THEN P2_LAST ELSE P2_MORE
  BY DEF P2
<1> HIDE DEF a, n, flag, u, acct
<1>10. /\ Tail(<<acct>> \o <<u>>) = <<u>> /\ <<acct>> \o <<u>> # <<>>
       /\ Head(<<acct>> \o <<u>>) = acct /\ <<>> \o <<u>> = <<u>> /\ <<u>> # <<>>
  <2> DEFINE s == <<acct>> \o <<u>>
  <2>1. <<u>> \in Seq(Payload) /\ <<u>> # <<>>
    BY <1>7
  <2>2. <<>> \o <<u>> = <<u>>
    BY <2>1, ConcatEmptySeq
  <2>3. s \in Seq(Units) /\ s[1] = acct /\ s # <<>> /\ Tail(s) = <<u>>
    BY <1>7, TwoUnits DEF Units
  <2> HIDE DEF s
  <2>4. Head(s) = acct
    BY <2>3
  <2> QED
    BY <2>1, <2>2, <2>3, <2>4 DEF s
<1>11. HasAccount(a) <=> flag = 1
  BY <1>1, <1>2, <1>4, <1>5 DEF HasAccount, P1_FIRST_ACCOUNT_ID
<1>12. Body(a) = <<u>> /\ a.data # <<>>
  BY <1>1, <1>8, <1>10, <1>11 DEF Body
<1>13. HasAccount(a) => extractHDPath(a.data) = Request[c].account
  BY <1>1, <1>8, <1>10, <1>11 DEF extractHDPath, acct, AccountUnit
<1>14. ~GroupCountRefused(P1_NUM_OF_TXNS_IN_GROUP(a.p1))
  BY <1>1, <1>2, <1>6, CountInP1
<1>15. convertP1P2(a.p1, a.p2) = ChunkType(Item(c), k)
  BY <1>1, <1>2, <1>3, <1>4, <1>9, KindOfChunk
<1> QED
  BY <1>12, <1>13, <1>14, <1>15 DEF a, u, TooShort

\* The same for rawSign, which names no account.
LEMMA RawSignCommand ==
    ASSUME NEW c \in Calls, CallOK(c, call[c])
    PROVE  LET a == rawSignChunk(c)
           IN  /\ Body(a) = << <<Item(c), call[c].chunk>> >>
               /\ ~TooShort(a) /\ ~HasAccount(a)
               /\ ~GroupCountRefused(P1_NUM_OF_TXNS_IN_GROUP(a.p1))
               /\ convertP1P2(a.p1, a.p2) = ChunkType(Item(c), call[c].chunk)
<1> DEFINE a == rawSignChunk(c)
           k == call[c].chunk
           flag == IF k > 1 THEN P1_MORE ELSE 0
<1>1. /\ a.p1 = flag /\ a.data = << <<Item(c), k>> >>
      /\ a.p2 = IF k = Size[Item(c)] THEN P2_LAST ELSE P2_MORE
  BY DEF rawSignChunk, P2
<1>2. Item(c) \in Txns \union Messages /\ k \in 1..Size[Item(c)]
  BY RequestType DEF CallOK, CallType, Item
<1>3. flag \in {0, 1, 128} /\ (k > 1 <=> flag = 128) /\ flag = 2 * 0 + flag
  BY DEF P1_MORE
<1>4. ~HasAccount(a)
  BY <1>1 DEF HasAccount, P1_MORE, P1_FIRST_ACCOUNT_ID
<1> HIDE DEF a, flag
<1>5. P1_NUM_OF_TXNS_IN_GROUP(a.p1) = 0
  BY <1>1, <1>3, CountInP1
<1>6. convertP1P2(2 * 0 + flag, IF k = Size[Item(c)] THEN P2_LAST ELSE P2_MORE) = ChunkType(Item(c), k)
  BY <1>2, <1>3, KindOfChunk
<1> QED
  BY <1>1, <1>3, <1>4, <1>5, <1>6 DEF a, Body, TooShort, GroupCountRefused

\* A transaction that is uploaded whole is in the buffer.
LEMMA UploadedIsWhole ==
    ASSUME NEW t \in Txns, Size[t] \in Nat, NEW buf, buf = Uploaded(t, Size[t])
    PROVE  HoldsWhole(buf, t)
<1> DEFINE U == {TXTag} \union {<<t, i>> : i \in 1..Size[t]}
           s == [i \in 1..Size[t] |-> <<t, i>>]
           one == <<TXTag>>
<1>1. s \in Seq(U) /\ Len(s) = Size[t] /\ \A i \in 1..Size[t] : s[i] = <<t, i>>
  OBVIOUS
<1>2. one \in Seq(U) /\ Len(one) = 1 /\ one[1] = TXTag
  OBVIOUS
<1>3. buf = one \o s
  BY NameAssumption, Zenon DEF Uploaded, Tag
<1> HIDE DEF s, one, U
<1>4. Len(buf) = Size[t] + 1 /\ buf[1] = TXTag /\ \A i \in 1..Size[t] : buf[i + 1] = s[i]
  <2> DEFINE n == Size[t]
             r == one \o s
  <2>0. n \in Nat
    OBVIOUS
  <2>1. /\ Len(r) = Len(one) + Len(s)
        /\ \A i \in 1..(Len(one) + Len(s)) : r[i] = IF i <= Len(one) THEN one[i] ELSE s[i - Len(one)]
    BY <1>1, <1>2, ConcatProperties, Zenon
  <2>2. Len(one) = 1 /\ Len(s) = n /\ one[1] = TXTag
    BY <1>1, <1>2
  <2> HIDE DEF n, r
  <2>3. Len(r) = n + 1 /\ r[1] = TXTag
    BY <2>0, <2>1, <2>2
  <2>4. ASSUME NEW i \in 1..n PROVE r[i + 1] = s[i]
    BY <2>0, <2>1, <2>2
  <2> QED
    BY <1>3, <2>3, <2>4 DEF n, r
<1>5. Len(buf) > Size[t] /\ \A i \in 1..Size[t] : buf[i + 1] = <<t, i>>
  BY <1>1, <1>4
<1> QED
  BY <1>4, <1>5 DEF HoldsWhole

\* What is signed of a transaction holds it whole.
LEMMA ItemIsWhole ==
    ASSUME NEW t \in Txns
    PROVE  HoldsWhole(SignedBytes(t), t)
<1>1. Size[t] \in Nat /\ t \notin Messages
  BY NameAssumption, DataAssumption
<1>2. SignedBytes(t) = Uploaded(t, Size[t])
  BY <1>1, Zenon DEF Uploaded, Tag, SignedBytes, Encoding
<1> QED
  BY <1>1, <1>2, UploadedIsWhole

\* The parser finds a whole transaction, and no other one that is whole.
LEMMA WholeIsFound ==
    ASSUME NEW t \in Txns, NEW buf, HoldsWhole(buf, t)
    PROVE  /\ t \in ParsedTxns(buf)
           /\ \A u \in Txns : HoldsWhole(buf, u) => u = t
<1>1. t \in ParsedTxns(buf)
  BY DEF ParsedTxns
<1>2. ASSUME NEW u \in Txns, HoldsWhole(buf, u) PROVE u = t
  <2>1. 1 \in 1..Size[t] /\ 1 \in 1..Size[u]
    BY DataAssumption
  <2>2. buf[1 + 1] = <<t, 1>> /\ buf[1 + 1] = <<u, 1>>
    BY <1>2, <2>1 DEF HoldsWhole
  <2> QED
    BY <2>2
<1> QED
  BY <1>1, <1>2

\* A whole transaction that is well formed is read as itself.
LEMMA WholeIsRead ==
    ASSUME NEW t \in WellFormed, NEW buf, HoldsWhole(buf, t)
    PROVE  ParsedTxns(buf) = {t}
<1>1. t \in Txns
  BY NameAssumption
<1>2. t \in ParsedTxns(buf) /\ \A u \in Txns : HoldsWhole(buf, u) => u = t
  BY <1>1, WholeIsFound
<1>3. \A r \in Mixtures : r.buffer # buf
  BY MixtureAssumption
<1> QED
  BY <1>2, <1>3, Zenon DEF ParsedTxns

\* The parts of UploadKept that an exchange must establish.
ExchangeKept(c) ==
    /\ hdPath = Request[c].account
    /\ reply.sw \in {"none", "OK"}
    /\ call[c].stage = "signing" /\ call[c].chunk < Size[Item(c)]
         => tx_initialized /\ buffer = Uploaded(Item(c), call[c].chunk)

\* The next chunk of a transaction that nothing has disturbed: the device keeps it,
\* signs the transaction, shows it, or is locked.
LEMMA SignIsAnswered ==
    ASSUME GroupsAreTaken, NEW c \in Calls, CallOK(c, call[c]), PlanOK(c, call[c]),
           call[c].stage = "signing", Request[c].kind # "signData",
           Item(c) \notin Unsignable,
           hdPath = Request[c].account,
           call[c].chunk > 1
             => tx_initialized /\ buffer = Uploaded(Item(c), call[c].chunk - 1),
           UNCHANGED call,
           handleApdu(signSendChunk(c))
    PROVE  reply'.sw = "LOCKED" \/ ExchangeKept(c)'
<1> DEFINE a == signSendChunk(c)
           k == call[c].chunk
           m == Item(c)
           acct == Request[c].account
           b == << <<m, k>> >>
           status == ChunkStatus(a, <<TXTag>>)
<1>1. /\ m \in Txns /\ m \notin Messages /\ k \in 1..Size[m] /\ Size[m] \in Nat \ {0}
      /\ acct \in AccountIds /\ acct # Unset
  <2>1. m \in Txns /\ k \in 1..Size[m]
    BY RequestType DEF CallOK, CallType, Item
  <2>2. acct \in AccountIds
    BY RequestType
  <2> QED
    BY <2>1, <2>2, NameAssumption, DataAssumption, AccountAssumption DEF Unset
<1>2. /\ Body(a) = b /\ ~TooShort(a)
      /\ ~GroupCountRefused(P1_NUM_OF_TXNS_IN_GROUP(a.p1))
      /\ convertP1P2(a.p1, a.p2) = ChunkType(m, k)
      /\ HasAccount(a) => extractHDPath(a.data) = acct
  BY SignCommand
<1>3. Tag(m) = <<TXTag>> /\ m \in (Txns \union Messages) \ Unsignable
  BY <1>1 DEF Tag
<1>4. a.ins = "INS_SIGN_MSGPACK"
  BY DEF signSendChunk
<1>5. /\ ExchangeKept(c)'
         <=> /\ hdPath' = acct
             /\ reply'.sw \in {"none", "OK"}
             /\ k < Size[m] => tx_initialized' /\ buffer' = Uploaded(m, k)
  BY DEF ExchangeKept, Item, Uploaded, Tag
<1>6. k > 1 => tx_initialized /\ buffer = Uploaded(m, k - 1)
  OBVIOUS
<1>7. handle_sign_msgpack(a) \/ RefuseLocked(a)
  BY <1>4 DEF handleApdu, handle_arbitrary_sign, handle_get_public_key, handle_other
<1>8. \A sw : Status(sw).sw = sw
  BY DEF Status, Answer
<1> HIDE DEF a, k, m, b
<1>9. ASSUME process_chunk(a, <<TXTag>>)
      PROVE  /\ status = IF k < Size[m] THEN "OK" ELSE "complete"
             /\ buffer' = Uploaded(m, k)
             /\ tx_initialized' = (k < Size[m])
             /\ hdPath' = acct
  <2>1. process_chunk(a, Tag(m))
    BY <1>3, <1>9
  <2>2. /\ ChunkStatus(a, Tag(m)) = IF k < Size[m] THEN "OK" ELSE "complete"
        /\ buffer' = Uploaded(m, k)
        /\ tx_initialized' = (k < Size[m])
        /\ hdPath' = hdPath \/ (HasAccount(a) /\ hdPath' = extractHDPath(a.data))
    BY <1>1, <1>2, <1>3, <1>6, <2>1, ChunkIsTaken DEF b
  <2> QED
    BY <1>2, <1>3, <2>2
<1> HIDE DEF status
<1>10. CASE StoreTxChunk(a)
  <2>1. process_chunk(a, <<TXTag>>) /\ status # "complete" /\ reply' = Status(status)
    BY <1>10 DEF StoreTxChunk, status
  <2>2. status = "OK"
    BY <1>9, <2>1
  <2> QED
    BY <1>5, <1>8, <1>9, <2>1, <2>2
<1>11. ASSUME process_chunk(a, <<TXTag>>), status = "complete"
       PROVE  /\ ~(k < Size[m]) /\ hdPath' = acct
              /\ m \in WellFormed /\ ParsedTxns(buffer') = {m}
  <2>1. ~(k < Size[m]) /\ hdPath' = acct /\ buffer' = Uploaded(m, k)
    BY <1>9, <1>11
  <2>2. k = Size[m]
    BY <1>1, <2>1
  <2>3. HoldsWhole(buffer', m)
    BY <1>1, <2>1, <2>2, UploadedIsWhole
  <2>4. m \in WellFormed
    BY <1>1, <1>3 DEF Unsignable
  <2>5. ParsedTxns(buffer') = {m}
    BY <2>3, <2>4, WholeIsRead
  <2> QED
    BY <2>1, <2>4, <2>5
<1>12. CASE RejectTx(a)
  BY <1>11, <1>12 DEF RejectTx, status
<1>13. CASE SignInBatch(a)
  <2>1. process_chunk(a, <<TXTag>>) /\ status = "complete" /\ reply' = app_sign(hdPath', buffer')
    BY <1>13 DEF SignInBatch, status
  <2>2. reply'.sw = "OK"
    BY <1>1, <1>11, <2>1 DEF app_sign, Signed, Answer
  <2> QED
    BY <1>5, <1>11, <2>1, <2>2
<1>14. CASE ReviewTx(a)
  <2>1. process_chunk(a, <<TXTag>>) /\ status = "complete" /\ reply' = Status("none")
    BY <1>14 DEF ReviewTx, status
  <2> QED
    BY <1>5, <1>8, <1>11, <2>1
<1>15. CASE RefuseLocked(a)
  BY <1>8, <1>15 DEF RefuseLocked
<1> QED
  BY <1>7, <1>10, <1>12, <1>13, <1>14, <1>15 DEF handle_sign_msgpack

\* The same for a message, which is always shown; the device does not ask for its PIN.
LEMMA RawSignIsAnswered ==
    ASSUME NEW c \in Calls, CallOK(c, call[c]),
           call[c].stage = "signing", Request[c].kind = "signData",
           Item(c) \notin Unsignable,
           hdPath = Request[c].account,
           call[c].chunk > 1
             => tx_initialized /\ buffer = Uploaded(Item(c), call[c].chunk - 1),
           UNCHANGED call,
           handleApdu(rawSignChunk(c))
    PROVE  ExchangeKept(c)'
<1> DEFINE a == rawSignChunk(c)
           k == call[c].chunk
           m == Item(c)
           b == << <<m, k>> >>
           status == ChunkStatus(a, <<>>)
<1>1. m \in Messages /\ k \in 1..Size[m] /\ Size[m] \in Nat \ {0}
  <2>1. Request[c].items \in Seq(Messages)
    BY CallAssumption
  <2>2. call[c].item \in DOMAIN Request[c].items /\ k \in 1..Size[m]
    BY DEF CallOK, CallType, Item
  <2>3. m \in Messages
    BY <2>1, <2>2 DEF Item
  <2> QED
    BY <2>2, <2>3, DataAssumption
<1>2. /\ Body(a) = b /\ ~TooShort(a) /\ ~HasAccount(a)
      /\ ~GroupCountRefused(P1_NUM_OF_TXNS_IN_GROUP(a.p1))
      /\ convertP1P2(a.p1, a.p2) = ChunkType(m, k)
  BY RawSignCommand
<1>3. Tag(m) = <<>> /\ m \in (Txns \union Messages) \ Unsignable
  BY <1>1 DEF Tag
<1>4. handle_arbitrary_sign(a)
  BY DEF handleApdu, rawSignChunk, handle_sign_msgpack, handle_get_public_key, handle_other, RefuseLocked
<1>5. /\ ExchangeKept(c)'
         <=> /\ hdPath' = Request[c].account
             /\ reply'.sw \in {"none", "OK"}
             /\ k < Size[m] => tx_initialized' /\ buffer' = Uploaded(m, k)
  BY DEF ExchangeKept, Item, Uploaded, Tag
<1>6. k > 1 => tx_initialized /\ buffer = Uploaded(m, k - 1)
  OBVIOUS
<1>7. \A sw : Status(sw).sw = sw
  BY DEF Status, Answer
<1>8. /\ process_chunk(a, <<>>)
      /\ \/ status # "complete" /\ reply' = Status(status)
         \/ reply' = Status("none")
  BY <1>4, Zenon DEF handle_arbitrary_sign, StoreMessageChunk, ReviewMessage
<1> HIDE DEF a, k, m, b
<1>9. /\ status = IF k < Size[m] THEN "OK" ELSE "complete"
      /\ buffer' = Uploaded(m, k)
      /\ tx_initialized' = (k < Size[m])
      /\ hdPath' = hdPath
  <2>1. process_chunk(a, Tag(m))
    BY <1>3, <1>8
  <2>2. /\ ChunkStatus(a, Tag(m)) = IF k < Size[m] THEN "OK" ELSE "complete"
        /\ buffer' = Uploaded(m, k)
        /\ tx_initialized' = (k < Size[m])
        /\ hdPath' = hdPath \/ (HasAccount(a) /\ hdPath' = extractHDPath(a.data))
    BY <1>1, <1>2, <1>3, <1>6, <2>1, ChunkIsTaken DEF b
  <2> QED
    BY <1>2, <1>3, <2>2
<1> HIDE DEF status
<1>10. reply'.sw \in {"none", "OK"}
  BY <1>7, <1>8, <1>9
<1> QED
  BY <1>5, <1>9, <1>10

\* The answer to the question for a key.
LEMMA PubkeyIsAnswered ==
    ASSUME NEW c \in Calls, call[c].stage = "pubkey", UNCHANGED call, handleApdu(getPubkey(c))
    PROVE  reply'.sw = "LOCKED" \/ ExchangeKept(c)'
<1> DEFINE a == getPubkey(c)
<1>1. a.ins = "INS_GET_PUBLIC_KEY" /\ a.p1 = 0 /\ extractHDPath(a.data) = Request[c].account
  BY DEF getPubkey, extractHDPath, AccountUnit
<1>2. handle_get_public_key(a) \/ RefuseLocked(a)
  BY <1>1 DEF handleApdu, handle_sign_msgpack, handle_arbitrary_sign, handle_other
<1> HIDE DEF a
<1>3. CASE handle_get_public_key(a)
  BY <1>1, <1>3 DEF handle_get_public_key, ExchangeKept, Answer
<1>4. CASE RefuseLocked(a)
  BY <1>4 DEF RefuseLocked, Status, Answer
<1> QED
  BY <1>2, <1>3, <1>4

\* An exchange of an undisturbed call leaves it undisturbed or excused.
LEMMA ExchangeIsAnswered ==
    ASSUME CauseInv, GroupsAreTaken, NEW c \in Calls, Exchange(c), Undisturbed(c)
    PROVE  c \in excused' \/ ExchangeKept(c)'
<1>1. /\ CallOK(c, call[c]) /\ PlanOK(c, call[c]) /\ UploadKept(c)
      /\ handleApdu(NextApdu(c)) /\ UNCHANGED call
      /\ c \notin pending
      /\ reply'.sw = "LOCKED" => c \in excused'
  BY DEF CauseInv, PlanInv, KeyInv, ClientInv, CallsTyped, Exchange
<1>2. CASE call[c].stage = "pubkey"
  <2>1. NextApdu(c) = getPubkey(c)
    BY <1>2 DEF NextApdu
  <2> QED
    BY <1>1, <1>2, <2>1, PubkeyIsAnswered
<1>3. CASE call[c].stage = "signing"
  <2>1. NextApdu(c) = IF Request[c].kind = "signData" THEN rawSignChunk(c) ELSE signSendChunk(c)
    BY <1>3 DEF NextApdu
  <2>2. Item(c) \notin Unsignable
    <3>1. call[c].item \in DOMAIN Request[c].items
      BY <1>1 DEF CallOK, CallType
    <3>2. Request[c].items[call[c].item] \in ToSet(Request[c].items)
      BY <3>1, Zenon DEF ToSet
    <3> QED
      BY <3>2 DEF Undisturbed, Signable, Item
  <2>3. /\ hdPath = Request[c].account
        /\ call[c].chunk > 1
             => tx_initialized /\ buffer = Uploaded(Item(c), call[c].chunk - 1)
    BY <1>1, <1>3 DEF UploadKept
  <2>4. CASE Request[c].kind = "signData"
    BY <1>1, <1>3, <2>1, <2>2, <2>3, <2>4, RawSignIsAnswered
  <2>5. CASE Request[c].kind # "signData"
    BY <1>1, <1>3, <2>1, <2>2, <2>3, <2>5, SignIsAnswered
  <2> QED
    BY <2>4, <2>5
<1> QED
  BY <1>2, <1>3 DEF Undisturbed, Active

\* A call of which the account owns nothing.
LEMMA NothingOwn ==
    ASSUME NEW c \in Calls, OwnPositions(c) = {}
    PROVE  Own(c) = {}
<1> SUFFICES ASSUME NEW m \in Own(c) PROVE FALSE
  OBVIOUS
<1>1. m \in ToSet(Request[c].items) /\ (Request[c].kind # "sign" => Sender[m] = Request[c].account)
  BY DEF Own
<1>2. PICK i \in DOMAIN Request[c].items : m = Request[c].items[i]
  BY <1>1, Zenon DEF ToSet
<1> QED
  BY <1>1, <1>2 DEF OwnPositions

\* What the client may make of an answer to a call that was not disturbed: it fails
\* only if it owns nothing, and goes on where the buffer is.
MayBecome(c, r) ==
    /\ r.stage = "failed" => Own(c) = {}
    /\ r.stage = "signing" => hdPath = Request[c].account
    /\ r.stage = "signing" /\ r.chunk > 1
         => tx_initialized /\ buffer = Uploaded(Request[c].items[r.item], r.chunk - 1)

\* An answer other than an error is one an undisturbed call goes on with.
LEMMA AnswerGoesOn ==
    ASSUME NEW c \in Calls, CallOK(c, call[c]), PlanOK(c, call[c]), Active(c), TypeOK,
           reply.sw = "OK", call[c].stage = "pubkey" => reply.key = Request[c].account,
           ExchangeKept(c)
    PROVE  MayBecome(c, AfterAnswer(c, reply))
<1> DEFINE r == AfterAnswer(c, reply)
<1>1. CASE call[c].stage = "pubkey"
  <2>1. r = AfterPubkey(c, reply.sw, reply.key)
    BY <1>1 DEF AfterAnswer
  <2>2. CASE r = Failed(c) /\ OwnPositions(c) = {}
    BY <2>2, FailedType, NothingOwn DEF MayBecome
  <2>3. CASE OwnPositions(c) # {} /\ r = Signing(c, OwnPositions(c))
    <3>1. OwnPositions(c) \in SUBSET DOMAIN Request[c].items
      BY DEF OwnPositions
    <3>2. r.stage = "signing" /\ r.chunk = 1
      BY <1>1, <2>3, <3>1, SigningType
    <3> HIDE DEF r
    <3>3. MayBecome(c, r)
      BY <3>2 DEF MayBecome, ExchangeKept
    <3> QED
      BY <3>3 DEF r
  <2> QED
    BY <1>1, <2>1, <2>2, <2>3, PubkeyPlan
<1>2. CASE call[c].stage = "signing"
  <2> DEFINE n == [call[c] EXCEPT !.chunk = @ + 1]
             d == AfterItem(c, reply.signatures)
  <2>1. r = AfterChunk(c, reply.sw, reply.signatures)
    BY <1>2 DEF AfterAnswer
  <2>2. r = IF call[c].chunk < Size[Item(c)] THEN n ELSE d
    BY <2>1 DEF AfterChunk
  <2>3. CASE call[c].chunk < Size[Item(c)]
    <3>1. call[c] \in CallType(c)
      BY DEF CallOK
    <3>2. /\ n.stage = "signing" /\ n.item = call[c].item /\ n.chunk - 1 = call[c].chunk
      BY <1>2, <3>1 DEF CallType
    <3> HIDE DEF n, r
    <3>3. MayBecome(c, n)
      BY <1>2, <2>3, <3>2 DEF MayBecome, ExchangeKept, Item
    <3> QED
      BY <2>2, <2>3, <3>3 DEF r
  <2>4. CASE ~(call[c].chunk < Size[Item(c)])
    <3>1. reply.signatures \in SUBSET Signature
      BY ReplySignatures
    <3>2. d.stage \in {"signing", "done"} /\ d.chunk = 1
      BY <1>2, <3>1, AfterItemType
    <3> HIDE DEF d, r
    <3>3. MayBecome(c, d)
      BY <3>2 DEF MayBecome, ExchangeKept
    <3> QED
      BY <2>2, <2>4, <3>3 DEF r
  <2> QED
    BY <2>3, <2>4
<1> QED
  BY <1>1, <1>2 DEF Active

\* A step that moves one call and leaves the device alone.
LEMMA MoveKeepsCause ==
    ASSUME CauseInv, UNCHANGED vars, NEW c \in Calls, NEW r,
           call' = [call EXCEPT ![c] = r], pending' = pending \ {c}, excused \subseteq excused',
           c \notin excused' /\ Signable(c) => MayBecome(c, r)
    PROVE  (\A d \in Calls : Undisturbed(d) => UploadKept(d))' /\ FailsOnlyForCause'
<1>1. call = [d \in Calls |-> call[d]]
  BY DEF CauseInv, PlanInv, KeyInv, ClientInv, CallsTyped
<1>2. call'[c] = r /\ \A d \in Calls : d # c => call'[d] = call[d]
  BY <1>1
<1>3. UNCHANGED <<hdPath, tx_initialized, buffer, reply>>
  BY DEF vars
<1>4. ASSUME NEW d \in Calls, Undisturbed(d)' PROVE UploadKept(d)'
  <2>1. CASE d = c
    <3>1. c \notin excused' /\ Signable(c) /\ c \notin pending' /\ MayBecome(c, r)
      BY <1>4, <2>1 DEF Undisturbed, Signable
    <3> QED
      BY <1>2, <1>3, <2>1, <3>1 DEF UploadKept, MayBecome, Item, Uploaded, Tag
  <2>2. CASE d # c
    <3>1. call'[d] = call[d] /\ (d \in pending' <=> d \in pending)
      BY <1>2, <2>2
    <3>2. Undisturbed(d)
      BY <1>4, <3>1 DEF Undisturbed, Active, Signable
    <3>3. UploadKept(d)
      BY <3>2 DEF CauseInv
    <3> QED
      BY <1>3, <3>1, <3>3 DEF UploadKept, Item, Uploaded, Tag
  <2> QED
    BY <2>1, <2>2
<1>5. FailsOnlyForCause'
  <2> SUFFICES ASSUME NEW d \in Calls, call'[d].stage = "failed", d \notin excused', Signable(d)
               PROVE  Own(d) = {}
    BY DEF FailsOnlyForCause, Own, Signable
  <2>1. CASE d = c
    BY <1>2, <2>1 DEF MayBecome
  <2>2. CASE d # c
    BY <1>2, <2>2 DEF CauseInv, FailsOnlyForCause, Signable
  <2> QED
    BY <2>1, <2>2
<1> QED
  BY <1>4, <1>5

\* The answers of the user and what happens to the device leave an undisturbed call
\* as it was, with the signature it waited for if it waited.
LEMMA UserKeepsCause ==
    ASSUME CauseInv, UserApproves \/ UserRejects \/ DeviceRestarts \/ UserTogglesBlindsign,
           NEW d \in Calls, Undisturbed(d)'
    PROVE  UploadKept(d)'
<1>1. call' = call /\ pending' = pending /\ excused \subseteq excused'
  BY DEF UserApproves, UserRejects, DeviceRestarts, UserTogglesBlindsign, Disrupt
<1>2. Undisturbed(d) /\ UploadKept(d)
  BY <1>1 DEF CauseInv, Undisturbed, Active, Signable
<1>3. ASSUME UNCHANGED <<hdPath, tx_initialized, buffer>>, d \in pending => reply'.sw \in {"none", "OK"}
      PROVE  UploadKept(d)'
  BY <1>1, <1>2, <1>3 DEF UploadKept, Item, Uploaded, Tag
<1>4. CASE UserApproves
  <2>1. UNCHANGED <<hdPath, tx_initialized, buffer>>
    BY <1>4 DEF UserApproves, Approve
  <2>2. reply' = Answer("OK", screen.key, {}) \/ \E m : reply' = Signed(hdPath, m)
    BY <1>4, Zenon DEF UserApproves, Approve, app_sign, app_sign_arbitrary
  <2>3. d \in pending => hdPath # Unset
    <3>1. Request[d].account \in AccountIds
      BY RequestType
    <3> QED
      BY <1>2, <3>1, AccountAssumption DEF UploadKept, Unset
  <2>4. d \in pending => reply'.sw = "OK"
    BY <2>2, <2>3 DEF Signed, Answer
  <2> QED
    BY <1>3, <2>1, <2>4
<1>5. CASE UserRejects
  BY <1>1, <1>2, <1>3, <1>5 DEF UserRejects, app_reject, Undisturbed
<1>6. CASE DeviceRestarts
  <2>1. Active(d)
    BY <1>2 DEF Undisturbed
  <2>2. d \in excused'
    BY <1>6, <2>1 DEF DeviceRestarts, Disrupt
  <2> QED
    BY <2>2 DEF Undisturbed
<1>7. CASE UserTogglesBlindsign
  <2>1. UNCHANGED <<hdPath, tx_initialized, buffer, reply>>
    BY <1>7 DEF UserTogglesBlindsign, ToggleBlindsign
  <2> QED
    BY <1>2, <1>3, <2>1 DEF UploadKept
<1> QED
  BY <1>4, <1>5, <1>6, <1>7

\* Every step keeps the causes.
LEMMA CauseNextInv ==
    ASSUME OneAtATime, GroupsAreTaken, CauseInv, [ClientNext]_allvars
    PROVE  CauseInv'
<1> DEFINE Kept == \A d \in Calls : Undisturbed(d) => UploadKept(d)
           Goal == Kept' /\ FailsOnlyForCause'
<1>1. PlanInv' /\ TypeOK /\ CallsTyped /\ PlanInv
  BY PlanNextInv DEF CauseInv, PlanInv, KeyInv, ClientInv, Inv
<1> SUFFICES Goal
  BY <1>1 DEF CauseInv
<1>2. /\ \A c \in Calls : CallOK(c, call[c]) /\ PlanOK(c, call[c])
      /\ \A c \in pending : c \in Calls /\ Active(c)
  BY <1>1 DEF PlanInv, CallsTyped
<1>3. call' = call /\ excused \subseteq excused' => FailsOnlyForCause'
  BY DEF CauseInv, FailsOnlyForCause, Own
<1>4. ASSUME NEW c \in Calls, Start(c) PROVE Goal
  <2> DEFINE r == [call[c] EXCEPT !.stage = "pubkey"]
  <2>1. /\ call' = [call EXCEPT ![c] = r] /\ pending' = pending /\ UNCHANGED vars
        /\ excused' = excused /\ call[c].stage = "idle"
    BY <1>1, <1>4 DEF Start, CallsTyped, OneAtATime
  <2>2. c \notin pending
    BY <1>2, <2>1 DEF Active
  <2>3. r.stage = "pubkey"
    BY <1>2 DEF CallOK, CallType
  <2>4. MayBecome(c, r)
    BY <2>3 DEF MayBecome
  <2>5. pending' = pending \ {c}
    BY <2>1, <2>2
  <2> HIDE DEF r
  <2> QED
    BY <2>1, <2>4, <2>5, MoveKeepsCause
<1>5. ASSUME NEW c \in Calls, Exchange(c) PROVE Goal
  <2>1. call' = call /\ pending' = {c} /\ excused \subseteq excused' /\ Active(c)
    BY <1>5 DEF Exchange
  <2>2. ASSUME NEW d \in Calls, Undisturbed(d)' PROVE UploadKept(d)'
    <3>1. d = c
      BY <2>1, <2>2 DEF CauseInv, PlanInv, KeyInv, OneOpen, Undisturbed, Active
    <3>2. Undisturbed(c) /\ c \notin excused'
      BY <2>1, <2>2, <3>1 DEF Undisturbed, Active, Signable
    <3>3. ExchangeKept(c)'
      BY <1>5, <3>2, ExchangeIsAnswered
    <3> QED
      BY <2>1, <3>1, <3>3 DEF ExchangeKept, UploadKept
  <2> QED
    BY <1>3, <2>1, <2>2
<1>6. ASSUME NEW c \in Calls, Resume(c) PROVE Goal
  <2>1. /\ call' = [call EXCEPT ![c] = AfterAnswer(c, reply)]
        /\ pending = {c} /\ pending' = pending \ {c} /\ excused' = excused
        /\ UNCHANGED vars /\ reply.sw # "none"
    BY <1>6 DEF Resume
  <2>2. c \notin excused' /\ Signable(c) => MayBecome(c, AfterAnswer(c, reply))
    <3> SUFFICES ASSUME c \notin excused', Signable(c) PROVE MayBecome(c, AfterAnswer(c, reply))
      OBVIOUS
    <3>1. Active(c) /\ UploadKept(c)
      BY <1>2, <2>1 DEF CauseInv, Undisturbed
    <3>2. ExchangeKept(c) /\ reply.sw = "OK"
      BY <2>1, <3>1 DEF UploadKept, ExchangeKept
    <3> QED
      BY <1>1, <1>2, <2>1, <3>1, <3>2, AnswerGoesOn DEF PlanInv, KeyOfReply
  <2> QED
    BY <2>1, <2>2, MoveKeepsCause
<1>7. ASSUME NEW c \in Calls, SendFails(c) \/ AnswerLost(c) PROVE Goal
  <2>1. /\ call' = [call EXCEPT ![c] = AfterAnswer(c, TransportError)]
        /\ pending' = pending \ {c} /\ UNCHANGED vars
        /\ excused \subseteq excused' /\ c \in excused'
    BY <1>7 DEF SendFails, AnswerLost, Disrupt
  <2> QED
    BY <2>1, MoveKeepsCause
<1>8. ASSUME NEW c \in Calls, Abandon(c) PROVE Goal
  <2>1. /\ call' = [call EXCEPT ![c] = Failed(c)]
        /\ pending' = pending \ {c} /\ UNCHANGED vars
        /\ excused \subseteq excused' /\ c \in excused'
    BY <1>8 DEF Abandon, Disrupt
  <2> QED
    BY <2>1, MoveKeepsCause
<1>9. ASSUME UserApproves \/ UserRejects \/ DeviceRestarts \/ UserTogglesBlindsign PROVE Goal
  <2>1. call' = call /\ excused \subseteq excused'
    BY <1>9 DEF UserApproves, UserRejects, DeviceRestarts, UserTogglesBlindsign, Disrupt
  <2>2. Kept'
    BY <1>9, UserKeepsCause
  <2> QED
    BY <1>3, <2>1, <2>2
<1>10. ASSUME UNCHANGED allvars PROVE Goal
  <2>1. UNCHANGED <<call, pending, excused, hdPath, tx_initialized, buffer, reply>>
    BY <1>10 DEF allvars, vars, cvars
  <2>2. Kept'
    BY <2>1 DEF CauseInv, Undisturbed, UploadKept, Active, Signable, Item, Uploaded, Tag
  <2> QED
    BY <1>3, <2>1, <2>2
<1> QED
  BY <1>4, <1>5, <1>6, <1>7, <1>8, <1>9, <1>10 DEF ClientNext

\* It holds at first.
LEMMA CauseInitInv == ClientInit => CauseInv
<1> SUFFICES ASSUME ClientInit PROVE CauseInv
  OBVIOUS
<1>1. PlanInv
  BY PlanInitInv
<1>2. \A c \in Calls : call[c].stage = "idle"
  BY NewCallPlan, Zenon DEF ClientInit
<1> QED
  BY <1>1, <1>2 DEF CauseInv, Undisturbed, Active, FailsOnlyForCause

\* A call that runs alone and asks for its key fails only because the user rejected
\* it, something was lost, restarted or abandoned, it holds what the device cannot
\* sign, or it owns nothing of it: none of the refusals of the device's handlers -
\* a wrong P1, no upload open, a full buffer, a parser error - meets it otherwise.
\* For signGroup that is so for account 0, and not for a single transaction.
THEOREM FailuresHaveCauses ==
    ASSUME OneAtATime, GroupsAreTaken
    PROVE  ClientSpec => []FailsOnlyForCause
<1>1. CauseInv /\ [ClientNext]_allvars => CauseInv'
  BY CauseNextInv
<1>2. CauseInv => FailsOnlyForCause
  BY DEF CauseInv
<1> QED
  BY <1>1, <1>2, CauseInitInv, PTL DEF ClientSpec

=============================================================================
