---------------------------- MODULE LedgerClient ----------------------------
(***************************************************************************)
(* The JavaScript client (js/src/index.ts) driving the device: the calls   *)
(* sign, signGroup and signData of an application, each a sequence of APDU *)
(* exchanges over one transport that serialises exchanges and nothing      *)
(* more.  Between two exchanges of a call another call may run.            *)
(*                                                                         *)
(* An exchange is two steps: Exchange, in which the device handles the     *)
(* command, and Resume, in which the client reads the answer.  A review on *)
(* the screen keeps the answer, and so the exchange, open.                 *)
(***************************************************************************)
EXTENDS AlgorandDevice, FiniteSets, SequencesExt

CONSTANTS
    Calls,          \* the calls the application makes, each once
    Request,        \* Request[c]: what call c asks for
    Sender,         \* Sender[m]: the account that transaction or message m names
    MaxConcurrent,  \* bound: how many calls the application keeps open at once
    MaxFaults       \* bound: how many disruptions a behaviour has

\* asks: getPubkey or getAddressAndPubKey for the account precedes the signing.
\* signGroup and signData do it themselves; an application using sign may.
Requests == [kind : {"sign", "signGroup", "signData"}, account : AccountIds,
             items : Seq(Txns \union Messages), asks : BOOLEAN]

ASSUME CallAssumption ==
    /\ Request \in [Calls -> Requests]
    /\ Sender \in [Txns \union Messages -> AccountIds]
    /\ \A c \in Calls :
         /\ Request[c].items \in Seq(IF Request[c].kind = "signData" THEN Messages ELSE Txns)
         /\ IF Request[c].kind = "signGroup" THEN Len(Request[c].items) \in 2..16
                                             ELSE Len(Request[c].items) = 1
    /\ MaxConcurrent \in Nat /\ MaxFaults \in Nat

\* Accounts are below 2^31, as derivation paths have them: the bytes of the id that
\* signGroup leaves in front of a transaction are then no map to the parser.
ASSUME SmallAccountAssumption ==
    \A r \in Mixtures : \A id \in AccountIds : Len(r.buffer) > 1 => r.buffer[2] # AccountUnit(id)

VARIABLES
    call,      \* call[c]: where call c is
    pending,   \* the call whose exchange is open, if any
    approved,  \* history: transactions and messages the user has approved
    excused,   \* history: calls that met a rejection, a disruption or another call's command
    faults     \* number of disruptions so far

cvars == <<call, pending, approved, excused, faults>>
allvars == <<vars, cvars>>

\* toSign: the positions of the request that are to be signed (txnIsToSign).
\* results: what the call has for each position; nothing for those of others.
NewCall(c) == [stage |-> "idle", toSign |-> {}, item |-> 1, chunk |-> 1,
               results |-> [i \in DOMAIN Request[c].items |-> {}]]

ClientInit ==
    /\ Init
    /\ call = [c \in Calls |-> NewCall(c)]
    /\ pending = {}
    /\ approved = {}
    /\ excused = {}
    /\ faults = 0

Active(c) == call[c].stage \in {"pubkey", "signing"}

-----------------------------------------------------------------------------
(* The commands of a call.                                                   *)

\* Mutant: the transactions of other senders are counted too.
numOfAllTxns(c) == IF Request[c].kind = "signGroup" THEN Len(Request[c].items) ELSE 0

numOfTxns(c) == IF Request[c].kind = "signGroup" THEN Cardinality(call[c].toSign) ELSE 0

Item(c) == Request[c].items[call[c].item]

\* Mutant: the account id is left out.
prepareBareChunk(c) == << <<Item(c), call[c].chunk>> >>

\* prepareChunks puts a non-zero account id before the first chunk.
prepareChunk(c) ==
    (IF Request[c].account # 0 /\ call[c].chunk = 1
       THEN <<AccountUnit(Request[c].account)>> ELSE <<>>)
    \o << <<Item(c), call[c].chunk>> >>

P2(c) == IF call[c].chunk = Size[Item(c)] THEN P2_LAST ELSE P2_MORE

signSendChunk(c) ==
    [ins  |-> "INS_SIGN_MSGPACK",
     p1   |-> 2 * numOfTxns(c)
              + (IF call[c].chunk > 1 THEN P1_MORE
                 ELSE IF Request[c].account # 0 THEN P1_FIRST_ACCOUNT_ID ELSE 0),
     p2   |-> P2(c),
     data |-> prepareChunk(c)]

rawSignChunk(c) ==
    [ins  |-> "INS_ARBITRARY_SIGN",
     p1   |-> IF call[c].chunk > 1 THEN P1_MORE ELSE 0,
     p2   |-> P2(c),
     data |-> << <<Item(c), call[c].chunk>> >>]

getPubkey(c) ==
    [ins |-> "INS_GET_PUBLIC_KEY", p1 |-> 0, p2 |-> 0,
     data |-> <<AccountUnit(Request[c].account)>>]

NextApdu(c) ==
    CASE call[c].stage = "pubkey"                                  -> getPubkey(c)
      [] call[c].stage = "signing" /\ Request[c].kind = "signData" -> rawSignChunk(c)
      [] OTHER                                                     -> signSendChunk(c)

-----------------------------------------------------------------------------
(* What the client makes of an answer.                                       *)

Failed(c) == [call[c] EXCEPT !.stage = "failed"]

Signing(c, toSign) == [call[c] EXCEPT !.stage = "signing", !.toSign = toSign, !.item = Min(toSign)]

\* Mutant: the transactions of other senders are signed too.
AfterPubkeyAll(c, sw, key) ==
    IF sw # "OK" THEN Failed(c) ELSE Signing(c, DOMAIN Request[c].items)

\* signGroup passes over the transactions of other senders, and signData refuses
\* a signer that is not the account.
AfterPubkey(c, sw, key) ==
    LET mine == {i \in DOMAIN Request[c].items : Sender[Request[c].items[i]] = key}
        toSign == IF Request[c].kind = "sign" THEN DOMAIN Request[c].items ELSE mine
    IN  IF sw # "OK" \/ toSign = {} THEN Failed(c) ELSE Signing(c, toSign)

\* Mutant: sign looks at no answer.
AnswerNeverRead(c) == Request[c].kind # "signData"

\* sign does not look at the answer to the first chunk when others follow;
\* rawSign looks at every answer.
AnswerIgnored(c) ==
    /\ Request[c].kind # "signData"
    /\ call[c].chunk = 1
    /\ Size[Item(c)] > 1

\* The positions still to be signed once the one in hand is.
Later(c) == {i \in call[c].toSign : i > call[c].item}

AfterItem(c, signatures) ==
    LET kept == [call[c] EXCEPT !.results[call[c].item] = signatures, !.chunk = 1]
    IN  IF Later(c) = {} THEN [kept EXCEPT !.stage = "done"]
                         ELSE [kept EXCEPT !.item = Min(Later(c))]

AfterChunk(c, sw, signatures) ==
    IF sw # "OK" /\ ~AnswerIgnored(c) THEN Failed(c)
    ELSE IF call[c].chunk < Size[Item(c)] THEN [call[c] EXCEPT !.chunk = @ + 1]
    ELSE AfterItem(c, signatures)

AfterAnswer(c, answer) ==
    IF call[c].stage = "pubkey" THEN AfterPubkey(c, answer.sw, answer.key)
    ELSE AfterChunk(c, answer.sw, answer.signatures)

-----------------------------------------------------------------------------
(* Steps.                                                                    *)

Start(c) ==
    /\ call[c].stage = "idle"
    /\ Cardinality({d \in Calls : Active(d)}) < MaxConcurrent
    /\ call' = [call EXCEPT ![c] =
         IF Request[c].asks THEN [@ EXCEPT !.stage = "pubkey"]
         ELSE Signing(c, DOMAIN Request[c].items)]
    /\ UNCHANGED <<vars, pending, approved, excused, faults>>

Exchange(c) ==
    /\ Active(c)
    /\ pending = {}
    /\ handleApdu(NextApdu(c))
    /\ pending' = {c}
    /\ excused' = excused \union {d \in Calls : IF d = c THEN reply'.sw = "LOCKED" ELSE Active(d)}
    /\ UNCHANGED <<call, approved, faults>>

Resume(c) ==
    /\ pending = {c}
    /\ reply.sw # "none"
    /\ call' = [call EXCEPT ![c] = AfterAnswer(c, reply)]
    /\ pending' = {}
    /\ UNCHANGED <<vars, approved, excused, faults>>

UserApproves ==
    /\ Approve
    /\ approved' = approved \union screen.shows
    /\ UNCHANGED <<call, pending, excused, faults>>

UserRejects ==
    /\ app_reject
    /\ excused' = excused \union pending
    /\ UNCHANGED <<call, pending, approved, faults>>

Disrupt(kind, victims) ==
    /\ kind \in Disruptions
    /\ faults < MaxFaults
    /\ faults' = faults + 1
    /\ excused' = excused \union victims
    /\ UNCHANGED approved

TransportError == Status("TRANSPORT_ERROR")

\* A command or its answer is lost.  The client sees an error; if the device got
\* the command, a review it opened stays on the screen.
SendFails(c) ==
    /\ Active(c) /\ pending = {}
    /\ Disrupt("lost", {c})
    /\ call' = [call EXCEPT ![c] = AfterAnswer(c, TransportError)]
    /\ UNCHANGED <<vars, pending>>

AnswerLost(c) ==
    /\ pending = {c}
    /\ Disrupt("lost", {c})
    /\ call' = [call EXCEPT ![c] = AfterAnswer(c, TransportError)]
    /\ pending' = {}
    /\ UNCHANGED vars

\* The application gives the call up: its page is closed or it timed out.
Abandon(c) ==
    /\ Active(c)
    /\ Disrupt("abandon", {c})
    /\ call' = [call EXCEPT ![c] = Failed(c)]
    /\ pending' = pending \ {c}
    /\ UNCHANGED vars

DeviceRestarts ==
    /\ Restart
    /\ Disrupt("restart", {c \in Calls : Active(c)})
    /\ UNCHANGED <<call, pending>>

UserTogglesBlindsign ==
    /\ ToggleBlindsign
    /\ Disrupt("toggle", {})
    /\ UNCHANGED <<call, pending>>

ClientNext ==
    \/ \E c \in Calls : \/ Start(c) \/ Exchange(c) \/ Resume(c)
                        \/ SendFails(c) \/ AnswerLost(c) \/ Abandon(c)
    \/ UserApproves
    \/ UserRejects
    \/ DeviceRestarts
    \/ UserTogglesBlindsign

ClientSpec == ClientInit /\ [][ClientNext]_allvars

\* The event loop goes on with every open call, and the user answers every review.
Fairness ==
    /\ \A c \in Calls : WF_allvars(Exchange(c)) /\ WF_allvars(Resume(c))
    /\ WF_allvars(UserApproves \/ UserRejects)

FairSpec == ClientSpec /\ Fairness

-----------------------------------------------------------------------------
(* Properties.                                                               *)

Stages == {"idle", "pubkey", "signing", "done", "failed"}

CallType(c) == [stage   : Stages,
                toSign  : SUBSET DOMAIN Request[c].items,
                item    : DOMAIN Request[c].items,
                chunk   : Nat,
                results : [DOMAIN Request[c].items -> SUBSET Signature]]

\* r can be the state of call c.
CallOK(c, r) ==
    /\ r \in CallType(c)
    /\ r.chunk \in 1..Size[Request[c].items[r.item]]
    /\ r.stage \in {"idle", "pubkey"} => r.chunk = 1

\* Every variable keeps its type, and what an open call sends next is a command
\* the device model covers (a chunk that P1 says starts with an account id does).
ClientTypeOK ==
    /\ TypeOK
    /\ call = [c \in Calls |-> call[c]]
    /\ \A c \in Calls : CallOK(c, call[c])
    /\ \A c \in Calls : Active(c) => NextApdu(c) \in Apdu /\ WellFramed(NextApdu(c))
    /\ pending \in {{}} \union {{c} : c \in Calls}
    /\ approved \subseteq Txns \union Messages \union {"TX", "account"}
    /\ excused \subseteq Calls
    /\ faults \in 0..MaxFaults

\* What is to be signed, as names.
Chosen(c) == {Request[c].items[i] : i \in call[c].toSign}

\* The transactions and messages the call must sign: those of its account.  sign does
\* not look at the sender.
Own(c) ==
    {m \in ToSet(Request[c].items) :
        Request[c].kind # "sign" => Sender[m] = Request[c].account}

Encoding(m) == [i \in 1..Size[m] |-> <<m, i>>]

\* What a signature of m is over: the prefixed transaction, or a message's head.
SignedBytes(m) == IF m \in Messages THEN << <<m, 1>> >> ELSE <<TXTag>> \o Encoding(m)

OwedBy(c) == {[key |-> Request[c].account, message |-> SignedBytes(m)] : m \in Own(c)}

\* index.ts collects the signatures a group's transactions got without a review
\* and returns them only if the batch went through (apdu_handler.c:194-196 relies
\* on it): each signature that a call has returned is over bytes in which the
\* parser found a transaction that was on a screen the user approved, by itself
\* or in a batch.
ReleasedIsApproved ==
    \A c \in Calls : call[c].stage = "done" /\ Request[c].kind # "signData" =>
        \A s \in UNION ToSet(call[c].results) : ParsedTxns(s.message) \intersect approved # {}

\* The positions a call has its signature for.
Answered(c, j) ==
    j \in call[c].toSign /\ (j < call[c].item \/ call[c].stage = "done")

\* Chunks that the parser accepts as a transaction, with the last one of m at their end.
EndsMixture(m, bytes) ==
    \E r \in Mixtures :
        /\ r.txn \in WellFormed
        /\ r.buffer = bytes /\ bytes # <<>> /\ Last(bytes) = <<m, Size[m]>>

\* The device has one upload buffer and one answer register for all calls.  What a
\* call is given for its j-th item is a signature over that item, whole: unless the
\* call met a disruption or another call's command, which can leave a hole or
\* another's chunks in front of its last one.  Then it may be a signature over such
\* a mixture, if the parser takes it for a transaction, but over nothing else.
\* (Of a signData call that met one nothing is said: messages are not parsed.)
SignatureOfRequest ==
    \A c \in Calls : \A j \in DOMAIN Request[c].items :
        /\ Answered(c, j) => call[c].results[j] # {}
        /\ \A s \in call[c].results[j] :
              \/ s.message = SignedBytes(Request[c].items[j])
              \/ /\ c \in excused
                 /\ Request[c].kind = "signData" \/ EndsMixture(Request[c].items[j], s.message)

\* The path that signs is a global left by the last command that named an account
\* (crypto.c:23): a call only ever gets signatures of the account it asked for.
KeyOfAccount ==
    \A c \in Calls : \A j \in DOMAIN Request[c].items :
        \A s \in call[c].results[j] : s.key = Request[c].account

\* The fees of the transactions at the positions in S, added up as the device adds
\* them, position after position.
FeesTo(c, S) ==
    LET total[n \in 0..Len(Request[c].items)] ==
          IF n = 0 THEN 0
          ELSE IF n \in S THEN (total[n - 1] + Fee[Request[c].items[n]]) % FeeModulus
          ELSE total[n - 1]
    IN  total

\* The summary of a batch shows one sender, that of the transaction read last
\* (parser.c:714), and one total.  It stands for the transactions of that account
\* in the call that waits for it, all of them and no others, and the total of
\* their fees is the one it shows ("Max fees", parser.c:731): none of another
\* sender's and none of another group's is in it.
SummaryCoversGroup ==
    screen.kind = "summary" => \A c \in pending :
        /\ screen.shows = Own(c)
        /\ screen.max_fees = FeesTo(c, call[c].toSign)[Len(Request[c].items)]

\* The buffer holds the prefix of a transaction too.
Unsignable ==
    {m \in Txns : m \notin WellFormed \/ Size[m] >= BufferSize}
    \union {m \in Messages : Size[m] > BufferSize}

\* A call fails only for a reason: a rejection, a disruption or another call's
\* command it met, something in it the device cannot sign, or nothing in it of
\* the account.
FailsOnlyForCause ==
    \A c \in Calls : call[c].stage = "failed" =>
        c \in excused \/ Own(c) = {} \/ ToSet(Request[c].items) \intersect Unsignable # {}

\* No call waits forever, on the device, the user or another call's exchange.
AllCallsFinish == \A c \in Calls : Active(c) ~> ~Active(c)

\* What an application sees of its calls, and of the user's consent.
Outcome ==
    [c \in Calls |->
        CASE call[c].stage = "idle"   -> "idle"
          [] call[c].stage = "done"   -> "signed"
          [] call[c].stage = "failed" -> "failed"
          [] OTHER                    -> "open"]
Consented == {c \in Calls : call[c].toSign # {} /\ Chosen(c) \subseteq approved}
Given ==
    [c \in Calls |-> IF call[c].stage = "done" THEN UNION ToSet(call[c].results) ELSE {}]

\* A call that runs alone keeps the promise of SigningService: all signatures, of
\* exactly the requested bytes and account, after consent; or none and a failure.
Service == INSTANCE SigningService WITH
    Owed      <- [c \in Calls |-> OwedBy(c)],
    outcome   <- Outcome,
    consented <- Consented,
    given     <- Given

ImplementsService == Service!Spec

=============================================================================
