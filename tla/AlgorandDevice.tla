--------------------------- MODULE AlgorandDevice ---------------------------
(***************************************************************************)
(* The firmware application that runs on the Ledger device: the APDU       *)
(* handlers of app/src/apdu_handler.c with the state they share - the      *)
(* upload buffer and the group state of app/src/common/tx.c, the           *)
(* derivation path of app/src/crypto.c, the blind-signing mode and the     *)
(* screen that waits for the user.                                         *)
(*                                                                         *)
(* The application is single threaded.  It takes an APDU only when no      *)
(* review is on the screen (the transport drops what arrives before the    *)
(* previous command is answered), so one APDU is one step: the handler     *)
(* either answers at once (reply) or leaves a review on the screen, which  *)
(* the user's approval or rejection answers later.                         *)
(*                                                                         *)
(* Payloads are sequences of units <<name, index>>: the index-th chunk of  *)
(* the transaction or message "name", the 4-byte account id                *)
(* <<"account", id>>, or the two-byte prefix <<"TX", 0>>.                   *)
(***************************************************************************)
EXTENDS Integers, Sequences

CONSTANTS
    AccountIds,   \* account numbers a host may name (32 bits in the code)
    Txns,         \* names of transactions: those hosts ask to sign, and others the parser may find
    Messages,     \* names of the arbitrary messages (INS_ARBITRARY_SIGN)
    Size,         \* Size[m]: number of units of transaction or message m
    Fee,          \* Fee[t]: the fee of transaction t
    WellFormed,   \* transactions the parser accepts; it fails on the others after their fee
    Mixtures,     \* what else the parser finds a transaction in: see ParsedTxns
    AppCalls,     \* transactions of type "appl"
    BufferSize,   \* units the upload buffer holds (FLASH_BUFFER_SIZE)
    FeeModulus,   \* group_max_fees is a uint64_t: sums are modulo 2^64
    Apdus,        \* commands a host may send
    Blindsign,    \* values the blind-signing setting may have to begin with
    Disruptions   \* events of the environment: "pin", "restart", "toggle", ...

CLA_INS == {"INS_GET_VERSION", "INS_GET_PUBLIC_KEY", "INS_GET_ADDRESS",
            "INS_SIGN_MSGPACK", "INS_ARBITRARY_SIGN", "other"}

Unset == -1                     \* hdPath before any extractHDPath: all zeros

TXTag == <<"TX", 0>>
AccountUnit(id) == <<"account", id>>
UnitsOf(m) == {<<m, i>> : i \in 1..Size[m]}
\* What a host sends: no chunk of it is the prefix of a transaction by itself.
Payload == {AccountUnit(id) : id \in AccountIds}
             \union UNION {UnitsOf(m) : m \in Txns \union Messages}
Units == {TXTag} \union Payload

Apdu == [ins : CLA_INS, p1 : 0..255, p2 : 0..255, data : Seq(Payload)]

P1_FIRST_ACCOUNT_ID == 1
P1_MORE == 128
P2_MORE == 128
P2_LAST == 0
MAX_NUM_OF_TXNS_IN_GROUP == 16
MIN_NUM_OF_TXNS_IN_GROUP == 2

\* Bits b5-b1 of P1 carry the number of transactions in the group.
P1_NUM_OF_TXNS_IN_GROUP(p1) == (p1 % 64) \div 2

convertP1P2(p1, p2) ==
    LET base == p1 - 2 * P1_NUM_OF_TXNS_IN_GROUP(p1)
    IN  CASE base <= P1_FIRST_ACCOUNT_ID /\ p2 = P2_MORE -> "INIT"
          [] base = P1_MORE /\ p2 = P2_MORE              -> "ADD"
          [] base = P1_MORE /\ p2 = P2_LAST              -> "LAST"
          [] base <= P1_FIRST_ACCOUNT_ID /\ p2 = P2_LAST -> "SINGLE"
          [] OTHER                                       -> "NONE"

\* The framing every client respects: where the device reads an account id there
\* is one.  (A chunk too short for it is refused for INIT; for SINGLE_CHUNK the
\* code subtracts past zero, and such a command is outside this model.)
WellFramed(a) ==
    /\ (a.ins \in {"INS_SIGN_MSGPACK", "INS_ARBITRARY_SIGN"} /\ a.p1 = P1_FIRST_ACCOUNT_ID)
         => \/ a.data # <<>> /\ \E id \in AccountIds : Head(a.data) = AccountUnit(id)
            \/ a.data = <<>> /\ convertP1P2(a.p1, a.p2) = "INIT"
    /\ a.ins \in {"INS_GET_PUBLIC_KEY", "INS_GET_ADDRESS"}
         => a.data = <<>> \/ \E id \in AccountIds : Head(a.data) = AccountUnit(id)

ASSUME AccountAssumption == AccountIds \subseteq Nat /\ 0 \in AccountIds

ASSUME NameAssumption ==
    /\ (Txns \union Messages) \subseteq (STRING \ {"TX", "account"})
    /\ Txns \intersect Messages = {}
    /\ WellFormed \subseteq Txns /\ AppCalls \subseteq Txns

ASSUME DataAssumption ==
    /\ Size \in [Txns \union Messages -> Nat \ {0}]
    /\ Fee \in [Txns -> Nat]
    /\ BufferSize \in Nat \ {0}
    /\ FeeModulus \in Nat \ {0}
    /\ Blindsign \subseteq BOOLEAN

\* The buffer holds the prefix and all of t.  What follows t is not read.
HoldsWhole(buf, t) ==
    Len(buf) > Size[t] /\ buf[1] = TXTag /\ \A i \in 1..Size[t] : buf[i + 1] = <<t, i>>

\* A transaction that is whole and well formed is read as itself.
ASSUME MixtureAssumption ==
    \A r \in Mixtures :
        /\ r \in [buffer : Seq(Units), txn : Txns]
        /\ \A t \in WellFormed : ~HoldsWhole(r.buffer, t)

ASSUME ApduAssumption == \A a \in Apdus : a \in Apdu /\ WellFramed(a)

VARIABLES
    hdPath,          \* account of the current derivation path
    tx_initialized,  \* an upload is open: P1_ADD and P1_LAST chunks are accepted
    buffer,          \* the upload buffer
    group_txn,       \* group state, with group_max_fees
    mode,            \* blind signing: the setting, and its UI having been skipped
    screen,          \* the review that waits for the user
    reply,           \* the last answer sent to the host
    sent             \* history: what should be in the buffer, from the command that opened the upload on

vars == <<hdPath, tx_initialized, buffer, group_txn, mode, screen, reply, sent>>

NoGroup == [initialized |-> FALSE, num_of_txns |-> 0, num_of_txns_reviewed |-> 0,
            max_fees |-> 0, members |-> {}]

NoScreen == [kind |-> "none", shows |-> {}, max_fees |-> 0, to_review |-> 0, key |-> Unset]

Answer(sw, key, signatures) == [sw |-> sw, key |-> key, signatures |-> signatures]
Status(sw) == Answer(sw, Unset, {})

Init ==
    /\ hdPath = Unset
    /\ tx_initialized = FALSE
    /\ buffer = <<>>
    /\ group_txn = NoGroup
    /\ mode \in [blindsign : Blindsign, skipped : {FALSE}]
    /\ screen = NoScreen
    /\ reply = Status("none")
    /\ sent = <<>>

-----------------------------------------------------------------------------
(* Group state (tx.c) and what process_chunk does to it before the payload.  *)

\* Mutant: a complete group stays.
ForgetNoGroup(g) == g

\* Mutant: group_max_fees is not reset with the rest.
ForgetGroupButFees(g) ==
    IF g.num_of_txns_reviewed >= g.num_of_txns
      THEN [NoGroup EXCEPT !.max_fees = g.max_fees, !.members = g.members] ELSE g

\* handle_sign_msgpack starts a new group once the previous one is complete.
ForgetCompleteGroup(g) ==
    IF g.num_of_txns_reviewed >= g.num_of_txns THEN NoGroup ELSE g

\* Mutant: a group of one is taken.
GroupCountRefusedAbove(n) == n > MAX_NUM_OF_TXNS_IN_GROUP

GroupCountRefused(n) ==
    n # 0 /\ n \notin MIN_NUM_OF_TXNS_IN_GROUP..MAX_NUM_OF_TXNS_IN_GROUP

\* A command without a count resets the group; the first one with a count opens it.
GroupAtChunk(g, n) ==
    IF GroupCountRefused(n) THEN g
    ELSE IF n = 0 THEN NoGroup
    ELSE IF g.initialized THEN g
    ELSE [g EXCEPT !.initialized = TRUE, !.num_of_txns = n]

increment_num_of_txns_reviewed(g) == [g EXCEPT !.num_of_txns_reviewed = @ + 1]

-----------------------------------------------------------------------------
(* The upload buffer: process_chunk.                                         *)

\* Mutant: the account id of the command is not read.
extractDefaultPath(data) == 0

extractHDPath(data) == IF data = <<>> THEN 0 ELSE Head(data)[2]

\* Mutant: P1 is compared with the wrong constant.
HasAccountInLater(a) == a.p1 = P1_MORE

\* The account id is looked for only when the whole byte P1 says so.
HasAccount(a) == a.p1 = P1_FIRST_ACCOUNT_ID
TooShort(a) == HasAccount(a) /\ a.data = <<>> /\ convertP1P2(a.p1, a.p2) = "INIT"
Body(a) == IF HasAccount(a) /\ a.data # <<>> THEN Tail(a.data) ELSE a.data

\* buffering_append: everything or nothing.
Fits(buf, units) == Len(buf) + Len(units) <= BufferSize
tx_append(buf, units) == IF Fits(buf, units) THEN buf \o units ELSE buf

UploadBase(a, tag) == IF convertP1P2(a.p1, a.p2) \in {"INIT", "SINGLE"} THEN tag ELSE buffer

\* Mutant: the number of bytes added is not compared with the number sent.
ChunkStatusUnchecked(a, tag) ==
    LET type == convertP1P2(a.p1, a.p2)
    IN  IF GroupCountRefused(P1_NUM_OF_TXNS_IN_GROUP(a.p1)) \/ type = "NONE" THEN "INVALIDP1P2"
        ELSE IF type \in {"ADD", "LAST"} /\ ~tx_initialized THEN "TX_NOT_INITIALIZED"
        ELSE IF type \in {"INIT", "ADD"} THEN "OK" ELSE "complete"

\* What process_chunk returns or throws: "complete" is TRUE, "OK" is FALSE.
ChunkStatus(a, tag) ==
    LET type == convertP1P2(a.p1, a.p2)
    IN  IF GroupCountRefused(P1_NUM_OF_TXNS_IN_GROUP(a.p1)) \/ type = "NONE" THEN "INVALIDP1P2"
        ELSE IF type \in {"ADD", "LAST"} /\ ~tx_initialized THEN "TX_NOT_INITIALIZED"
        ELSE IF TooShort(a) THEN "WRONG_LENGTH"
        ELSE IF ~Fits(UploadBase(a, tag), Body(a)) THEN "OUTPUT_BUFFER_TOO_SMALL"
        ELSE IF type \in {"INIT", "ADD"} THEN "OK" ELSE "complete"

ChunkIgnored(a, tag) ==
    /\ ChunkStatus(a, tag) \in {"INVALIDP1P2", "TX_NOT_INITIALIZED"}
    /\ UNCHANGED <<hdPath, tx_initialized, buffer, sent>>

\* Mutant: an overflow leaves the upload open.
ChunkAppendedStaysOpen(a, tag) ==
    /\ ChunkStatus(a, tag) \notin {"INVALIDP1P2", "TX_NOT_INITIALIZED"}
    /\ tx_initialized' = (ChunkStatus(a, tag) # "complete")
    /\ buffer' = tx_append(UploadBase(a, tag), Body(a))
    /\ hdPath' = IF HasAccount(a) THEN extractHDPath(a.data) ELSE hdPath
    /\ sent' = (IF convertP1P2(a.p1, a.p2) \in {"INIT", "SINGLE"} THEN tag ELSE sent) \o Body(a)

\* An overflow closes the upload; a chunk too short for its account id leaves it open.
ChunkAppended(a, tag) ==
    /\ ChunkStatus(a, tag) \notin {"INVALIDP1P2", "TX_NOT_INITIALIZED"}
    /\ tx_initialized' = (ChunkStatus(a, tag) \in {"OK", "WRONG_LENGTH"})
    /\ buffer' = tx_append(UploadBase(a, tag), Body(a))
    /\ IF convertP1P2(a.p1, a.p2) \in {"INIT", "SINGLE"}
         THEN /\ hdPath' = IF HasAccount(a) THEN extractHDPath(a.data) ELSE hdPath
              /\ sent' = tag \o Body(a)
         ELSE /\ UNCHANGED hdPath
              /\ sent' = sent \o Body(a)

process_chunk(a, tag) == ChunkIgnored(a, tag) \/ ChunkAppended(a, tag)

-----------------------------------------------------------------------------
(* Parsing (tx_parse) and the blind-signing mode.                            *)

app_mode_blindsign_required(m) == m.blindsign /\ ~m.skipped

\* What the parser may find two bytes into the buffer.  It does not look at those
\* two bytes and sees no chunks: any others may make a transaction too, those of
\* two uploads, of one the message instruction opened, or of one that is cut and
\* goes on in what lies behind it, on which the answer then depends.
ParsedTxns(buf) ==
    {t \in Txns : HoldsWhole(buf, t)} \union {r.txn : r \in {m \in Mixtures : m.buffer = buf}}

\* Mutant: every group is a batch, blind signing or not.
InGroup(g) == g.initialized

InBatch(g) == g.initialized /\ app_mode_blindsign_required(mode)

\* _readTxCommonParams adds the fee to the group's before the later fields are read.
AddFees(g, t) ==
    IF InBatch(g)
      THEN [g EXCEPT !.max_fees = (@ + Fee[t]) % FeeModulus, !.members = @ \union {t}]
      ELSE g

\* An application call read with blind signing off skips the blind-signing screens.
ModeAfter(t) ==
    IF t \in AppCalls /\ ~mode.blindsign THEN [mode EXCEPT !.skipped = TRUE] ELSE mode

\* crypto_sign: the key tree is confined to the application's path prefix.
Signed(path, message) ==
    IF path = Unset THEN Status("SIGN_VERIFY_ERROR")
    ELSE Answer("OK", Unset, {[key |-> path, message |-> message]})

\* Mutant: the prefix is skipped as for the parser.
app_sign_bare(path, buf) == Signed(path, Tail(buf))

app_sign(path, buf) == Signed(path, buf)

\* TO_SIGN_SIZE bytes from the start: the first unit of a message, or the
\* prefix and the beginning of the unit that follows it.
ToSign(buf) ==
    IF buf = <<>> THEN <<>>
    ELSE IF buf[1] = TXTag /\ Len(buf) > 1 THEN <<buf[1], buf[2]>>
    ELSE <<buf[1]>>

app_sign_arbitrary(path, buf) == Signed(path, ToSign(buf))

-----------------------------------------------------------------------------
(* The handlers.                                                             *)

GroupForChunk(a) ==
    GroupAtChunk(ForgetCompleteGroup(group_txn), P1_NUM_OF_TXNS_IN_GROUP(a.p1))

\* Mutant: off by one.
MoreToReview(g) == g.num_of_txns_reviewed < g.num_of_txns

\* Another transaction of the group follows, which will be reviewed.
NotLastOfGroup(g) == g.num_of_txns_reviewed < g.num_of_txns - 1

\* The upload goes on, or the chunk is refused.
StoreTxChunk(a) ==
    /\ ChunkStatus(a, <<TXTag>>) # "complete"
    /\ process_chunk(a, <<TXTag>>)
    /\ group_txn' = GroupForChunk(a)
    /\ reply' = Status(ChunkStatus(a, <<TXTag>>))
    /\ UNCHANGED <<mode, screen>>

\* The upload is complete and the parser rejects it, before it has read a fee or after.
RejectTx(a) ==
    /\ ChunkStatus(a, <<TXTag>>) = "complete"
    /\ process_chunk(a, <<TXTag>>)
    /\ \/ ParsedTxns(buffer') = {} /\ group_txn' = GroupForChunk(a)
       \/ \E t \in ParsedTxns(buffer') \ WellFormed : group_txn' = AddFees(GroupForChunk(a), t)
    /\ reply' = Status("DATA_INVALID")
    /\ UNCHANGED <<mode, screen>>

\* Blind signing, and not the last of its group: sign without a review.
SignInBatch(a) ==
    /\ ChunkStatus(a, <<TXTag>>) = "complete"
    /\ process_chunk(a, <<TXTag>>)
    /\ \E t \in ParsedTxns(buffer') \intersect WellFormed :
         LET g == AddFees(GroupForChunk(a), t)
         IN  /\ InBatch(g)
             /\ NotLastOfGroup(g)
             /\ group_txn' = increment_num_of_txns_reviewed(g)
    /\ reply' = app_sign(hdPath', buffer')
    /\ UNCHANGED <<mode, screen>>

\* Show the transaction, or the summary of the group, and wait for the user.
ReviewTx(a) ==
    /\ ChunkStatus(a, <<TXTag>>) = "complete"
    /\ process_chunk(a, <<TXTag>>)
    /\ \E t \in ParsedTxns(buffer') \intersect WellFormed :
         LET g == AddFees(GroupForChunk(a), t)
         IN  /\ InBatch(g) => ~NotLastOfGroup(g)
             /\ screen' = [kind      |-> IF InBatch(g) THEN "summary" ELSE "transaction",
                           shows     |-> IF InBatch(g) THEN g.members ELSE {t},
                           max_fees  |-> g.max_fees,
                           to_review |-> g.num_of_txns - g.num_of_txns_reviewed,
                           key       |-> Unset]
             /\ group_txn' = IF g.initialized THEN increment_num_of_txns_reviewed(g) ELSE g
             /\ mode' = ModeAfter(t)
    /\ reply' = Status("none")

handle_sign_msgpack(a) ==
    /\ a.ins = "INS_SIGN_MSGPACK"
    /\ StoreTxChunk(a) \/ RejectTx(a) \/ SignInBatch(a) \/ ReviewTx(a)

StoreMessageChunk(a) ==
    /\ ChunkStatus(a, <<>>) # "complete"
    /\ process_chunk(a, <<>>)
    /\ reply' = Status(ChunkStatus(a, <<>>))
    /\ UNCHANGED screen

\* The screen shows what follows the bytes that will be signed.
ReviewMessage(a) ==
    /\ ChunkStatus(a, <<>>) = "complete"
    /\ process_chunk(a, <<>>)
    /\ screen' = [NoScreen EXCEPT !.kind = "message",
                                  !.shows = {buffer'[i][1] : i \in 2..Len(buffer')}]
    /\ reply' = Status("none")

handle_arbitrary_sign(a) ==
    /\ a.ins = "INS_ARBITRARY_SIGN"
    /\ StoreMessageChunk(a) \/ ReviewMessage(a)
    /\ group_txn' = GroupAtChunk(group_txn, P1_NUM_OF_TXNS_IN_GROUP(a.p1))
    /\ UNCHANGED mode

\* P1 asks for the user's confirmation.  The path is set either way.
handle_get_public_key(a) ==
    /\ a.ins \in {"INS_GET_PUBLIC_KEY", "INS_GET_ADDRESS"}
    /\ hdPath' = extractHDPath(a.data)
    /\ IF a.p1 # 0
         THEN /\ screen' = [NoScreen EXCEPT !.kind = "address", !.key = hdPath']
              /\ reply' = Status("none")
         ELSE /\ reply' = Answer("OK", hdPath', {})
              /\ UNCHANGED screen
    /\ UNCHANGED <<tx_initialized, buffer, group_txn, mode, sent>>

handle_other(a) ==
    /\ a.ins \in {"INS_GET_VERSION", "other"}
    /\ reply' = Status(IF a.ins = "other" THEN "INS_NOT_SUPPORTED" ELSE "OK")
    /\ UNCHANGED <<hdPath, tx_initialized, buffer, group_txn, mode, screen, sent>>

\* CHECK_PIN_VALIDATED: the device is locked.  Arbitrary signing does not check.
RefuseLocked(a) ==
    /\ "pin" \in Disruptions
    /\ a.ins \in {"INS_SIGN_MSGPACK", "INS_GET_PUBLIC_KEY", "INS_GET_ADDRESS"}
    /\ reply' = Status("LOCKED")
    /\ UNCHANGED <<hdPath, tx_initialized, buffer, group_txn, mode, screen, sent>>

handleApdu(a) ==
    /\ screen.kind = "none"
    /\ \/ handle_sign_msgpack(a)
       \/ handle_arbitrary_sign(a)
       \/ handle_get_public_key(a)
       \/ handle_other(a)
       \/ RefuseLocked(a)

-----------------------------------------------------------------------------
(* The user, the settings menu, and the application being restarted.         *)

Approve ==
    /\ screen.kind # "none"
    /\ reply' = CASE screen.kind = "address" -> Answer("OK", screen.key, {})
                  [] screen.kind = "message" -> app_sign_arbitrary(hdPath, buffer)
                  [] OTHER                   -> app_sign(hdPath, buffer)
    /\ screen' = NoScreen
    /\ UNCHANGED <<hdPath, tx_initialized, buffer, group_txn, mode, sent>>

\* Mutant: the rejection is not answered.
app_reject_silent ==
    /\ screen.kind # "none"
    /\ screen' = NoScreen
    /\ UNCHANGED <<hdPath, tx_initialized, buffer, group_txn, mode, reply, sent>>

\* The group state keeps counting the rejected transaction as reviewed.
app_reject ==
    /\ screen.kind # "none"
    /\ reply' = Status("COMMAND_NOT_ALLOWED")
    /\ screen' = NoScreen
    /\ UNCHANGED <<hdPath, tx_initialized, buffer, group_txn, mode, sent>>

\* The main menu is only there between commands.
ToggleBlindsign ==
    /\ "toggle" \in Disruptions
    /\ screen.kind = "none"
    /\ \E s \in {FALSE, mode.skipped} :
         mode' = [blindsign |-> ~mode.blindsign, skipped |-> s]
    /\ UNCHANGED <<hdPath, tx_initialized, buffer, group_txn, screen, reply, sent>>

\* Unplugged, or the application closed and opened again: only the setting is kept.
Restart ==
    /\ "restart" \in Disruptions
    /\ hdPath' = Unset
    /\ tx_initialized' = FALSE
    /\ buffer' = <<>>
    /\ group_txn' = NoGroup
    /\ mode' = [mode EXCEPT !.skipped = FALSE]
    /\ screen' = NoScreen
    /\ reply' = Status("DISCONNECTED")
    /\ sent' = <<>>

Next ==
    \/ \E a \in Apdus : handleApdu(a)
    \/ Approve
    \/ app_reject
    \/ ToggleBlindsign
    \/ Restart

Spec == Init /\ [][Next]_vars

-----------------------------------------------------------------------------
(* Properties.                                                               *)

Keys == AccountIds \union {Unset}
Signature == [key : AccountIds, message : Seq(Units)]
Group == [initialized : BOOLEAN, num_of_txns : {0} \union 2..16, num_of_txns_reviewed : Nat,
          max_fees : Nat, members : SUBSET Txns]
Screen == [kind : {"none", "transaction", "summary", "message", "address"},
           shows : SUBSET (Txns \union Messages \union {"TX", "account"}), max_fees : Nat, to_review : Int, key : Keys]

StatusWords == {"none", "OK", "INVALIDP1P2", "TX_NOT_INITIALIZED", "WRONG_LENGTH",
                "OUTPUT_BUFFER_TOO_SMALL", "DATA_INVALID", "SIGN_VERIFY_ERROR",
                "COMMAND_NOT_ALLOWED", "INS_NOT_SUPPORTED", "LOCKED", "DISCONNECTED"}
Answers == [sw : StatusWords, key : Keys, signatures : SUBSET Signature]
Modes == [blindsign : BOOLEAN, skipped : BOOLEAN]

\* Every variable keeps its type (the shape of the C objects).
TypeOK ==
    /\ hdPath \in Keys
    /\ tx_initialized \in BOOLEAN
    /\ buffer \in Seq(Units)
    /\ group_txn \in Group
    /\ mode \in Modes
    /\ screen \in Screen
    /\ reply \in Answers
    /\ sent \in Seq(Units)

CountsConsistent(g) ==
    /\ g.num_of_txns_reviewed <= g.num_of_txns
    /\ g.initialized => g.num_of_txns \in 2..16
    /\ ~g.initialized => g = NoGroup

\* tx_initialized, group state and counters are only reset by some of the
\* commands that follow a failure.  Whatever the order of commands, the number of
\* reviewed transactions never passes the size of the group (the increment at
\* apdu_handler.c:199 or 211 is checked only by the next command, at line 172),
\* an uninitialised group holds no count and no fee, and a batch is summarised
\* exactly when one transaction of it is left ("Txs to review", parser.c:743).
GroupCountConsistent ==
    /\ CountsConsistent(group_txn)
    /\ screen.kind = "summary" => screen.to_review = 1

\* Nothing is lost to a full buffer or left over from an earlier upload.
UploadWhole == buffer = sent

\* While a transaction or a summary is on the screen, what approval will sign is
\* what the command that opened the upload began it with (the prefix, if that was
\* INS_SIGN_MSGPACK) and everything sent from there on, in order; and what the
\* parser makes of it, whatever chunks came together, is among the transactions
\* the screen stands for.
ReviewCoversUpload ==
    screen.kind \in {"transaction", "summary"} =>
        /\ UploadWhole
        /\ ~tx_initialized
        /\ \E t \in screen.shows \intersect WellFormed : t \in ParsedTxns(buffer)

NewSignatureIsWhole ==
    reply' # reply /\ screen.kind # "message" =>
        \A s \in reply'.signatures : s.message = sent'

\* The same for every signature the device gives out, reviewed or not, unless the
\* user approved an arbitrary message: it is over the whole upload.
SignsWholeUpload == [][NewSignatureIsWhole]_vars

UnreviewedOwesReview ==
    reply' # reply /\ reply'.signatures # {} /\ screen.kind = "none" =>
        /\ group_txn'.initialized
        /\ mode.blindsign
        /\ group_txn'.num_of_txns_reviewed < group_txn'.num_of_txns

\* A signature given without a review (apdu_handler.c:197-203) leaves the group
\* with at least one transaction still to come, and so with a review due.
UnreviewedSignatureOwesReview == [][UnreviewedOwesReview]_vars

=============================================================================
