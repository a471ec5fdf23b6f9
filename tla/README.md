# Specifications of the Algorand application for Ledger devices

These TLA+ modules describe what the application in this repository does
between the host that asks for signatures and the user who grants them: the
firmware's command handlers, the JavaScript client that drives them, the parser
from bytes to fields, and the items a review puts on the screen. TLC checks them
on small instances and TLAPS proves most of their properties for every instance:
the device's, the client's and its refinement of an abstract service, those of the
display of a transaction, and central facts about the two scanners of untrusted
bytes.

Check a configuration with `tlc -config MCAlgorandDevice.cfg MCAlgorandDevice`
(each `MC*.cfg` belongs to the module its name begins with), and the proofs with
`tlapm` on `AlgorandDevice_proofs.tla`, `LedgerClient_proofs.tla`,
`Alone_proofs.tla`, `Released_proofs.tla`, `Service_proofs.tla`,
`TxItems_proofs.tla`, `ArbitraryItems_proofs.tla` and `KeySearch_proofs.tla`.

## 1. The system

| Component | State | Operations | Correct when |
|---|---|---|---|
| Command handlers, group state, upload buffer (`app/src/apdu_handler.c`, `app/src/common/tx.c`, `actions.h`) | `tx_initialized`, the upload buffer, `group_txn`, `group_max_fees`, the pending review | `INS_SIGN_MSGPACK`, `INS_ARBITRARY_SIGN`, `INS_GET_PUBLIC_KEY`, `INS_GET_ADDRESS`, `INS_GET_VERSION`; the user's approval or rejection | what is reviewed, and what is signed, is exactly what was uploaded; a signature given without a review leaves a transaction of its batch to be reviewed; the counters never disagree |
| Derivation path and keys (`app/src/crypto.c`) | the global `hdPath` | set by a command that names an account, read by every signature | a signature is of the account the request is for |
| Transaction parser, fields (`app/src/parser_impl.c`) | `itemArray` and three counters | reads the fields of six transaction types, adds the items to display | no field is lost; the array is large enough |
| Transaction display (`app/src/parser.c`) | none of its own | from a position on the screen to a field or array element | every item that was added can be printed, and is the right one |
| JavaScript client (`js/src/index.ts`) | per call: what is left to send, what was received | `sign`, `signGroup`, `signData`, `getPubkey` | signatures of a batch are only released when the user has confirmed it; a call fails for a reason and ends |
| MessagePack readers and key search (`parser_impl.c`, `msgpack.h`) | the offset of the context | looks for each key from the first byte of the map, walks over other values, reads the value found | every field gets the bytes behind its own key; nothing outside the bytes given is read |
| Arbitrary-message display (`tx.c:209-321`) | positions of keys and values, the memory behind the upload | scans the JSON once to store entries and once to count them | the user pages through the members of this message, all of them and nothing else |
| Value formatting (`base32.c`, `parser_encoding.c`, `algo_asa.c`) | none | addresses; base64, amounts, asset names, paging | an address names its account; *the others are not modelled* |
| Device framework (`ledger-zxlib`, `ledger-secure-sdk`) | settings, screens, transport | submodules, not in the repository | modelled as external |
| `cli/`, `deps/sha512`, `fuzz/`, `tests*/`, `cmake/` | | scripts, third-party code, tests | *not modelled* |

How they interact. The client makes one APDU exchange after another. The device
handles one command to its end; it answers at once, or leaves a review on the
screen and answers when the user approves (`app_sign`, `app_sign_arbitrary`,
`app_reply_address`) or rejects (`app_reject`). Handlers, parser and review
callbacks share global variables that survive from command to command. The
parser runs inside the last command of an upload, fills the item array and adds
to the fee total; the review reads both afterwards.

What is hard about it:

- state that is reset by some commands and not by others (group counters, fee
  total, derivation path, `tx_initialized`), over sequences nobody wrote a test
  for;
- one upload buffer for two instructions, calls of one application that
  interleave between their exchanges, and a parser that sees bytes and not the
  chunks and instructions they came in;
- a batch in which signatures are given out before the review, and a client
  that has to hold them back;
- lost answers, abandoned calls, a device that restarts or locks half-way, a
  setting that is toggled in the middle of a group;
- positional arithmetic over an array of items whose content depends on type,
  setting and group;
- readers that look for keys in bytes the host chose, take an error for an
  absent field, and read on into memory an earlier upload left behind.

`PROJECT.json` lists each hazard at its line with the properties that watch it.

## 2. The modules

    SigningService  <--refines--  LedgerClient  --EXTENDS-->  AlgorandDevice
    Service_proofs --> Released_proofs --> Alone_proofs --> LedgerClient_proofs --> AlgorandDevice_proofs

    TxItems  -->  TxFields  <--  MsgPack  <--  KeySearch  <--  AddressText
    ArbitraryItems

An arrow to the right or left points to what a module extends; a proof module
with the name of a model extends it too (the three others on that line are about
LedgerClient), and each run has an `MC` module with its constants. `TxFields` holds what the two views of the parser share: the fields of
each type in the order they are read, the enumerations and the limits.

**AlgorandDevice** models the firmware. `process_chunk` is one operator used by
both signing handlers, with the tag it puts before an upload (`TX` or nothing);
`ChunkStatus` is what it throws or returns. `handle_sign_msgpack` has one
disjunct per way it can end: the upload goes on or the chunk is refused
(`StoreTxChunk`), the transaction is rejected by the parser (`RejectTx`), it is
signed at once in a batch (`SignInBatch`), or a review is opened (`ReviewTx`).
Each includes everything the handler does on that path: forgetting a complete
group first, adding the fee, counting the transaction, signing. Payloads are
sequences of units, a unit standing for one chunk of a transaction or message,
an account id, or the prefix. `ParsedTxns` is what the parser may find in a buffer: a
transaction whose units stand, whole and in order, right behind the prefix
(`HoldsWhole`), and besides that whatever the constant `Mixtures` says. `tx_parse`
passes over two bytes without a look at them and knows nothing of chunks: the first
chunk of one upload and the last of another may make a transaction, and so may an
upload that the message instruction opened and the transaction instruction
completed, from its third byte. `Mixtures` is any set of such buffers, each with a
transaction that is found there; more than one for a buffer is a parser whose answer
depends on what lies behind the upload. Which transactions are well formed is a
constant too. `reply` is the answer last sent, `screen` the review that waits for the
user.

**LedgerClient** adds the client's calls. An exchange is two steps, `Exchange`
(the device handles the command) and `Resume` (the client reads the answer); in
between the user may be asked. `Start` begins a call; `AfterPubkey` and
`AfterChunk` are what `signGroup`, `sign` and `rawSign` do with an answer,
including `sign` not looking at the answer to a first chunk. A call keeps the
positions of its request it signs (`toSign`, the code's `txnIsToSign`) and a
result for each position. `SendFails`, `AnswerLost`, `Abandon`, `DeviceRestarts`
and `UserTogglesBlindsign` are the disruptions, each counted against
`MaxFaults`; `MaxConcurrent` bounds the calls open at once.

**SigningService** is what an application wants from the client: a call gives
out all the signatures it was asked for, at once, after the user has consented
to everything in it; or it fails and gives out none. One approval may be a consent
to several calls: two of them can ask for the same transaction.

**TxItems** models `_read` and its readers with the `DISPLAY_*` macros, and
`parser_getItem` with the printers. A transaction is the set of its keys, those
whose values its readers refuse, and the sizes of its arrays. The steps are
those of the code: common fields, fields of the type, `parser_validate` one item
at a time, then the user paging.

**MsgPack** has the readers of parser_impl.c as operators from bytes and an
offset to a result: whether it succeeded, the offset behind, where the contents
begin and a number. **KeySearch** is the parse over them, one step per key
compared (`NextKey`), value walked over (`SkipValue`, the recursion of
`_verifyValue` as a count of values left), search that fails (`SearchFails`) and
value read (`ReadType`, `ReadField`, `OpenParams` ... `PrintElement`). `todo` is
the list of fields still to look for, in the order of the code; `found` the
fields read, with their bytes. The parser's bytes are the upload and the two
bytes behind it that `tx_parse` passes along; what they hold is `Tails`. When
the fields are done the elements of accounts and arguments are searched and read
again, as the display does. Here the setting is off and there is no group, so
every element is printed.

**AddressText** is the text of the accounts KeySearch finds: `base32_encode`
round by round and `encodePubKey`, over any checksum.

**ArbitraryItems** is the review of an arbitrary message. Its state is the
memory behind the bytes to sign, which no upload clears, and the arrays of
`tx_parsed_json`. `Upload` brings a message, `ParseMember` is one round of the
loop that stores entries, and `tx_getNumItems_arbitrary` and
`tx_getItem_arbitrary` are what the review shows. A key is printed to a line of
`KeySize` characters and a value goes through `tmpBuf`: `Printed` cuts what does not
fit before the NUL. The user pages with `ShowItem`. An entry more than the arrays
have would be written over what lies behind them, and so would the NUL behind a key
or a value that is too long, whose place nothing tests: the model stops there
(`overrun`, `overflow`). What a message says does not come from these scans: `Members` lists
its keys and values, `Places` where the quotes, the colon and the value of each
are, and `PlacesAssumption` is the grammar that holds between the two and the
characters (an object of one level, without escaped quotes).

Four variables record history and no action reads them for anything else:
`sent` and `group_txn.members` in the device, `approved` and `excused` in the
client, `seen` in TxItems.

Some definitions are preceded by a variant marked "Mutant": the same operator
with a slip in it. No specification uses them; `PROJECT.json` says which
property notices each when it replaces the operator below it.

### Assumptions of the models

- A host frames its commands (`WellFramed`): where the account flag is set there
  is an account id. For a single chunk shorter than that the code subtracts
  past zero and what follows depends on memory outside the program.
- No chunk of a host is the two-byte prefix by itself (`Payload`), and the chunks
  hosts send are known; what they make together is open, but that a transaction which
  is whole and well formed is read as itself (`MixtureAssumption`).
- Accounts are below 2^31, as derivation paths have them, so that the bytes of an
  account id that `signGroup` leaves in front of a transaction begin no map
  (`SmallAccountAssumption`).
- While a review is open the device takes no command, and after a transport
  error no late answer is read as the answer to a later command: the transport
  does both.
- `Meaning` (what a transaction says) and `Members` with `Places` (what a message
  says) come from the fields each is built of in the MC module, not from the
  code's scan.
- A domain that fills its array has the length that the eight bytes behind it
  give it; `ReviewShowsMessage`, `OverrunNeedsFullMessage` and `PagingStaysInside`
  are stated for domains that fit (`DomainFits`), and `ReviewShowsMessage` says of a
  member that it is shown whole if its key and value fit (`MemberFits`).
- Fields with 32 and 64 bytes, and the buffers of strings, are smaller in the
  run of KeySearch (`BinSize`, `StringSize`); the readers are the same.
- `parser_blindsign_mode_required` (apdu_handler.c:187) is produced nowhere in
  the parser, so the error screen of that branch is not modelled.

## 3. What the runs check

| Run | What it asks | Bounds |
|---|---|---|
| `device` | Any well-framed command in any order, 25 of them: single and chunked transactions with and without a count of 3, messages, account flags with and without a count, counts of 1, 2 and 17, an unknown P2, a first chunk without its account id. Mixtures: a message's first chunk and a transaction's second, without a prefix; a second chunk alone; one that is cut and may be completed by what lies behind it. | buffer of 3 units, so prefix and two fit and overflow happens; fees modulo 3, so the total wraps; lock, restart, toggle unbounded |
| `alone` | Calls one after another: a group of three own transactions and a foreign one, a group of two, a single transaction and a message of account 1, in every order and both settings. | four calls, no disruption |
| `disturbed` | The same kind of calls with a retry. | five calls, two disruptions of four kinds, and a device that may be locked at any time |
| `concurrent` | A group, a single transaction and a message, two open at a time, blind signing off. | three calls, one disruption of three kinds |
| `items` | For each of the six types: least and most fields, one field away from either, each field unreadable; arrays at, below and above their limits; all eight modes. | a few hundred transactions |
| `arbitrary` | Messages with no member, strings, numbers, arrays, an empty string, colons and commas in strings, spaces before values, a domain that fills its array; keys and values that just fit and that do not; one after another in any order, and paging in between. | 13 messages; arrays of 3 entries, so that one message fills them and one goes over; a domain array of 4, a line of 3, a `tmpBuf` of 12 |
| `key_search` | Transactions of all six types with all their fields; keys in reverse order, hidden behind unknown, nested and longer keys; cut inside a key, a value, a map; wrong types and sizes, too many accounts, unsupported values, unknown, repeated and too many parameters; what is no map. One after another. | 32 uploads, two pairs of bytes behind each |

The state spaces are closed: every behaviour returns to, or is covered by, the
states found. Three counted transactions are the smallest group with a first, a
middle and a last; two units are the smallest chunked upload with a chunk that
is neither alone nor last; two accounts are enough for a wrong one. An address
of six bytes, like the real one of thirty-six, is some whole periods of five
bytes and one byte more, so the last digit is filled up in the same way. In the
client runs the parser accepts the first chunk of any transaction, or of the message,
with the second of any other transaction; each call is made once and then the system
rests, and the model of a message stops at a write outside an array: deadlock is not
checked there. `device`, `items`
and `key_search` never stop and it is.

Properties, beyond one type invariant per module:

- `GroupCountConsistent`, `ReviewCoversUpload`, `SignsWholeUpload`,
  `UnreviewedSignatureOwesReview` (device);
- `SignatureOfRequest`, `KeyOfAccount`, `ReleasedIsApproved`,
  `SummaryCoversGroup`, `FailsOnlyForCause` (client, safety);
- `AllCallsFinish` (client, liveness) and `ImplementsService` (refinement);
- `EveryFieldShownOnce`, `SenderAndRekeyShown`, `AcceptedIsShowable`,
  `BatchCountsAgree` (display of a transaction);
- `EntriesInOrder`, `ReviewShowsMessage`, `OverrunNeedsFullMessage`,
  `PagingStaysInside` (display of a message);
- `OffsetInWindow`, `FoundInOneWalk`, `FoundIsMeaning`, `EarlyFieldsAreFound`, `ValidIsAccepted`,
  `SearchEnds` (bytes of a transaction) and `AddressNamesKey` (its accounts).

The device cannot tell a mixture of chunks from a transaction, so two properties say
what it does with one. For the device, `ReviewCoversUpload` and `SignsWholeUpload`: the
screen stands for what the parser made of the upload, and what is signed is the upload,
from the command that opened it on, with the prefix if that was a transaction command.
For a call, `SignatureOfRequest`: it is given a signature over its item, whole; only a
call that met a disruption or another call's command (`excused`) may be given one over a
mixture, and only if the parser accepts it and it ends in the last chunk of that item.
`ReleasedIsApproved` then says that no signature is released, over a mixture or not,
unless the parser found in its bytes a transaction that the user has seen and approved.

`UnreviewedSignatureOwesReview` says that a signature without a review is given only
where a transaction of the batch is left. That the review comes is not said: the host
may send nothing more, and then the client releases nothing (`ReleasedIsApproved`).

`SummaryCoversGroup` says that a summary stands for all transactions of the
call's account and no others, so that the one sender it shows is the sender of
each, and that the total of fees is theirs. `EarlyFieldsAreFound` is what remains
true of a parser that takes an error for an absent field: the search for the
type has walked over everything before it, so nothing there can be lost. What
stands behind the type can be, and what a longer key hides
(`_findKey` compares as many characters as the key looked for has).

`FoundInOneWalk` says what the many searches come to. Its reference is a definition
of its own: `Walk` goes over the map once, `MapKeys` are the keys it comes by,
`FirstOf` the first of them that begins with a name, `SaidBy` what the field's reader
takes behind it, with the elements if it is an array. An accepted transaction has
found exactly that, for every field its type asks for: no field is read behind another
key, no element twice or not at all, and an error taken for absence hides only what
the one walk does not reach either. The parameters of an asset are a map within the
map, read by a reader of its own, and left out of this property.

Outside the conditions of these runs the code does not keep some of them:

| Run | Shows |
|---|---|
| `stale_group` | A batch that ends early leaves its counters; the next batch continues them and its last transaction is released unseen, against the comment at apdu_handler.c:194-196. |
| `bare_sign` | `sign` for account 0 uses whatever account the last command set, against docs/APDUSPEC.md:155-157. |
| `group_account` | With a group count in P1 the account flag is not recognised: `signGroup` works for account 0 only, against docs/APDUSPEC.md:108-110 and coin.h:69-71. |
| `arbitrary_full` | A message with as many members as the arrays hold, the last one a string, writes an entry behind them: the closing brace costs one. The comment at tx.c:267 names one limit only, the nesting. |
| `window` | A transaction without its last one or two bytes is completed by what an earlier upload left there, and accepted (tx.c:137-138): the check at parser_impl.h:27 is against a length two bytes too long. |

More limits were met by changing a configuration, or in a proof, and are the reason
for its constants and for the conditions of its properties:

- `device` with an invariant that every transaction under review has its prefix: it
  fails. `INS_ARBITRARY_SIGN` opens an upload and `INS_SIGN_MSGPACK` completes it;
  what the parser finds from the third byte on is reviewed, and signed without the
  prefix. Hence `SignsWholeUpload` speaks of the command that opened the upload.
- `alone` with the call `lone`, a group with one transaction of the account:
  `FailsOnlyForCause` fails, for the client sends a count of one (index.ts:333)
  and the device takes none below two (apdu_handler.c:86).
- `stale_group` with `SummaryCoversGroup`: the summary of the second group counts the
  fee of the refused transaction of the first (parser_impl.c:819 adds it before the
  rest is read). Hence `Undisrupted` leaves unsignable transactions out.
- `disturbed` without `excused` in `SignatureOfRequest`: a sign is abandoned after its
  first chunk, a second one loses its first chunk (the answer is not looked at), and
  its second chunk completes the mixture, which is reviewed and signed.
- `disturbed` with a `sign` for account 1 that does not ask for its key: after the same
  two disruptions `KeyOfAccount` fails, for the path is the one the abandoned call has
  set; one disruption and a locked device do as well. If the parser accepts no mixture
  two do not suffice. Hence `OneAtATime` in the theorem.
- `arbitrary` with the message `escaped`: `ReviewShowsMessage` fails, for a
  string ends at the next quote, escaped or not.
- `arbitrary` with a domain that fills its array before an array of strings with
  colons: `OverrunNeedsFullMessage` fails without `DomainFits`. The end of the
  domain is then found somewhere in the text, the scan begins inside a string,
  takes what is between strings for keys, and one member fills all entries.
- `arbitrary` with the message `value` or `key` and `MemberFits` dropped:
  `ReviewShowsMessage` fails, for the value or the key is cut. The `tmpBuf` of the code
  has 256 characters: a value of as many or more is cut to 255, and the NUL of
  tx.c:246 is written behind the buffer.
- The proof of `ReviewShowsMessage` asks that fewer than 255 colons are in memory
  (`CountFits`): the count of items is stored in a `uint8_t` (tx.c:263), so what an
  earlier message left behind a short one can make it wrap. No run has so many.
- An application call in a group is shown without its fields though the setting
  is off (`DISPLAY_APP_ITEM`, parser_impl.c:48, against main.c:32):
  `EveryFieldShownOnce` names the exception.

### Fairness

`Fairness` asks that a call which can make its exchange eventually makes it,
that it reads an answer that has come (both are the event loop of the host,
which never drops a pending promise), and that the user eventually answers a
review. Nothing is assumed of starting calls or of disruptions. It is weak
fairness throughout: an exchange that is possible stays possible until it, or
another call's, is made, and each call makes finitely many.

KeySearch assumes `WF_vars(Step)`: `tx_parse` is called and runs to its end
without waiting for anything. New uploads (`Parse`) carry no fairness.

## 4. What is proved

For every set of accounts, transactions, messages and well-framed commands,
every size of units, fee, buffer and fee modulus (`AlgorandDevice_proofs`):

- `TypeCorrect`: `Spec => []TypeOK`
- `GroupCounts`: `Spec => []GroupCountConsistent`
- `ReviewCovers`: `Spec => []ReviewCoversUpload`
- `SignaturesAreWhole`: `Spec => SignsWholeUpload`
- `UnreviewedSignaturesOweReview`: `Spec => UnreviewedSignatureOwesReview`

The inductive invariant is `Inv`: the type invariant, `GroupCountConsistent`,
`ReviewCoversUpload`, and `tx_initialized => UploadWhole`, that an open upload is what
was sent since the command that opened it. The last is what makes it inductive: a
review is opened by the command that completes an upload, so what it shows depends
on the upload having been in step one command earlier, while it was still open. The
prefix is in it *or not*: the two signing instructions share the buffer, a transaction
command can complete an upload that a message command opened, and nothing looks for
the prefix. None of the five asks anything of `Mixtures`.

`GroupForChunkConsistent` carries the counters: after `handle_sign_msgpack` has
forgotten a complete group and read the count, an open group has a transaction
to come, which is what the increment after it, and the comparison with
`num_of_txns - 1`, need. `WhoSigns` says that only two steps give signatures,
and the two action properties are proved for those. The lemmas are stated for
`DeviceNext`, any well-framed command and not only those of `Apdus`, so that they
serve the client too.

For every set of calls, any number of them open at once and any number of
disruptions (`LedgerClient_proofs`):

- `ClientTypeCorrect`: `ClientSpec => []ClientTypeOK`. The hard part is that what
  a call sends next is a command the device model covers, whatever answer came.
- `ClientKeepsDevice`: the invariants and action properties of the device hold of
  the composition. Every client step is a device step or leaves the device alone.
- `SignaturesAreOfRequest`: `ClientSpec => []SignatureOfRequest`, for calls of both
  instructions and any mixtures. `SignatureInv` adds four parts to the invariant.
  `OpenUpload`: no open upload holds the last unit of a transaction, so what the
  parser finds in a completed one, whole or mixed, ends in the chunk just sent.
  `UploadOfCall`: as long as nothing has come between the chunks of a call
  (`Untroubled`), the open upload is what it has sent of its item. `ReviewOfItem`: the
  review that a call waits for is over its item, or over a mixture if something has.
  `AnswerForItem`: so is an answer it has not read yet.

`Untroubled` is that the call is not `excused`, or that no call's first chunk can fail
to arrive (`FirstChunksArrive`: one call at a time, nothing lost and no lock): a first
chunk starts the buffer anew, so whatever was left in it is gone.

With blind signing off, and not to be switched on (`Released_proofs`):

- `ReleasedAreApproved`: `ClientSpec => []ReleasedIsApproved`, for any number of
  calls that share the buffer and the screen, and any mixtures. `ApprovedInv` is
  `ClientInv` and three parts more: a review that `sign` or `signGroup` waits for is of
  transactions (`TxOnScreen`), an answer with a signature is over bytes in which the
  parser found a transaction that was approved (`SeenAnswer`), and so is every result
  (`SeenResults`). It needs that no chunk is ever answered with a signature then
  (`ChunkIsShown`), and that what approval signs is what the screen stands for
  (`ReviewCoversUpload`).

For calls one at a time that ask for their key first, `OneAtATime` (`Alone_proofs`):

- `KeysAreOfAccount`: `ClientSpec => []KeyOfAccount`. `KeyInv` follows the global
  `hdPath`: from the answer to its question until it ends, a call finds its own
  path or, after a restart, none (`PathOfCall`), and nothing is signed without one.
- `FailuresHaveCauses`: `ClientSpec => []FailsOnlyForCause`, if the groups are such
  that the device takes them (`GroupsAreTaken`). `PlanInv` says that a call signs the positions
  of its account, having been told that account's key. `CauseInv` adds, for a call
  that nothing has disturbed and that holds nothing the device cannot sign, what
  makes the device take its next chunk (`UploadKept`): its path is set, the answers
  so far were good, and between its chunks the upload is open and holds what the
  call has sent of the item in hand, and nothing else. The group counters need no
  part in it: a count that the device takes is one it takes in any state.

With any setting, for calls one at a time that nothing disturbs (`Undisrupted`),
and groups that the device takes (`Released_proofs`):

- `SummariesCoverGroups`: `ClientSpec => []SummaryCoversGroup`.
- `BatchesAreApproved`: `ClientSpec => []ReleasedIsApproved`. This is the theorem
  about signatures that leave the device before their review.

With blind signing on, `BatchInv` is `CauseInv` and `BatchKept`, which relates the
group state of the device to the call (`GroupFits`): between two items it counts the
positions of the account the call is through with, `group_txn.members` are the
transactions there, and `max_fees` is the sum of their fees, modulo whatever; before
its first item, and between calls, the count is complete, so that the next one
starts anew (`AtRest`). The summary that ends the batch then shows all of them
(`ShownFor`), and what the call chose to sign is approved when its last answer is
good. With blind signing off no summary opens (`QuietInv`), and `ApprovedInv` holds
again. Both invariants are kept by every step, and one of them holds at first.

The refinement (`Service_proofs`):

- `ClientImplementsService`: `ClientSpec => ImplementsService` with blind signing
  off, `OneAtATime`, no `signData`, and `ItemsAreTaken`: either the parser accepts no
  mixture, and then any disruptions are allowed but a toggled setting; or it may, and
  then no chunk is lost or refused (`FirstChunksArrive`) and no transaction that is
  whole is read as another one (`CutAreRefused`), with calls abandoned and devices
  restarted as often as one likes.
- `BatchesImplementService`: the same with any setting and any mixtures, for the
  conditions of `BatchesAreApproved` and no `signData`.

Initial states map to initial states, and each step of the client to a step of
`SigningService` or a stutter: the last answer of a call, or its failure, is the
step that ends it there, an approval is a consent to the calls that ask for what
was approved, and all others are invisible. The lemma `ServedIfApproved` does that for
both settings, of behaviours in which every signature is over the item it was asked
for (`SignedAsAsked`) and a call that ends well has signed what was approved
(`ApprovedWhenDone`); the two theorems show that theirs are such behaviours. That is
where mixtures have to be excluded: a service gives out what it was asked for.

For every transaction, every type, any setting and any place in a group
(`TxItems_proofs`), with no assumption but `ItemsAssumption`:

- `ItemsTypes`: `Spec => []ItemsTypeOK`
- `AcceptedIsShown`: `Spec => []AcceptedIsShowable`
- `EveryFieldIsShown`: `Spec => []EveryFieldShownOnce`
- `SenderAndRekeyAreShown`: `Spec => []SenderAndRekeyShown`
- `CountsOfBatch`: `Spec => []BatchCountsAgree`

`ItemsInv` says for each phase what its readers have accepted, and that the item
array is the items of the fields read so far, one field behind the other, with the
counters their numbers. From that, `Layout` gives the position at which each field's
items end, and `AllPages` that the device, which finds a field by subtracting
counters from the position on the screen, prints at each position the item that
was put there. `SeenOnce` turns it into the property: what the user has paged
through by then is each item exactly once. Two lemmas carry the arrays of an
application call, the only fields with more than one item (`ApplicationPage`), and
that a page finds a printer (`TypePrint`).

For every text, every memory and every size of the arrays
(`ArbitraryItems_proofs`):

- `ArbitraryTypeCorrect`: `Spec => []ArbitraryTypeOK`
- `EntriesStayInOrder`: `Spec => []EntriesInOrder`, by `ArbitraryInv`: `ValueEnd` is
  never before `ValueStart`, and the pointer only moves on.
- `ReviewsShowMessages`: `Spec => []ReviewShowsMessage`
- `OverrunsNeedFullMessages`: `Spec => []OverrunNeedsFullMessage`
- `PagingIsInside`: `Spec => []PagingStaysInside`

The last three are about messages with the grammar of `PlacesAssumption`, of any
length, behind whatever other messages left. A member is shown whole if its key is
shorter than a line and its value shorter than `tmpBuf` (`MemberFits`), and nothing is
written outside either while all are: a key is printed up to the quote the scan found
(`QuoteFound`), all of it if it fits (`WholePrinted`). `MembersInv` is what they need: memory
begins with the message, and its text with the place the domain gives (`MessageKept`), the
first entries are the members, and after `idx` rounds the pointer is behind the
`idx`-th of them (`EntriesAreMembers`). One round then stores the next member
(`NextMember`): each scan stops where the grammar says, for a string, an
array and a word, and in no older characters. Where memory ends with the message,
one more round can begin, at the brace behind a string, and it ends at the NUL.
That the second scan agrees is a matter of counting: the colons outside strings in
the text are those of the members (`ColonsCover`), and older memory can only add.

For every transaction, cut anywhere, whatever follows it in memory, and every table
of keys and sizes (`KeySearch_proofs`):

- `SearchStaysInside`: `Spec => []OffsetInWindow`
- `SearchTypeCorrect`: `Spec => []SearchTypeOK`

`SearchInv` is the two and that a field is looked for as long as a search goes on.
It rests on one lemma per reader, which ends inside the bytes if it begins there;
for the arrays, whose elements are read one from where the last has ended,
`TimesStay` says so for any reader of elements that does.

- `FieldsFoundInOneWalk`: `Spec => []FoundInOneWalk`

This one compares two algorithms, a walk per field and element and one walk for all.
`OneWalkInv` is what relates them. A search stands at some stop of the walk, with no
key of its field before it (`Standing`): it moves on as the walk does (`WalksOn`), ends
at the first key of that name (`AnswerIsFirst`), or gets stuck where the walk ends
(`StuckIsLast`); the walk has a stop for each only because every reader leaves a byte
behind (`OnwardStays`). Across searches `Progress` holds between what was found, what is
still in `todo` and the counts of the arrays: nothing but what the map says was found,
a field that is asked for is in `todo` or done, and the counts are those of the arrays
behind the first keys. So the elements printed are the elements there are, though
nothing keeps the array between its two readings, and when `todo` is empty all was said
(`AllSaid`). What the readers take for a value, and with it a value that is cut or
malformed, is the same in both; that the bytes mean what their sender meant is
`FoundIsMeaning`.

- `AddressesNameKeys`: `Spec => []AddressNamesKey`
- `AddressesDiffer`: `Spec => []OneTextOneKey`. Two accounts with one text are one.

The last two need `AddressInv` besides: whichever way an account was found, as a field, a
parameter or an element, it has `ACCT_SIZE` bytes. The rest is about `base32_encode`.
The invariant of its loop, `Carry`, counts the bits taken over: those of the bytes
before `next`, or all of them and fewer than five zeros; each is in its place, in the
text or in the buffer, and none in both (`RefillCarries`, `TakeCarries`). A loop that
ends early would have filled the text, so the loop ends with every bit in it
(`Base32KeepsBits`), and the bits tell the bytes apart (`TextIsKey`).

The named assumptions on the constants (`AccountAssumption`, `NameAssumption`,
`DataAssumption`, `MixtureAssumption`, `ApduAssumption`, `CallAssumption`,
`SmallAccountAssumption`, `ArbitraryAssumption`, `PlacesAssumption`, `SearchAssumption`, `AddressAssumption`, `ItemsAssumption`) are evaluated by TLC in the runs of their
modules.

### The conditions of the theorems

Some theorems about the client have hypotheses on its constants; the runs and the
limits of section 3 show that they are needed.

| Condition | Says | Without it |
|---|---|---|
| `TransactionsOnly` (refinement) | no call is a `signData` | the review of a message does not show the bytes to sign, so nothing says they were consented to |
| `OneAtATime` | one call is open at a time, and each asks for its key first | `bare_sign`; another call's path |
| `GroupsAreTaken` | a `signGroup` is for account 0, with none or at least two transactions of it | `group_account`; the call `lone` |
| `Undisrupted` | nothing is lost, abandoned, locked, restarted or toggled, and nothing asked for is unsignable | `stale_group` |
| `SettingOff` | blind signing is off and stays off | `stale_group` |
| `ItemsAreTaken`: `MixturesFail` | the parser accepts no mixture | an abandoned first chunk and a lost one |
| or `FirstChunksArrive` and `CutAreRefused` | no chunk is lost or refused, and where a transaction is whole the parser finds no other | the same; an item that is refused by itself is accepted as another |

An item the device cannot sign ends a batch early, as a lost answer does: so
`Undisrupted` leaves both out. `disturbed` is an instance of `OneAtATime`, and
`concurrent` of `SettingOff`; `alone` goes beyond the theorems by a message in the
refinement and by a `sign` for account 1 that does not ask for its key, and stays
behind them in size.

### What the proofs do without

The induction theorems of the library take an operator as a parameter. What needs
induction is proved from the first counterexample instead (`FirstPosition`, from
`WFMin`): a recursive function exists on every interval because there is no first
one on which it does not (`Walk`, `Times`, the rounds of `base32_encode`), and the fold of a sequence is what it should be because
there is no first prefix for which it is not (`FlattenIsJoin`, the sums of fees).

Only model-checked: `FoundIsMeaning`, `EarlyFieldsAreFound` and `ValidIsAccepted`,
which compare with a meaning given as data: a theorem would need the grammar of
MessagePack as an assumption, as `PlacesAssumption` is that of a message, and since
its values nest, a proof by induction over them that the walk inverts it. Liveness (`AllCallsFinish`, `SearchEnds`) and
whatever needs ENABLED is out of the prover's reach.

## 5. What is not modelled

- base64, decimal points, names of known assets, the `WARNING` before a rekey
  address, and paging: functions of ledger-zxlib, which is not in the
  repository, or tables. A box name that does not fit its page is listed as a
  hazard without a property.
- The depth of the recursion in `_verifyValue`: the model counts the values left
  to walk over, not the stack.
- What is overwritten by an entry outside the arrays of `tx_parsed_json`, or by a
  terminator outside a key's line or `tmpBuf`: that depends on the compiler and the
  linker.
- The bytes inside AlgorandDevice: what the parser finds in an upload is an
  input there, and KeySearch and TxItems say what it depends on.
- `getVersion`, `getAppInfo`, `deviceInfo`, and the hashing in `signData`, which
  change no state shared with anything; the curve arithmetic and SHA-512.
- The hash of the group: which transactions belong together is known to the
  host only.
- The Python script in `cli/`, whose protocol is that of `sign`; tests, fuzzers
  and build files.

## 6. Plan

Done: AlgorandDevice, LedgerClient with SigningService, TxItems, ArbitraryItems,
KeySearch with AddressText, and the proofs above.

What is left, in this order:

1. Device and display together: TxItems driven by the device's group state, so
   that a summary and the reviews before it can be related field by field.
2. The remaining formats, should ledger-zxlib come into the repository.
