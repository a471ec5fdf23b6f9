------------------------------- MODULE TxItems -------------------------------
(***************************************************************************)
(* What the device shows of a transaction: the parser of                   *)
(* app/src/parser_impl.c, which fills an array with the items to display,  *)
(* and app/src/parser.c, which turns a position on the screen back into    *)
(* the field, and the element of the field, to print.                      *)
(*                                                                         *)
(* An item is a number whose meaning depends on where it stands: the       *)
(* common items come first and are numbered by one enumeration, the items  *)
(* of the transaction type follow and are numbered by another.  An array   *)
(* field has one item per element, all with the same number; which element *)
(* is meant is computed from the position.                                 *)
(*                                                                         *)
(* A transaction is abstracted to which keys it has, which of them hold a  *)
(* value the reader of that key refuses (wrong type or size, out of its    *)
(* range, arguments or programs too long), and how long its arrays are.    *)
(* A refused transaction shows nothing, so what was added of it before the *)
(* refusal is not followed.                                                *)
(***************************************************************************)
EXTENDS TxFields, FiniteSets, SequencesExt

CONSTANTS
    Transactions,    \* the transactions the device is given
    Settings         \* the modes it may be in when it parses one

Transaction == [type : TxTypes \union {"unknown"}, keys : SUBSET Keys,
                unreadable : SUBSET Keys, size : [Arrays -> Nat]]
NoTransaction == [type |-> "unknown", keys |-> {}, unreadable |-> {},
                  size |-> [a \in Arrays |-> 0]]
Setting == [group : BOOLEAN, blindsign : BOOLEAN, skipped : BOOLEAN]

ASSUME ItemsAssumption == Transactions \subseteq Transaction /\ Settings \subseteq Setting

VARIABLES
    tx,                \* the transaction in the upload buffer
    setting,           \* blind-signing mode and group state while it is parsed
    phase,             \* how far tx_parse and the review have come
    itemArray,         \* the items to display
    common_num_items,
    tx_num_items,
    num_items,
    page,              \* displayIdx of the item to be checked or shown next
    seen               \* history: what the screens have shown, in order

vars == <<tx, setting, phase, itemArray, common_num_items, tx_num_items, num_items, page, seen>>

-----------------------------------------------------------------------------
(* Which items are added: the DISPLAY macros.                                *)

InBatch == setting.group /\ setting.blindsign /\ ~setting.skipped

DISPLAY_ITEM == ~InBatch
DISPLAY_APP_ITEM == ~setting.blindsign /\ ~setting.group

\* Mutant: the new owner of the account is skipped with the rest.
DISPLAY_SENDER_ONLY(key) ==
    /\ (tx.type = "appl" /\ setting.blindsign /\ ~setting.group) => key = "snd"
    /\ DISPLAY_ITEM

\* Mutant: the group id is added in a batch, as DISPLAY_COMMON_ITEM seems to say.
DISPLAY_GROUP_ID(key) == InBatch => key = "grp"

DISPLAY_COMMON_ITEM(key) ==
    /\ (tx.type = "appl" /\ setting.blindsign /\ ~setting.group) => key \in {"snd", "rekey"}
    /\ InBatch => key = "grp"
    /\ DISPLAY_ITEM

Has(key) == key \in tx.keys
NumElements(key) == IF ~Has(key) THEN 0 ELSE tx.size[key]

\* A frozen flag that is not a boolean is taken for FALSE.
Readable(field) ==
    /\ field.required => Has(field.key)
    /\ field.key \in tx.unreadable => field.key = "afrz" \/ ~Has(field.key)
    /\ field.key \in Arrays => NumElements(field.key) <= ArrayLimit[field.key]

\* Mutant: one item for an array.
DisplayedOnce(field) == IF Has(field.key) \/ field.always THEN 1 ELSE 0

Displayed(field) ==
    IF field.key \in Arrays THEN NumElements(field.key)
    ELSE IF Has(field.key) \/ field.always THEN 1 ELSE 0

\* The items of fields, in the order they are read, where shown(key) holds.
ItemsOf(fields, enumeration, shown(_)) ==
    FlattenSeq([i \in DOMAIN fields |->
        IF ~shown(fields[i].key) THEN <<>>
        ELSE [j \in 1..Displayed(fields[i]) |-> IDX(enumeration, fields[i].key)]])

TypeFields == FieldsOf(tx.type, tx.keys)

\* Mutant: each array is limited and their sum is not.
NoForeignLimit == TRUE

WithinForeignLimit ==
    tx.type = "appl" =>
        NumElements("apat") + NumElements("apfa") + NumElements("apas") <= ACCT_FOREIGN_LIMIT

-----------------------------------------------------------------------------
(* Printing: from a position on the screen to a field.                       *)

Nothing == [key |-> "none", element |-> 0]
Field(key) == [key |-> key, element |-> 0]
Element(key, i) == [key |-> key, element |-> i]

parser_getNumItems == num_items + (IF InBatch THEN 2 ELSE 0)
tx_getNumItems == IF InBatch THEN 3 ELSE parser_getNumItems

\* There is no case for the first and last valid round.
parser_printCommonParams(idx) ==
    IF idx < IDX(CommonIndex, "fv") THEN Field(CommonIndex[idx + 1]) ELSE Nothing

\* tmpIdx is a uint8_t: below zero it wraps and fails the check of its bound.
ElementOrNothing(key, index, bound) ==
    LET tmpIdx == index % 256 IN IF tmpIdx < bound THEN Element(key, tmpIdx) ELSE Nothing

parser_printTxApplication(displayIdx, key) ==
    LET boxes == NumElements("apbx")
        apps == NumElements("apfa")
        assets == NumElements("apas")
        accounts == NumElements("apat")
        first == displayIdx - IDX_BOXES
    IN  CASE key = "apbx" -> ElementOrNothing(key, first, MAX_FOREIGN_APPS)
          [] key = "apfa" -> ElementOrNothing(key, first - boxes, MAX_FOREIGN_APPS)
          [] key = "apas" -> ElementOrNothing(key, first - boxes - apps, MAX_FOREIGN_ASSETS)
          [] key = "apat" -> ElementOrNothing(key, first - boxes - apps - assets, accounts)
          [] key = "apaa" -> ElementOrNothing(key, first - boxes - apps - assets - accounts,
                                              NumElements("apaa"))
          [] OTHER -> Field(key)

FieldAt(enumeration, idx) ==
    IF idx < Len(enumeration) THEN Field(enumeration[idx + 1]) ELSE Nothing

parser_printTxPayment(idx) == FieldAt(TypeIndex.pay, idx)
parser_printTxKeyreg(idx) == FieldAt(TypeIndex.keyreg, idx)
parser_printTxAssetXfer(idx) == FieldAt(TypeIndex.axfer, idx)
parser_printTxAssetFreeze(idx) == FieldAt(TypeIndex.afrz, idx)
parser_printTxAssetConfig(idx) == FieldAt(TypeIndex.acfg, idx)

parser_printTx(displayIdx, idx) ==
    CASE tx.type = "pay"    -> parser_printTxPayment(idx)
      [] tx.type = "keyreg" -> parser_printTxKeyreg(idx)
      [] tx.type = "axfer"  -> parser_printTxAssetXfer(idx)
      [] tx.type = "afrz"   -> parser_printTxAssetFreeze(idx)
      [] tx.type = "acfg"   -> parser_printTxAssetConfig(idx)
      [] tx.type = "appl"   -> parser_printTxApplication(displayIdx, TypeIndex.appl[idx + 1])

parser_getItem(displayIdx) ==
    IF InBatch /\ displayIdx <= 2 THEN Field(<<"grp", "snd", "max_fees">>[displayIdx + 1])
    ELSE IF common_num_items = 0 \/ displayIdx >= parser_getNumItems THEN Nothing
    ELSE IF displayIdx = 0 THEN Field("type")
    ELSE IF displayIdx > Len(itemArray) THEN Nothing
    ELSE IF displayIdx <= common_num_items THEN parser_printCommonParams(itemArray[displayIdx])
    ELSE IF displayIdx - common_num_items - 1 < tx_num_items
      THEN parser_printTx(displayIdx - common_num_items - 1, itemArray[displayIdx])
    ELSE Nothing

-----------------------------------------------------------------------------
(* Steps.                                                                    *)

Idle == {"boot", "reviewed", "refused", "overflow", "invalid"}

\* Every run of the parser begins by clearing the context and the item array.
parser_parse ==
    /\ phase \in Idle
    /\ tx' \in Transactions
    /\ setting' \in Settings
    /\ itemArray' = <<>>
    /\ common_num_items' = 0
    /\ tx_num_items' = 0
    /\ num_items' = 0
    /\ page' = 0
    /\ seen' = <<>>
    /\ phase' = IF tx'.type = "unknown" THEN "refused" ELSE "common"

\* Adding an item to a full array is an error of the reader.
Add(items) ==
    /\ Len(itemArray) + Len(items) <= MAX_ITEM_ARRAY
    /\ itemArray' = itemArray \o items

Refuse(reason) ==
    /\ phase' = reason
    /\ UNCHANGED <<tx, setting, itemArray, common_num_items, tx_num_items, num_items, page, seen>>

CommonItems == ItemsOf(CommonFields, CommonIndex, DISPLAY_COMMON_ITEM)
CommonReadable == \A f \in ToSet(CommonFields \o ValidityFields) : Readable(f)

readTxCommonParams ==
    /\ phase = "common"
    /\ IF ~CommonReadable THEN Refuse("refused")
       ELSE IF Len(CommonItems) > MAX_ITEM_ARRAY THEN Refuse("overflow")
       ELSE /\ Add(CommonItems)
            /\ common_num_items' = Len(CommonItems)
            /\ phase' = "specific"
            /\ UNCHANGED <<tx, setting, tx_num_items, num_items, page, seen>>

ShownOfType(key) == IF tx.type = "appl" THEN DISPLAY_APP_ITEM ELSE DISPLAY_ITEM
TypeItems == ItemsOf(TypeFields, TypeIndex[tx.type], ShownOfType)
TypeReadable ==
    /\ WithinForeignLimit
    /\ tx.type = "acfg" /\ Has("apar") => "apar" \notin tx.unreadable
    /\ \A f \in ToSet(TypeFields) : Readable(f)

readTxOfType ==
    /\ phase = "specific"
    /\ IF ~TypeReadable THEN Refuse("refused")
       ELSE IF Len(itemArray \o TypeItems) > MAX_ITEM_ARRAY THEN Refuse("overflow")
       ELSE /\ Add(TypeItems)
            /\ tx_num_items' = Len(TypeItems)
            /\ num_items' = common_num_items + Len(TypeItems) + 1
            /\ phase' = "validate"
            /\ UNCHANGED <<tx, setting, common_num_items, page, seen>>

\* parser_validate prints every item once, before the review begins.
parser_validate ==
    /\ phase = "validate"
    /\ IF page = parser_getNumItems THEN phase' = "show" /\ page' = 0
       ELSE IF parser_getItem(page) = Nothing THEN phase' = "invalid" /\ UNCHANGED page
       ELSE page' = page + 1 /\ UNCHANGED phase
    /\ UNCHANGED <<tx, setting, itemArray, common_num_items, tx_num_items, num_items, seen>>

\* The user turns to the next screen of the review.
tx_getItem ==
    /\ phase = "show"
    /\ IF page = tx_getNumItems
         THEN phase' = "reviewed" /\ UNCHANGED <<page, seen>>
         ELSE /\ seen' = Append(seen, parser_getItem(page))
              /\ page' = page + 1
              /\ UNCHANGED phase
    /\ UNCHANGED <<tx, setting, itemArray, common_num_items, tx_num_items, num_items>>

Init ==
    /\ tx = NoTransaction
    /\ setting = [group |-> FALSE, blindsign |-> FALSE, skipped |-> FALSE]
    /\ phase = "boot"
    /\ itemArray = <<>>
    /\ common_num_items = 0 /\ tx_num_items = 0 /\ num_items = 0
    /\ page = 0
    /\ seen = <<>>

Next ==
    \/ parser_parse
    \/ readTxCommonParams
    \/ readTxOfType
    \/ parser_validate
    \/ tx_getItem

Spec == Init /\ [][Next]_vars

-----------------------------------------------------------------------------
(* Properties.                                                               *)

Phases == Idle \union {"common", "specific", "validate", "show"}
Shown == {Field(k) : k \in Keys \union {"type", "max_fees"}} \union {Nothing}
            \union {Element(k, i) : k \in Arrays, i \in 0..255}

\* Every variable keeps its type.
ItemsTypeOK ==
    /\ tx \in Transactions \union {NoTransaction}
    /\ setting \in Setting
    /\ phase \in Phases
    /\ itemArray \in Seq(0..11)
    /\ Len(itemArray) <= MAX_ITEM_ARRAY
    /\ common_num_items \in Nat /\ tx_num_items \in Nat /\ num_items \in 0..255
    /\ page \in 0..num_items + 2
    /\ seen \in Seq(Shown)

\* What a transaction has to show: each field it has, or has a default for, and
\* each element of its arrays.  Without "votefst" the code takes no notice of
\* "votelst", and asset parameters stand in the map "apar".
HasToShow(key) ==
    /\ Has(key) \/ Always(key) \in ToSet(CommonFields \o TypeFields)
    /\ key = "votelst" => Has("votefst")
    /\ key \in ToSet(TypeIndex.acfg) \ {"caid"} => Has("apar")

FieldsToShow(keys) ==
    {Field(k) : k \in {key \in keys \ Arrays : HasToShow(key)}}
    \union UNION {{Element(k, i) : i \in 0..(NumElements(k) - 1)} : k \in keys \intersect Arrays}

DisplayedCommon == ToSet(CommonIndex) \ {"fv", "lv"}

\* Outside a batch, and except for the fields of application calls, what the user
\* has paged through is every field of the transaction, each exactly once.  It
\* takes the order of reads, the two counters, the position arithmetic of
\* parser_getItem and the numbering of the enumerations to agree.
EveryFieldShownOnce ==
    phase = "reviewed" /\ ~InBatch /\ (tx.type = "appl" => DISPLAY_APP_ITEM) =>
        LET fields == FieldsToShow(DisplayedCommon \union ToSet(TypeIndex[tx.type]))
        IN  /\ ToSet(seen) = fields \union {Field("type")}
            /\ Len(seen) = Cardinality(fields) + 1

\* Whatever is skipped, a review outside a batch shows who sends the transaction
\* and, if the account is rekeyed by it, to whom (parser_impl.c:56-59).
SenderAndRekeyShown ==
    phase = "reviewed" /\ ~InBatch =>
        FieldsToShow({"snd", "rekey"}) \subseteq ToSet(seen)

\* A transaction the readers accept is never lost afterwards: the item array holds
\* the longest of them (apat, apfa and apas share a limit, each array has its own,
\* parser_impl.c:31 reserves 50), and every item counted can be printed, in a
\* batch too, where three screens stand for items that were never added.
AcceptedIsShowable ==
    /\ phase \notin {"overflow", "invalid"}
    /\ phase = "show" /\ page < tx_getNumItems => parser_getItem(page) # Nothing

\* tx_getNumItems returns the constant 3 for a batch and parser_getNumItems what
\* the macros counted and 2: they agree because no item at all is added in a batch.
BatchCountsAgree == phase \in {"validate", "show"} => tx_getNumItems = parser_getNumItems

=============================================================================
