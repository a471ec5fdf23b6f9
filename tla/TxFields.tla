------------------------------- MODULE TxFields -------------------------------
(***************************************************************************)
(* The fields of a transaction: their keys and limits (parser_txdef.h) and *)
(* the order in which app/src/parser_impl.c looks for them.                *)
(***************************************************************************)
EXTENDS Integers, Sequences, SequencesExt

MAX_ITEM_ARRAY == 50
MAX_ACCT == 4
ACCT_FOREIGN_LIMIT == 8
MAX_ARG == 16
MAX_FOREIGN_APPS == 8
MAX_FOREIGN_ASSETS == 8

\* The enumerations of parser_txdef.h, as the keys the numbers stand for.
CommonIndex == <<"snd", "lx", "fee", "gh", "gen", "note", "grp", "rekey", "fv", "lv">>
TypeIndex ==
    [pay    |-> <<"rcv", "amt", "close">>,
     keyreg |-> <<"votekey", "selkey", "sprfkey", "votefst", "votelst", "votekd", "nonpart">>,
     axfer  |-> <<"xaid", "aamt", "arcv", "asnd", "aclose">>,
     afrz   |-> <<"faid", "fadd", "afrz">>,
     acfg   |-> <<"caid", "t", "df", "un", "dc", "an", "au", "am", "m", "r", "f", "c">>,
     appl   |-> <<"apid", "apan", "apbx", "apfa", "apas", "apat", "apaa",
                  "apgs", "apls", "apep", "apap", "apsu">>]

TxTypes == DOMAIN TypeIndex

\* Mutant: numbered from one.
IDXFromOne(enumeration, key) == CHOOSE i \in DOMAIN enumeration : enumeration[i] = key

IDX(enumeration, key) == (CHOOSE i \in DOMAIN enumeration : enumeration[i] = key) - 1
IDX_BOXES == IDX(TypeIndex.appl, "apbx")

ArrayLimit == [apbx |-> MAX_FOREIGN_APPS, apfa |-> MAX_FOREIGN_APPS,
               apas |-> MAX_FOREIGN_ASSETS, apat |-> MAX_ACCT, apaa |-> MAX_ARG]
Arrays == DOMAIN ArrayLimit

Keys == ToSet(CommonIndex) \union (UNION {ToSet(TypeIndex[t]) : t \in TxTypes}) \union {"apar"}

\* A field to read: it may have to be there; it may be displayed if it is not.
Required(key) == [key |-> key, required |-> TRUE,  always |-> FALSE]
Optional(key) == [key |-> key, required |-> FALSE, always |-> FALSE]
Always(key)   == [key |-> key, required |-> FALSE, always |-> TRUE]

-----------------------------------------------------------------------------
(* The fields, in the order the code reads them.                             *)

CommonFields ==
    <<Required("snd"), Optional("lx"), Optional("rekey"), Always("fee"), Optional("gen"),
      Required("gh"), Optional("grp"), Optional("note")>>

\* Read, checked and never displayed.
ValidityFields == <<Required("fv"), Required("lv")>>

PaymentFields == <<Required("rcv"), Always("amt"), Optional("close")>>

\* The last voting round is only looked for after a first one.
KeyregFields(keys) ==
    <<Optional("votekey"), Optional("selkey"), Optional("sprfkey"), Optional("votefst")>>
    \o (IF "votefst" \in keys THEN <<Required("votelst")>> ELSE <<>>)
    \o <<Optional("votekd"), Always("nonpart")>>

AssetXferFields ==
    <<Required("xaid"), Always("aamt"), Required("arcv"), Optional("asnd"), Optional("aclose")>>

AssetFreezeFields == <<Required("faid"), Required("fadd"), Always("afrz")>>

\* Read in any order, added in the order of the enumeration.
AssetParams == [i \in 1..(Len(TypeIndex.acfg) - 1) |-> Optional(TypeIndex.acfg[i + 1])]
AssetConfigFields(keys) ==
    <<Optional("caid")>> \o (IF "apar" \in keys THEN AssetParams ELSE <<>>)

ApplicationFields ==
    <<Always("apid"), Always("apan"), Optional("apbx"), Optional("apfa"), Optional("apas"),
      Optional("apat"), Optional("apaa"), Optional("apgs"), Optional("apls"),
      Optional("apep"), Optional("apap"), Optional("apsu")>>

\* The fields of a transaction of this type that has these keys.
FieldsOf(type, keys) ==
    CASE type = "pay"    -> PaymentFields
      [] type = "keyreg" -> KeyregFields(keys)
      [] type = "axfer"  -> AssetXferFields
      [] type = "afrz"   -> AssetFreezeFields
      [] type = "acfg"   -> AssetConfigFields(keys)
      [] type = "appl"   -> ApplicationFields

===============================================================================
