--------------------------- MODULE TokenInstructions ---------------------------
(***************************************************************************)
(* The instructions of the Token-2022 client (src/pkg/sol/token2022_new)   *)
(* and the two states it reads and writes.  One row of fields (struct,     *)
(* setters of parameters, MarshalWithEncoder, UnmarshalWithDecoder) and    *)
(* one row of accounts (account setters, Validate, GetAccounts and         *)
(* SetAccounts) for each.                                                  *)
(***************************************************************************)
EXTENDS WireRows

TransferFields == <<Pointer("u64")>>
Transfer == Owned("token", TransferFields, <<"w", "w", "owner">>)

ApproveFields == <<Pointer("u64")>>
Approve == Owned("token", ApproveFields, <<"w", "r", "owner">>)

Revoke == Owned("token", <<>>, <<"w", "owner">>)

SetAuthorityFields == <<Pointer("u8"), Flag("key")>>
SetAuthority == Owned("token", SetAuthorityFields, <<"w", "owner">>)

MintToFields == <<Pointer("u64")>>
MintTo == Owned("token", MintToFields, <<"w", "w", "owner">>)

BurnFields == <<Pointer("u64")>>
Burn == Owned("token", BurnFields, <<"w", "w", "owner">>)

CloseAccount == Owned("token", <<>>, <<"w", "w", "owner">>)
FreezeAccount == Owned("token", <<>>, <<"w", "r", "owner">>)
ThawAccount == Owned("token", <<>>, <<"w", "r", "owner">>)

TransferCheckedFields == <<Pointer("u64"), Pointer("u8")>>
TransferChecked == Owned("token", TransferCheckedFields, <<"w", "r", "w", "owner">>)

ApproveCheckedFields == <<Pointer("u64"), Pointer("u8")>>
ApproveChecked == Owned("token", ApproveCheckedFields, <<"w", "r", "r", "owner">>)

MintToCheckedFields == <<Pointer("u64"), Pointer("u8")>>
MintToChecked == Owned("token", MintToCheckedFields, <<"w", "w", "owner">>)

BurnCheckedFields == <<Pointer("u64"), Pointer("u8")>>
BurnChecked == Owned("token", BurnCheckedFields, <<"w", "w", "owner">>)

InitializeMintFields == <<Pointer("u8"), Pointer("key"), Flag("key")>>
InitializeMint == Plain("token", InitializeMintFields, <<"w", "rent">>)

InitializeMint2Fields == <<Pointer("u8"), Pointer("key"), Flag("key")>>
InitializeMint2 == Plain("token", InitializeMint2Fields, <<"w">>)

InitializeAccount == Plain("token", <<>>, <<"w", "r", "r", "rent">>)

InitializeAccount2Fields == <<Pointer("key")>>
InitializeAccount2 == Plain("token", InitializeAccount2Fields, <<"w", "r", "rent">>)

InitializeAccount3Fields == <<Pointer("key")>>
InitializeAccount3 == Plain("token", InitializeAccount3Fields, <<"w", "r">>)

InitializeMultisigFields == <<Pointer("u8")>>
InitializeMultisig == Listed("token", InitializeMultisigFields, <<"w", "rent">>)

InitializeMultisig2Fields == <<Pointer("u8")>>
InitializeMultisig2 == Listed("token", InitializeMultisig2Fields, <<"w">>)

SyncNative == Plain("token", <<>>, <<"w">>)

TokenKinds ==
  [Transfer |-> Transfer, Approve |-> Approve, Revoke |-> Revoke,
   SetAuthority |-> SetAuthority, MintTo |-> MintTo, Burn |-> Burn,
   CloseAccount |-> CloseAccount, FreezeAccount |-> FreezeAccount,
   ThawAccount |-> ThawAccount, TransferChecked |-> TransferChecked,
   ApproveChecked |-> ApproveChecked, MintToChecked |-> MintToChecked,
   BurnChecked |-> BurnChecked, InitializeMint |-> InitializeMint,
   InitializeMint2 |-> InitializeMint2, InitializeAccount |-> InitializeAccount,
   InitializeAccount2 |-> InitializeAccount2, InitializeAccount3 |-> InitializeAccount3,
   InitializeMultisig |-> InitializeMultisig, InitializeMultisig2 |-> InitializeMultisig2,
   SyncNative |-> SyncNative]

(* What Build writes first: the constants counted up by iota.              *)
TokenTypeID ==
  [InitializeMint |-> 0, InitializeAccount |-> 1, InitializeMultisig |-> 2, Transfer |-> 3,
   Approve |-> 4, Revoke |-> 5, SetAuthority |-> 6, MintTo |-> 7, Burn |-> 8,
   CloseAccount |-> 9, FreezeAccount |-> 10, ThawAccount |-> 11, TransferChecked |-> 12,
   ApproveChecked |-> 13, MintToChecked |-> 14, BurnChecked |-> 15,
   InitializeAccount2 |-> 16, SyncNative |-> 17, InitializeAccount3 |-> 18,
   InitializeMultisig2 |-> 19, InitializeMint2 |-> 20]

(* What the decoder makes of it: the list is indexed by the type.          *)
TokenImplDef ==
  <<"InitializeMint", "InitializeAccount", "InitializeMultisig", "Transfer", "Approve",
    "Revoke", "SetAuthority", "MintTo", "Burn", "CloseAccount", "FreezeAccount",
    "ThawAccount", "TransferChecked", "ApproveChecked", "MintToChecked", "BurnChecked",
    "InitializeAccount2", "SyncNative", "InitializeAccount3", "InitializeMultisig2",
    "InitializeMint2">>

-----------------------------------------------------------------------------
(* The states a mint and a token account have on the chain.                *)
Mint ==
  Plain("mint", <<Tag("key"), Value("u64"), Value("u8"), Value("bool"), Tag("key")>>, <<>>)
Account ==
  Plain("account", <<Value("key"), Value("key"), Value("u64"), Tag("key"), Value("u8"),
                     Tag("u64"), Value("u64"), Tag("key")>>, <<>>)
=============================================================================
