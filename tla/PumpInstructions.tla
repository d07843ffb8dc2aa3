---------------------------- MODULE PumpInstructions ----------------------------
(***************************************************************************)
(* The instructions of the PumpFun client                                  *)
(* (src/pkg/pumpfun/pump/idl/generated/pump) and the two states it reads.  *)
(* A type is named by the eight bytes that stand for it.                   *)
(***************************************************************************)
EXTENDS WireRows

Initialize == Plain("pump", <<>>, <<"w", "ws", "r">>)

SetParamsFields ==
  <<Pointer("key"), Pointer("u64"), Pointer("u64"), Pointer("u64"), Pointer("u64"),
    Pointer("u64")>>
SetParams == Plain("pump", SetParamsFields, <<"w", "ws", "r", "r", "r">>)

CreateFields == <<Pointer("string"), Pointer("string"), Pointer("string")>>
Create ==
  Plain("pump", CreateFields,
        <<"ws", "r", "w", "w", "r", "r", "w", "ws", "r", "r", "r", "r", "r", "r">>)

BuyFields == <<Pointer("u64"), Pointer("u64")>>
Buy == Plain("pump", BuyFields, <<"r", "w", "r", "w", "w", "w", "ws", "r", "r", "r", "r", "r">>)

SellFields == <<Pointer("u64"), Pointer("u64")>>
Sell == Plain("pump", SellFields, <<"r", "w", "r", "w", "w", "w", "ws", "r", "r", "r", "r", "r">>)

Withdraw == Plain("pump", <<>>, <<"r", "r", "w", "w", "w", "ws", "r", "r", "r", "r", "r">>)

PumpKinds ==
  [Initialize |-> Initialize, SetParams |-> SetParams, Create |-> Create, Buy |-> Buy,
   Sell |-> Sell, Withdraw |-> Withdraw]

(* The discriminators that Build writes first, by their first byte: no two *)
(* of them share it.                                                       *)
PumpTypeID ==
  [Initialize |-> 175, SetParams |-> 27, Create |-> 24, Buy |-> 102, Sell |-> 51,
   Withdraw |-> 183]

(* The decoder hashes the names of its list ("global:buy") and looks the   *)
(* eight bytes up: sha256 gives the values of PumpTypeID.                  *)
PumpImplDef(id) ==
  CASE id = 175 -> "Initialize" [] id = 27 -> "SetParams" [] id = 24 -> "Create"
    [] id = 102 -> "Buy" [] id = 51 -> "Sell" [] id = 183 -> "Withdraw"

-----------------------------------------------------------------------------
(* The states the program keeps; the decoder refuses another discriminator.*)
Global ==
  Plain("global", <<Value("bool"), Value("key"), Value("key"), Value("u64"), Value("u64"),
                    Value("u64"), Value("u64"), Value("u64")>>, <<>>)
BondingCurve ==
  Plain("curve", <<Value("u64"), Value("u64"), Value("u64"), Value("u64"), Value("u64"),
                   Value("bool")>>, <<>>)
=============================================================================
