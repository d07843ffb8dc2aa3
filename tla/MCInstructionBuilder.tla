-------------------------- MODULE MCInstructionBuilder --------------------------
(* Every instruction and record of the two clients for the model checker.  *)
EXTENDS InstructionBuilder, TokenInstructions, PumpInstructions, TLC

Records == [Mint |-> Mint, Account |-> Account, Global |-> Global, BondingCurve |-> BondingCurve]
RecordTypeID == [Mint |-> 0, Account |-> 0, Global |-> 167, BondingCurve |-> 23]

AllLayouts == TokenKinds @@ PumpKinds @@ Records
AllKinds == DOMAIN AllLayouts
AllTypeIDs == TokenTypeID @@ PumpTypeID @@ RecordTypeID
AllVariants ==
  [token |-> [id \in 0..20 |-> TokenImplDef[id + 1]],
   pump |-> [id \in {PumpTypeID[k] : k \in DOMAIN PumpTypeID} |-> PumpImplDef(id)],
   mint |-> 0 :> "Mint",
   account |-> 0 :> "Account",
   global |-> 167 :> "Global",
   curve |-> 23 :> "BondingCurve"]

(* No signer, one, two: two calls of AddSigners pass MAX_SIGNERS.          *)
SmallLists == {<<>>, <<"s1">>, <<"s1", "s2">>}
=============================================================================
