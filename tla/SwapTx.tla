------------------------------- MODULE SwapTx -------------------------------
(***************************************************************************)
(* Building the transaction of a market order (txManager.go, pump.go,      *)
(* gas.go): the fees, the check of the wallet's balance, the instructions, *)
(* and the least output the trader accepts (pkg/trade, pkg/pumpfun).       *)
(* Amounts are lamports or units of the token; an order trades SOL against *)
(* a token.                                                                *)
(***************************************************************************)
LOCAL INSTANCE Integers
LOCAL INSTANCE Sequences

CONSTANTS
  GasPerSignature,   \* what the chain charges for a signature: 5000
  Micro,             \* micro-lamports in a lamport: 1000000
  Width,             \* an unsigned word wraps at this value: 2^64
  FeeBase,           \* denominator of a fee rate: 1000000
  PumpFee,           \* the fee of PumpFun: 10000 of FeeBase
  AllBp,             \* denominator of the slippage: 10000
  Shift              \* the correction of an output by price: 1000

ASSUME SwapAssumption ==
  /\ {GasPerSignature, PumpFee} \subseteq Nat
  /\ {Micro, Width, FeeBase, AllBp, Shift} \subseteq Nat \ {0}

Pools == {"RaydiumV4", "RaydiumConcentratedLiquidity", "RaydiumCPMM", "PumpSwap", "PumpFun"}

Refused(why) == [err |-> why, ixs |-> <<>>]
Built(ixs) == [err |-> "nil", ixs |-> ixs]
Ix(op, amount) == [op |-> op, amount |-> amount]

-----------------------------------------------------------------------------
(* Fees.                                                                   *)

(* Mutant: the fee of the signature is not taken off the budget.           *)
WholeBudget(gasFee, cu) == ((gasFee * Micro) % Width) \div cu

(* Micro-lamports per compute unit for the budget of the gas type.         *)
GasPrice(gasFee, cu) == (((gasFee - GasPerSignature) * Micro) % Width) \div cu

CreateGasAndJitoByGasFee(gasFee, cu) ==
  IF GasPrice(gasFee, cu) = 0 THEN <<>>
  ELSE <<Ix("unit price", GasPrice(gasFee, cu)), Ix("unit limit", cu)>>

(* The chain rounds the priority fee up to a lamport.                      *)
Charged(price, cu) == GasPerSignature + (price * cu + Micro - 1) \div Micro

ServiceFee(amount) == amount \div 100

-----------------------------------------------------------------------------
(* Orders on an exchange other than PumpFun.                               *)

(* Mutant: the cost leaves out the amount, as it does for PumpFun.         *)
CostWithoutAmount(in) ==
  2 * in.rent + in.gasFee + (IF in.side = "buy" THEN ServiceFee(in.amount) ELSE 0)

(* Two token accounts, gas, and for a buy the amount and the service fee.  *)
LamportCost(in) ==
  2 * in.rent + in.gasFee
    + (IF in.side = "buy" THEN ServiceFee(in.amount) + in.amount ELSE 0)

(* The place of the swap holds the instruction built last, the creation of *)
(* the output account; the output is 0, so its account stays open.         *)
DexInstructions(in) ==
  CreateGasAndJitoByGasFee(in.gasFee, in.cu)
    \o <<Ix("create input account", 0)>>
    \o (IF in.side = "buy"
        THEN <<Ix("transfer", in.amount), Ix("sync native", 0)>> ELSE <<>>)
    \o <<Ix("create output account", 0), Ix("create output account", 0)>>
    \o (IF in.side = "buy" THEN <<Ix("close input account", 0)>> ELSE <<>>)

CreateMarketOrderDex(in) ==
  IF in.side = "buy" /\ in.balance < in.amount THEN Refused("SolBalanceNotEnough")
  ELSE IF LamportCost(in) > in.balance THEN Refused("SolGasNotEnough")
  ELSE IF in.pool = "RaydiumV4" THEN Refused("not support")
  ELSE Built(DexInstructions(in))

-----------------------------------------------------------------------------
(* Orders on PumpFun: by the price of the pair if there is one, else by    *)
(* the bonding curve.                                                      *)

(* What is left of an amount after slippage, rounded down; computed in     *)
(* floating point, it may come out one less.                               *)
Slipped(amount, slippage, error) ==
  LET exact == (amount * (AllBp - slippage)) \div AllBp
  IN IF error > exact THEN 0 ELSE exact - error

(* Mutant: the new reserve is rounded up.                                  *)
RoundedUp(x, y, added) == (x * y + (x + added) - 1) \div (x + added)

(* The reserve that keeps the product of the reserves, rounded down.       *)
NewReserve(x, y, added) == (x * y) \div (x + added)

(* Output for an amount added to the reserve x of a curve.                 *)
CurveQuote(x, y, added) == y - NewReserve(x, y, added)

(* At the price p.num/p.den of the pair, less the fee and the slippage;    *)
(* both sides are taken to have 9 decimals.                                *)
MinByPrice(amount, slippage, isBuy, p) ==
  LET net == amount * (FeeBase - PumpFee) * (AllBp - slippage) IN
  IF slippage > AllBp THEN 0
  ELSE IF isBuy THEN (net * p.den) \div (FeeBase * p.num * AllBp * Shift)
  ELSE (net * p.num) \div (FeeBase * p.den * AllBp * Shift)

MinOut(in) ==
  LET isBuy == in.side = "buy" IN
  IF in.price.num # 0 THEN MinByPrice(in.amount, in.slippage, isBuy, in.price)
  ELSE Slipped(IF isBuy THEN CurveQuote(in.curve.sol, in.curve.token, in.amount)
               ELSE CurveQuote(in.curve.token, in.curve.sol, in.amount),
               in.slippage, in.error)

(* The cost of an order on PumpFun: the amount is not in it.               *)
PumpCost(in) ==
  in.rent + in.gasFee + (IF in.side = "buy" THEN ServiceFee(in.amount) ELSE 0)

CreateMarketOrder4Pumpfun(in) ==
  LET start == CreateGasAndJitoByGasFee(in.gasFee, in.cu)
                 \o <<Ix("create token account", 0)>>
  IN IF in.side = "buy" /\ in.balance < in.amount THEN Refused("SolBalanceNotEnough")
     ELSE IF PumpCost(in) > in.balance THEN Refused("SolGasNotEnough")
     ELSE IF in.side = "buy" /\ (in.amount = 0 \/ MinOut(in) = 0)
     THEN Refused("nothing to buy")
     ELSE Built(start \o <<[op |-> in.side, amount |-> in.amount, min |-> MinOut(in)]>>)

-----------------------------------------------------------------------------
(* A pool without instructions makes no transaction.                       *)
BuildUnsignedTransaction(in) ==
  IF in.pool = "PumpFun" THEN CreateMarketOrder4Pumpfun(in)
  ELSE IF in.pool \in {"RaydiumV4", "RaydiumConcentratedLiquidity", "RaydiumCPMM"}
  THEN CreateMarketOrderDex(in)
  ELSE Refused("no instructions")
=============================================================================
