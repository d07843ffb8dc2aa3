\* one call of each calculation; a run ends when the call is answered
CONSTANTS
  Sol = "sol"
  Stables = {"usd", "usdt"}
  Infinite = 100
  Addresses = {"a", "b", "c"}
  Names = {"PumpFun", "RaydiumV4", "RaydiumConcentratedLiquidity"}
  GasPerSignature = 2
  Micro = 10
  Width = 1000000
  FeeBase = 100
  PumpFee = 1
  AllBp = 10
  Shift = 2
  Accounts <- SmallAccounts
  Calls <- SmallCalls
  SwapBlocks <- SwapTxs
  PriceLists <- SmallPriceLists
  Histories <- SmallHistories
  TradeTxs <- SmallTradeTxs
  RowSets <- SmallRowSets
  Orders <- SmallOrders
  WrappedSol = 2
  TenTo9 = 3
  ArraySize = 2
  Fraction = 2
  Log <- SmallLog
  Positions <- SmallPositions
SPECIFICATION Spec
INVARIANTS
  PriceOfFirstSwap
  PriceWithinOneCall
  OutlierHarmless
  
  OwnEventInStep
  EventUsedOnce
  LookupIsDeepest
  GasWithinBudget
  DexAffordable
  
  PositionSides
  SolWrapped
  TicksInArrays
CHECK_DEADLOCK FALSE
