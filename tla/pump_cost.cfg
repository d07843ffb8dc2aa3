\* market orders only
CONSTANTS
  Sol = "sol"
  Stables = {"usd", "usdt"}
  Infinite = 100
  Addresses = {"a", "b", "c"}
  Names = {"PumpFun", "RaydiumV4", "RaydiumConcentratedLiquidity"}
  GasPerSignature = 2
  Micro = 10
  Width = 1000000
  FeeBase = 100
  PumpFee = 1
  AllBp = 10
  Shift = 2
  Accounts <- SmallAccounts
  Calls = {}
  SwapBlocks = {}
  PriceLists = {}
  Histories = {}
  TradeTxs = {}
  RowSets = {}
  Orders <- SmallOrders
  WrappedSol = 2
  TenTo9 = 3
  ArraySize = 2
  Fraction = 2
  Log <- SmallLog
  Positions = {}
SPECIFICATION Spec
INVARIANTS PumpAffordable
CHECK_DEADLOCK FALSE
