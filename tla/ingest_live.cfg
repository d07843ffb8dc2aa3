\* two realtime workers and a retry worker under fair scheduling; no crash,
\* no database fault, and a block that shows no price
CONSTANTS
  MaxSlot = 3
  Produced <- AllProduced
  BlockPrice <- SecondUnpriced
  Parent <- ChainParent
  Undecodable = {}
  RealWorkers = {r1, r2}
  ErrorWorkers = {e1}
  RealCap = 1
  ErrorCap = 1
  StartBlock = 2
  Window = 1
  Limit = 2
  Faults = {"rpc"}
  MaxCrashes = 0
SPECIFICATION FairSpec
INVARIANTS NoSlotDropped TradesFollow 
PROPERTIES DeliveredIsRecorded RetryHeals
