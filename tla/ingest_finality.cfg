\* one worker per channel, RPC and database faults, one restart
CONSTANTS
  MaxSlot = 3
  Produced <- SkipProduced
  BlockPrice <- OwnPrice
  Parent <- ChainParent
  Undecodable = {3}
  RealWorkers = {r1}
  ErrorWorkers = {e1}
  RealCap = 2
  ErrorCap = 1
  StartBlock = 0
  Window = 1
  Limit = 2
  Faults = {"rpc", "db"}
  MaxCrashes = 1
SPECIFICATION Spec
INVARIANTS TypeOK OneHandler SlotOwnership
PROPERTIES FinalStatus LedgerSpec
