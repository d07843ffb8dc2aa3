\* Concurrency 2: two workers on errorCh
CONSTANTS
  MaxSlot = 2
  Produced <- AllProduced
  BlockPrice <- OwnPrice
  Parent <- ChainParent
  Undecodable = {}
  RealWorkers = {r1, r2}
  ErrorWorkers = {e1, e2}
  RealCap = 1
  ErrorCap = 1
  StartBlock = 0
  Window = 1
  Limit = 2
  Faults = {"rpc"}
  MaxCrashes = 1
SPECIFICATION Spec
PROPERTIES FinalStatus
