\* the retry service returns when nothing has failed yet
CONSTANTS
  MaxSlot = 2
  Produced <- AllProduced
  BlockPrice <- OwnPrice
  Parent <- ChainParent
  Undecodable = {}
  RealWorkers = {r1}
  ErrorWorkers = {e1}
  RealCap = 1
  ErrorCap = 1
  StartBlock = 0
  Window = 1
  Limit = 2
  Faults = {"rpc"}
  MaxCrashes = 0
SPECIFICATION FairSpec
PROPERTIES FailedIsRetried
