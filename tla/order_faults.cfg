\* two equal requests, every fault, one crash
CONSTANTS
  o1 = o1
  o2 = o2
  o3 = o3
  buy = buy
  sell = sell
  NoTx = NoTx
  Orders = {o1, o2}
  Payload <- TwinPayload
  MaxBlockhash = 3
  Life = 1
  Faults = {"db", "rpc", "lost", "slippage", "long", "panic"}
  MaxCrashes = 1
SPECIFICATION Spec
INVARIANTS TypeOK LogFollowsOrder NothingUnrecorded  
 
CHECK_DEADLOCK FALSE
