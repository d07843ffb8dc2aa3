\* a failing update is not tried again
CONSTANTS
  o1 = o1
  o2 = o2
  o3 = o3
  buy = buy
  sell = sell
  NoTx = NoTx
  Orders = {o1, o2}
  Payload <- TwinPayload
  MaxBlockhash = 2
  Life = 1
  Faults = {"db", "rpc"}
  MaxCrashes = 0
SPECIFICATION Spec
INVARIANTS ErrorMeansFailed
CHECK_DEADLOCK FALSE
