\* requests run to their end; no crash and no database fault
CONSTANTS
  o1 = o1
  o2 = o2
  o3 = o3
  buy = buy
  sell = sell
  NoTx = NoTx
  Orders = {o1, o2, o3}
  Payload <- TwinPayload
  MaxBlockhash = 2
  Life = 0
  Faults = {"rpc", "lost", "slippage"}
  MaxCrashes = 0
SPECIFICATION FairSpec
PROPERTIES Settled
CHECK_DEADLOCK FALSE
