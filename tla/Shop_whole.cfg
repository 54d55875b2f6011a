SPECIFICATION FairSpec
CONSTANTS
  o1 = o1
  o2 = o2
  g = g
  Orders <- TwoOrders
  Invalid = {}
  Recorded <- TwoOrders
  Answerers <- OwnProducer
  Faults <- ShopFaults
  Malformed = Malformed
  Invocations = {i1}
  Batches <- MCBatches
  MaxAttempts = 2
  UpdateMayFail = TRUE
  MaxFaults = 1
  Goods = {g}
  InitialNum <- MCInitialNum
  Wants <- MCWants
INVARIANTS
  TypeOK
  ReturnHasCause
PROPERTIES
  SaleIsFinal
  BookSpec
  
