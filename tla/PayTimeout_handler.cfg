SPECIFICATION FairSpec
CONSTANTS
  o1 = o1
  o2 = o2
  i1 = i1
  i2 = i2
  i3 = i3
  Malformed = Malformed
  Orders = {o1, o2}
  Invocations = {i1, i2, i3}
  Batches <- MCBatches
  MaxAttempts = 2
  SendTopic = "platform_pay_timeout"
  SubscribedTopic = "platform_pay_timeout"
  UpdateMayFail = TRUE
  MaxFaults = 2
INVARIANTS
  TypeOK
  ClosedMeansReleased
PROPERTIES
  PaidIsFinal
  OrdersSettle
