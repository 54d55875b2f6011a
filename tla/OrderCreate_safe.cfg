SPECIFICATION Spec
CONSTANTS
  o1 = o1
  o2 = o2
  Orders <- TwoOrders
  Invalid = {}
  Recorded <- TwoOrders
  Answerers <- OwnProducer
  Faults <- SafeFaults
INVARIANTS
  TypeOK
  OkMeansComplete
  ErrMeansNoOrder
  ReleasedMeansNoOrder
