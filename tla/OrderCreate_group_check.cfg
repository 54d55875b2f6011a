SPECIFICATION Spec
CONSTANTS
  o1 = o1
  o2 = o2
  Orders <- TwoOrders
  Invalid = {}
  Recorded <- TwoOrders
  Answerers <- AnyProducer
  Faults <- LostEndFaults
INVARIANT ReleasedMeansNoOrder
