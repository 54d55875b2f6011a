SPECIFICATION FairSpec
CONSTANTS
  o1 = o1
  o2 = o2
  Orders <- TwoOrders
  Invalid = {}
  Recorded <- TwoOrders
  Answerers <- OwnProducer
  Faults <- LiveFaults
PROPERTIES
  
  HalfResolved
