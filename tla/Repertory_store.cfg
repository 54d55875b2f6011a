SPECIFICATION Spec
CONSTANTS
  Goods <- MCGoods
  Stocked <- MCStocked
  InitialNum <- MCInitialNum
  InitialLock <- MCInitialLock
  Nobody = Nobody
  Calls = {c1, c2}
  Requests <- ReduceRequests
  Deliveries = {d1, d2}
  Messages <- MCMessages
  Recorded <- MCRecorded
  MaxTries = 2
  HoldersMayStall = FALSE
SYMMETRY WorkerSymmetry
INVARIANTS
  TypeOK
  MutualExclusion
  StockConserved
  NoOversell
PROPERTY LedgerSpec
