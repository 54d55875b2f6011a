SPECIFICATION Spec
CONSTANTS
  Goods <- MCGoods
  Stocked <- MCStocked
  InitialNum <- MCInitialNum
  InitialLock <- MCInitialLock
  Nobody = Nobody
  Calls = {c1}
  Requests <- FewRequests
  Deliveries = {d1}
  Messages <- SharedMessages
  Recorded <- SharedMessages
  MaxTries = 2
  HoldersMayStall = FALSE
INVARIANT StockConserved
