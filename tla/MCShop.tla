-------------------------------- MODULE MCShop --------------------------------
(***************************************************************************)
(* Instances of Shop for TLC.                                              *)
(***************************************************************************)
EXTENDS Shop

CONSTANTS o1, o2, g

TwoOrders == {o1, o2}

OwnProducer == [o \in Orders |-> {o}]

\* The handler gets the first order's message; the second order's is under way.
MCBatches == [i \in Invocations |-> <<o1>>]

MCInitialNum == [x \in Goods |-> 4]

\* One order leaves enough for itself only.
MCWants == [o \in Orders |-> [goods |-> g, num |-> IF o = o1 THEN 2 ELSE 3]]

ShopFaults == {"producer", "half_stray", "reduce_error", "reduce_silent", "rows_error", "end_lost", "crash"}
=============================================================================
