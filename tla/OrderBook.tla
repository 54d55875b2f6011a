------------------------------ MODULE OrderBook ------------------------------
(***************************************************************************)
(* What order_service and repertory_service together promise of the units  *)
(* an order asks for: they are held for it, at most once, and then either  *)
(* sold with it or given back, once and for good.  A unit is never given   *)
(* back after it was sold, and a hold never takes the last unit.           *)
(***************************************************************************)
EXTENDS Integers

CONSTANTS
  Orders,      \* the orders
  Wants,       \* the goods and the number of units of each
  InitialNum   \* the units of each goods

VARIABLES
  avail,  \* units of each goods nobody holds
  units   \* where the units of each order are

Init ==
  /\ avail = InitialNum
  /\ units = [o \in Orders |-> "none"]

Move(o, from, to) ==
  /\ units[o] = from
  /\ units' = [units EXCEPT ![o] = to]

Hold(o) ==
  /\ Move(o, "none", "held")
  /\ avail[Wants[o].goods] - Wants[o].num > 0
  /\ avail' = [avail EXCEPT ![Wants[o].goods] = @ - Wants[o].num]

Sell(o) ==
  /\ Move(o, "held", "sold")
  /\ UNCHANGED avail

GiveBack(o) ==
  /\ Move(o, "held", "free")
  /\ avail' = [avail EXCEPT ![Wants[o].goods] = @ + Wants[o].num]

Next == \E o \in Orders : Hold(o) \/ Sell(o) \/ GiveBack(o)

Spec == Init /\ [][Next]_<<avail, units>>
=============================================================================
