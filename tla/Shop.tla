-------------------------------- MODULE Shop --------------------------------
(***************************************************************************)
(* The whole way of an order: the saga of OrderCreate, the payment timeout *)
(* of PayTimeout and the stock they share, composed.  Both components send *)
(* messages to the rollback topic for the same order: the saga's half      *)
(* message when the order fails, the timeout's own one when it is not paid.*)
(* The store takes the units of an order if enough are left, and answers OK*)
(* either way; a rollback message returns the units of an order that has a *)
(* deduction record of status 1.                                           *)
(*                                                                         *)
(* The components' steps are those of their modules; what one does to the  *)
(* state of another is added here.  The store is as StockLedger has it,    *)
(* which Repertory implements.                                             *)
(***************************************************************************)
EXTENDS Integers, Sequences

CONSTANTS
  Orders, Invalid, Recorded, Answerers, Faults,   \* as in OrderCreate
  Malformed, Invocations, Batches, MaxAttempts,   \* as in PayTimeout
  UpdateMayFail, MaxFaults,
  Goods,        \* the goods in stock
  InitialNum,   \* their initial units
  Wants         \* what each order asks for: [goods, num]

VARIABLES
  pc, live, verdict, failed, half, taken, returned, placed, delayed, reply,
  status, released, step, at, attempts, faults,   \* PayTimeout's, pc renamed
  avail                                           \* the num column of each goods

Saga == INSTANCE OrderCreate

Timer == INSTANCE PayTimeout WITH
  pc <- step, SendTopic <- "pay_timeout", SubscribedTopic <- "pay_timeout"

ASSUME ShopAssumptions ==
  /\ Saga!OrderCreateAssumptions
  /\ Timer!PayTimeoutAssumptions
  /\ InitialNum \in [Goods -> Nat \ {0}]
  /\ Wants \in [Orders -> [goods : Goods, num : Nat \ {0}]]

sagaVars == <<pc, live, verdict, failed, half, taken, returned, placed, delayed, reply>>
timerVars == <<status, released, step, at, attempts, faults>>
vars == <<sagaVars, timerVars, avail>>

Init == Saga!Init /\ Timer!Init /\ avail = InitialNum

-----------------------------------------------------------------------------
(* CreateOrder *)

\* The steps of a call that do not touch the stock.
Call(o) ==
  /\ \/ Saga!Reject(o) \/ Saga!StartProducer(o) \/ Saga!SendHalf(o)
     \/ Saga!GetGoodsDetail(o) \/ Saga!CreateOrderWithTransaction(o)
     \/ Saga!SendDelay(o) \/ Saga!EndTransaction(o) \/ Saga!Reply(o)
  /\ UNCHANGED <<timerVars, avail>>

\* Mutant: the stock is not looked at.
AnyLeft(o) == TRUE

Enough(o) == avail[Wants[o].goods] - Wants[o].num > 0

\* Units that are not there are not taken, whatever the answer is.
Reduce(o) ==
  /\ Saga!ReduceRepertory(o)
  /\ \/ /\ taken' # taken
        /\ Enough(o)
        /\ avail' = [avail EXCEPT ![Wants[o].goods] = @ - Wants[o].num]
     \/ taken' = taken /\ UNCHANGED avail
  /\ UNCHANGED timerVars

\* The broker asks for a verdict; here it is never through with asking.
Check(o, k) ==
  /\ Saga!CheckLocalTransaction(o, k)
  /\ UNCHANGED <<timerVars, avail>>

Crash ==
  /\ Saga!Crash
  /\ UNCHANGED <<timerVars, avail>>

-----------------------------------------------------------------------------
(* The payment, its timeout and the rollback topic *)

\* Nothing of the code keeps a payment out of the handler's way.
Pay(o) ==
  /\ o \in placed
  /\ Timer!Pay(o)
  /\ UNCHANGED <<sagaVars, avail>>

\* A batch comes after its messages were sent.
Sent(i) == \A n \in 1..Len(Batches[i]) : Batches[i][n] \in delayed \cup {Malformed}

OrderTimeout(i) ==
  /\ \/ Sent(i) /\ Timer!Deliver(i)
     \/ Timer!Handle(i)
     \/ Timer!Crash(i)
  /\ UNCHANGED <<sagaVars, avail>>

\* Mutant: the record keeps its status when its units are returned.
OwedForEver(o) == o \in Recorded \cap taken

\* The order has a deduction record of status 1.
Owed(o) == o \in (Recorded \cap taken) \ returned

GiveBack(o) == avail' = [avail EXCEPT ![Wants[o].goods] = @ + Wants[o].num]

\* The saga's message, or a stray copy of it, reaches RollbackMsghandle.
DeliverRollback(o, k) ==
  /\ Saga!DeliverRollback(o, k)
  /\ GiveBack(o)
  /\ UNCHANGED timerVars

\* The timeout's message does.
DeliverTimeoutRollback(o) ==
  /\ o \in released
  /\ Owed(o)
  /\ returned' = returned \cup {o}
  /\ GiveBack(o)
  /\ UNCHANGED <<pc, live, verdict, failed, half, taken, placed, delayed, reply, timerVars>>

Finished ==
  /\ \A o \in Orders : pc[o] = "done"
  /\ UNCHANGED vars

OrderStep(o) == Call(o) \/ Reduce(o)

Next ==
  \/ \E o \in Orders : OrderStep(o) \/ Pay(o) \/ DeliverTimeoutRollback(o)
  \/ \E o \in Orders, k \in Saga!Copies : Check(o, k) \/ DeliverRollback(o, k)
  \/ \E i \in Invocations : OrderTimeout(i)
  \/ Crash
  \/ Finished

Spec == Init /\ [][Next]_vars

\* Calls and handlers go on, the broker goes on asking and delivering.  Nobody
\* has to pay.
FairSpec ==
  /\ Spec
  /\ \A o \in Orders : WF_vars(OrderStep(o)) /\ WF_vars(DeliverTimeoutRollback(o))
  /\ \A o \in Orders, k \in Saga!Copies :
       WF_vars(Check(o, k)) /\ WF_vars(DeliverRollback(o, k))
  /\ \A i \in Invocations :
       /\ WF_vars(Sent(i) /\ Timer!Deliver(i) /\ UNCHANGED <<sagaVars, avail>>)
       /\ WF_vars(Timer!Handle(i) /\ UNCHANGED <<sagaVars, avail>>)
-----------------------------------------------------------------------------
(* Properties *)

\* Every variable keeps its type.
TypeOK ==
  /\ Saga!TypeOK
  /\ Timer!TypeOK
  /\ avail \in [Goods -> Nat]

\* Units that were given back belong to no order, or to one the payment timeout
\* closed: an order that CreateOrder stored is not emptied by its own saga.
ReturnHasCause ==
  \A o \in Orders : o \in returned => o \notin placed \/ o \in released

\* An order is sold when its payment can no longer be overlooked: no invocation
\* that read the order as unpaid is at work on it, or has released its units.
Sold(o) ==
  /\ o \in placed
  /\ status[o] = 200
  /\ o \notin released
  /\ ~Timer!BeingClosed(o)

\* A sale is final, for the order and for its units: no later batch, no repeated
\* delivery, crash or verdict of the saga closes the order or gives them back.
SaleIsFinal ==
  [][\A o \in Orders : Sold(o) => Sold(o)' /\ o \notin returned']_vars

UnitsOf(o) ==
  CASE o \notin taken -> "none"
    [] o \in returned -> "free"
    [] o \in taken \ returned /\ Sold(o) -> "sold"
    [] OTHER -> "held"

\* Saga, timeout and store together implement the order book: an order's units
\* are held, then sold or given back, once, whenever its payment comes.
Book == INSTANCE OrderBook WITH units <- [o \in Orders |-> UnitsOf(o)]

BookSpec == Book!Spec

\* The rollback message of an order, whoever sends it.
MessageOf(o) == [order |-> o, goods |-> Wants[o].goods, num |-> Wants[o].num]

\* What orders and messages do to the stock here is what StockLedger promises of
\* the store, and so all that Repertory does.
Ledger == INSTANCE StockLedger WITH
  Stocked <- Goods, Calls <- Orders, Requests <- {Wants[o] : o \in Orders},
  Recorded <- {MessageOf(o) : o \in Recorded},
  job <- Wants, deducted <- taken, returned <- {MessageOf(o) : o \in returned}

LedgerSpec == Ledger!Spec

\* What happens to status, batches and timeout messages is what PayTimeout says.
TimerSpec == Timer!Spec

=============================================================================
