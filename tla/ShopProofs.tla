----------------------------- MODULE ShopProofs -----------------------------
(***************************************************************************)
(* Machine-checked proofs about Shop: saga, payment timeout and store      *)
(* together, for any number of orders, any batches and any interleaving of *)
(* the calls, the broker, the handlers, the payments and crashes.  The     *)
(* theorems of the parts are carried over at the end.                      *)
(***************************************************************************)
EXTENDS Shop, TLAPS

\* What some proofs take from the saga's environment: nothing fails after the
\* order's rows are committed, the broker asks late enough and the right producer.
\* Nothing is taken from the payments, they may come at any time.
Benign ==
  /\ Faults \cap {"rows_unsure", "delay_error", "early_check"} = {}
  /\ \A o \in Orders : Answerers[o] \subseteq {o}

\* A running delivery was counted, a waiting batch has deliveries left, and what
\* is being closed is an order of the batch.
TimerInv ==
  \A i \in Invocations :
    /\ step[i] \in {"next", "send", "close"} => attempts[i] > 0
    /\ step[i] = "waiting" => attempts[i] < MaxAttempts
    /\ step[i] \in {"send", "close"} => Timer!Current(i) \in Orders

TypeInv == TypeOK /\ TimerInv

\* What a call has done at each place, and what its half message says of it.
SagaInv ==
  \A o \in Orders :
    /\ pc[o] \in {"idle", "half", "goods", "reduce"} => o \notin taken
    /\ pc[o] \in {"idle", "half", "goods", "reduce", "rows"} => o \notin placed
    /\ pc[o] = "end" /\ verdict[o] = "commit" => o \notin placed
    /\ \A k \in Saga!Copies :
         /\ pc[o] \in {"idle", "half"} => half[o][k] = "none"
         /\ half[o][k] = "committed" =>
              pc[o] \in {"end", "answer", "done"} /\ o \notin placed

\* Units come back by one of the two messages.
ReturnInv ==
  \A o \in returned :
    /\ o \in taken
    /\ o \in released \/ \E k \in Saga!Copies : half[o][k] = "committed"

\* A paid order exists.
PaidInv == \A o \in Orders : status[o] = 200 => o \in placed

IInv == TypeInv /\ SagaInv /\ ReturnInv /\ PaidInv

-----------------------------------------------------------------------------
LEMMA CurrentIsMessage ==
  ASSUME TypeOK, NEW i \in Invocations, at[i] <= Len(Batches[i]),
         Timer!Current(i) # Malformed
  PROVE  Timer!Current(i) \in Orders
<1>1. Batches[i] \in Seq(Orders \cup {Malformed}) /\ at[i] \in 1..Len(Batches[i])
  BY ShopAssumptions DEF TypeOK, Timer!TypeOK, Timer!PayTimeoutAssumptions
<1>2. Timer!Current(i) \in Orders \cup {Malformed}
  BY <1>1 DEF Timer!Current
<1>3. QED
  BY <1>2

\* The saga's variables keep their types in each of its own steps.
LEMMA SagaTypeStep ==
  ASSUME Saga!TypeOK, NEW o \in Orders,
         \/ Saga!Reject(o) \/ Saga!StartProducer(o) \/ Saga!SendHalf(o)
         \/ Saga!GetGoodsDetail(o) \/ Saga!CreateOrderWithTransaction(o)
         \/ Saga!SendDelay(o) \/ Saga!EndTransaction(o) \/ Saga!Reply(o)
         \/ Saga!ReduceRepertory(o)
  PROVE  Saga!TypeOK'
<1> USE DEF Saga!TypeOK, Saga!Goto, Saga!Answer, Saga!Return, Saga!Fail, Saga!local,
            Saga!stores, Saga!Copies
<1>1. CASE Saga!Reject(o)
  BY <1>1 DEF Saga!Reject
<1>2. CASE Saga!StartProducer(o)
  BY <1>2 DEF Saga!StartProducer
<1>3. CASE Saga!SendHalf(o)
  <2>1. half' \in [Orders -> [Saga!Copies -> {"none", "prepared", "committed", "dropped"}]]
    BY <1>3 DEF Saga!SendHalf, Saga!Store
  <2>2. CASE Saga!Goto(o, "goods") /\ UNCHANGED <<verdict, reply>>
    BY <1>3, <2>1, <2>2 DEF Saga!SendHalf
  <2>3. CASE Saga!Return(o, "rollback") /\ UNCHANGED reply
    BY <1>3, <2>1, <2>3 DEF Saga!SendHalf
  <2>4. CASE Saga!Answer(o, "err") /\ UNCHANGED verdict
    BY <1>3, <2>1, <2>4 DEF Saga!SendHalf
  <2>5. QED
    BY <1>3, <2>2, <2>3, <2>4 DEF Saga!SendHalf
<1>4. CASE Saga!GetGoodsDetail(o)
  <2>1. CASE Saga!Goto(o, "reduce") /\ UNCHANGED Saga!local
    BY <1>4, <2>1 DEF Saga!GetGoodsDetail
  <2>2. CASE Saga!Fail(o)
    BY <1>4, <2>2 DEF Saga!GetGoodsDetail
  <2>3. QED
    BY <1>4, <2>1, <2>2 DEF Saga!GetGoodsDetail
<1>5. CASE Saga!CreateOrderWithTransaction(o)
  <2>1. placed' \subseteq Orders
    BY <1>5 DEF Saga!CreateOrderWithTransaction, Saga!RowsErrorVerdict
  <2>2. CASE Saga!Goto(o, "delay") /\ UNCHANGED verdict
    BY <1>5, <2>1, <2>2 DEF Saga!CreateOrderWithTransaction, Saga!RowsErrorVerdict
  <2>3. CASE Saga!Return(o, Saga!RowsErrorVerdict)
    BY <1>5, <2>1, <2>3 DEF Saga!CreateOrderWithTransaction, Saga!RowsErrorVerdict
  <2>4. QED
    BY <1>5, <2>2, <2>3 DEF Saga!CreateOrderWithTransaction, Saga!RowsErrorVerdict
<1>6. CASE Saga!SendDelay(o)
  <2>1. delayed' \subseteq Orders
    BY <1>6 DEF Saga!SendDelay
  <2>2. ASSUME NEW v \in {"commit", "rollback"}, Saga!Return(o, v) PROVE Saga!TypeOK'
    BY <1>6, <2>1, <2>2 DEF Saga!SendDelay
  <2>3. QED
    BY <1>6, <2>2 DEF Saga!SendDelay
<1>7. CASE Saga!EndTransaction(o)
  BY <1>7 DEF Saga!EndTransaction
<1>8. CASE Saga!Reply(o)
  BY <1>8 DEF Saga!Reply, Saga!ReplyOf
<1>9. CASE Saga!ReduceRepertory(o)
  BY <1>9 DEF Saga!ReduceRepertory
<1>10. QED
  BY <1>1, <1>2, <1>3, <1>4, <1>5, <1>6, <1>7, <1>8, <1>9

\* The handler's variables keep theirs in each step of the handler.
LEMMA TimerTypeStep ==
  ASSUME TypeInv, NEW i \in Invocations,
         Timer!Deliver(i) \/ Timer!Handle(i) \/ Timer!Crash(i)
  PROVE  Timer!TypeOK' /\ TimerInv'
<1> USE ShopAssumptions
    DEF Timer!PayTimeoutAssumptions, TypeInv, TypeOK, Timer!TypeOK, TimerInv,
        Timer!Current, Timer!Advance, Timer!RetryLater, Timer!MoreAttempts, Timer!Fault
<1>1. CASE Timer!Deliver(i)
  BY <1>1 DEF Timer!Deliver
<1>2. CASE Timer!ConsumeSuccess(i)
  BY <1>2 DEF Timer!ConsumeSuccess
<1>3. CASE Timer!SkipMalformed(i)
  BY <1>3 DEF Timer!SkipMalformed
<1>4. CASE Timer!QueryOrder(i)
  <2>1. Timer!Current(i) \in Orders
    BY <1>4, CurrentIsMessage DEF Timer!QueryOrder
  <2>2. CASE /\ step' = [step EXCEPT ![i] = "send"]
             /\ UNCHANGED <<at, faults>>
    BY <1>4, <2>1, <2>2 DEF Timer!QueryOrder
  <2>3. CASE Timer!Advance(i) /\ UNCHANGED faults
    BY <1>4, <2>3 DEF Timer!QueryOrder
  <2>4. CASE Timer!Fault /\ Timer!OnQueryError(i)
    BY <1>4, <2>4 DEF Timer!QueryOrder, Timer!OnQueryError
  <2>5. QED
    BY <1>4, <2>2, <2>3, <2>4 DEF Timer!QueryOrder
<1>5. CASE Timer!SendRollback(i)
  <2>1. Timer!Current(i) \in Orders /\ step[i] = "send" /\ attempts[i] > 0
    BY <1>5 DEF Timer!SendRollback
  <2>2. CASE /\ released' = released \cup {Timer!Current(i)}
             /\ step' = [step EXCEPT ![i] = "close"]
             /\ UNCHANGED <<at, faults>>
    BY <1>5, <2>1, <2>2 DEF Timer!SendRollback
  <2>3. CASE /\ Timer!Fault
             /\ released' \in {released, released \cup {Timer!Current(i)}}
             /\ Timer!OnSendError(i)
    BY <1>5, <2>1, <2>3 DEF Timer!SendRollback, Timer!OnSendError
  <2>4. QED
    BY <1>5, <2>2, <2>3 DEF Timer!SendRollback
<1>6. CASE Timer!UpdateOrder(i)
  <2>1. Timer!Current(i) \in Orders /\ attempts[i] > 0
    BY <1>6 DEF Timer!UpdateOrder
  <2>2. status' \in [Orders -> {100, 200, 300}]
    <3>1. CASE status' = [status EXCEPT ![Timer!Current(i)] = 300]
      BY <2>1, <3>1
    <3>2. CASE UNCHANGED status
      BY <3>2
    <3>3. QED
      BY <1>6, <3>1, <3>2 DEF Timer!UpdateOrder
  <2>3. /\ at' \in [Invocations -> Nat \ {0}]
        /\ step' = [step EXCEPT ![i] = "next"]
        /\ \A j \in Invocations : j # i => at'[j] = at[j]
        /\ UNCHANGED <<released, attempts, faults>>
    BY <1>6 DEF Timer!UpdateOrder
  <2>4. QED
    BY <2>1, <2>2, <2>3
<1>7. CASE Timer!Crash(i)
  BY <1>7 DEF Timer!Crash
<1>8. QED
  BY <1>1, <1>2, <1>3, <1>4, <1>5, <1>6, <1>7 DEF Timer!Handle

LEMMA TypeStep ==
  ASSUME TypeInv, [Next]_vars
  PROVE  TypeInv'
<1> USE ShopAssumptions DEF Saga!OrderCreateAssumptions
<1>1. ASSUME UNCHANGED timerVars PROVE Timer!TypeOK' /\ TimerInv'
  BY <1>1 DEF timerVars, TypeInv, TypeOK, Timer!TypeOK, TimerInv, Timer!Current
<1>2. ASSUME UNCHANGED sagaVars PROVE Saga!TypeOK'
  BY <1>2 DEF sagaVars, TypeInv, TypeOK, Saga!TypeOK
<1>3. ASSUME NEW o \in Orders, Call(o) PROVE TypeInv'
  BY <1>1, <1>3, SagaTypeStep DEF Call, TypeInv, TypeOK
<1>4. ASSUME NEW o \in Orders, Reduce(o) PROVE TypeInv'
  <2>1. Saga!TypeOK'
    BY <1>4, SagaTypeStep DEF Reduce, TypeInv, TypeOK
  <2>2. avail' \in [Goods -> Nat]
    <3>1. Wants[o].goods \in Goods /\ Wants[o].num \in Nat
      OBVIOUS
    <3>2. QED
      BY <1>4, <3>1 DEF Reduce, Enough, TypeInv, TypeOK
  <2>3. QED
    BY <1>1, <1>4, <2>1, <2>2 DEF Reduce, TypeInv, TypeOK
<1>5. ASSUME NEW o \in Orders, NEW k \in Saga!Copies, Check(o, k) PROVE TypeInv'
  <2>1. Saga!TypeOK'
    BY <1>5 DEF Check, Saga!CheckLocalTransaction, Saga!Answers, TypeInv, TypeOK,
                Saga!TypeOK, Saga!local, Saga!stores, Saga!Copies
  <2>2. QED
    BY <1>1, <1>5, <2>1 DEF Check, TypeInv, TypeOK
<1>6. CASE Crash
  <2>1. Saga!TypeOK'
    BY <1>6 DEF Crash, Saga!Crash, TypeInv, TypeOK, Saga!TypeOK, Saga!local, Saga!stores
  <2>2. QED
    BY <1>1, <1>6, <2>1 DEF Crash, TypeInv, TypeOK
<1>7. ASSUME NEW o \in Orders, Pay(o) PROVE TypeInv'
  BY <1>2, <1>7 DEF Pay, Timer!Pay, TypeInv, TypeOK, Timer!TypeOK, TimerInv, Timer!Current
<1>8. ASSUME NEW i \in Invocations, OrderTimeout(i) PROVE TypeInv'
  BY <1>2, <1>8, TimerTypeStep DEF OrderTimeout, TypeInv, TypeOK
<1>9. ASSUME NEW o \in Orders, avail' = [avail EXCEPT ![Wants[o].goods] = @ + Wants[o].num]
      PROVE  avail' \in [Goods -> Nat]
  <2>1. Wants[o].goods \in Goods /\ Wants[o].num \in Nat
    OBVIOUS
  <2>2. QED
    BY <1>9, <2>1 DEF TypeInv, TypeOK
<1>10. ASSUME NEW o \in Orders, NEW k \in Saga!Copies, DeliverRollback(o, k) PROVE TypeInv'
  <2>1. Saga!TypeOK'
    BY <1>10 DEF DeliverRollback, Saga!DeliverRollback, TypeInv, TypeOK, Saga!TypeOK,
                 Saga!local
  <2>2. QED
    BY <1>1, <1>9, <1>10, <2>1 DEF DeliverRollback, GiveBack, TypeInv, TypeOK
<1>11. ASSUME NEW o \in Orders, DeliverTimeoutRollback(o) PROVE TypeInv'
  <2>1. Saga!TypeOK'
    BY <1>11 DEF DeliverTimeoutRollback, TypeInv, TypeOK, Saga!TypeOK
  <2>2. QED
    BY <1>1, <1>9, <1>11, <2>1 DEF DeliverTimeoutRollback, GiveBack, TypeInv, TypeOK, timerVars
<1>12. CASE Finished \/ UNCHANGED vars
  BY <1>1, <1>2, <1>12 DEF Finished, vars, TypeInv, TypeOK
<1>13. QED
  BY <1>3, <1>4, <1>5, <1>6, <1>7, <1>8, <1>10, <1>11, <1>12 DEF Next, OrderStep

\* Every variable keeps its type: the stock is a natural number whatever fails.
THEOREM TypeCorrect == Spec => []TypeOK
<1>1. Init => TypeInv
  BY ShopAssumptions DEF Init, TypeInv, TypeOK, TimerInv, Saga!Init, Timer!Init, Saga!TypeOK,
     Timer!TypeOK, Timer!PayTimeoutAssumptions
<1>2. TypeInv /\ [Next]_vars => TypeInv'
  BY TypeStep
<1>3. TypeInv => TypeOK
  BY DEF TypeInv
<1>4. QED
  BY <1>1, <1>2, <1>3, PTL DEF Spec

-----------------------------------------------------------------------------
\* The saga's own steps keep SagaInv and never take a release back.
LEMMA SagaStep ==
  ASSUME Benign, TypeInv, SagaInv, NEW o \in Orders, Call(o) \/ Saga!ReduceRepertory(o)
  PROVE  /\ SagaInv'
         /\ \A p \in Orders, k \in Saga!Copies :
              half[p][k] = "committed" => half'[p][k] = "committed"
         /\ taken \subseteq taken' /\ placed \subseteq placed' /\ returned' = returned
<1> USE DEF Benign, TypeInv, TypeOK, Saga!TypeOK, SagaInv, Saga!Copies, Saga!Goto,
            Saga!Answer, Saga!Return, Saga!Fail, Saga!local, Saga!stores
<1>1. CASE Saga!Reject(o)
  BY <1>1 DEF Saga!Reject
<1>2. CASE Saga!StartProducer(o)
  BY <1>2 DEF Saga!StartProducer
<1>3. CASE Saga!SendHalf(o)
  <2>1. /\ \A p \in Orders : p # o => half'[p] = half[p] /\ pc'[p] = pc[p]
        /\ \A k \in Saga!Copies : half'[o][k] \in {"none", "prepared"}
        /\ \A p \in Orders : p # o => verdict'[p] = verdict[p]
    BY <1>3 DEF Saga!SendHalf, Saga!Store
  <2>2. /\ pc[o] = "half" /\ UNCHANGED <<taken, placed, returned>>
        /\ pc'[o] \in {"goods", "done"} \/ (pc'[o] = "end" /\ verdict'[o] = "rollback")
    BY <1>3 DEF Saga!SendHalf
  <2>3. SagaInv'
    BY <2>1, <2>2
  <2>4. QED
    BY <2>1, <2>2, <2>3
<1>4. CASE Saga!GetGoodsDetail(o)
  BY <1>4 DEF Saga!GetGoodsDetail
<1>5. CASE Saga!ReduceRepertory(o)
  BY <1>5 DEF Saga!ReduceRepertory
<1>6. CASE Saga!CreateOrderWithTransaction(o)
  BY <1>6 DEF Saga!CreateOrderWithTransaction, Saga!RowsErrorVerdict
<1>7. CASE Saga!SendDelay(o)
  BY <1>7 DEF Saga!SendDelay
<1>8. CASE Saga!EndTransaction(o)
  BY <1>8 DEF Saga!EndTransaction
<1>9. CASE Saga!Reply(o)
  BY <1>9 DEF Saga!Reply
<1>10. QED
  BY <1>1, <1>2, <1>3, <1>4, <1>5, <1>6, <1>7, <1>8, <1>9 DEF Call

\* Nor do the broker's questions and a crash: an order whose producer answers
\* "commit" has not been placed and never will be.
LEMMA BrokerStep ==
  ASSUME Benign, TypeInv, SagaInv,
         (\E o \in Orders, k \in Saga!Copies : Check(o, k)) \/ Crash
  PROVE  /\ SagaInv'
         /\ \A p \in Orders, k \in Saga!Copies :
              half[p][k] = "committed" => half'[p][k] = "committed"
         /\ UNCHANGED <<taken, placed, returned>>
<1> USE DEF Benign, TypeInv, TypeOK, Saga!TypeOK, SagaInv, Saga!Copies, Saga!local, Saga!stores
<1>1. ASSUME NEW o \in Orders, NEW k \in Saga!Copies, Check(o, k)
      PROVE  /\ SagaInv'
             /\ \A p \in Orders, l \in Saga!Copies :
                  half[p][l] = "committed" => half'[p][l] = "committed"
             /\ UNCHANGED <<taken, placed, returned>>
  <2>1. PICK a \in Saga!Answers(o) : half' = [half EXCEPT ![o][k] = a]
    BY <1>1 DEF Check, Saga!CheckLocalTransaction
  <2>2. /\ a = "committed" => o \notin placed
        /\ ~Saga!Executing(o) /\ half[o][k] = "prepared"
        /\ UNCHANGED <<pc, verdict, taken, placed, returned>>
    BY <1>1, <2>1 DEF Check, Saga!CheckLocalTransaction, Saga!Answers
  <2>3. pc[o] \in {"end", "answer", "done"}
    BY <2>2 DEF Saga!Executing
  <2>4. a \in {"committed", "dropped"}
    BY <2>1 DEF Saga!Answers
  <2>5. QED
    BY <2>1, <2>2, <2>3, <2>4
<1>2. CASE Crash
  BY <1>2 DEF Crash, Saga!Crash
<1>3. QED
  BY <1>1, <1>2

\* An invocation pays no order and takes no sale back, and the only order that
\* it may sell, by letting go of it, is the one it is at.
LEMMA TimeoutStep ==
  ASSUME TypeInv, NEW i \in Invocations, OrderTimeout(i)
  PROVE  /\ \A o \in Orders : status'[o] = 200 => status[o] = 200
         /\ \A o \in Orders : Sold(o) => Sold(o)'
         /\ \A o \in Orders \ {Timer!Current(i)} : Sold(o)' <=> Sold(o)
<1> USE DEF TypeInv, TypeOK, Timer!TypeOK, TimerInv, Timer!Current, Timer!RetryLater,
            Timer!Advance
<1>1. placed' = placed /\ \A j \in Invocations \ {i} : step'[j] = step[j] /\ at'[j] = at[j]
  BY DEF OrderTimeout, sagaVars, Timer!Deliver, Timer!Handle, Timer!ConsumeSuccess,
     Timer!SkipMalformed, Timer!QueryOrder, Timer!OnQueryError, Timer!SendRollback,
     Timer!OnSendError, Timer!UpdateOrder, Timer!Crash
<1>2. ASSUME NEW o \in Orders, status'[o] = status[o], o \in released' <=> o \in released,
             Timer!BeingClosed(o)' <=> Timer!BeingClosed(o)
      PROVE  Sold(o)' <=> Sold(o)
  BY <1>1, <1>2 DEF Sold
<1>3. ASSUME step'[i] \in {"send", "close"} => at'[i] = at[i],
             NEW o \in Orders, o # Timer!Current(i)
      PROVE  Timer!BeingClosed(o)' <=> Timer!BeingClosed(o)
  BY <1>1, <1>3 DEF Timer!BeingClosed
<1>4. ASSUME NEW o \in Orders, step[i] \in {"send", "close"}, o = Timer!Current(i)
      PROVE  ~Sold(o)
  BY <1>4 DEF Sold, Timer!BeingClosed
<1>5. ASSUME step'[i] \notin {"send", "close"}, UNCHANGED <<status, released>>,
             NEW o \in Orders, Sold(o)
      PROVE  Sold(o)'
  BY <1>1, <1>5 DEF Sold, Timer!BeingClosed
<1>6. CASE Timer!Deliver(i) \/ Timer!ConsumeSuccess(i) \/ Timer!SkipMalformed(i) \/ Timer!Crash(i)
  <2>1. step'[i] \notin {"send", "close"} /\ UNCHANGED <<status, released>>
    BY <1>6 DEF Timer!Deliver, Timer!ConsumeSuccess, Timer!SkipMalformed, Timer!Crash
  <2>2. QED
    BY <1>2, <1>3, <1>5, <2>1
<1>7. CASE Timer!QueryOrder(i)
  <2>1. /\ UNCHANGED <<status, released>>
        /\ step'[i] # "close"
        /\ step'[i] = "send" => at' = at /\ status[Timer!Current(i)] # 200
    BY <1>7 DEF Timer!QueryOrder, Timer!OnQueryError, Timer!ToBePaid
  <2>2. ASSUME NEW o \in Orders, Sold(o), o = Timer!Current(i) PROVE Sold(o)'
    <3>1. step'[i] \notin {"send", "close"}
      BY <2>1, <2>2 DEF Sold
    <3>2. QED
      BY <1>5, <2>1, <2>2, <3>1
  <2>3. QED
    BY <1>2, <1>3, <2>1, <2>2
<1>8. CASE Timer!SendRollback(i)
  <2>1. /\ step[i] = "send" /\ UNCHANGED status
        /\ released \subseteq released' /\ released' \subseteq released \cup {Timer!Current(i)}
        /\ step'[i] \in {"send", "close"} => at' = at
    BY <1>8 DEF Timer!SendRollback, Timer!OnSendError
  <2>2. QED
    BY <1>2, <1>3, <1>4, <2>1
<1>9. CASE Timer!UpdateOrder(i)
  <2>1. /\ step[i] = "close" /\ step'[i] = "next" /\ UNCHANGED released
        /\ \A o \in Orders : /\ o # Timer!Current(i) => status'[o] = status[o]
                             /\ status'[o] = 200 => status[o] = 200
    BY <1>9 DEF Timer!UpdateOrder
  <2>2. QED
    BY <1>2, <1>3, <1>4, <2>1
<1>10. QED
  BY <1>6, <1>7, <1>8, <1>9 DEF OrderTimeout, Timer!Handle

LEMMA ReleasedStay ==
  ASSUME NEW i \in Invocations, OrderTimeout(i)
  PROVE  released \subseteq released'
  BY DEF OrderTimeout, Timer!Deliver, Timer!ConsumeSuccess, Timer!SkipMalformed, Timer!Crash,
     Timer!Handle, Timer!QueryOrder, Timer!SendRollback, Timer!UpdateOrder

LEMMA CauseStep ==
  ASSUME Benign, IInv, [Next]_vars
  PROVE  TypeInv' /\ SagaInv' /\ ReturnInv'
<1>1. TypeInv'
  BY TypeStep DEF IInv
<1>2. ASSUME NEW o \in Orders, Call(o) \/ Reduce(o) PROVE SagaInv' /\ ReturnInv'
  <2>1. /\ SagaInv'
        /\ \A p \in Orders, k \in Saga!Copies :
             half[p][k] = "committed" => half'[p][k] = "committed"
        /\ taken \subseteq taken' /\ returned' = returned
    BY <1>2, SagaStep DEF IInv, Reduce
  <2>2. UNCHANGED timerVars
    BY <1>2 DEF Call, Reduce
  <2>3. ReturnInv'
    BY <2>1, <2>2 DEF IInv, ReturnInv, timerVars, TypeInv, TypeOK, Saga!TypeOK
  <2>4. QED
    BY <2>1, <2>3
<1>3. ASSUME (\E o \in Orders, k \in Saga!Copies : Check(o, k)) \/ Crash
      PROVE  SagaInv' /\ ReturnInv'
  <2>1. /\ SagaInv'
        /\ \A p \in Orders, k \in Saga!Copies :
             half[p][k] = "committed" => half'[p][k] = "committed"
        /\ UNCHANGED <<taken, returned>>
    BY <1>3, BrokerStep DEF IInv
  <2>2. UNCHANGED timerVars
    BY <1>3 DEF Check, Crash
  <2>3. ReturnInv'
    BY <2>1, <2>2 DEF IInv, ReturnInv, timerVars, TypeInv, TypeOK, Saga!TypeOK
  <2>4. QED
    BY <2>1, <2>3
<1>4. ASSUME UNCHANGED sagaVars, released \subseteq released' PROVE SagaInv' /\ ReturnInv'
  BY <1>4 DEF IInv, SagaInv, ReturnInv, sagaVars
<1>5. ASSUME NEW i \in Invocations, OrderTimeout(i) PROVE SagaInv' /\ ReturnInv'
  BY <1>4, <1>5, ReleasedStay DEF OrderTimeout
<1>6. ASSUME NEW o \in Orders, Pay(o) PROVE SagaInv' /\ ReturnInv'
  BY <1>4, <1>6 DEF Pay, Timer!Pay
<1>7. ASSUME NEW o \in Orders, NEW k \in Saga!Copies, DeliverRollback(o, k)
      PROVE  SagaInv' /\ ReturnInv'
  BY <1>7 DEF IInv, SagaInv, ReturnInv, DeliverRollback, Saga!DeliverRollback,
              Saga!local, timerVars
<1>8. ASSUME NEW o \in Orders, DeliverTimeoutRollback(o)
      PROVE  SagaInv' /\ ReturnInv'
  BY <1>8 DEF IInv, SagaInv, ReturnInv, DeliverTimeoutRollback, Owed, timerVars
<1>9. CASE Finished \/ UNCHANGED vars
  <2>1. UNCHANGED sagaVars /\ released' = released
    BY <1>9 DEF Finished, vars, timerVars
  <2>2. QED
    BY <1>1, <2>1 DEF IInv, SagaInv, ReturnInv, sagaVars
<1>10. QED
  BY <1>1, <1>2, <1>3, <1>5, <1>6, <1>7, <1>8, <1>9 DEF IInv, Next, OrderStep

LEMMA PaidStep ==
  ASSUME Benign, IInv, [Next]_vars
  PROVE  PaidInv' /\ placed \subseteq placed'
<1> USE DEF IInv
<1>1. ASSUME placed \subseteq placed', UNCHANGED status
      PROVE  PaidInv' /\ placed \subseteq placed'
  BY <1>1 DEF PaidInv
<1>2. ASSUME NEW o \in Orders, Call(o) \/ Reduce(o) PROVE PaidInv' /\ placed \subseteq placed'
  BY <1>1, <1>2, SagaStep DEF Reduce, Call, timerVars
<1>3. CASE (\E o \in Orders, k \in Saga!Copies : Check(o, k)) \/ Crash
  BY <1>1, <1>3, BrokerStep DEF Check, Crash, timerVars
<1>4. ASSUME NEW i \in Invocations, OrderTimeout(i) PROVE PaidInv' /\ placed \subseteq placed'
  BY <1>4, TimeoutStep DEF PaidInv, OrderTimeout, sagaVars
<1>5. ASSUME NEW o \in Orders, Pay(o) PROVE PaidInv' /\ placed \subseteq placed'
  BY <1>5 DEF PaidInv, Pay, Timer!Pay, TypeInv, TypeOK, Timer!TypeOK, sagaVars
<1>6. ASSUME NEW o \in Orders, NEW k \in Saga!Copies, DeliverRollback(o, k)
      PROVE  PaidInv' /\ placed \subseteq placed'
  BY <1>1, <1>6 DEF DeliverRollback, Saga!DeliverRollback, timerVars
<1>7. ASSUME NEW o \in Orders, DeliverTimeoutRollback(o)
      PROVE  PaidInv' /\ placed \subseteq placed'
  BY <1>1, <1>7 DEF DeliverTimeoutRollback, timerVars
<1>8. CASE Finished \/ UNCHANGED vars
  BY <1>1, <1>8 DEF Finished, vars, sagaVars, timerVars
<1>9. QED
  BY <1>2, <1>3, <1>4, <1>5, <1>6, <1>7, <1>8 DEF Next, OrderStep

LEMMA InitInv == Init => IInv
  BY ShopAssumptions DEF Init, IInv, TypeInv, TypeOK, TimerInv, Saga!Init, Timer!Init,
     Saga!TypeOK, Timer!TypeOK, Timer!PayTimeoutAssumptions, SagaInv, ReturnInv, PaidInv

LEMMA Invariant ==
  ASSUME Benign
  PROVE  Spec => []IInv
<1>1. IInv /\ [Next]_vars => IInv'
  BY CauseStep, PaidStep DEF IInv
<1>2. QED
  BY <1>1, InitInv, PTL DEF Spec

\* The saga gives back the units of no order that it stored: what comes back of
\* such an order was released by the payment timeout, whenever payments come.
THEOREM ReturnsAreCaused ==
  ASSUME Benign
  PROVE  Spec => []ReturnHasCause
<1>1. IInv => ReturnHasCause
  BY DEF IInv, SagaInv, ReturnInv, ReturnHasCause
<1>2. QED
  BY <1>1, Invariant, PTL

-----------------------------------------------------------------------------
\* A step that leaves the timeout alone sells nothing and undoes no sale.
LEMMA SalesStay ==
  ASSUME PaidInv, placed \subseteq placed', UNCHANGED timerVars
  PROVE  \A o \in Orders : Sold(o)' <=> Sold(o)
BY DEF PaidInv, timerVars, Sold, Timer!BeingClosed, Timer!Current

\* A payment sells its own order at most.
LEMMA PaySells ==
  ASSUME TypeInv, NEW o \in Orders, Pay(o)
  PROVE  /\ ~Sold(o)
         /\ \A p \in Orders \ {o} : Sold(p)' <=> Sold(p)
BY DEF TypeInv, TypeOK, Timer!TypeOK, Pay, Timer!Pay, sagaVars, Sold, Timer!BeingClosed,
   Timer!Current

\* A sale is final, for the order and for its units, whenever payments and batches
\* come, and whatever crashes, comes twice or is asked for again.
THEOREM SalesAreFinal ==
  ASSUME Benign
  PROVE  Spec => SaleIsFinal
<1>1. ASSUME IInv, IInv', [Next]_vars, NEW o \in Orders, Sold(o)
      PROVE  Sold(o)' /\ o \notin returned'
  <2> USE <1>1 DEF IInv
  <2>1. ASSUME UNCHANGED timerVars PROVE Sold(o)'
    BY <2>1, PaidStep, SalesStay
  <2>2. ASSUME NEW i \in Invocations, OrderTimeout(i) PROVE Sold(o)'
    BY <2>2, TimeoutStep
  <2>3. ASSUME NEW p \in Orders, Pay(p) PROVE Sold(o)'
    BY <2>3, PaySells
  <2>4. Sold(o)'
    BY <2>1, <2>2, <2>3 DEF Next, OrderStep, Call, Reduce, Check, Crash, DeliverRollback,
       DeliverTimeoutRollback, Finished, vars, timerVars
  <2>5. o \notin returned'
    BY <2>4 DEF Sold, SagaInv, ReturnInv
  <2>6. QED
    BY <2>4, <2>5
<1>2. ASSUME IInv, IInv', [Next]_vars
      PROVE  [\A o \in Orders : Sold(o) => Sold(o)' /\ o \notin returned']_vars
  BY <1>1, <1>2
<1>3. QED
  BY <1>2, Invariant, PTL DEF Spec, SaleIsFinal

-----------------------------------------------------------------------------
\* The order's units after a step that moves them, and those of the others.
LEMMA UnitsMove ==
  ASSUME NEW o \in Orders, NEW to,
         UnitsOf(o)' = to,
         \A p \in Orders \ {o} : UnitsOf(p)' = UnitsOf(p)
  PROVE  [p \in Orders |-> UnitsOf(p)]' = [[p \in Orders |-> UnitsOf(p)] EXCEPT ![o] = to]
OBVIOUS

LEMMA UnitsStay ==
  ASSUME \A p \in Orders : UnitsOf(p)' = UnitsOf(p)
  PROVE  [p \in Orders |-> UnitsOf(p)]' = [p \in Orders |-> UnitsOf(p)]
OBVIOUS

\* Giving the units of an order back is GiveBack of the order book.
LEMMA GivingBack ==
  ASSUME NEW o \in Orders, o \in taken \ returned, ~Sold(o),
         \A p \in Orders : Sold(p)' <=> Sold(p),
         returned' = returned \cup {o}, GiveBack(o), UNCHANGED taken
  PROVE  Book!GiveBack(o)
<1>1. UnitsOf(o) = "held" /\ UnitsOf(o)' = "free"
  BY DEF UnitsOf
<1>2. \A p \in Orders \ {o} : UnitsOf(p)' = UnitsOf(p)
  BY DEF UnitsOf
<1>3. QED
  BY <1>1, <1>2, UnitsMove DEF Book!GiveBack, Book!Move, GiveBack

\* An order that comes to be sold, its units held, is Sell of the order book.
LEMMA Selling ==
  ASSUME NEW o \in Orders, Sold(o) => Sold(o)',
         \A p \in Orders \ {o} : Sold(p)' <=> Sold(p),
         UNCHANGED <<avail, taken, returned>>
  PROVE  [Book!Next]_<<avail, [p \in Orders |-> UnitsOf(p)]>>
<1>1. \A p \in Orders \ {o} : UnitsOf(p)' = UnitsOf(p)
  BY DEF UnitsOf
<1>2. CASE UnitsOf(o)' = UnitsOf(o)
  BY <1>1, <1>2, UnitsStay
<1>3. CASE UnitsOf(o)' # UnitsOf(o)
  <2>1. UnitsOf(o) = "held" /\ UnitsOf(o)' = "sold"
    BY <1>3 DEF UnitsOf
  <2>2. QED
    BY <1>1, <2>1, UnitsMove DEF Book!Sell, Book!Move, Book!Next
<1>4. QED
  BY <1>2, <1>3

\* Saga, timeout and store implement the order book: the units of each order
\* are held at most once, and sold or given back once and for good.
THEOREM ImplementsBook ==
  ASSUME Benign
  PROVE  Spec => BookSpec
<1>1. Init => Book!Init
  BY DEF Init, Saga!Init, Book!Init, UnitsOf
<1>2. ASSUME IInv, [Next]_vars
      PROVE  [Book!Next]_<<avail, [o \in Orders |-> UnitsOf(o)]>>
  <2> USE <1>2 DEF IInv
  <2>1. ASSUME UNCHANGED timerVars PROVE \A p \in Orders : Sold(p)' <=> Sold(p)
    BY <2>1, PaidStep, SalesStay
  <2>2. ASSUME UNCHANGED <<avail, taken, returned, timerVars>>
        PROVE  [Book!Next]_<<avail, [o \in Orders |-> UnitsOf(o)]>>
    <3>1. \A p \in Orders : UnitsOf(p)' = UnitsOf(p)
      BY <2>1, <2>2 DEF UnitsOf
    <3>2. QED
      BY <2>2, <3>1, UnitsStay
  <2>3. ASSUME NEW o \in Orders, Call(o)
        PROVE  UNCHANGED <<avail, taken, returned, timerVars>>
    BY <2>3 DEF Call, Saga!Reject, Saga!StartProducer, Saga!SendHalf,
       Saga!GetGoodsDetail, Saga!CreateOrderWithTransaction, Saga!SendDelay,
       Saga!EndTransaction, Saga!Reply, Saga!stores
  <2>4. ASSUME NEW o \in Orders, Reduce(o)
        PROVE  [Book!Next]_<<avail, [p \in Orders |-> UnitsOf(p)]>>
    <3>1. UNCHANGED <<returned, placed, timerVars>> /\ pc[o] = "reduce"
      BY <2>4 DEF Reduce, Saga!ReduceRepertory
    <3>2. CASE taken' = taken /\ UNCHANGED avail
      BY <2>2, <3>1, <3>2
    <3>3. CASE /\ taken' # taken
               /\ Enough(o)
               /\ avail' = [avail EXCEPT ![Wants[o].goods] = @ - Wants[o].num]
      <4>1. taken' = taken \cup {o} /\ o \notin taken /\ o \notin placed
        BY <2>4, <3>1, <3>3 DEF Reduce, Saga!ReduceRepertory, SagaInv
      <4>2. o \notin returned /\ ~Sold(o) /\ ~Sold(o)'
        BY <2>1, <3>1, <4>1 DEF ReturnInv, Sold
      <4>3. UnitsOf(o) = "none" /\ UnitsOf(o)' = "held"
        BY <3>1, <4>1, <4>2 DEF UnitsOf
      <4>4. \A p \in Orders \ {o} : UnitsOf(p)' = UnitsOf(p)
        BY <2>1, <3>1, <4>1 DEF UnitsOf
      <4>5. Book!Hold(o)
        BY <3>3, <4>3, <4>4, UnitsMove DEF Book!Hold, Book!Move, Enough
      <4>6. QED
        BY <4>5 DEF Book!Next
    <3>4. QED
      BY <2>4, <3>2, <3>3 DEF Reduce
  <2>5. ASSUME (\E o \in Orders, k \in Saga!Copies : Check(o, k)) \/ Crash
        PROVE  UNCHANGED <<avail, taken, returned, timerVars>>
    BY <2>5 DEF Check, Saga!CheckLocalTransaction, Crash, Saga!Crash, Saga!stores
  <2>6. ASSUME NEW i \in Invocations, OrderTimeout(i)
        PROVE  [Book!Next]_<<avail, [o \in Orders |-> UnitsOf(o)]>>
    <3>1. UNCHANGED <<avail, taken, returned>>
      BY <2>6 DEF OrderTimeout, sagaVars
    <3>2. CASE Timer!Current(i) \in Orders
      BY <2>6, <3>1, <3>2, TimeoutStep, Selling
    <3>3. CASE Timer!Current(i) \notin Orders
      <4>1. \A p \in Orders : UnitsOf(p)' = UnitsOf(p)
        BY <2>6, <3>1, <3>3, TimeoutStep DEF UnitsOf
      <4>2. QED
        BY <3>1, <4>1, UnitsStay
    <3>4. QED
      BY <3>2, <3>3
  <2>7. ASSUME NEW o \in Orders, Pay(o)
        PROVE  [Book!Next]_<<avail, [p \in Orders |-> UnitsOf(p)]>>
    <3>1. UNCHANGED <<avail, taken, returned>>
      BY <2>7 DEF Pay, sagaVars
    <3>2. QED
      BY <2>7, <3>1, PaySells, Selling
  <2>8. ASSUME NEW o \in Orders, NEW k \in Saga!Copies, DeliverRollback(o, k)
        PROVE  Book!Next
    <3>1. /\ o \in taken \ returned /\ o \notin placed
          /\ returned' = returned \cup {o} /\ GiveBack(o)
          /\ UNCHANGED <<taken, timerVars>>
      BY <2>8 DEF DeliverRollback, Saga!DeliverRollback, SagaInv
    <3>2. ~Sold(o)
      BY <3>1 DEF Sold
    <3>3. QED
      BY <2>1, <3>1, <3>2, GivingBack DEF Book!Next
  <2>9. ASSUME NEW o \in Orders, DeliverTimeoutRollback(o)
        PROVE  Book!Next
    <3>1. /\ o \in taken \ returned /\ o \in released
          /\ returned' = returned \cup {o} /\ GiveBack(o)
          /\ UNCHANGED <<taken, timerVars>>
      BY <2>9 DEF DeliverTimeoutRollback, Owed, timerVars
    <3>2. ~Sold(o)
      BY <3>1 DEF Sold
    <3>3. QED
      BY <2>1, <3>1, <3>2, GivingBack DEF Book!Next
  <2>10. CASE Finished \/ UNCHANGED vars
    BY <2>2, <2>10 DEF Finished, vars, sagaVars, timerVars
  <2>11. QED
    BY <2>2, <2>3, <2>4, <2>5, <2>6, <2>7, <2>8, <2>9, <2>10 DEF Next, OrderStep
<1>3. QED
  BY <1>1, <1>2, Invariant, PTL DEF Spec, BookSpec, Book!Spec

-----------------------------------------------------------------------------
(* The components: what the composition takes from the store and the timer is  *)
(* theirs.  Nothing is assumed of the environment here.                        *)

\* A call that has not reduced the stock yet has no units.
TakenInv ==
  \A o \in Orders : pc[o] \in {"idle", "half", "goods", "reduce"} => o \notin taken

LEMMA TakenStep ==
  ASSUME TypeOK, TakenInv, [Next]_vars
  PROVE  TakenInv'
<1> USE DEF TypeOK, Saga!TypeOK, TakenInv, Saga!Copies, Saga!Goto, Saga!Answer,
            Saga!Return, Saga!Fail, Saga!local, Saga!stores
<1>1. ASSUME NEW o \in Orders, Call(o) PROVE TakenInv'
  <2>1. UNCHANGED taken
    BY <1>1 DEF Call, Saga!Reject, Saga!StartProducer, Saga!SendHalf,
       Saga!GetGoodsDetail, Saga!CreateOrderWithTransaction, Saga!SendDelay,
       Saga!EndTransaction, Saga!Reply
  <2>2. /\ pc[o] \in {"idle", "half", "goods"} \/ pc'[o] \in {"delay", "end", "answer", "done"}
        /\ \A p \in Orders \ {o} : pc'[p] = pc[p]
    BY <1>1 DEF Call, Saga!Reject, Saga!StartProducer, Saga!SendHalf,
       Saga!GetGoodsDetail, Saga!CreateOrderWithTransaction, Saga!SendDelay,
       Saga!EndTransaction, Saga!Reply
  <2>3. QED
    BY <2>1, <2>2
<1>2. ASSUME NEW o \in Orders, Reduce(o) PROVE TakenInv'
  BY <1>2 DEF Reduce, Saga!ReduceRepertory
<1>3. ASSUME NEW o \in Orders, NEW k \in Saga!Copies, Check(o, k) \/ DeliverRollback(o, k)
      PROVE  TakenInv'
  BY <1>3 DEF Check, DeliverRollback, Saga!CheckLocalTransaction, Saga!DeliverRollback
<1>4. CASE Crash
  BY <1>4 DEF Crash, Saga!Crash
<1>5. CASE \/ \E o \in Orders : Pay(o) \/ DeliverTimeoutRollback(o)
           \/ \E i \in Invocations : OrderTimeout(i)
           \/ Finished \/ UNCHANGED vars
  BY <1>5 DEF Pay, DeliverTimeoutRollback, OrderTimeout, Finished, vars, sagaVars
<1>6. QED
  BY <1>1, <1>2, <1>3, <1>4, <1>5 DEF Next, OrderStep

LEMMA TakenInvariant == Spec => []TakenInv
<1>1. Init => TakenInv
  BY DEF Init, Saga!Init, TakenInv
<1>2. TypeOK /\ TakenInv /\ [Next]_vars => TakenInv'
  BY TakenStep
<1>3. QED
  BY <1>1, <1>2, TypeCorrect, PTL DEF Spec

\* A message that gives the units of its order back does so as the ledger says.
LEMMA ReturnsMessage ==
  ASSUME TypeOK, NEW o \in Orders, o \in (Recorded \cap taken) \ returned,
         returned' = returned \cup {o}, GiveBack(o), UNCHANGED taken
  PROVE  Ledger!Next
<1>1. MessageOf(o) \in {MessageOf(p) : p \in Recorded}
  OBVIOUS
<1>2. \A p \in returned : MessageOf(p) # MessageOf(o)
  BY DEF MessageOf
<1>3. MessageOf(o).goods = Wants[o].goods /\ MessageOf(o).num = Wants[o].num
  BY DEF MessageOf
<1>4. Wants[o].goods \in Goods
  BY ShopAssumptions
<1>5. {MessageOf(p) : p \in returned}' = {MessageOf(p) : p \in returned} \cup {MessageOf(o)}
  BY DEF MessageOf
<1>6. Ledger!Return(MessageOf(o))
  BY <1>2, <1>3, <1>4, <1>5 DEF Ledger!Return, GiveBack
<1>7. QED
  BY <1>1, <1>6 DEF Ledger!Next

\* The stock of the composition is the store's ledger: what holds of every store
\* that implements the ledger holds of this one.
THEOREM StockIsLedger == Spec => LedgerSpec
<1> DEFINE messages == {MessageOf(o) : o \in returned}
<1>1. Init => Ledger!Init
  <2>1. Wants \in [Orders -> {Wants[o] : o \in Orders}]
    BY ShopAssumptions
  <2>2. QED
    BY <2>1 DEF Init, Saga!Init, Ledger!Init
<1>2. ASSUME TypeOK, TakenInv, [Next]_vars
      PROVE  [Ledger!Next]_<<Wants, avail, taken, messages>>
  <2>1. ASSUME UNCHANGED <<avail, taken, returned>>
        PROVE  UNCHANGED <<Wants, avail, taken, messages>>
    BY <2>1 DEF MessageOf
  <2>2. ASSUME NEW o \in Orders, Call(o) PROVE UNCHANGED <<avail, taken, returned>>
    BY <2>2 DEF Call, Saga!Reject, Saga!StartProducer, Saga!SendHalf,
       Saga!GetGoodsDetail, Saga!CreateOrderWithTransaction, Saga!SendDelay,
       Saga!EndTransaction, Saga!Reply, Saga!stores
  <2>3. ASSUME NEW o \in Orders, Reduce(o)
        PROVE  [Ledger!Next]_<<Wants, avail, taken, messages>>
    <3>1. UNCHANGED returned /\ pc[o] = "reduce"
      BY <2>3 DEF Reduce, Saga!ReduceRepertory
    <3>2. CASE taken' = taken /\ UNCHANGED avail
      BY <2>1, <3>1, <3>2
    <3>3. CASE /\ taken' # taken
               /\ Enough(o)
               /\ avail' = [avail EXCEPT ![Wants[o].goods] = @ - Wants[o].num]
      <4>1. taken' = taken \cup {o} /\ o \notin taken
        BY <2>3, <3>1, <3>3, <1>2 DEF Reduce, Saga!ReduceRepertory, TakenInv
      <4>2. Wants[o].goods \in Goods /\ Wants[o].num \in Nat /\ Wants[o].num > 0
        BY ShopAssumptions
      <4>3. UNCHANGED messages
        BY <3>1 DEF MessageOf
      <4>4. Ledger!Deduct(o)
        BY <3>3, <4>1, <4>2, <4>3 DEF Ledger!Deduct, Enough
      <4>5. QED
        BY <4>4 DEF Ledger!Next
    <3>4. QED
      BY <2>3, <3>2, <3>3 DEF Reduce
  <2>4. ASSUME NEW o \in Orders, NEW k \in Saga!Copies, DeliverRollback(o, k)
        PROVE  Ledger!Next
    BY <1>2, <2>4, ReturnsMessage DEF DeliverRollback, Saga!DeliverRollback
  <2>5. ASSUME NEW o \in Orders, DeliverTimeoutRollback(o)
        PROVE  Ledger!Next
    BY <1>2, <2>5, ReturnsMessage DEF DeliverTimeoutRollback, Owed
  <2>6. ASSUME \/ \E o \in Orders, k \in Saga!Copies : Check(o, k)
               \/ Crash
               \/ \E o \in Orders : Pay(o)
               \/ \E i \in Invocations : OrderTimeout(i)
               \/ Finished \/ UNCHANGED vars
        PROVE  UNCHANGED <<avail, taken, returned>>
    BY <2>6 DEF Check, Saga!CheckLocalTransaction, Crash, Saga!Crash, Saga!stores,
       Pay, OrderTimeout, Finished, vars, sagaVars
  <2>7. QED
    BY <1>2, <2>1, <2>2, <2>3, <2>4, <2>5, <2>6 DEF Next, OrderStep
<1>3. QED
  BY <1>1, <1>2, TypeCorrect, TakenInvariant, PTL DEF Spec, LedgerSpec, Ledger!Spec

\* The composition runs the payment timeout as it is: it restricts when an order
\* is paid and when a batch comes, and adds no step of its own.
THEOREM TimeoutIsTimer == Spec => TimerSpec
<1>1. Init => Timer!Init
  BY DEF Init
<1>2. [Next]_vars => [Timer!Next]_timerVars
  <2> SUFFICES ASSUME [Next]_vars PROVE Timer!Next \/ UNCHANGED timerVars
    OBVIOUS
  <2>1. ASSUME NEW o \in Orders, Call(o) \/ Reduce(o) \/ DeliverTimeoutRollback(o)
        PROVE  UNCHANGED timerVars
    BY <2>1 DEF Call, Reduce, DeliverTimeoutRollback
  <2>2. ASSUME NEW o \in Orders, NEW k \in Saga!Copies, Check(o, k) \/ DeliverRollback(o, k)
        PROVE  UNCHANGED timerVars
    BY <2>2 DEF Check, DeliverRollback
  <2>3. ASSUME NEW o \in Orders, Pay(o) PROVE Timer!Next
    BY <2>3 DEF Pay, Timer!Next
  <2>4. ASSUME NEW i \in Invocations, OrderTimeout(i) PROVE Timer!Next
    BY <2>4 DEF OrderTimeout, Timer!Next
  <2>5. CASE Crash \/ Finished \/ UNCHANGED vars
    BY <2>5 DEF Crash, Finished, vars
  <2>6. QED
    BY <2>1, <2>2, <2>3, <2>4, <2>5 DEF Next, OrderStep
<1>3. QED
  BY <1>1, <1>2, PTL DEF Spec, TimerSpec, Timer!Spec, Timer!vars, timerVars

\* Hence what PayTimeoutProofs proves of the timeout holds in the composition.
TimerProofs == INSTANCE PayTimeoutProofs WITH
  pc <- step, SendTopic <- "pay_timeout", SubscribedTopic <- "pay_timeout"

\* The timer that PayTimeoutProofs is about is the one of Shop.
LEMMA SameTimer ==
  /\ Timer!Init <=> TimerProofs!Init
  /\ Timer!Next <=> TimerProofs!Next
  /\ Timer!vars = TimerProofs!vars
  /\ Timer!ClosedMeansReleased <=> TimerProofs!ClosedMeansReleased
  /\ \A o \in Orders : Timer!BeingClosed(o) <=> TimerProofs!BeingClosed(o)
  /\ \A o \in Orders : Timer!BeingClosed(o)' <=> TimerProofs!BeingClosed(o)'
<1>1. \A i \in Invocations : Timer!Current(i) = TimerProofs!Current(i)
  BY DEF Timer!Current, TimerProofs!Current
<1>2. ASSUME NEW i \in Invocations
      PROVE  /\ Timer!Deliver(i) <=> TimerProofs!Deliver(i)
             /\ Timer!Crash(i) <=> TimerProofs!Crash(i)
             /\ Timer!ConsumeSuccess(i) <=> TimerProofs!ConsumeSuccess(i)
             /\ Timer!SkipMalformed(i) <=> TimerProofs!SkipMalformed(i)
             /\ Timer!QueryOrder(i) <=> TimerProofs!QueryOrder(i)
             /\ Timer!SendRollback(i) <=> TimerProofs!SendRollback(i)
             /\ Timer!UpdateOrder(i) <=> TimerProofs!UpdateOrder(i)
  BY <1>1 DEF Timer!Deliver, TimerProofs!Deliver, Timer!Crash, TimerProofs!Crash,
     Timer!ConsumeSuccess, TimerProofs!ConsumeSuccess, Timer!SkipMalformed,
     TimerProofs!SkipMalformed, Timer!QueryOrder, TimerProofs!QueryOrder,
     Timer!SendRollback, TimerProofs!SendRollback, Timer!UpdateOrder,
     TimerProofs!UpdateOrder, Timer!Fault, TimerProofs!Fault, Timer!Advance,
     TimerProofs!Advance, Timer!RetryLater, TimerProofs!RetryLater, Timer!MoreAttempts,
     TimerProofs!MoreAttempts, Timer!ToBePaid, TimerProofs!ToBePaid,
     Timer!OnQueryError, TimerProofs!OnQueryError, Timer!OnSendError,
     TimerProofs!OnSendError
<1>3. \A o \in Orders : Timer!Pay(o) <=> TimerProofs!Pay(o)
  BY DEF Timer!Pay, TimerProofs!Pay
<1>4. /\ Timer!vars = TimerProofs!vars
      /\ Timer!Finished <=> TimerProofs!Finished
      /\ Timer!Init <=> TimerProofs!Init
      /\ Timer!ClosedMeansReleased <=> TimerProofs!ClosedMeansReleased
  BY DEF Timer!vars, TimerProofs!vars, Timer!Finished, TimerProofs!Finished, Timer!Init,
     TimerProofs!Init, Timer!ClosedMeansReleased, TimerProofs!ClosedMeansReleased
<1>5. \A i \in Invocations : Timer!Handle(i) <=> TimerProofs!Handle(i)
  BY <1>2 DEF Timer!Handle, TimerProofs!Handle
<1>6. Timer!Next <=> TimerProofs!Next
  BY <1>2, <1>3, <1>4, <1>5 DEF Timer!Next, TimerProofs!Next
<1>7. \A o \in Orders : Timer!BeingClosed(o) <=> TimerProofs!BeingClosed(o)
  BY <1>1 DEF Timer!BeingClosed, TimerProofs!BeingClosed
<1>8. \A o \in Orders : Timer!BeingClosed(o)' <=> TimerProofs!BeingClosed(o)'
  BY DEF Timer!BeingClosed, TimerProofs!BeingClosed, Timer!Current, TimerProofs!Current
<1>9. QED
  BY <1>4, <1>6, <1>7, <1>8

LEMMA TimerRuns == Spec => TimerProofs!Spec
<1>1. Timer!Init => TimerProofs!Init
  BY SameTimer
<1>2. [Timer!Next]_(Timer!vars) => [TimerProofs!Next]_(TimerProofs!vars)
  BY SameTimer DEF Timer!vars, TimerProofs!vars
<1>3. QED
  BY <1>1, <1>2, TimeoutIsTimer, PTL DEF TimerSpec, Timer!Spec, TimerProofs!Spec

\* In the composition too no order is closed before the message that gives its
\* units back is out.
THEOREM ClosedIsReleased == Spec => []Timer!ClosedMeansReleased
<1>1. TimerProofs!ClosedMeansReleased => Timer!ClosedMeansReleased
  BY SameTimer
<1>2. QED
  BY <1>1, TimerRuns, TimerProofs!ClosedIsReleased, ShopAssumptions, PTL

\* A payment that no invocation overlooked is never undone, its order never
\* closed and its units never released, whatever the saga and the broker do.
THEOREM PaymentIsFinal == Spec => Timer!PaidIsFinal
<1> DEFINE Final == \A o \in Orders :
                      status[o] = 200 /\ ~Timer!BeingClosed(o)
                        => /\ status'[o] = 200 /\ ~Timer!BeingClosed(o)'
                           /\ o \in released' => o \in released
           ProvedFinal == \A o \in Orders :
                      status[o] = 200 /\ ~TimerProofs!BeingClosed(o)
                        => /\ status'[o] = 200 /\ ~TimerProofs!BeingClosed(o)'
                           /\ o \in released' => o \in released
<1>1. [ProvedFinal]_(TimerProofs!vars) => [Final]_(Timer!vars)
  BY SameTimer DEF Timer!vars, TimerProofs!vars
<1>2. QED
  BY <1>1, TimerRuns, TimerProofs!PaymentIsFinal, ShopAssumptions, PTL
     DEF Timer!PaidIsFinal, TimerProofs!PaidIsFinal

\* And what OrderCreateProofs proves of the saga, none of which is about the units
\* that come back: a step that gives units back is no step of this saga.
SagaProofs == INSTANCE OrderCreateProofs WITH returned <- {}

\* The saga's steps, but for the deliveries of its messages, are those that
\* OrderCreateProofs is about.
LEMMA SameSaga ==
  /\ Saga!Init => SagaProofs!Init
  /\ \A o \in Orders :
       /\ Saga!Reject(o) => SagaProofs!Reject(o)
       /\ Saga!StartProducer(o) => SagaProofs!StartProducer(o)
       /\ Saga!SendHalf(o) => SagaProofs!SendHalf(o)
       /\ Saga!GetGoodsDetail(o) => SagaProofs!GetGoodsDetail(o)
       /\ Saga!ReduceRepertory(o) => SagaProofs!ReduceRepertory(o)
       /\ Saga!CreateOrderWithTransaction(o) => SagaProofs!CreateOrderWithTransaction(o)
       /\ Saga!SendDelay(o) => SagaProofs!SendDelay(o)
       /\ Saga!EndTransaction(o) => SagaProofs!EndTransaction(o)
       /\ Saga!Reply(o) => SagaProofs!Reply(o)
  /\ \A o \in Orders, k \in Saga!Copies :
       Saga!CheckLocalTransaction(o, k)
         => k \in SagaProofs!Copies /\ SagaProofs!CheckLocalTransaction(o, k)
  /\ Saga!Crash => SagaProofs!Crash
  /\ SagaProofs!OkMeansComplete => Saga!OkMeansComplete
  /\ SagaProofs!ErrMeansNoOrder => Saga!ErrMeansNoOrder
  /\ SagaProofs!ReleasedMeansNoOrder => Saga!ReleasedMeansNoOrder
<1> USE DEF Saga!Copies, SagaProofs!Copies, Saga!Executing, SagaProofs!Executing,
            Saga!Goto, SagaProofs!Goto, Saga!Answer, SagaProofs!Answer,
            Saga!Return, SagaProofs!Return, Saga!Fail, SagaProofs!Fail,
            Saga!local, SagaProofs!local, Saga!stores, SagaProofs!stores
<1>1. Saga!Init => SagaProofs!Init
  BY DEF Saga!Init, SagaProofs!Init
<1>2. ASSUME NEW o \in Orders
      PROVE  /\ Saga!Reject(o) => SagaProofs!Reject(o)
             /\ Saga!StartProducer(o) => SagaProofs!StartProducer(o)
             /\ Saga!GetGoodsDetail(o) => SagaProofs!GetGoodsDetail(o)
             /\ Saga!ReduceRepertory(o) => SagaProofs!ReduceRepertory(o)
             /\ Saga!SendDelay(o) => SagaProofs!SendDelay(o)
             /\ Saga!EndTransaction(o) => SagaProofs!EndTransaction(o)
  BY DEF Saga!Reject, SagaProofs!Reject, Saga!StartProducer, SagaProofs!StartProducer,
     Saga!GetGoodsDetail, SagaProofs!GetGoodsDetail, Saga!ReduceRepertory,
     SagaProofs!ReduceRepertory, Saga!SendDelay, SagaProofs!SendDelay,
     Saga!EndTransaction, SagaProofs!EndTransaction
<1>3. ASSUME NEW o \in Orders
      PROVE  /\ Saga!SendHalf(o) => SagaProofs!SendHalf(o)
             /\ Saga!CreateOrderWithTransaction(o)
                  => SagaProofs!CreateOrderWithTransaction(o)
             /\ Saga!Reply(o) => SagaProofs!Reply(o)
  BY DEF Saga!SendHalf, SagaProofs!SendHalf, Saga!Store, SagaProofs!Store,
     Saga!CreateOrderWithTransaction, SagaProofs!CreateOrderWithTransaction,
     Saga!RowsErrorVerdict, SagaProofs!RowsErrorVerdict, Saga!Reply, SagaProofs!Reply,
     Saga!ReplyOf, SagaProofs!ReplyOf
<1>4. ASSUME NEW o \in Orders, NEW k \in Saga!Copies, Saga!CheckLocalTransaction(o, k)
      PROVE  k \in SagaProofs!Copies /\ SagaProofs!CheckLocalTransaction(o, k)
  BY <1>4 DEF Saga!CheckLocalTransaction, SagaProofs!CheckLocalTransaction,
     Saga!Answers, SagaProofs!Answers
<1>5. Saga!Crash => SagaProofs!Crash
  BY DEF Saga!Crash, SagaProofs!Crash
<1>6. /\ SagaProofs!OkMeansComplete => Saga!OkMeansComplete
      /\ SagaProofs!ErrMeansNoOrder => Saga!ErrMeansNoOrder
      /\ SagaProofs!ReleasedMeansNoOrder => Saga!ReleasedMeansNoOrder
  BY DEF Saga!OkMeansComplete, SagaProofs!OkMeansComplete, Saga!ErrMeansNoOrder,
     SagaProofs!ErrMeansNoOrder, Saga!ReleasedMeansNoOrder,
     SagaProofs!ReleasedMeansNoOrder
<1>7. QED
  BY <1>1, <1>2, <1>3, <1>4, <1>5, <1>6

LEMMA SagaAssumed == SagaProofs!OrderCreateAssumptions
BY ShopAssumptions DEF Saga!OrderCreateAssumptions, SagaProofs!OrderCreateAssumptions,
   Saga!AllFaults, SagaProofs!AllFaults

LEMMA SagaRuns == Spec => SagaProofs!Spec
<1>1. Init => SagaProofs!Init
  BY SameSaga DEF Init
<1>2. [Next]_vars => [SagaProofs!Next]_(SagaProofs!vars)
  <2> SUFFICES ASSUME [Next]_vars PROVE SagaProofs!Next \/ UNCHANGED SagaProofs!vars
    OBVIOUS
  <2>1. ASSUME NEW o \in Orders, Call(o) \/ Reduce(o) PROVE SagaProofs!Next
    BY <2>1, SameSaga DEF Call, Reduce, SagaProofs!Next, SagaProofs!CallStep
  <2>2. ASSUME NEW o \in Orders, NEW k \in Saga!Copies, Check(o, k)
        PROVE  SagaProofs!Next
    BY <2>2, SameSaga DEF Check, SagaProofs!Next, SagaProofs!BrokerStep
  <2>3. CASE Crash
    BY <2>3, SameSaga DEF Crash, SagaProofs!Next
  <2>4. ASSUME UNCHANGED <<pc, live, verdict, failed, half, taken, placed, delayed, reply>>
        PROVE  UNCHANGED SagaProofs!vars
    BY <2>4 DEF SagaProofs!vars
  <2>5. ASSUME \/ \E o \in Orders, k \in Saga!Copies : DeliverRollback(o, k)
               \/ \E o \in Orders : Pay(o) \/ DeliverTimeoutRollback(o)
               \/ \E i \in Invocations : OrderTimeout(i)
               \/ Finished \/ UNCHANGED vars
        PROVE  UNCHANGED SagaProofs!vars
    BY <2>4, <2>5 DEF DeliverRollback, Saga!DeliverRollback, Saga!local, Pay,
       DeliverTimeoutRollback, OrderTimeout, Finished, vars, sagaVars
  <2>6. QED
    BY <2>1, <2>2, <2>3, <2>5 DEF Next, OrderStep
<1>3. QED
  BY <1>1, <1>2, PTL DEF Spec, SagaProofs!Spec

\* In the composition an answer OK means an order that exists, whose units were
\* taken and whose timeout message is out.
THEOREM OkIsComplete ==
  ASSUME Faults \cap {"half_status", "reduce_silent"} = {}
  PROVE  Spec => []Saga!OkMeansComplete
<1>1. SagaProofs!Spec => []SagaProofs!OkMeansComplete
  BY SagaAssumed, SagaProofs!OkIsComplete
<1>2. SagaProofs!OkMeansComplete => Saga!OkMeansComplete
  BY SameSaga
<1>3. QED
  BY <1>1, <1>2, SagaRuns, PTL

\* An error means that there is no order, not even one that is paid or timed out.
THEOREM ErrIsClean ==
  ASSUME Faults \cap {"rows_unsure", "delay_error"} = {}
  PROVE  Spec => []Saga!ErrMeansNoOrder
<1>1. SagaProofs!Spec => []SagaProofs!ErrMeansNoOrder
  BY SagaAssumed, SagaProofs!ErrIsClean
<1>2. SagaProofs!ErrMeansNoOrder => Saga!ErrMeansNoOrder
  BY SameSaga
<1>3. QED
  BY <1>1, <1>2, SagaRuns, PTL

\* The saga's message is released for no order that exists, although the timeout
\* sends messages for the same orders.
THEOREM ReleaseIsSafe ==
  ASSUME Faults \cap {"rows_unsure", "delay_error", "early_check"} = {},
         \A o \in Orders : Answerers[o] \subseteq {o}
  PROVE  Spec => []Saga!ReleasedMeansNoOrder
<1>1. SagaProofs!Spec => []SagaProofs!ReleasedMeansNoOrder
  BY SagaAssumed, SagaProofs!ReleaseIsSafe
<1>2. SagaProofs!ReleasedMeansNoOrder => Saga!ReleasedMeansNoOrder
  BY SameSaga
<1>3. QED
  BY <1>1, <1>2, SagaRuns, PTL
=============================================================================
