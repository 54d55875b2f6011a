-------------------------- MODULE OrderCreateProofs --------------------------
(***************************************************************************)
(* Machine-checked proofs about OrderCreate: which faults each promise of  *)
(* CreateOrder survives, for any number of orders and any interleaving with*)
(* the broker's checks and with crashes.                                   *)
(***************************************************************************)
EXTENDS OrderCreate, TLAPS

Finishing(o) == pc[o] \in {"end", "answer"}

\* What a call has done at each place, as far as an OK needs it.
OkInv ==
  \A o \in Orders :
    /\ pc[o] \in {"rows", "delay"} => o \in taken
    /\ pc[o] = "delay" => o \in placed
    /\ Finishing(o) =>
         \/ verdict[o] = "commit"
         \/ o \in failed
         \/ o \in placed \cap taken \cap delayed
    /\ reply[o] = "ok" => o \in placed \cap taken \cap delayed

\* A call that is to answer with an error has no order, and gets none later.
ErrInv ==
  \A o \in Orders :
    /\ pc[o] \in {"idle", "half", "goods", "reduce", "rows"} => o \notin placed
    /\ o \in failed => pc[o] \in {"end", "answer", "done"}
    /\ Finishing(o) /\ (verdict[o] = "commit" \/ o \in failed) => o \notin placed
    /\ reply[o] = "err" => pc[o] = "done" /\ o \notin placed

\* A message is released only when its local transaction is over.
ReleasedInv ==
  \A o \in Orders, k \in Copies :
    /\ pc[o] \in {"idle", "half"} => half[o][k] = "none"
    /\ half[o][k] = "committed" =>
         pc[o] \in {"end", "answer", "done"} /\ o \notin placed

-----------------------------------------------------------------------------
\* Every variable keeps its type, whatever goes wrong.
THEOREM TypeCorrect == Spec => []TypeOK
<1> USE OrderCreateAssumptions
<1>1. Init => TypeOK
  BY DEF Init, TypeOK
<1>2. TypeOK /\ [Next]_vars => TypeOK'
  <2> SUFFICES ASSUME TypeOK, [Next]_vars PROVE TypeOK'
    OBVIOUS
  <2> USE DEF TypeOK, Goto, Answer, Return, Fail, local, stores, Copies
  <2>1. ASSUME NEW o \in Orders, Reject(o) PROVE TypeOK'
    BY <2>1 DEF Reject
  <2>2. ASSUME NEW o \in Orders, StartProducer(o) PROVE TypeOK'
    BY <2>2 DEF StartProducer
  <2>3. ASSUME NEW o \in Orders, SendHalf(o) PROVE TypeOK'
    <3>1. half' \in [Orders -> [Copies -> {"none", "prepared", "committed", "dropped"}]]
      BY <2>3 DEF SendHalf, Store
    <3>2. CASE Goto(o, "goods") /\ UNCHANGED <<verdict, reply>>
      BY <2>3, <3>1, <3>2 DEF SendHalf
    <3>3. CASE Return(o, "rollback") /\ UNCHANGED reply
      BY <2>3, <3>1, <3>3 DEF SendHalf
    <3>4. CASE Answer(o, "err") /\ UNCHANGED verdict
      BY <2>3, <3>1, <3>4 DEF SendHalf
    <3>5. QED
      BY <2>3, <3>2, <3>3, <3>4 DEF SendHalf
  <2>4. ASSUME NEW o \in Orders, GetGoodsDetail(o) PROVE TypeOK'
    <3>1. CASE Goto(o, "reduce") /\ UNCHANGED local
      BY <2>4, <3>1 DEF GetGoodsDetail
    <3>2. CASE Fail(o)
      BY <2>4, <3>2 DEF GetGoodsDetail
    <3>3. QED
      BY <2>4, <3>1, <3>2 DEF GetGoodsDetail
  <2>5. ASSUME NEW o \in Orders, ReduceRepertory(o) PROVE TypeOK'
    BY <2>5 DEF ReduceRepertory
  <2>6. ASSUME NEW o \in Orders, CreateOrderWithTransaction(o) PROVE TypeOK'
    <3>1. placed' \subseteq Orders
      BY <2>6 DEF CreateOrderWithTransaction, RowsErrorVerdict
    <3>2. CASE Goto(o, "delay") /\ UNCHANGED verdict
      BY <2>6, <3>1, <3>2 DEF CreateOrderWithTransaction, RowsErrorVerdict
    <3>3. CASE Return(o, RowsErrorVerdict)
      BY <2>6, <3>1, <3>3 DEF CreateOrderWithTransaction, RowsErrorVerdict
    <3>4. QED
      BY <2>6, <3>2, <3>3 DEF CreateOrderWithTransaction, RowsErrorVerdict
  <2>7. ASSUME NEW o \in Orders, SendDelay(o) PROVE TypeOK'
    <3>1. delayed' \subseteq Orders
      BY <2>7 DEF SendDelay
    <3>2. ASSUME NEW v \in {"commit", "rollback"}, Return(o, v) PROVE TypeOK'
      BY <2>7, <3>1, <3>2 DEF SendDelay
    <3>3. QED
      BY <2>7, <3>2 DEF SendDelay
  <2>8. ASSUME NEW o \in Orders, EndTransaction(o) PROVE TypeOK'
    BY <2>8 DEF EndTransaction
  <2>9. ASSUME NEW o \in Orders, Reply(o) PROVE TypeOK'
    BY <2>9 DEF Reply, ReplyOf
  <2>10. ASSUME NEW o \in Orders, NEW k \in Copies, CheckLocalTransaction(o, k)
         PROVE  TypeOK'
    BY <2>10 DEF CheckLocalTransaction, Answers
  <2>11. ASSUME NEW o \in Orders, NEW k \in Copies, GiveUp(o, k) PROVE TypeOK'
    BY <2>11 DEF GiveUp
  <2>12. ASSUME NEW o \in Orders, NEW k \in Copies, DeliverRollback(o, k) PROVE TypeOK'
    BY <2>12 DEF DeliverRollback
  <2>13. CASE Crash
    BY <2>13 DEF Crash
  <2>14. CASE Finished \/ UNCHANGED vars
    BY <2>14 DEF Finished, vars
  <2>15. QED
    BY <2>1, <2>2, <2>3, <2>4, <2>5, <2>6, <2>7, <2>8, <2>9, <2>10, <2>11, <2>12,
       <2>13, <2>14 DEF Next, CallStep, BrokerStep
<1>3. QED
  BY <1>1, <1>2, PTL DEF Spec

-----------------------------------------------------------------------------
\* An OK means a complete order, whatever else goes wrong, as long as the half
\* message is stored with SendOK and ReduceRepertory does not lie.
THEOREM OkIsComplete ==
  ASSUME Faults \cap {"half_status", "reduce_silent"} = {}
  PROVE  Spec => []OkMeansComplete
<1> USE OrderCreateAssumptions
<1>1. Init => OkInv
  BY DEF Init, OkInv, Finishing
<1>2. TypeOK /\ OkInv /\ [Next]_vars => OkInv'
  <2> SUFFICES ASSUME TypeOK, OkInv, [Next]_vars PROVE OkInv'
    OBVIOUS
  <2> USE DEF TypeOK, OkInv, Finishing, Goto, Answer, Return, Fail, local, stores
  <2>1. ASSUME NEW o \in Orders, Reject(o) PROVE OkInv'
    BY <2>1 DEF Reject
  <2>2. ASSUME NEW o \in Orders, StartProducer(o) PROVE OkInv'
    BY <2>2 DEF StartProducer
  <2>3. ASSUME NEW o \in Orders, SendHalf(o) PROVE OkInv'
    BY <2>3 DEF SendHalf
  <2>4. ASSUME NEW o \in Orders, GetGoodsDetail(o) PROVE OkInv'
    BY <2>4 DEF GetGoodsDetail
  <2>5. ASSUME NEW o \in Orders, ReduceRepertory(o) PROVE OkInv'
    BY <2>5 DEF ReduceRepertory
  <2>6. ASSUME NEW o \in Orders, CreateOrderWithTransaction(o) PROVE OkInv'
    BY <2>6 DEF CreateOrderWithTransaction, RowsErrorVerdict
  <2>7. ASSUME NEW o \in Orders, SendDelay(o) PROVE OkInv'
    BY <2>7 DEF SendDelay
  <2>8. ASSUME NEW o \in Orders, EndTransaction(o) PROVE OkInv'
    BY <2>8 DEF EndTransaction
  <2>9. ASSUME NEW o \in Orders, Reply(o) PROVE OkInv'
    BY <2>9 DEF Reply, ReplyOf
  <2>10. ASSUME NEW o \in Orders, NEW k \in Copies,
                CheckLocalTransaction(o, k) \/ GiveUp(o, k) \/ DeliverRollback(o, k)
         PROVE  OkInv'
    BY <2>10 DEF CheckLocalTransaction, GiveUp, DeliverRollback
  <2>11. CASE Crash
    BY <2>11 DEF Crash
  <2>12. CASE Finished \/ UNCHANGED vars
    BY <2>12 DEF Finished, vars
  <2>13. QED
    BY <2>1, <2>2, <2>3, <2>4, <2>5, <2>6, <2>7, <2>8, <2>9, <2>10, <2>11, <2>12
       DEF Next, CallStep, BrokerStep
<1>3. OkInv => OkMeansComplete
  BY DEF OkInv, OkMeansComplete
<1>4. QED
  BY <1>1, <1>2, <1>3, TypeCorrect, PTL DEF Spec

-----------------------------------------------------------------------------
LEMMA ErrStep ==
  ASSUME Faults \cap {"rows_unsure", "delay_error"} = {},
         TypeOK, ErrInv, [Next]_vars
  PROVE  ErrInv'
<1> USE OrderCreateAssumptions
    DEF TypeOK, ErrInv, Finishing, Goto, Answer, Return, Fail, local, stores
<1>1. ASSUME NEW o \in Orders, Reject(o) PROVE ErrInv'
  BY <1>1 DEF Reject
<1>2. ASSUME NEW o \in Orders, StartProducer(o) PROVE ErrInv'
  BY <1>2 DEF StartProducer
<1>3. ASSUME NEW o \in Orders, SendHalf(o) PROVE ErrInv'
  BY <1>3 DEF SendHalf
<1>4. ASSUME NEW o \in Orders, GetGoodsDetail(o) PROVE ErrInv'
  BY <1>4 DEF GetGoodsDetail
<1>5. ASSUME NEW o \in Orders, ReduceRepertory(o) PROVE ErrInv'
  BY <1>5 DEF ReduceRepertory
<1>6. ASSUME NEW o \in Orders, CreateOrderWithTransaction(o) PROVE ErrInv'
  BY <1>6 DEF CreateOrderWithTransaction, RowsErrorVerdict
<1>7. ASSUME NEW o \in Orders, SendDelay(o) PROVE ErrInv'
  BY <1>7 DEF SendDelay
<1>8. ASSUME NEW o \in Orders, EndTransaction(o) PROVE ErrInv'
  BY <1>8 DEF EndTransaction
<1>9. ASSUME NEW o \in Orders, Reply(o) PROVE ErrInv'
  BY <1>9 DEF Reply, ReplyOf
<1>10. ASSUME NEW o \in Orders, NEW k \in Copies,
              CheckLocalTransaction(o, k) \/ GiveUp(o, k) \/ DeliverRollback(o, k)
       PROVE  ErrInv'
  BY <1>10 DEF CheckLocalTransaction, GiveUp, DeliverRollback
<1>11. CASE Crash
  BY <1>11 DEF Crash
<1>12. CASE Finished \/ UNCHANGED vars
  BY <1>12 DEF Finished, vars
<1>13. QED
  BY <1>1, <1>2, <1>3, <1>4, <1>5, <1>6, <1>7, <1>8, <1>9, <1>10, <1>11, <1>12
     DEF Next, CallStep, BrokerStep

\* An error means that there is no order, whatever else goes wrong, as long as
\* neither a commit nor the delayed message fails after the order is stored.
THEOREM ErrIsClean ==
  ASSUME Faults \cap {"rows_unsure", "delay_error"} = {}
  PROVE  Spec => []ErrMeansNoOrder
<1>1. Init => ErrInv
  BY DEF Init, ErrInv, Finishing
<1>2. TypeOK /\ ErrInv /\ [Next]_vars => ErrInv'
  BY ErrStep
<1>3. ErrInv => ErrMeansNoOrder
  BY DEF ErrInv, ErrMeansNoOrder
<1>4. QED
  BY <1>1, <1>2, <1>3, TypeCorrect, PTL DEF Spec

-----------------------------------------------------------------------------
\* ErrInv makes the verdict right; waiting for the verdict and asking the
\* order's own producer make the answers to checks right.
LEMMA ReleasedStep ==
  ASSUME Faults \cap {"rows_unsure", "delay_error", "early_check"} = {},
         \A o \in Orders : Answerers[o] \subseteq {o},
         TypeOK, ErrInv, ReleasedInv, [Next]_vars
  PROVE  ReleasedInv'
<1> USE OrderCreateAssumptions
    DEF TypeOK, ReleasedInv, Copies, Goto, Answer, Return, Fail, local, stores
<1>1. ASSUME NEW o \in Orders, Reject(o) PROVE ReleasedInv'
  BY <1>1 DEF Reject
<1>2. ASSUME NEW o \in Orders, StartProducer(o) PROVE ReleasedInv'
  BY <1>2 DEF StartProducer
<1>3. ASSUME NEW o \in Orders, SendHalf(o) PROVE ReleasedInv'
  <2>1. /\ \A p \in Orders : p # o => half'[p] = half[p] /\ pc'[p] = pc[p]
        /\ \A k \in Copies : half'[o][k] \in {"none", "prepared"}
    BY <1>3 DEF SendHalf, Store
  <2>2. pc'[o] \in {"goods", "end", "done"} /\ placed' = placed
    BY <1>3 DEF SendHalf
  <2>3. QED
    BY <2>1, <2>2
<1>4. ASSUME NEW o \in Orders, GetGoodsDetail(o) PROVE ReleasedInv'
  BY <1>4 DEF GetGoodsDetail
<1>5. ASSUME NEW o \in Orders, ReduceRepertory(o) PROVE ReleasedInv'
  BY <1>5 DEF ReduceRepertory
<1>6. ASSUME NEW o \in Orders, CreateOrderWithTransaction(o) PROVE ReleasedInv'
  BY <1>6 DEF CreateOrderWithTransaction, RowsErrorVerdict
<1>7. ASSUME NEW o \in Orders, SendDelay(o) PROVE ReleasedInv'
  BY <1>7 DEF SendDelay
<1>8. ASSUME NEW o \in Orders, EndTransaction(o) PROVE ReleasedInv'
  BY <1>8 DEF EndTransaction, ErrInv, Finishing
<1>9. ASSUME NEW o \in Orders, Reply(o) PROVE ReleasedInv'
  BY <1>9 DEF Reply, ReplyOf
<1>10. ASSUME NEW o \in Orders, NEW k \in Copies, CheckLocalTransaction(o, k)
       PROVE  ReleasedInv'
  BY <1>10 DEF CheckLocalTransaction, Executing, Answers
<1>11. ASSUME NEW o \in Orders, NEW k \in Copies, GiveUp(o, k) \/ DeliverRollback(o, k)
       PROVE  ReleasedInv'
  BY <1>11 DEF GiveUp, DeliverRollback
<1>12. CASE Crash
  BY <1>12 DEF Crash
<1>13. CASE Finished \/ UNCHANGED vars
  BY <1>13 DEF Finished, vars
<1>14. QED
  BY <1>1, <1>2, <1>3, <1>4, <1>5, <1>6, <1>7, <1>8, <1>9, <1>10, <1>11, <1>12, <1>13
     DEF Next, CallStep, BrokerStep

\* The rollback message of an order is released only if the order does not
\* exist and never will, with lost verdicts, lost sends, stray copies and
\* crashes; it takes that the broker asks late enough and the right producer.
THEOREM ReleaseIsSafe ==
  ASSUME Faults \cap {"rows_unsure", "delay_error", "early_check"} = {},
         \A o \in Orders : Answerers[o] \subseteq {o}
  PROVE  Spec => []ReleasedMeansNoOrder
<1>1. Init => ErrInv /\ ReleasedInv
  BY DEF Init, ErrInv, ReleasedInv, Finishing, Copies
<1>2. TypeOK /\ ErrInv /\ ReleasedInv /\ [Next]_vars => ErrInv' /\ ReleasedInv'
  BY ErrStep, ReleasedStep
<1>3. ReleasedInv => ReleasedMeansNoOrder
  BY DEF ReleasedInv, ReleasedMeansNoOrder
<1>4. QED
  BY <1>1, <1>2, <1>3, TypeCorrect, PTL DEF Spec
=============================================================================
