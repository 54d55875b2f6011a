--------------------------- MODULE RepertoryProofs ---------------------------
(***************************************************************************)
(* Machine-checked proofs about Repertory.  TypeOK holds of every instance.*)
(* Mutual exclusion needs that no live holder outlasts the mutex's expiry. *)
(* Conservation of stock and the refinement of StockLedger hold as long as *)
(* the transactions on one row are serial, however that comes about.  The  *)
(* mutex makes those of the calls serial; nothing of the code does that for*)
(* the handlers', and what is left to assume is that they come one by one. *)
(***************************************************************************)
EXTENDS Repertory, TLAPS

\* A worker has read the row that it is about to write.
InTransaction(w) == pc[w] \in {"save", "commit"}

\* No two transactions on the same row overlap, but for those of deliveries of
\* one message.
Serial ==
  \A w1, w2 \in Workers :
    InTransaction(w1) /\ InTransaction(w2) /\ GoodsOf(w1) = GoodsOf(w2) /\ w1 # w2
      => w1 \in Deliveries /\ w2 \in Deliveries /\ msg[w1] = msg[w2]

\* No handler's transaction overlaps another one on its row, a call's or that of
\* a handler with another message.  Of two calls nothing is said.
RollbacksApart ==
  \A d \in Deliveries, w \in Workers :
    InTransaction(d) /\ InTransaction(w) /\ GoodsOf(d) = GoodsOf(w)
      => w \in Deliveries /\ msg[w] = msg[d]

\* A call between mutex.Lock and the end of its transaction owns the mutex.
HolderInv ==
  \A c \in Calls : pc[c] \in {"read", "save", "commit"} => holder[job[c].goods] = c

\* Only accepted requests get to the mutex.
AcceptedInv == \A c \in Calls : pc[c] \in {"lock", "read"} => job[c].num > 0

\* The row a call is about to write differs from the committed one by its own
\* deduction, which leaves something.
CallViewInv ==
  \A c \in Calls : InTransaction(c) =>
    /\ job[c].goods \in Stocked
    /\ job[c].num > 0
    /\ view[c].num = stock[job[c].goods].num - job[c].num
    /\ view[c].num > 0

\* The row a handler is about to write adds its message's units, unless
\* another delivery of the message already did.
HandlerViewInv ==
  \A d \in Deliveries : InTransaction(d) =>
    /\ msg[d] \in Recorded
    /\ msg[d].goods \in Stocked
    /\ \/ record[msg[d]] = 1 /\ view[d].num = stock[msg[d].goods].num + msg[d].num
       \/ record[msg[d]] = 3 /\ view[d].num = stock[msg[d].goods].num

RecordInv == \A m \in Messages : record[m] # 0 => m \in Recorded

\* A call deducts in one transaction, after which it only unlocks and answers.
DeductedInv == \A c \in deducted : pc[c] \in {"unlock", "done"}

PositiveInv == \A g \in Stocked : stock[g].num > 0

StockInv ==
  /\ AcceptedInv
  /\ CallViewInv
  /\ HandlerViewInv
  /\ RecordInv
  /\ DeductedInv
  /\ PositiveInv
  /\ StockConserved

\* A step that leaves the tables alone and brings no worker into the part of a
\* transaction that follows its reads.
Quiet ==
  /\ UNCHANGED <<job, msg, stock, record, view, deducted, moved>>
  /\ \A w \in Workers :
       /\ InTransaction(w)' => InTransaction(w)
       /\ pc[w] \in {"unlock", "done"} => pc'[w] \in {"unlock", "done"}
  /\ \A c \in Calls :
       pc'[c] \in {"lock", "read"} => pc[c] \in {"lock", "read"} \/ job[c].num > 0

-----------------------------------------------------------------------------
\* Adding to or taking from one entry of a table of integers keeps it one.
LEMMA AddAt ==
  ASSUME NEW S, NEW f \in [S -> Int], NEW x, NEW k \in Int
  PROVE  /\ [f EXCEPT ![x] = @ + k] \in [S -> Int]
         /\ [f EXCEPT ![x] = @ - k] \in [S -> Int]
<1>1. CASE x \in S
  <2>1. f[x] + k \in Int /\ f[x] - k \in Int
    BY <1>1
  <2>2. QED
    BY <2>1
<1>2. CASE x \notin S
  BY <1>2
<1>3. QED
  BY <1>1, <1>2

\* Every variable keeps its type, whatever the constants.
THEOREM TypeCorrect == Spec => []TypeOK
<1> USE RepertoryAssumptions
<1>1. Init => TypeOK
  BY DEF Init, TypeOK, Workers, CallPC, HandlerPC, Row
<1>2. TypeOK /\ [Next]_vars => TypeOK'
  <2> SUFFICES ASSUME TypeOK, [Next]_vars PROVE TypeOK'
    OBVIOUS
  <2> USE DEF TypeOK, Workers, CallPC, HandlerPC, Row, inputs, tables, history,
              Goto, Answer, GoodsOf, FreeRows
  <2>1. ASSUME NEW c \in Calls, Reject(c) PROVE TypeOK'
    BY <2>1 DEF Reject
  <2>2. ASSUME NEW c \in Calls, Accept(c) PROVE TypeOK'
    BY <2>2 DEF Accept
  <2>3. ASSUME NEW c \in Calls, AcquireMutex(c) PROVE TypeOK'
    BY <2>3 DEF AcquireMutex, MutexFree
  <2>4. ASSUME NEW c \in Calls, MutexTryFails(c) PROVE TypeOK'
    <3>1. tries' \in [Calls -> Nat]
      BY <2>4 DEF MutexTryFails
    <3>2. CASE UNCHANGED <<pc, reply>>
      BY <2>4, <3>1, <3>2 DEF MutexTryFails
    <3>3. CASE Answer(c, "err")
      BY <2>4, <3>1, <3>3 DEF MutexTryFails
    <3>4. QED
      BY <2>4, <3>2, <3>3 DEF MutexTryFails
  <2>5. ASSUME NEW c \in Calls, ReadRow(c) PROVE TypeOK'
    <3>1. job[c].num \in Int /\ stock[job[c].goods] \in Row
      BY <2>5 DEF ReadRow, Enough
    <3>2. [stock[job[c].goods] EXCEPT !.num = @ - job[c].num] \in Row
      BY <3>1
    <3>3. view' \in [Workers -> Row]
      BY <2>5, <3>2 DEF ReadRow
    <3>4. QED
      BY <2>5, <3>3 DEF ReadRow
  <2>6. ASSUME NEW c \in Calls, Refuse(c) PROVE TypeOK'
    BY <2>6 DEF Refuse
  <2>7. ASSUME NEW w \in Workers, SaveRow(w) PROVE TypeOK'
    BY <2>7 DEF SaveRow
  <2>8. ASSUME NEW c \in Calls, CommitReduce(c) PROVE TypeOK'
    <3>1. view[c] \in Row /\ job[c].num \in Int
      OBVIOUS
    <3>2. stock' \in [Stocked -> Row]
      BY <2>8, <3>1 DEF CommitReduce
    <3>3. moved' \in [Stocked -> Int]
      BY <2>8, <3>1, AddAt DEF CommitReduce
    <3>4. QED
      BY <2>8, <3>2, <3>3 DEF CommitReduce
  <2>9. ASSUME NEW c \in Calls, ReduceFails(c) PROVE TypeOK'
    BY <2>9 DEF ReduceFails
  <2>10. ASSUME NEW c \in Calls, BeginFails(c) PROVE TypeOK'
    BY <2>10 DEF BeginFails
  <2>11. ASSUME NEW c \in Calls, Unlock(c) PROVE TypeOK'
    BY <2>11 DEF Unlock, Returning
  <2>12. ASSUME NEW d \in Deliveries, Deliver(d) PROVE TypeOK'
    BY <2>12 DEF Deliver
  <2>13. ASSUME NEW d \in Deliveries, NothingToRollBack(d) PROVE TypeOK'
    BY <2>13 DEF NothingToRollBack
  <2>14. ASSUME NEW d \in Deliveries, ReadForRollback(d) PROVE TypeOK'
    <3>0. d \notin Calls /\ msg[d] \in Messages
      OBVIOUS
    <3>1. msg[d].num \in Int
      BY <3>0
    <3>2. stock[msg[d].goods] \in Row
      <4>1. msg[d].goods \in Stocked
        BY <2>14, <3>0 DEF ReadForRollback, Deducted
      <4>2. QED
        BY <4>1
    <3>3. [num  |-> stock[msg[d].goods].num + msg[d].num,
           lock |-> stock[msg[d].goods].lock - msg[d].num] \in Row
      BY <3>1, <3>2
    <3>4. view' \in [Workers -> Row]
      BY <2>14, <3>0, <3>3 DEF ReadForRollback, Deducted
    <3>5. QED
      BY <2>14, <3>4 DEF ReadForRollback, Deducted
  <2>15. ASSUME NEW d \in Deliveries, RefuseRollback(d) PROVE TypeOK'
    BY <2>15 DEF RefuseRollback
  <2>16. ASSUME NEW d \in Deliveries, CommitRollback(d) PROVE TypeOK'
    <3>1. view[d] \in Row /\ msg[d].num \in Int
      OBVIOUS
    <3>2. stock' \in [Stocked -> Row]
      BY <2>16, <3>1 DEF CommitRollback, RolledBack
    <3>3. moved' \in [Stocked -> Int]
      <4>1. [moved EXCEPT ![GoodsOf(d)] = @ - msg[d].num] \in [Stocked -> Int]
        BY <3>1, AddAt
      <4>2. QED
        BY <2>16, <4>1 DEF CommitRollback, RolledBack
    <3>4. record' \in [Messages -> {0, 1, 3}]
      BY <2>16 DEF CommitRollback, RolledBack
    <3>5. QED
      BY <2>16, <3>2, <3>3, <3>4 DEF CommitRollback, RolledBack
  <2>17. ASSUME NEW d \in Deliveries, RollbackFails(d) PROVE TypeOK'
    BY <2>17 DEF RollbackFails
  <2>18. ASSUME NEW w \in Workers, Crash(w) PROVE TypeOK'
    BY <2>18 DEF Crash
  <2>19. ASSUME NEW g \in Goods, Expire(g) PROVE TypeOK'
    BY <2>19 DEF Expire, LifeEnds
  <2>20. CASE Finished \/ UNCHANGED vars
    BY <2>20 DEF Finished, vars
  <2>21. QED
    BY <2>1, <2>2, <2>3, <2>4, <2>5, <2>6, <2>7, <2>8, <2>9, <2>10, <2>11, <2>12,
       <2>13, <2>14, <2>15, <2>16, <2>17, <2>18, <2>19, <2>20
       DEF Next, CallStep, HandlerStep
<1>3. QED
  BY <1>1, <1>2, PTL DEF Spec

-----------------------------------------------------------------------------
\* With no holder outlasting its expiry, a mutex is freed only by its holder's
\* own unlock or after its holder is gone, and taken only when free.
LEMMA HolderStep ==
  ASSUME ~HoldersMayStall, TypeOK, HolderInv, [Next]_vars
  PROVE  HolderInv'
<1> USE RepertoryAssumptions
    DEF TypeOK, HolderInv, Workers, inputs, Goto, Answer
<1>1. ASSUME NEW c \in Calls, Reject(c) PROVE HolderInv'
  BY <1>1 DEF Reject
<1>2. ASSUME NEW c \in Calls, Accept(c) PROVE HolderInv'
  BY <1>2 DEF Accept
<1>3. ASSUME NEW c \in Calls, AcquireMutex(c) PROVE HolderInv'
  <2>1. job[c].goods \in Goods
    OBVIOUS
  <2>2. QED
    BY <1>3, <2>1 DEF AcquireMutex, MutexFree
<1>4. ASSUME NEW c \in Calls, MutexTryFails(c) PROVE HolderInv'
  BY <1>4 DEF MutexTryFails
<1>5. ASSUME NEW c \in Calls, ReadRow(c) PROVE HolderInv'
  BY <1>5 DEF ReadRow
<1>6. ASSUME NEW c \in Calls, Refuse(c) PROVE HolderInv'
  BY <1>6 DEF Refuse
<1>7. ASSUME NEW w \in Workers, SaveRow(w) PROVE HolderInv'
  BY <1>7 DEF SaveRow
<1>8. ASSUME NEW c \in Calls, CommitReduce(c) PROVE HolderInv'
  BY <1>8 DEF CommitReduce
<1>9. ASSUME NEW c \in Calls, ReduceFails(c) PROVE HolderInv'
  BY <1>9 DEF ReduceFails
<1>10. ASSUME NEW c \in Calls, BeginFails(c) PROVE HolderInv'
  BY <1>10 DEF BeginFails
<1>11. ASSUME NEW c \in Calls, Unlock(c) PROVE HolderInv'
  <2> SUFFICES ASSUME NEW c2 \in Calls, pc'[c2] \in {"read", "save", "commit"}
               PROVE  holder'[job[c2].goods] = c2
    BY <1>11 DEF Unlock, Returning
  <2>1. c2 # c /\ pc[c2] \in {"read", "save", "commit"}
    BY <1>11 DEF Unlock, Returning
  <2>2. holder[job[c2].goods] = c2
    BY <2>1
  <2>3. job' = job /\ job[c2].goods \in Goods
    BY <1>11 DEF Unlock, Returning
  <2>4. CASE UNCHANGED holder
    BY <2>2, <2>3, <2>4
  <2>5. CASE /\ holder[job[c].goods] = c
             /\ holder' = [holder EXCEPT ![job[c].goods] = Nobody]
    <3>1. job[c2].goods # job[c].goods
      BY <2>1, <2>2, <2>5
    <3>2. QED
      BY <2>2, <2>3, <2>5, <3>1
  <2>6. QED
    BY <1>11, <2>4, <2>5 DEF Unlock, Returning
<1>12. ASSUME NEW d \in Deliveries, HandlerStep(d) PROVE HolderInv'
  BY <1>12 DEF HandlerStep, Deliver, NothingToRollBack, ReadForRollback,
               RefuseRollback, SaveRow, CommitRollback, RollbackFails
<1>13. ASSUME NEW w \in Workers, Crash(w) PROVE HolderInv'
  BY <1>13 DEF Crash
<1>14. ASSUME NEW g \in Goods, Expire(g) PROVE HolderInv'
  BY <1>14 DEF Expire, LifeEnds
<1>15. CASE Finished \/ UNCHANGED vars
  BY <1>15 DEF Finished, vars
<1>16. QED
  BY <1>1, <1>2, <1>3, <1>4, <1>5, <1>6, <1>7, <1>8, <1>9, <1>10, <1>11, <1>12,
     <1>13, <1>14, <1>15 DEF Next, CallStep

\* Two ReduceRepertory transactions on the same goods never overlap, provided
\* that no call holds the mutex longer than it lives.
THEOREM MutexExcludes ==
  ASSUME ~HoldersMayStall
  PROVE  Spec => []MutualExclusion
<1>1. Init => HolderInv
  BY RepertoryAssumptions DEF Init, HolderInv, Workers
<1>2. TypeOK /\ HolderInv /\ [Next]_vars => HolderInv'
  BY HolderStep
<1>3. HolderInv => MutualExclusion
  BY DEF HolderInv, MutualExclusion
<1>4. QED
  BY <1>1, <1>2, <1>3, TypeCorrect, PTL DEF Spec

-----------------------------------------------------------------------------
\* All but four actions are quiet.
LEMMA QuietSteps ==
  ASSUME TypeOK, [Next]_vars
  PROVE  \/ Quiet
         \/ \E c \in Calls : ReadRow(c) \/ CommitReduce(c)
         \/ \E d \in Deliveries : ReadForRollback(d) \/ CommitRollback(d)
<1> USE RepertoryAssumptions
    DEF TypeOK, Workers, inputs, tables, history, Goto, Answer, InTransaction, Quiet
<1>1. ASSUME NEW c \in Calls, Reject(c) \/ Accept(c) \/ AcquireMutex(c) PROVE Quiet
  BY <1>1 DEF Reject, Accept, AcquireMutex
<1>2. ASSUME NEW c \in Calls, MutexTryFails(c) PROVE Quiet
  BY <1>2 DEF MutexTryFails
<1>3. ASSUME NEW c \in Calls, Refuse(c) \/ ReduceFails(c) \/ BeginFails(c) PROVE Quiet
  BY <1>3 DEF Refuse, ReduceFails, BeginFails
<1>4. ASSUME NEW c \in Calls, Unlock(c) PROVE Quiet
  BY <1>4 DEF Unlock, Returning
<1>5. ASSUME NEW w \in Workers, SaveRow(w) \/ Crash(w) PROVE Quiet
  BY <1>5 DEF SaveRow, Crash
<1>6. ASSUME NEW d \in Deliveries,
             Deliver(d) \/ NothingToRollBack(d) \/ RefuseRollback(d) \/ RollbackFails(d)
      PROVE  Quiet
  BY <1>6 DEF Deliver, NothingToRollBack, RefuseRollback, RollbackFails
<1>7. ASSUME NEW g \in Goods, Expire(g) PROVE Quiet
  BY <1>7 DEF Expire, LifeEnds
<1>8. CASE Finished \/ UNCHANGED vars
  BY <1>8 DEF Finished, vars
<1>9. QED
  BY <1>1, <1>2, <1>3, <1>4, <1>5, <1>6, <1>7, <1>8
     DEF Next, CallStep, HandlerStep

\* The commit of a call is the only writer of its goods, so what it read is
\* still the committed row.
LEMMA CommitReduceStep ==
  ASSUME Serial, TypeOK, StockInv,
         NEW c \in Calls, CommitReduce(c)
  PROVE  StockInv'
<1> USE RepertoryAssumptions DEF TypeOK, Workers, StockInv
<1> DEFINE g == job[c].goods
<1>1. /\ g \in Stocked /\ job[c].num > 0
      /\ view[c].num = stock[g].num - job[c].num /\ view[c].num > 0
  BY DEF CommitReduce, CallViewInv, InTransaction
<1>9. job[c].num \in Int
  OBVIOUS
<1>2. /\ pc[c] = "commit" /\ GoodsOf(c) = g
      /\ stock' = [stock EXCEPT ![g] = view[c]]
      /\ moved' = [moved EXCEPT ![g] = @ + job[c].num]
      /\ deducted' = deducted \cup {c}
      /\ pc' = [pc EXCEPT ![c] = "unlock"]
      /\ UNCHANGED <<job, msg, record, view, holder>>
  BY DEF CommitReduce, GoodsOf, Goto, inputs
<1>3. CallViewInv'
  <2> SUFFICES ASSUME NEW c2 \in Calls, InTransaction(c2)'
               PROVE  /\ job[c2].goods \in Stocked
                      /\ job[c2].num > 0
                      /\ view[c2].num = stock'[job[c2].goods].num - job[c2].num
                      /\ view[c2].num > 0
    BY <1>2 DEF CallViewInv
  <2>1. c2 # c /\ InTransaction(c2)
    BY <1>2 DEF InTransaction
  <2>2. job[c2].goods # g
    BY <1>2, <2>1 DEF Serial, InTransaction, GoodsOf
  <2>3. QED
    BY <1>1, <1>2, <2>1, <2>2 DEF CallViewInv
<1>4. HandlerViewInv'
  <2> SUFFICES ASSUME NEW d \in Deliveries, InTransaction(d)'
               PROVE  /\ msg[d] \in Recorded
                      /\ msg[d].goods \in Stocked
                      /\ \/ record[msg[d]] = 1 /\ view[d].num = stock'[msg[d].goods].num + msg[d].num
                         \/ record[msg[d]] = 3 /\ view[d].num = stock'[msg[d].goods].num
    BY <1>2 DEF HandlerViewInv
  <2>1. d # c /\ InTransaction(d)
    BY <1>2 DEF InTransaction
  <2>2. msg[d].goods # g
    BY <1>2, <2>1 DEF Serial, InTransaction, GoodsOf
  <2>3. stock'[msg[d].goods] = stock[msg[d].goods]
    BY <1>2, <2>1, <2>2 DEF HandlerViewInv
  <2>4. QED
    BY <1>2, <2>1, <2>3 DEF HandlerViewInv
<1>5. AcceptedInv' /\ RecordInv' /\ DeductedInv'
  BY <1>2 DEF AcceptedInv, RecordInv, DeductedInv
<1>6. PositiveInv'
  BY <1>1, <1>2 DEF PositiveInv
<1>7. StockConserved'
  <2> SUFFICES ASSUME NEW h \in Stocked
               PROVE  stock'[h].num = InitialNum[h] - moved'[h]
    BY DEF StockConserved
  <2>1. stock[h].num = InitialNum[h] - moved[h] /\ moved[h] \in Int /\ InitialNum[h] \in Int
    BY DEF StockConserved
  <2>2. CASE h = g
    <3>1. stock'[h].num = stock[h].num - job[c].num
      BY <1>1, <1>2, <2>2
    <3>2. moved'[h] = moved[h] + job[c].num
      BY <1>2, <2>2
    <3>3. stock[h].num \in Int
      BY DEF Row
    <3>4. QED
      BY <1>9, <2>1, <3>1, <3>2, <3>3
  <2>3. CASE h # g
    BY <1>1, <1>2, <2>1, <2>3
  <2>4. QED
    BY <2>2, <2>3
<1>8. QED
  BY <1>3, <1>4, <1>5, <1>6, <1>7

\* The rollback of a message returns its units once, however many deliveries
\* of it commit: a second one rewrites the amount the first one left.
LEMMA CommitRollbackStep ==
  ASSUME Serial, TypeOK, StockInv,
         NEW d \in Deliveries, CommitRollback(d)
  PROVE  StockInv'
<1> USE RepertoryAssumptions DEF TypeOK, Workers, StockInv
<1> DEFINE m == msg[d]
           g == msg[d].goods
<1>1. /\ m \in Recorded /\ m \in Messages /\ g \in Stocked
      /\ \/ record[m] = 1 /\ view[d].num = stock[g].num + m.num
         \/ record[m] = 3 /\ view[d].num = stock[g].num
  BY DEF CommitRollback, HandlerViewInv, InTransaction
<1>2. m.num \in Nat /\ m.num > 0 /\ d \notin Calls
  BY <1>1
<1>3. /\ pc[d] = "commit"
      /\ stock' = [stock EXCEPT ![g] = view[d]]
      /\ record' = [record EXCEPT ![m] = 3]
      /\ moved' = IF record[m] = 1 THEN [moved EXCEPT ![g] = @ - m.num] ELSE moved
      /\ pc' = [pc EXCEPT ![d] = "done"]
      /\ UNCHANGED <<job, msg, view, deducted>>
  BY <1>2 DEF CommitRollback, RolledBack, GoodsOf, Goto, Answer, inputs
<1>4. CallViewInv'
  <2> SUFFICES ASSUME NEW c \in Calls, InTransaction(c)'
               PROVE  /\ job[c].goods \in Stocked
                      /\ job[c].num > 0
                      /\ view[c].num = stock'[job[c].goods].num - job[c].num
                      /\ view[c].num > 0
    BY <1>3 DEF CallViewInv
  <2>1. c # d /\ InTransaction(c)
    BY <1>2, <1>3 DEF InTransaction
  <2>2. job[c].goods # g
    BY <1>2, <1>3, <2>1 DEF Serial, InTransaction, GoodsOf
  <2>3. QED
    BY <1>3, <2>1, <2>2 DEF CallViewInv
<1>5. HandlerViewInv'
  <2> SUFFICES ASSUME NEW d2 \in Deliveries, InTransaction(d2)'
               PROVE  /\ msg[d2] \in Recorded
                      /\ msg[d2].goods \in Stocked
                      /\ \/ /\ record'[msg[d2]] = 1
                            /\ view[d2].num = stock'[msg[d2].goods].num + msg[d2].num
                         \/ /\ record'[msg[d2]] = 3
                            /\ view[d2].num = stock'[msg[d2].goods].num
    BY <1>3 DEF HandlerViewInv
  <2>1. d2 # d /\ InTransaction(d2)
    BY <1>3 DEF InTransaction
  <2>2. CASE msg[d2] = m
    <3>1. view[d2].num = view[d].num
      BY <1>1, <2>1, <2>2 DEF HandlerViewInv
    <3>2. record'[m] = 3 /\ stock'[g] = view[d]
      BY <1>1, <1>3
    <3>3. QED
      BY <1>1, <2>2, <3>1, <3>2
  <2>3. CASE msg[d2] # m
    <3>1. msg[d2].goods # g
      BY <1>2, <1>3, <2>1, <2>3 DEF Serial, InTransaction, GoodsOf
    <3>2. QED
      BY <1>3, <2>1, <2>3, <3>1 DEF HandlerViewInv
  <2>4. QED
    BY <2>2, <2>3
<1>6. AcceptedInv' /\ RecordInv' /\ DeductedInv'
  BY <1>1, <1>2, <1>3 DEF AcceptedInv, RecordInv, DeductedInv
<1>7. PositiveInv'
  <2>1. stock[g].num \in Int /\ stock[g].num > 0
    BY <1>1 DEF Row, PositiveInv
  <2>2. view[d].num > 0
    BY <1>1, <1>2, <2>1
  <2>3. QED
    BY <1>1, <1>3, <2>2 DEF PositiveInv
<1>8. StockConserved'
  <2> SUFFICES ASSUME NEW h \in Stocked
               PROVE  stock'[h].num = InitialNum[h] - moved'[h]
    BY DEF StockConserved
  <2>1. /\ stock[h].num = InitialNum[h] - moved[h]
        /\ moved[h] \in Int /\ InitialNum[h] \in Int /\ stock[h].num \in Int
    BY DEF StockConserved, Row
  <2>2. CASE h = g /\ record[m] = 1
    <3>1. stock'[h].num = stock[h].num + m.num /\ moved'[h] = moved[h] - m.num
      BY <1>1, <1>3, <2>2
    <3>2. QED
      BY <1>2, <2>1, <3>1
  <2>3. CASE h = g /\ record[m] = 3
    BY <1>1, <1>3, <2>1, <2>3
  <2>4. CASE h # g
    BY <1>3, <2>1, <2>4
  <2>5. QED
    BY <1>1, <2>2, <2>3, <2>4
<1>9. QED
  BY <1>4, <1>5, <1>6, <1>7, <1>8

\* Every step keeps the invariant.
LEMMA StockStep ==
  ASSUME Serial, TypeOK, StockInv, [Next]_vars
  PROVE  StockInv'
<1> USE RepertoryAssumptions DEF TypeOK, Workers
<1>1. ASSUME Quiet PROVE StockInv'
  <2>1. CallViewInv' /\ HandlerViewInv'
    BY <1>1 DEF Quiet, StockInv, CallViewInv, HandlerViewInv
  <2>2. RecordInv' /\ PositiveInv' /\ StockConserved'
    BY <1>1 DEF Quiet, StockInv, RecordInv, PositiveInv, StockConserved
  <2>3. AcceptedInv' /\ DeductedInv'
    BY <1>1 DEF Quiet, StockInv, AcceptedInv, DeductedInv
  <2>4. QED
    BY <2>1, <2>2, <2>3 DEF StockInv
<1>2. ASSUME NEW c \in Calls, ReadRow(c) PROVE StockInv'
  <2>1. /\ job[c].goods \in Stocked /\ pc[c] = "read"
        /\ stock[job[c].goods].num - job[c].num > 0
        /\ view' = [view EXCEPT ![c] =
                      [stock[job[c].goods] EXCEPT !.num = @ - job[c].num]]
        /\ pc' = [pc EXCEPT ![c] = "save"]
        /\ UNCHANGED <<job, msg, stock, record, deducted, moved>>
    BY <1>2 DEF ReadRow, Enough, GoodsOf, Goto, inputs, tables, history
  <2>2. job[c].num > 0 /\ job[c].num \in Int /\ stock[job[c].goods] \in Row
    BY <2>1 DEF StockInv, AcceptedInv, TypeOK
  <2>3. /\ view'[c].num = stock[job[c].goods].num - job[c].num
        /\ \A w \in Workers : w # c => view'[w] = view[w] /\ pc'[w] = pc[w]
        /\ c \notin Deliveries
    BY <2>1, <2>2 DEF TypeOK, Row
  <2>4. CallViewInv'
    BY <2>1, <2>2, <2>3 DEF StockInv, CallViewInv, InTransaction
  <2>5. HandlerViewInv'
    BY <2>1, <2>3 DEF StockInv, HandlerViewInv, InTransaction
  <2>6. AcceptedInv' /\ RecordInv' /\ DeductedInv' /\ PositiveInv' /\ StockConserved'
    BY <2>1, <2>3 DEF StockInv, AcceptedInv, RecordInv, DeductedInv, PositiveInv,
                      StockConserved, TypeOK
  <2>7. QED
    BY <2>4, <2>5, <2>6 DEF StockInv
<1>3. ASSUME NEW c \in Calls, CommitReduce(c) PROVE StockInv'
  BY <1>3, CommitReduceStep
<1>4. ASSUME NEW d \in Deliveries, ReadForRollback(d) PROVE StockInv'
  <2>1. d \notin Calls /\ msg[d] \in Messages
    BY DEF TypeOK
  <2>2. /\ msg[d].goods \in Stocked /\ record[msg[d]] = 1
        /\ view' = [view EXCEPT ![d] =
                      [num  |-> stock[msg[d].goods].num + msg[d].num,
                       lock |-> stock[msg[d].goods].lock - msg[d].num]]
        /\ pc' = [pc EXCEPT ![d] = "save"]
        /\ UNCHANGED <<job, msg, stock, record, deducted, moved>>
    BY <1>4, <2>1 DEF ReadForRollback, Deducted, GoodsOf, Goto, inputs, tables, history
  <2>3. /\ view'[d].num = stock[msg[d].goods].num + msg[d].num
        /\ \A w \in Workers : w # d => view'[w] = view[w] /\ pc'[w] = pc[w]
        /\ msg[d] \in Recorded
    BY <2>1, <2>2 DEF TypeOK, StockInv, RecordInv
  <2>4. CallViewInv'
    BY <2>1, <2>2, <2>3 DEF StockInv, CallViewInv, InTransaction
  <2>5. HandlerViewInv'
    BY <2>2, <2>3 DEF StockInv, HandlerViewInv, InTransaction
  <2>6. AcceptedInv' /\ RecordInv' /\ DeductedInv' /\ PositiveInv' /\ StockConserved'
    BY <2>1, <2>2, <2>3 DEF StockInv, AcceptedInv, RecordInv, DeductedInv,
                            PositiveInv, StockConserved
  <2>7. QED
    BY <2>4, <2>5, <2>6 DEF StockInv
<1>5. ASSUME NEW d \in Deliveries, CommitRollback(d) PROVE StockInv'
  BY <1>5, CommitRollbackStep
<1>6. QED
  BY <1>1, <1>2, <1>3, <1>4, <1>5, QuietSteps

\* While the transactions on each row are serial, a transaction's copy of its
\* row stays what the committed row and its own amount make it.
LEMMA StockInvariant == Spec /\ []Serial => [](TypeOK /\ StockInv)
<1>1. Init => StockInv
  <2> SUFFICES ASSUME Init PROVE StockInv
    OBVIOUS
  <2> USE RepertoryAssumptions DEF Init, Workers
  <2>1. AcceptedInv /\ CallViewInv /\ HandlerViewInv /\ DeductedInv
    BY DEF AcceptedInv, CallViewInv, HandlerViewInv, DeductedInv, InTransaction
  <2>2. RecordInv /\ PositiveInv
    BY DEF RecordInv, PositiveInv
  <2>3. StockConserved
    BY DEF StockConserved
  <2>4. QED
    BY <2>1, <2>2, <2>3 DEF StockInv
<1>2. TypeOK /\ Serial /\ StockInv /\ [Next]_vars => StockInv'
  BY StockStep
<1>3. QED
  BY <1>1, <1>2, TypeCorrect, PTL DEF Spec

\* The mutex makes the transactions of the calls serial: all of them are, if the
\* handlers come one by one.
THEOREM WritersAreSerial ==
  ASSUME ~HoldersMayStall
  PROVE  Spec /\ []RollbacksApart => []Serial
<1>1. MutualExclusion /\ RollbacksApart => Serial
  <2> SUFFICES ASSUME MutualExclusion, RollbacksApart,
                      NEW w1 \in Workers, NEW w2 \in Workers,
                      InTransaction(w1), InTransaction(w2), GoodsOf(w1) = GoodsOf(w2),
                      w1 # w2
               PROVE  w1 \in Deliveries /\ w2 \in Deliveries /\ msg[w1] = msg[w2]
    BY DEF Serial
  <2>1. CASE w1 \in Deliveries \/ w2 \in Deliveries
    BY <2>1 DEF RollbacksApart
  <2>2. CASE w1 \in Calls /\ w2 \in Calls
    <3>1. job[w1].goods = job[w2].goods
      BY <2>2 DEF GoodsOf
    <3>2. QED
      BY <2>2, <3>1 DEF MutualExclusion, InTransaction
  <2>3. QED
    BY <2>1, <2>2 DEF Workers
<1>2. QED
  BY <1>1, MutexExcludes, PTL

\* No committed change of a stock row is overwritten by a transaction that had
\* read the row before it, as long as the transactions on the row are serial.
THEOREM SerialConserves == Spec /\ []Serial => []StockConserved
<1>1. StockInv => StockConserved
  BY DEF StockInv
<1>2. QED
  BY <1>1, StockInvariant, PTL

\* So it is behind the mutex, whatever calls overlap, if the handlers come one by
\* one: goods may be sold and rolled back in any order.
THEOREM StockIsConserved ==
  ASSUME ~HoldersMayStall
  PROVE  Spec /\ []RollbacksApart => []StockConserved
BY SerialConserves, WritersAreSerial, PTL

\* Over any number of serial calls and rollbacks, what is sold is less than what
\* was there, although each call tests only the row it read.
THEOREM SerialNeverOversells == Spec /\ []Serial => []NoOversell
<1>1. TypeOK /\ StockInv => NoOversell
  <2> SUFFICES ASSUME TypeOK, StockInv, NEW g \in Stocked
               PROVE  moved[g] < InitialNum[g]
    BY DEF NoOversell
  <2>1. stock[g].num > 0 /\ stock[g].num = InitialNum[g] - moved[g]
    BY DEF StockInv, PositiveInv, StockConserved
  <2>2. moved[g] \in Int /\ InitialNum[g] \in Int /\ stock[g].num \in Int
    BY RepertoryAssumptions DEF TypeOK, Row
  <2>3. QED
    BY <2>1, <2>2
<1>2. QED
  BY <1>1, StockInvariant, PTL

\* Concurrent calls behind the mutex never sell what is not there, if the handlers
\* come one by one.
THEOREM NeverOversold ==
  ASSUME ~HoldersMayStall
  PROVE  Spec /\ []RollbacksApart => []NoOversell
BY SerialNeverOversells, WritersAreSerial, PTL

-----------------------------------------------------------------------------
\* The initial tables are an initial ledger.
LEMMA LedgerInit == Init => Ledger!Init
<1> SUFFICES ASSUME Init PROVE Ledger!Init
  OBVIOUS
<1> USE RepertoryAssumptions DEF Init
<1>1. [g \in Stocked |-> stock[g].num] = InitialNum
  OBVIOUS
<1>2. {m \in Messages : record[m] = 3} = {}
  OBVIOUS
<1>3. QED
  BY <1>1, <1>2 DEF Ledger!Init

\* A commit is one step of the ledger, or none if another delivery of the
\* same message committed before; nothing else shows.
LEMMA LedgerStep ==
  ASSUME TypeOK, StockInv, [Next]_vars
  PROVE  [Ledger!Next]_<<job, [g \in Stocked |-> stock[g].num], deducted,
                         {m \in Messages : record[m] = 3}>>
<1> USE RepertoryAssumptions DEF Workers
<1> DEFINE avail == [g \in Stocked |-> stock[g].num]
           returned == {m \in Messages : record[m] = 3}
<1>1. ASSUME UNCHANGED <<job, stock, record, deducted>>
      PROVE  UNCHANGED <<job, avail, deducted, returned>>
  BY <1>1
<1>2. ASSUME NEW c \in Calls, CommitReduce(c)
      PROVE  Ledger!Deduct(c)
  <2>1. /\ pc[c] = "commit" /\ GoodsOf(c) = job[c].goods
        /\ stock' = [stock EXCEPT ![job[c].goods] = view[c]]
        /\ deducted' = deducted \cup {c}
        /\ UNCHANGED <<job, record>>
    BY <1>2 DEF CommitReduce, GoodsOf, inputs
  <2>2. /\ job[c].goods \in Stocked /\ job[c].num > 0
        /\ view[c].num = stock[job[c].goods].num - job[c].num /\ view[c].num > 0
    BY <2>1 DEF StockInv, CallViewInv, InTransaction
  <2>3. c \notin deducted
    BY <2>1 DEF StockInv, DeductedInv
  <2>4. avail' = [avail EXCEPT ![job[c].goods] = @ - job[c].num]
    BY <2>1, <2>2 DEF TypeOK
  <2>5. returned' = returned
    BY <2>1
  <2>6. avail[job[c].goods] - job[c].num > 0
    BY <2>2
  <2>7. QED
    BY <2>1, <2>2, <2>3, <2>4, <2>5, <2>6 DEF Ledger!Deduct
<1>3. ASSUME NEW d \in Deliveries, CommitRollback(d)
      PROVE  Ledger!Return(msg[d]) \/ UNCHANGED <<job, avail, deducted, returned>>
  <2> DEFINE m == msg[d]
  <2>1. d \notin Calls /\ m \in Messages
    BY DEF TypeOK
  <2>2. /\ pc[d] = "commit"
        /\ stock' = [stock EXCEPT ![m.goods] = view[d]]
        /\ record' = [record EXCEPT ![m] = 3]
        /\ UNCHANGED <<job, deducted>>
    BY <1>3, <2>1 DEF CommitRollback, RolledBack, GoodsOf, inputs
  <2>3. /\ m \in Recorded /\ m.goods \in Stocked
        /\ \/ record[m] = 1 /\ view[d].num = stock[m.goods].num + m.num
           \/ record[m] = 3 /\ view[d].num = stock[m.goods].num
    BY <2>2 DEF StockInv, HandlerViewInv, InTransaction
  <2>4. CASE record[m] = 1
    <3>1. avail' = [avail EXCEPT ![m.goods] = @ + m.num]
      <4>1. \A g \in Stocked :
              stock'[g].num = IF g = m.goods THEN stock[g].num + m.num ELSE stock[g].num
        BY <2>2, <2>3, <2>4 DEF TypeOK
      <4>2. QED
        BY <4>1
    <3>2. m \notin returned /\ returned' = returned \cup {m}
      BY <2>1, <2>2, <2>4 DEF TypeOK
    <3>3. QED
      BY <2>2, <2>3, <3>1, <3>2 DEF Ledger!Return
  <2>5. CASE record[m] = 3
    <3>1. avail' = avail
      BY <2>2, <2>3, <2>5 DEF TypeOK
    <3>2. returned' = returned
      BY <2>1, <2>2, <2>5 DEF TypeOK
    <3>3. QED
      BY <2>2, <3>1, <3>2
  <2>6. QED
    BY <2>3, <2>4, <2>5
<1>4. ASSUME NEW d \in Deliveries, CommitRollback(d) PROVE msg[d] \in Recorded
  BY <1>4 DEF CommitRollback, StockInv, HandlerViewInv, InTransaction
<1>5. ASSUME NEW c \in Calls, ReadRow(c) PROVE UNCHANGED <<job, stock, record, deducted>>
  BY <1>5 DEF ReadRow, inputs, tables, history
<1>6. ASSUME NEW d \in Deliveries, ReadForRollback(d)
      PROVE  UNCHANGED <<job, stock, record, deducted>>
  BY <1>6 DEF ReadForRollback, inputs, tables, history
<1>7. Quiet => UNCHANGED <<job, stock, record, deducted>>
  BY DEF Quiet
<1>8. Quiet => UNCHANGED <<job, avail, deducted, returned>>
  BY <1>1, <1>7
<1>9. ASSUME NEW c \in Calls, ReadRow(c) PROVE UNCHANGED <<job, avail, deducted, returned>>
  BY <1>1, <1>5, <1>9
<1>10. ASSUME NEW d \in Deliveries, ReadForRollback(d)
       PROVE  UNCHANGED <<job, avail, deducted, returned>>
  BY <1>1, <1>6, <1>10
<1>11. ASSUME NEW c \in Calls, CommitReduce(c) PROVE Ledger!Next
  BY <1>2, <1>11 DEF Ledger!Next
<1>12. ASSUME NEW d \in Deliveries, CommitRollback(d)
       PROVE  Ledger!Next \/ UNCHANGED <<job, avail, deducted, returned>>
  <2>1. msg[d] \in Recorded
    BY <1>4, <1>12
  <2>2. Ledger!Return(msg[d]) \/ UNCHANGED <<job, avail, deducted, returned>>
    BY <1>3, <1>12
  <2>3. Ledger!Return(msg[d]) => Ledger!Next
    BY <2>1 DEF Ledger!Next, Ledger!Return
  <2>4. QED
    BY <2>2, <2>3
<1> HIDE DEF avail, returned
<1>13. Ledger!Next \/ UNCHANGED <<job, avail, deducted, returned>>
  BY <1>8, <1>9, <1>10, <1>11, <1>12, QuietSteps
<1>14. QED
  BY <1>13 DEF avail, returned

\* Serial transactions implement the ledger: each reduce takes exactly its
\* amount in one step, each rollback message returns its own at most once.
THEOREM SerialImplementsLedger == Spec /\ []Serial => LedgerSpec
<1>1. TypeOK /\ StockInv /\ [Next]_vars
        => [Ledger!Next]_<<job, [g \in Stocked |-> stock[g].num], deducted,
                           {m \in Messages : record[m] = 3}>>
  BY LedgerStep
<1>2. QED
  BY <1>1, LedgerInit, StockInvariant, PTL DEF Spec, LedgerSpec, Ledger!Spec

\* Behind the mutex the store implements the ledger, rollbacks of the goods that
\* calls sell included, if the handlers come one by one.
THEOREM ImplementsLedger ==
  ASSUME ~HoldersMayStall
  PROVE  Spec /\ []RollbacksApart => LedgerSpec
BY SerialImplementsLedger, WritersAreSerial, PTL
=============================================================================
