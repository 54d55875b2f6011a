------------------------------ MODULE Repertory ------------------------------
(***************************************************************************)
(* The inventory store of repertory_service: the ReduceRepertory RPC and   *)
(* the RocketMQ handler RollbackMsghandle, running concurrently over the   *)
(* MySQL tables platform_repertory and platform_repertory_record and the   *)
(* redis mutex "repertory-<goodsId>".                                      *)
(*                                                                         *)
(* A transaction of MySQL's default REPEATABLE READ isolation is a read    *)
(* step that copies the row it will write (its snapshot), a save step that *)
(* waits for the row lock, and a commit step that publishes the copy.  Only*)
(* ReduceRepertory takes the redis mutex; the rollback handler does not.   *)
(* A worker is one goroutine: an RPC call or one invocation of the handler.*)
(***************************************************************************)
EXTENDS Integers, FiniteSets

CONSTANTS
  Goods,            \* goods ids a request may carry, invalid (<= 0) ones included
  Stocked,          \* goods that have a row in platform_repertory
  InitialNum,       \* their initial num column
  InitialLock,      \* their initial lock column
  Calls,            \* the ReduceRepertory calls
  Requests,         \* what a call may ask for: [goods, num]
  Deliveries,       \* the invocations of RollbackMsghandle
  Messages,         \* the rollback messages: [order, goods, num]
  Recorded,         \* messages whose order has a status-1 deduction record
  MaxTries,         \* attempts mutex.Lock makes (redsync's default is 32)
  HoldersMayStall,  \* may a live call outlast the mutex's 8s expiry?
  Nobody            \* a free mutex or row lock

Workers == Calls \cup Deliveries

ASSUME RepertoryAssumptions ==
  /\ Goods \subseteq Int
  /\ Stocked \subseteq {g \in Goods : g > 0}
  /\ InitialNum \in [Stocked -> Nat \ {0}]
  /\ InitialLock \in [Stocked -> Nat]
  /\ Requests \subseteq [goods : Goods, num : Int]
  /\ \A m \in Messages : m.goods \in Goods /\ m.num \in Nat \ {0}
  /\ \A m1, m2 \in Messages :
       m1.order = m2.order /\ m1.goods = m2.goods => m1 = m2
  /\ Recorded \subseteq Messages
  /\ Calls \cap Deliveries = {}
  /\ Nobody \notin Workers
  /\ MaxTries \in Nat \ {0}
  /\ HoldersMayStall \in BOOLEAN

VARIABLES
  job,       \* the request of each call
  msg,       \* the message each invocation of the handler is given
  stock,     \* platform_repertory, committed: num and lock of each row
  record,    \* platform_repertory_record, committed: 0 no row, 1 deducted, 3 rolled back
  holder,    \* the redis mutex of each goods id: the call whose token it holds
  rowLock,   \* InnoDB's exclusive lock of each platform_repertory row
  pc,        \* where each worker is
  tries,     \* failed attempts of each call to take the mutex
  view,      \* the row a transaction read and modified, not yet committed
  reply,     \* what the caller got: "ok", "err", "ack", or "gone" if the worker died
  deducted,  \* history: the calls whose deduction committed
  moved      \* history: net units that committed work took from each goods

inputs == <<job, msg>>
tables == <<stock, record, rowLock>>
history == <<deducted, moved>>
vars == <<job, msg, stock, record, holder, rowLock, pc, tries, view, reply,
          deducted, moved>>

CallPC == {"idle", "lock", "read", "save", "commit", "unlock", "panic", "done"}
HandlerPC == {"idle", "query", "save", "commit", "done"}
Row == [num : Int, lock : Int]

Goto(w, l) == pc' = [pc EXCEPT ![w] = l]

Answer(w, r) == Goto(w, "done") /\ reply' = [reply EXCEPT ![w] = r]

GoodsOf(w) == IF w \in Calls THEN job[w].goods ELSE msg[w].goods

\* Ending a transaction, either way, frees the rows it locked.
FreeRows(w) ==
  rowLock' = [g \in Stocked |-> IF rowLock[g] = w THEN Nobody ELSE rowLock[g]]

Init ==
  /\ job \in [Calls -> Requests]
  /\ msg \in [Deliveries -> Messages]
  /\ stock = [g \in Stocked |-> [num |-> InitialNum[g], lock |-> InitialLock[g]]]
  /\ record = [m \in Messages |-> IF m \in Recorded THEN 1 ELSE 0]
  /\ holder = [g \in Goods |-> Nobody]
  /\ rowLock = [g \in Stocked |-> Nobody]
  /\ pc = [w \in Workers |-> "idle"]
  /\ tries = [c \in Calls |-> 0]
  /\ view = [w \in Workers |-> [num |-> 0, lock |-> 0]]
  /\ reply = [w \in Workers |-> "none"]
  /\ deducted = {}
  /\ moved = [g \in Stocked |-> 0]

-----------------------------------------------------------------------------
(* ReduceRepertory *)

\* The controller turns away a non-positive goods id or amount.
Reject(c) ==
  /\ pc[c] = "idle"
  /\ job[c].goods <= 0 \/ job[c].num <= 0
  /\ Answer(c, "err")
  /\ UNCHANGED <<inputs, tables, holder, tries, view, history>>

Accept(c) ==
  /\ pc[c] = "idle"
  /\ job[c].goods > 0 /\ job[c].num > 0
  /\ Goto(c, "lock")
  /\ UNCHANGED <<inputs, tables, holder, tries, view, reply, history>>

\* Mutant: SET without NX, which takes the mutex from its holder.
MutexTaken(c) == TRUE

\* redsync sets the key only if it does not exist.
MutexFree(c) == holder[job[c].goods] = Nobody

AcquireMutex(c) ==
  /\ pc[c] = "lock"
  /\ MutexFree(c)
  /\ holder' = [holder EXCEPT ![job[c].goods] = c]
  /\ Goto(c, "read")
  /\ UNCHANGED <<inputs, tables, tries, view, reply, history>>

\* An attempt fails: the mutex is taken, or redis is not reachable.  The last
\* one fails the call.
MutexTryFails(c) ==
  /\ pc[c] = "lock"
  /\ tries' = [tries EXCEPT ![c] = @ + 1]
  /\ \/ tries[c] + 1 < MaxTries /\ UNCHANGED <<pc, reply>>
     \/ tries[c] + 1 >= MaxTries /\ Answer(c, "err")
  /\ UNCHANGED <<inputs, tables, holder, view, history>>

\* Mutant: the last unit may be sold.
EnoughOrEmpty(c) == GoodsOf(c) \in Stocked /\ stock[GoodsOf(c)].num - job[c].num >= 0

\* The amount left must stay positive.  A goods id without a row reads as 0.
Enough(c) == GoodsOf(c) \in Stocked /\ stock[GoodsOf(c)].num - job[c].num > 0

ReadRow(c) ==
  /\ pc[c] = "read"
  /\ Enough(c)
  /\ view' = [view EXCEPT ![c] =
                [stock[GoodsOf(c)] EXCEPT !.num = @ - job[c].num]]
  /\ Goto(c, "save")
  /\ UNCHANGED <<inputs, tables, holder, tries, reply, history>>

\* Under stock the transaction returns ErrUnderRepertory, which nobody reads.
Refuse(c) ==
  /\ pc[c] = "read"
  /\ ~Enough(c)
  /\ Goto(c, "unlock")
  /\ UNCHANGED <<inputs, tables, holder, tries, view, reply, history>>

SaveRow(w) ==
  /\ pc[w] = "save"
  /\ rowLock[GoodsOf(w)] = Nobody
  /\ rowLock' = [rowLock EXCEPT ![GoodsOf(w)] = w]
  /\ Goto(w, "commit")
  /\ UNCHANGED <<inputs, stock, record, holder, tries, view, reply, history>>

CommitReduce(c) ==
  /\ pc[c] = "commit"
  /\ stock' = [stock EXCEPT ![GoodsOf(c)] = view[c]]
  /\ FreeRows(c)
  /\ deducted' = deducted \cup {c}
  /\ moved' = [moved EXCEPT ![GoodsOf(c)] = @ + job[c].num]
  /\ Goto(c, "unlock")
  /\ UNCHANGED <<inputs, record, holder, tries, view, reply>>

\* The query, the save or the commit fails.  The error of db.Transaction is
\* dropped, so the call goes on as if it had succeeded.
ReduceFails(c) ==
  /\ pc[c] \in {"read", "save", "commit"}
  /\ FreeRows(c)
  /\ Goto(c, "unlock")
  /\ UNCHANGED <<inputs, stock, record, holder, tries, view, reply, history>>

\* BEGIN itself fails: the closure never runs and data stays nil.
BeginFails(c) ==
  /\ pc[c] = "read"
  /\ Goto(c, "panic")
  /\ UNCHANGED <<inputs, tables, holder, tries, view, reply, history>>

\* The deferred unlock runs however ReduceRepertoryByGoodsId returns.
Returning(c) == pc[c] \in {"unlock", "panic"}

\* redsync deletes the key only if it still carries this call's token; an
\* unlock that does not get through leaves it to expire.  With data nil the
\* caller in biz then dereferences a nil pointer.
Unlock(c) ==
  /\ Returning(c)
  /\ \/ /\ holder[job[c].goods] = c
        /\ holder' = [holder EXCEPT ![job[c].goods] = Nobody]
     \/ UNCHANGED holder
  /\ Answer(c, IF pc[c] = "unlock" THEN "ok" ELSE "gone")
  /\ UNCHANGED <<inputs, tables, tries, view, history>>

\* The time to live ends after its holder is gone or, if calls may stall, under
\* a live one.
LifeEnds(g) == pc[holder[g]] = "done" \/ HoldersMayStall

Expire(g) ==
  /\ holder[g] # Nobody
  /\ LifeEnds(g)
  /\ holder' = [holder EXCEPT ![g] = Nobody]
  /\ UNCHANGED <<inputs, tables, pc, tries, view, reply, history>>

-----------------------------------------------------------------------------
(* RollbackMsghandle *)

Deliver(d) ==
  /\ pc[d] = "idle"
  /\ Goto(d, "query")
  /\ UNCHANGED <<inputs, tables, holder, tries, view, reply, history>>

\* Mutant: a query for the record without "status = 1".
RecordExists(d) == record[msg[d]] # 0

\* The query of the deduction record finds it with status 1.
Deducted(d) == record[msg[d]] = 1

\* No record of status 1: never recorded, or already rolled back.
NothingToRollBack(d) ==
  /\ pc[d] = "query"
  /\ ~Deducted(d)
  /\ Answer(d, "ack")
  /\ UNCHANGED <<inputs, tables, holder, tries, view, history>>

\* Both queries read the snapshot of the first one.
ReadForRollback(d) ==
  /\ pc[d] = "query"
  /\ Deducted(d)
  /\ GoodsOf(d) \in Stocked
  /\ stock[GoodsOf(d)].lock - msg[d].num >= 0
  /\ view' = [view EXCEPT ![d] =
                [num  |-> stock[GoodsOf(d)].num + msg[d].num,
                 lock |-> stock[GoodsOf(d)].lock - msg[d].num]]
  /\ Goto(d, "save")
  /\ UNCHANGED <<inputs, tables, holder, tries, reply, history>>

\* No stock row, or more to return than the lock column holds: the error is
\* dropped by db.Transaction's caller and the message is acknowledged.
RefuseRollback(d) ==
  /\ pc[d] = "query"
  /\ Deducted(d)
  /\ GoodsOf(d) \in Stocked => stock[GoodsOf(d)].lock - msg[d].num < 0
  /\ Answer(d, "ack")
  /\ UNCHANGED <<inputs, tables, holder, tries, view, history>>

\* Mutants: the status of the record is left alone, or set to an unused value.
KeptStatus == 1
UnusedStatus == 2

RolledBack == 3

CommitRollback(d) ==
  /\ pc[d] = "commit"
  /\ stock' = [stock EXCEPT ![GoodsOf(d)] = view[d]]
  /\ record' = [record EXCEPT ![msg[d]] = RolledBack]
  /\ FreeRows(d)
  /\ moved' = IF record[msg[d]] = 1
                THEN [moved EXCEPT ![GoodsOf(d)] = @ - msg[d].num]
                ELSE moved
  /\ Answer(d, "ack")
  /\ UNCHANGED <<inputs, holder, tries, view, deducted>>

\* A query, a save or the commit fails; RollbackRepertoryByMsg returns nil.
RollbackFails(d) ==
  /\ pc[d] \in {"query", "save", "commit"}
  /\ FreeRows(d)
  /\ Answer(d, "ack")
  /\ UNCHANGED <<inputs, stock, record, holder, tries, view, history>>

-----------------------------------------------------------------------------
\* The process dies under a worker: MySQL undoes its transaction, its mutex
\* stays until it expires, and its caller never hears of the outcome.
Crash(w) ==
  /\ pc[w] \notin {"idle", "done"}
  /\ FreeRows(w)
  /\ Answer(w, "gone")
  /\ UNCHANGED <<inputs, stock, record, holder, tries, view, history>>

Finished ==
  /\ \A w \in Workers : pc[w] = "done"
  /\ UNCHANGED vars

CallStep(c) ==
  \/ Reject(c) \/ Accept(c) \/ AcquireMutex(c) \/ MutexTryFails(c)
  \/ ReadRow(c) \/ Refuse(c) \/ SaveRow(c) \/ CommitReduce(c)
  \/ ReduceFails(c) \/ BeginFails(c) \/ Unlock(c)

HandlerStep(d) ==
  \/ Deliver(d) \/ NothingToRollBack(d) \/ ReadForRollback(d)
  \/ RefuseRollback(d) \/ SaveRow(d) \/ CommitRollback(d) \/ RollbackFails(d)

Next ==
  \/ \E c \in Calls : CallStep(c)
  \/ \E d \in Deliveries : HandlerStep(d)
  \/ \E w \in Workers : Crash(w)
  \/ \E g \in Goods : Expire(g)
  \/ Finished

Spec == Init /\ [][Next]_vars
-----------------------------------------------------------------------------
(* Properties *)

\* Every variable keeps its type (the tables' columns, the mutex's tokens and
\* the places of reduceRepertory and RollbackMsghandle).
TypeOK ==
  /\ job \in [Calls -> Requests]
  /\ msg \in [Deliveries -> Messages]
  /\ stock \in [Stocked -> Row]
  /\ record \in [Messages -> {0, 1, 3}]
  /\ holder \in [Goods -> Calls \cup {Nobody}]
  /\ rowLock \in [Stocked -> Workers \cup {Nobody}]
  /\ pc \in [Workers -> CallPC \cup HandlerPC]
  /\ \A c \in Calls : pc[c] \in CallPC
  /\ \A d \in Deliveries : pc[d] \in HandlerPC
  /\ tries \in [Calls -> Nat]
  /\ view \in [Workers -> Row]
  /\ reply \in [Workers -> {"none", "ok", "err", "ack", "gone"}]
  /\ deducted \subseteq Calls
  /\ moved \in [Stocked -> Int]

\* The redis mutex keeps two ReduceRepertory transactions on the same goods
\* from overlapping, through failures, crashes and the expiry of dead holders.
MutualExclusion ==
  \A c1, c2 \in Calls :
    /\ pc[c1] \in {"read", "save", "commit"}
    /\ pc[c2] \in {"read", "save", "commit"}
    /\ job[c1].goods = job[c2].goods
    => c1 = c2

\* No committed change of a stock row is lost: the num column always is the
\* initial stock less what committed deductions took and rollbacks returned.
StockConserved ==
  \A g \in Stocked : stock[g].num = InitialNum[g] - moved[g]

\* Committed deductions never take the stock they started from: the strict
\* test data.Num-num > 0 holds of the whole history and not of one read.
NoOversell ==
  \A g \in Stocked : moved[g] < InitialNum[g]

\* ReduceRepertory answers without an error only if it deducted the stock.
OkMeansDeducted ==
  \A c \in Calls : reply[c] = "ok" => c \in deducted

\* The store, with its locks, snapshots and failures, implements the ledger.
Ledger == INSTANCE StockLedger WITH
  avail <- [g \in Stocked |-> stock[g].num],
  returned <- {m \in Messages : record[m] = 3}

LedgerSpec == Ledger!Spec
=============================================================================
