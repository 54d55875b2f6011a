----------------------------- MODULE OrderCreate -----------------------------
(***************************************************************************)
(* CreateOrder of order_service: a saga run inside a RocketMQ transactional*)
(* message.  Create sends a prepared ("half") rollback message; when the   *)
(* broker has stored it the producer runs ExecuteLocalTransaction, which   *)
(* asks the price, deducts the stock, inserts the order and sends the      *)
(* delayed payment-timeout message.  Its verdict goes to the broker one    *)
(* way: commit releases the rollback message to repertory_service, rollback*)
(* drops it.  For a message it got no verdict on, the broker asks a        *)
(* producer of the group, which answers with CheckLocalTransaction.        *)
(*                                                                         *)
(* Param is never nil in ExecuteLocalTransaction: Create reads its fields  *)
(* before.  The stock is reduced to which orders took and got back units;  *)
(* Repertory has the details.  What may go wrong is the constant Faults.   *)
(***************************************************************************)
EXTENDS FiniteSets

CONSTANTS
  Orders,     \* the CreateOrder calls, each with its own snowflake id
  Invalid,    \* those with a user id <= 0
  Recorded,   \* orders whose deduction is recorded in platform_repertory_record
  Answerers,  \* Answerers[o]: whose producer the broker may ask about o's message
  Faults      \* what may go wrong

AllFaults == {
  "producer",       \* NewTransactionProducer fails
  "half_error",     \* the half message is not sent
  "half_status",    \* it is stored, with a status other than SendOK
  "half_stray",     \* a failed attempt of the send's retries stored a copy too
  "goods_error",    \* GetGoodsDetail fails
  "reduce_error",   \* ReduceRepertory fails and took nothing
  "reduce_unsure",  \* ReduceRepertory fails after its deduction committed
  "reduce_silent",  \* ReduceRepertory answers OK and took nothing
  "rows_error",     \* the order's transaction fails
  "rows_unsure",    \* it fails after its commit
  "delay_error",    \* SendSync of the delayed message fails, stored or not
  "end_lost",       \* the one-way endTransaction does not arrive
  "early_check",    \* the broker asks while the local transaction runs
  "query_error",    \* QueryOrder fails
  "unanswered",     \* the broker gives a message up after 15 checks
  "crash"}          \* order_service dies and is started again

ASSUME OrderCreateAssumptions ==
  /\ Invalid \subseteq Orders
  /\ Recorded \subseteq Orders
  /\ Answerers \in [Orders -> SUBSET Orders]
  /\ Faults \subseteq AllFaults

VARIABLES
  pc,        \* where each call is
  live,      \* orders whose producer and OrderEntity are in the running process
  verdict,   \* what ExecuteLocalTransaction returned
  failed,    \* orders whose OrderEntity.err is set
  half,      \* the broker's copies of the half message of each order
  taken,     \* orders whose units were deducted
  returned,  \* orders whose units were given back
  placed,    \* orders with rows in platform_order and platform_order_detail
  delayed,   \* orders with a delayed payment-timeout message at the broker
  reply      \* what the caller of CreateOrder got

vars == <<pc, live, verdict, failed, half, taken, returned, placed, delayed, reply>>
local == <<verdict, failed>>
stores == <<taken, returned, placed, delayed>>

Copies == {"known", "stray"}

\* The local transaction has not come to its verdict.
Executing(o) == pc[o] \in {"half", "goods", "reduce", "rows", "delay"}

Goto(o, l) == pc' = [pc EXCEPT ![o] = l]

Answer(o, r) == Goto(o, "done") /\ reply' = [reply EXCEPT ![o] = r]

\* ExecuteLocalTransaction returns state v.
Return(o, v) == verdict' = [verdict EXCEPT ![o] = v] /\ Goto(o, "end")

Init ==
  /\ pc = [o \in Orders |-> "idle"]
  /\ live = {}
  /\ verdict = [o \in Orders |-> "none"]
  /\ failed = {}
  /\ half = [o \in Orders |-> [k \in Copies |-> "none"]]
  /\ taken = {}
  /\ returned = {}
  /\ placed = {}
  /\ delayed = {}
  /\ reply = [o \in Orders |-> "none"]

-----------------------------------------------------------------------------
(* CreateOrder and Create, up to the half message *)

Reject(o) ==
  /\ pc[o] = "idle"
  /\ o \in Invalid \/ "producer" \in Faults
  /\ Answer(o, "err")
  /\ UNCHANGED <<live, local, half, stores>>

\* Every call starts a transaction producer of its own, all in one group, and
\* never shuts it down.
StartProducer(o) ==
  /\ pc[o] = "idle"
  /\ o \notin Invalid
  /\ live' = live \cup {o}
  /\ Goto(o, "half")
  /\ UNCHANGED <<local, half, stores, reply>>

\* The copy the producer learns of, and perhaps one it does not.
Store(o, known) ==
  \E stray \in {"none"} \cup (IF "half_stray" \in Faults THEN {"prepared"} ELSE {}) :
    half' = [half EXCEPT ![o] = [k \in Copies |-> IF k = "known" THEN known ELSE stray]]

\* Only SendOK runs the local transaction; another status of the broker counts
\* as the verdict rollback, with no error.
SendHalf(o) ==
  /\ pc[o] = "half"
  /\ \/ Store(o, "prepared") /\ Goto(o, "goods") /\ UNCHANGED <<verdict, reply>>
     \/ /\ "half_status" \in Faults
        /\ Store(o, "prepared") /\ Return(o, "rollback") /\ UNCHANGED reply
     \/ /\ "half_error" \in Faults
        /\ Store(o, "none") /\ Answer(o, "err") /\ UNCHANGED verdict
  /\ UNCHANGED <<live, failed, stores>>

-----------------------------------------------------------------------------
(* ExecuteLocalTransaction *)

\* The entity keeps an error and the half message is dropped.
Fail(o) == failed' = failed \cup {o} /\ Return(o, "rollback")

GetGoodsDetail(o) ==
  /\ pc[o] = "goods"
  /\ \/ Goto(o, "reduce") /\ UNCHANGED local
     \/ "goods_error" \in Faults /\ Fail(o)
  /\ UNCHANGED <<live, half, stores, reply>>

ReduceRepertory(o) ==
  /\ pc[o] = "reduce"
  /\ \/ /\ taken' = taken \cup {o}
        /\ Goto(o, "rows") /\ UNCHANGED local
     \/ /\ "reduce_silent" \in Faults
        /\ Goto(o, "rows") /\ UNCHANGED <<local, taken>>
     \/ "reduce_error" \in Faults /\ Fail(o) /\ UNCHANGED taken
     \/ "reduce_unsure" \in Faults /\ Fail(o) /\ taken' = taken \cup {o}
  /\ UNCHANGED <<live, half, returned, placed, delayed, reply>>


RowsErrorVerdict == "commit"

\* Both rows in one transaction.  An error commits the half message.
CreateOrderWithTransaction(o) ==
  /\ pc[o] = "rows"
  /\ \/ placed' = placed \cup {o} /\ Goto(o, "delay") /\ UNCHANGED verdict
     \/ /\ "rows_error" \in Faults
        /\ Return(o, RowsErrorVerdict) /\ UNCHANGED placed
     \/ /\ "rows_unsure" \in Faults
        /\ Return(o, RowsErrorVerdict) /\ placed' = placed \cup {o}
  /\ UNCHANGED <<live, failed, half, taken, returned, delayed, reply>>

\* An error of the delayed message commits the half message, the order
\* notwithstanding.
SendDelay(o) ==
  /\ pc[o] = "delay"
  /\ \/ delayed' = delayed \cup {o} /\ Return(o, "rollback")
     \/ /\ "delay_error" \in Faults
        /\ Return(o, "commit")
        /\ delayed' \in {delayed, delayed \cup {o}}
  /\ UNCHANGED <<live, failed, half, taken, returned, placed, reply>>

-----------------------------------------------------------------------------
(* The end of SendMessageInTransaction and of Create *)

EndTransaction(o) ==
  /\ pc[o] = "end"
  /\ \/ /\ half[o]["known"] = "prepared"
        /\ half' = [half EXCEPT ![o]["known"] =
                      IF verdict[o] = "commit" THEN "committed" ELSE "dropped"]
     \/ /\ half[o]["known"] # "prepared" \/ "end_lost" \in Faults
        /\ UNCHANGED half
  /\ Goto(o, "answer")
  /\ UNCHANGED <<live, local, stores, reply>>

\* Mutants: OrderEntity.err is not looked at, the verdict is read the wrong way.
ReplyOfVerdict(o) == IF verdict[o] = "commit" THEN "err" ELSE "ok"
ReplySwapped(o) == IF verdict[o] = "rollback" THEN "err" ELSE "ok"

ReplyOf(o) == IF verdict[o] = "commit" \/ o \in failed THEN "err" ELSE "ok"

Reply(o) ==
  /\ pc[o] = "answer"
  /\ Answer(o, ReplyOf(o))
  /\ UNCHANGED <<live, local, half, stores>>

-----------------------------------------------------------------------------
(* The broker *)

\* Mutants: commit and rollback swapped, an answer that decides nothing, one
\* the broker does not know.
AnswersSwapped(q) == {IF q \in placed THEN "committed" ELSE "dropped"}
AnswersUndecided(q) == {IF q \in placed THEN "dropped" ELSE "prepared"}
AnswersUnknown(q) == {IF q \in placed THEN "dropped" ELSE "unknown"}

\* Commit if the order has no row, rollback if it has one or the query fails.
Answers(q) ==
  (IF q \in placed THEN {"dropped"} ELSE {"committed"})
    \cup (IF "query_error" \in Faults THEN {"dropped"} ELSE {})

\* A producer of the group answers for the order of its own OrderEntity,
\* whatever message it is asked about.
CheckLocalTransaction(o, k) ==
  /\ half[o][k] = "prepared"
  /\ Executing(o) => "early_check" \in Faults
  /\ \E q \in live \cap Answerers[o] :
       \E a \in Answers(q) : half' = [half EXCEPT ![o][k] = a]
  /\ UNCHANGED <<pc, live, local, stores, reply>>

GiveUp(o, k) ==
  /\ "unanswered" \in Faults
  /\ half[o][k] = "prepared"
  /\ half' = [half EXCEPT ![o][k] = "dropped"]
  /\ UNCHANGED <<pc, live, local, stores, reply>>

\* A released message reaches RollbackMsghandle.  It returns the units of an
\* order that has a record of its deduction, once; any other delivery changes
\* nothing.
DeliverRollback(o, k) ==
  /\ half[o][k] = "committed"
  /\ o \in (Recorded \cap taken) \ returned
  /\ returned' = returned \cup {o}
  /\ UNCHANGED <<pc, live, local, half, taken, placed, delayed, reply>>

\* order_service dies: with it the calls in progress and all the producers.
Crash ==
  /\ "crash" \in Faults
  /\ live # {}
  /\ live' = {}
  /\ pc' = [o \in Orders |-> IF pc[o] = "idle" THEN "idle" ELSE "done"]
  /\ reply' = [o \in Orders |-> IF pc[o] \in {"idle", "done"} THEN reply[o] ELSE "gone"]
  /\ UNCHANGED <<local, half, stores>>

Finished ==
  /\ \A o \in Orders : pc[o] = "done"
  /\ UNCHANGED vars

CallStep(o) ==
  \/ Reject(o) \/ StartProducer(o) \/ SendHalf(o) \/ GetGoodsDetail(o)
  \/ ReduceRepertory(o) \/ CreateOrderWithTransaction(o) \/ SendDelay(o)
  \/ EndTransaction(o) \/ Reply(o)

BrokerStep(o, k) == CheckLocalTransaction(o, k) \/ DeliverRollback(o, k)

Next ==
  \/ \E o \in Orders : CallStep(o)
  \/ \E o \in Orders, k \in Copies : BrokerStep(o, k) \/ GiveUp(o, k)
  \/ Crash
  \/ Finished

Spec == Init /\ [][Next]_vars

\* A call that can go on does, and the broker goes on checking and delivering.
FairSpec ==
  /\ Spec
  /\ \A o \in Orders : WF_vars(CallStep(o))
  /\ \A o \in Orders, k \in Copies :
       WF_vars(CheckLocalTransaction(o, k)) /\ WF_vars(DeliverRollback(o, k))
-----------------------------------------------------------------------------
(* Properties *)

\* Every variable keeps its type.
TypeOK ==
  /\ pc \in [Orders -> {"idle", "half", "goods", "reduce", "rows", "delay", "end",
                        "answer", "done"}]
  /\ live \subseteq Orders
  /\ verdict \in [Orders -> {"none", "commit", "rollback"}]
  /\ failed \subseteq Orders
  /\ half \in [Orders -> [Copies -> {"none", "prepared", "committed", "dropped"}]]
  /\ taken \subseteq Orders
  /\ returned \subseteq Orders
  /\ placed \subseteq Orders
  /\ delayed \subseteq Orders
  /\ reply \in [Orders -> {"none", "ok", "err", "gone"}]

\* CreateOrder answers OK only for an order that exists, whose units were
\* taken and whose payment timeout is scheduled.
OkMeansComplete ==
  \A o \in Orders : reply[o] = "ok" => o \in placed \cap taken \cap delayed

\* CreateOrder answers with an error only if there is no order: the caller may
\* try again without ordering twice.
ErrMeansNoOrder ==
  \A o \in Orders : reply[o] = "err" => o \notin placed

\* The rollback message of an order that exists is never released, neither by
\* the verdict nor by the answer to a check: nor does an order come to exist
\* after its message was released.
ReleasedMeansNoOrder ==
  \A o \in Orders, k \in Copies : half[o][k] = "committed" => o \notin placed


\* No half message stays with the broker undecided.
HalfResolved ==
  \A o \in Orders, k \in Copies : half[o][k] = "prepared" ~> half[o][k] # "prepared"
=============================================================================
