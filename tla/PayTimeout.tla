------------------------------ MODULE PayTimeout ------------------------------
(***************************************************************************)
(* OrderTimeoutHandle of order_service: the consumer of the delayed        *)
(* payment-timeout messages.  It reads the order and, if it is still to be *)
(* paid, sends a rollback message for its stock and closes it.  A batch is *)
(* handled in order; an error of the query or of the send asks for the     *)
(* whole batch again.  The broker delivers at least once and invocations   *)
(* run concurrently, with each other and with the payment of an order,     *)
(* which no code here does: status 200 is set by another program.          *)
(***************************************************************************)
EXTENDS Naturals, Sequences

CONSTANTS
  Orders,          \* the orders in platform_order
  Malformed,       \* a message whose body is not an OrderGoodsStockInfo
  Invocations,     \* the batches the broker hands out
  Batches,         \* Batches[i]: the orders batch i carries, perhaps Malformed
  MaxAttempts,     \* deliveries before the broker gives a batch up
  SendTopic,       \* where ExecuteLocalTransaction sends delayed messages
  SubscribedTopic, \* what main subscribes OrderTimeoutHandle to
  UpdateMayFail,   \* may UpdateOrder fail?  Its error is ignored.
  MaxFaults        \* failed queries, failed sends and crashes in a behaviour

ASSUME PayTimeoutAssumptions ==
  /\ Malformed \notin Orders
  /\ Batches \in [Invocations -> Seq(Orders \cup {Malformed})]
  /\ MaxAttempts \in Nat \ {0}
  /\ UpdateMayFail \in BOOLEAN
  /\ MaxFaults \in Nat

VARIABLES
  status,    \* platform_order: 100 to be paid, 200 paid, 300 closed
  released,  \* orders for which a rollback message was sent
  pc,        \* where each invocation is
  at,        \* the position in its batch
  attempts,  \* deliveries of each batch the broker counts
  faults     \* faults so far

vars == <<status, released, pc, at, attempts, faults>>

Current(i) == Batches[i][at[i]]

Init ==
  /\ status = [o \in Orders |-> 100]
  /\ released = {}
  /\ pc = [i \in Invocations |-> "waiting"]
  /\ at = [i \in Invocations |-> 1]
  /\ attempts = [i \in Invocations |-> 0]
  /\ faults = 0

Fault == faults < MaxFaults /\ faults' = faults + 1

\* On to the next message of the batch.
Advance(i) ==
  /\ at' = [at EXCEPT ![i] = @ + 1]
  /\ pc' = [pc EXCEPT ![i] = "next"]

\* Mutant: the broker never gives a batch up.
AlwaysAgain(i) == TRUE

MoreAttempts(i) == attempts[i] < MaxAttempts

\* ConsumeRetryLater: the batch comes again from its first message, unless the
\* broker is through with it.
RetryLater(i) ==
  /\ pc' = [pc EXCEPT ![i] = IF MoreAttempts(i) THEN "waiting" ELSE "dead"]
  /\ at' = [at EXCEPT ![i] = 1]

Pay(o) ==
  /\ status[o] = 100
  /\ status' = [status EXCEPT ![o] = 200]
  /\ UNCHANGED <<released, pc, at, attempts, faults>>

Deliver(i) ==
  /\ pc[i] = "waiting"
  /\ SendTopic = SubscribedTopic
  /\ attempts' = [attempts EXCEPT ![i] = @ + 1]
  /\ pc' = [pc EXCEPT ![i] = "next"]
  /\ UNCHANGED <<status, released, at, faults>>

ConsumeSuccess(i) ==
  /\ pc[i] = "next"
  /\ at[i] > Len(Batches[i])
  /\ pc' = [pc EXCEPT ![i] = "done"]
  /\ UNCHANGED <<status, released, at, attempts, faults>>

SkipMalformed(i) ==
  /\ pc[i] = "next"
  /\ at[i] <= Len(Batches[i])
  /\ Current(i) = Malformed
  /\ Advance(i)
  /\ UNCHANGED <<status, released, attempts, faults>>

\* Mutant: any order that is not closed is taken for unpaid.
NotClosed(o) == status[o] # 300

ToBePaid(o) == status[o] = 100

\* Mutant: an order that cannot be read is skipped.
SkipOnQueryError(i) == Advance(i)

OnQueryError(i) == RetryLater(i)

QueryOrder(i) ==
  /\ pc[i] = "next"
  /\ at[i] <= Len(Batches[i])
  /\ Current(i) # Malformed
  /\ \/ /\ ToBePaid(Current(i))
        /\ pc' = [pc EXCEPT ![i] = "send"]
        /\ UNCHANGED <<at, faults>>
     \/ /\ ~ToBePaid(Current(i))
        /\ Advance(i)
        /\ UNCHANGED faults
     \/ Fault /\ OnQueryError(i)
  /\ UNCHANGED <<status, released, attempts>>

\* Mutant: the order is closed although its message may not be out.
CloseOnSendError(i) == pc' = [pc EXCEPT ![i] = "close"] /\ UNCHANGED at

OnSendError(i) == RetryLater(i)

\* A send that fails may have reached the broker all the same.
SendRollback(i) ==
  /\ pc[i] = "send"
  /\ \/ /\ released' = released \cup {Current(i)}
        /\ pc' = [pc EXCEPT ![i] = "close"]
        /\ UNCHANGED <<at, faults>>
     \/ /\ Fault
        /\ released' \in {released, released \cup {Current(i)}}
        /\ OnSendError(i)
  /\ UNCHANGED <<status, attempts>>

\* The row is written whatever its status is by now.  An error is ignored.
UpdateOrder(i) ==
  /\ pc[i] = "close"
  /\ \/ status' = [status EXCEPT ![Current(i)] = 300]
     \/ UpdateMayFail /\ UNCHANGED status
  /\ Advance(i)
  /\ UNCHANGED <<released, attempts, faults>>

\* The consumer dies under an invocation: its batch was never acknowledged and
\* comes again, a delivery that does not count.
Crash(i) ==
  /\ pc[i] \in {"next", "send", "close"}
  /\ Fault
  /\ pc' = [pc EXCEPT ![i] = "waiting"]
  /\ at' = [at EXCEPT ![i] = 1]
  /\ attempts' = [attempts EXCEPT ![i] = @ - 1]
  /\ UNCHANGED <<status, released>>

Finished ==
  /\ SendTopic = SubscribedTopic => \A i \in Invocations : pc[i] \in {"done", "dead"}
  /\ UNCHANGED vars

Handle(i) ==
  \/ ConsumeSuccess(i) \/ SkipMalformed(i) \/ QueryOrder(i) \/ SendRollback(i)
  \/ UpdateOrder(i)

Next ==
  \/ \E o \in Orders : Pay(o)
  \/ \E i \in Invocations : Deliver(i) \/ Handle(i) \/ Crash(i)
  \/ Finished

Spec == Init /\ [][Next]_vars

\* The broker hands batches out and a running handler goes on; nobody has to pay.
FairSpec ==
  /\ Spec
  /\ \A i \in Invocations : WF_vars(Deliver(i)) /\ WF_vars(Handle(i))
-----------------------------------------------------------------------------
(* Properties *)

\* Every variable keeps its type.
TypeOK ==
  /\ status \in [Orders -> {100, 200, 300}]
  /\ released \subseteq Orders
  /\ pc \in [Invocations -> {"waiting", "next", "send", "close", "done", "dead"}]
  /\ at \in [Invocations -> Nat \ {0}]
  /\ attempts \in [Invocations -> 0..MaxAttempts]
  /\ faults \in 0..MaxFaults

\* An order is closed only after its stock's rollback message is out, through
\* failed sends, retries and crashes: no closed order keeps its stock.
ClosedMeansReleased ==
  \A o \in Orders : status[o] = 300 => o \in released

\* Some invocation read the order as unpaid and has not finished with it.
BeingClosed(o) ==
  \E i \in Invocations : pc[i] \in {"send", "close"} /\ Current(i) = o

\* A payment is safe once no invocation that missed it is still at work: no
\* later delivery starts closing the order, undoes the payment or gives its
\* stock away, no matter how often its message comes.
PaidIsFinal ==
  [][\A o \in Orders :
       status[o] = 200 /\ ~BeingClosed(o)
         => /\ status'[o] = 200 /\ ~BeingClosed(o)'
            /\ o \in released' => o \in released]_vars

\* A paid order is left alone.
PaidStaysPaid == [][\A o \in Orders : status[o] = 200 => status'[o] = 200]_vars

Carries(i, o) == \E n \in 1..Len(Batches[i]) : Batches[i][n] = o

\* The broker gave up a batch with the order, or its update failed.
Abandoned(o) ==
  \E i \in Invocations :
    /\ Carries(i, o)
    /\ pc[i] = "dead" \/ (pc[i] = "done" /\ o \in released)

\* Every order whose timeout message was sent is paid or closed in the end,
\* unless it was abandoned.
OrdersSettle ==
  \A o \in Orders :
    (\E i \in Invocations : Carries(i, o))
      => (status[o] = 100 ~> (status[o] # 100 \/ Abandoned(o)))
=============================================================================
