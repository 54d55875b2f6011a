--------------------------- MODULE PayTimeoutProofs ---------------------------
(***************************************************************************)
(* Machine-checked proofs about PayTimeout, for any number of orders, any  *)
(* batches and any faults.                                                 *)
(***************************************************************************)
EXTENDS PayTimeout, TLAPS

\* A running delivery was counted; a batch that waits has deliveries left.
AttemptsInv ==
  \A i \in Invocations :
    /\ pc[i] \in {"next", "send", "close"} => attempts[i] > 0
    /\ pc[i] = "waiting" => attempts[i] < MaxAttempts

\* An invocation sends and closes for an order of its batch, and closes only
\* what it sent for.
HandlerInv ==
  \A i \in Invocations :
    /\ pc[i] \in {"send", "close"} => Current(i) \in Orders
    /\ pc[i] = "close" => Current(i) \in released

IInv == TypeOK /\ AttemptsInv /\ HandlerInv /\ ClosedMeansReleased

LEMMA CurrentIsMessage ==
  ASSUME TypeOK, NEW i \in Invocations, at[i] <= Len(Batches[i]), Current(i) # Malformed
  PROVE  Current(i) \in Orders
<1>1. Batches[i] \in Seq(Orders \cup {Malformed}) /\ at[i] \in 1..Len(Batches[i])
  BY PayTimeoutAssumptions DEF TypeOK
<1>2. Current(i) \in Orders \cup {Malformed}
  BY <1>1 DEF Current
<1>3. QED
  BY <1>2

\* The invariant holds, whatever is delivered, fails, crashes or is paid.
LEMMA Invariant == Spec => []IInv
<1> USE PayTimeoutAssumptions
<1>1. Init => IInv
  BY DEF Init, IInv, TypeOK, AttemptsInv, HandlerInv, ClosedMeansReleased
<1>2. IInv /\ [Next]_vars => IInv'
  <2> SUFFICES ASSUME IInv, [Next]_vars PROVE IInv'
    OBVIOUS
  <2> USE DEF IInv, TypeOK, AttemptsInv, HandlerInv, ClosedMeansReleased, Current,
              Advance, RetryLater, MoreAttempts, Fault
  <2>1. ASSUME NEW o \in Orders, Pay(o) PROVE IInv'
    BY <2>1 DEF Pay
  <2>2. ASSUME NEW i \in Invocations, Deliver(i) PROVE IInv'
    BY <2>2 DEF Deliver
  <2>3. ASSUME NEW i \in Invocations, ConsumeSuccess(i) PROVE IInv'
    BY <2>3 DEF ConsumeSuccess
  <2>4. ASSUME NEW i \in Invocations, SkipMalformed(i) PROVE IInv'
    BY <2>4 DEF SkipMalformed
  <2>5. ASSUME NEW i \in Invocations, QueryOrder(i) PROVE IInv'
    <3>1. Current(i) \in Orders
      BY <2>5, CurrentIsMessage DEF QueryOrder, OnQueryError, ToBePaid
    <3>2. QED
      BY <2>5, <3>1 DEF QueryOrder, OnQueryError, ToBePaid
  <2>6. ASSUME NEW i \in Invocations, SendRollback(i) PROVE IInv'
    <3>1. Current(i) \in Orders /\ pc[i] = "send" /\ attempts[i] > 0
      BY <2>6 DEF SendRollback, OnSendError
    <3>2. CASE /\ released' = released \cup {Current(i)}
               /\ pc' = [pc EXCEPT ![i] = "close"]
               /\ UNCHANGED <<at, faults>>
      BY <2>6, <3>1, <3>2 DEF SendRollback, OnSendError
    <3>3. CASE /\ Fault
               /\ released' \in {released, released \cup {Current(i)}}
               /\ OnSendError(i)
      BY <2>6, <3>1, <3>3 DEF SendRollback, OnSendError
    <3>4. QED
      BY <2>6, <3>2, <3>3 DEF SendRollback, OnSendError
  <2>7. ASSUME NEW i \in Invocations, UpdateOrder(i) PROVE IInv'
    <3>1. Current(i) \in Orders /\ Current(i) \in released /\ attempts[i] > 0
      BY <2>7 DEF UpdateOrder
    <3>2. /\ status' \in [Orders -> {100, 200, 300}]
          /\ \A o \in Orders : status'[o] = 300 => status[o] = 300 \/ o = Current(i)
      BY <2>7, <3>1 DEF UpdateOrder
    <3>3. /\ at' \in [Invocations -> Nat \ {0}]
          /\ \A j \in Invocations : j # i => at'[j] = at[j] /\ pc'[j] = pc[j]
          /\ pc' = [pc EXCEPT ![i] = "next"]
          /\ UNCHANGED <<released, attempts, faults>>
      BY <2>7 DEF UpdateOrder
    <3>4. TypeOK'
      BY <3>2, <3>3
    <3>5. AttemptsInv' /\ HandlerInv'
      BY <3>1, <3>3
    <3>6. ClosedMeansReleased'
      BY <3>1, <3>2, <3>3
    <3>7. QED
      BY <3>4, <3>5, <3>6
  <2>8. ASSUME NEW i \in Invocations, Crash(i) PROVE IInv'
    BY <2>8 DEF Crash
  <2>9. CASE Finished \/ UNCHANGED vars
    BY <2>9 DEF Finished, vars
  <2>10. QED
    BY <2>1, <2>2, <2>3, <2>4, <2>5, <2>6, <2>7, <2>8, <2>9 DEF Next, Handle
<1>3. QED
  BY <1>1, <1>2, PTL DEF Spec

\* Every variable keeps its type, the count of deliveries its bound.
THEOREM TypeCorrect == Spec => []TypeOK
<1>1. IInv => TypeOK
  BY DEF IInv
<1>2. QED
  BY <1>1, Invariant, PTL

\* No order is closed while its stock is kept, whatever fails or crashes
\* between the rollback message and the update of the row.
THEOREM ClosedIsReleased == Spec => []ClosedMeansReleased
<1>1. IInv => ClosedMeansReleased
  BY DEF IInv
<1>2. QED
  BY <1>1, Invariant, PTL

\* A payment that no invocation overlooked is never undone, nor is its stock
\* given away or its order closed, by any later or repeated delivery.
THEOREM PaymentIsFinal == Spec => PaidIsFinal
<1> DEFINE Final == \A o \in Orders :
                      status[o] = 200 /\ ~BeingClosed(o)
                        => /\ status'[o] = 200 /\ ~BeingClosed(o)'
                           /\ o \in released' => o \in released
<1>1. IInv /\ [Next]_vars => [Final]_vars
  <2> SUFFICES ASSUME IInv, [Next]_vars,
                      NEW o \in Orders, status[o] = 200, ~BeingClosed(o)
               PROVE  /\ status'[o] = 200 /\ ~BeingClosed(o)'
                      /\ o \in released' => o \in released
    OBVIOUS
  <2> USE DEF IInv, TypeOK, BeingClosed, Current
  <2>1. ASSUME NEW p \in Orders, Pay(p)
        PROVE  status'[o] = 200 /\ ~BeingClosed(o)' /\ released' = released
    BY <2>1 DEF Pay
  <2>2. ASSUME NEW i \in Invocations, SendRollback(i)
        PROVE  /\ status'[o] = 200 /\ ~BeingClosed(o)'
               /\ o \in released' => o \in released
    BY <2>2 DEF SendRollback, OnSendError, RetryLater
  <2>3. ASSUME NEW i \in Invocations, UpdateOrder(i)
        PROVE  status'[o] = 200 /\ ~BeingClosed(o)' /\ released' = released
    BY <2>3 DEF UpdateOrder, Advance
  <2>4. ASSUME NEW i \in Invocations, QueryOrder(i)
        PROVE  status'[o] = 200 /\ ~BeingClosed(o)' /\ released' = released
    BY <2>4 DEF QueryOrder, ToBePaid, OnQueryError, RetryLater, Advance
  <2>5. ASSUME NEW i \in Invocations,
               Deliver(i) \/ ConsumeSuccess(i) \/ SkipMalformed(i) \/ Crash(i)
        PROVE  UNCHANGED <<status, released>> /\ ~BeingClosed(o)'
    BY <2>5 DEF Deliver, ConsumeSuccess, SkipMalformed, Advance, Crash
  <2>6. CASE Finished \/ UNCHANGED vars
    BY <2>6 DEF Finished, vars
  <2>7. QED
    BY <2>1, <2>2, <2>3, <2>4, <2>5, <2>6 DEF Next, Handle
<1>2. QED
  BY <1>1, Invariant, PTL DEF Spec, PaidIsFinal
=============================================================================
