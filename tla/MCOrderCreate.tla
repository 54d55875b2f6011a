---------------------------- MODULE MCOrderCreate ----------------------------
(***************************************************************************)
(* Instances of OrderCreate for TLC.                                       *)
(***************************************************************************)
EXTENDS OrderCreate, TLC

CONSTANTS o1, o2

TwoOrders == {o1, o2}

\* The broker reaches the producer of the order it asks about, or any producer
\* of the group.
OwnProducer == [o \in Orders |-> {o}]
AnyProducer == [o \in Orders |-> Orders]

\* Everything but what the answers of CreateOrder, and the fate of the half
\* message, do not survive.
SafeFaults == AllFaults \ {"half_status", "reduce_silent", "rows_unsure", "delay_error",
                           "early_check"}

\* Everything but what loses the only trace of a deduction.
LiveFaults == AllFaults \ {"reduce_unsure", "query_error", "unanswered", "crash"}

LostEndFaults == {"end_lost"}
RowsFaults == {"rows_error"}
=============================================================================
