----------------------------- MODULE StockLedger -----------------------------
(***************************************************************************)
(* What the inventory store promises the order service: the stock of goods *)
(* changes only in whole units of work.  A reduce request takes exactly    *)
(* what it asked for, at most once, and only if something is left after    *)
(* it; a rollback message gives back exactly what it names, at most once,  *)
(* and only for a recorded deduction.                                      *)
(***************************************************************************)
EXTENDS Integers

CONSTANTS Stocked, InitialNum, Calls, Requests, Recorded

VARIABLES
  job,       \* the request of each call
  avail,     \* units of each stocked goods that can be sold
  deducted,  \* calls that took their units
  returned   \* rollback messages whose units were given back

Init ==
  /\ job \in [Calls -> Requests]
  /\ avail = InitialNum
  /\ deducted = {}
  /\ returned = {}

Deduct(c) ==
  /\ c \notin deducted
  /\ job[c].goods \in Stocked
  /\ job[c].num > 0
  /\ avail[job[c].goods] - job[c].num > 0
  /\ avail' = [avail EXCEPT ![job[c].goods] = @ - job[c].num]
  /\ deducted' = deducted \cup {c}
  /\ UNCHANGED <<job, returned>>

Return(m) ==
  /\ m \notin returned
  /\ m.goods \in Stocked
  /\ avail' = [avail EXCEPT ![m.goods] = @ + m.num]
  /\ returned' = returned \cup {m}
  /\ UNCHANGED <<job, deducted>>

Next ==
  \/ \E c \in Calls : Deduct(c)
  \/ \E m \in Recorded : Return(m)

Spec == Init /\ [][Next]_<<job, avail, deducted, returned>>
=============================================================================
