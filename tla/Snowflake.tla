------------------------------ MODULE Snowflake ------------------------------
(***************************************************************************)
(* The order numbers.  Each order_service process makes one snowflake node *)
(* from its configured machine id and start time, and every CreateOrder    *)
(* call draws its number from it.  platform_order has no unique key on the *)
(* number: two orders with one number would be read, paid and closed as one*)
(* order.                                                                  *)
(*                                                                         *)
(* A node is the library's (bwmarrin/snowflake): a number packs the        *)
(* milliseconds since the start time, the node and a step within the       *)
(* millisecond.  The time comes from the process's monotonic clock, set    *)
(* once from the host's wall clock; the node's mutex serialises the draws, *)
(* and a draw that finds the steps of its millisecond used up keeps the    *)
(* mutex until the next one.                                               *)
(***************************************************************************)
EXTENDS Integers

CONSTANTS
  Procs,          \* runs of order_service, restarts and other hosts included
  Machine,        \* machine_id in the configuration of each
  StartTime,      \* start_time there: "date", "" or "garbled"
  Calls,          \* the CreateOrder calls
  None,
  MaxNode,        \* 1023
  MaxStep,        \* 4095
  MaxTime,        \* bound on the clocks
  MachinesApart   \* do runs with one machine id follow each other in time?

ASSUME SnowflakeAssumptions ==
  /\ Machine \in [Procs -> Int]
  /\ StartTime \in [Procs -> {"date", "", "garbled"}]
  /\ None \notin Calls \cup [time : Nat, node : Nat, step : Nat]
  /\ MaxNode \in Nat /\ MaxStep \in Nat /\ MaxTime \in Nat
  /\ MachinesApart \in BOOLEAN

VARIABLES
  status,   \* "down", "up", "refused" or "dead"
  clock,    \* the process's clock, in milliseconds since the start time
  last,     \* Node.time: the millisecond of the node's last number
  step,     \* Node.step
  holder,   \* the call that keeps the node's mutex until the next millisecond
  parts     \* what the number of each call is made of

vars == <<status, clock, last, step, holder, parts>>

Init ==
  /\ status = [p \in Procs |-> "down"]
  /\ clock = [p \in Procs |-> 0]
  /\ last = [p \in Procs |-> 0]
  /\ step = [p \in Procs |-> 0]
  /\ holder = [p \in Procs |-> None]
  /\ parts = [c \in Calls |-> None]

Drawn == {c \in Calls : parts[c] # None}

\* The number itself: the shifts of the library.
Pack(n) == (n.time * (MaxNode + 1) + n.node) * (MaxStep + 1) + n.step

-----------------------------------------------------------------------------
(* snowflake.Init in main *)

\* Mutant: the library does not look at the machine id.
NonNegative(p) == Machine[p] >= 0

InRange(p) == Machine[p] \in 0..MaxNode

\* The default for an empty start time, "2023-7-21", is not of the layout it is
\* parsed with.
Parsed(p) == StartTime[p] = "date"

\* Another run with the machine id is over, and its clock is behind t.
After(t, p) ==
  \A q \in Procs \ {p} :
    Machine[q] = Machine[p] =>
      /\ status[q] # "up"
      /\ status[q] = "dead" => clock[q] < t

Boot(p) ==
  /\ status[p] = "down"
  /\ InRange(p) /\ Parsed(p)
  /\ \E t \in 0..MaxTime :
       /\ MachinesApart => After(t, p)
       /\ clock' = [clock EXCEPT ![p] = t]
  /\ status' = [status EXCEPT ![p] = "up"]
  /\ UNCHANGED <<last, step, holder, parts>>

\* main panics on the error.
Refuse(p) ==
  /\ status[p] = "down"
  /\ ~(InRange(p) /\ Parsed(p))
  /\ status' = [status EXCEPT ![p] = "refused"]
  /\ UNCHANGED <<clock, last, step, holder, parts>>

Tick(p) ==
  /\ status[p] = "up"
  /\ clock[p] < MaxTime
  /\ clock' = [clock EXCEPT ![p] = @ + 1]
  /\ UNCHANGED <<status, last, step, holder, parts>>

\* The calls in progress die with the process.
Die(p) ==
  /\ status[p] = "up"
  /\ status' = [status EXCEPT ![p] = "dead"]
  /\ holder' = [holder EXCEPT ![p] = None]
  /\ UNCHANGED <<clock, last, step, parts>>

-----------------------------------------------------------------------------
(* GenID at the start of Create *)

\* Mutant: the step is not masked.
Unmasked(s) == s + 1

NextStep(s) == (s + 1) % (MaxStep + 1)

\* Node.Generate gives call c the number of the process's time and step s.
Number(p, c, s) ==
  /\ parts' = [parts EXCEPT ![c] = [time |-> clock[p], node |-> Machine[p], step |-> s]]
  /\ step' = [step EXCEPT ![p] = s]
  /\ last' = [last EXCEPT ![p] = clock[p]]

\* Mutant: used-up steps start over within their millisecond.
NeverUsedUp(p) == FALSE

UsedUp(p) == NextStep(step[p]) = 0

GenID(p, c) ==
  /\ status[p] = "up"
  /\ holder[p] = None
  /\ c \notin Drawn
  /\ \A q \in Procs : holder[q] # c
  /\ \/ clock[p] # last[p] /\ Number(p, c, 0) /\ UNCHANGED holder
     \/ /\ clock[p] = last[p] /\ ~UsedUp(p)
        /\ Number(p, c, NextStep(step[p]))
        /\ UNCHANGED holder
     \/ /\ clock[p] = last[p] /\ UsedUp(p)
        /\ holder' = [holder EXCEPT ![p] = c]
        /\ step' = [step EXCEPT ![p] = 0]
        /\ UNCHANGED <<last, parts>>
  /\ UNCHANGED <<status, clock>>

ClockMoved(p) == clock[p] > last[p]

\* The call that kept the mutex sees the next millisecond.
NextMillisecond(p) ==
  /\ holder[p] # None
  /\ ClockMoved(p)
  /\ Number(p, holder[p], 0)
  /\ holder' = [holder EXCEPT ![p] = None]
  /\ UNCHANGED <<status, clock>>

Finished ==
  /\ \A p \in Procs : status[p] # "up"
  /\ UNCHANGED vars

Next ==
  \/ \E p \in Procs :
       \/ Boot(p) \/ Refuse(p) \/ Tick(p) \/ Die(p) \/ NextMillisecond(p)
       \/ \E c \in Calls : GenID(p, c)
  \/ Finished

Spec == Init /\ [][Next]_vars
-----------------------------------------------------------------------------
(* Properties *)

\* Every variable keeps its type; a number's parts fit their bits.
TypeOK ==
  /\ status \in [Procs -> {"down", "up", "refused", "dead"}]
  /\ clock \in [Procs -> 0..MaxTime]
  /\ last \in [Procs -> 0..MaxTime]
  /\ step \in [Procs -> 0..MaxStep]
  /\ holder \in [Procs -> Calls \cup {None}]
  /\ parts \in [Calls ->
       [time : 0..MaxTime, node : 0..MaxNode, step : 0..MaxStep] \cup {None}]

\* No two orders have one number, drawn by one process or by two.
IdsUnique ==
  \A c, d \in Drawn : Pack(parts[c]) = Pack(parts[d]) => c = d

\* The numbers of a machine id increase in the order they are drawn, through
\* restarts and through milliseconds whose steps are used up.
IdsIncrease ==
  [][\A c \in Calls, d \in Drawn :
       c \notin Drawn /\ c \in Drawn' /\ parts'[c].node = parts[d].node
         => Pack(parts'[c]) > Pack(parts[d])]_vars
=============================================================================
