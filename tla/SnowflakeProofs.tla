--------------------------- MODULE SnowflakeProofs ---------------------------
(***************************************************************************)
(* Machine-checked proofs about Snowflake, for any number of processes and *)
(* calls, any clocks and any widths of the node and step fields.           *)
(***************************************************************************)
EXTENDS Snowflake, TLAPS

Number3 == [time : Nat, node : 0..MaxNode, step : 0..MaxStep]

\* Who draws has a machine id that fits its field.
RangeInv ==
  /\ \A p \in Procs : status[p] \in {"up", "dead"} => InRange(p)
  /\ \A p \in Procs : last[p] <= clock[p]
  /\ \A p \in Procs : status[p] = "down" => last[p] = 0 /\ step[p] = 0
  /\ \A p \in Procs : status[p] # "up" => holder[p] = None

\* One run per machine id at a time, each clock ahead of the earlier runs'.
OrderInv ==
  \A p, q \in Procs :
    p # q /\ Machine[p] = Machine[q] /\ status[p] = "up"
      => /\ status[q] # "up"
         /\ status[q] = "dead" => clock[q] < clock[p]

\* The numbers of a machine id are not ahead of the node that draws next.  While
\* a call keeps the mutex the node's step is 0 again, and its time counts alone.
BehindInv ==
  \A p \in Procs, c \in Drawn :
    status[p] = "up" /\ parts[c].node = Machine[p]
      => \/ parts[c].time < clock[p]
         \/ /\ parts[c].time = clock[p] /\ clock[p] = last[p]
            /\ holder[p] # None \/ parts[c].step <= step[p]

\* A number was drawn by a run that is up or dead, and its clock has passed it.
DrawerInv ==
  \A c \in Drawn : \E p \in Procs :
    /\ status[p] \in {"up", "dead"}
    /\ Machine[p] = parts[c].node
    /\ parts[c].time <= clock[p]

\* The call that keeps a mutex has no number, and keeps no other.
HolderInv ==
  \A p \in Procs :
    holder[p] # None =>
      /\ holder[p] \notin Drawn
      /\ \A q \in Procs : holder[q] = holder[p] => q = p

IInv == TypeOK /\ RangeInv /\ OrderInv /\ BehindInv /\ DrawerInv /\ HolderInv

-----------------------------------------------------------------------------
(* The number as a mixed-radix numeral *)

LEMMA Widths == MaxNode \in Nat /\ MaxStep \in Nat /\ MaxTime \in Nat
BY SnowflakeAssumptions

\* A digit below m counts less than one of the digits above it.
LEMMA DigitLess ==
  ASSUME NEW a \in Nat, NEW b \in Nat, NEW m \in Nat, NEW r \in 0..m, NEW s \in 0..m, a < b
  PROVE  a * (m + 1) + r < b * (m + 1) + s
<1>1. PICK d \in Nat : b = a + 1 + d
  <2>1. b - a - 1 \in Nat /\ b = a + 1 + (b - a - 1)
    OBVIOUS
  <2>2. QED
    BY <2>1
<1>2. b * (m + 1) = a * (m + 1) + (m + 1) + d * (m + 1)
  BY <1>1
<1>3. d * (m + 1) \in Nat
  OBVIOUS
<1>4. a * (m + 1) \in Nat
  OBVIOUS
<1>5. QED
  BY <1>2, <1>3, <1>4

High(n) == n.time * (MaxNode + 1) + n.node

LEMMA HighInNat ==
  ASSUME NEW n \in Number3
  PROVE  High(n) \in Nat
<1>1. n.time \in Nat /\ n.node \in Nat /\ MaxNode \in Nat
  BY Widths DEF Number3
<1>2. n.time * (MaxNode + 1) \in Nat
  BY <1>1
<1>3. QED
  BY <1>1, <1>2 DEF High

LEMMA Cancel ==
  ASSUME NEW x \in Nat, NEW a \in Nat, NEW b \in Nat, x + a = x + b
  PROVE  a = b
OBVIOUS

LEMMA PackInInt ==
  ASSUME NEW n \in Number3
  PROVE  Pack(n) \in Int
<1>1. High(n) \in Nat /\ MaxStep \in Nat /\ n.step \in 0..MaxStep
  BY HighInNat, Widths DEF Number3
<1>2. High(n) * (MaxStep + 1) \in Nat
  BY <1>1
<1>3. QED
  BY <1>1, <1>2 DEF Pack, High

\* Two numbers are equal only if all their parts are.
LEMMA PackInjective ==
  ASSUME NEW n \in Number3, NEW k \in Number3, Pack(n) = Pack(k)
  PROVE  n = k
<1> USE Widths
<1>1. High(n) \in Nat /\ High(k) \in Nat
  BY HighInNat
<1>2. Pack(n) = High(n) * (MaxStep + 1) + n.step /\ Pack(k) = High(k) * (MaxStep + 1) + k.step
  BY DEF Pack, High
<1>3. n.step \in 0..MaxStep /\ k.step \in 0..MaxStep
  BY DEF Number3
<1>4. ~(High(n) < High(k)) /\ ~(High(k) < High(n))
  <2>1. ASSUME High(n) < High(k) PROVE Pack(n) # Pack(k)
    <3>1. Pack(n) < Pack(k)
      BY <1>1, <1>2, <1>3, <2>1, DigitLess
    <3>2. Pack(n) \in Int /\ Pack(k) \in Int
      BY <1>1, <1>2, <1>3
    <3>3. QED
      BY <3>1, <3>2
  <2>2. ASSUME High(k) < High(n) PROVE Pack(n) # Pack(k)
    <3>1. Pack(k) < Pack(n)
      BY <1>1, <1>2, <1>3, <2>2, DigitLess
    <3>2. Pack(n) \in Int /\ Pack(k) \in Int
      BY <1>1, <1>2, <1>3
    <3>3. QED
      BY <3>1, <3>2
  <2>3. QED
    BY <2>1, <2>2
<1>5. High(n) = High(k)
  BY <1>1, <1>4
<1>6. n.step = k.step
  <2> DEFINE high == High(n) * (MaxStep + 1)
  <2>1. high \in Nat
    BY <1>1
  <2>2. high + n.step = high + k.step
    BY <1>2, <1>5
  <2>3. n.step \in Nat /\ k.step \in Nat
    BY <1>3
  <2> HIDE DEF high
  <2>4. QED
    BY <2>1, <2>2, <2>3, Cancel
<1>7. n.time \in Nat /\ k.time \in Nat /\ n.node \in 0..MaxNode /\ k.node \in 0..MaxNode
  BY DEF Number3
<1>8. n.time = k.time
  <2>1. ~(n.time < k.time)
    BY <1>1, <1>5, <1>7, DigitLess DEF High
  <2>2. ~(k.time < n.time)
    BY <1>1, <1>5, <1>7, DigitLess DEF High
  <2>3. QED
    BY <1>7, <2>1, <2>2
<1>9. n.node = k.node
  BY <1>5, <1>7, <1>8 DEF High
<1>10. QED
  BY <1>6, <1>8, <1>9 DEF Number3

\* On one node, a later time or a later step makes a greater number.
LEMMA PackIncreases ==
  ASSUME NEW n \in Number3, NEW k \in Number3, n.node = k.node,
         n.time < k.time \/ (n.time = k.time /\ n.step < k.step)
  PROVE  Pack(n) < Pack(k)
<1> USE Widths
<1>1. High(n) \in Nat /\ High(k) \in Nat
  BY HighInNat
<1>2. Pack(n) = High(n) * (MaxStep + 1) + n.step /\ Pack(k) = High(k) * (MaxStep + 1) + k.step
  BY DEF Pack, High
<1>3. /\ n.step \in 0..MaxStep /\ k.step \in 0..MaxStep
      /\ n.time \in Nat /\ k.time \in Nat /\ n.node \in 0..MaxNode /\ k.node \in 0..MaxNode
  BY DEF Number3
<1>4. CASE n.time < k.time
  <2>1. High(n) < High(k)
    BY <1>3, <1>4, DigitLess DEF High
  <2>2. QED
    BY <1>1, <1>2, <1>3, <2>1, DigitLess
<1>5. CASE n.time = k.time /\ n.step < k.step
  <2>1. High(n) = High(k)
    BY <1>5 DEF High
  <2>2. High(n) * (MaxStep + 1) \in Nat
    BY <1>1
  <2>3. QED
    BY <1>2, <1>3, <1>5, <2>1, <2>2
<1>6. QED
  BY <1>4, <1>5

-----------------------------------------------------------------------------
(* The invariant *)

\* The next step is a greater one, unless the steps are used up.
LEMMA NextStepGreater ==
  ASSUME NEW s \in 0..MaxStep, NextStep(s) # 0
  PROVE  NextStep(s) \in 0..MaxStep /\ NextStep(s) > s
<1>1. s \in Nat /\ s <= MaxStep
  BY Widths
<1>2. CASE s < MaxStep
  <2>1. s + 1 \in 0..MaxStep
    BY <1>1, <1>2, Widths
  <2>2. NextStep(s) = s + 1
    BY <1>1, <1>2, Widths DEF NextStep
  <2>3. QED
    BY <1>1, <2>1, <2>2
<1>3. CASE s = MaxStep
  BY <1>1, <1>3, Widths DEF NextStep
<1>4. QED
  BY <1>1, <1>2, <1>3, Widths

\* The call a process gives a number to gets one that none of its machine id
\* has reached.
LEMMA NumberIsNew ==
  ASSUME IInv, NEW p \in Procs, status[p] = "up", NEW s \in 0..MaxStep, NEW d \in Drawn,
         parts[d].node = Machine[p],
         \/ clock[p] > last[p]
         \/ holder[p] = None /\ clock[p] = last[p] /\ s > step[p]
  PROVE  \/ parts[d].time < clock[p]
         \/ parts[d].time = clock[p] /\ parts[d].step < s
<1>1. \/ parts[d].time < clock[p]
      \/ /\ parts[d].time = clock[p] /\ clock[p] = last[p]
         /\ holder[p] # None \/ parts[d].step <= step[p]
  BY DEF IInv, BehindInv
<1>2. clock[p] \in Int /\ last[p] \in Int /\ step[p] \in Int
  BY Widths DEF IInv, TypeOK
<1>3. parts[d].step \in Int
  BY Widths DEF IInv, TypeOK, Drawn
<1>4. s \in Int
  BY Widths
<1>5. QED
  BY <1>1, <1>2, <1>3, <1>4

\* Giving out a number keeps the invariant.
LEMMA NumberStep ==
  ASSUME IInv, NEW p \in Procs, status[p] = "up",
         NEW c \in Calls, c \notin Drawn, NEW s \in 0..MaxStep,
         \/ clock[p] > last[p] /\ s = 0
         \/ holder[p] = None /\ clock[p] = last[p] /\ s > step[p],
         Number(p, c, s),
         \/ holder[p] = c /\ holder' = [holder EXCEPT ![p] = None]
         \/ holder[p] = None /\ (\A q \in Procs : holder[q] # c) /\ UNCHANGED holder,
         UNCHANGED <<status, clock>>
  PROVE  IInv'
<1> USE DEF IInv, TypeOK, Number
<1>1. InRange(p)
  BY DEF RangeInv
<1>2. Machine[p] \in 0..MaxNode /\ clock[p] \in 0..MaxTime /\ c # None
  BY <1>1, SnowflakeAssumptions DEF InRange
<1>3. /\ parts' = [parts EXCEPT ![c] = [time |-> clock[p], node |-> Machine[p], step |-> s]]
      /\ parts'[c] = [time |-> clock[p], node |-> Machine[p], step |-> s]
      /\ parts'[c] # None
  <2>1. clock[p] \in Nat /\ Machine[p] \in Nat /\ s \in Nat
    BY <1>2, Widths
  <2>2. [time |-> clock[p], node |-> Machine[p], step |-> s] \in [time : Nat, node : Nat, step : Nat]
    BY <2>1
  <2>3. [time |-> clock[p], node |-> Machine[p], step |-> s] # None
    BY <2>2, SnowflakeAssumptions
  <2>4. QED
    BY <2>3
<1>4. Drawn' = Drawn \cup {c} /\ \A d \in Drawn : d # c /\ parts'[d] = parts[d]
  BY <1>3 DEF Drawn
<1>5. TypeOK'
  <2>1. last' \in [Procs -> 0..MaxTime] /\ step' \in [Procs -> 0..MaxStep]
    BY <1>2
  <2>2. holder' \in [Procs -> Calls \cup {None}]
    OBVIOUS
  <2>3. parts' \in [Calls -> [time : 0..MaxTime, node : 0..MaxNode, step : 0..MaxStep] \cup {None}]
    BY <1>2, <1>3
  <2>4. QED
    BY <2>1, <2>2, <2>3
<1>6. RangeInv'
  <2>1. \A q \in Procs : last'[q] <= clock'[q]
    BY <1>2, Widths DEF RangeInv
  <2>2. QED
    BY <2>1 DEF RangeInv, InRange
<1>7. OrderInv'
  BY DEF OrderInv
<1>8. BehindInv'
  <2> SUFFICES ASSUME NEW q \in Procs, NEW d \in Drawn', status[q] = "up",
                      parts'[d].node = Machine[q]
               PROVE  \/ parts'[d].time < clock[q]
                      \/ /\ parts'[d].time = clock[q] /\ clock[q] = last'[q]
                         /\ holder'[q] # None \/ parts'[d].step <= step'[q]
    BY DEF BehindInv
  <2>1. CASE q = p /\ d = c
    BY <1>2, <1>3, <2>1, Widths
  <2>2. CASE q = p /\ d # c
    <3>1. d \in Drawn /\ parts'[d] = parts[d]
      BY <1>4, <2>2
    <3>2. parts[d].time < clock[p] \/ (parts[d].time = clock[p] /\ parts[d].step < s)
      BY <2>2, <3>1, NumberIsNew
    <3>3. parts[d].step \in Int /\ s \in Int /\ step'[p] = s /\ last'[p] = clock[p]
      BY <3>1, Widths DEF Drawn
    <3>4. QED
      BY <2>2, <3>1, <3>2, <3>3
  <2>3. CASE q # p
    <3>1. Machine[q] # Machine[p]
      BY <2>3 DEF OrderInv
    <3>2. d # c
      BY <1>3, <3>1
    <3>3. d \in Drawn /\ parts'[d] = parts[d]
      BY <1>4, <3>2
    <3>4. last'[q] = last[q] /\ step'[q] = step[q] /\ holder'[q] = holder[q]
      BY <2>3
    <3>5. QED
      BY <3>3, <3>4 DEF BehindInv
  <2>4. QED
    BY <2>1, <2>2, <2>3
<1>9. DrawerInv'
  <2>1. \A d \in Drawn : \E q \in Procs :
          status'[q] \in {"up", "dead"} /\ Machine[q] = parts'[d].node /\ parts'[d].time <= clock'[q]
    BY <1>4 DEF DrawerInv
  <2>2. status'[p] \in {"up", "dead"} /\ Machine[p] = parts'[c].node /\ parts'[c].time <= clock'[p]
    BY <1>2, <1>3, Widths
  <2>3. QED
    BY <1>4, <2>1, <2>2 DEF DrawerInv
<1>10. HolderInv'
  BY <1>2, <1>4 DEF HolderInv
<1>11. QED
  BY <1>5, <1>6, <1>7, <1>8, <1>9, <1>10

LEMMA IInvStep ==
  ASSUME MachinesApart, IInv, [Next]_vars
  PROVE  IInv'
<1>1. ASSUME NEW p \in Procs, Boot(p) PROVE IInv'
  <2>1. PICK t \in 0..MaxTime : After(t, p) /\ clock' = [clock EXCEPT ![p] = t]
    BY <1>1 DEF Boot
  <2>2. /\ status[p] = "down" /\ InRange(p)
        /\ status' = [status EXCEPT ![p] = "up"]
        /\ UNCHANGED <<last, step, holder, parts>>
    BY <1>1 DEF Boot
  <2> USE DEF IInv, TypeOK
  <2>3. Drawn' = Drawn
    BY <2>2 DEF Drawn
  <2>4. clock'[p] = t /\ status'[p] = "up"
    BY <2>1, <2>2
  <2>5. TypeOK'
    BY <2>1, <2>2
  <2>6. RangeInv'
    BY <2>1, <2>2, Widths DEF RangeInv, InRange
  <2>7. OrderInv'
    <3> SUFFICES ASSUME NEW r \in Procs, NEW q \in Procs, r # q, Machine[r] = Machine[q],
                        status'[r] = "up"
                 PROVE  status'[q] # "up" /\ (status'[q] = "dead" => clock'[q] < clock'[r])
      BY DEF OrderInv
    <3>1. CASE r = p
      BY <2>1, <2>2, <2>4, <3>1 DEF After
    <3>2. CASE r # p /\ q # p
      BY <2>1, <2>2, <3>2 DEF OrderInv
    <3>3. CASE r # p /\ q = p
      BY <2>1, <2>2, <3>3 DEF After
    <3>4. QED
      BY <3>1, <3>2, <3>3
  <2>8. BehindInv'
    <3> SUFFICES ASSUME NEW q \in Procs, NEW d \in Drawn, status'[q] = "up",
                        parts[d].node = Machine[q]
                 PROVE  \/ parts[d].time < clock'[q]
                        \/ /\ parts[d].time = clock'[q] /\ clock'[q] = last[q]
                           /\ holder[q] # None \/ parts[d].step <= step[q]
      BY <2>2, <2>3 DEF BehindInv
    <3>1. CASE q # p
      BY <2>1, <2>2, <3>1 DEF BehindInv
    <3>2. CASE q = p
      <4>1. PICK r \in Procs : /\ status[r] \in {"up", "dead"}
                               /\ Machine[r] = parts[d].node
                               /\ parts[d].time <= clock[r]
        BY DEF DrawerInv
      <4>2. clock[r] < t
        BY <2>1, <2>2, <3>2, <4>1 DEF After
      <4>3. clock[r] \in Int /\ t \in Int /\ parts[d].time \in Int
        BY Widths DEF Drawn
      <4>4. QED
        BY <2>4, <3>2, <4>1, <4>2, <4>3
    <3>3. QED
      BY <3>1, <3>2
  <2>9. DrawerInv'
    BY <2>1, <2>2, <2>3 DEF DrawerInv
  <2>10. HolderInv'
    BY <2>2, <2>3 DEF HolderInv
  <2>11. QED
    BY <2>5, <2>6, <2>7, <2>8, <2>9, <2>10
<1>2. ASSUME NEW p \in Procs, Refuse(p) PROVE IInv'
  <2>1. /\ status[p] = "down" /\ status' = [status EXCEPT ![p] = "refused"]
        /\ UNCHANGED <<clock, last, step, holder, parts>> /\ Drawn' = Drawn
    BY <1>2 DEF Refuse, Drawn
  <2> USE <2>1 DEF IInv, TypeOK
  <2>2. TypeOK' /\ RangeInv' /\ OrderInv'
    BY DEF RangeInv, InRange, OrderInv
  <2>3. BehindInv' /\ HolderInv'
    BY DEF BehindInv, HolderInv
  <2>4. DrawerInv'
    BY DEF DrawerInv
  <2>5. QED
    BY <2>2, <2>3, <2>4
<1>3. ASSUME NEW p \in Procs, Tick(p) PROVE IInv'
  <2>1. /\ status[p] = "up" /\ clock[p] < MaxTime /\ clock' = [clock EXCEPT ![p] = @ + 1]
        /\ UNCHANGED <<status, last, step, holder, parts>> /\ Drawn' = Drawn
    BY <1>3 DEF Tick, Drawn
  <2> USE DEF IInv, TypeOK
  <2>2. clock[p] \in 0..MaxTime /\ clock'[p] = clock[p] + 1
    BY <2>1
  <2>3. clock' \in [Procs -> 0..MaxTime]
    BY <2>1, <2>2, Widths
  <2>4. TypeOK'
    BY <2>1, <2>3
  <2>5. \A q \in Procs : clock[q] \in Int /\ clock'[q] \in Int /\ clock[q] <= clock'[q]
    BY <2>1, <2>2, <2>3, Widths
  <2>6. RangeInv'
    <3>1. \A q \in Procs : last[q] \in Int
      BY Widths
    <3>2. QED
      BY <2>1, <2>5, <3>1 DEF RangeInv, InRange
  <2>7. OrderInv'
    BY <2>1, <2>5 DEF OrderInv
  <2>8. BehindInv'
    <3> SUFFICES ASSUME NEW q \in Procs, NEW d \in Drawn, status[q] = "up",
                        parts[d].node = Machine[q]
                 PROVE  \/ parts[d].time < clock'[q]
                        \/ /\ parts[d].time = clock'[q] /\ clock'[q] = last[q]
                           /\ holder[q] # None \/ parts[d].step <= step[q]
      BY <2>1 DEF BehindInv
    <3>1. parts[d].time \in Int
      BY Widths DEF Drawn
    <3>2. CASE q = p
      <4>1. parts[d].time <= clock[p]
        BY <2>5, <3>1, <3>2 DEF BehindInv
      <4>2. QED
        BY <2>2, <2>5, <3>1, <3>2, <4>1
    <3>3. CASE q # p
      <4>1. clock'[q] = clock[q]
        BY <2>1, <3>3
      <4>2. QED
        BY <2>1, <4>1 DEF BehindInv
    <3>4. QED
      BY <3>2, <3>3
  <2>9. DrawerInv'
    <3> SUFFICES ASSUME NEW d \in Drawn
                 PROVE  \E q \in Procs : /\ status[q] \in {"up", "dead"}
                                          /\ Machine[q] = parts[d].node
                                          /\ parts[d].time <= clock'[q]
      BY <2>1 DEF DrawerInv
    <3>1. parts[d].time \in Int
      BY Widths DEF Drawn
    <3>2. QED
      BY <2>5, <3>1 DEF DrawerInv
  <2>10. HolderInv'
    BY <2>1 DEF HolderInv
  <2>11. QED
    BY <2>4, <2>6, <2>7, <2>8, <2>9, <2>10
<1>4. ASSUME NEW p \in Procs, Die(p) PROVE IInv'
  <2>1. /\ status[p] = "up" /\ status' = [status EXCEPT ![p] = "dead"]
        /\ holder' = [holder EXCEPT ![p] = None]
        /\ UNCHANGED <<clock, last, step, parts>> /\ Drawn' = Drawn
    BY <1>4 DEF Die, Drawn
  <2> USE <2>1 DEF IInv, TypeOK
  <2>2. TypeOK' /\ RangeInv'
    BY DEF RangeInv, InRange
  <2>3. OrderInv'
    BY DEF OrderInv
  <2>4. BehindInv'
    BY DEF BehindInv
  <2>5. DrawerInv'
    BY DEF DrawerInv
  <2>6. HolderInv'
    BY DEF HolderInv
  <2>7. QED
    BY <2>2, <2>3, <2>4, <2>5, <2>6
<1>5. ASSUME NEW p \in Procs, NextMillisecond(p) PROVE IInv'
  <2>1. /\ holder[p] # None /\ clock[p] > last[p] /\ Number(p, holder[p], 0)
        /\ holder' = [holder EXCEPT ![p] = None] /\ UNCHANGED <<status, clock>>
    BY <1>5 DEF NextMillisecond, ClockMoved
  <2>2. status[p] = "up" /\ holder[p] \in Calls /\ holder[p] \notin Drawn
    BY <2>1 DEF IInv, TypeOK, RangeInv, HolderInv
  <2>3. 0 \in 0..MaxStep
    BY Widths
  <2>4. QED
    BY <2>1, <2>2, <2>3, NumberStep
<1>6. ASSUME NEW p \in Procs, NEW c \in Calls, GenID(p, c) PROVE IInv'
  <2>1. /\ status[p] = "up" /\ holder[p] = None /\ c \notin Drawn
        /\ \A q \in Procs : holder[q] # c
        /\ UNCHANGED <<status, clock>>
    BY <1>6 DEF GenID
  <2>2. clock[p] \in 0..MaxTime /\ last[p] \in 0..MaxTime /\ step[p] \in 0..MaxStep
        /\ last[p] <= clock[p]
    BY DEF IInv, TypeOK, RangeInv
  <2>3. CASE clock[p] # last[p] /\ Number(p, c, 0) /\ UNCHANGED holder
    <3>1. clock[p] > last[p] /\ 0 \in 0..MaxStep
      BY <2>2, <2>3, Widths
    <3>2. QED
      BY <2>1, <2>3, <3>1, NumberStep
  <2>4. CASE /\ clock[p] = last[p] /\ ~UsedUp(p)
             /\ Number(p, c, NextStep(step[p]))
             /\ UNCHANGED holder
    <3>1. NextStep(step[p]) \in 0..MaxStep /\ NextStep(step[p]) > step[p]
      BY <2>2, <2>4, NextStepGreater DEF UsedUp
    <3>2. QED
      BY <2>1, <2>4, <3>1, NumberStep
  <2>5. CASE /\ clock[p] = last[p] /\ UsedUp(p)
             /\ holder' = [holder EXCEPT ![p] = c]
             /\ step' = [step EXCEPT ![p] = 0]
             /\ UNCHANGED <<last, parts>>
    <3> USE <2>1, <2>5 DEF IInv, TypeOK
    <3>1. Drawn' = Drawn
      BY DEF Drawn
    <3>2. 0 \in 0..MaxStep
      BY Widths
    <3>3. TypeOK'
      BY <3>2
    <3>4. RangeInv'
      BY DEF RangeInv, InRange
    <3>5. OrderInv'
      BY DEF OrderInv
    <3>6. BehindInv'
      <4>1. holder'[p] # None
        BY SnowflakeAssumptions
      <4>2. QED
        BY <3>1, <4>1 DEF BehindInv
    <3>7. DrawerInv'
      BY <3>1 DEF DrawerInv
    <3>8. HolderInv'
      BY <3>1 DEF HolderInv
    <3>9. QED
      BY <3>3, <3>4, <3>5, <3>6, <3>7, <3>8
  <2>6. QED
    BY <1>6, <2>3, <2>4, <2>5 DEF GenID
<1>7. CASE Finished \/ UNCHANGED vars
  <2>1. UNCHANGED vars /\ Drawn' = Drawn
    BY <1>7 DEF Finished, vars, Drawn
  <2>2. QED
    BY <2>1 DEF vars, IInv, TypeOK, RangeInv, InRange, OrderInv, BehindInv, DrawerInv, HolderInv
<1>8. QED
  BY <1>1, <1>2, <1>3, <1>4, <1>5, <1>6, <1>7 DEF Next

LEMMA Invariant ==
  ASSUME MachinesApart
  PROVE  Spec => []IInv
<1>1. Init => IInv
  <2> SUFFICES ASSUME Init PROVE IInv
    OBVIOUS
  <2>1. 0 \in 0..MaxTime /\ 0 \in 0..MaxStep
    BY Widths
  <2>2. Drawn = {}
    BY DEF Init, Drawn
  <2>3. TypeOK
    BY <2>1 DEF Init, TypeOK
  <2>4. QED
    BY <2>2, <2>3 DEF Init, IInv, RangeInv, OrderInv, BehindInv, DrawerInv, HolderInv
<1>2. IInv /\ [Next]_vars => IInv'
  BY IInvStep
<1>3. QED
  BY <1>1, <1>2, PTL DEF Spec

-----------------------------------------------------------------------------
LEMMA DrawnIsNumber ==
  ASSUME TypeOK, NEW c \in Drawn
  PROVE  parts[c] \in Number3
<1>1. parts[c] \in [time : 0..MaxTime, node : 0..MaxNode, step : 0..MaxStep]
  BY DEF TypeOK, Drawn
<1>2. QED
  BY <1>1, Widths DEF Number3

\* One number, one order: the parts of two orders' numbers differ.
PartsDiffer == \A c, d \in Drawn : parts[c] = parts[d] => c = d

\* A step gives at most one call a number, beyond those of its machine id.
LEMMA OnlyBeyond ==
  ASSUME IInv, [Next]_vars, NEW c \in Drawn', c \notin Drawn
  PROVE  /\ Drawn' = Drawn \cup {c}
         /\ \A d \in Drawn : parts'[d] = parts[d]
         /\ \A d \in Drawn : parts'[c].node = parts[d].node =>
              \/ parts[d].time < parts'[c].time
              \/ parts[d].time = parts'[c].time /\ parts[d].step < parts'[c].step
<1> USE DEF IInv, TypeOK
<1>1. ASSUME NEW p \in Procs, NEW b \in Calls, NEW s \in 0..MaxStep, Number(p, b, s),
             status[p] = "up",
             \/ clock[p] > last[p]
             \/ holder[p] = None /\ clock[p] = last[p] /\ s > step[p]
      PROVE  /\ Drawn' = Drawn \cup {c}
             /\ \A d \in Drawn : parts'[d] = parts[d]
             /\ \A d \in Drawn : parts'[c].node = parts[d].node =>
                  \/ parts[d].time < parts'[c].time
                  \/ parts[d].time = parts'[c].time /\ parts[d].step < parts'[c].step
  <2>1. parts' = [parts EXCEPT ![b] = [time |-> clock[p], node |-> Machine[p], step |-> s]]
    BY <1>1 DEF Number
  <2>2. c = b
    BY <2>1 DEF Drawn
  <2>3. /\ parts'[c] = [time |-> clock[p], node |-> Machine[p], step |-> s]
        /\ \A d \in Drawn : d # c /\ parts'[d] = parts[d]
        /\ Drawn' = Drawn \cup {c}
    BY <2>1, <2>2 DEF Drawn
  <2>4. ASSUME NEW d \in Drawn, parts[d].node = Machine[p]
        PROVE  \/ parts[d].time < clock[p]
               \/ parts[d].time = clock[p] /\ parts[d].step < s
    BY <1>1, <2>4, NumberIsNew
  <2>5. QED
    BY <2>3, <2>4
<1>2. ASSUME NEW p \in Procs, NextMillisecond(p)
      PROVE  \E b \in Calls, s \in 0..MaxStep :
               /\ Number(p, b, s) /\ status[p] = "up" /\ clock[p] > last[p]
  <2>1. /\ holder[p] \in Calls /\ Number(p, holder[p], 0) /\ status[p] = "up"
        /\ clock[p] > last[p] /\ 0 \in 0..MaxStep
    BY <1>2, Widths DEF NextMillisecond, ClockMoved, RangeInv
  <2>2. QED
    BY <2>1
<1>3. ASSUME NEW p \in Procs, NEW b \in Calls, GenID(p, b)
      PROVE  \/ Drawn' = Drawn
             \/ \E s \in 0..MaxStep :
                  /\ Number(p, b, s) /\ status[p] = "up"
                  /\ \/ clock[p] > last[p]
                     \/ holder[p] = None /\ clock[p] = last[p] /\ s > step[p]
  <2>1. status[p] = "up" /\ holder[p] = None
    BY <1>3 DEF GenID
  <2>2. CASE clock[p] # last[p] /\ Number(p, b, 0)
    <3>1. clock[p] > last[p] /\ 0 \in 0..MaxStep
      BY <2>2, Widths DEF RangeInv
    <3>2. QED
      BY <2>1, <2>2, <3>1
  <2>3. CASE clock[p] = last[p] /\ ~UsedUp(p) /\ Number(p, b, NextStep(step[p]))
    <3>1. NextStep(step[p]) \in 0..MaxStep /\ NextStep(step[p]) > step[p]
      BY <2>3, NextStepGreater DEF UsedUp
    <3>2. QED
      BY <2>1, <2>3, <3>1
  <2>4. CASE UNCHANGED <<last, parts>>
    BY <2>4 DEF Drawn
  <2>5. QED
    BY <1>3, <2>2, <2>3, <2>4 DEF GenID
<1>4. ASSUME UNCHANGED parts PROVE FALSE
  BY <1>4 DEF Drawn
<1>5. QED
  BY <1>1, <1>2, <1>3, <1>4 DEF Next, Boot, Refuse, Tick, Die, Finished, vars

\* A number that was given stays.
LEMMA KeptParts ==
  ASSUME HolderInv, [Next]_vars, NEW d \in Drawn
  PROVE  parts'[d] = parts[d]
<1>1. ASSUME NEW p \in Procs, NEW c, NEW k, Number(p, c, k), c \notin Drawn
      PROVE  parts'[d] = parts[d]
  BY <1>1 DEF Number
<1>2. ASSUME NEW p \in Procs, NextMillisecond(p) PROVE parts'[d] = parts[d]
  BY <1>1, <1>2 DEF NextMillisecond, HolderInv
<1>3. ASSUME NEW p \in Procs, NEW c \in Calls, GenID(p, c) PROVE parts'[d] = parts[d]
  BY <1>1, <1>3 DEF GenID
<1>4. QED
  BY <1>2, <1>3 DEF Next, Boot, Refuse, Tick, Die, Finished, vars

\* The type invariant needs nothing of the machine ids but that Init looks at them:
\* who draws has one that fits its field.
TypeInv == TypeOK /\ RangeInv

LEMMA TypeStep ==
  ASSUME TypeInv, [Next]_vars
  PROVE  TypeInv'
<1> USE Widths DEF TypeInv, TypeOK
<1>1. ASSUME NEW p \in Procs, NEW c \in Calls, NEW s \in 0..MaxStep, Number(p, c, s),
             status[p] = "up", holder' \in [Procs -> Calls \cup {None}],
             \A q \in Procs \ {p} : holder'[q] = holder[q],
             UNCHANGED <<status, clock>>
      PROVE  TypeInv'
  <2>1. [time |-> clock[p], node |-> Machine[p], step |-> s]
          \in [time : 0..MaxTime, node : 0..MaxNode, step : 0..MaxStep]
    BY <1>1 DEF RangeInv, InRange
  <2>2. TypeOK'
    BY <1>1, <2>1 DEF Number
  <2>3. RangeInv'
    BY <1>1 DEF Number, RangeInv, InRange
  <2>4. QED
    BY <2>2, <2>3
<1>2. ASSUME NEW p \in Procs, Boot(p) PROVE TypeInv'
  BY <1>2 DEF Boot, RangeInv, InRange
<1>3. ASSUME NEW p \in Procs, Refuse(p) \/ Die(p) PROVE TypeInv'
  BY <1>3 DEF Refuse, Die, RangeInv, InRange
<1>4. ASSUME NEW p \in Procs, Tick(p) PROVE TypeInv'
  <2>1. clock'[p] = clock[p] + 1 /\ clock'[p] \in 0..MaxTime
    BY <1>4 DEF Tick
  <2>2. QED
    BY <1>4, <2>1 DEF Tick, RangeInv, InRange
<1>5. ASSUME NEW p \in Procs, NextMillisecond(p) PROVE TypeInv'
  <2>1. holder[p] \in Calls /\ status[p] = "up" /\ 0 \in 0..MaxStep
    BY <1>5 DEF NextMillisecond, RangeInv
  <2>2. QED
    BY <1>1, <1>5, <2>1 DEF NextMillisecond
<1>6. ASSUME NEW p \in Procs, NEW c \in Calls, GenID(p, c) PROVE TypeInv'
  <2>1. 0 \in 0..MaxStep /\ NextStep(step[p]) \in 0..MaxStep
    BY DEF NextStep
  <2>2. CASE UNCHANGED holder
    BY <1>1, <1>6, <2>1, <2>2, SnowflakeAssumptions DEF GenID
  <2>3. CASE /\ holder' = [holder EXCEPT ![p] = c]
             /\ step' = [step EXCEPT ![p] = 0]
             /\ UNCHANGED <<last, parts>>
    BY <1>6, <2>1, <2>3 DEF GenID, RangeInv, InRange
  <2>4. QED
    BY <1>6, <2>2, <2>3 DEF GenID
<1>7. CASE Finished \/ UNCHANGED vars
  BY <1>7 DEF Finished, vars, RangeInv, InRange
<1>8. QED
  BY <1>2, <1>3, <1>4, <1>5, <1>6, <1>7 DEF Next

\* Every variable keeps its type, the parts of a number their bits, for any clocks
\* and machine ids: two runs may well share one.
THEOREM TypeCorrect == Spec => []TypeOK
<1>1. Init => TypeInv
  BY Widths DEF Init, TypeInv, TypeOK, RangeInv
<1>2. TypeInv /\ [Next]_vars => TypeInv'
  BY TypeStep
<1>3. TypeInv => TypeOK
  BY DEF TypeInv
<1>4. QED
  BY <1>1, <1>2, <1>3, PTL DEF Spec

\* The numbers of a machine id increase, whatever processes draw them.
THEOREM IdsAlwaysIncrease ==
  ASSUME MachinesApart
  PROVE  Spec => IdsIncrease
<1> DEFINE Increase == \A c \in Calls, d \in Drawn :
                         c \notin Drawn /\ c \in Drawn' /\ parts'[c].node = parts[d].node
                           => Pack(parts'[c]) > Pack(parts[d])
<1>1. IInv /\ IInv' /\ [Next]_vars => [Increase]_vars
  <2> SUFFICES ASSUME IInv, IInv', [Next]_vars,
                      NEW c \in Calls, NEW d \in Drawn,
                      c \notin Drawn, c \in Drawn', parts'[c].node = parts[d].node
               PROVE  Pack(parts'[c]) > Pack(parts[d])
    OBVIOUS
  <2>1. \/ parts[d].time < parts'[c].time
        \/ parts[d].time = parts'[c].time /\ parts[d].step < parts'[c].step
    BY OnlyBeyond
  <2>2. parts[d] \in Number3
    BY DrawnIsNumber DEF IInv
  <2>3. parts'[c] \in [time : 0..MaxTime, node : 0..MaxNode, step : 0..MaxStep]
    BY DEF IInv, TypeOK, Drawn
  <2>4. parts'[c] \in Number3
    BY <2>3, Widths DEF Number3
  <2>5. Pack(parts[d]) < Pack(parts'[c])
    BY <2>1, <2>2, <2>4, PackIncreases
  <2>6. Pack(parts[d]) \in Int /\ Pack(parts'[c]) \in Int
    BY <2>2, <2>4, PackInInt
  <2>7. QED
    BY <2>5, <2>6
<1>2. QED
  BY <1>1, Invariant, PTL DEF Spec, IdsIncrease

\* No two orders have one number: restarts, full milliseconds and other hosts
\* included, as long as the runs of one machine id follow each other in time.
THEOREM IdsAreUnique ==
  ASSUME MachinesApart
  PROVE  Spec => []IdsUnique
<1>1. Init => PartsDiffer
  BY DEF Init, PartsDiffer, Drawn
<1>2. IInv /\ PartsDiffer /\ [Next]_vars => PartsDiffer'
  <2> SUFFICES ASSUME IInv, PartsDiffer, [Next]_vars PROVE PartsDiffer'
    OBVIOUS
  <2>1. CASE \E c \in Drawn' : c \notin Drawn
    <3>1. PICK c \in Drawn' : c \notin Drawn
      BY <2>1
    <3>2. Drawn' = Drawn \cup {c} /\ \A d \in Drawn : parts'[d] = parts[d]
      BY <3>1, OnlyBeyond
    <3>3. ASSUME NEW d \in Drawn PROVE parts'[c] # parts[d]
      <4>1. parts'[c].node = parts[d].node =>
              \/ parts[d].time < parts'[c].time
              \/ parts[d].time = parts'[c].time /\ parts[d].step < parts'[c].step
        BY <3>1, OnlyBeyond
      <4>2. parts[d].time \in Int /\ parts[d].step \in Int
        BY DrawnIsNumber, Widths DEF IInv, Number3
      <4>3. QED
        BY <4>1, <4>2
    <3>4. QED
      BY <3>2, <3>3 DEF PartsDiffer
  <2>2. CASE Drawn' \subseteq Drawn
    <3>1. \A d \in Drawn' : parts'[d] = parts[d]
      BY <2>2, KeptParts DEF IInv
    <3>2. QED
      BY <2>2, <3>1 DEF PartsDiffer
  <2>3. QED
    BY <2>1, <2>2
<1>3. IInv /\ PartsDiffer => IdsUnique
  <2> SUFFICES ASSUME IInv, PartsDiffer, NEW c \in Drawn, NEW d \in Drawn,
                      Pack(parts[c]) = Pack(parts[d])
               PROVE  c = d
    BY DEF IdsUnique
  <2>1. parts[c] \in Number3 /\ parts[d] \in Number3
    BY DrawnIsNumber DEF IInv
  <2>2. parts[c] = parts[d]
    BY <2>1, PackInjective
  <2>3. QED
    BY <2>2 DEF PartsDiffer
<1>4. QED
  BY <1>1, <1>2, <1>3, Invariant, PTL DEF Spec
=============================================================================
