--------------------------- MODULE LifecycleProofs ---------------------------
(***************************************************************************)
(* Machine-checked proofs about Lifecycle, for any number of processes of  *)
(* each service and any checks of consul.                                  *)
(***************************************************************************)
EXTENDS Lifecycle, TLAPS

\* A process that is not running has done nothing; one that waits for its
\* signal, or got it, has done all of main.
StateInv ==
  \A p \in Processes :
    /\ state[p] \in {"off", "dead"} => at[p] = 0
    /\ state[p] \in {"wait", "leave", "return"} => at[p] = Len(Main(service[p]))

\* Who holds a port has listened.
PortInv ==
  \A a \in Addresses : port[a] # Nobody => "listen" \in Done(port[a])

\* An entry was made by a process that has started and, if it is alive, has
\* registered.
EntryInv ==
  \A a \in Addresses :
    entry[a] # Nobody =>
      /\ state[entry[a]] # "off"
      /\ Alive(entry[a]) => "register" \in Done(entry[a])

IInv == TypeOK /\ StateInv /\ PortInv /\ EntryInv

\* While main starts, it listens where its file says.
BootInv ==
  \A p \in Processes :
    state[p] = "boot" /\ "listen" \in Done(p) => port[conf[p]] = p

\* A live process listens where its entries say.
ListedInv ==
  \A a \in Addresses :
    entry[a] # Nobody /\ Alive(entry[a]) => port[a] = entry[a]

\* Nobody else uses the address that the file of a running process moved to.
ApartInv ==
  \A p \in Processes : Alive(p) /\ Moved(p) => ~Taken(conf[p], p)

\* What careful edits keep.
CarefulInv == BootInv /\ ListedInv /\ ApartInv

-----------------------------------------------------------------------------
(* The order of main's steps *)

\* Every main listens, then serves, then registers, once each.
LEMMA MainOrder ==
  ASSUME NEW s \in Services
  PROVE  /\ Len(Main(s)) \in Nat
         /\ \E l, v, r \in 1..Len(Main(s)) :
              /\ l < v /\ v < r /\ r < Len(Main(s))
              /\ \A n \in 1..Len(Main(s)) :
                   /\ Main(s)[n] = "listen" <=> n = l
                   /\ Main(s)[n] = "serve" <=> n = v
                   /\ Main(s)[n] = "register" <=> n = r
                   /\ Main(s)[n] = "notify" <=> n = Len(Main(s))
<1>1. CASE s = "order"
  <2>1. Main(s) = OrderMain
    BY <1>1 DEF Main
  <2>2. Len(OrderMain) = 13
    BY DEF OrderMain
  <2>3. \A n \in 1..13 :
          /\ OrderMain[n] = "listen" <=> n = 9
          /\ OrderMain[n] = "serve" <=> n = 10
          /\ OrderMain[n] = "register" <=> n = 11
          /\ OrderMain[n] = "notify" <=> n = 13
    BY SMTT(60) DEF OrderMain
  <2>4. QED
    BY <2>1, <2>2, <2>3
<1>2. CASE s = "repertory"
  <2>1. Main(s) = RepertoryMain
    BY <1>2 DEF Main
  <2>2. Len(RepertoryMain) = 11
    BY DEF RepertoryMain
  <2>3. \A n \in 1..11 :
          /\ RepertoryMain[n] = "listen" <=> n = 7
          /\ RepertoryMain[n] = "serve" <=> n = 8
          /\ RepertoryMain[n] = "register" <=> n = 9
          /\ RepertoryMain[n] = "notify" <=> n = 11
    BY SMTT(60) DEF RepertoryMain
  <2>4. QED
    BY <2>1, <2>2, <2>3
<1>3. CASE s = "goods"
  <2>1. Main(s) = GoodsMain
    BY <1>3 DEF Main
  <2>2. Len(GoodsMain) = 9
    BY DEF GoodsMain
  <2>3. \A n \in 1..9 :
          /\ GoodsMain[n] = "listen" <=> n = 5
          /\ GoodsMain[n] = "serve" <=> n = 6
          /\ GoodsMain[n] = "register" <=> n = 7
          /\ GoodsMain[n] = "notify" <=> n = 9
    BY SMTT(60) DEF GoodsMain
  <2>4. QED
    BY <2>1, <2>2, <2>3
<1>4. QED
  BY <1>1, <1>2, <1>3 DEF Services

\* What a process has done, by where it is.
LEMMA DoneFacts ==
  ASSUME TypeOK, NEW p \in Processes
  PROVE  /\ "register" \in Done(p) => "listen" \in Done(p) /\ "serve" \in Done(p)
         /\ Booting(p, "listen") => "listen" \notin Done(p)
         /\ Booting(p, "register") =>
              "register" \notin Done(p) /\ "listen" \in Done(p) /\ "serve" \in Done(p)
         /\ Booting(p, "notify") => at[p] + 1 = Len(Main(service[p]))
         /\ at[p] = Len(Main(service[p])) =>
              "register" \in Done(p) /\ "listen" \in Done(p) /\ "serve" \in Done(p)
         /\ at[p] = 0 => Done(p) = {}
<1> DEFINE m == Main(service[p])
<1>1. service[p] \in Services /\ at[p] \in Nat /\ at[p] <= Len(m)
  BY DEF TypeOK
<1>2. PICK l, v, r \in 1..Len(m) :
         /\ l < v /\ v < r /\ r < Len(m)
         /\ \A n \in 1..Len(m) :
              /\ m[n] = "listen" <=> n = l
              /\ m[n] = "serve" <=> n = v
              /\ m[n] = "register" <=> n = r
              /\ m[n] = "notify" <=> n = Len(m)
  BY <1>1, MainOrder
<1>3. Len(m) \in Nat /\ at[p] \in Nat /\ at[p] <= Len(m)
  BY <1>1, MainOrder
<1>4. \A n \in 1..Len(m) : n <= at[p] => m[n] \in Done(p)
  BY <1>3 DEF Done
<1>5. /\ "listen" \in Done(p) <=> l <= at[p]
      /\ "serve" \in Done(p) <=> v <= at[p]
      /\ "register" \in Done(p) <=> r <= at[p]
  <2>1. /\ l <= at[p] => "listen" \in Done(p)
        /\ v <= at[p] => "serve" \in Done(p)
        /\ r <= at[p] => "register" \in Done(p)
    BY <1>2, <1>4
  <2>2. ASSUME NEW n \in 1..at[p] PROVE n \in 1..Len(m)
    BY <1>3
  <2>3. "listen" \in Done(p) => l <= at[p]
    BY <1>2, <1>3, <2>2 DEF Done
  <2>4. "serve" \in Done(p) => v <= at[p]
    BY <1>2, <1>3, <2>2 DEF Done
  <2>5. "register" \in Done(p) => r <= at[p]
    BY <1>2, <1>3, <2>2 DEF Done
  <2>6. QED
    BY <2>1, <2>3, <2>4, <2>5
<1>6. at[p] = 0 => Done(p) = {}
  BY DEF Done
<1>7. ASSUME NEW step, Booting(p, step)
      PROVE  at[p] + 1 \in 1..Len(m) /\ m[at[p] + 1] = step
  BY <1>3, <1>7 DEF Booting
<1>8. Booting(p, "listen") => at[p] + 1 = l
  BY <1>2, <1>7
<1>9. Booting(p, "register") => at[p] + 1 = r
  BY <1>2, <1>7
<1>10. Booting(p, "notify") => at[p] + 1 = Len(m)
  BY <1>2, <1>7
<1> HIDE DEF m
<1>11. QED
  BY <1>2, <1>3, <1>5, <1>6, <1>8, <1>9, <1>10 DEF m

\* What the consumer's handler uses is set up before the consumer starts, what
\* the RPCs use, but the clients, before they are served.
LEMMA NeedsOrder ==
  ASSUME NEW s \in Services, NEW n \in 1..Len(Main(s))
  PROVE  /\ Main(s)[n] = "consumer" => HandlerNeeds(s) \subseteq {Main(s)[k] : k \in 1..n}
         /\ Main(s)[n] = "serve" => CallNeeds(s) \ {"clients"} \subseteq {Main(s)[k] : k \in 1..n}
<1>1. CASE s = "order"
  <2>1. /\ Main(s) = OrderMain /\ Len(OrderMain) = 13
        /\ HandlerNeeds(s) = {"config", "mysql", "producer"}
        /\ CallNeeds(s) = {"config", "mysql", "snowflake", "producer", "clients"}
    BY <1>1 DEF Main, OrderMain, HandlerNeeds, CallNeeds
  <2>2. /\ OrderMain[n] = "consumer" => n = 8
        /\ OrderMain[n] = "serve" => n = 10
    BY <2>1, SMTT(60) DEF OrderMain
  <2>3. /\ OrderMain[1] = "config" /\ OrderMain[3] = "mysql"
        /\ OrderMain[6] = "snowflake" /\ OrderMain[7] = "producer"
    BY DEF OrderMain
  <2>4. QED
    BY <2>1, <2>2, <2>3
<1>2. CASE s = "repertory"
  <2>1. /\ Main(s) = RepertoryMain /\ Len(RepertoryMain) = 11
        /\ HandlerNeeds(s) = {"mysql"} /\ CallNeeds(s) = {"mysql", "redis"}
    BY <1>2 DEF Main, RepertoryMain, HandlerNeeds, CallNeeds
  <2>2. /\ RepertoryMain[n] = "consumer" => n = 6
        /\ RepertoryMain[n] = "serve" => n = 8
    BY <2>1, SMTT(60) DEF RepertoryMain
  <2>3. RepertoryMain[3] = "mysql" /\ RepertoryMain[4] = "redis"
    BY DEF RepertoryMain
  <2>4. QED
    BY <2>1, <2>2, <2>3
<1>3. CASE s = "goods"
  <2>1. /\ Main(s) = GoodsMain /\ Len(GoodsMain) = 9
        /\ HandlerNeeds(s) = {} /\ CallNeeds(s) = {"mysql"}
    BY <1>3 DEF Main, GoodsMain, HandlerNeeds, CallNeeds
  <2>2. GoodsMain[n] = "serve" => n = 6
    BY <2>1, SMTT(60) DEF GoodsMain
  <2>3. GoodsMain[3] = "mysql"
    BY DEF GoodsMain
  <2>4. QED
    BY <2>1, <2>2, <2>3
<1>4. QED
  BY <1>1, <1>2, <1>3 DEF Services

\* A step of main adds itself to what its process has done, and nothing to
\* what the others have.
LEMMA ProceedFacts ==
  ASSUME TypeOK, NEW p \in Processes, NEW step,
         Booting(p, step), Proceed(p), service' = service
  PROVE  /\ Done(p)' = Done(p) \cup {step}
         /\ \A q \in Processes \ {p} : Done(q)' = Done(q)
         /\ at'[p] = at[p] + 1 /\ at'[p] <= Len(Main(service[p]))
         /\ \A q \in Processes \ {p} : at'[q] = at[q]
<1>1. /\ service[p] \in Services /\ at[p] \in Nat /\ at[p] <= Len(Main(service[p]))
      /\ Len(Main(service[p])) \in Nat
  BY MainOrder DEF TypeOK
<1>2. DOMAIN at = Processes
  BY DEF TypeOK
<1>3. QED
  BY <1>1, <1>2 DEF Done, Booting, Proceed

-----------------------------------------------------------------------------
(* The invariant *)

\* A process that ends frees its port and leaves its entry behind.
LEMMA EndFacts ==
  ASSUME TypeOK, NEW p \in Processes, End(p), UNCHANGED <<files, consul>>
  PROVE  /\ TypeOK'
         /\ state' = [state EXCEPT ![p] = "dead"] /\ at' = [at EXCEPT ![p] = 0]
         /\ UNCHANGED <<service, conf, edits, entry, misses, timeouts>>
         /\ Done(p)' = {}
         /\ \A q \in Processes \ {p} : Done(q)' = Done(q)
         /\ \A a \in Addresses :
              port'[a] = IF port[a] = p THEN Nobody ELSE port[a]
<1>1. /\ state' = [state EXCEPT ![p] = "dead"] /\ at' = [at EXCEPT ![p] = 0]
      /\ port' = [a \in Addresses |-> IF port[a] = p THEN Nobody ELSE port[a]]
      /\ UNCHANGED <<service, conf, edits, entry, misses, timeouts>>
  BY DEF End, files, consul
<1>2. TypeOK'
  <2>1. Len(Main(service[p])) >= 0
    BY MainOrder DEF TypeOK
  <2>2. QED
    BY <1>1, <2>1 DEF TypeOK
<1>3. Done(p)' = {}
  BY <1>2, <1>1 DEF Done, TypeOK
<1>4. \A q \in Processes \ {p} : Done(q)' = Done(q)
  BY <1>1 DEF Done, TypeOK
<1>5. QED
  BY <1>1, <1>2, <1>3, <1>4

LEMMA EndPreserves ==
  ASSUME IInv, NEW p \in Processes, End(p), UNCHANGED <<files, consul>>
  PROVE  IInv'
<1> USE DEF IInv
<1>1. /\ TypeOK'
      /\ state' = [state EXCEPT ![p] = "dead"] /\ at' = [at EXCEPT ![p] = 0]
      /\ UNCHANGED <<service, conf, edits, entry, misses, timeouts>>
      /\ Done(p)' = {}
      /\ \A q \in Processes \ {p} : Done(q)' = Done(q)
      /\ \A a \in Addresses :
           port'[a] = IF port[a] = p THEN Nobody ELSE port[a]
  BY EndFacts
<1>2. StateInv'
  BY <1>1 DEF StateInv, TypeOK
<1>3. PortInv'
  <2>1. ASSUME NEW a \in Addresses, port'[a] # Nobody
        PROVE  "listen" \in Done(port[a])' /\ port'[a] = port[a]
    <3>1. port'[a] = port[a] /\ port[a] # p /\ port[a] \in Processes
      BY <1>1, <2>1 DEF TypeOK
    <3>2. "listen" \in Done(port[a])
      BY <3>1, <2>1 DEF PortInv
    <3>3. QED
      BY <1>1, <3>1, <3>2
  <2>2. QED
    BY <2>1 DEF PortInv, Done
<1>4. EntryInv'
  BY <1>1 DEF EntryInv, TypeOK, Alive
<1>5. QED
  BY <1>1, <1>2, <1>3, <1>4

\* Who holds which port does not change while nobody listens or ends.
LEMMA PortKept ==
  ASSUME IInv, UNCHANGED port,
         \A q \in Processes : "listen" \in Done(q) => "listen" \in Done(q)'
  PROVE  PortInv'
<1>1. ASSUME NEW a \in Addresses, port[a] # Nobody
      PROVE  "listen" \in Done(port[a])'
  <2>1. PICK q \in Processes : q = port[a]
    BY <1>1 DEF IInv, TypeOK
  <2>2. "listen" \in Done(q)'
    BY <1>1, <2>1 DEF IInv, PortInv
  <2>3. Done(q)' = Done(port[a])'
    BY <2>1 DEF Done
  <2>4. QED
    BY <2>2, <2>3
<1>2. QED
  BY <1>1 DEF PortInv, Done

\* An entry stays good while its process does not undo its registration.
LEMMA EntryKept ==
  ASSUME IInv, UNCHANGED <<state, entry>>,
         \A q \in Processes : "register" \in Done(q) => "register" \in Done(q)'
  PROVE  EntryInv'
<1>1. ASSUME NEW a \in Addresses, entry[a] # Nobody
      PROVE  /\ state'[entry'[a]] # "off"
             /\ Alive(entry[a])' => "register" \in Done(entry[a])'
  <2>1. PICK q \in Processes : q = entry[a]
    BY <1>1 DEF IInv, TypeOK
  <2>2. /\ state[q] # "off"
        /\ Alive(q) => "register" \in Done(q)'
    BY <1>1, <2>1 DEF IInv, EntryInv
  <2>3. Done(q)' = Done(entry[a])' /\ (Alive(entry[a])' <=> Alive(q))
    BY <2>1 DEF Done, Alive
  <2>4. QED
    BY <2>1, <2>2, <2>3
<1>2. QED
  BY <1>1 DEF EntryInv

\* The invariant holds through starts, panics, signals, checks and edits, careful
\* or not.
LEMMA Invariant == Spec => []IInv
<1>1. Init => IInv
  <2> SUFFICES ASSUME Init PROVE IInv
    OBVIOUS
  <2>1. TypeOK
    <3>1. service \in [Processes -> Services]
      BY LifecycleAssumptions DEF Init, Services
    <3>2. \A p \in Processes : Len(Main(service[p])) >= 0
      <4> SUFFICES ASSUME NEW p \in Processes PROVE Len(Main(service[p])) >= 0
        OBVIOUS
      <4>1. service[p] \in Services
        BY <3>1
      <4>2. QED
        BY <4>1, MainOrder
    <3>3. QED
      BY <3>1, <3>2, LifecycleAssumptions DEF Init, TypeOK
  <2>2. QED
    BY <2>1 DEF Init, IInv, StateInv, PortInv, EntryInv
<1>2. IInv /\ [Next]_vars => IInv'
  <2> SUFFICES ASSUME IInv, [Next]_vars PROVE IInv'
    OBVIOUS
  <2> USE DEF IInv
  <2>1. ASSUME NEW p \in Processes, Start(p) PROVE IInv'
    <3>1. state' = [state EXCEPT ![p] = "boot"] /\ state[p] = "off"
          /\ UNCHANGED <<service, conf, edits, at, port, entry, misses, timeouts>>
      BY <2>1 DEF Start, files, consul
    <3>2. TypeOK' /\ StateInv'
      BY <3>1 DEF TypeOK, StateInv
    <3>3. \A q \in Processes : Done(q)' = Done(q)
      BY <3>1 DEF Done
    <3>4. PortInv'
      BY <3>1, <3>3, PortKept
    <3>5. EntryInv'
      BY <3>1, <3>3 DEF EntryInv, TypeOK, Alive
    <3>6. QED
      BY <3>2, <3>4, <3>5
  <2>2. ASSUME NEW p \in Processes, EditFile(p) PROVE IInv'
    <3>1. UNCHANGED <<service, state, at, port, entry, misses, timeouts>>
      BY <2>2 DEF EditFile, consul
    <3>2. TypeOK'
      <4>1. conf' \in [Processes -> Addresses]
        BY <2>2 DEF EditFile, TypeOK
      <4>2. edits' \in 0..MaxEdits
        BY <2>2, LifecycleAssumptions DEF EditFile, TypeOK
      <4>3. QED
        BY <3>1, <4>1, <4>2 DEF TypeOK
    <3>3. \A q \in Processes : Done(q)' = Done(q)
      BY <3>1 DEF Done
    <3>4. StateInv' /\ PortInv' /\ EntryInv'
      BY <3>1, <3>3, PortKept, EntryKept DEF StateInv
    <3>5. QED
      BY <3>2, <3>4
  <2>3. ASSUME NEW p \in Processes, Set(p) PROVE IInv'
    <3>0. PICK step : /\ Booting(p, step) /\ step \notin {"listen", "register", "notify"}
      BY <2>3 DEF Set
    <3>1. /\ Booting(p, step) /\ Proceed(p)
          /\ UNCHANGED <<service, conf, edits, state, port, entry, misses, timeouts>>
      BY <3>0, <2>3 DEF Set, files, consul
    <3>2. /\ Done(p)' = Done(p) \cup {step}
          /\ \A q \in Processes \ {p} : Done(q)' = Done(q)
          /\ at'[p] <= Len(Main(service[p]))
          /\ \A q \in Processes \ {p} : at'[q] = at[q]
      BY <3>1, ProceedFacts
    <3>4. TypeOK'
      BY <3>1, <3>2 DEF TypeOK, Proceed
    <3>5. StateInv'
      BY <3>1, <3>2 DEF StateInv, Booting
    <3>6. PortInv'
      <4>1. \A q \in Processes : "listen" \in Done(q) => "listen" \in Done(q)'
        BY <3>2
      <4>2. QED
        BY <4>1, <3>1, PortKept
    <3>7. EntryInv'
      <4>1. \A q \in Processes : "register" \in Done(q) => "register" \in Done(q)'
        BY <3>2
      <4>2. QED
        BY <4>1, <3>1, EntryKept
    <3>8. QED
      BY <3>4, <3>5, <3>6, <3>7
  <2>4. ASSUME NEW p \in Processes, Listen(p) PROVE IInv'
    <3>1. /\ Booting(p, "listen") /\ Proceed(p)
          /\ port' = [port EXCEPT ![conf[p]] = p]
          /\ UNCHANGED <<service, conf, edits, state, entry, misses, timeouts>>
      BY <2>4 DEF Listen, files, consul
    <3>2. /\ Done(p)' = Done(p) \cup {"listen"}
          /\ \A q \in Processes \ {p} : Done(q)' = Done(q)
          /\ at'[p] <= Len(Main(service[p]))
          /\ \A q \in Processes \ {p} : at'[q] = at[q]
      BY <3>1, ProceedFacts
    <3>4. TypeOK'
      BY <3>1, <3>2 DEF TypeOK, Proceed
    <3>5. StateInv'
      BY <3>1, <3>2 DEF StateInv, Booting
    <3>6. PortInv'
      <4>1. ASSUME NEW a \in Addresses, port'[a] # Nobody
            PROVE  "listen" \in Done(port[a])'
        <5>1. CASE port'[a] = p
          BY <3>1, <3>2, <5>1 DEF Done
        <5>2. CASE port'[a] # p
          <6>1. port'[a] = port[a] /\ port[a] \in Processes \ {p}
            BY <3>1, <4>1, <5>2 DEF TypeOK
          <6>2. "listen" \in Done(port[a])
            BY <6>1, <4>1 DEF PortInv
          <6>3. QED
            BY <6>1, <6>2, <3>1, <3>2 DEF Done
        <5>3. QED
          BY <5>1, <5>2
      <4>2. QED
        BY <4>1 DEF PortInv, Done
    <3>7. EntryInv'
      <4>1. \A q \in Processes : "register" \in Done(q) => "register" \in Done(q)'
        BY <3>2
      <4>2. QED
        BY <4>1, <3>1, EntryKept
    <3>8. QED
      BY <3>4, <3>5, <3>6, <3>7
  <2>5. ASSUME NEW p \in Processes, RegisterService(p) PROVE IInv'
    <3>1. /\ Booting(p, "register") /\ Proceed(p)
          /\ entry' = [entry EXCEPT ![conf[p]] = p]
          /\ UNCHANGED <<service, conf, edits, state, port, timeouts>>
      BY <2>5 DEF RegisterService, files
    <3>2. /\ Done(p)' = Done(p) \cup {"register"}
          /\ \A q \in Processes \ {p} : Done(q)' = Done(q)
          /\ at'[p] <= Len(Main(service[p]))
          /\ \A q \in Processes \ {p} : at'[q] = at[q]
      BY <3>1, ProceedFacts
    <3>3. misses' \in [Addresses -> 0..ReapAfter]
      <4>1. 0 \in 0..ReapAfter /\ misses \in [Addresses -> 0..ReapAfter]
        BY LifecycleAssumptions DEF TypeOK
      <4>2. misses' = [misses EXCEPT ![conf[p]] = 0] \/ misses' = misses
        BY <2>5 DEF RegisterService
      <4>3. QED
        BY <4>1, <4>2
    <3>4. TypeOK'
      <4>1. entry' \in [Addresses -> Processes \cup {Nobody}]
        BY <3>1 DEF TypeOK
      <4>2. at' \in [Processes -> Nat]
        BY <3>1 DEF TypeOK, Proceed
      <4>3. \A q \in Processes : at'[q] <= Len(Main(service[q]))
        BY <3>2 DEF TypeOK
      <4>4. QED
        BY <3>1, <3>3, <4>1, <4>2, <4>3 DEF TypeOK
    <3>5. StateInv'
      BY <3>1, <3>2 DEF StateInv, Booting
    <3>6. PortInv'
      <4>1. \A q \in Processes : "listen" \in Done(q) => "listen" \in Done(q)'
        BY <3>2
      <4>2. QED
        BY <4>1, <3>1, PortKept
    <3>7. EntryInv'
      BY <3>1, <3>2 DEF EntryInv, TypeOK, Alive, Booting
    <3>8. QED
      BY <3>4, <3>5, <3>6, <3>7
  <2>6. ASSUME NEW p \in Processes, Notify(p) PROVE IInv'
    <3>1. /\ Booting(p, "notify") /\ Proceed(p)
          /\ state' = [state EXCEPT ![p] = "wait"]
          /\ UNCHANGED <<service, conf, edits, port, entry, misses, timeouts>>
      BY <2>6 DEF Notify, files, consul
    <3>2. /\ Done(p)' = Done(p) \cup {"notify"}
          /\ \A q \in Processes \ {p} : Done(q)' = Done(q)
          /\ at'[p] = at[p] + 1 /\ at'[p] <= Len(Main(service[p]))
          /\ \A q \in Processes \ {p} : at'[q] = at[q]
      BY <3>1, ProceedFacts
    <3>3. TypeOK'
      BY <3>1, <3>2 DEF TypeOK, Proceed
    <3>4. at[p] + 1 = Len(Main(service[p]))
      BY <3>1, DoneFacts
    <3>5. StateInv'
      BY <3>1, <3>2, <3>4 DEF StateInv, Booting, TypeOK
    <3>6. PortInv'
      <4>1. \A q \in Processes : "listen" \in Done(q) => "listen" \in Done(q)'
        BY <3>2
      <4>2. QED
        BY <4>1, <3>1, PortKept
    <3>7. EntryInv'
      BY <3>1, <3>2 DEF EntryInv, TypeOK, Alive, Booting
    <3>8. QED
      BY <3>3, <3>5, <3>6, <3>7
  <2>7. ASSUME NEW p \in Processes, ListenFails(p) \/ Return(p) \/ Die(p) PROVE IInv'
    BY <2>7, EndPreserves DEF ListenFails, Return, Die
  <2>8. ASSUME NEW p \in Processes, Signal(p) \/ Deregister(p) PROVE IInv'
    <3>1. UNCHANGED <<service, conf, edits, at, port, timeouts>>
      BY <2>8 DEF Signal, Deregister, PortOnSignal, files, consul
    <3>2. \/ state[p] = "wait" /\ state' = [state EXCEPT ![p] = "leave"]
          \/ state[p] = "leave" /\ state' = [state EXCEPT ![p] = "return"]
      BY <2>8 DEF Signal, Deregister
    <3>3. /\ misses' \in [Addresses -> 0..ReapAfter]
          /\ entry' \in [Addresses -> Processes \cup {Nobody}]
          /\ \A a \in Addresses : entry'[a] = entry[a] \/ entry'[a] = Nobody
      <4>1. 0 \in 0..ReapAfter /\ misses \in [Addresses -> 0..ReapAfter]
            /\ entry \in [Addresses -> Processes \cup {Nobody}]
        BY LifecycleAssumptions DEF TypeOK
      <4>2. \/ misses' = misses /\ entry' = entry
            \/ /\ misses' = [misses EXCEPT ![conf[p]] = 0]
               /\ entry' = [entry EXCEPT ![conf[p]] = Nobody]
        BY <2>8 DEF Signal, Deregister, consul
      <4>3. QED
        BY <4>1, <4>2
    <3>4. TypeOK'
      BY <3>1, <3>2, <3>3 DEF TypeOK
    <3>5. StateInv'
      BY <3>1, <3>2 DEF StateInv, TypeOK
    <3>6. \A q \in Processes : Done(q)' = Done(q)
      BY <3>1 DEF Done
    <3>7. PortInv'
      BY <3>1, <3>6, PortKept
    <3>8. EntryInv'
      BY <3>1, <3>2, <3>3, <3>6 DEF EntryInv, TypeOK, Alive
    <3>9. QED
      BY <3>4, <3>5, <3>7, <3>8
  <2>9. ASSUME NEW a \in Addresses, ConsulStep(a) PROVE IInv'
    <3>1. UNCHANGED <<service, conf, edits, state, at, port>>
      BY <2>9 DEF ConsulStep, CheckPasses, CheckFails, DeregisterCritical, files
    <3>2. misses' \in [Addresses -> 0..ReapAfter] /\ timeouts' \in 0..MaxTimeouts
      <4>1. CASE CheckPasses(a) \/ DeregisterCritical(a)
        <5>1. misses' = [misses EXCEPT ![a] = 0] /\ timeouts' = timeouts
          BY <4>1 DEF CheckPasses, DeregisterCritical, files
        <5>2. QED
          BY <5>1, LifecycleAssumptions DEF TypeOK
      <4>2. CASE CheckFails(a)
        <5>1. misses[a] \in 0..ReapAfter /\ misses[a] < ReapAfter
          BY <4>2 DEF CheckFails, Counts, TypeOK
        <5>2. misses' = [misses EXCEPT ![a] = misses[a] + 1]
              /\ (timeouts' = timeouts \/ (timeouts < MaxTimeouts /\ timeouts' = timeouts + 1))
          BY <4>2 DEF CheckFails
        <5>3. misses' \in [Addresses -> 0..ReapAfter]
          BY <5>1, <5>2, LifecycleAssumptions DEF TypeOK
        <5>4. timeouts' \in 0..MaxTimeouts
          BY <5>2, LifecycleAssumptions DEF TypeOK
        <5>5. QED
          BY <5>3, <5>4
      <4>3. QED
        BY <2>9, <4>1, <4>2 DEF ConsulStep
    <3>3. /\ entry' \in [Addresses -> Processes \cup {Nobody}]
          /\ \A b \in Addresses : entry'[b] = entry[b] \/ entry'[b] = Nobody
      BY <2>9 DEF ConsulStep, CheckPasses, CheckFails, DeregisterCritical, TypeOK
    <3>4. TypeOK' /\ StateInv'
      BY <3>1, <3>2, <3>3 DEF TypeOK, StateInv
    <3>5. \A q \in Processes : Done(q)' = Done(q)
      BY <3>1 DEF Done
    <3>6. PortInv'
      BY <3>1, <3>5, PortKept
    <3>7. EntryInv'
      BY <3>1, <3>3, <3>5 DEF EntryInv, TypeOK, Alive
    <3>8. QED
      BY <3>4, <3>6, <3>7
  <2>10. CASE Finished \/ UNCHANGED vars
    <3>1. UNCHANGED vars
      BY <2>10 DEF Finished
    <3>2. QED
      BY <3>1 DEF vars, TypeOK, StateInv, PortInv, EntryInv, Done, Alive
  <2>11. QED
    BY <2>1, <2>2, <2>3, <2>4, <2>5, <2>6, <2>7, <2>8, <2>9, <2>10 DEF Next, MainStep
<1>3. QED
  BY <1>1, <1>2, PTL DEF Spec

-----------------------------------------------------------------------------
(* What careful edits add *)

\* A step of main that neither listens nor registers disturbs nothing: where
\* the processes listen, what their files say and what is listed stay, and
\* nobody starts.
LEMMA CarefulKept ==
  ASSUME IInv, CarefulInv, UNCHANGED <<conf, port>>,
         \A a \in Addresses : entry'[a] = entry[a] \/ entry'[a] = Nobody,
         \A q \in Processes : "listen" \in Done(q)' <=> "listen" \in Done(q),
         \A q \in Processes : state'[q] = "boot" => state[q] = "boot",
         \A q \in Processes : Alive(q)' => Alive(q)
  PROVE  CarefulInv'
<1>1. BootInv'
  BY DEF CarefulInv, BootInv
<1>2. ListedInv'
  <2> SUFFICES ASSUME NEW a \in Addresses, entry'[a] # Nobody, Alive(entry[a])',
                      entry'[a] = entry[a]
               PROVE  port[a] = entry[a]
    BY DEF ListedInv, Alive
  <2>1. PICK q \in Processes : q = entry[a]
    BY DEF IInv, TypeOK
  <2>2. Alive(q)
    BY <2>1 DEF Alive
  <2>3. QED
    BY <2>1, <2>2 DEF CarefulInv, ListedInv
<1>3. ApartInv'
  <2>1. ASSUME NEW q \in Processes, Alive(q)', Moved(q)' PROVE ~Taken(conf[q], q)'
    <3>1. Alive(q) /\ Moved(q)
      BY <2>1 DEF Moved
    <3>2. ~Taken(conf[q], q)
      BY <3>1 DEF CarefulInv, ApartInv
    <3>3. QED
      BY <3>2 DEF Taken
  <2>2. QED
    BY <2>1 DEF ApartInv
<1>4. QED
  BY <1>1, <1>2, <1>3 DEF CarefulInv

\* With careful edits a process that starts listens where its file says, a live
\* one where it is listed, and nobody takes the address a running one moved to.
LEMMA CarefulInvariant ==
  ASSUME CarefulEdits
  PROVE  Spec => []CarefulInv
<1>1. Init => CarefulInv
  <2> SUFFICES ASSUME Init PROVE CarefulInv
    OBVIOUS
  <2>1. /\ \A p \in Processes : state[p] = "off" /\ ~Alive(p)
        /\ \A a \in Addresses : entry[a] = Nobody
    BY DEF Init, Alive
  <2>2. QED
    BY <2>1 DEF CarefulInv, BootInv, ListedInv, ApartInv
<1>2. IInv /\ IInv' /\ CarefulInv /\ [Next]_vars => CarefulInv'
  <2> SUFFICES ASSUME IInv, IInv', CarefulInv, [Next]_vars PROVE CarefulInv'
    OBVIOUS
  <2>1. ASSUME NEW p \in Processes, Start(p) PROVE CarefulInv'
    <3>1. /\ state[p] = "off" /\ state' = [state EXCEPT ![p] = "boot"] /\ FreshStart(p)
          /\ UNCHANGED <<service, conf, edits, at, port, entry, misses, timeouts>>
      BY <2>1 DEF Start, files, consul
    <3>2. /\ \A q \in Processes : Done(q)' = Done(q)
          /\ \A q \in Processes \ {p} : state'[q] = state[q] /\ (Alive(q)' <=> Alive(q))
      BY <3>1 DEF Done, Alive, IInv, TypeOK
    <3>3. Done(p) = {}
      BY <3>1, DoneFacts DEF IInv, StateInv
    <3>4. \A a \in Addresses : port[a] # p /\ entry[a] # p
      BY <3>1, <3>3, LifecycleAssumptions DEF IInv, PortInv, EntryInv
    <3>5. BootInv'
      BY <3>1, <3>2, <3>3 DEF CarefulInv, BootInv
    <3>6. ListedInv'
      BY <3>1, <3>2, <3>4 DEF CarefulInv, ListedInv, IInv, TypeOK
    <3>7. ApartInv'
      <4>1. ASSUME NEW q \in Processes, Alive(q)', Moved(q)' PROVE ~Taken(conf[q], q)'
        <5>1. q # p /\ Alive(q) /\ Moved(q)
          BY <4>1, <3>1, <3>2, <3>3 DEF Moved
        <5>2. ~Taken(conf[q], q) /\ conf[q] # conf[p] /\ conf[q] \in Addresses
          BY <5>1, <3>1 DEF CarefulInv, ApartInv, FreshStart, IInv, TypeOK
        <5>3. port[conf[q]] # p
          BY <5>2, <3>4
        <5>4. QED
          BY <5>2, <5>3, <3>1, <3>2 DEF Taken
      <4>2. QED
        BY <4>1 DEF ApartInv
    <3>8. QED
      BY <3>5, <3>6, <3>7 DEF CarefulInv
  <2>2. ASSUME NEW p \in Processes, EditFile(p) PROVE CarefulInv'
    <3>1. UNCHANGED <<service, state, at, port, entry, misses, timeouts>>
      BY <2>2 DEF EditFile, consul
    <3>2. PICK b \in Addresses : Careful(p, b) /\ conf' = [conf EXCEPT ![p] = b]
      BY <2>2 DEF EditFile
    <3>3. \A q \in Processes : Done(q)' = Done(q) /\ (Alive(q)' <=> Alive(q))
      BY <3>1 DEF Done, Alive
    <3>4. /\ conf'[p] = b
          /\ \A q \in Processes \ {p} : conf'[q] = conf[q]
      BY <3>2 DEF IInv, TypeOK
    <3>5. BootInv'
      <4>1. state[p] = "boot" => "listen" \notin Done(p)
        BY <3>2 DEF Careful
      <4>2. QED
        BY <4>1, <3>1, <3>3, <3>4 DEF CarefulInv, BootInv
    <3>6. ListedInv'
      BY <3>1 DEF CarefulInv, ListedInv, Alive
    <3>7. ApartInv'
      <4>1. ASSUME NEW q \in Processes, Alive(q)', Moved(q)' PROVE ~Taken(conf[q], q)'
        <5>1. CASE q = p
          <6>1. ~Taken(b, p)
            BY <3>2 DEF Careful
          <6>2. QED
            BY <6>1, <5>1, <3>1, <3>3, <3>4 DEF Taken
        <5>2. CASE q # p
          <6>1. Alive(q) /\ Moved(q)
            BY <4>1, <5>2, <3>1, <3>3, <3>4 DEF Moved
          <6>2. ~Taken(conf[q], q)
            BY <6>1 DEF CarefulInv, ApartInv
          <6>3. b # conf[q]
            BY <6>1, <5>2, <3>2 DEF Careful, Taken
          <6>4. QED
            BY <6>2, <6>3, <5>2, <3>1, <3>3, <3>4 DEF Taken
        <5>3. QED
          BY <5>1, <5>2
      <4>2. QED
        BY <4>1 DEF ApartInv
    <3>8. QED
      BY <3>5, <3>6, <3>7 DEF CarefulInv
  <2>3. ASSUME NEW p \in Processes, Set(p) PROVE CarefulInv'
    <3>1. PICK step : /\ Booting(p, step) /\ step \notin {"listen", "register", "notify"}
      BY <2>3 DEF Set
    <3>2. /\ Proceed(p)
          /\ UNCHANGED <<service, conf, state, port, entry>>
      BY <2>3 DEF Set, files, consul
    <3>3. \A q \in Processes : "listen" \in Done(q)' <=> "listen" \in Done(q)
      BY <3>1, <3>2, ProceedFacts DEF IInv
    <3>4. QED
      BY <3>2, <3>3, CarefulKept DEF Alive
  <2>4. ASSUME NEW p \in Processes, Listen(p) PROVE CarefulInv'
    <3>1. /\ Booting(p, "listen") /\ Proceed(p) /\ port[conf[p]] = Nobody
          /\ port' = [port EXCEPT ![conf[p]] = p]
          /\ UNCHANGED <<service, conf, edits, state, entry, misses, timeouts>>
      BY <2>4 DEF Listen, files, consul
    <3>2. /\ "listen" \notin Done(p)
          /\ Done(p)' = Done(p) \cup {"listen"}
          /\ \A q \in Processes \ {p} : Done(q)' = Done(q)
      BY <3>1, ProceedFacts, DoneFacts DEF IInv
    <3>3. /\ port'[conf[p]] = p /\ conf[p] \in Addresses
          /\ \A a \in Addresses \ {conf[p]} : port'[a] = port[a]
      BY <3>1 DEF IInv, TypeOK
    <3>4. \A q \in Processes : (Alive(q)' <=> Alive(q)) /\ conf[q] \in Addresses /\ q # Nobody
      BY <3>1, LifecycleAssumptions DEF Alive, IInv, TypeOK
    <3>5. BootInv'
      BY <3>1, <3>2, <3>3, <3>4 DEF CarefulInv, BootInv
    <3>6. ListedInv'
      BY <3>1, <3>3, <3>4 DEF CarefulInv, ListedInv, IInv, TypeOK, Alive
    <3>7. ApartInv'
      <4>1. ASSUME NEW q \in Processes, Alive(q)', Moved(q)' PROVE ~Taken(conf[q], q)'
        <5>1. q # p
          BY <4>1, <3>1, <3>3 DEF Moved
        <5>2. Alive(q) /\ Moved(q)
          BY <4>1, <5>1, <3>1, <3>2, <3>3, <3>4 DEF Moved
        <5>3. ~Taken(conf[q], q)
          BY <5>2 DEF CarefulInv, ApartInv
        <5>4. conf[q] # conf[p]
          BY <5>1, <5>3, <3>1 DEF Taken, Alive, Booting
        <5>5. QED
          BY <5>3, <5>4, <3>1, <3>3, <3>4 DEF Taken
      <4>2. QED
        BY <4>1 DEF ApartInv
    <3>8. QED
      BY <3>5, <3>6, <3>7 DEF CarefulInv
  <2>5. ASSUME NEW p \in Processes, RegisterService(p) PROVE CarefulInv'
    <3>1. /\ Booting(p, "register") /\ Proceed(p)
          /\ entry' = [entry EXCEPT ![conf[p]] = p]
          /\ UNCHANGED <<service, conf, state, port>>
      BY <2>5 DEF RegisterService, files
    <3>2. /\ "listen" \in Done(p) /\ state[p] = "boot"
          /\ \A q \in Processes : "listen" \in Done(q)' <=> "listen" \in Done(q)
      BY <3>1, ProceedFacts, DoneFacts DEF IInv, Booting
    <3>3. port[conf[p]] = p /\ conf[p] \in Addresses
      BY <3>2 DEF CarefulInv, BootInv, IInv, TypeOK
    <3>4. BootInv' /\ ApartInv'
      BY <3>1, <3>2 DEF CarefulInv, BootInv, ApartInv, Moved, Taken, Alive
    <3>5. ListedInv'
      BY <3>1, <3>3 DEF CarefulInv, ListedInv, Alive, IInv, TypeOK
    <3>6. QED
      BY <3>4, <3>5 DEF CarefulInv
  <2>6. ASSUME NEW p \in Processes, Notify(p) PROVE CarefulInv'
    <3>1. /\ Booting(p, "notify") /\ Proceed(p)
          /\ state' = [state EXCEPT ![p] = "wait"]
          /\ UNCHANGED <<service, conf, port, entry>>
      BY <2>6 DEF Notify, files, consul
    <3>2. \A q \in Processes : "listen" \in Done(q)' <=> "listen" \in Done(q)
      BY <3>1, ProceedFacts DEF IInv
    <3>3. \A q \in Processes :
            (state'[q] = "boot" => state[q] = "boot") /\ (Alive(q)' => Alive(q))
      BY <3>1 DEF Alive, Booting, IInv, TypeOK
    <3>4. QED
      BY <3>1, <3>2, <3>3, CarefulKept
  <2>7. ASSUME NEW p \in Processes, ListenFails(p) \/ Return(p) \/ Die(p)
        PROVE  CarefulInv'
    <3>0. End(p) /\ UNCHANGED <<files, consul>>
      BY <2>7 DEF ListenFails, Return, Die
    <3>1. /\ state' = [state EXCEPT ![p] = "dead"]
          /\ UNCHANGED <<conf, entry>>
          /\ Done(p)' = {}
          /\ \A q \in Processes \ {p} : Done(q)' = Done(q)
          /\ \A a \in Addresses :
               port'[a] = IF port[a] = p THEN Nobody ELSE port[a]
      BY <3>0, EndFacts DEF IInv
    <3>2. /\ ~Alive(p)'
          /\ \A q \in Processes \ {p} : state'[q] = state[q] /\ (Alive(q)' <=> Alive(q))
          /\ \A q \in Processes : conf[q] \in Addresses /\ q # Nobody
      BY <3>1, LifecycleAssumptions DEF Alive, IInv, TypeOK
    <3>3. BootInv'
      BY <3>1, <3>2 DEF CarefulInv, BootInv
    <3>4. ListedInv'
      <4> SUFFICES ASSUME NEW a \in Addresses, entry[a] # Nobody, Alive(entry[a])'
                   PROVE  port'[a] = entry[a]
        BY <3>1 DEF ListedInv, Alive
      <4>1. PICK q \in Processes : q = entry[a]
        BY DEF IInv, TypeOK
      <4>2. Alive(q)' /\ q # p
        BY <4>1, <3>1, <3>2 DEF Alive
      <4>3. port[a] = q
        BY <4>1, <4>2, <3>2 DEF CarefulInv, ListedInv
      <4>4. QED
        BY <4>1, <4>2, <4>3, <3>1
    <3>5. ApartInv'
      <4>1. ASSUME NEW q \in Processes, Alive(q)', Moved(q)' PROVE ~Taken(conf[q], q)'
        <5>1. q # p /\ Alive(q) /\ Moved(q)
          BY <4>1, <3>1, <3>2 DEF Moved
        <5>2. ~Taken(conf[q], q)
          BY <5>1 DEF CarefulInv, ApartInv
        <5>3. QED
          BY <5>2, <3>1, <3>2 DEF Taken
      <4>2. QED
        BY <4>1 DEF ApartInv
    <3>6. QED
      BY <3>3, <3>4, <3>5 DEF CarefulInv
  <2>8. ASSUME NEW p \in Processes, Signal(p) \/ Deregister(p) PROVE CarefulInv'
    <3>1. UNCHANGED <<service, conf, at, port>>
      BY <2>8 DEF Signal, Deregister, PortOnSignal, files, consul
    <3>2. \/ state[p] = "wait" /\ state' = [state EXCEPT ![p] = "leave"]
          \/ state[p] = "leave" /\ state' = [state EXCEPT ![p] = "return"]
      BY <2>8 DEF Signal, Deregister
    <3>3. \A a \in Addresses : entry'[a] = entry[a] \/ entry'[a] = Nobody
      BY <2>8 DEF Signal, Deregister, consul, IInv, TypeOK
    <3>4. \A q \in Processes :
            (state'[q] = "boot" => state[q] = "boot") /\ (Alive(q)' => Alive(q))
      BY <3>2 DEF Alive, IInv, TypeOK
    <3>5. \A q \in Processes : Done(q)' = Done(q)
      BY <3>1 DEF Done
    <3>6. QED
      BY <3>1, <3>3, <3>4, <3>5, CarefulKept
  <2>9. ASSUME NEW a \in Addresses, ConsulStep(a) PROVE CarefulInv'
    <3>1. UNCHANGED <<service, conf, state, at, port>>
      BY <2>9 DEF ConsulStep, CheckPasses, CheckFails, DeregisterCritical, files
    <3>2. \A b \in Addresses : entry'[b] = entry[b] \/ entry'[b] = Nobody
      BY <2>9 DEF ConsulStep, CheckPasses, CheckFails, DeregisterCritical, IInv, TypeOK
    <3>3. \A q \in Processes : Done(q)' = Done(q) /\ (Alive(q)' <=> Alive(q))
      BY <3>1 DEF Done, Alive
    <3>4. QED
      BY <3>1, <3>2, <3>3, CarefulKept
  <2>10. CASE Finished \/ UNCHANGED vars
    <3>1. UNCHANGED <<service, conf, state, at, port, entry>>
      BY <2>10 DEF Finished, vars
    <3>2. \A q \in Processes : Done(q)' = Done(q) /\ (Alive(q)' <=> Alive(q))
      BY <3>1 DEF Done, Alive
    <3>3. QED
      BY <3>1, <3>2, CarefulKept
  <2>11. QED
    BY <2>1, <2>2, <2>3, <2>4, <2>5, <2>6, <2>7, <2>8, <2>9, <2>10 DEF Next, MainStep
<1>3. QED
  BY <1>1, <1>2, Invariant, PTL DEF Spec

-----------------------------------------------------------------------------
(* Theorems *)

\* Every variable keeps its type.
THEOREM TypeCorrect == Spec => []TypeOK
<1>1. IInv => TypeOK
  BY DEF IInv
<1>2. QED
  BY <1>1, Invariant, PTL

\* Whoever finds a live process in the catalogue reaches it: main registers it
\* only after it serves, and a shutdown ends the listing first.  The files are
\* edited with care.
THEOREM ListedAreReachable ==
  ASSUME CarefulEdits
  PROVE  Spec => []ListedAnswers
<1>1. IInv /\ CarefulInv => ListedAnswers
  <2> SUFFICES ASSUME IInv, CarefulInv,
                      NEW a \in Addresses, entry[a] # Nobody, Alive(entry[a])
               PROVE  port[a] = entry[a] /\ Answering(a)
    BY DEF ListedAnswers
  <2>1. entry[a] \in Processes /\ "register" \in Done(entry[a])
    BY DEF IInv, EntryInv, TypeOK
  <2>2. "serve" \in Done(entry[a])
    BY <2>1, DoneFacts DEF IInv
  <2>3. port[a] = entry[a]
    BY DEF CarefulInv, ListedInv
  <2>4. QED
    BY <2>2, <2>3 DEF Answering
<1>2. QED
  BY <1>1, Invariant, CarefulInvariant, PTL

\* A process that leaves never deregisters another: its successor cannot listen,
\* and so cannot register, before it is gone, and where it moved nobody listens.
\* The files are edited with care.
THEOREM RestartIsSafe ==
  ASSUME CarefulEdits
  PROVE  Spec => RestartKeepsEntry
<1> DEFINE Kept == \A a \in Addresses :
                     entry[a] # Nobody /\ state[entry[a]] \in {"boot", "wait"}
                       => entry'[a] = entry[a] \/ misses[a] = ReapAfter
<1>1. IInv /\ CarefulInv /\ [Next]_vars => [Kept]_vars
  <2> SUFFICES ASSUME IInv, CarefulInv, [Next]_vars, NEW a \in Addresses,
                      entry[a] # Nobody, state[entry[a]] \in {"boot", "wait"},
                      entry'[a] # entry[a]
               PROVE  misses[a] = ReapAfter
    OBVIOUS
  <2>1. /\ entry[a] \in Processes /\ Alive(entry[a]) /\ port[a] = entry[a]
        /\ "register" \in Done(entry[a])
    BY DEF IInv, EntryInv, CarefulInv, ListedInv, TypeOK, Alive
  <2>2. ASSUME NEW p \in Processes, RegisterService(p) PROVE FALSE
    <3>1. conf[p] = a /\ Booting(p, "register")
      BY <2>2 DEF RegisterService, IInv, TypeOK
    <3>2. "listen" \in Done(p) /\ "register" \notin Done(p) /\ state[p] = "boot"
      BY <3>1, DoneFacts DEF IInv, Booting
    <3>3. port[a] = p
      BY <3>1, <3>2 DEF CarefulInv, BootInv
    <3>4. QED
      BY <2>1, <3>2, <3>3
  <2>3. ASSUME NEW p \in Processes, Deregister(p) PROVE FALSE
    <3>1. conf[p] = a /\ state[p] = "leave"
      BY <2>3 DEF Deregister, IInv, TypeOK
    <3>2. "listen" \in Done(p) /\ entry[a] # p
      BY <3>1, DoneFacts DEF IInv, StateInv
    <3>3. Alive(p) /\ Moved(p)
      BY <2>1, <3>1, <3>2 DEF Alive, Moved
    <3>4. ~Taken(a, p)
      BY <3>1, <3>3 DEF CarefulInv, ApartInv
    <3>5. QED
      BY <2>1, <3>2, <3>4 DEF Taken
  <2>4. ASSUME NEW b \in Addresses, DeregisterCritical(b) PROVE misses[a] = ReapAfter
    BY <2>4 DEF DeregisterCritical, Due, IInv, TypeOK
  <2>5. ASSUME \/ \E p \in Processes :
                    \/ Start(p) \/ EditFile(p) \/ Set(p) \/ Listen(p) \/ ListenFails(p)
                    \/ Notify(p) \/ Return(p) \/ Signal(p) \/ Die(p)
               \/ \E b \in Addresses : CheckPasses(b) \/ CheckFails(b)
               \/ Finished \/ UNCHANGED vars
        PROVE  FALSE
    BY <2>5 DEF Start, EditFile, Set, Listen, ListenFails, Notify, Return, Signal, Die,
                CheckPasses, CheckFails, Finished, vars, consul
  <2>6. QED
    BY <2>2, <2>3, <2>4, <2>5 DEF Next, MainStep, ConsulStep
<1>2. QED
  BY <1>1, Invariant, CarefulInvariant, PTL DEF Spec, RestartKeepsEntry

\* A message or an RPC may find the clients missing, and nothing else that it
\* uses: the consumer starts and the server serves after main has set it up.
THEOREM OnlyClientsAreMissing == Spec => []OnlyClientsMissing
<1>1. TypeOK => OnlyClientsMissing
  <2> SUFFICES ASSUME TypeOK, NEW p \in Processes
               PROVE  /\ "consumer" \in Done(p) => HandlerNeeds(service[p]) \subseteq Done(p)
                      /\ "serve" \in Done(p) =>
                           CallNeeds(service[p]) \ {"clients"} \subseteq Done(p)
    BY DEF OnlyClientsMissing, Used
  <2>1. /\ service[p] \in Services /\ at[p] \in Nat
        /\ at[p] <= Len(Main(service[p])) /\ Len(Main(service[p])) \in Nat
    BY MainOrder DEF TypeOK
  <2>2. ASSUME NEW n \in 1..at[p]
        PROVE  /\ n \in 1..Len(Main(service[p]))
               /\ {Main(service[p])[k] : k \in 1..n} \subseteq Done(p)
    BY <2>1 DEF Done
  <2>3. ASSUME NEW n \in 1..at[p]
        PROVE  /\ Main(service[p])[n] = "consumer" => HandlerNeeds(service[p]) \subseteq Done(p)
               /\ Main(service[p])[n] = "serve" =>
                    CallNeeds(service[p]) \ {"clients"} \subseteq Done(p)
    BY <2>1, <2>2, NeedsOrder
  <2>4. QED
    BY <2>3 DEF Done
<1>2. QED
  BY <1>1, TypeCorrect, PTL
=============================================================================
