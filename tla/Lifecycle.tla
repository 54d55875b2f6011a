------------------------------ MODULE Lifecycle ------------------------------
(***************************************************************************)
(* The life of the services' processes: what main does between its start   *)
(* and the signal that ends it, and what consul's catalogue holds of it.   *)
(*                                                                         *)
(* A process is one run of a service's main; a service that is started     *)
(* again is another process with the same address, hence the same id in    *)
(* the catalogue.  main goes through its steps in order, any of which may  *)
(* panic, then waits for a signal, takes its id out of the catalogue and   *)
(* returns.  Consul checks the address of each entry every 10 seconds and  *)
(* drops an entry that has been critical for a minute: the code asks for   *)
(* 20 seconds, and a minute is the least that consul takes.                *)
(*                                                                         *)
(* main takes the address of its service from config.Conf each time it     *)
(* needs it, and a watcher reads Conf again whenever the file is edited.   *)
(***************************************************************************)
EXTENDS Naturals, Sequences

CONSTANTS
  Processes,    \* the runs of main, of any service
  Addresses,    \* where they may listen: an ip and an RPC port
  ServiceOf,    \* the service that may be configured with each address
  MaxEdits,     \* bound on the edits of the configuration files
  CarefulEdits, \* are the files edited with care (Careful, FreshStart)?
  ReapAfter,    \* failed checks in a row before consul drops an entry
  MaxTimeouts,  \* checks of a healthy service that time out, in a behaviour
  Nobody        \* a free port, an empty catalogue entry

ASSUME LifecycleAssumptions ==
  /\ Nobody \notin Processes
  /\ ServiceOf \in [Addresses -> {"order", "repertory", "goods"}]
  /\ MaxEdits \in Nat /\ CarefulEdits \in BOOLEAN
  /\ ReapAfter \in Nat \ {0}
  /\ MaxTimeouts \in Nat

Services == {"order", "repertory", "goods"}

VARIABLES
  service,   \* which service each process runs
  state,     \* "off", "boot", "wait" for a signal, "leave", "return", "dead"
  at,        \* how many steps of main each process has done
  conf,      \* the address in config.Conf of each process
  edits,     \* edits so far
  port,      \* the process that listens at each address
  entry,     \* the process that made the catalogue's entry of each address
  misses,    \* failed checks of an entry since the last good one
  timeouts   \* checks that timed out so far

vars == <<service, state, at, conf, edits, port, entry, misses, timeouts>>
files == <<service, conf, edits>>
consul == <<entry, misses, timeouts>>

\* Mutants: the consumer starts before the database is open; the service is
\* registered before it listens.
OrderConsumesFirst ==
  <<"config", "logger", "consumer", "mysql", "redis", "registry", "snowflake",
    "producer", "listen", "serve", "register", "gateway", "notify">>
OrderRegistersFirst ==
  <<"config", "logger", "mysql", "redis", "registry", "snowflake", "producer",
    "consumer", "register", "listen", "serve", "gateway", "notify">>

OrderMain ==
  <<"config", "logger", "mysql", "redis", "registry", "snowflake", "producer",
    "consumer", "listen", "serve", "register", "gateway", "notify">>

RepertoryMain ==
  <<"config", "logger", "mysql", "redis", "registry",
    "consumer", "listen", "serve", "register", "gateway", "notify">>

GoodsMain ==
  <<"config", "logger", "mysql", "registry",
    "listen", "serve", "register", "gateway", "notify">>

Main(s) ==
  CASE s = "order"     -> OrderMain
    [] s = "repertory" -> RepertoryMain
    [] s = "goods"     -> GoodsMain

\* The steps a process has done and the one it is at.
Done(p) == {Main(service[p])[n] : n \in 1..at[p]}
Booting(p, step) ==
  /\ state[p] = "boot"
  /\ at[p] < Len(Main(service[p]))
  /\ Main(service[p])[at[p] + 1] = step

Alive(p) == state[p] \in {"boot", "wait", "leave", "return"}

\* A live process answers where it listens once it serves.
Answering(a) == port[a] # Nobody /\ "serve" \in Done(port[a])

Init ==
  /\ conf \in [Processes -> Addresses]
  /\ service = [p \in Processes |-> ServiceOf[conf[p]]]
  /\ state = [p \in Processes |-> "off"]
  /\ at = [p \in Processes |-> 0]
  /\ edits = 0
  /\ port = [a \in Addresses |-> Nobody]
  /\ entry = [a \in Addresses |-> Nobody]
  /\ misses = [a \in Addresses |-> 0]
  /\ timeouts = 0
-----------------------------------------------------------------------------
(* The configuration file *)

\* p listens where its file no longer says.
Moved(p) == "listen" \in Done(p) /\ port[conf[p]] # p

\* Another live process has the address in its file or listens there.
Taken(a, p) ==
  \E q \in Processes \ {p} : Alive(q) /\ (conf[q] = a \/ port[a] = q)

\* The address is nobody else's, and p is not between listen and notify.
Careful(p, a) ==
  /\ ~Taken(a, p)
  /\ state[p] = "boot" => "listen" \notin Done(p)

\* No process is started at an address that the file of a running one moved to.
FreshStart(p) ==
  \A q \in Processes : Alive(q) /\ Moved(q) => conf[q] # conf[p]

\* The watcher stores what was edited in config.Conf.
EditFile(p) ==
  /\ "config" \in Done(p)
  /\ edits < MaxEdits
  /\ edits' = edits + 1
  /\ \E a \in Addresses \ {conf[p]} :
       /\ ServiceOf[a] = service[p]
       /\ CarefulEdits => Careful(p, a)
       /\ conf' = [conf EXCEPT ![p] = a]
  /\ UNCHANGED <<service, state, at, port, consul>>
-----------------------------------------------------------------------------
(* main *)

Start(p) ==
  /\ state[p] = "off"
  /\ CarefulEdits => FreshStart(p)
  /\ state' = [state EXCEPT ![p] = "boot"]
  /\ UNCHANGED <<files, at, port, consul>>

Proceed(p) == at' = [at EXCEPT ![p] = @ + 1]

\* Whatever ends a process undoes what it has set up and frees its port.
End(p) ==
  /\ state' = [state EXCEPT ![p] = "dead"]
  /\ at' = [at EXCEPT ![p] = 0]
  /\ port' = [a \in Addresses |-> IF port[a] = p THEN Nobody ELSE port[a]]

\* The steps that touch neither the port nor the catalogue: they set up a
\* package's variables or start a goroutine.
Set(p) ==
  /\ \E step \in {"config", "logger", "mysql", "redis", "registry", "snowflake",
                  "producer", "consumer", "serve", "gateway"} : Booting(p, step)
  /\ Proceed(p)
  /\ UNCHANGED <<files, state, port, consul>>

Listen(p) ==
  /\ Booting(p, "listen")
  /\ port[conf[p]] = Nobody
  /\ port' = [port EXCEPT ![conf[p]] = p]
  /\ Proceed(p)
  /\ UNCHANGED <<files, state, consul>>

\* The address is in use: main panics.
ListenFails(p) ==
  /\ Booting(p, "listen")
  /\ port[conf[p]] # Nobody
  /\ End(p)
  /\ UNCHANGED <<files, consul>>

\* The id is made of name, ip and port, as Conf has them: a process replaces the
\* entry that an earlier one left.  A replaced entry may keep the count of its checks.
RegisterService(p) ==
  /\ Booting(p, "register")
  /\ entry' = [entry EXCEPT ![conf[p]] = p]
  /\ \/ misses' = [misses EXCEPT ![conf[p]] = 0]
     \/ entry[conf[p]] # Nobody /\ UNCHANGED misses
  /\ Proceed(p)
  /\ UNCHANGED <<files, state, port, timeouts>>

Notify(p) ==
  /\ Booting(p, "notify")
  /\ Proceed(p)
  /\ state' = [state EXCEPT ![p] = "wait"]
  /\ UNCHANGED <<files, port, consul>>

\* Mutant: the listener is closed as soon as the signal comes.
Closed(p) == [a \in Addresses |-> IF port[a] = p THEN Nobody ELSE port[a]]

\* The port is held until main returns.
PortOnSignal(p) == port

Signal(p) ==
  /\ state[p] = "wait"
  /\ state' = [state EXCEPT ![p] = "leave"]
  /\ port' = PortOnSignal(p)
  /\ UNCHANGED <<files, at, consul>>

\* The id, made of what Conf has by now, is taken out of the catalogue, whoever
\* put it there.  An error is ignored.
Deregister(p) ==
  /\ state[p] = "leave"
  /\ \/ /\ entry' = [entry EXCEPT ![conf[p]] = Nobody]
        /\ misses' = [misses EXCEPT ![conf[p]] = 0]
     \/ UNCHANGED <<entry, misses>>
  /\ state' = [state EXCEPT ![p] = "return"]
  /\ UNCHANGED <<files, at, port, timeouts>>

\* main is through: the process ends with all its goroutines.
Return(p) ==
  /\ state[p] = "return"
  /\ End(p)
  /\ UNCHANGED <<files, consul>>

\* A step of main panics, a handler does, the process is killed, or a signal
\* finds no handler installed.
Die(p) ==
  /\ Alive(p)
  /\ End(p)
  /\ UNCHANGED <<files, consul>>
-----------------------------------------------------------------------------
(* consul *)

\* Mutants: consul counts on for ever, or never drops an entry.
CountsOn(a) == TRUE
NeverDue(a) == FALSE

Counts(a) == misses[a] < ReapAfter

Due(a) == misses[a] = ReapAfter

CheckPasses(a) ==
  /\ entry[a] # Nobody
  /\ Answering(a)
  /\ misses[a] # 0
  /\ misses' = [misses EXCEPT ![a] = 0]
  /\ UNCHANGED <<files, state, at, port, entry, timeouts>>

CheckFails(a) ==
  /\ entry[a] # Nobody
  /\ Counts(a)
  /\ \/ ~Answering(a) /\ UNCHANGED timeouts
     \/ timeouts < MaxTimeouts /\ timeouts' = timeouts + 1
  /\ misses' = [misses EXCEPT ![a] = @ + 1]
  /\ UNCHANGED <<files, state, at, port, entry>>

DeregisterCritical(a) ==
  /\ entry[a] # Nobody
  /\ Due(a)
  /\ entry' = [entry EXCEPT ![a] = Nobody]
  /\ misses' = [misses EXCEPT ![a] = 0]
  /\ UNCHANGED <<files, state, at, port, timeouts>>
-----------------------------------------------------------------------------
Finished ==
  /\ \A p \in Processes : state[p] = "dead"
  /\ UNCHANGED vars

\* What main does once started, and what it does once it was told to end.
MainStep(p) ==
  \/ Set(p) \/ Listen(p) \/ ListenFails(p) \/ RegisterService(p) \/ Notify(p)
  \/ Deregister(p) \/ Return(p)

ConsulStep(a) == CheckPasses(a) \/ CheckFails(a) \/ DeregisterCritical(a)

Next ==
  \/ \E p \in Processes : Start(p) \/ EditFile(p) \/ MainStep(p) \/ Signal(p) \/ Die(p)
  \/ \E a \in Addresses : ConsulStep(a)
  \/ Finished

Spec == Init /\ [][Next]_vars

\* main runs on, and consul keeps checking and cleaning up.  Nobody has to
\* start a process or send a signal.
FairSpec ==
  /\ Spec
  /\ \A p \in Processes : WF_vars(MainStep(p))
  /\ \A a \in Addresses : WF_vars(CheckFails(a)) /\ WF_vars(DeregisterCritical(a))
-----------------------------------------------------------------------------
(* What the code uses of what main sets up *)

\* OrderTimeoutHandle and RollbackMsghandle.
HandlerNeeds(s) ==
  CASE s = "order"     -> {"config", "mysql", "producer"}
    [] s = "repertory" -> {"mysql"}
    [] s = "goods"     -> {}

\* CreateOrder with its local transaction, ReduceRepertory and GetGoodsByRoom.
\* "clients" are GoodsCli and RepertoryCli, which only InitSrcClient makes: no
\* main calls it.
CallNeeds(s) ==
  CASE s = "order"     -> {"config", "mysql", "snowflake", "producer", "clients"}
    [] s = "repertory" -> {"mysql", "redis"}
    [] s = "goods"     -> {"mysql"}

\* What the messages and the calls that p may be handling use.
Used(p) ==
  {need \in HandlerNeeds(service[p]) : "consumer" \in Done(p)} \cup
  {need \in CallNeeds(service[p]) : "serve" \in Done(p)}
-----------------------------------------------------------------------------
(* Properties *)

\* Every variable keeps its type.
TypeOK ==
  /\ service \in [Processes -> Services]
  /\ state \in [Processes -> {"off", "boot", "wait", "leave", "return", "dead"}]
  /\ at \in [Processes -> Nat]
  /\ \A p \in Processes : at[p] <= Len(Main(service[p]))
  /\ conf \in [Processes -> Addresses]
  /\ edits \in 0..MaxEdits
  /\ port \in [Addresses -> Processes \cup {Nobody}]
  /\ entry \in [Addresses -> Processes \cup {Nobody}]
  /\ misses \in [Addresses -> 0..ReapAfter]
  /\ timeouts \in 0..MaxTimeouts

\* A live process in the catalogue is reachable: it answers where its entry
\* says, through restarts, its own shutdown and edits of its address.
ListedAnswers ==
  \A a \in Addresses :
    entry[a] # Nobody /\ Alive(entry[a]) => port[a] = entry[a] /\ Answering(a)

\* A message handler or an RPC that may be running finds set up what it uses,
\* the clients that are dialled "when the program starts" (rpc.go) included.
\* The code breaks this.
ReadyWhenWorking == \A p \in Processes : Alive(p) => Used(p) \subseteq Done(p)

\* A message handler or an RPC that may be running lacks nothing of what it uses
\* but the clients: the consumer and the server start after all the rest.
OnlyClientsMissing ==
  \A p \in Processes : Alive(p) => Used(p) \ Done(p) \subseteq {"clients"}

\* The entry of a live process that was not told to end is removed by consul
\* alone, and after failed checks: another process on its way out never takes it
\* out of the catalogue, neither one that it replaces nor one whose id is no
\* longer the one it registered.
RestartKeepsEntry ==
  [][\A a \in Addresses :
       entry[a] # Nobody /\ state[entry[a]] \in {"boot", "wait"}
         => entry'[a] = entry[a] \/ misses[a] = ReapAfter]_vars

\* A dead process does not stay in the catalogue, at whatever address.
DeadAreForgotten ==
  \A p \in Processes, a \in Addresses :
    entry[a] = p /\ state[p] = "dead" ~> entry[a] # p
=============================================================================
