-------------------------------- MODULE Rpc --------------------------------
(***************************************************************************)
(* The way of a call: from an HTTP client through the gateway of a service *)
(* process, or from another process through a client stub, to a handler of *)
(* the gRPC server and back.  The tables are the generated code's: routes, *)
(* stubs, service descriptions and message declarations.  gRPC itself, the *)
(* mux and the marshallers are libraries.                                  *)
(*                                                                         *)
(* What the handlers do is in the other modules; here a handler checks its *)
(* request, runs, and fails or replies.                                    *)
(***************************************************************************)
EXTENDS Messages, FiniteSets

CONSTANTS
  Calls,
  OrderRegisters,  \* the service the main of order_service registers
  MaxCrashes       \* bound on crashes

ASSUME RpcAssumptions ==
  /\ OrderRegisters \in {"Order", "repertory"}
  /\ MaxCrashes \in Nat

Processes == {"order", "repertory", "goods"}

\* main: RegisterXServer, and RegisterXHandler for the gateway.  As committed the
\* order service registers the store's (OrderRegisters = "repertory").
Served == [order |-> OrderRegisters, repertory |-> "repertory", goods |-> "Goods"]

\* The declarations each program is linked with; tester is test_client.
Linked ==
  LET store == Joined(RepertoryFile(GoodsRepertoryInfo), Empty) IN
  [order |-> Joined(Joined(OrderFile, OrderGoodsFile), Joined(OrderRepertoryFile, Empty)),
   repertory |-> store, tester |-> store,
   goods |-> Joined(GoodsFile, Empty)]

-----------------------------------------------------------------------------
(* Client stubs: the message types of each method *)

RepertoryClient ==
  [SetRepertory         |-> [in |-> "GoodsRepertoryInfo", out |-> "BaseResp"],
   GetRepertory         |-> [in |-> "GoodsRepertoryInfo", out |-> "GoodsRepertoryInfo"],
   BatchGetRepertory    |-> [in |-> "GoodsListRepertory", out |-> "GoodsListRepertory"],
   ReduceRepertory      |-> [in |-> "GoodsRepertoryInfo", out |-> "GoodsRepertoryInfo"],
   BatchReduceRepertory |-> [in |-> "GoodsListRepertory", out |-> "GoodsListRepertory"],
   RollBackRepertory    |-> [in |-> "GoodsRepertoryInfo", out |-> "GoodsRepertoryInfo"]]

GoodsClient ==
  [GetGoodsByRoom |-> [in |-> "GetGoodsByRoomReq", out |-> "GoodsListResp"],
   GetGoodsDetail |-> [in |-> "GetGoodsDetailReq", out |-> "GoodsDetail"]]

OrderClient ==
  [CreateOrder       |-> [in |-> "OrderReq", out |-> "Empty"],
   OrderList         |-> [in |-> "OrderListReq", out |-> "OrderListResp"],
   OrderDetail       |-> [in |-> "OrderDetailReq", out |-> "OrderDetailInfo"],
   UpdateOrderStatus |-> [in |-> "OrderStatus", out |-> "Empty"]]

Stubs == [repertory |-> RepertoryClient, Goods |-> GoodsClient, Order |-> OrderClient]

-----------------------------------------------------------------------------
(* Service descriptions: the method each handler calls, and its request *)

Handler(m, in) == [calls |-> m, in |-> in]

\* Mutant: the batch method has the handler of the other one.
MiswiredServiceDesc ==
  [SetRepertory         |-> Handler("SetRepertory", "GoodsRepertoryInfo"),
   GetRepertory         |-> Handler("GetRepertory", "GoodsRepertoryInfo"),
   BatchGetRepertory    |-> Handler("BatchGetRepertory", "GoodsListRepertory"),
   ReduceRepertory      |-> Handler("ReduceRepertory", "GoodsRepertoryInfo"),
   BatchReduceRepertory |-> Handler("BatchReduceRepertory", "GoodsListRepertory"),
   RollBackRepertory    |-> Handler("ReduceRepertory", "GoodsRepertoryInfo")]

RepertoryServiceDesc ==
  [SetRepertory         |-> Handler("SetRepertory", "GoodsRepertoryInfo"),
   GetRepertory         |-> Handler("GetRepertory", "GoodsRepertoryInfo"),
   BatchGetRepertory    |-> Handler("BatchGetRepertory", "GoodsListRepertory"),
   ReduceRepertory      |-> Handler("ReduceRepertory", "GoodsRepertoryInfo"),
   BatchReduceRepertory |-> Handler("BatchReduceRepertory", "GoodsListRepertory"),
   RollBackRepertory    |-> Handler("RollBackRepertory", "GoodsRepertoryInfo")]

GoodsServiceDesc ==
  [GetGoodsByRoom |-> Handler("GetGoodsByRoom", "GetGoodsByRoomReq"),
   GetGoodsDetail |-> Handler("GetGoodsDetail", "GetGoodsDetailReq")]

OrderServiceDesc ==
  [CreateOrder       |-> Handler("CreateOrder", "OrderReq"),
   OrderList         |-> Handler("OrderList", "OrderListReq"),
   OrderDetail       |-> Handler("OrderDetail", "OrderDetailReq"),
   UpdateOrderStatus |-> Handler("UpdateOrderStatus", "OrderStatus")]

ServiceDescs ==
  [repertory |-> RepertoryServiceDesc, Goods |-> GoodsServiceDesc,
   Order |-> OrderServiceDesc]

\* The controllers' methods; the embedded UnimplementedXServer has the others.
Implemented ==
  [order |-> {"CreateOrder"}, repertory |-> {"GetRepertory", "ReduceRepertory"},
   goods |-> {"GetGoodsByRoom", "GetGoodsDetail"}]

-----------------------------------------------------------------------------
(* Gateway routes *)

Post(path, m) == [verb |-> "POST", path |-> path, method |-> m]
Get(path, m) == [verb |-> "GET", path |-> path, method |-> m]

RepertoryRoutes ==
  {Post("repertory/set", "SetRepertory"), Get("repertory/get", "GetRepertory"),
   Get("repertory/get/batch", "BatchGetRepertory"),
   Post("repertory/reduce", "ReduceRepertory"),
   Post("repertory/reduce/batch", "BatchReduceRepertory"),
   Post("repertory/rollback", "RollBackRepertory")}

GoodsRoutes == {Post("goods", "GetGoodsByRoom")}

OrderRoutes == {Post("createorder", "CreateOrder"), Post("orderlist", "OrderList")}

Routes == [repertory |-> RepertoryRoutes, Goods |-> GoodsRoutes, Order |-> OrderRoutes]

-----------------------------------------------------------------------------
(* The calls there are *)

\* All fields, all but one, none.
Inputs(D) ==
  LET all == Range(D) IN {all, {}} \cup {all \ {f} : f \in all}

InputOf(by, service, m) == Linked[by][Stubs[service][m].in]

Http(p, r) ==
  [via : {"http"}, by : {p}, at : {p}, verb : {r.verb}, path : {r.path},
   fields : Inputs(InputOf(p, Served[p], r.method)), garbled : BOOLEAN]

\* Also a path that no route has.
HttpRequests ==
  (UNION {UNION {Http(p, r) : r \in Routes[Served[p]]} : p \in Processes})
    \cup [via : {"http"}, by : {"order"}, at : {"order"}, verb : {"POST"},
          path : {"orders"}, fields : {{}}, garbled : {FALSE}]

Grpc(by, p, m) ==
  [via : {"grpc"}, by : {by}, at : {p}, method : {m},
   fields : Inputs(InputOf(by, Served[p], m))]

\* ExecuteLocalTransaction of order_service, and test_client.
GrpcRequests ==
  Grpc("order", "goods", "GetGoodsDetail")
    \cup Grpc("order", "repertory", "ReduceRepertory")
    \cup Grpc("tester", "repertory", "GetRepertory")
    \cup Grpc("tester", "repertory", "ReduceRepertory")

Requests == HttpRequests \cup GrpcRequests

None == "none"

VARIABLES
  up,       \* the processes that run
  crashes,  \* crashes so far
  req,      \* the request of each call
  pc,       \* where it is
  bytes,    \* the message on the wire, there or back
  got,      \* the message its handler was given
  ran,      \* the method that ran for it
  answer,   \* the status its caller has
  seen      \* the reply its caller has

vars == <<up, crashes, req, pc, bytes, got, ran, answer, seen>>

Nothing == <<>>

Init ==
  /\ up = Processes
  /\ crashes = 0
  /\ req \in [Calls -> Requests]
  /\ pc = [c \in Calls |-> IF req[c].via = "http" THEN "http" ELSE "stub"]
  /\ bytes = [c \in Calls |-> Nothing]
  /\ got = [c \in Calls |-> Nothing]
  /\ ran = [c \in Calls |-> None]
  /\ answer = [c \in Calls |-> None]
  /\ seen = [c \in Calls |-> Nothing]

RoutesOf(r) ==
  {route \in Routes[Served[r.at]] : route.verb = r.verb /\ route.path = r.path}

MethodOf(r) ==
  IF r.via = "http" THEN (CHOOSE route \in RoutesOf(r) : TRUE).method ELSE r.method

Stub(c) == Stubs[Served[req[c].at]][MethodOf(req[c])]

At(c, l) == pc[c] = l
Goto(c, l) == pc' = [pc EXCEPT ![c] = l]

\* A caller that is gone gets no answer.
Answered(a, c, code) == [a EXCEPT ![c] = IF @ = None THEN code ELSE @]

End(c, code) ==
  /\ Goto(c, "over")
  /\ answer' = Answered(answer, c, code)

-----------------------------------------------------------------------------
(* The gateway *)

\* The body or the query in the names of D; what D does not have is dropped.
Decoded(r, D) == [f \in r.fields \cap Range(D) |-> f]

\* A list of messages cannot be written as a query.
NoQuery(r) == r.verb = "GET" /\ \E f \in r.fields : Len(f) > 1

Malformed(r) == r.garbled \/ NoQuery(r)

NoRoute(c) ==
  /\ At(c, "http") /\ req[c].at \in up
  /\ RoutesOf(req[c]) = {}
  /\ End(c, "NotFound")
  /\ UNCHANGED <<up, crashes, req, bytes, got, ran, seen>>

BadRequest(c) ==
  /\ At(c, "http") /\ req[c].at \in up
  /\ RoutesOf(req[c]) # {}
  /\ Malformed(req[c])
  /\ End(c, "InvalidArgument")
  /\ UNCHANGED <<up, crashes, req, bytes, got, ran, seen>>

Forward(c) ==
  /\ At(c, "http") /\ req[c].at \in up
  /\ RoutesOf(req[c]) # {}
  /\ ~Malformed(req[c])
  /\ Goto(c, "stub")
  /\ UNCHANGED <<up, crashes, req, bytes, got, ran, answer, seen>>

-----------------------------------------------------------------------------
(* The stub and the server *)

Invoke(c) ==
  LET D == InputOf(req[c].by, Served[req[c].at], MethodOf(req[c])) IN
  /\ At(c, "stub") /\ req[c].at \in up
  /\ bytes' = [bytes EXCEPT ![c] = Marshal(Decoded(req[c], D), D)]
  /\ Goto(c, "arrived")
  /\ UNCHANGED <<up, crashes, req, got, ran, answer, seen>>

\* Nobody listens.
NoConnection(c) ==
  /\ pc[c] \in {"http", "stub"} /\ req[c].at \notin up
  /\ End(c, IF req[c].via = "http" THEN "lost" ELSE "Unavailable")
  /\ UNCHANGED <<up, crashes, req, bytes, got, ran, seen>>

\* Mutant: the request is read with the declaration of its sender.
SendersCopy(c) == Linked[req[c].by]

ReceiversCopy(c) == Linked[req[c].at]

Described(c) == ServiceDescs[Served[req[c].at]][MethodOf(req[c])]

Dispatch(c) ==
  /\ At(c, "arrived")
  /\ got' = [got EXCEPT ![c] = Unmarshal(bytes[c], ReceiversCopy(c)[Described(c).in])]
  /\ Goto(c, "handler")
  /\ UNCHANGED <<up, crashes, req, bytes, ran, answer, seen>>

\* The embedded stub.
Unimplemented(c) ==
  /\ At(c, "handler")
  /\ Described(c).calls \notin Implemented[req[c].at]
  /\ End(c, "Unimplemented")
  /\ UNCHANGED <<up, crashes, req, bytes, got, ran, seen>>

\* The fields that have to be positive.
Needs ==
  [GetRepertory |-> {<<"goodsId">>}, ReduceRepertory |-> {<<"goodsId">>, <<"num">>},
   GetGoodsByRoom |-> {<<"RoomId">>}, GetGoodsDetail |-> {},
   CreateOrder |-> {<<"userId">>}]

Valid(c) == Needs[Described(c).calls] \subseteq DOMAIN got[c]

Refuse(c) ==
  /\ At(c, "handler")
  /\ Described(c).calls \in Implemented[req[c].at]
  /\ ~Valid(c)
  /\ End(c, "InvalidArgument")
  /\ UNCHANGED <<up, crashes, req, bytes, got, ran, seen>>

Run(c) ==
  /\ At(c, "handler")
  /\ Described(c).calls \in Implemented[req[c].at]
  /\ Valid(c)
  /\ ran' = [ran EXCEPT ![c] = Described(c).calls]
  /\ Goto(c, "running")
  /\ UNCHANGED <<up, crashes, req, bytes, got, answer, seen>>

\* The fields a handler sets in its reply: GetGoodsDetail and CreateOrder set none.
Filled(m) ==
  CASE m \in {"GetRepertory", "ReduceRepertory"} -> {<<"goodsId">>, <<"num">>}
    [] m = "GetGoodsByRoom" -> Range(GoodsListResp)
    [] OTHER -> {}

Reply(c) ==
  LET m == ran[c] IN
  /\ At(c, "running")
  /\ bytes' = [bytes EXCEPT ![c] =
                 Marshal([f \in Filled(m) |-> f],
                         ReceiversCopy(c)[Stubs[Served[req[c].at]][m].out])]
  /\ Goto(c, "returned")
  /\ UNCHANGED <<up, crashes, req, got, ran, answer, seen>>

Fail(c) ==
  /\ At(c, "running")
  /\ End(c, "Internal")
  /\ UNCHANGED <<up, crashes, req, bytes, got, ran, seen>>

Return(c) ==
  /\ At(c, "returned")
  /\ End(c, "OK")
  /\ seen' = [seen EXCEPT ![c] =
                IF answer[c] = None
                THEN Unmarshal(bytes[c], Linked[req[c].by][Stub(c).out])
                ELSE Nothing]
  /\ UNCHANGED <<up, crashes, req, bytes, got, ran>>

-----------------------------------------------------------------------------
(* Callers that leave, processes that end *)

\* An HTTP client closes its connection, or a calling process ends: the context
\* of the call is cancelled.  The handler runs on; queries that get the context, as
\* in repertory_service and goods_service, fail, and it fails or replies with that.
CallerGone(c) ==
  /\ answer[c] = None
  /\ answer' = [answer EXCEPT ![c] = "Canceled"]
  /\ IF pc[c] \in {"http", "stub"} THEN Goto(c, "over") ELSE UNCHANGED pc
  /\ UNCHANGED <<up, crashes, req, bytes, got, ran, seen>>

\* The server sees the cancellation before it starts the handler.
Drop(c) ==
  /\ At(c, "arrived") /\ answer[c] = "Canceled"
  /\ Goto(c, "over")
  /\ UNCHANGED <<up, crashes, req, bytes, got, ran, answer, seen>>

\* The calls in a process's gateway and server: a panic in one handler ends all.
Inside(p) ==
  {c \in Calls : /\ req[c].at = p /\ pc[c] # "over"
                 /\ req[c].via = "http" \/ pc[c] # "stub"}

Crash(p) ==
  /\ p \in up
  /\ crashes < MaxCrashes
  /\ crashes' = crashes + 1
  /\ up' = up \ {p}
  /\ pc' = [c \in Calls |-> IF c \in Inside(p) THEN "over" ELSE pc[c]]
  /\ answer' = [c \in Calls |->
       IF c \notin Inside(p) \/ answer[c] # None THEN answer[c]
       ELSE IF req[c].via = "http" THEN "lost" ELSE "Unavailable"]
  /\ UNCHANGED <<req, bytes, got, ran, seen>>

Restart(p) ==
  /\ p \notin up
  /\ up' = up \cup {p}
  /\ UNCHANGED <<crashes, req, pc, bytes, got, ran, answer, seen>>

Finished ==
  /\ \A c \in Calls : pc[c] = "over"
  /\ UNCHANGED vars

Next ==
  \/ \E c \in Calls :
       \/ NoRoute(c) \/ BadRequest(c) \/ Forward(c)
       \/ Invoke(c) \/ NoConnection(c) \/ Dispatch(c)
       \/ Unimplemented(c) \/ Refuse(c) \/ Run(c) \/ Reply(c) \/ Fail(c) \/ Return(c)
       \/ CallerGone(c) \/ Drop(c)
  \/ \E p \in Processes : Crash(p) \/ Restart(p)
  \/ Finished

Spec == Init /\ [][Next]_vars
-----------------------------------------------------------------------------
(* Properties *)

Codes == {"OK", "InvalidArgument", "NotFound", "Unimplemented", "Internal", "Unavailable",
          "Canceled", "lost"}

\* Every variable keeps its type; a handler is only given fields that its own
\* copy of the declaration has.
TypeOK ==
  /\ up \subseteq Processes /\ crashes \in 0..MaxCrashes
  /\ req \in [Calls -> Requests]
  /\ pc \in [Calls -> {"http", "stub", "arrived", "handler", "running", "returned", "over"}]
  /\ ran \in [Calls -> (UNION Range(Implemented)) \cup {None}]
  /\ answer \in [Calls -> Codes \cup {None}]
  /\ \A c \in Calls :
       got[c] # Nothing =>
         DOMAIN got[c] \subseteq Range(Linked[req[c].at][Described(c).in])

Delivered(m, sent, D) ==
  /\ \A f \in DOMAIN m : m[f] = f
  /\ sent \cap Range(D) \subseteq DOMAIN m

\* What a caller fills in arrives under its own name wherever both ends know the
\* field, though each end has its own copy of the declarations: the request at
\* the handler that runs, and the reply at the caller that is told OK.
FieldsArrive ==
  \A c \in Calls :
    ran[c] # None =>
      /\ Delivered(got[c], req[c].fields, Linked[req[c].at][Described(c).in])
      /\ answer[c] = "OK" =>
           Delivered(seen[c], Filled(ran[c]), Linked[req[c].by][Stub(c).out])

\* The status tells the truth about the handler, also when it comes from another
\* layer and whatever happens after it: OK says that the method that was asked
\* for ran, and the statuses that refuse a call that no handler ran, then or
\* later.  Only a call that was cancelled or lost may still run.
AnswersTrue ==
  \A c \in Calls :
    /\ answer[c] = "OK" => ran[c] = MethodOf(req[c]) /\ pc[c] = "over"
    /\ answer[c] \in {"NotFound", "Unimplemented", "InvalidArgument"} => ran[c] = None
    /\ pc[c] # "over" => answer[c] \in {None, "Canceled"}
=============================================================================
