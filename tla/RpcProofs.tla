------------------------------ MODULE RpcProofs ------------------------------
(***************************************************************************)
(* Theorems about Rpc: for any number of calls and crashes, every variable *)
(* keeps its type, a status tells the truth about the handler, and fields  *)
(* arrive under their own names.                                           *)
(***************************************************************************)
EXTENDS Rpc, SequenceTheorems, TLAPS

Services == {"repertory", "Goods", "Order"}

LEMMA ServedServices == \A p \in Processes : Served[p] \in Services
  BY RpcAssumptions DEF Processes, Served, Services

\* The three tables of generated code agree: a service describes the methods its
\* stub has, each with the handler of that name and its request.
LEMMA Wired ==
  ASSUME NEW s \in Services, NEW m \in DOMAIN Stubs[s]
  PROVE  ServiceDescs[s][m].calls = m /\ ServiceDescs[s][m].in = Stubs[s][m].in
<1>1. CASE s = "repertory"
  BY <1>1 DEF Stubs, ServiceDescs, RepertoryClient, RepertoryServiceDesc, Handler
<1>2. CASE s = "Goods"
  BY <1>2 DEF Stubs, ServiceDescs, GoodsClient, GoodsServiceDesc, Handler
<1>3. CASE s = "Order"
  BY <1>3 DEF Stubs, ServiceDescs, OrderClient, OrderServiceDesc, Handler
<1>4. QED
  BY <1>1, <1>2, <1>3 DEF Services

\* Every route leads to a method of the stub.
LEMMA RoutesHaveStubs ==
  ASSUME NEW s \in Services, NEW route \in Routes[s]
  PROVE  route.method \in DOMAIN Stubs[s]
<1>1. CASE s = "repertory"
  BY <1>1 DEF Stubs, Routes, RepertoryClient, RepertoryRoutes, Post, Get
<1>2. CASE s = "Goods"
  BY <1>2 DEF Stubs, Routes, GoodsClient, GoodsRoutes, Post
<1>3. CASE s = "Order"
  BY <1>3 DEF Stubs, Routes, OrderClient, OrderRoutes, Post
<1>4. QED
  BY <1>1, <1>2, <1>3 DEF Services

LEMMA RequestsAt ==
  ASSUME NEW r \in Requests
  PROVE  /\ r.at \in Processes
         /\ r.via # "http" => r \in GrpcRequests
<1>1. CASE r \in GrpcRequests
  BY <1>1 DEF GrpcRequests, Grpc, Processes
<1>2. CASE r \in HttpRequests
  <2> DEFINE Of(p) == UNION {Http(p, route) : route \in Routes[Served[p]]}
  <2>1. CASE r \in UNION {Of(p) : p \in Processes}
    <3>1. PICK p \in Processes : r \in Of(p)
      BY <2>1
    <3>2. PICK route \in Routes[Served[p]] : r \in Http(p, route)
      BY <3>1
    <3>3. r.via = "http" /\ r.at = p
      BY <3>2 DEF Http
    <3>4. QED
      BY <3>3
  <2> HIDE DEF Of
  <2>2. CASE r \in [via : {"http"}, by : {"order"}, at : {"order"}, verb : {"POST"},
                    path : {"orders"}, fields : {{}}, garbled : {FALSE}]
    BY <2>2 DEF Processes
  <2>3. HttpRequests =
          (UNION {Of(p) : p \in Processes})
            \cup [via : {"http"}, by : {"order"}, at : {"order"}, verb : {"POST"},
                  path : {"orders"}, fields : {{}}, garbled : {FALSE}]
    BY DEF HttpRequests, Of
  <2>4. QED
    BY <1>2, <2>1, <2>2, <2>3
<1>3. QED
  BY <1>1, <1>2 DEF Requests

\* A request that has a route, or comes through a stub, asks for a method.
Asks(r) == r.via = "http" => RoutesOf(r) # {}

LEMMA AskedHasStub ==
  ASSUME NEW r \in Requests, Asks(r)
  PROVE  MethodOf(r) \in DOMAIN Stubs[Served[r.at]]
<1>1. r.at \in Processes /\ Served[r.at] \in Services
  BY RequestsAt, ServedServices
<1>2. CASE r.via = "http"
  <2>1. PICK route : route = (CHOOSE x \in RoutesOf(r) : TRUE)
    OBVIOUS
  <2>2. route \in Routes[Served[r.at]]
    BY <1>2, <2>1 DEF Asks, RoutesOf
  <2>3. QED
    BY <1>1, <1>2, <2>1, <2>2, RoutesHaveStubs DEF MethodOf
<1>3. CASE r.via # "http"
  <2>1. r \in GrpcRequests
    BY <1>3, RequestsAt
  <2>2. QED
    BY <1>3, <2>1 DEF GrpcRequests, Grpc, MethodOf, Stubs, Served, RepertoryClient, GoodsClient
<1>4. QED
  BY <1>2, <1>3

-----------------------------------------------------------------------------
(* Declarations that agree *)

\* A number and a name that both declare mean the same field.
Agree(D, E) == \A n \in DOMAIN D, k \in DOMAIN E : D[n] = E[k] <=> n = k

\* The message in which each field holds its own name.
Named(F) == [f \in F |-> f]

\* What one end writes by its copy the other reads by its own, if they agree.
LEMMA WireDelivers ==
  ASSUME NEW D, NEW E, Agree(D, E), Agree(E, E), NEW F, NEW sent,
         sent \cap Range(E) \subseteq F, F \subseteq Range(D)
  PROVE  Delivered(Unmarshal(Marshal(Named(F), D), E), sent, E)
<1> DEFINE b == Marshal(Named(F), D)
           m == Unmarshal(b, E)
<1>1. /\ DOMAIN b = {n \in DOMAIN D : D[n] \in F}
      /\ \A n \in DOMAIN b : b[n] = D[n]
  BY DEF Marshal, Named
<1>2. /\ DOMAIN m = {E[n] : n \in DOMAIN E \cap DOMAIN b}
      /\ \A f \in DOMAIN m : m[f] = b[CHOOSE k \in DOMAIN E : E[k] = f]
  BY DEF Unmarshal
<1> HIDE DEF b, m
<1>3. ASSUME NEW f \in DOMAIN m
      PROVE  m[f] = f
  <2>1. PICK n \in DOMAIN E \cap DOMAIN b : f = E[n]
    BY <1>2
  <2>2. (CHOOSE k \in DOMAIN E : E[k] = f) = n
    <3>1. PICK k : k = (CHOOSE x \in DOMAIN E : E[x] = f)
      OBVIOUS
    <3>2. k \in DOMAIN E /\ E[k] = f
      BY <2>1, <3>1
    <3>3. QED
      BY <2>1, <3>1, <3>2 DEF Agree
  <2>3. QED
    BY <1>1, <1>2, <2>1, <2>2 DEF Agree
<1>4. ASSUME NEW f \in sent \cap Range(E)
      PROVE  f \in DOMAIN m
  <2>1. PICK k \in DOMAIN E : E[k] = f
    BY DEF Range
  <2>2. PICK n \in DOMAIN D : D[n] = f
    BY DEF Range
  <2>3. n = k /\ n \in DOMAIN b
    BY <1>1, <2>1, <2>2 DEF Agree
  <2>4. QED
    BY <1>2, <2>1, <2>3
<1>5. QED
  BY <1>3, <1>4 DEF Delivered, m, b

\* Lists of names agree when equal names are at equal places.
LEMMA ScalarsAgree ==
  ASSUME NEW names, NEW others,
         \A i \in DOMAIN names, j \in DOMAIN others : names[i] = others[j] <=> i = j
  PROVE  Agree(Scalars(names), Scalars(others))
<1> SUFFICES ASSUME NEW n \in DOMAIN Scalars(names), NEW k \in DOMAIN Scalars(others)
             PROVE  Scalars(names)[n] = Scalars(others)[k] <=> n = k
  BY DEF Agree
<1>1. PICK i \in DOMAIN names : n = <<i>>
  BY DEF Scalars
<1>2. PICK j \in DOMAIN others : k = <<j>>
  BY DEF Scalars
<1>3. Scalars(names)[n] = <<names[i]>> /\ Scalars(others)[k] = <<others[j]>>
  BY <1>1, <1>2 DEF Scalars
<1>4. QED
  BY <1>1, <1>2, <1>3

LEMMA ApartAgree ==
  ASSUME NEW D, NEW E, Agree(D, D), Agree(E, E),
         \A n \in DOMAIN D, k \in DOMAIN E : n # k /\ D[n] # E[k]
  PROVE  Agree(Joined(D, E), Joined(D, E))
  BY DEF Agree, Joined

-----------------------------------------------------------------------------
(* The copies of the declarations *)

Programs == Processes \cup {"tester"}

\* The copies that are linked, of the messages of the methods that some
\* controller implements.
Copies ==
  [OrderReq |-> {OrderReq},
   GoodsRepertoryInfo |-> {GoodsRepertoryInfo, OrderGoodsRepertoryInfo},
   GetGoodsByRoomReq |-> {GetGoodsByRoomReq}, GoodsListResp |-> {GoodsListResp},
   GetGoodsDetailReq |-> {GetGoodsDetailReq}, GoodsDetail |-> {GoodsDetail},
   Empty |-> {<<>>}]

LEMMA StoreCopiesAgree ==
  ASSUME NEW D \in Copies.GoodsRepertoryInfo, NEW E \in Copies.GoodsRepertoryInfo
  PROVE  Agree(D, E)
<1>1. Agree(GoodsRepertoryInfo, GoodsRepertoryInfo)
  BY ScalarsAgree DEF GoodsRepertoryInfo
<1>2. Agree(OrderGoodsRepertoryInfo, OrderGoodsRepertoryInfo)
  BY ScalarsAgree DEF OrderGoodsRepertoryInfo
<1>3. Agree(GoodsRepertoryInfo, OrderGoodsRepertoryInfo)
  BY ScalarsAgree DEF GoodsRepertoryInfo, OrderGoodsRepertoryInfo
<1>4. Agree(OrderGoodsRepertoryInfo, GoodsRepertoryInfo)
  BY ScalarsAgree DEF GoodsRepertoryInfo, OrderGoodsRepertoryInfo
<1>5. QED
  BY <1>1, <1>2, <1>3, <1>4 DEF Copies

LEMMA StoreFields ==
  /\ {<<"goodsId">>, <<"num">>} \subseteq Range(GoodsRepertoryInfo)
  /\ {<<"goodsId">>, <<"num">>} \subseteq Range(OrderGoodsRepertoryInfo)
<1>1. \A names : \A i \in DOMAIN names : <<names[i]>> \in Range(Scalars(names))
  <2>1. ASSUME NEW names, NEW i \in DOMAIN names
        PROVE  <<names[i]>> \in Range(Scalars(names))
    <3>1. <<i>> \in DOMAIN Scalars(names) /\ Scalars(names)[<<i>>] = <<names[i]>>
      BY DEF Scalars
    <3>2. QED
      BY <3>1 DEF Range
  <2>2. QED
    BY <2>1
<1>2. QED
  BY <1>1 DEF GoodsRepertoryInfo, OrderGoodsRepertoryInfo

LEMMA RequestsAgree ==
  /\ Agree(OrderReq, OrderReq)
  /\ Agree(GetGoodsByRoomReq, GetGoodsByRoomReq)
  /\ Agree(GetGoodsDetailReq, GetGoodsDetailReq)
<1>1. Agree(OrderReq, OrderReq)
  BY ScalarsAgree DEF OrderReq
<1>2. Agree(GetGoodsByRoomReq, GetGoodsByRoomReq)
  BY ScalarsAgree DEF GetGoodsByRoomReq
<1>3. Agree(GetGoodsDetailReq, GetGoodsDetailReq)
  BY ScalarsAgree DEF GetGoodsDetailReq
<1>4. QED
  BY <1>1, <1>2, <1>3

LEMMA Pairs ==
  ASSUME NEW n, NEW i
  PROVE  <<n>> \o <<i>> = <<n, i>>
<1> DEFINE s == <<n>> \o <<i>>
           t == <<n, i>>
<1>1. <<n>> \in Seq({n, i}) /\ <<i>> \in Seq({n, i}) /\ Len(<<n>>) = 1 /\ Len(<<i>>) = 1
  OBVIOUS
<1>2. s \in Seq({n, i}) /\ Len(s) = 2 /\ s[1] = n /\ s[2] = i
  BY <1>1
<1>3. t \in Seq({n, i}) /\ Len(t) = 2 /\ t[1] = n /\ t[2] = i
  OBVIOUS
<1> HIDE DEF s, t
<1>4. \A k \in 1..Len(s) : s[k] = t[k]
  BY <1>2, <1>3
<1>5. s = t
  BY <1>2, <1>3, <1>4, SeqEqual
<1>6. QED
  BY <1>5 DEF s, t

\* A field of scalars inside another field.
LEMMA NestedScalars ==
  ASSUME NEW n, NEW name, NEW names, NEW k \in DOMAIN Field(n, name, Scalars(names))
  PROVE  \E i \in DOMAIN names :
           k = <<n, i>> /\ Field(n, name, Scalars(names))[k] = <<name, names[i]>>
<1>1. PICK q \in DOMAIN Scalars(names) : k = <<n>> \o q
  BY DEF Field
<1>2. PICK i \in DOMAIN names : q = <<i>>
  BY DEF Scalars
<1>3. k = <<n, i>>
  BY <1>1, <1>2, Pairs
<1>4. Tail(k) = <<i>>
  BY <1>3
<1>5. Scalars(names)[<<i>>] = <<names[i]>>
  BY DEF Scalars
<1>6. Field(n, name, Scalars(names))[k] = <<name>> \o <<names[i]>>
  BY <1>4, <1>5 DEF Field
<1>7. QED
  BY <1>3, <1>6, Pairs

LEMMA NestedAgree ==
  ASSUME NEW n, NEW name, NEW names,
         \A i, j \in DOMAIN names : names[i] = names[j] => i = j
  PROVE  Agree(Field(n, name, Scalars(names)), Field(n, name, Scalars(names)))
  BY NestedScalars DEF Agree

LEMMA RepliesAgree ==
  /\ Agree(GoodsDetail, GoodsDetail)
  /\ Agree(GoodsListResp, GoodsListResp)
  /\ Agree(<<>>, <<>>)
<1>1. Agree(GoodsDetail, GoodsDetail)
  BY ScalarsAgree DEF GoodsDetail
<1>2. Agree(GoodsListResp, GoodsListResp)
  <2> DEFINE D == Scalars(<<"CurrentGoodId">>)
             E == Field(2, "Data", GoodsInfo)
  <2>1. Agree(D, D)
    BY ScalarsAgree
  <2>2. Agree(E, E)
    BY NestedAgree DEF GoodsInfo
  <2>3. DOMAIN D = {<<1>>} /\ D[<<1>>] = <<"CurrentGoodId">>
    BY DEF Scalars
  <2>4. \A k \in DOMAIN E : \E i, f : k = <<2, i>> /\ E[k] = <<"Data", f>>
    BY NestedScalars DEF GoodsInfo
  <2> HIDE DEF D, E
  <2>5. \A n \in DOMAIN D, k \in DOMAIN E : n # k /\ D[n] # E[k]
    BY <2>3, <2>4
  <2>6. QED
    BY <2>1, <2>2, <2>5, ApartAgree DEF GoodsListResp, D, E
<1>3. Agree(<<>>, <<>>)
  BY DEF Agree
<1>4. QED
  BY <1>1, <1>2, <1>3

LEMMA CopiesAgree ==
  ASSUME NEW name \in DOMAIN Copies, NEW D \in Copies[name], NEW E \in Copies[name]
  PROVE  Agree(D, E)
  BY StoreCopiesAgree, RequestsAgree, RepliesAgree DEF Copies

\* What each program links, by name.
LEMMA LinkedCopies ==
  /\ Linked["order"].OrderReq \in Copies.OrderReq
  /\ Linked["order"].GetGoodsDetailReq \in Copies.GetGoodsDetailReq
  /\ Linked["order"].GoodsDetail \in Copies.GoodsDetail
  /\ Linked["order"].GoodsRepertoryInfo \in Copies.GoodsRepertoryInfo
  /\ Linked["order"].Empty \in Copies.Empty
  /\ Linked["repertory"].GoodsRepertoryInfo \in Copies.GoodsRepertoryInfo
  /\ Linked["tester"].GoodsRepertoryInfo \in Copies.GoodsRepertoryInfo
  /\ Linked["goods"].GetGoodsByRoomReq \in Copies.GetGoodsByRoomReq
  /\ Linked["goods"].GoodsListResp \in Copies.GoodsListResp
  /\ Linked["goods"].GetGoodsDetailReq \in Copies.GetGoodsDetailReq
  /\ Linked["goods"].GoodsDetail \in Copies.GoodsDetail
<1>1. /\ Linked["order"] = Joined(Joined(OrderFile, OrderGoodsFile), Joined(OrderRepertoryFile, Empty))
      /\ Linked["repertory"] = Joined(RepertoryFile(GoodsRepertoryInfo), Empty)
      /\ Linked["tester"] = Joined(RepertoryFile(GoodsRepertoryInfo), Empty)
      /\ Linked["goods"] = Joined(GoodsFile, Empty)
  BY DEF Linked
<1> HIDE DEF Linked
<1>2. /\ Linked["order"].OrderReq \in Copies.OrderReq
      /\ Linked["order"].GetGoodsDetailReq \in Copies.GetGoodsDetailReq
      /\ Linked["order"].GoodsDetail \in Copies.GoodsDetail
      /\ Linked["order"].GoodsRepertoryInfo \in Copies.GoodsRepertoryInfo
      /\ Linked["order"].Empty \in Copies.Empty
  BY <1>1 DEF Joined, OrderFile, OrderGoodsFile, GoodsFile, OrderRepertoryFile, RepertoryFile,
     Empty, Copies
<1>3. /\ Linked["repertory"].GoodsRepertoryInfo \in Copies.GoodsRepertoryInfo
      /\ Linked["tester"].GoodsRepertoryInfo \in Copies.GoodsRepertoryInfo
  BY <1>1 DEF Joined, RepertoryFile, Empty, Copies
<1>4. /\ Linked["goods"].GetGoodsByRoomReq \in Copies.GetGoodsByRoomReq
      /\ Linked["goods"].GoodsListResp \in Copies.GoodsListResp
      /\ Linked["goods"].GetGoodsDetailReq \in Copies.GetGoodsDetailReq
      /\ Linked["goods"].GoodsDetail \in Copies.GoodsDetail
  BY <1>1 DEF Joined, GoodsFile, Empty, Copies
<1>5. QED
  BY <1>2, <1>3, <1>4

LEMMA InputsInRange ==
  ASSUME NEW D, NEW F \in Inputs(D)
  PROVE  F \subseteq Range(D)
  BY DEF Inputs

\* A request of a client stub is in its own copy's fields; a request of the
\* gateway has one copy at both ends.
LEMMA RequestFields ==
  ASSUME NEW r \in Requests
  PROVE  \/ r.via = "http" /\ r.by = r.at
         \/ /\ r.via = "grpc"
            /\ \/ r.by = "order" /\ r.at = "goods" /\ r.method = "GetGoodsDetail"
               \/ r.by \in {"order", "tester"} /\ r.at = "repertory"
            /\ r.fields \subseteq Range(InputOf(r.by, Served[r.at], r.method))
<1>1. CASE r \in GrpcRequests
  <2>1. \A by, p, m : r \in Grpc(by, p, m) =>
          /\ r.via = "grpc" /\ r.by = by /\ r.at = p /\ r.method = m
          /\ r.fields \subseteq Range(InputOf(by, Served[p], m))
    BY InputsInRange DEF Grpc
  <2>2. QED
    BY <1>1, <2>1 DEF GrpcRequests
<1>2. CASE r \in HttpRequests
  <2> DEFINE Of(p) == UNION {Http(p, route) : route \in Routes[Served[p]]}
             astray == [via : {"http"}, by : {"order"}, at : {"order"}, verb : {"POST"},
                        path : {"orders"}, fields : {{}}, garbled : {FALSE}]
  <2>1. CASE r \in UNION {Of(p) : p \in Processes}
    <3>1. PICK p \in Processes : r \in Of(p)
      BY <2>1
    <3>2. PICK route \in Routes[Served[p]] : r \in Http(p, route)
      BY <3>1
    <3>3. QED
      BY <3>2 DEF Http
  <2>2. CASE r \in astray
    BY <2>2
  <2> HIDE DEF Of, astray
  <2>3. HttpRequests = (UNION {Of(p) : p \in Processes}) \cup astray
    BY DEF HttpRequests, Of, astray
  <2>4. QED
    BY <1>2, <2>1, <2>2, <2>3
<1>3. QED
  BY <1>1, <1>2 DEF Requests

\* Of an implemented method, each end of the call links a known copy of the
\* request and of the reply.
Ends(r, s) ==
  /\ s.in \in DOMAIN Copies /\ s.out \in DOMAIN Copies
  /\ \A p \in {r.by, r.at} : Linked[p][s.in] \in Copies[s.in] /\ Linked[p][s.out] \in Copies[s.out]
  /\ Filled(MethodOf(r)) \subseteq Range(Linked[r.at][s.out])

LEMMA EndsLinked ==
  ASSUME NEW r \in Requests, Asks(r), MethodOf(r) \in Implemented[r.at]
  PROVE  Ends(r, Stubs[Served[r.at]][MethodOf(r)])
<1> DEFINE m == MethodOf(r)
           s == Stubs[Served[r.at]][m]
<1>1. m \in DOMAIN Stubs[Served[r.at]] /\ r.at \in Processes
  BY AskedHasStub, RequestsAt
<1>2. CASE r.at = "order"
  <2>1. m = "CreateOrder" /\ r.by = "order"
    BY <1>2, RequestFields DEF Implemented
  <2>2. Served["order"] = "Order"
    BY <1>1, <1>2, <2>1, RpcAssumptions DEF Served, Stubs, RepertoryClient
  <2>3. s = [in |-> "OrderReq", out |-> "Empty"]
    BY <1>2, <2>1, <2>2 DEF Stubs, OrderClient
  <2>4. Filled(m) = {}
    BY <2>1 DEF Filled
  <2>5. QED
    BY <1>2, <2>1, <2>3, <2>4, LinkedCopies DEF Ends, Copies
<1>3. CASE r.at = "repertory"
  <2>1. m \in {"GetRepertory", "ReduceRepertory"} /\ r.by \in {"order", "tester", "repertory"}
    BY <1>3, RequestFields DEF Implemented
  <2>2. s = [in |-> "GoodsRepertoryInfo", out |-> "GoodsRepertoryInfo"]
    BY <1>3, <2>1 DEF Served, Stubs, RepertoryClient
  <2>3. Filled(m) = {<<"goodsId">>, <<"num">>}
    BY <2>1 DEF Filled
  <2>4. \A D \in Copies.GoodsRepertoryInfo : {<<"goodsId">>, <<"num">>} \subseteq Range(D)
    BY StoreFields DEF Copies
  <2>5. QED
    BY <1>3, <2>1, <2>2, <2>3, <2>4, LinkedCopies DEF Ends, Copies
<1>4. CASE r.at = "goods"
  <2>1. CASE m = "GetGoodsByRoom"
    <3>1. r.by = "goods"
      BY <1>4, <2>1, RequestFields DEF MethodOf
    <3>2. s = [in |-> "GetGoodsByRoomReq", out |-> "GoodsListResp"]
      BY <1>4, <2>1 DEF Served, Stubs, GoodsClient
    <3>3. Filled(m) = Range(GoodsListResp)
      BY <2>1 DEF Filled
    <3>4. QED
      BY <1>4, <3>1, <3>2, <3>3, LinkedCopies DEF Ends, Copies
  <2>2. CASE m = "GetGoodsDetail"
    <3>1. r.by \in {"goods", "order"}
      BY <1>4, RequestFields
    <3>2. s = [in |-> "GetGoodsDetailReq", out |-> "GoodsDetail"]
      BY <1>4, <2>2 DEF Served, Stubs, GoodsClient
    <3>3. Filled(m) = {}
      BY <2>2 DEF Filled
    <3>4. QED
      BY <1>4, <3>1, <3>2, <3>3, LinkedCopies DEF Ends, Copies
  <2>3. QED
    BY <1>4, <2>1, <2>2 DEF Implemented
<1>5. QED
  BY <1>1, <1>2, <1>3, <1>4 DEF Processes

\* The request of a call to an implemented method reaches its handler.
LEMMA RequestDelivers ==
  ASSUME NEW r \in Requests, Asks(r), MethodOf(r) \in Implemented[r.at],
         NEW D, D = InputOf(r.by, Served[r.at], MethodOf(r)),
         NEW E, E = Linked[r.at][Stubs[Served[r.at]][MethodOf(r)].in]
  PROVE  Delivered(Unmarshal(Marshal(Decoded(r, D), D), E), r.fields, E)
<1> DEFINE F == r.fields \cap Range(D)
           in == Stubs[Served[r.at]][MethodOf(r)].in
<1>1. in \in DOMAIN Copies /\ D \in Copies[in] /\ E \in Copies[in]
  BY EndsLinked DEF Ends, InputOf
<1>2. Agree(D, E) /\ Agree(E, E)
  BY <1>1, CopiesAgree
<1>3. r.fields \cap Range(E) \subseteq F
  BY RequestFields DEF InputOf, MethodOf
<1>4. Decoded(r, D) = Named(F)
  BY DEF Decoded, Named
<1> HIDE DEF F
<1>5. F \subseteq Range(D)
  BY DEF F
<1>6. QED
  BY <1>2, <1>3, <1>4, <1>5, WireDelivers

\* And its reply the caller.
LEMMA ReplyDelivers ==
  ASSUME NEW r \in Requests, Asks(r), NEW m, m = MethodOf(r), m \in Implemented[r.at],
         NEW D, D = Linked[r.at][Stubs[Served[r.at]][m].out],
         NEW E, E = Linked[r.by][Stubs[Served[r.at]][m].out]
  PROVE  Delivered(Unmarshal(Marshal(Named(Filled(m)), D), E), Filled(m), E)
<1> DEFINE out == Stubs[Served[r.at]][m].out
<1>1. /\ out \in DOMAIN Copies /\ D \in Copies[out] /\ E \in Copies[out]
      /\ Filled(m) \subseteq Range(D)
  BY EndsLinked DEF Ends
<1>2. Agree(D, E) /\ Agree(E, E)
  BY <1>1, CopiesAgree
<1>3. QED
  BY <1>1, <1>2, WireDelivers

-----------------------------------------------------------------------------
(* The inductive invariant *)

Before == {"http", "stub", "arrived", "handler"}
After == {"running", "returned"}

PcType == [Calls -> Before \cup After \cup {"over"}]

VarsInv ==
  /\ up \subseteq Processes /\ crashes \in 0..MaxCrashes
  /\ req \in [Calls -> Requests]
  /\ pc \in PcType
  /\ ran \in [Calls -> (UNION Range(Implemented)) \cup {None}]
  /\ answer \in [Calls -> Codes \cup {None}]
  /\ bytes = [c \in Calls |-> bytes[c]]
  /\ got = [c \in Calls |-> got[c]]
  /\ seen = [c \in Calls |-> seen[c]]

GotInv(c) ==
  got[c] # Nothing => DOMAIN got[c] \subseteq Range(Linked[req[c].at][Described(c).in])

\* How far a call is, what ran for it and what its caller was told.
CallInv(c) ==
  /\ pc[c] \notin {"http", "over"} => Asks(req[c])
  /\ pc[c] \in Before => ran[c] = None
  /\ pc[c] \in After => ran[c] = MethodOf(req[c])
  /\ pc[c] # "over" => answer[c] \in {None, "Canceled"}
  /\ answer[c] = "OK" => ran[c] = MethodOf(req[c])
  /\ answer[c] \in {"NotFound", "Unimplemented", "InvalidArgument"} => ran[c] = None

IInv == VarsInv /\ \A c \in Calls : GotInv(c) /\ CallInv(c)

LEMMA IInvImplies == IInv => TypeOK /\ AnswersTrue
  BY DEF IInv, VarsInv, GotInv, CallInv, TypeOK, AnswersTrue, PcType, Before, After, None

LEMMA IInvInit == Init => IInv
<1> SUFFICES ASSUME Init PROVE IInv
  OBVIOUS
<1>1. VarsInv
  <2>1. crashes \in 0..MaxCrashes
    BY RpcAssumptions DEF Init
  <2>2. pc \in PcType
    <3>1. pc = [c \in Calls |-> IF req[c].via = "http" THEN "http" ELSE "stub"]
      BY DEF Init
    <3>2. QED
      BY <3>1 DEF PcType, Before, After
  <2>3. req \in [Calls -> Requests]
    BY DEF Init
  <2>7. ran \in [Calls -> (UNION Range(Implemented)) \cup {None}]
    BY DEF Init
  <2>4. answer \in [Calls -> Codes \cup {None}]
    BY DEF Init
  <2>5. /\ bytes = [c \in Calls |-> bytes[c]] /\ got = [c \in Calls |-> got[c]]
        /\ seen = [c \in Calls |-> seen[c]] /\ up \subseteq Processes
    BY DEF Init
  <2>6. QED
    BY <2>1, <2>2, <2>3, <2>7, <2>4, <2>5 DEF VarsInv
<1>2. ASSUME NEW c \in Calls
      PROVE  GotInv(c) /\ CallInv(c)
  BY DEF Init, GotInv, CallInv, Before, After, None, Asks, Nothing
<1>3. QED
  BY <1>1, <1>2 DEF IInv

\* A step of one call leaves the others alone.
Only(c) ==
  /\ req' = req
  /\ \A d \in Calls \ {c} :
       /\ pc'[d] = pc[d] /\ ran'[d] = ran[d] /\ answer'[d] = answer[d] /\ got'[d] = got[d]

LEMMA OthersKeep ==
  ASSUME IInv, NEW c \in Calls, Only(c), NEW d \in Calls, d # c
  PROVE  GotInv(d)' /\ CallInv(d)'
<1>1. GotInv(d) /\ CallInv(d)
  BY DEF IInv
<1>2. pc'[d] = pc[d] /\ ran'[d] = ran[d] /\ answer'[d] = answer[d] /\ got'[d] = got[d] /\ req' = req
  BY DEF Only
<1>3. GotInv(d)'
  BY <1>1, <1>2 DEF GotInv, Described
<1>4. CallInv(d)'
  BY <1>1, <1>2 DEF CallInv
<1>5. QED
  BY <1>3, <1>4

CallStep(c) ==
  \/ NoRoute(c) \/ BadRequest(c) \/ Forward(c)
  \/ Invoke(c) \/ NoConnection(c) \/ Dispatch(c)
  \/ Unimplemented(c) \/ Refuse(c) \/ Run(c) \/ Reply(c) \/ Fail(c) \/ Return(c)
  \/ CallerGone(c) \/ Drop(c)

LEMMA StepIsOwn ==
  ASSUME IInv, NEW c \in Calls, CallStep(c)
  PROVE  Only(c)
<1> USE DEF IInv, VarsInv, PcType, Only, Goto, End, Answered
<1>1. CASE NoRoute(c) \/ BadRequest(c) \/ NoConnection(c) \/ Unimplemented(c) \/ Refuse(c) \/ Fail(c)
  BY <1>1 DEF NoRoute, BadRequest, NoConnection, Unimplemented, Refuse, Fail
<1>2. CASE Forward(c) \/ Invoke(c) \/ Reply(c) \/ Drop(c)
  BY <1>2 DEF Forward, Invoke, Reply, Drop
<1>3. CASE Dispatch(c)
  BY <1>3 DEF Dispatch
<1>4. CASE Run(c)
  BY <1>4 DEF Run
<1>5. CASE Return(c)
  BY <1>5 DEF Return
<1>6. CASE CallerGone(c)
  BY <1>6 DEF CallerGone
<1>7. QED
  BY <1>1, <1>2, <1>3, <1>4, <1>5, <1>6 DEF CallStep

\* One step per action: what it does to the call it is about.
LEMMA CallKept ==
  ASSUME IInv, NEW c \in Calls, CallStep(c)
  PROVE  VarsInv' /\ GotInv(c)' /\ CallInv(c)'
<1> DEFINE asked == MethodOf(req[c])
<1>1. /\ VarsInv /\ GotInv(c) /\ CallInv(c)
      /\ req[c] \in Requests /\ req[c].at \in Processes
      /\ ran[c] \in (UNION Range(Implemented)) \cup {None}
  BY RequestsAt DEF IInv, VarsInv
<1>2. pc[c] \notin {"http", "over"} => Described(c).calls = asked
  BY <1>1, AskedHasStub, ServedServices, Wired DEF CallInv, Described
<1>3. CASE NoRoute(c) \/ BadRequest(c)
  BY <1>1, <1>3 DEF NoRoute, BadRequest, End, Goto, Answered, At, VarsInv, GotInv, CallInv,
     Described, PcType, Before, After, Codes, None
<1>4. CASE Forward(c)
  BY <1>1, <1>4 DEF Forward, Goto, At, VarsInv, GotInv, CallInv, Described, PcType, Before,
     After, Asks
<1>5. CASE Invoke(c)
  BY <1>1, <1>5 DEF Invoke, Goto, At, VarsInv, GotInv, CallInv, Described, PcType, Before, After
<1>6. CASE NoConnection(c)
  BY <1>1, <1>6 DEF NoConnection, End, Goto, Answered, At, VarsInv, GotInv, CallInv, Described,
     PcType, Before, After, Codes, None
<1>7. CASE Dispatch(c)
  <2> DEFINE D == ReceiversCopy(c)[Described(c).in]
  <2>1. got'[c] = Unmarshal(bytes[c], D)
    BY <1>1, <1>7 DEF Dispatch, VarsInv
  <2>2. DOMAIN got'[c] \subseteq Range(D)
    BY <2>1 DEF Unmarshal, Range
  <2>3. GotInv(c)'
    BY <1>7, <2>2 DEF Dispatch, GotInv, ReceiversCopy, Described
  <2>4. VarsInv'
    BY <1>1, <1>7 DEF Dispatch, VarsInv, Goto, PcType, Before, After
  <2>5. CallInv(c)'
    BY <1>1, <1>7 DEF Dispatch, CallInv, Goto, At, VarsInv, PcType, Before, After
  <2>6. QED
    BY <2>3, <2>4, <2>5
<1>8. CASE Unimplemented(c) \/ Refuse(c)
  BY <1>1, <1>8 DEF Unimplemented, Refuse, End, Goto, Answered, At, VarsInv, GotInv, CallInv,
     Described, PcType, Before, After, Codes, None
<1>9. CASE Run(c)
  <2>1. /\ ran' = [ran EXCEPT ![c] = asked] /\ asked \in UNION Range(Implemented)
    <3>1. Described(c).calls = asked /\ asked \in Implemented[req[c].at]
      BY <1>2, <1>9 DEF Run, At
    <3>2. Implemented[req[c].at] \in Range(Implemented)
      BY <1>1 DEF Range, Implemented, Processes
    <3>3. QED
      BY <1>9, <3>1, <3>2 DEF Run
  <2>2. QED
    BY <1>1, <1>9, <2>1 DEF Run, Goto, At, VarsInv, GotInv, CallInv, Described, PcType, Before,
       After, Asks, None
<1>10. CASE Reply(c)
  BY <1>1, <1>10 DEF Reply, Goto, At, VarsInv, GotInv, CallInv, Described, PcType, Before, After
<1>11. CASE Fail(c)
  BY <1>1, <1>11 DEF Fail, End, Goto, Answered, At, VarsInv, GotInv, CallInv, Described,
     PcType, Before, After, Codes, None
<1>12. CASE Return(c)
  BY <1>1, <1>12 DEF Return, End, Goto, Answered, At, VarsInv, GotInv, CallInv, Described,
     PcType, Before, After, Codes, None
<1>13. CASE CallerGone(c)
  BY <1>1, <1>13 DEF CallerGone, Goto, VarsInv, GotInv, CallInv, Described, PcType, Before,
     After, Codes, None
<1>14. CASE Drop(c)
  BY <1>1, <1>14 DEF Drop, Goto, At, VarsInv, GotInv, CallInv, Described, PcType, Before,
     After, Codes, None
<1>15. QED
  BY <1>3, <1>4, <1>5, <1>6, <1>7, <1>8, <1>9, <1>10, <1>11, <1>12, <1>13, <1>14 DEF CallStep

\* A process that ends takes its calls with it; nobody is told OK for them.
LEMMA CrashKeeps ==
  ASSUME IInv, NEW p \in Processes, Crash(p)
  PROVE  IInv'
<1>1. VarsInv'
  BY RpcAssumptions DEF IInv, VarsInv, Crash, PcType, Before, After, Codes
<1>2. ASSUME NEW c \in Calls
      PROVE  GotInv(c)' /\ CallInv(c)'
  <2>1. GotInv(c) /\ CallInv(c)
    BY DEF IInv
  <2>2. GotInv(c)'
    BY <2>1 DEF Crash, GotInv, Described
  <2>3. /\ req' = req /\ ran' = ran
        /\ \/ pc'[c] = pc[c] /\ answer'[c] = answer[c]
           \/ pc'[c] = "over" /\ answer'[c] = answer[c]
           \/ pc'[c] = "over" /\ answer'[c] \in {"lost", "Unavailable"}
    BY DEF Crash
  <2>4. CallInv(c)'
    BY <2>1, <2>3 DEF CallInv, Before, After
  <2>5. QED
    BY <2>2, <2>4
<1>3. QED
  BY <1>1, <1>2 DEF IInv

LEMMA IInvStep == IInv /\ [Next]_vars => IInv'
<1> SUFFICES ASSUME IInv, [Next]_vars PROVE IInv'
  OBVIOUS
<1>1. ASSUME NEW c \in Calls, CallStep(c)
      PROVE  IInv'
  <2>1. Only(c)
    BY <1>1, StepIsOwn
  <2>2. VarsInv' /\ GotInv(c)' /\ CallInv(c)'
    BY <1>1, CallKept
  <2>3. \A d \in Calls : GotInv(d)' /\ CallInv(d)'
    BY <2>1, <2>2, OthersKeep
  <2>4. QED
    BY <2>2, <2>3 DEF IInv
<1>2. ASSUME NEW p \in Processes, Crash(p)
      PROVE  IInv'
  BY <1>2, CrashKeeps
<1>3. CASE (\E p \in Processes : Restart(p)) \/ UNCHANGED vars
  <2>1. /\ crashes' = crashes /\ req' = req /\ pc' = pc /\ bytes' = bytes /\ got' = got
        /\ ran' = ran /\ answer' = answer /\ seen' = seen /\ up' \subseteq Processes
    BY <1>3 DEF Restart, vars, IInv, VarsInv
  <2>2. VarsInv'
    BY <2>1 DEF IInv, VarsInv
  <2>3. \A c \in Calls : GotInv(c)' /\ CallInv(c)'
    BY <2>1 DEF IInv, GotInv, CallInv, Described
  <2>4. QED
    BY <2>2, <2>3 DEF IInv
<1>4. QED
  BY <1>1, <1>2, <1>3 DEF Next, CallStep, Finished

-----------------------------------------------------------------------------
(* What the message on the wire, the handler and the caller hold *)

RequestCopy(c) == InputOf(req[c].by, Served[req[c].at], MethodOf(req[c]))

ArriveInv(c) ==
  /\ pc[c] = "arrived" => bytes[c] = Marshal(Decoded(req[c], RequestCopy(c)), RequestCopy(c))
  /\ pc[c] = "handler" =>
       got[c] = Unmarshal(Marshal(Decoded(req[c], RequestCopy(c)), RequestCopy(c)),
                          ReceiversCopy(c)[Described(c).in])
  /\ ran[c] # None =>
       /\ Asks(req[c]) /\ ran[c] = MethodOf(req[c]) /\ ran[c] \in Implemented[req[c].at]
       /\ Delivered(got[c], req[c].fields, ReceiversCopy(c)[Described(c).in])
  /\ pc[c] \in After => ran[c] # None
  /\ pc[c] = "returned" =>
       bytes[c] = Marshal(Named(Filled(ran[c])), ReceiversCopy(c)[Stub(c).out])
  /\ answer[c] = "OK" =>
       ran[c] # None /\ Delivered(seen[c], Filled(ran[c]), Linked[req[c].by][Stub(c).out])

AInv == \A c \in Calls : ArriveInv(c)

LEMMA AInvImplies == AInv => FieldsArrive
  BY DEF AInv, ArriveInv, FieldsArrive, ReceiversCopy

LEMMA AInvInit == Init => AInv
  BY DEF Init, AInv, ArriveInv, After, None

LEMMA DescribedIn ==
  ASSUME NEW c \in Calls, req[c] \in Requests, Asks(req[c])
  PROVE  Described(c).calls = MethodOf(req[c]) /\ Described(c).in = Stub(c).in
  BY AskedHasStub, RequestsAt, ServedServices, Wired DEF Described, Stub

\* What a step leaves of a call it is not about.
LEMMA ArriveKeeps ==
  ASSUME NEW c \in Calls, ArriveInv(c), req' = req,
         pc'[c] = pc[c] \/ pc'[c] \in {"stub", "over"},
         bytes'[c] = bytes[c], got'[c] = got[c], ran'[c] = ran[c], seen'[c] = seen[c],
         answer'[c] = answer[c] \/ answer'[c] # "OK"
  PROVE  ArriveInv(c)'
<1>1. /\ RequestCopy(c)' = RequestCopy(c) /\ ReceiversCopy(c)' = ReceiversCopy(c)
      /\ Described(c)' = Described(c) /\ Stub(c)' = Stub(c)
  BY DEF RequestCopy, ReceiversCopy, Described, Stub
<1>2. QED
  BY <1>1 DEF ArriveInv, After

LEMMA OthersArrive ==
  ASSUME IInv, NEW c \in Calls, CallStep(c), NEW d \in Calls, d # c, ArriveInv(d)
  PROVE  ArriveInv(d)'
<1>1. Only(c)
  BY StepIsOwn
<1>2. bytes'[d] = bytes[d] /\ seen'[d] = seen[d]
  BY DEF IInv, VarsInv, CallStep, NoRoute, BadRequest, Forward, Invoke, NoConnection, Dispatch,
     Unimplemented, Refuse, Run, Reply, Fail, Return, CallerGone, Drop
<1>3. QED
  BY <1>1, <1>2, ArriveKeeps DEF Only

LEMMA CallArrives ==
  ASSUME IInv, NEW c \in Calls, CallStep(c), ArriveInv(c)
  PROVE  ArriveInv(c)'
<1> DEFINE asked == MethodOf(req[c])
<1>1. /\ VarsInv /\ CallInv(c) /\ req[c] \in Requests
  BY DEF IInv, VarsInv
<1>2. pc[c] \notin {"http", "over"} =>
        /\ Asks(req[c]) /\ Described(c).calls = asked /\ Described(c).in = Stub(c).in
  BY <1>1, DescribedIn DEF CallInv
<1>3. CASE NoRoute(c) \/ BadRequest(c) \/ NoConnection(c) \/ Unimplemented(c) \/ Refuse(c) \/ Fail(c)
  <2>1. /\ req' = req /\ pc'[c] = "over" /\ bytes' = bytes /\ got' = got /\ ran' = ran
        /\ seen' = seen /\ (answer'[c] = answer[c] \/ answer'[c] # "OK")
    BY <1>1, <1>3 DEF NoRoute, BadRequest, NoConnection, Unimplemented, Refuse, Fail, End, Goto,
       Answered, VarsInv, PcType
  <2>2. QED
    BY <2>1, ArriveKeeps
<1>4. CASE Forward(c) \/ CallerGone(c) \/ Drop(c)
  <2>1. /\ req' = req /\ (pc'[c] = pc[c] \/ pc'[c] \in {"stub", "over"}) /\ bytes' = bytes
        /\ got' = got /\ ran' = ran /\ seen' = seen
        /\ (answer'[c] = answer[c] \/ answer'[c] # "OK")
    BY <1>1, <1>4 DEF Forward, CallerGone, Drop, Goto, VarsInv, PcType
  <2>2. QED
    BY <2>1, ArriveKeeps DEF Before
<1>5. CASE Invoke(c)
  <2>1. /\ req' = req /\ pc'[c] = "arrived" /\ got' = got /\ ran' = ran /\ seen' = seen
        /\ answer' = answer
        /\ bytes'[c] = Marshal(Decoded(req[c], RequestCopy(c)), RequestCopy(c))
    BY <1>1, <1>5 DEF Invoke, Goto, VarsInv, PcType, RequestCopy
  <2>2. QED
    BY <2>1 DEF ArriveInv, RequestCopy, ReceiversCopy, Described, Stub, After
<1>6. CASE Dispatch(c)
  <2>1. /\ req' = req /\ pc[c] = "arrived" /\ pc'[c] = "handler" /\ bytes' = bytes /\ ran' = ran
        /\ seen' = seen /\ answer' = answer
        /\ got'[c] = Unmarshal(bytes[c], ReceiversCopy(c)[Described(c).in])
    BY <1>1, <1>6 DEF Dispatch, Goto, At, VarsInv, PcType
  <2>2. ran[c] = None
    BY <1>1, <2>1 DEF CallInv, Before
  <2>3. QED
    BY <1>1, <2>1, <2>2 DEF ArriveInv, RequestCopy, ReceiversCopy, Described, Stub, After, CallInv
<1>7. CASE Run(c)
  <2>1. /\ req' = req /\ pc[c] = "handler" /\ pc'[c] = "running" /\ bytes' = bytes /\ got' = got
        /\ ran'[c] = Described(c).calls /\ seen' = seen /\ answer' = answer
        /\ Described(c).calls \in Implemented[req[c].at]
    BY <1>1, <1>7 DEF Run, Goto, At, VarsInv, PcType
  <2>2. /\ Asks(req[c]) /\ ran'[c] = asked /\ asked \in Implemented[req[c].at]
    BY <1>2, <2>1
  <2>3. Delivered(got[c], req[c].fields, ReceiversCopy(c)[Described(c).in])
    BY <1>1, <1>2, <2>1, <2>2, RequestDelivers
       DEF ArriveInv, RequestCopy, ReceiversCopy, Stub
  <2>4. answer[c] # "OK" /\ ran'[c] # None
    BY <1>1, <2>1, <2>2, RequestsAt DEF CallInv, None, Implemented, Processes
  <2>5. QED
    BY <2>1, <2>2, <2>3, <2>4 DEF ArriveInv, RequestCopy, ReceiversCopy, Described, Stub, After
<1>8. CASE Reply(c)
  <2>1. /\ req' = req /\ pc[c] = "running" /\ pc'[c] = "returned" /\ got' = got /\ ran' = ran
        /\ seen' = seen /\ answer' = answer
        /\ bytes'[c] = Marshal(Named(Filled(ran[c])),
                         ReceiversCopy(c)[Stubs[Served[req[c].at]][ran[c]].out])
    BY <1>1, <1>8 DEF Reply, Goto, At, VarsInv, PcType, Named
  <2>2. ran[c] # None /\ ran[c] = asked
    BY <2>1 DEF ArriveInv, After
  <2>3. QED
    BY <2>1, <2>2 DEF ArriveInv, RequestCopy, ReceiversCopy, Described, Stub, After
<1>9. CASE Return(c)
  <2>1. /\ req' = req /\ pc[c] = "returned" /\ pc'[c] = "over" /\ bytes' = bytes /\ got' = got
        /\ ran' = ran
        /\ answer[c] = None =>
             seen'[c] = Unmarshal(bytes[c], Linked[req[c].by][Stub(c).out])
        /\ answer[c] # None => answer'[c] = answer[c]
    BY <1>1, <1>9 DEF Return, End, Goto, At, Answered, VarsInv, PcType
  <2>2. answer[c] # "OK"
    BY <1>1, <2>1 DEF CallInv, None
  <2>3. /\ ran[c] # None /\ Asks(req[c]) /\ ran[c] = asked /\ asked \in Implemented[req[c].at]
        /\ bytes[c] = Marshal(Named(Filled(asked)), ReceiversCopy(c)[Stub(c).out])
    BY <2>1 DEF ArriveInv, After
  <2>4. answer[c] = None => Delivered(seen'[c], Filled(asked), Linked[req[c].by][Stub(c).out])
    BY <1>1, <2>1, <2>3, ReplyDelivers DEF ReceiversCopy, Stub
  <2>5. QED
    BY <2>1, <2>2, <2>3, <2>4 DEF ArriveInv, RequestCopy, ReceiversCopy, Described, Stub, After
<1>10. QED
  BY <1>3, <1>4, <1>5, <1>6, <1>7, <1>8, <1>9 DEF CallStep

LEMMA AInvStep == IInv /\ AInv /\ [Next]_vars => AInv'
<1> SUFFICES ASSUME IInv, AInv, [Next]_vars, NEW d \in Calls
             PROVE  ArriveInv(d)'
  BY DEF AInv
<1>1. ArriveInv(d)
  BY DEF AInv
<1>2. ASSUME NEW c \in Calls, CallStep(c)
      PROVE  ArriveInv(d)'
  BY <1>1, <1>2, OthersArrive, CallArrives
<1>3. ASSUME NEW p \in Processes, Crash(p)
      PROVE  ArriveInv(d)'
  <2>1. /\ req' = req /\ (pc'[d] = pc[d] \/ pc'[d] = "over") /\ bytes' = bytes /\ got' = got
        /\ ran' = ran /\ seen' = seen /\ (answer'[d] = answer[d] \/ answer'[d] # "OK")
    BY <1>3 DEF Crash
  <2>2. QED
    BY <1>1, <2>1, ArriveKeeps
<1>4. CASE (\E p \in Processes : Restart(p)) \/ UNCHANGED vars
  <2>1. /\ req' = req /\ pc' = pc /\ bytes' = bytes /\ got' = got /\ ran' = ran
        /\ answer' = answer /\ seen' = seen
    BY <1>4 DEF Restart, vars
  <2>2. QED
    BY <1>1, <2>1, ArriveKeeps
<1>5. QED
  BY <1>2, <1>3, <1>4 DEF Next, CallStep, Finished

-----------------------------------------------------------------------------

\* Every variable of Rpc keeps its type, for any calls and crashes: a handler is
\* only given fields of its own declarations.
THEOREM TypeCorrect == Spec => []TypeOK
<1>1. Spec => []IInv
  BY IInvInit, IInvStep, PTL DEF Spec
<1>2. QED
  BY <1>1, IInvImplies, PTL

\* OK means that the method that was asked for ran, and a refusal that nothing
\* ran or will: for all routes, stubs and service descriptions the generated code
\* has, whichever service the order process registers.
THEOREM AnswersAreTrue == Spec => []AnswersTrue
<1>1. Spec => []IInv
  BY IInvInit, IInvStep, PTL DEF Spec
<1>2. QED
  BY <1>1, IInvImplies, PTL

\* What a caller fills in arrives under its own name at the handler that runs,
\* and what the handler fills in at the caller that is told OK, though the copies
\* of the declarations differ: wherever a call of this system has two ends, their
\* copies give no number two names and no name two numbers.
THEOREM FieldsDoArrive == Spec => []FieldsArrive
<1>1. Spec => []IInv
  BY IInvInit, IInvStep, PTL DEF Spec
<1>2. Spec => []AInv
  BY <1>1, AInvInit, AInvStep, PTL DEF Spec
<1>3. QED
  BY <1>2, AInvImplies, PTL
=============================================================================
