------------------------------ MODULE Messages ------------------------------
(***************************************************************************)
(* The protobuf messages, as the generated code of each service declares   *)
(* them.  Every service links its own copies of the .proto files, and the  *)
(* copies of repertory.proto differ.                                       *)
(*                                                                         *)
(* A declaration maps the field numbers that travel on the wire to the     *)
(* names the code uses, both as paths into nested messages.  A message is  *)
(* a function on the names of its fields that are not zero.                *)
(***************************************************************************)
EXTENDS Integers, Sequences, Functions

\* Fields 1, 2, ... of a scalar type.
Scalars(names) ==
  [n \in {<<i>> : i \in DOMAIN names} |-> <<names[n[1]]>>]

\* Field n, a message or a list of messages declared by D.
Field(n, name, D) ==
  [p \in {<<n>> \o q : q \in DOMAIN D} |-> <<name>> \o D[Tail(p)]]

\* The declarations of D and of E, as @@ of module TLC, of which provers know nothing.
Joined(D, E) ==
  [x \in DOMAIN D \cup DOMAIN E |-> IF x \in DOMAIN D THEN D[x] ELSE E[x]]

-----------------------------------------------------------------------------
(* repertory.proto *)

GoodsRepertoryInfo == Scalars(<<"goodsId", "num">>)

\* Mutant: the copy of order_service has the new field in another place.
RenumberedRepertoryInfo == Scalars(<<"OrderId", "goodsId", "num">>)

\* In order_service.
OrderGoodsRepertoryInfo == Scalars(<<"goodsId", "num", "OrderId">>)

GoodsListRepertory(info) == Field(1, "data", info)

BaseResp == Scalars(<<"code", "msg">>)

RepertoryFile(info) ==
  [GoodsRepertoryInfo |-> info, GoodsListRepertory |-> GoodsListRepertory(info),
   BaseResp |-> BaseResp]

OrderRepertoryFile == RepertoryFile(OrderGoodsRepertoryInfo)

-----------------------------------------------------------------------------
(* goods.proto *)

GetGoodsByRoomReq == Scalars(<<"UserId", "RoomId">>)

GoodsInfo ==
  Scalars(<<"GoodsId", "CategoryId", "Status", "Title", "MarketPrice", "Price",
            "Brief", "HeadImgs">>)

GoodsListResp == Joined(Scalars(<<"CurrentGoodId">>), Field(2, "Data", GoodsInfo))

GetGoodsDetailReq == Scalars(<<"GoodsId", "UserId">>)

GoodsDetail ==
  Scalars(<<"GoodsId", "CategoryId", "Status", "Title", "Code", "BrandName",
            "MarketPrice", "Price", "Brief", "HeadImgs", "Video", "Detail">>)

GoodsFile ==
  [GetGoodsByRoomReq |-> GetGoodsByRoomReq, GoodsListResp |-> GoodsListResp,
   GoodsInfo |-> GoodsInfo, GetGoodsDetailReq |-> GetGoodsDetailReq,
   GoodsDetail |-> GoodsDetail]

\* The copy of order_service is the same.
OrderGoodsFile == GoodsFile

-----------------------------------------------------------------------------
(* order.proto *)

OrderReq ==
  Scalars(<<"goodsId", "num", "userId", "orderId", "tradeId", "address", "name", "phone">>)

OrderListReq == Scalars(<<"userId", "pageNum", "pageSize">>)

Timestamp == Scalars(<<"seconds", "nanos">>)

OrderInfo ==
  Joined(Scalars(<<"orderId", "userId", "status", "payChannel", "payAmount">>),
      Field(6, "payTime", Timestamp))

OrderListResp == Joined(Scalars(<<"total">>), Field(2, "data", OrderInfo))

OrderDetailReq == Scalars(<<"orderId", "userId">>)

OrderDetailInfo == Joined(Field(1, "orderInfo", OrderInfo), Field(2, "goodsInfo", GoodsInfo))

OrderStatus == Scalars(<<"orderId", "status">>)

OrderFile ==
  [OrderReq |-> OrderReq, OrderListReq |-> OrderListReq, OrderListResp |-> OrderListResp,
   OrderInfo |-> OrderInfo, OrderDetailReq |-> OrderDetailReq,
   OrderDetailInfo |-> OrderDetailInfo, OrderStatus |-> OrderStatus]

Empty == [Empty |-> <<>>]

-----------------------------------------------------------------------------
(* Marshalling *)

\* The bytes of message m under declaration D: values by number.
Marshal(m, D) ==
  [n \in {i \in DOMAIN D : D[i] \in DOMAIN m} |-> m[D[n]]]

\* A field whose number D does not know is left aside.
Unmarshal(bytes, D) ==
  [f \in {D[n] : n \in DOMAIN D \cap DOMAIN bytes} |->
     bytes[CHOOSE n \in DOMAIN D : D[n] = f]]
=============================================================================
