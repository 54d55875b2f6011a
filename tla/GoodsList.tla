------------------------------ MODULE GoodsList ------------------------------
(***************************************************************************)
(* GetGoodsByRoom of goods_service: the page of goods a live room offers.  *)
(* It is put together from two queries, the room's rows ordered by weight  *)
(* and then the goods with these ids in that order, with no transaction    *)
(* around them.  The tables are written by other programs, also in         *)
(* between.                                                                *)
(*                                                                         *)
(* Neither query looks at is_del (the field of BaseModel is not exported)  *)
(* or at the goods' status, so neither is in the model.  GetGoodsDetail    *)
(* reads nothing and answers with an empty message.                        *)
(***************************************************************************)
EXTENDS Integers, SequencesExt

CONSTANTS
  Items,       \* the goods of platform_goods and of the room
  Weights,     \* of their rows in platform_room_goods
  Prices,      \* market prices, in cents
  Deletable,   \* goods that may be taken out of platform_goods
  BadCode,     \* goods whose code, a VARCHAR, is no number: Goods.Code is an int64
  Requests,    \* the calls
  BadRoom,     \* those with a room id <= 0
  IntHalf,     \* an int32 is in -IntHalf .. IntHalf - 1: 2^31
  MaxEdits     \* bound on the edits of the tables

ASSUME GoodsListAssumptions ==
  /\ Weights \subseteq Int
  /\ Prices \subseteq Nat
  /\ Deletable \subseteq Items /\ BadCode \subseteq Items
  /\ BadRoom \subseteq Requests
  /\ 0 \notin Items /\ IsFiniteSet(Items)
  /\ IntHalf \in Nat \ {0} /\ MaxEdits \in Nat

Rows == [goods : Items, weight : Weights, current : {0, 1}]

VARIABLES
  room,       \* the room's rows in platform_room_goods
  market,     \* platform_goods: the market price of each goods, -1 if it is gone
  edits,      \* edits so far
  pc,         \* where each call is
  goodsList,  \* the rows a call read
  current,    \* currGoodsId
  data        \* the goods on its page

vars == <<room, market, edits, pc, goodsList, current, data>>
calls == <<pc, goodsList, current, data>>

\* UNIQUE (room_id, goods_id).
RoomOf(S) == \A r, q \in S : r.goods = q.goods => r = q

Init ==
  /\ room \in {S \in SUBSET Rows : RoomOf(S)}
  /\ market \in [Items -> Prices]
  /\ edits = 0
  /\ pc = [r \in Requests |-> "called"]
  /\ goodsList = [r \in Requests |-> <<>>]
  /\ current = [r \in Requests |-> 0]
  /\ data = [r \in Requests |-> <<>>]

-----------------------------------------------------------------------------
(* The programs that write the tables *)

Edit == edits < MaxEdits /\ edits' = edits + 1

Without(g) == {row \in room : row.goods # g}

EditRoom ==
  /\ Edit
  /\ \/ \E row \in Rows : room' = Without(row.goods) \cup {row}
     \/ \E g \in Items : room' = Without(g)
  /\ UNCHANGED <<market, calls>>

EditGoods ==
  /\ Edit
  /\ \/ \E g \in Items, p \in Prices : market[g] # -1 /\ market' = [market EXCEPT ![g] = p]
     \/ \E g \in Deletable : market' = [market EXCEPT ![g] = -1]
  /\ UNCHANGED <<room, calls>>

-----------------------------------------------------------------------------
(* GetGoodsByRoom *)

Goto(r, l) == pc' = [pc EXCEPT ![r] = l]

Reject(r) ==
  /\ pc[r] = "called"
  /\ r \in BadRoom
  /\ Goto(r, "invalid")
  /\ UNCHANGED <<room, market, edits, goodsList, current, data>>

ByWeight(s) == \A i, j \in DOMAIN s : i < j => s[i].weight <= s[j].weight

\* Mutant: the first row is taken for the current one.
FirstRow(s, g) == g = IF s = <<>> THEN 0 ELSE s[1].goods

\* g is the goods of the last row that says so, 0 if none does.
IsCurrGoodsId(s, g) ==
  \/ g = 0 /\ \A i \in DOMAIN s : s[i].current = 0
  \/ \E i \in DOMAIN s :
       /\ s[i].goods = g /\ s[i].current = 1
       /\ \A j \in DOMAIN s : j > i => s[j].current = 0

\* Rows of equal weight come in any order.
QueryRoom(r) ==
  /\ pc[r] = "called"
  /\ r \notin BadRoom
  /\ \E s \in SetToSeqs(room), g \in Items \cup {0} :
       /\ ByWeight(s)
       /\ goodsList' = [goodsList EXCEPT ![r] = s]
       /\ IsCurrGoodsId(s, g)
       /\ current' = [current EXCEPT ![r] = g]
  /\ Goto(r, "listed")
  /\ UNCHANGED <<room, market, edits, data>>

\* Mutant: the amount is not narrowed.
NotNarrowed(n) == n

Yuan(p) == p \div 100

\* int32(n)
Narrow(n) == ((n + IntHalf) % (2 * IntHalf)) - IntHalf

\* The price column is not used: both amounts are the market price.
GoodsInfo(g) ==
  [goods |-> g, marketPrice |-> Narrow(Yuan(market[g])), price |-> Yuan(market[g])]

\* WHERE goods_id IN ids
Present(ids) == {g \in Range(ids) : market[g] # -1}

FieldOf(g, ids) == CHOOSE i \in DOMAIN ids : ids[i] = g

\* Mutant: the goods come in the order of the table.
AnyOrder(ids) == SetToSeqs(Present(ids))

\* ORDER BY FIELD(goods_id, ids)
InOrder(ids) ==
  {s \in SetToSeqs(Present(ids)) :
     \A i, j \in DOMAIN s : i < j => FieldOf(s[i], ids) < FieldOf(s[j], ids)}

QueryGoods(r) ==
  LET ids == [i \in DOMAIN goodsList[r] |-> goodsList[r][i].goods] IN
  /\ pc[r] = "listed"
  /\ \A g \in Range(ids) \cap BadCode : market[g] = -1
  /\ \E s \in InOrder(ids) :
       data' = [data EXCEPT ![r] = [i \in DOMAIN s |-> GoodsInfo(s[i])]]
  /\ Goto(r, "ok")
  /\ UNCHANGED <<room, market, edits, goodsList, current>>

\* A query fails, the second one also on a goods it cannot scan.
QueryFails(r) ==
  /\ pc[r] \in {"called", "listed"}
  /\ r \notin BadRoom
  /\ Goto(r, "internal")
  /\ UNCHANGED <<room, market, edits, goodsList, current, data>>

Finished ==
  /\ \A r \in Requests : pc[r] \in {"ok", "invalid", "internal"}
  /\ UNCHANGED vars

Next ==
  \/ EditRoom
  \/ EditGoods
  \/ \E r \in Requests : Reject(r) \/ QueryRoom(r) \/ QueryGoods(r) \/ QueryFails(r)
  \/ Finished

Spec == Init /\ [][Next]_vars
-----------------------------------------------------------------------------
(* Properties *)

Infos ==
  [goods : Items, marketPrice : -IntHalf .. IntHalf - 1, price : Nat]

\* Every variable keeps its type; a room has one row for a goods.
TypeOK ==
  /\ room \subseteq Rows /\ RoomOf(room)
  /\ market \in [Items -> Prices \cup {-1}]
  /\ edits \in 0..MaxEdits
  /\ pc \in [Requests -> {"called", "listed", "ok", "invalid", "internal"}]
  /\ \A r \in Requests :
       /\ goodsList[r] \in Seq(Rows)
       /\ current[r] \in Items \cup {0}
       /\ data[r] \in Seq(Infos)

Listed(r) == {row.goods : row \in Range(goodsList[r])}
OnPage(r) == {info.goods : info \in Range(data[r])}
WeightOf(r, g) == (CHOOSE row \in Range(goodsList[r]) : row.goods = g).weight

\* A page has each goods of the list it was made from once, in the order of the
\* list's weights, whatever is edited between the queries; only goods that were
\* taken out of platform_goods are missing.
PageMatchesList ==
  \A r \in Requests :
    pc[r] = "ok" =>
      /\ Listed(r) \ Deletable \subseteq OnPage(r) /\ OnPage(r) \subseteq Listed(r)
      /\ \A i, j \in DOMAIN data[r] :
           i < j => /\ data[r][i].goods # data[r][j].goods
                    /\ WeightOf(r, data[r][i].goods) <= WeightOf(r, data[r][j].goods)

\* The goods a page names as the current one is on it, unless it was taken out
\* of platform_goods; it names one if the list has one.
CurrentOnPage ==
  \A r \in Requests :
    pc[r] = "ok" =>
      /\ current[r] = 0 <=> \A row \in Range(goodsList[r]) : row.current = 0
      /\ current[r] \notin {0} \cup Deletable => current[r] \in OnPage(r)
=============================================================================
