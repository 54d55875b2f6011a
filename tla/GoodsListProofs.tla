---------------------------- MODULE GoodsListProofs ----------------------------
(***************************************************************************)
(* Theorems about GoodsList: for any goods, weights, prices, calls and     *)
(* edits, a page matches the list it was made from.                        *)
(***************************************************************************)
EXTENDS GoodsList, FiniteSetTheorems, TLAPS

-----------------------------------------------------------------------------
(* The sequences of a finite set *)

LEMMA SeqsOfSet ==
  ASSUME NEW S, IsFiniteSet(S), NEW s \in SetToSeqs(S)
  PROVE  /\ s \in Seq(S)
         /\ \A i, j \in DOMAIN s : i # j => s[i] # s[j]
         /\ \A x \in S : \E i \in DOMAIN s : s[i] = x
<1> DEFINE n == Cardinality(S)
           D == 1..n
<1>1. n \in Nat
  BY FS_CardinalityType
<1>2. s \in [D -> S] /\ \A i, j \in D : i # j => s[i] # s[j]
  BY DEF SetToSeqs
<1>3. IsFiniteSet(D) /\ Cardinality(D) = n
  BY <1>1, FS_Interval
<1>4. s \in Injection(D, S)
  BY <1>2 DEF Injection, IsInjective
<1>5. s \in Surjection(D, S)
  BY <1>3, <1>4, FS_Injection
<1>6. \A x \in S : \E i \in D : s[i] = x
  BY <1>5 DEF Surjection
<1>7. QED
  BY <1>1, <1>2, <1>6

LEMMA RoomIsFinite ==
  ASSUME NEW S \in SUBSET Rows, RoomOf(S)
  PROVE  IsFiniteSet(S)
<1> DEFINE f == [row \in S |-> row.goods]
<1>1. f \in Injection(S, Items)
  BY DEF Injection, IsInjective, Rows, RoomOf
<1>2. QED
  BY <1>1, FS_Injection, GoodsListAssumptions

-----------------------------------------------------------------------------
(* int32 *)

LEMMA NarrowType ==
  ASSUME NEW n \in Nat
  PROVE  Narrow(n) \in -IntHalf .. IntHalf - 1
<1> DEFINE m == 2 * IntHalf
           k == n + IntHalf
<1>1. IntHalf \in Nat /\ IntHalf > 0 /\ m \in Nat /\ m > 0 /\ k \in Nat
  BY GoodsListAssumptions
<1>2. k % m \in 0 .. m - 1
  BY <1>1
<1>3. QED
  BY <1>1, <1>2 DEF Narrow

-----------------------------------------------------------------------------
(* A list and the page that is made from it *)

OneEach(s) == \A i, j \in DOMAIN s : s[i].goods = s[j].goods => i = j

WeightIn(s, g) == (CHOOSE row \in Range(s) : row.goods = g).weight

GoodsOf(s) == {row.goods : row \in Range(s)}

\* The page d is what PageMatchesList asks of a page made from the list s.
Matches(s, d) ==
  /\ GoodsOf(s) \ Deletable \subseteq GoodsOf(d) /\ GoodsOf(d) \subseteq GoodsOf(s)
  /\ \A i, j \in DOMAIN d :
       i < j => /\ d[i].goods # d[j].goods
                /\ WeightIn(s, d[i].goods) <= WeightIn(s, d[j].goods)

TablesInv ==
  /\ room \subseteq Rows /\ RoomOf(room)
  /\ market \in [Items -> Prices \cup {-1}]
  /\ \A g \in Items \ Deletable : market[g] # -1
  /\ edits \in 0..MaxEdits

LEMMA InfoType ==
  ASSUME TablesInv, NEW g \in Items, market[g] # -1
  PROVE  GoodsInfo(g) \in Infos /\ GoodsInfo(g).goods = g
<1>1. market[g] \in Nat
  BY GoodsListAssumptions DEF TablesInv
<1>2. Yuan(market[g]) \in Nat
  BY <1>1 DEF Yuan
<1>3. QED
  BY <1>2, NarrowType DEF GoodsInfo, Infos

\* Where a goods is in the list of the ids.
LEMMA FieldFinds ==
  ASSUME NEW ids, NEW g \in Range(ids)
  PROVE  FieldOf(g, ids) \in DOMAIN ids /\ ids[FieldOf(g, ids)] = g
<1>1. \E i \in DOMAIN ids : ids[i] = g
  BY DEF Range
<1>2. QED
  BY <1>1 DEF FieldOf

LEMMA WeightAt ==
  ASSUME NEW s, OneEach(s), NEW i \in DOMAIN s
  PROVE  WeightIn(s, s[i].goods) = s[i].weight
<1>1. s[i] \in Range(s)
  BY DEF Range
<1>2. \A row \in Range(s) : row.goods = s[i].goods => row = s[i]
  BY DEF Range, OneEach
<1>3. (CHOOSE row \in Range(s) : row.goods = s[i].goods) = s[i]
  BY <1>1, <1>2
<1>4. QED
  BY <1>3 DEF WeightIn

\* What the second query returns for a list of the first.
LEMMA PageOfList ==
  ASSUME TablesInv,
         NEW list \in Seq(Rows), OneEach(list), ByWeight(list),
         NEW ids, ids = [i \in DOMAIN list |-> list[i].goods],
         NEW s \in InOrder(ids),
         NEW d, d = [i \in DOMAIN s |-> GoodsInfo(s[i])]
  PROVE  d \in Seq(Infos) /\ Matches(list, d)
<1>1. DOMAIN ids = DOMAIN list /\ \A i \in DOMAIN list : ids[i] = list[i].goods /\ ids[i] \in Items
  <2>1. \A i \in DOMAIN list : list[i] \in Rows
    OBVIOUS
  <2>2. \A i \in DOMAIN list : list[i].goods \in Items
    BY <2>1 DEF Rows
  <2>3. QED
    BY <2>2
<1>2. Present(ids) \subseteq Items /\ IsFiniteSet(Present(ids))
  <2>1. Range(ids) \subseteq Items
    BY <1>1 DEF Range
  <2>2. QED
    BY <2>1, FS_Subset, GoodsListAssumptions DEF Present
<1>3. /\ s \in Seq(Present(ids))
      /\ \A i, j \in DOMAIN s : i # j => s[i] # s[j]
      /\ \A g \in Present(ids) : \E i \in DOMAIN s : s[i] = g
      /\ \A i, j \in DOMAIN s : i < j => FieldOf(s[i], ids) < FieldOf(s[j], ids)
  <2>1. s \in SetToSeqs(Present(ids))
    BY DEF InOrder
  <2>2. \A i, j \in DOMAIN s : i < j => FieldOf(s[i], ids) < FieldOf(s[j], ids)
    BY DEF InOrder
  <2> DEFINE P == Present(ids)
  <2>3. IsFiniteSet(P) /\ s \in SetToSeqs(P)
    BY <1>2, <2>1
  <2> HIDE DEF P
  <2>4. /\ s \in Seq(P) /\ \A i, j \in DOMAIN s : i # j => s[i] # s[j]
        /\ \A g \in P : \E i \in DOMAIN s : s[i] = g
    BY <2>3, SeqsOfSet
  <2>5. QED
    BY <2>2, <2>4 DEF P
<1>4. \A i \in DOMAIN s : s[i] \in Items /\ market[s[i]] # -1 /\ s[i] \in Range(ids)
  <2>1. \A i \in DOMAIN s : s[i] \in Present(ids)
    BY <1>3
  <2>2. QED
    BY <1>2, <2>1 DEF Present
<1>5. /\ DOMAIN d = DOMAIN s
      /\ \A i \in DOMAIN d : d[i] \in Infos /\ d[i].goods = s[i]
  BY <1>4, InfoType
<1>6. d \in Seq(Infos)
  <2>1. Len(s) \in Nat /\ DOMAIN s = 1..Len(s)
    BY <1>3
  <2>2. QED
    BY <1>5, <2>1
<1>7. GoodsOf(d) \subseteq GoodsOf(list)
  <2>1. \A i \in DOMAIN s : \E k \in DOMAIN list : list[k].goods = s[i]
    BY <1>1, <1>4 DEF Range
  <2>2. QED
    BY <1>5, <2>1 DEF GoodsOf, Range
<1>8. GoodsOf(list) \ Deletable \subseteq GoodsOf(d)
  <2>1. SUFFICES ASSUME NEW g \in GoodsOf(list) \ Deletable
                 PROVE  g \in GoodsOf(d)
    OBVIOUS
  <2>2. PICK k \in DOMAIN list : g = list[k].goods
    BY DEF GoodsOf, Range
  <2>3. g \in Present(ids)
    BY <1>1, <2>2 DEF Present, Range, TablesInv
  <2>4. PICK i \in DOMAIN s : s[i] = g
    BY <1>3, <2>3
  <2>5. QED
    BY <1>5, <2>4 DEF GoodsOf, Range
<1>9. ASSUME NEW i \in DOMAIN d, NEW j \in DOMAIN d, i < j
      PROVE  /\ d[i].goods # d[j].goods
             /\ WeightIn(list, d[i].goods) <= WeightIn(list, d[j].goods)
  <2> DEFINE a == FieldOf(s[i], ids)
             b == FieldOf(s[j], ids)
  <2>1. i \in Nat /\ j \in Nat /\ i # j
    BY <1>3, <1>5, <1>9
  <2>2. a \in DOMAIN list /\ b \in DOMAIN list /\ list[a].goods = s[i] /\ list[b].goods = s[j]
    BY <1>1, <1>4, <1>5, FieldFinds
  <2>3. a < b
    BY <1>3, <1>5, <1>9
  <2> HIDE DEF a, b
  <2>4. list[a].weight <= list[b].weight
    BY <2>2, <2>3 DEF ByWeight
  <2>5. WeightIn(list, s[i]) = list[a].weight /\ WeightIn(list, s[j]) = list[b].weight
    BY <2>2, WeightAt
  <2>6. QED
    BY <1>3, <1>5, <2>1, <2>4, <2>5
<1>10. QED
  BY <1>6, <1>7, <1>8, <1>9 DEF Matches

-----------------------------------------------------------------------------
(* The inductive invariant *)

PcType == [Requests -> {"called", "listed", "ok", "invalid", "internal"}]

CallsInv ==
  /\ pc \in PcType
  /\ goodsList = [r \in Requests |-> goodsList[r]]
  /\ current = [r \in Requests |-> current[r]]
  /\ data = [r \in Requests |-> data[r]]

\* The list a call has read: a goods has one row on it, and the rows are by weight.
ListInv(r) ==
  /\ goodsList[r] \in Seq(Rows) /\ OneEach(goodsList[r]) /\ ByWeight(goodsList[r])
  /\ current[r] \in Items \cup {0} /\ IsCurrGoodsId(goodsList[r], current[r])

PageInv(r) ==
  /\ data[r] \in Seq(Infos)
  /\ pc[r] = "ok" => Matches(goodsList[r], data[r])

CallInv(r) == ListInv(r) /\ PageInv(r)

IInv == TablesInv /\ CallsInv /\ \A r \in Requests : CallInv(r)

\* The goods a list names as the current one is on the page.
LEMMA CurrentIsListed ==
  ASSUME NEW r \in Requests, CallInv(r), pc[r] = "ok"
  PROVE  /\ current[r] = 0 <=> \A row \in Range(goodsList[r]) : row.current = 0
         /\ current[r] \notin {0} \cup Deletable => current[r] \in OnPage(r)
<1> DEFINE s == goodsList[r]
<1>1. \A i \in DOMAIN s : s[i] \in Rows /\ s[i] \in Range(s) /\ s[i].goods # 0
  <2>1. \A i \in DOMAIN s : s[i] \in Rows
    BY DEF CallInv, ListInv
  <2>2. QED
    BY <2>1, GoodsListAssumptions DEF Rows, Range
<1>2. IsCurrGoodsId(s, current[r])
  BY DEF CallInv, ListInv
<1>3. current[r] = 0 <=> \A row \in Range(s) : row.current = 0
  <2>1. CASE current[r] = 0 /\ \A i \in DOMAIN s : s[i].current = 0
    BY <2>1 DEF Range
  <2>2. CASE \E i \in DOMAIN s : s[i].goods = current[r] /\ s[i].current = 1
    BY <1>1, <2>2
  <2>3. QED
    BY <1>2, <2>1, <2>2 DEF IsCurrGoodsId
<1>4. ASSUME current[r] \notin {0} \cup Deletable
      PROVE  current[r] \in OnPage(r)
  <2>1. current[r] \in GoodsOf(s)
    BY <1>1, <1>2, <1>4 DEF IsCurrGoodsId, GoodsOf
  <2>2. GoodsOf(s) \ Deletable \subseteq GoodsOf(data[r])
    BY DEF CallInv, PageInv, Matches
  <2>3. QED
    BY <1>4, <2>1, <2>2 DEF OnPage, GoodsOf
<1>5. QED
  BY <1>3, <1>4

LEMMA IInvImplies == IInv => TypeOK /\ PageMatchesList /\ CurrentOnPage
<1> SUFFICES ASSUME IInv
             PROVE  TypeOK /\ PageMatchesList /\ CurrentOnPage
  OBVIOUS
<1>1. TypeOK
  BY DEF IInv, TablesInv, CallsInv, PcType, CallInv, ListInv, PageInv, TypeOK
<1>2. PageMatchesList
  <2>1. ASSUME NEW r \in Requests, pc[r] = "ok"
        PROVE  Matches(goodsList[r], data[r])
    BY <2>1 DEF IInv, CallInv, PageInv
  <2>2. QED
    BY <2>1 DEF PageMatchesList, Matches, GoodsOf, Listed, OnPage, WeightOf, WeightIn
<1>3. CurrentOnPage
  BY CurrentIsListed DEF IInv, CurrentOnPage
<1>4. QED
  BY <1>1, <1>2, <1>3

LEMMA NothingListed ==
  /\ <<>> \in Seq(Rows) /\ <<>> \in Seq(Infos)
  /\ OneEach(<<>>) /\ ByWeight(<<>>) /\ IsCurrGoodsId(<<>>, 0)
  BY DEF OneEach, ByWeight, IsCurrGoodsId

LEMMA IInvInit == Init => IInv
<1> SUFFICES ASSUME Init PROVE IInv
  OBVIOUS
<1>1. TablesInv
  <2>1. \A g \in Items : market[g] \in Nat
    BY GoodsListAssumptions DEF Init
  <2>2. \A g \in Items : market[g] # -1
    BY <2>1
  <2>3. QED
    BY <2>2, GoodsListAssumptions DEF Init, TablesInv
<1>2. CallsInv
  BY DEF Init, CallsInv, PcType
<1>3. ASSUME NEW r \in Requests
      PROVE  CallInv(r)
  BY NothingListed DEF Init, CallInv, ListInv, PageInv
<1>4. QED
  BY <1>1, <1>2, <1>3 DEF IInv

\* An edit of the tables is no business of the calls.
LEMMA EditKeeps ==
  ASSUME IInv, EditRoom \/ EditGoods
  PROVE  IInv'
<1>1. TablesInv'
  <2>1. CASE EditRoom
    <3>1. /\ room' \subseteq Rows /\ market' = market /\ edits' \in 0..MaxEdits
      BY <2>1, GoodsListAssumptions DEF EditRoom, Edit, Without, IInv, TablesInv
    <3>2. RoomOf(room)'
      BY <2>1 DEF EditRoom, Without, IInv, TablesInv, RoomOf
    <3>3. QED
      BY <3>1, <3>2 DEF IInv, TablesInv
  <2>2. CASE EditGoods
    <3>1. room' = room /\ edits' \in 0..MaxEdits
      BY <2>2, GoodsListAssumptions DEF EditGoods, Edit, IInv, TablesInv
    <3>2. CASE \E g \in Items, p \in Prices : market' = [market EXCEPT ![g] = p]
      <4>1. PICK g \in Items, p \in Prices : market' = [market EXCEPT ![g] = p]
        BY <3>2
      <4>2. p # -1
        BY GoodsListAssumptions
      <4>3. QED
        BY <3>1, <4>1, <4>2 DEF IInv, TablesInv, RoomOf
    <3>3. CASE \E g \in Deletable : market' = [market EXCEPT ![g] = -1]
      BY <3>1, <3>3, GoodsListAssumptions DEF IInv, TablesInv, RoomOf
    <3>4. QED
      BY <2>2, <3>2, <3>3 DEF EditGoods
  <2>3. QED
    BY <2>1, <2>2
<1>2. pc' = pc /\ goodsList' = goodsList /\ current' = current /\ data' = data
  BY DEF EditRoom, EditGoods, calls
<1>3. QED
  BY <1>1, <1>2 DEF IInv, CallsInv, CallInv, ListInv, PageInv

Step(r) == Reject(r) \/ QueryRoom(r) \/ QueryGoods(r) \/ QueryFails(r)

LEMMA StepKeeps ==
  ASSUME IInv, NEW r \in Requests, Step(r)
  PROVE  TablesInv' /\ CallsInv' /\ CallInv(r)'
<1>1. TablesInv /\ CallsInv /\ CallInv(r)
  BY DEF IInv
<1>2. TablesInv'
  BY <1>1 DEF Step, Reject, QueryRoom, QueryGoods, QueryFails, TablesInv, RoomOf
<1>3. CallsInv'
  BY <1>1 DEF Step, Reject, QueryRoom, QueryGoods, QueryFails, Goto, CallsInv, PcType
<1>4. CASE Reject(r) \/ QueryFails(r)
  <2>1. /\ pc'[r] # "ok" /\ goodsList' = goodsList /\ current' = current /\ data' = data
    BY <1>1, <1>4 DEF Reject, QueryFails, Goto, CallsInv, PcType
  <2>2. QED
    BY <1>1, <1>2, <1>3, <2>1 DEF CallInv, ListInv, PageInv
<1>5. CASE QueryRoom(r)
  <2>1. PICK s \in SetToSeqs(room), g \in Items \cup {0} :
          /\ ByWeight(s) /\ IsCurrGoodsId(s, g)
          /\ goodsList' = [goodsList EXCEPT ![r] = s] /\ current' = [current EXCEPT ![r] = g]
    BY <1>5 DEF QueryRoom
  <2>2. goodsList'[r] = s /\ current'[r] = g /\ data' = data /\ pc'[r] = "listed"
    BY <1>1, <1>5, <2>1 DEF QueryRoom, Goto, CallsInv, PcType
  <2>3. IsFiniteSet(room)
    BY <1>1, RoomIsFinite DEF TablesInv
  <2>4. s \in Seq(room) /\ \A i, j \in DOMAIN s : i # j => s[i] # s[j]
    BY <2>3, SeqsOfSet
  <2>5. s \in Seq(Rows)
    BY <1>1, <2>4 DEF TablesInv
  <2>6. OneEach(s)
    <3>1. \A i \in DOMAIN s : s[i] \in room
      BY <2>4
    <3>2. QED
      BY <1>1, <2>4, <3>1 DEF OneEach, TablesInv, RoomOf
  <2>7. QED
    BY <1>1, <1>2, <1>3, <2>1, <2>2, <2>5, <2>6 DEF CallInv, ListInv, PageInv
<1>6. CASE QueryGoods(r)
  <2> DEFINE ids == [i \in DOMAIN goodsList[r] |-> goodsList[r][i].goods]
  <2>1. PICK s \in InOrder(ids) :
          data' = [data EXCEPT ![r] = [i \in DOMAIN s |-> GoodsInfo(s[i])]]
    BY <1>6 DEF QueryGoods
  <2> DEFINE d == [i \in DOMAIN s |-> GoodsInfo(s[i])]
  <2>2. goodsList' = goodsList /\ current' = current /\ data'[r] = d
    BY <1>1, <1>6, <2>1 DEF QueryGoods, CallsInv
  <2>3. d \in Seq(Infos) /\ Matches(goodsList[r], d)
    BY <1>1, PageOfList DEF CallInv, ListInv
  <2> HIDE DEF d
  <2>4. QED
    BY <1>1, <1>2, <1>3, <2>2, <2>3 DEF CallInv, ListInv, PageInv
<1>7. QED
  BY <1>2, <1>3, <1>4, <1>5, <1>6 DEF Step

LEMMA OthersKeep ==
  ASSUME IInv, NEW r \in Requests, Step(r), NEW q \in Requests, q # r
  PROVE  CallInv(q)'
<1>1. CallInv(q) /\ CallsInv
  BY DEF IInv
<1>2. /\ pc'[q] = pc[q] /\ goodsList'[q] = goodsList[q] /\ current'[q] = current[q]
      /\ data'[q] = data[q]
  BY <1>1 DEF Step, Reject, QueryRoom, QueryGoods, QueryFails, Goto, CallsInv, PcType
<1>3. QED
  BY <1>1, <1>2 DEF CallInv, ListInv, PageInv

LEMMA IInvStep == IInv /\ [Next]_vars => IInv'
<1> SUFFICES ASSUME IInv, [Next]_vars PROVE IInv'
  OBVIOUS
<1>1. CASE EditRoom \/ EditGoods
  BY <1>1, EditKeeps
<1>2. ASSUME NEW r \in Requests, Step(r)
      PROVE  IInv'
  BY <1>2, StepKeeps, OthersKeep DEF IInv
<1>3. CASE UNCHANGED vars
  BY <1>3 DEF vars, IInv, TablesInv, RoomOf, CallsInv, CallInv, ListInv, PageInv
<1>4. QED
  BY <1>1, <1>2, <1>3 DEF Next, Step, Finished

LEMMA Invariant == Spec => []IInv
  BY IInvInit, IInvStep, PTL DEF Spec

-----------------------------------------------------------------------------

\* Every variable of GoodsList keeps its type; an amount on a page fits an int32.
THEOREM TypeCorrect == Spec => []TypeOK
  BY Invariant, IInvImplies, PTL

\* A page has each goods of its list once and by weight, whatever is edited
\* between the two queries, for any rooms, weights and edits.
THEOREM PagesMatch == Spec => []PageMatchesList
  BY Invariant, IInvImplies, PTL

\* The current goods of the list is on the page unless it was taken out.
THEOREM CurrentIsOnPage == Spec => []CurrentOnPage
  BY Invariant, IInvImplies, PTL

=============================================================================
