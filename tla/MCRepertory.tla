----------------------------- MODULE MCRepertory -----------------------------
(***************************************************************************)
(* Instances of Repertory for TLC.                                         *)
(***************************************************************************)
EXTENDS Repertory, TLC

\* Goods 1 is sold by calls; goods 2 and 4 only see rollbacks, 4 with nothing
\* in its lock column; 3 has no stock row and 0 is not a goods id.
MCGoods == 0..4
MCStocked == {1, 2, 4}
MCInitialNum == [g \in MCStocked |-> IF g = 1 THEN 4 ELSE 2]
MCInitialLock == [g \in MCStocked |-> IF g = 4 THEN 0 ELSE 2]

Req(g, n) == [goods |-> g, num |-> n]
Msg(o, g, n) == [order |-> o, goods |-> g, num |-> n]

\* Amounts that fit together, that leave nothing, that are not amounts, and
\* goods without a row.
ReduceRequests == {Req(1, 1), Req(1, 2), Req(1, 3), Req(1, 0), Req(3, 1), Req(0, 1)}
FewRequests == {Req(1, 1), Req(1, 2)}

\* An order deducted from goods 2, one never recorded, one for goods without
\* a stock row and one for goods whose lock column is 0.
MCMessages == {Msg(1, 2, 1), Msg(2, 1, 1), Msg(3, 3, 1), Msg(4, 4, 1)}
MCRecorded == MCMessages \ {Msg(2, 1, 1)}

\* A message for the goods that calls sell.
SharedMessages == {Msg(1, 1, 1)}

WorkerSymmetry == Permutations(Calls) \cup Permutations(Deliveries)
=============================================================================
