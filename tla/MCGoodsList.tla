------------------------------ MODULE MCGoodsList ------------------------------
(***************************************************************************)
(* Instances of GoodsList for TLC.                                         *)
(***************************************************************************)
EXTENDS GoodsList

MCItems == 1..3

\* On both sides of what four bits hold, and a price with cents.
MCPrices == {250, 799, 800}
=============================================================================
