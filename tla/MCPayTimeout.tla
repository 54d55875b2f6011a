----------------------------- MODULE MCPayTimeout -----------------------------
(***************************************************************************)
(* Instances of PayTimeout for TLC.                                        *)
(***************************************************************************)
EXTENDS PayTimeout

CONSTANTS o1, o2, i1, i2, i3

\* Two batches that share an order, and a third copy of its message.
MCBatches ==
  [i \in Invocations |->
     CASE i = i1 -> <<o1, Malformed, o2>>
       [] i = i2 -> <<o2, o1>>
       [] i = i3 -> <<o1>>]
=============================================================================
