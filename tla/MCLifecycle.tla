------------------------------ MODULE MCLifecycle ------------------------------
(***************************************************************************)
(* Instances of Lifecycle for TLC.                                         *)
(***************************************************************************)
EXTENDS Lifecycle

CONSTANTS o1, o2, r, g

\* order_service may be moved; two processes may share an address or not.
MCServiceOf ==
  [a \in Addresses |-> CASE a \in {o1, o2} -> "order"
                         [] a = r -> "repertory"
                         [] OTHER -> "goods"]
=============================================================================
