-------------------------------- MODULE MCRpc --------------------------------
(***************************************************************************)
(* Instances of Rpc for TLC: two calls, so that what ends one may hit the  *)
(* other.                                                                  *)
(***************************************************************************)
EXTENDS Rpc, TLC

Symmetry == Permutations(Calls)
=============================================================================
