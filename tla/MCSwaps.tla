------------------------------- MODULE MCSwaps -------------------------------
(***************************************************************************)
(* Two transactions, a pair of the factory and one of another.             *)
(***************************************************************************)
EXTENDS Swaps

CONSTANTS own, foreign
MCPair == {own, foreign}
MCListed == {own}

(* Both pairs of the factory, created one after the other. *)
MCListedBoth == MCPair

=============================================================================
