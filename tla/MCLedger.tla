------------------------------- MODULE MCLedger -------------------------------
(***************************************************************************)
(* Small ledgers: two delegations of one delegator, one request ID.        *)
(***************************************************************************)
EXTENDS Ledger, TLC

Symmetry == Permutations(Delegation) \union Permutations(ReqId)

(* A failure and a log out of turn or a restart meet over three logs. *)
BothWithThree == again + failures = 2 => Len(logs) <= 3

=============================================================================
