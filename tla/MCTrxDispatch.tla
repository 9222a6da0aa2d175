---------------------------- MODULE MCTrxDispatch ----------------------------
(***************************************************************************)
(* Small chains for TrxDispatch: a transfer that leaves a log, a           *)
(* deployment and a transfer back.                                         *)
(***************************************************************************)
EXTENDS TrxDispatch

CONSTANTS t1, t2, t3, alice, bob, token

MCAccount == {alice, bob, token}
MCTrx == {t1, t2, t3}
MCTwoTrx == {t1, t2}

MCChain == <<<<t1>>, <<t2>>, <<t3>>>>
MCTwoBlocks == <<<<t1>>, <<t2>>>>

MCFrom == [t \in Trx |-> IF t = t3 THEN bob ELSE alice]
MCTo == [t \in Trx |-> IF t = t1 THEN bob ELSE IF t = t3 THEN alice ELSE None]
MCCreated == [t \in Trx |-> IF t = t2 THEN token ELSE None]
MCLogs == [t \in Trx |-> IF t = t1 THEN 1 ELSE 0]

=============================================================================
