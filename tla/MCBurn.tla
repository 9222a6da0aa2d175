-------------------------------- MODULE MCBurn --------------------------------
(***************************************************************************)
(* A block of two transactions, one of none, and three of one.             *)
(***************************************************************************)
EXTENDS Burn

CONSTANTS t1, t2, t3, t4, t5
MCTrx == {t1, t2, t3, t4, t5}
MCBody == << <<t1, t2>>, <<>>, <<t3>>, <<t4>>, <<t5>> >>

=============================================================================
