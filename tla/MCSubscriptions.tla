---------------------------- MODULE MCSubscriptions ----------------------------
(***************************************************************************)
(* Two clients and channels of one place.                                  *)
(***************************************************************************)
EXTENDS Subscriptions

CONSTANTS c1, c2
MCClient == {c1, c2}

=============================================================================
