----------------------------- MODULE MCServices -----------------------------
(***************************************************************************)
(* A server of six services with channels of one place.  The log           *)
(* dispatcher ends like the account dispatcher, and the monitors like any  *)
(* service in its loop.                                                    *)
(***************************************************************************)
EXTENDS Services

MCPartList == <<"acd">>
MCMonitors == <<>>
MCCap == [c \in Channel |-> 1]

=============================================================================
