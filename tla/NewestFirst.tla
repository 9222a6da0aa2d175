----------------------------- MODULE NewestFirst -----------------------------
(***************************************************************************)
(* What the ring buffer promises to the orchestrator and to the readers of *)
(* recent blocks and transactions: a list of the newest values, newest     *)
(* first, of at most Capacity, of which a reader takes a prefix.           *)
(***************************************************************************)
EXTENDS Integers, Sequences

CONSTANTS Value, Capacity

VARIABLES
  items,   \* the values kept, newest first
  taken    \* what the last reader got

vars == <<items, taken>>

Lesser(m, n) == IF m <= n THEN m ELSE n

Init == items = <<>> /\ taken = <<>>

(* The new value goes to the front; the oldest one falls out of a full list. *)
Add(v) ==
  /\ items' = [i \in 1 .. Lesser(Len(items) + 1, Capacity) |-> IF i = 1 THEN v ELSE items[i - 1]]
  /\ UNCHANGED taken

Reset == items' = <<>> /\ UNCHANGED taken

Take(n) ==
  /\ taken' = [i \in 1 .. Lesser(n, Len(items)) |-> items[i]]
  /\ UNCHANGED items

Next == (\E v \in Value : Add(v)) \/ Reset \/ \E n \in 0 .. Capacity : Take(n)

Spec == Init /\ [][Next]_vars

=============================================================================
