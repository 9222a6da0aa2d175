--------------------------------- MODULE Ring ---------------------------------
(***************************************************************************)
(* The ring buffer of repository/cache/ring/ring.go: an array, the index   *)
(* of the newest value and the number of values kept.  The orchestrator    *)
(* caches blocks of new heads in one, the repository the recent blocks and *)
(* transactions in two others, written and read by many goroutines.  A     *)
(* lock makes each operation one step.  State and specification carry a    *)
(* prefix: a module that speaks of the orchestrator's cache extends both   *)
(* BlockPipeline and this one.                                             *)
(***************************************************************************)
EXTENDS Integers, Sequences

CONSTANTS
  Value,
  Nil,        \* an array element never written
  Capacity

ASSUME RingAssumption == Nil \notin Value /\ Capacity \in Nat /\ Capacity >= 2

VARIABLES
  nodes,      \* the array
  head,       \* index of the newest value
  depth,      \* how many values are kept
  taken       \* what the last reader got

ringVars == <<nodes, head, depth, taken>>

Index == 0 .. Capacity - 1

(* The index and the depth stay inside the array. *)
RingTypeOK ==
  /\ nodes \in [Index -> Value \union {Nil}]
  /\ head \in Index /\ depth \in 0 .. Capacity
  /\ taken \in Seq(Value)

RingInit ==
  /\ nodes = [i \in Index |-> Nil] /\ head = 0 /\ depth = 0
  /\ taken = <<>>

AdvanceNot(h) == h
Advance(h) == IF h + 1 = Capacity THEN 0 ELSE h + 1

DeeperAlways(d) == d + 1
Deeper(d) == IF d + 1 > Capacity THEN Capacity ELSE d + 1

Add(v) ==
  /\ head' = Advance(head)
  /\ depth' = Deeper(depth)
  /\ nodes' = [nodes EXCEPT ![head'] = v]
  /\ UNCHANGED taken

(* The values stay in the array, only the depth is reset. *)
Reset == depth' = 0 /\ UNCHANGED <<nodes, head, taken>>

(* Index of the value i places behind the newest one. *)
BehindShort(i) == IF head - i < 0 THEN head - i + Capacity - 1 ELSE head - i
Behind(i) == IF head - i < 0 THEN head - i + Capacity ELSE head - i

(* List stops at the first empty node of those it was asked for. *)
Limit(n) == IF n > depth THEN depth ELSE n
Holes(n) == {i \in 0 .. Limit(n) - 1 : nodes[Behind(i)] = Nil}
Loaded(n) ==
  IF Holes(n) = {} THEN Limit(n) ELSE CHOOSE i \in Holes(n) : \A j \in Holes(n) : i <= j

List(n) ==
  /\ taken' = [i \in 1 .. Loaded(n) |-> nodes[Behind(i - 1)]]
  /\ UNCHANGED <<nodes, head, depth>>

RingNext == (\E v \in Value : Add(v)) \/ Reset \/ \E n \in 0 .. Capacity : List(n)

RingSpec == RingInit /\ [][RingNext]_ringVars

-----------------------------------------------------------------------------
(* None of the depth values behind the head is an empty node, also after a *)
(* reset and over the seam of the array: a list is never cut short.        *)
(* (ring.go:86-90, "if there is no content in the node, return all we have *)
(* so far")                                                                *)
NoHole == \A i \in 0 .. depth - 1 : nodes[Behind(i)] # Nil

(* The ring is the list of the newest values, newest first. *)
Items == [i \in 1 .. depth |-> nodes[Behind(i - 1)]]

Abstract == INSTANCE NewestFirst WITH items <- Items

(* Every operation of the array does to the list what it should: the       *)
(* oldest value, and no other, is overwritten when the array wraps around, *)
(* and a reader gets the newest values in order.                           *)
ImplementsNewestFirst == Abstract!Spec

=============================================================================
