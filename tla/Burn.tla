--------------------------------- MODULE Burn ---------------------------------
(***************************************************************************)
(* The burned part of the fees (svc/dispatch_burn.go, db/burn.go,          *)
(* repository/burn.go, cache/burn.go).  The burn dispatcher sums the fees  *)
(* of a block over its transactions, and stores the sum when a transaction *)
(* of another block comes.  A total in memory is counted up before each    *)
(* record is stored, and loaded anew from the database every Period        *)
(* blocks.                                                                 *)
(*                                                                         *)
(* A sum is given by the transactions in it; each burns one unit.          *)
(***************************************************************************)
EXTENDS Integers, Sequences, SequencesExt

CONSTANTS
  MaxBlock,     \* the chain ends here; block 0 has no transactions
  Trx,
  Body,         \* the transactions of each block
  None,         \* no record, no sum, no total
  Period,       \* burnedTotalReloadBlockPeriod, 1200
  MaxAgain,     \* bound: deliveries out of turn
  MaxFailures,  \* bound: calls that fail
  MaxCrashes    \* bound: stops of the server

Block == 1 .. MaxBlock

ASSUME BurnAssumption ==
  /\ MaxBlock \in Nat /\ Period \in Nat \ {0}
  /\ Body \in [Block -> Seq(Trx)]
  /\ \A b \in Block : IsInjective(Body[b])
  /\ None \notin Seq(Trx)
  /\ MaxAgain \in Nat /\ MaxFailures \in Nat /\ MaxCrashes \in Nat

VARIABLES
  burns,          \* the burns collection
  inTransaction,  \* the channel, a transaction with its block
  current,        \* the sum of the block in work, or None
  step,           \* whether the dispatcher has counted current and now stores it
  container,      \* burnContainer, the total in memory, or None
  \* history and bounds
  next,           \* the next block in turn
  last,           \* the block delivered last since the start, or 0
  highest,        \* the highest block delivered
  ordered,        \* blocks came in ascending order
  partial,        \* blocks delivered once without all of their transactions
  repeated,       \* blocks delivered twice in a row
  owed,           \* blocks delivered and not refused by the database, but for
                  \* those a restart did not reach back to
  awaited,        \* of these, the ones the scan brings again after a restart
  off,            \* a failure since the total was loaded
  again, failures, crashes

burnVars == <<current, step, inTransaction>>
seenVars == <<next, last, highest, ordered, partial, repeated>>
boundVars == <<again, failures, crashes>>
owedVars == <<owed, awaited>>
vars == <<burns, burnVars, container, seenVars, owedVars, off, boundVars>>

Sum == [block : Block, txs : Seq(Trx)]

ASSUME NoneAssumption == None \notin Sum

(* Every variable in its range, and the total never behind its reload. *)
TypeOK ==
  /\ burns \in [Block -> Seq(Trx) \union {None}]
  /\ inTransaction \in Seq(Block \X Trx)
  /\ current \in Sum \union {None} /\ step \in {"idle", "store"}
  /\ step = "store" => current # None /\ inTransaction # <<>>
  /\ container \in [block : 0 .. MaxBlock, value : Nat, nextLoad : Nat] \union {None}
  /\ container # None => container.nextLoad \in container.block + 1 .. container.block + Period
  /\ next \in 1 .. MaxBlock + 1 /\ last \in 0 .. MaxBlock /\ highest \in 0 .. MaxBlock
  /\ {ordered, off} \subseteq BOOLEAN
  /\ partial \subseteq Block /\ repeated \subseteq Block /\ owed \subseteq Block
  /\ awaited \subseteq owed
  /\ again \in 0 .. MaxAgain /\ failures \in 0 .. MaxFailures /\ crashes \in 0 .. MaxCrashes

Init ==
  /\ burns = [b \in Block |-> None]
  /\ inTransaction = <<>> /\ current = None /\ step = "idle"
  /\ container = None
  /\ next = 1 /\ last = 0 /\ highest = 0 /\ ordered = TRUE
  /\ partial = {} /\ repeated = {} /\ owed = {} /\ awaited = {} /\ off = FALSE
  /\ again = 0 /\ failures = 0 /\ crashes = 0

Fails == failures < MaxFailures /\ failures' = failures + 1

-----------------------------------------------------------------------------
(* The transactions of a block come one after another.  One that cannot be *)
(* loaded is left out.                                                     *)

Arrive(b, loaded) ==
  /\ inTransaction' = inTransaction \o [i \in 1 .. Len(loaded) |-> <<b, loaded[i]>>]
  /\ awaited' = awaited \ {b}
  /\ IF loaded = <<>>
     THEN /\ owed' = owed \ ({b} \intersect awaited)
          /\ UNCHANGED <<last, highest, ordered, repeated>>
     ELSE /\ last' = b
          /\ highest' = IF b > highest THEN b ELSE highest
          /\ ordered' = (ordered /\ b > highest)
          /\ repeated' = IF b = last THEN repeated \union {b} ELSE repeated
          /\ owed' = owed \union {b}

Loads(b) ==
  \/ Arrive(b, Body[b]) /\ UNCHANGED <<partial, failures>>
  \/ /\ Fails
     /\ \E i \in DOMAIN Body[b] : Arrive(b, RemoveAt(Body[b], i))
     /\ partial' = partial \union {b}

InTurn ==
  /\ next \in Block /\ next' = next + 1
  /\ Loads(next)
  /\ UNCHANGED <<burns, current, step, container, off, again, crashes>>

(* The cached heads, newest first, or a block scanned again. *)
OutOfTurn ==
  /\ again < MaxAgain /\ again' = again + 1
  /\ \E b \in Block : Loads(b)
  /\ UNCHANGED <<burns, current, step, container, next, off, crashes>>

-----------------------------------------------------------------------------
(* process *)

Evt == [block |-> Head(inTransaction)[1], txs |-> <<Head(inTransaction)[2]>>]
Arrived == step = "idle" /\ inTransaction # <<>>

First ==
  /\ Arrived /\ current = None
  /\ current' = Evt /\ inTransaction' = Tail(inTransaction)
  /\ UNCHANGED <<burns, step, container, seenVars, owedVars, off, boundVars>>

Later(a, b) == b > a
Other(a, b) == b # a

Joins ==
  /\ Arrived /\ current # None /\ ~Other(current.block, Evt.block)
  /\ current' = [current EXCEPT !.txs = @ \o Evt.txs]
  /\ inTransaction' = Tail(inTransaction)
  /\ UNCHANGED <<burns, step, container, seenVars, owedVars, off, boundVars>>

(* NecBurnUpdate.  The total of the database is a sum over its records; of *)
(* an empty collection there is none.                                      *)

Recorded == {b \in Block : burns[b] # None}
Amount == [b \in Block |-> IF burns[b] = None THEN 0 ELSE Len(burns[b])]

SumOver(a) ==
  LET upTo[b \in 0 .. MaxBlock] == IF b = 0 THEN 0 ELSE upTo[b - 1] + a[b]
  IN  upTo[MaxBlock]

Total == SumOver(Amount)

LoadedAfter(b) == [block |-> b, value |-> Total, nextLoad |-> b + Period]
Loaded(b) == [block |-> b - 1, value |-> Total, nextLoad |-> b + Period]

Counted(c) ==
  IF current.block <= c.block THEN c
  ELSE [c EXCEPT !.block = current.block, !.value = @ + Len(current.txs)]

Complete == Arrived /\ current # None /\ Other(current.block, Evt.block)
FreshLate == container # None /\ current.block <= container.nextLoad
Fresh == container # None /\ current.block < container.nextLoad

Count ==
  /\ Complete /\ Fresh
  /\ container' = Counted(container)
  /\ step' = "store"
  /\ UNCHANGED <<burns, current, inTransaction, seenVars, owedVars, off, boundVars>>

LoadAndCount ==
  /\ Complete /\ ~Fresh /\ Recorded # {}
  /\ container' = Counted(Loaded(current.block))
  /\ step' = "store" /\ off' = FALSE
  /\ UNCHANGED <<burns, current, inTransaction, seenVars, owedVars, boundVars>>

NothingToLoad ==
  /\ Complete /\ ~Fresh /\ Recorded = {}
  /\ step' = "store"
  /\ UNCHANGED <<burns, current, inTransaction, container, seenVars, owedVars, off, boundVars>>

LoadFails ==
  /\ Complete /\ ~Fresh
  /\ Fails
  /\ step' = "store" /\ off' = TRUE
  /\ UNCHANGED <<burns, current, inTransaction, container, seenVars, owedVars, again, crashes>>

(* StoreBurn.  The record found is decoded into the wrong variable: the    *)
(* update that follows is made of the new burn alone and addressed to      *)
(* block 0, which has no record, and changes nothing.                      *)

NextForgotten == current' = None /\ inTransaction' = Tail(inTransaction)
NextSum == current' = Evt /\ inTransaction' = Tail(inTransaction)

StoreBurn ==
  /\ step = "store"
  /\ burns' = [burns EXCEPT ![current.block] =
                 IF @ = None THEN current.txs ELSE @]
  /\ step' = "idle" /\ NextSum
  /\ UNCHANGED <<container, seenVars, owedVars, off, boundVars>>

StoreFails ==
  /\ step = "store"
  /\ Fails
  /\ step' = "idle" /\ NextSum
  /\ owed' = owed \ {current.block} /\ awaited' = awaited \ {current.block} /\ off' = TRUE
  /\ UNCHANGED <<burns, container, seenVars, again, crashes>>

-----------------------------------------------------------------------------
(* The server stops, and starts again somewhere behind the scan. *)
Crash ==
  /\ crashes < MaxCrashes /\ crashes' = crashes + 1
  /\ inTransaction' = <<>> /\ current' = None /\ step' = "idle" /\ container' = None
  /\ next' \in 1 .. next
  /\ owed' = {b \in owed : burns[b] # None \/ b >= next'}
  /\ awaited' = {b \in owed' : b >= next'}
  /\ last' = 0 /\ off' = FALSE
  /\ UNCHANGED <<burns, highest, ordered, partial, repeated, again, failures>>

Process ==
  \/ First \/ Joins \/ Count \/ LoadAndCount \/ NothingToLoad \/ LoadFails
  \/ StoreBurn \/ StoreFails

Next == InTurn \/ OutOfTurn \/ Process \/ Crash

Spec == Init /\ [][Next]_vars

-----------------------------------------------------------------------------
(* A record holds fees of its own block only, and each transaction of the  *)
(* block once, whatever order blocks come in: unless one could not be      *)
(* loaded, or the block came twice with no other transaction in between    *)
(* and was summed up twice.  (dispatch_burn.go:77-106)                     *)
RecordWhole ==
  \A b \in Recorded :
    /\ ToSet(burns[b]) \subseteq ToSet(Body[b])
    /\ b \notin partial \union repeated => burns[b] = Body[b]

(* When the channel is empty, every block that came has its record, unless *)
(* the database refused it: but for the one in work, which waits for a     *)
(* transaction of another block.  A stop loses what is in work and in the  *)
(* channel, and the blocks the scan then reaches back to have their record *)
(* after they came again.  (dispatch_burn.go:89-103, scan_blk.go:107-111)  *)
PassedRecorded ==
  inTransaction = <<>> =>
    \A b \in owed :
      burns[b] # None \/ (current # None /\ current.block = b) \/ b \in awaited

(* A sum of transactions that the record of their block lacks is added to  *)
(* it.  (db/burn.go:71, "decode existing burn and update", and 104, "add   *)
(* the new value to the existing one")                                     *)
Updates ==
  /\ step = "store" /\ step' = "idle" /\ UNCHANGED boundVars
  /\ burns[current.block] # None
  /\ ToSet(current.txs) \intersect ToSet(burns[current.block]) = {}
RecordCompleted ==
  [][Updates => ToSet(current.txs) \subseteq ToSet(burns'[current.block])]_vars

(* As long as blocks come in ascending order, the total in memory is that  *)
(* of the database after each record, reloads and restarts included, and   *)
(* after a failure from the next reload on.  (cache/burn.go:38-74)         *)
TotalFollows ==
  step = "idle" /\ container # None /\ ordered /\ ~off => container.value = Total

(* The total shown is that of the database, in whatever order blocks come. *)
(* (repository/burn.go:21, "NecBurnTotal provides the total amount of      *)
(* burned native NEC.")                                                    *)
TotalShown == step = "idle" /\ container # None /\ failures = 0 => container.value = Total

=============================================================================
