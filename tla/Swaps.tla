-------------------------------- MODULE Swaps --------------------------------
(***************************************************************************)
(* The actions of Uniswap pairs (svc/logs_uniswap.go, db/uniswap.go).  A   *)
(* pair logs Sync, its new reserves, and then the action itself: Swap,     *)
(* Mint or Burn.  There is one record per transaction and pair.  The Sync  *)
(* makes it, or sets the reserves if it is there; the action takes the     *)
(* place of a Sync record, which is deleted first.                         *)
(*                                                                         *)
(* One goroutine, the log dispatcher, works off the logs; between any two  *)
(* of its steps the server may stop.  Blocks come out of turn, also again  *)
(* (BlockPipeline), and their logs with them.  A log is named by its place *)
(* in the transaction, and stands for the amounts or reserves it carries.  *)
(***************************************************************************)
EXTENDS Integers, Sequences, FiniteSets

CONSTANTS
  Pair,         \* contracts that log like a pair
  Listed,       \* those of the approved factory, once it has created them
  None,         \* no record, or an answer not known
  MaxTrx,       \* bound: transactions
  MaxAgain,     \* bound: transactions delivered out of turn
  MaxFailures,  \* bound: calls that fail
  MaxCrashes    \* bound: stops of the server

ASSUME SwapsAssumption ==
  /\ Listed \subseteq Pair /\ None \notin BOOLEAN
  /\ MaxTrx \in Nat /\ MaxAgain \in Nat /\ MaxFailures \in Nat /\ MaxCrashes \in Nat

VARIABLES
  \* the chain
  created,     \* pairs of the factory
  trxs,        \* the logs of each transaction
  \* the database
  swap,        \* the record of a transaction and pair, or None
  \* the process
  next,        \* the next transaction of the scan
  trx,         \* the transaction in work
  todo,        \* its logs still to be handled
  step,        \* where the handler of the first of them is
  carried,     \* the reserves it took from a deleted Sync record
  pairsCache,  \* the cached list of pairs, or None
  known,       \* uniswapKnownPairs
  \* history and bounds
  hurt,        \* transactions whose last handling failed or was cut off
  rejected,    \* pairs whose logs were left out, as <<transaction, pair>>
  again, failures, crashes

nodeVars == <<created, trxs>>
workVars == <<next, trx, todo, step, carried>>
pairVars == <<pairsCache, known>>
boundVars == <<again, failures, crashes>>
vars == <<nodeVars, swap, workVars, pairVars, hurt, rejected, boundVars>>

Log == [pair : Pair, kind : {"sync", "action", "zero"}]
Key == (1 .. MaxTrx) \X Pair
Record == [type : {"sync", "action"}, act : Nat, res : Nat]

ASSUME NoneAssumption == None \notin Record

(* Every variable in its range. *)
TypeOK ==
  /\ created \subseteq Listed /\ trxs \in Seq(Seq(Log)) /\ Len(trxs) <= MaxTrx
  /\ swap \in [Key -> Record \union {None}]
  /\ next \in 1 .. Len(trxs) + 1 /\ trx \in 0 .. Len(trxs)
  /\ todo \in Seq(Nat) /\ step \in {"idle", "known", "find", "delete", "insert"}
  /\ todo = <<>> <=> step = "idle"
  /\ carried \in Nat
  /\ pairsCache \in (SUBSET created) \union {None} /\ known \in [Pair -> BOOLEAN \union {None}]
  /\ hurt \subseteq 1 .. MaxTrx /\ rejected \subseteq Key
  /\ again \in 0 .. MaxAgain /\ failures \in 0 .. MaxFailures /\ crashes \in 0 .. MaxCrashes

Init ==
  /\ created = {} /\ trxs = <<>>
  /\ swap = [k \in Key |-> None]
  /\ next = 1 /\ trx = 0 /\ todo = <<>> /\ step = "idle" /\ carried = 0
  /\ pairsCache = None /\ known = [p \in Pair |-> None]
  /\ hurt = {} /\ rejected = {} /\ again = 0 /\ failures = 0 /\ crashes = 0

-----------------------------------------------------------------------------
(* The chain.  A pair logs its reserves before each action; an action may  *)
(* be too small to be kept, and the reserves may be logged alone.          *)

Bodies(p) ==
  LET log(k) == [pair |-> p, kind |-> k]
  IN  { <<log("sync")>>, <<log("sync"), log("action")>>, <<log("sync"), log("zero")>>,
        <<log("sync"), log("action"), log("sync"), log("action")>>,
        <<log("sync"), log("zero"), log("sync"), log("action")>> }

CreatePair ==
  /\ \E p \in Listed \ created : created' = created \union {p}
  /\ UNCHANGED <<trxs, swap, workVars, pairVars, hurt, rejected, boundVars>>

NewTrx ==
  /\ Len(trxs) < MaxTrx
  /\ \E p \in created \union (Pair \ Listed) : \E body \in Bodies(p) : trxs' = Append(trxs, body)
  /\ UNCHANGED <<created, swap, workVars, pairVars, hurt, rejected, boundVars>>

-----------------------------------------------------------------------------
(* The log dispatcher takes a transaction up, in turn or out of turn.      *)

Idle == todo = <<>>
TakeUp(t) ==
  /\ trx' = t
  /\ todo' = [i \in 1 .. Len(trxs[t]) |-> i] /\ step' = "known" /\ carried' = 0
  /\ hurt' = hurt \ {t}
  /\ rejected' = {k \in rejected : k[1] # t}
  /\ UNCHANGED <<nodeVars, swap, pairVars, failures, crashes>>

Deliver ==
  /\ Idle /\ next <= Len(trxs)
  /\ next' = next + 1
  /\ TakeUp(next)
  /\ UNCHANGED again

DeliverOutOfTurn ==
  /\ Idle /\ again < MaxAgain
  /\ again' = again + 1
  /\ \E t \in DOMAIN trxs : TakeUp(t)
  /\ UNCHANGED next

Working(s) == ~Idle /\ step = s
Log1 == trxs[trx][Head(todo)]
At == <<trx, Log1.pair>>

(* The handler of this log ends. *)
Done ==
  /\ todo' = Tail(todo)
  /\ step' = IF Len(todo) = 1 THEN "idle" ELSE "known"
  /\ carried' = 0
  /\ UNCHANGED <<next, trx>>

GoTo(s) == step' = s /\ UNCHANGED <<next, trx, todo, carried>>

Fails ==
  /\ failures < MaxFailures /\ failures' = failures + 1
  /\ hurt' = hurt \union {trx}

-----------------------------------------------------------------------------
(* isKnownUniswapPair: the answer, once given, is kept.  The list of pairs *)
(* is that of the memory cache, or the node's.                             *)

ListAny == IF pairsCache # None THEN pairsCache ELSE created \union (Pair \ Listed)
List == IF pairsCache # None THEN pairsCache ELSE created

Judge(accepted) ==
  /\ IF accepted THEN GoTo("find") /\ UNCHANGED rejected
     ELSE Done /\ rejected' = rejected \union {At}

PairKnown ==
  /\ Working("known") /\ known[Log1.pair] # None
  /\ Judge(known[Log1.pair])
  /\ UNCHANGED <<nodeVars, swap, pairVars, hurt, boundVars>>

PairChecked ==
  /\ Working("known") /\ known[Log1.pair] = None
  /\ pairsCache' = IF List = {} THEN pairsCache ELSE List
  /\ known' = [known EXCEPT ![Log1.pair] = Log1.pair \in List]
  /\ Judge(Log1.pair \in List)
  /\ UNCHANGED <<nodeVars, swap, hurt, boundVars>>

PairCheckFails ==
  /\ Working("known") /\ known[Log1.pair] = None /\ pairsCache = None
  /\ Fails
  /\ Done
  /\ UNCHANGED <<nodeVars, swap, pairVars, rejected, again, crashes>>

-----------------------------------------------------------------------------
(* UniswapAdd. *)

TooSmall == Working("find") /\ Log1.kind = "zero"
Looks == Working("find") /\ Log1.kind # "zero"

SkipSmall ==
  /\ TooSmall
  /\ Done
  /\ UNCHANGED <<nodeVars, swap, pairVars, hurt, rejected, boundVars>>

NotFound ==
  /\ Looks /\ swap[At] = None
  /\ GoTo("insert")
  /\ UNCHANGED <<nodeVars, swap, pairVars, hurt, rejected, boundVars>>

FindFails ==
  /\ Looks
  /\ Fails
  /\ Done
  /\ UNCHANGED <<nodeVars, swap, pairVars, rejected, again, crashes>>

(* A Sync sets the reserves of the record that is there, whatever it is. *)
SetReservesOnce(r, i) == IF r.type = "action" THEN r ELSE [r EXCEPT !.res = i]
SetReserves(r, i) == [r EXCEPT !.res = i]

UpdateReserves ==
  /\ Looks /\ swap[At] # None /\ Log1.kind = "sync"
  /\ swap' = [swap EXCEPT ![At] = SetReserves(@, Head(todo))]
  /\ Done
  /\ UNCHANGED <<nodeVars, pairVars, hurt, rejected, boundVars>>

UpdateFails ==
  /\ Looks /\ swap[At] # None /\ Log1.kind = "sync"
  /\ Fails
  /\ Done
  /\ UNCHANGED <<nodeVars, swap, pairVars, rejected, again, crashes>>

(* An action takes the place of a Sync record, and nothing else. *)
ReplacesAny(r) == TRUE
Replaces(r) == r.type = "sync"

ActionKnown ==
  /\ Looks /\ swap[At] # None /\ Log1.kind = "action" /\ ~Replaces(swap[At])
  /\ Done
  /\ UNCHANGED <<nodeVars, swap, pairVars, hurt, rejected, boundVars>>

DeleteSync ==
  /\ Looks /\ swap[At] # None /\ Log1.kind = "action" /\ Replaces(swap[At])
  /\ swap' = [swap EXCEPT ![At] = None]
  /\ step' = "insert" /\ carried' = swap[At].res
  /\ UNCHANGED <<next, trx, todo, nodeVars, pairVars, hurt, rejected, boundVars>>

(* The failed delete is only logged; the insert will meet the record. *)
DeleteFails ==
  /\ Looks /\ swap[At] # None /\ Log1.kind = "action" /\ Replaces(swap[At])
  /\ Fails
  /\ step' = "insert" /\ carried' = swap[At].res
  /\ UNCHANGED <<next, trx, todo, nodeVars, swap, pairVars, rejected, again, crashes>>

Made ==
  IF Log1.kind = "sync" THEN [type |-> "sync", act |-> 0, res |-> Head(todo)]
  ELSE [type |-> "action", act |-> Head(todo), res |-> carried]

Insert ==
  /\ Working("insert") /\ swap[At] = None
  /\ swap' = [swap EXCEPT ![At] = Made]
  /\ Done
  /\ UNCHANGED <<nodeVars, pairVars, hurt, rejected, boundVars>>

InsertRefused ==
  /\ Working("insert") /\ swap[At] # None
  /\ Done
  /\ UNCHANGED <<nodeVars, swap, pairVars, hurt, rejected, boundVars>>

InsertFails ==
  /\ Working("insert") /\ swap[At] = None
  /\ Fails
  /\ Done
  /\ UNCHANGED <<nodeVars, swap, pairVars, rejected, again, crashes>>

-----------------------------------------------------------------------------
(* Readers of the API fill the cached list; it is evicted by age. *)

ReaderCachesPairs ==
  /\ pairsCache = None /\ created # {}
  /\ pairsCache' = created
  /\ UNCHANGED <<nodeVars, swap, workVars, known, hurt, rejected, boundVars>>

EvictPairs ==
  /\ pairsCache # None
  /\ pairsCache' = None
  /\ UNCHANGED <<nodeVars, swap, workVars, known, hurt, rejected, boundVars>>

(* The server stops and starts again, at the transaction that was in work  *)
(* or before it; one out of turn is not the last of the scan and need      *)
(* not come once more.                                                     *)
Crash ==
  /\ crashes < MaxCrashes /\ crashes' = crashes + 1
  /\ next' \in 1 .. (IF Idle THEN next ELSE IF trx = next - 1 THEN trx ELSE next)
  /\ trx' = 0 /\ todo' = <<>> /\ step' = "idle" /\ carried' = 0
  /\ pairsCache' = None /\ known' = [p \in Pair |-> None]
  /\ hurt' = IF Idle THEN hurt ELSE hurt \union {trx}
  /\ UNCHANGED <<nodeVars, swap, rejected, again, failures>>

Chain == CreatePair \/ NewTrx
Handler ==
  \/ Deliver \/ DeliverOutOfTurn \/ PairKnown \/ PairChecked \/ PairCheckFails
  \/ SkipSmall \/ NotFound \/ FindFails \/ UpdateReserves \/ UpdateFails
  \/ ActionKnown \/ DeleteSync \/ DeleteFails \/ Insert \/ InsertRefused \/ InsertFails

Next == Chain \/ Handler \/ ReaderCachesPairs \/ EvictPairs \/ Crash

Spec == Init /\ [][Next]_vars

-----------------------------------------------------------------------------
LogsOf(t, p, kind) == {i \in DOMAIN trxs[t] : trxs[t][i].pair = p /\ trxs[t][i].kind = kind}
Latest(S) == CHOOSE i \in S : \A j \in S : j <= i

(* When a transaction was worked off to its end the last time it came, its *)
(* record shows an action of the transaction, if it had one worth keeping, *)
(* with the reserves of the last Sync: also if it came before, in part or  *)
(* with failures, and the record was deleted and not inserted again.       *)
(* Which action of several it shows is not promised.  (db/uniswap.go:223,  *)
(* "in case the sync event was recorded first, update reserves into actual *)
(* swap and delete sync record")                                           *)
ActionsSettle ==
  \A t \in 1 .. next - 1 : \A p \in Pair :
    LET syncs == LogsOf(t, p, "sync")
        actions == LogsOf(t, p, "action")
        r == swap[<<t, p>>]
    IN  (Idle \/ trx # t) /\ t \notin hurt /\ <<t, p>> \notin rejected /\ syncs # {} =>
          /\ r # None /\ r.res = Latest(syncs)
          /\ IF actions = {} THEN r.type = "sync" ELSE r.type = "action" /\ r.act \in actions

(* An action that is recorded stays recorded: whatever comes again, fails  *)
(* or is cut off, only a Sync record is ever deleted.  (db/uniswap.go:236) *)
ActionKept ==
  [][\A k \in Key :
       swap[k] # None /\ swap[k].type = "action" =>
         swap'[k] # None /\ swap'[k].type = "action" /\ swap'[k].act = swap[k].act]_vars

(* No log of a pair of the approved factory is left out for another one's. *)
(* (logs_uniswap.go:21, "checks if the given (expected) uniswap pair       *)
(* address belongs to our approved Uniswap instance")                      *)
ApprovedPairs == \A k \in rejected : k[2] \notin created

=============================================================================
