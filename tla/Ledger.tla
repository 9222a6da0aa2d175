-------------------------------- MODULE Ledger --------------------------------
(***************************************************************************)
(* The staking ledger the log dispatcher keeps of the SFC contract:        *)
(* delegations (svc/logs_sfc_delegation.go, svc/logs_sfc_stake.go),        *)
(* withdraw requests and reward claims (svc/logs_sfc_reward.go) in the     *)
(* database, and the delegations in the memory cache, which the GraphQL    *)
(* readers fill too.                                                       *)
(*                                                                         *)
(* The handlers run one after the other and work off a log in steps.  An   *)
(* amount is not taken from the log but asked of the node, which answers   *)
(* for its newest block and not for the block of the log.  Logs come out   *)
(* of turn when the cache is unloaded, and again when the scan steps back  *)
(* (BlockPipeline, TrxDispatch).                                           *)
(* Every amount is a number of units; the 9 digit value kept for sorting   *)
(* is left out.  The events of the stake of a validator are those of its   *)
(* delegation to itself, as in the code.                                   *)
(***************************************************************************)
EXTENDS Integers, Sequences, SequencesExt, FiniteSets

CONSTANTS
  Delegation,   \* pairs of a delegator and a validator
  ReqId,        \* withdraw request IDs a delegator may use, again after closing
  None,
  MaxLogs,      \* bound: logs of the contract
  MaxBatch,     \* bound: logs that share the transaction of the log before
  MaxAgain,     \* bound: logs handled out of turn, and restarts
  MaxFailures   \* bound: calls of the node or the database that fail

ASSUME LedgerAssumption ==
  /\ None \notin Delegation \union ReqId
  /\ ReqId \cap Nat = {}
  /\ MaxLogs \in Nat /\ MaxBatch \in Nat /\ MaxAgain \in Nat /\ MaxFailures \in Nat

VARIABLES
  \* the contract
  stake,      \* amount staked
  open,       \* transaction of the open request of each ID, 0 = none
  logs,       \* the logs it left so far
  \* the database
  dlg,        \* the delegation's record, or None
  wreq,       \* withdraw requests by primary key, the transaction that stored them
  claims,     \* reward claims by primary key, the claiming transaction
  \* the process
  cache,      \* the delegation in memory, or None
  pos,        \* next log to handle
  cur,        \* the log being handled
  todo,       \* the steps left of it
  amount,     \* the stake the node gave for the current step, or None
  reader,     \* a reader's copy of a delegation record on its way to the cache
  \* history and bounds
  stale,      \* delegations whose last balance update failed, or whose last log a
              \* restart passed over
  batched, again, failures

nodeVars == <<stake, open, logs>>
dbVars   == <<dlg, wreq, claims>>
workVars == <<pos, cur, todo, amount>>
vars == <<nodeVars, dbVars, cache, workVars, reader, stale, batched, again, failures>>

Trx == 1 .. MaxLogs

Record == [act : Nat, amo : Nat]

(* A closed request moved out of the way has a transaction number for ID.  *)
Request == [dlg : Delegation, req : ReqId \union Trx, trx : Trx, fin : {0} \union Trx]

Log == [kind : {"delegated", "increased", "undelegated", "withdrawn", "claimed", "moved"},
        dlg : Delegation, to : Delegation \union {None}, req : ReqId \union {None}, trx : Trx]

Step == [op : {"open", "close", "claim", "balance", "store"}, dlg : Delegation]

ASSUME NoneAssumption == None \notin Nat \union Record \union Request \union Log

(* Every variable in its range, one primary key per record. *)
TypeOK ==
  /\ stake \in [Delegation -> Nat] /\ open \in [Delegation \X ReqId -> {0} \union Trx]
  /\ logs \in Seq(Log) /\ Len(logs) <= MaxLogs
  /\ dlg \in [Delegation -> Record \union {None}]
  /\ wreq \in [Trx -> Request \union {None}]
  /\ claims \in [Trx -> Delegation \union {None}]
  /\ cache \in [Delegation -> Record \union {None}]
  /\ pos \in 1 .. MaxLogs + 1 /\ cur \in Log \union {None} /\ todo \in Seq(Step)
  /\ amount \in Nat \union {None}
  /\ reader = None \/ reader \in [dlg : Delegation, rec : Record]
  /\ stale \subseteq Delegation
  /\ batched \in 0 .. MaxBatch /\ again \in 0 .. MaxAgain /\ failures \in 0 .. MaxFailures
  /\ todo # <<>> => cur # None

Init ==
  /\ stake = [d \in Delegation |-> 0]
  /\ open = [p \in Delegation \X ReqId |-> 0]
  /\ logs = <<>>
  /\ dlg = [d \in Delegation |-> None]
  /\ wreq = [t \in Trx |-> None] /\ claims = [t \in Trx |-> None]
  /\ cache = [d \in Delegation |-> None]
  /\ pos = 1 /\ cur = None /\ todo = <<>> /\ amount = None /\ reader = None
  /\ stale = {} /\ batched = 0 /\ again = 0 /\ failures = 0

-----------------------------------------------------------------------------
(* The contract: every change of a stake or a request leaves a log, in a   *)
(* transaction of its own or in that of the log before.  A delegation is   *)
(* of two units, every other change of one.                                *)

Bond == 2

LastTrx == IF logs = <<>> THEN 0 ELSE Last(logs).trx

Emit(kind, d, to, r, t) ==
  /\ Len(logs) < MaxLogs
  /\ \/ t = LastTrx + 1 /\ UNCHANGED batched
     \/ t = LastTrx /\ t # 0 /\ batched < MaxBatch /\ batched' = batched + 1
  /\ logs' = Append(logs, [kind |-> kind, dlg |-> d, to |-> to, req |-> r, trx |-> t])
  /\ UNCHANGED <<dbVars, cache, workVars, reader, stale, again, failures>>

Delegate(d, t) ==
  /\ stake' = [stake EXCEPT ![d] = @ + Bond]
  /\ Emit("delegated", d, None, None, t)
  /\ UNCHANGED open

Increase(d, t) ==
  /\ stake[d] > 0
  /\ stake' = [stake EXCEPT ![d] = @ + 1]
  /\ Emit("increased", d, None, None, t)
  /\ UNCHANGED open

Undelegate(d, r, t) ==
  /\ stake[d] > 0 /\ open[<<d, r>>] = 0
  /\ stake' = [stake EXCEPT ![d] = @ - 1]
  /\ open' = [open EXCEPT ![<<d, r>>] = t]
  /\ Emit("undelegated", d, None, r, t)

Withdraw(d, r, t) ==
  /\ open[<<d, r>>] # 0
  /\ open' = [open EXCEPT ![<<d, r>>] = 0]
  /\ Emit("withdrawn", d, None, r, t)
  /\ UNCHANGED stake

Claim(d, t) ==
  /\ stake[d] > 0
  /\ Emit("claimed", d, None, None, t)
  /\ UNCHANGED <<stake, open>>

Move(d, e, t) ==
  /\ d # e /\ stake[d] > 0
  /\ stake' = [stake EXCEPT ![d] = @ - 1, ![e] = @ + 1]
  /\ Emit("moved", d, e, None, t)
  /\ UNCHANGED open

Contract ==
  \E d \in Delegation, t \in Trx :
    \/ Delegate(d, t) \/ Increase(d, t) \/ Claim(d, t)
    \/ \E r \in ReqId : Undelegate(d, r, t) \/ Withdraw(d, r, t)
    \/ \E e \in Delegation : Move(d, e, t)

-----------------------------------------------------------------------------
(* The log handlers. *)

Do(op, d) == [op |-> op, dlg |-> d]

(* The calls of each handler, in their order.  Those of the stake events   *)
(* are the same, with the validator's own address for the delegator.       *)
NewDelegation(d) == <<Do("store", d)>>
IncreasedDelegation(d) == <<Do("balance", d)>>
NewWithdrawRequest(d) == <<Do("open", d), Do("balance", d)>>
FinishedWithdrawRequest(d) == <<Do("close", d), Do("balance", d)>>
RewardClaim(d) == <<Do("claim", d), Do("balance", d)>>
UpdatedDelegation(d, e) == <<Do("balance", d)>> \o NewDelegation(e)

KnownTopics(l) ==
  CASE l.kind = "delegated"   -> NewDelegation(l.dlg)
    [] l.kind = "increased"   -> IncreasedDelegation(l.dlg)
    [] l.kind = "undelegated" -> NewWithdrawRequest(l.dlg)
    [] l.kind = "withdrawn"   -> FinishedWithdrawRequest(l.dlg)
    [] l.kind = "claimed"     -> RewardClaim(l.dlg)
    [] l.kind = "moved"       -> UpdatedDelegation(l.dlg, l.to)

Idle == todo = <<>>

HandleLog ==
  /\ Idle /\ pos <= Len(logs)
  /\ cur' = logs[pos] /\ todo' = KnownTopics(cur') /\ amount' = None
  /\ pos' = pos + 1
  /\ UNCHANGED <<nodeVars, dbVars, cache, reader, stale, batched, again, failures>>

(* A cached head, newest first, or a block scanned again brings a log. *)
HandleOutOfTurn ==
  /\ Idle /\ again < MaxAgain
  /\ \E i \in DOMAIN logs : cur' = logs[i]
  /\ todo' = KnownTopics(cur') /\ amount' = None
  /\ again' = again + 1
  /\ UNCHANGED <<nodeVars, dbVars, cache, pos, reader, stale, batched, failures>>

Touched(from, to) ==
  {d \in Delegation : \E i \in from .. to : logs[i].dlg = d \/ logs[i].to = d}

(* A restart empties the cache and takes up the scan at an earlier block,  *)
(* or behind the log it interrupts: a later transaction without logs may   *)
(* have been noted as the last one (TrxDispatch, RestartCovers).           *)
Restart ==
  /\ again < MaxAgain
  /\ pos' \in 1 .. Len(logs) + 1
  /\ stale' = stale \union Touched(IF Idle THEN pos ELSE pos - 1, pos' - 1)
  /\ cur' = None /\ todo' = <<>> /\ amount' = None /\ reader' = None
  /\ cache' = [d \in Delegation |-> None]
  /\ again' = again + 1
  /\ UNCHANGED <<nodeVars, dbVars, batched, failures>>

At(op) == ~Idle /\ Head(todo).op = op

GoToForgetting(steps) ==
  /\ todo' = steps /\ cur' = None /\ amount' = None /\ UNCHANGED pos

GoTo(steps) ==
  /\ todo' = steps /\ cur' = (IF steps = <<>> THEN None ELSE cur)
  /\ amount' = None /\ UNCHANGED pos

NextStep == GoTo(Tail(todo))

-----------------------------------------------------------------------------
(* Withdraw requests.  Delegation and request ID are unique together, and  *)
(* the primary key is the transaction that made the request.               *)

Known(w, d, r) == \E t \in Trx : w[t] # None /\ w[t].dlg = d /\ w[t].req = r
KeyOf(w, d, r) == CHOOSE t \in Trx : w[t] # None /\ w[t].dlg = d /\ w[t].req = r

(* An insert the primary key refuses is only logged. *)
InsertOver(w, d, r, t) == [w EXCEPT ![t] = [dlg |-> d, req |-> r, trx |-> t, fin |-> 0]]
Insert(w, d, r, t) == IF w[t] = None THEN InsertOver(w, d, r, t) ELSE w

(* A closed request gets an ID made of the new request's transaction; one  *)
(* that holds this ID already makes the update fail, and the new request   *)
(* with it.                                                                *)
ShiftNothing(w, d, r, t) == w
Shift(w, d, r, t) ==
  IF Known(w, d, t) THEN w
  ELSE Insert([w EXCEPT ![KeyOf(w, d, r)].req = t], d, r, t)

AddWithdrawal(w, d, r, t) ==
  IF ~Known(w, d, r) THEN Insert(w, d, r, t)
  ELSE IF w[KeyOf(w, d, r)].fin # 0 THEN Shift(w, d, r, t)
  ELSE [w EXCEPT ![KeyOf(w, d, r)].trx = t]   \* the open request's details are set again

(* A request that is read has its primary key for its transaction, and is  *)
(* written back with it.                                                   *)
CloseWithdrawal(w, d, r, t) ==
  IF Known(w, d, r) THEN [w EXCEPT ![KeyOf(w, d, r)].fin = t, ![KeyOf(w, d, r)].trx = KeyOf(w, d, r)]
  ELSE w

OpenRequest ==
  /\ At("open")
  /\ wreq' = AddWithdrawal(wreq, cur.dlg, cur.req, cur.trx)
  /\ NextStep
  /\ UNCHANGED <<nodeVars, dlg, claims, cache, reader, stale, batched, again, failures>>

CloseRequest ==
  /\ At("close")
  /\ wreq' = CloseWithdrawal(wreq, cur.dlg, cur.req, cur.trx)
  /\ NextStep
  /\ UNCHANGED <<nodeVars, dlg, claims, cache, reader, stale, batched, again, failures>>

(* A claim of a known transaction is taken for the same claim. *)
StoreClaim ==
  /\ At("claim")
  /\ claims' = IF claims[cur.trx] = None THEN [claims EXCEPT ![cur.trx] = cur.dlg] ELSE claims
  /\ NextStep
  /\ UNCHANGED <<nodeVars, dlg, wreq, cache, reader, stale, batched, again, failures>>

-----------------------------------------------------------------------------
(* Delegations: ask the node for the stake, then write it. *)

ReadStake ==
  /\ At("balance") \/ At("store")
  /\ amount = None
  /\ amount' = stake[Head(todo).dlg]
  /\ UNCHANGED <<nodeVars, dbVars, cache, pos, cur, todo, reader, stale, batched, again, failures>>

AddDelegationAnew(d, act, amo) == dlg' = [dlg EXCEPT ![d] = [act |-> act, amo |-> amo]]

(* AddDelegation: what a record says of the amount first staked stays. *)
AddDelegation(d, act, amo) ==
  dlg' = [dlg EXCEPT ![d] = [act |-> act, amo |-> IF @ = None THEN amo ELSE @.amo]]

(* handleNewDelegation, with the amount of the event for the amount first  *)
(* staked; a move is of one unit.                                          *)
EventAmount == IF cur.kind = "moved" THEN 1 ELSE Bond

StoreDelegation ==
  /\ At("store") /\ amount # None
  /\ LET d == Head(todo).dlg
     IN  AddDelegation(d, amount, EventAmount) /\ stale' = stale \ {d}
  /\ NextStep
  /\ UNCHANGED <<nodeVars, wreq, claims, cache, reader, batched, again, failures>>

(* Delegation: the cached record goes before the one of the database. *)
Loaded(d) == IF cache[d] # None THEN cache[d] ELSE dlg[d]

SkipsSmaller(rec, amo) == rec.amo >= amo
SkipsUpdate(rec, amo) == rec.amo = amo

(* UpdateDelegationBalance: the three outcomes. *)
AdHocDelegation ==
  /\ At("balance") /\ amount # None
  /\ LET d == Head(todo).dlg
     IN  /\ Loaded(d) = None
         /\ AddDelegation(d, amount, amount) /\ stale' = stale \ {d}
  /\ NextStep
  /\ UNCHANGED <<nodeVars, wreq, claims, cache, reader, batched, again, failures>>

BalanceSkipped ==
  /\ At("balance") /\ amount # None
  /\ LET d == Head(todo).dlg
     IN  /\ Loaded(d) # None /\ SkipsUpdate(Loaded(d), amount)
         /\ cache' = [cache EXCEPT ![d] = Loaded(d)]
         /\ stale' = stale \ {d}
  /\ NextStep
  /\ UNCHANGED <<nodeVars, dbVars, reader, batched, again, failures>>

BalanceWritten ==
  /\ At("balance") /\ amount # None
  /\ LET d == Head(todo).dlg
     IN  /\ Loaded(d) # None /\ ~SkipsUpdate(Loaded(d), amount)
         /\ dlg' = [dlg EXCEPT ![d].act = amount]
         /\ cache' = [cache EXCEPT ![d] = [Loaded(d) EXCEPT !.act = amount]]
         /\ stale' = stale \ {d}
  /\ NextStep
  /\ UNCHANGED <<nodeVars, wreq, claims, reader, batched, again, failures>>

(* A failing call ends its step; a claim that is not stored ends the       *)
(* handler.                                                                *)
StepFails ==
  /\ ~Idle /\ failures < MaxFailures
  /\ failures' = failures + 1
  /\ GoTo(IF Head(todo).op = "claim" THEN <<>> ELSE Tail(todo))
  /\ stale' = IF Head(todo).op \in {"open", "close"} THEN stale ELSE stale \union {Head(todo).dlg}
  /\ UNCHANGED <<nodeVars, dbVars, cache, reader, batched, again>>

Handlers ==
  \/ HandleLog \/ HandleOutOfTurn \/ OpenRequest \/ CloseRequest \/ StoreClaim
  \/ ReadStake \/ StoreDelegation \/ AdHocDelegation \/ BalanceSkipped \/ BalanceWritten
  \/ StepFails

-----------------------------------------------------------------------------
(* A reader misses the cache, loads the record and caches it a moment      *)
(* later; entries are evicted by age.                                      *)

ReaderLoads(d) ==
  /\ reader = None /\ cache[d] = None /\ dlg[d] # None
  /\ reader' = [dlg |-> d, rec |-> dlg[d]]
  /\ UNCHANGED <<nodeVars, dbVars, cache, workVars, stale, batched, again, failures>>

ReaderCaches ==
  /\ reader # None
  /\ cache' = [cache EXCEPT ![reader.dlg] = reader.rec]
  /\ reader' = None
  /\ UNCHANGED <<nodeVars, dbVars, workVars, stale, batched, again, failures>>

Evict(d) ==
  /\ cache[d] # None
  /\ cache' = [cache EXCEPT ![d] = None]
  /\ UNCHANGED <<nodeVars, dbVars, workVars, reader, stale, batched, again, failures>>

Readers == (\E d \in Delegation : ReaderLoads(d) \/ Evict(d)) \/ ReaderCaches

Next == Contract \/ Handlers \/ Restart \/ Readers

Spec == Init /\ [][Next]_vars

-----------------------------------------------------------------------------
WorkedOff == Idle /\ pos = Len(logs) + 1

Handled(d) == \E i \in DOMAIN logs : logs[i].dlg = d \/ logs[i].to = d

(* The stake is that first staked: the code skips the update, whatever the *)
(* record shows, see SkipUnchanged.  (sfc_delegation.go:74-76)             *)
BackAtFirst(d) == dlg[d].amo = stake[d]

(* When every log is worked off, the record of a delegation is there, and  *)
(* it shows the stake of the contract unless that is back at the amount    *)
(* first staked: though the handlers read a newer stake than that of their *)
(* log, readers overwrite the cache with older records and logs are        *)
(* handled again.  (sfc_delegation.go:40-85)                               *)
BalanceSettled ==
  WorkedOff =>
    \A d \in Delegation \ stale : Handled(d) =>
      dlg[d] # None /\ (dlg[d].act = stake[d] \/ BackAtFirst(d))

(* A cached record, however old, names the amount first staked as the      *)
(* database does, so a stale entry decides no update wrongly.              *)
CacheKeepsStaked ==
  \A d \in Delegation : cache[d] # None => dlg[d] # None /\ cache[d].amo = dlg[d].amo

RequestLogs == {i \in DOMAIN logs : logs[i].kind = "undelegated"}
Alone(i) == \A j \in RequestLogs : logs[j].trx = logs[i].trx => j = i
OnChain(i) == open[<<logs[i].dlg, logs[i].req>>] = logs[i].trx

RequestsRecorded ==
  WorkedOff /\ failures = 0 =>
    \A i \in RequestLogs : Alone(i) =>
      LET w == wreq[logs[i].trx]
      IN  /\ w # None /\ w.trx = logs[i].trx
          /\ OnChain(i) => w.fin = 0 /\ w.req = logs[i].req
          /\ ~OnChain(i) => w.fin # 0

(* As long as each log is handled once, every withdraw request has its     *)
(* record, open under its ID or closed, also when the ID was used before.  *)
(* (withdrawal.go:115, "tries to push the existing and closed request to a *)
(* different ID")                                                          *)
RequestsFirstTime == again = 0 => RequestsRecorded

(* A balance is left alone only if it did not change.                      *)
(* (sfc_delegation.go:74, "if the amount did not change, skip the update") *)
SkipUnchanged ==
  \A d \in Delegation :
    WorkedOff /\ d \notin stale /\ dlg[d] # None => dlg[d].act = stake[d]

(* A request the contract still holds open is not shown as withdrawn, when *)
(* IDs are used again and logs handled again, too.                         *)
(* (withdrawal.go:115-116, "to keep the history even for repeated          *)
(* requests")                                                              *)
HistoryKept ==
  WorkedOff =>
    \A i \in RequestLogs : Alone(i) /\ OnChain(i) =>
      LET w == wreq[logs[i].trx] IN w # None => w.fin = 0

=============================================================================
