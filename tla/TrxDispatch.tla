----------------------------- MODULE TrxDispatch -----------------------------
(***************************************************************************)
(* The way of a transaction into the database, and of the progress of the  *)
(* scan over restarts of the server.  The block dispatcher loads the       *)
(* transactions of each block; the transaction dispatcher                  *)
(* (svc/dispatch_trx.go) splits one into an event per account and a record *)
(* per log, which the account dispatcher (svc/dispatch_acc.go) and the log *)
(* dispatcher (svc/dispatch_log.go) work off; a goroutine per transaction  *)
(* waits for them on a wait group, stores the transaction and notes its    *)
(* block; a ticker persists the noted block, where the next start of the   *)
(* server takes up the scan.                                               *)
(*                                                                         *)
(* Blocks reach the block dispatcher in the order of the chain and also    *)
(* out of turn, ahead of others or once more, when the orchestrator        *)
(* unloads its cache or the scanner steps back (BlockPipeline).  The       *)
(* effects of a log are in the log's handler; the burn dispatcher's queue  *)
(* is taken to have room.  A stop of the server does not wait for the      *)
(* storing goroutines: it is a Crash.                                      *)
(***************************************************************************)
EXTENDS Integers, Sequences, SequencesExt, FiniteSets

CONSTANTS
  Trx, Account,
  None,         \* no account
  Chain,        \* the transactions of each block, from block 1
  From, To,     \* sender and recipient (or None) of a transaction
  Created,      \* the contract the transaction deploys, or None
  Logs,         \* how many logs it left
  ReScan,       \* BlockScanReScan
  TrxCap,       \* trxBufferCapacity
  AccCap,       \* trxAddressQueueCapacity
  LogCap,       \* trxLogQueueCapacity
  MaxAgain,     \* bound: blocks delivered out of turn, per run of the server
  MaxFailures,  \* bound: calls of the node or the database that fail
  MaxCrashes    \* bound: stops of the server

ASSUME ChainAssumption ==
  /\ None \notin Account
  /\ Chain \in Seq(Seq(Trx)) /\ Chain # <<>>
  /\ From \in [Trx -> Account] /\ To \in [Trx -> Account \union {None}]
  /\ Created \in [Trx -> Account \union {None}] /\ Logs \in [Trx -> Nat]

ASSUME BoundAssumption ==
  /\ ReScan \in Nat /\ MaxAgain \in Nat /\ MaxFailures \in Nat /\ MaxCrashes \in Nat
  /\ TrxCap \in Nat \ {0} /\ AccCap \in Nat \ {0} /\ LogCap \in Nat \ {0}

VARIABLES
  \* the database
  accounts,       \* the account's record, or None
  contracts,      \* accounts with a contract record
  logged,         \* log records whose handler ran
  stored,         \* transactions in the database
  lnb,            \* config row of the last known block, 0 = no row
  \* the process, lost in a crash
  cursor,         \* next block of the scan
  again,          \* blocks delivered out of turn so far
  blkTrxs,        \* block dispatcher: transactions of its block still to load
  inTransaction,  \* channel bld.outTransaction = trd.inTransaction
  evts,           \* the transactions the dispatcher took, in order
  wg,             \* the wait group of each
  stage,          \* "push", "wait", "note" or "end" of each
  accToPush,      \* account events the dispatcher still has to push
  logToPush,      \* log records it still has to push
  outAccount,     \* channel trd.outAccount = acd.inAccount
  outLog,         \* channel trd.outLog = lgd.inLog
  blkObserver,    \* block of the last finished transaction
  \* history and bounds
  start,          \* where the scan of this run started
  accDone,        \* account events worked off, as <<transaction, account>>
  missed,         \* account events the database did not take
  unstored,       \* transactions the node did not give or the database refused
  failures, crashes

dbVars   == <<accounts, contracts, logged, stored, lnb>>
bldVars  == <<cursor, again, blkTrxs>>
evtVars  == <<evts, wg, stage>>
pushVars == <<accToPush, logToPush>>
histVars == <<start, accDone, missed, unstored, failures, crashes>>
vars == <<dbVars, bldVars, inTransaction, evtVars, pushVars, outAccount, outLog,
          blkObserver, histVars>>

Block == DOMAIN Chain
BlockOf(t) == CHOOSE b \in Block : t \in Range(Chain[b])

(* pushAccounts: the sender, the recipient and the created contract. *)
AccountsOf(t) ==
  LET wallet(a) == IF a = None THEN <<>> ELSE <<[adr |-> a, act |-> "wallet"]>>
      contract(a) == IF a = None THEN <<>> ELSE <<[adr |-> a, act |-> "contract"]>>
  IN  wallet(From[t]) \o wallet(To[t]) \o contract(Created[t])

Touched(t) == {AccountsOf(t)[i].adr : i \in DOMAIN AccountsOf(t)}

Newest(S) == CHOOSE b \in S : \A c \in S : c <= b

(* LastKnownBlock: the config row, or the newest block with a transaction. *)
LastKnownBlock ==
  IF lnb # 0 THEN lnb
  ELSE IF stored = {} THEN 1 ELSE Newest({BlockOf(t) : t \in stored})

StartFromBelow(b) == b - ReScan
StartFrom(b) == IF b > ReScan THEN b - ReScan ELSE b

-----------------------------------------------------------------------------
Record == [type : {"wallet", "contract"}, activity : Block, counter : Nat \ {0}]
AccountEvent == [evt : Nat \ {0}, adr : Account, act : {"wallet", "contract"}]
LogRecord == [evt : Nat \ {0}, idx : Nat \ {0}]

ASSUME NoneAssumption == None \notin Record

(* Every variable in its range and no queue over its capacity. *)
TypeOK ==
  /\ accounts \in [Account -> Record \union {None}] /\ contracts \subseteq Account
  /\ logged \subseteq Trx \X Nat /\ stored \subseteq Trx /\ lnb \in Block \union {0}
  /\ cursor \in 1 .. Len(Chain) + 1 /\ again \in 0 .. MaxAgain /\ blkTrxs \in Seq(Trx)
  /\ inTransaction \in Seq(Trx) /\ Len(inTransaction) <= TrxCap
  /\ evts \in Seq(Trx) /\ wg \in [DOMAIN evts -> Nat]
  /\ stage \in [DOMAIN evts -> {"push", "wait", "note", "end"}]
  /\ accToPush \in Seq(AccountEvent) /\ logToPush \in Seq(LogRecord)
  /\ outAccount \in Seq(AccountEvent) /\ Len(outAccount) <= AccCap
  /\ outLog \in Seq(LogRecord) /\ Len(outLog) <= LogCap
  /\ blkObserver \in Block /\ start \in Block
  /\ accDone \subseteq Trx \X Account /\ missed \subseteq Trx \X Account
  /\ unstored \subseteq Trx
  /\ failures \in 0 .. MaxFailures /\ crashes \in 0 .. MaxCrashes

Init ==
  /\ accounts = [a \in Account |-> None]
  /\ contracts = {} /\ logged = {} /\ stored = {} /\ lnb = 0
  /\ cursor = 1 /\ again = 0 /\ blkTrxs = <<>> /\ inTransaction = <<>>
  /\ evts = <<>> /\ wg = <<>> /\ stage = <<>> /\ accToPush = <<>> /\ logToPush = <<>>
  /\ outAccount = <<>> /\ outLog = <<>> /\ blkObserver = 1 /\ start = 1
  /\ accDone = {} /\ missed = {} /\ unstored = {} /\ failures = 0 /\ crashes = 0

Fails == failures < MaxFailures /\ failures' = failures + 1

-----------------------------------------------------------------------------
(* The block dispatcher. *)

TakeBlock ==
  /\ blkTrxs = <<>> /\ cursor \in Block
  /\ blkTrxs' = Chain[cursor]
  /\ cursor' = cursor + 1
  /\ UNCHANGED <<dbVars, again, inTransaction, evtVars, pushVars, outAccount, outLog,
                 blkObserver, histVars>>

(* A cached head, newest first, or a block scanned again. *)
TakeBlockOutOfTurn ==
  /\ blkTrxs = <<>> /\ again < MaxAgain
  /\ \E b \in start .. Len(Chain) : blkTrxs' = Chain[b]
  /\ again' = again + 1
  /\ UNCHANGED <<dbVars, cursor, inTransaction, evtVars, pushVars, outAccount, outLog,
                 blkObserver, histVars>>

LoadTrx ==
  /\ blkTrxs # <<>> /\ Len(inTransaction) < TrxCap
  /\ inTransaction' = Append(inTransaction, Head(blkTrxs))
  /\ blkTrxs' = Tail(blkTrxs)
  /\ UNCHANGED <<dbVars, cursor, again, evtVars, pushVars, outAccount, outLog,
                 blkObserver, histVars>>

(* A transaction the node does not give is left out of its block. *)
LoadTrxFails ==
  /\ blkTrxs # <<>>
  /\ Fails
  /\ unstored' = unstored \union {Head(blkTrxs)}
  /\ blkTrxs' = Tail(blkTrxs)
  /\ UNCHANGED <<dbVars, cursor, again, inTransaction, evtVars, pushVars, outAccount, outLog,
                 blkObserver, start, accDone, missed, crashes>>

-----------------------------------------------------------------------------
(* The transaction dispatcher. *)

Pushing == \E e \in DOMAIN evts : stage[e] = "push"

TakeTrx ==
  /\ ~Pushing /\ inTransaction # <<>>
  /\ LET t == Head(inTransaction)
         e == Len(evts) + 1
         acc == AccountsOf(t)
     IN  /\ evts' = Append(evts, t)
         /\ wg' = Append(wg, 0)
         /\ stage' = Append(stage, "push")
         /\ accToPush' = [i \in DOMAIN acc |-> [evt |-> e, adr |-> acc[i].adr, act |-> acc[i].act]]
         /\ logToPush' = [i \in 1 .. Logs[t] |-> [evt |-> e, idx |-> i]]
  /\ inTransaction' = Tail(inTransaction)
  /\ UNCHANGED <<dbVars, bldVars, outAccount, outLog, blkObserver, histVars>>

PushAccount ==
  /\ accToPush # <<>> /\ Len(outAccount) < AccCap
  /\ wg' = [wg EXCEPT ![Head(accToPush).evt] = @ + 1]
  /\ outAccount' = Append(outAccount, Head(accToPush))
  /\ accToPush' = Tail(accToPush)
  /\ UNCHANGED <<dbVars, bldVars, inTransaction, evts, stage, logToPush, outLog,
                 blkObserver, histVars>>

PushLog ==
  /\ accToPush = <<>> /\ logToPush # <<>> /\ Len(outLog) < LogCap
  /\ wg' = [wg EXCEPT ![Head(logToPush).evt] = @ + 1]
  /\ outLog' = Append(outLog, Head(logToPush))
  /\ logToPush' = Tail(logToPush)
  /\ UNCHANGED <<dbVars, bldVars, inTransaction, evts, stage, accToPush, outAccount,
                 blkObserver, histVars>>

(* The storing goroutine is spawned when everything is pushed. *)
PushedAccounts == accToPush = <<>>
PushedAll == accToPush = <<>> /\ logToPush = <<>>

SpawnStore(e) ==
  /\ stage[e] = "push" /\ PushedAll
  /\ stage' = [stage EXCEPT ![e] = "wait"]
  /\ UNCHANGED <<dbVars, bldVars, inTransaction, evts, wg, pushVars, outAccount, outLog,
                 blkObserver, histVars>>

(* updateLastSeenBlock, on the ticker. *)
UpdateLastSeenBlock ==
  /\ ~Pushing
  /\ lnb' = blkObserver
  /\ UNCHANGED <<accounts, contracts, logged, stored, bldVars, inTransaction, evtVars,
                 pushVars, outAccount, outLog, blkObserver, histVars>>

-----------------------------------------------------------------------------
(* waitAndStore: wait for the transaction's parts, store it (an error is   *)
(* only logged), then note its block.                                      *)

Waited(e) == stage[e] = "wait" /\ wg[e] = 0

StoreTrx(e) ==
  /\ Waited(e)
  /\ stored' = stored \union {evts[e]}
  /\ stage' = [stage EXCEPT ![e] = "note"]
  /\ UNCHANGED <<accounts, contracts, logged, lnb, bldVars, inTransaction, evts, wg, pushVars,
                 outAccount, outLog, blkObserver, histVars>>

StoreTrxFails(e) ==
  /\ Waited(e)
  /\ Fails
  /\ unstored' = unstored \union {evts[e]}
  /\ stage' = [stage EXCEPT ![e] = "note"]
  /\ UNCHANGED <<dbVars, bldVars, inTransaction, evts, wg, pushVars, outAccount, outLog,
                 blkObserver, start, accDone, missed, crashes>>

MayNoteEarly(e) == stage[e] \in {"wait", "note"}
MayNote(e) == stage[e] = "note"

NoteBlock(e) ==
  /\ MayNote(e)
  /\ blkObserver' = BlockOf(evts[e])
  /\ stage' = [stage EXCEPT ![e] = "end"]
  /\ UNCHANGED <<dbVars, bldVars, inTransaction, evts, wg, pushVars, outAccount, outLog, histVars>>

-----------------------------------------------------------------------------
(* The account dispatcher: an unknown account is added, a known one marked *)
(* active; whatever comes of it, the transaction is released.              *)

MarkOnly(r, b) == [r EXCEPT !.activity = b]
MarkActivity(r, b) == [r EXCEPT !.activity = b, !.counter = @ + 1]

(* An unknown account of a deploying transaction is taken for the contract. *)
TypeOf(acc, t) == IF Created[t] # None THEN "contract" ELSE acc.act

ReleaseStuck(e) == wg
Release(e) == [wg EXCEPT ![e] = @ - 1]

MarkKnown ==
  /\ outAccount # <<>>
  /\ LET acc == Head(outAccount)
         t == evts[acc.evt]
     IN  /\ accounts[acc.adr] # None
         /\ accounts' = [accounts EXCEPT ![acc.adr] = MarkActivity(@, BlockOf(t))]
         /\ accDone' = accDone \union {<<t, acc.adr>>}
         /\ wg' = Release(acc.evt)
  /\ outAccount' = Tail(outAccount)
  /\ UNCHANGED <<contracts, logged, stored, lnb, bldVars, inTransaction, evts, stage, pushVars,
                 outLog, blkObserver, start, missed, unstored, failures, crashes>>

AddUnknown ==
  /\ outAccount # <<>>
  /\ LET acc == Head(outAccount)
         t == evts[acc.evt]
     IN  /\ accounts[acc.adr] = None
         /\ accounts' = [accounts EXCEPT ![acc.adr] =
              [type |-> TypeOf(acc, t), activity |-> BlockOf(t), counter |-> 1]]
         /\ contracts' = IF Created[t] # None THEN contracts \union {acc.adr} ELSE contracts
         /\ accDone' = accDone \union {<<t, acc.adr>>}
         /\ wg' = Release(acc.evt)
  /\ outAccount' = Tail(outAccount)
  /\ UNCHANGED <<logged, stored, lnb, bldVars, inTransaction, evts, stage, pushVars,
                 outLog, blkObserver, start, missed, unstored, failures, crashes>>

(* The database refuses the account, before or after the contract record.  *)
(* A lookup that fails takes a known account for an unknown one, which may *)
(* get a contract record so before it is refused.  The record of the SFC   *)
(* contract (checkSfc) is left out.                                        *)
AccountFails ==
  /\ outAccount # <<>>
  /\ Fails
  /\ LET acc == Head(outAccount)
         t == evts[acc.evt]
     IN  /\ \/ UNCHANGED contracts
            \/ /\ Created[t] # None
               /\ contracts' = contracts \union {acc.adr}
         /\ accDone' = accDone \union {<<t, acc.adr>>}
         /\ missed' = missed \union {<<t, acc.adr>>}
         /\ wg' = Release(acc.evt)
  /\ outAccount' = Tail(outAccount)
  /\ UNCHANGED <<accounts, logged, stored, lnb, bldVars, inTransaction, evts, stage, pushVars,
                 outLog, blkObserver, start, unstored, crashes>>

(* The log dispatcher. *)
HandleLog ==
  /\ outLog # <<>>
  /\ logged' = logged \union {<<evts[Head(outLog).evt], Head(outLog).idx>>}
  /\ wg' = Release(Head(outLog).evt)
  /\ outLog' = Tail(outLog)
  /\ UNCHANGED <<accounts, contracts, stored, lnb, bldVars, inTransaction, evts, stage, pushVars,
                 outAccount, blkObserver, histVars>>

-----------------------------------------------------------------------------
(* The server stops and starts again: only the database is left. *)
Crash ==
  /\ crashes < MaxCrashes
  /\ crashes' = crashes + 1
  /\ start' = StartFrom(LastKnownBlock) /\ cursor' = start'
  /\ again' = 0 /\ blkTrxs' = <<>> /\ inTransaction' = <<>>
  /\ evts' = <<>> /\ wg' = <<>> /\ stage' = <<>> /\ accToPush' = <<>> /\ logToPush' = <<>>
  /\ outAccount' = <<>> /\ outLog' = <<>> /\ blkObserver' = 1
  /\ UNCHANGED <<dbVars, accDone, missed, unstored, failures>>

BlockDispatcher == TakeBlock \/ TakeBlockOutOfTurn \/ LoadTrx \/ LoadTrxFails

TrxDispatcher ==
  TakeTrx \/ PushAccount \/ PushLog \/ (\E e \in DOMAIN evts : SpawnStore(e)) \/ UpdateLastSeenBlock

Storing(e) == StoreTrx(e) \/ StoreTrxFails(e) \/ NoteBlock(e)

AccDispatcher == MarkKnown \/ AddUnknown \/ AccountFails

Next ==
  \/ BlockDispatcher \/ TrxDispatcher \/ AccDispatcher \/ HandleLog
  \/ \E e \in DOMAIN evts : Storing(e)
  \/ Crash

Spec == Init /\ [][Next]_vars

(* The number of transactions a run of the server can take. *)
MaxEvents == Cardinality(Trx) * (1 + MaxAgain)

(* Every goroutine that can move does; the ticker owes nothing. *)
Fairness ==
  /\ WF_vars(TakeBlock \/ LoadTrx \/ LoadTrxFails)
  /\ WF_vars(TakeTrx \/ PushAccount \/ PushLog \/ \E e \in DOMAIN evts : SpawnStore(e))
  /\ WF_vars(AccDispatcher) /\ WF_vars(HandleLog)
  /\ \A e \in 1 .. MaxEvents : WF_vars(e \in DOMAIN evts /\ Storing(e))

FairSpec == Spec /\ Fairness

-----------------------------------------------------------------------------
(* A transaction in the database was taken apart completely before: every  *)
(* account it touches was worked off and every log handled, also if it was *)
(* dispatched more than once, in different runs of the server.             *)
(* (dispatch_trx.go:154, "store the transaction into the database once the *)
(* processing is done")                                                    *)
StoredAfterWork ==
  \A t \in stored :
    /\ \A a \in Touched(t) : <<t, a>> \in accDone
    /\ \A i \in 1 .. Logs[t] : <<t, i>> \in logged

(* No transaction in the database is missing in the activity of its        *)
(* accounts, but for the events the database refused.                      *)
CountersCover ==
  \A a \in Account :
    LET seen == {t \in stored : a \in Touched(t) /\ <<t, a>> \notin missed}
    IN  seen # {} => /\ accounts[a] # None
                     /\ accounts[a].counter >= Cardinality(seen)

(* The persisted progress does not run ahead of everything that was        *)
(* stored: a restart takes up the scan no later than at the newest block   *)
(* with a transaction that was through.                                    *)
CheckpointBacked ==
  lnb > 1 => \E t \in stored \union unstored : BlockOf(t) >= lnb

(* Every transaction from the start of the scan on ends in the database,   *)
(* unless the node or the database refused it: no wait group stays open    *)
(* because an account or a log of the transaction could not be worked off. *)
AllStored ==
  \A t \in Trx : BlockOf(t) >= start => t \in stored \union unstored

EventuallyStored == <>[]AllStored

-----------------------------------------------------------------------------
(* The persisted progress only moves forward.  (dispatch_trx.go:129, "make *)
(* the change in the database so the progress persists")                   *)
CheckpointForward == [][lnb' >= lnb]_lnb

(* What a restart skips was stored.  (dispatch_trx.go:122, "the            *)
(* information about last known block in the persistent database")         *)
RestartCovers ==
  \A t \in Trx : BlockOf(t) < start => t \in stored \union unstored

=============================================================================
