------------------------------ MODULE Services ------------------------------
(***************************************************************************)
(* Start and stop of the services (svc/manager.go).  The manager starts    *)
(* them in the order of its list, and on the stop of the server signals    *)
(* each of them in the same order and waits for all.  A service owns the   *)
(* channel of its stop signal and the channels it fills, and closes them   *)
(* as it ends; a service whose input is closed ends without a signal.      *)
(*                                                                         *)
(* Items in the channels are told apart by nothing here, so a channel is   *)
(* the number of items in it.  What the services do with the items is in   *)
(* BlockPipeline and TrxDispatch.  A panic ends the whole process.         *)
(***************************************************************************)
EXTENDS Integers, Sequences, FiniteSets

CONSTANTS
  PartList,   \* services the parts of a transaction go to: acd, lgd
  Monitors,   \* services that only follow tickers: eps, sti, gps, tfm
  Cap,        \* the capacity of each channel
  MaxTrx,     \* bound: transactions of a block
  MaxHeads    \* bound: heads the orchestrator may cache

PartService == {PartList[i] : i \in DOMAIN PartList}
Monitor == {Monitors[i] : i \in DOMAIN Monitors}

(* The channel of a part is named by the service it goes to. *)
Channel == {"block", "state", "dispatched", "trx", "burn"} \union PartService

(* The manager makes each service once. *)
Once(list) == \A i, j \in DOMAIN list : list[i] = list[j] => i = j

ASSUME ServicesAssumption ==
  /\ PartList \in Seq({"acd", "lgd"}) /\ PartList # <<>> /\ Once(PartList)
  /\ Monitors \in Seq({"eps", "sti", "gps", "tfm"}) /\ Once(Monitors)
  /\ Cap \in [Channel -> Nat \ {0}] /\ MaxTrx \in Nat /\ MaxHeads \in Nat \ {0}

(* The order in which the services are started, and closed. *)
Downstream == <<"bld", "trd">> \o PartList \o <<"bud">>
ScannerFirst == <<"bls">> \o Downstream \o Monitors \o <<"ora">>
ServiceList == Downstream \o <<"bls">> \o Monitors \o <<"ora">>

Service == {ServiceList[i] : i \in DOMAIN ServiceList}

(* The service that closes a channel as it ends, by the orchestrator's     *)
(* wiring.                                                                 *)
Owner == [c \in Channel |->
  CASE c \in {"block", "state"} -> "bls"
    [] c \in {"dispatched", "trx"} -> "bld"
    [] OTHER -> "trd"]

VARIABLES
  phase,      \* of the manager: "run", "close", "end"
  at,         \* the service of the list the manager is at
  wg,         \* the manager's wait group
  pc,         \* where each goroutine is
  sig,        \* stop signals in the buffer of each service
  q,          \* number of items in each channel
  trxs,       \* block dispatcher: transactions of its block left to push
  parts,      \* transaction dispatcher: accounts and logs left to push, by channel
  pushHeads,  \* orchestrator: whether it pushes new heads, or caches them
  owed,       \* orchestrator: number of blocks its handler still has to push
  panicked    \* "no", or the goroutine that sent on a closed channel

mgrVars == <<phase, at, wg>>
oraVars == <<pushHeads, owed>>
vars == <<mgrVars, pc, sig, q, trxs, parts, oraVars, panicked>>

Place == {"off", "select", "report", "trxs", "burn", "parts", "block", "state", "push", "done"}

(* A transaction touches an account at least, and may leave a log. *)
Parts == {SubSeq(PartList, 1, n) : n \in 1 .. Len(PartList)}

(* Every variable in its range: no channel over its capacity, at most one  *)
(* stop signal per service.                                                *)
TypeOK ==
  /\ phase \in {"run", "close", "end"}
  /\ at \in 1 .. Len(ServiceList) + 1 /\ wg \in 0 .. Cardinality(Service)
  /\ pc \in [Service -> Place] /\ sig \in [Service -> 0 .. 1]
  /\ q \in [Channel -> Nat] /\ \A c \in Channel : q[c] <= Cap[c]
  /\ trxs \in 0 .. MaxTrx /\ parts \in Seq(PartService) /\ Len(parts) <= Len(PartList)
  /\ pushHeads \in BOOLEAN /\ owed \in 0 .. MaxHeads
  /\ panicked \in Service \union {"no", "manager"}

Init ==
  /\ phase = "run" /\ at = 1 /\ wg = 0
  /\ pc = [g \in Service |-> "off"]
  /\ sig = [s \in Service |-> 0]
  /\ q = [c \in Channel |-> 0]
  /\ trxs = 0 /\ parts = <<>> /\ pushHeads = FALSE /\ owed = 0
  /\ panicked = "no"

Alive == panicked = "no"
Closed(c) == pc[Owner[c]] = "done"
RoomOffByOne(c) == q[c] <= Cap[c]
Room(c) == q[c] < Cap[c]

(* A send on a closed channel ends the process; nothing of it is left. *)
Dies(who) ==
  /\ panicked' = who
  /\ pc' = [s \in Service |-> "off"] /\ sig' = [s \in Service |-> 0]
  /\ q' = [c \in Channel |-> 0] /\ wg' = 0 /\ trxs' = 0 /\ parts' = <<>>
  /\ pushHeads' = FALSE /\ owed' = 0
  /\ UNCHANGED <<phase, at>>

Goto(g, p) == pc' = [pc EXCEPT ![g] = p]

-----------------------------------------------------------------------------
(* The manager. *)

StartService ==
  /\ Alive /\ phase = "run" /\ at <= Len(ServiceList)
  /\ LET s == ServiceList[at]
     IN  wg' = wg + 1 /\ Goto(s, "select")
  /\ at' = at + 1
  /\ UNCHANGED <<phase, sig, q, trxs, parts, oraVars, panicked>>

(* The scanner does not start without the last known block. *)
ScannerStaysOff ==
  /\ Alive /\ phase = "run" /\ at <= Len(ServiceList) /\ ServiceList[at] = "bls"
  /\ at' = at + 1
  /\ UNCHANGED <<phase, wg, pc, sig, q, trxs, parts, oraVars, panicked>>

(* Close: the server, which runs when all are started, was told to stop. *)
Close ==
  /\ Alive /\ phase = "run" /\ at > Len(ServiceList)
  /\ phase' = "close" /\ at' = 1
  /\ UNCHANGED <<wg, pc, sig, q, trxs, parts, oraVars, panicked>>

(* A service that is gone has closed its signal channel. *)
Signal ==
  /\ Alive /\ phase = "close" /\ at <= Len(ServiceList)
  /\ LET s == ServiceList[at]
     IN  \/ pc[s] = "done" /\ Dies("manager")
        \/ /\ pc[s] # "done" /\ sig[s] = 0
           /\ sig' = [sig EXCEPT ![s] = 1]
           /\ at' = at + 1
           /\ UNCHANGED <<phase, wg, pc, q, trxs, parts, oraVars, panicked>>

WaitsForNone == TRUE
WaitsForAll == wg = 0

Waited ==
  /\ Alive /\ phase = "close" /\ at > Len(ServiceList) /\ WaitsForAll
  /\ phase' = "end"
  /\ UNCHANGED <<at, wg, pc, sig, q, trxs, parts, oraVars, panicked>>

-----------------------------------------------------------------------------
(* What the services have in common. *)

(* The deferred clean-up: the channels of the service are closed, which    *)
(* Closed reads off the program counter, and the manager is told.  What    *)
(* the orchestrator knew of the scanner goes with it.                      *)
Leave(g) ==
  /\ Goto(g, "done")
  /\ wg' = wg - 1
  /\ pushHeads' = (pushHeads /\ g # "ora")
  /\ UNCHANGED <<phase, at, q, trxs, parts, owed, panicked>>

Stop(s) ==
  /\ Alive /\ pc[s] = "select" /\ sig[s] = 1
  /\ sig' = [sig EXCEPT ![s] = 0]
  /\ Leave(s)

(* A service whose input channel is closed and drained. *)
InputOf == [g \in Service |->
  CASE g = "bld" -> {"block"} [] g = "trd" -> {"trx"} [] g \in PartService -> {g}
    [] g = "bud" -> {"burn"} [] OTHER -> {}]

InputEnds(g) ==
  /\ Alive /\ pc[g] = "select"
  /\ \E c \in InputOf[g] : Closed(c) /\ q[c] = 0
  /\ UNCHANGED sig
  /\ Leave(g)

(* Waiting for room in a channel, a service sees its stop signal, puts it  *)
(* back and returns to its loop.                                           *)
TakeSignal(s) == [sig EXCEPT ![s] = 0]
RePost(s) == sig

GiveUp(s) ==
  /\ Alive /\ pc[s] \in {"report", "trxs", "parts", "block", "state"}
  /\ sig[s] = 1
  /\ sig' = RePost(s)
  /\ Goto(s, "select")
  /\ trxs' = IF s = "bld" THEN 0 ELSE trxs
  /\ parts' = IF s = "trd" THEN <<>> ELSE parts
  /\ UNCHANGED <<mgrVars, q, oraVars, panicked>>

Put(c) == q' = [q EXCEPT ![c] = @ + 1]
PutOrWait(g, c) == IF Room(c) THEN Put(c) /\ UNCHANGED pc ELSE Goto(g, c) /\ UNCHANGED q
Get(c) == q[c] > 0 /\ q' = [q EXCEPT ![c] = @ - 1]

-----------------------------------------------------------------------------
(* The block scanner: it drains the reports, pulls blocks and tells the    *)
(* orchestrator of its state; when it does which is in BlockPipeline.      *)

ScannerDrains ==
  /\ Alive /\ pc["bls"] = "select"
  /\ Get("dispatched")
  /\ UNCHANGED <<mgrVars, pc, sig, trxs, parts, oraVars, panicked>>

ScannerTicks ==
  /\ Alive /\ pc["bls"] = "select"
  /\ \E c \in {"block", "state"} : PutOrWait("bls", c)
  /\ UNCHANGED <<mgrVars, sig, trxs, parts, oraVars, panicked>>

ScannerPushes ==
  /\ Alive /\ pc["bls"] \in {"block", "state"} /\ Room(pc["bls"])
  /\ Put(pc["bls"]) /\ Goto("bls", "select")
  /\ UNCHANGED <<mgrVars, sig, trxs, parts, oraVars, panicked>>

BlockScanner ==
  ScannerDrains \/ ScannerTicks \/ ScannerPushes

-----------------------------------------------------------------------------
(* The block dispatcher: report the block, then push its transactions.  A  *)
(* transaction the node does not give counts as none.                      *)

TakeBlock ==
  /\ Alive /\ pc["bld"] = "select"
  /\ Get("block") /\ Goto("bld", "report")
  /\ \E n \in 0 .. MaxTrx : trxs' = n
  /\ UNCHANGED <<mgrVars, sig, parts, oraVars, panicked>>

Report ==
  /\ Alive /\ pc["bld"] = "report" /\ Room("dispatched")
  /\ Put("dispatched") /\ Goto("bld", IF trxs = 0 THEN "select" ELSE "trxs")
  /\ UNCHANGED <<mgrVars, sig, trxs, parts, oraVars, panicked>>

PushTrx ==
  /\ Alive /\ pc["bld"] = "trxs" /\ Room("trx")
  /\ Put("trx")
  /\ trxs' = trxs - 1
  /\ Goto("bld", IF trxs = 1 THEN "select" ELSE "trxs")
  /\ UNCHANGED <<mgrVars, sig, parts, oraVars, panicked>>

BlockDispatcher == TakeBlock \/ Report \/ PushTrx

-----------------------------------------------------------------------------
(* The transaction dispatcher.  The push to the burn dispatcher observes   *)
(* no stop signal, the other pushes do.                                    *)

TakeTrx ==
  /\ Alive /\ pc["trd"] = "select"
  /\ Get("trx") /\ Goto("trd", "burn")
  /\ parts' \in Parts
  /\ UNCHANGED <<mgrVars, sig, trxs, oraVars, panicked>>

PushBurn ==
  /\ Alive /\ pc["trd"] = "burn" /\ Room("burn")
  /\ Put("burn") /\ Goto("trd", "parts")
  /\ UNCHANGED <<mgrVars, sig, trxs, parts, oraVars, panicked>>

PushPart ==
  /\ Alive /\ pc["trd"] = "parts" /\ Room(Head(parts))
  /\ Put(Head(parts))
  /\ parts' = Tail(parts)
  /\ Goto("trd", IF Len(parts) = 1 THEN "select" ELSE "parts")
  /\ UNCHANGED <<mgrVars, sig, trxs, oraVars, panicked>>

TrxDispatcher == TakeTrx \/ PushBurn \/ PushPart

(* Accounts, logs and burns are worked off. *)
WorkOff(g) ==
  /\ Alive /\ g # "bld" /\ g # "trd" /\ pc[g] = "select"
  /\ \E c \in InputOf[g] : Get(c)
  /\ UNCHANGED <<mgrVars, pc, sig, trxs, parts, oraVars, panicked>>

Workers == PartService \union {"bud"}

-----------------------------------------------------------------------------
(* The orchestrator: a new head is pushed while the scanner is idle, and   *)
(* cached otherwise; the switch to idle unloads the cache.  Its pushes     *)
(* observe no stop signal, and the channel is the scanner's, who closes it.*)
(* A head that is cached shows only in what the next unload has to push.   *)

NewHead ==
  /\ Alive /\ pc["ora"] = "select" /\ pushHeads
  /\ owed' = 1
  /\ Goto("ora", "push")
  /\ UNCHANGED <<mgrVars, sig, q, trxs, parts, pushHeads, panicked>>

StateSwitch ==
  /\ Alive /\ pc["ora"] = "select"
  /\ Get("state")
  /\ pushHeads' \in BOOLEAN
  /\ owed' \in IF pushHeads' THEN 0 .. MaxHeads ELSE {0}
  /\ Goto("ora", IF owed' = 0 THEN "select" ELSE "push")
  /\ UNCHANGED <<mgrVars, sig, trxs, parts, panicked>>

PushHead ==
  /\ Alive /\ pc["ora"] = "push" /\ ~Closed("block")
  /\ Room("block") /\ Put("block")
  /\ owed' = owed - 1
  /\ Goto("ora", IF owed = 1 THEN "select" ELSE "push")
  /\ UNCHANGED <<mgrVars, sig, trxs, parts, pushHeads, panicked>>

PushPanics == Alive /\ pc["ora"] = "push" /\ Closed("block") /\ Dies("ora")

Orchestrator == NewHead \/ StateSwitch \/ PushHead \/ PushPanics

(* What a service does on its own when it is in the middle of something,   *)
(* or nothing more will come.                                              *)
Moves(s) ==
  \/ GiveUp(s) \/ InputEnds(s)
  \/ s = "bld" /\ (Report \/ PushTrx)
  \/ s = "trd" /\ (PushBurn \/ PushPart)
  \/ s = "ora" /\ (PushHead \/ PushPanics)

-----------------------------------------------------------------------------
Manager ==
  StartService \/ ScannerStaysOff \/ Close \/ Signal \/ Waited

Next ==
  \/ Manager
  \/ BlockScanner \/ BlockDispatcher \/ TrxDispatcher \/ Orchestrator
  \/ \E s \in Service : Stop(s) \/ GiveUp(s) \/ InputEnds(s)
  \/ \E s \in Workers : WorkOff(s)

Spec == Init /\ [][Next]_vars

(* Every goroutine that can move does; a select with several ready cases   *)
(* picks at random, so a service that comes back to its select again and   *)
(* again sees its stop signal.  Nothing is assumed of ticks and heads, nor *)
(* of the order to stop.                                                   *)
Fairness ==
  /\ WF_vars(StartService \/ ScannerStaysOff \/ Signal \/ Waited)
  /\ \A s \in {"bls", "bld", "trd", "ora"} : SF_vars(Stop(s))
  /\ \A s \in Service \ Workers : WF_vars(Moves(s))
  /\ \A s \in Workers : WF_vars(Stop(s) \/ InputEnds(s) \/ WorkOff(s))

FairSpec == Spec /\ Fairness

-----------------------------------------------------------------------------
(* The push of a transaction to a burn dispatcher that is gone waits for   *)
(* good: nobody takes from the channel, and the push observes no signal.   *)
WaitsForBurn == pc["trd"] = "burn" /\ pc["bud"] = "done" /\ ~Room("burn")

(* When the server is told to stop, the manager comes to its end, unless   *)
(* the process panics or the transaction dispatcher waits for the burn     *)
(* dispatcher: no other queue that is full, and no signal taken by a push, *)
(* keeps a service.  (manager.go:66-82)                                    *)
Stopping == phase = "close" /\ Alive
StopSettles == []<>(Stopping => WaitsForBurn)

(* The stop always comes to its end.  (manager.go:76-78, "wait scanners to *)
(* terminate")                                                             *)
StopCompletes == []<>~Stopping

(* A signal can meet a service that is gone already only where the service *)
(* ends with the one before it in the list; the scanners and monitors,     *)
(* which nobody else ends, always get theirs.                              *)
PanicsDownstream ==
  panicked = "manager" => ServiceList[at] \in {"trd", "acd", "lgd", "bud"}

(* The manager's stop signal is not lost: a service that was signalled and *)
(* still runs has the signal before it, also when a push took it out and   *)
(* put it back.  (dispatch_trx.go:200-234, dispatch_blk.go:139-141)        *)
Signalled(i) ==
  phase = "end" \/ (phase = "close" /\ i < at)
Runs(s) == pc[s] \notin {"off", "done"}
SignalKept ==
  \A i \in DOMAIN ServiceList :
    Signalled(i) /\ Runs(ServiceList[i]) => sig[ServiceList[i]] = 1

(* The manager comes to its end after every service, and none starts       *)
(* again: the repository is closed next.  (manager.go:76-81, "wait         *)
(* scanners to terminate", app.go:161-171)                                 *)
EndsLast == phase = "end" => \A s \in Service : ~Runs(s)

(* The orchestrator, which is started and closed last, works on services   *)
(* that are still there.  (manager.go:134, "add orchestrator as the last   *)
(* service, so it can safely operate on all the other")                    *)
OrchestratorSafe == panicked # "ora"

=============================================================================
