---------------------------- MODULE BlockPipeline ----------------------------
(***************************************************************************)
(* The block intake of the API server: the block scanner (svc/scan_blk.go) *)
(* walks the chain from the last known block, the orchestrator             *)
(* (svc/orchestrator.go) forwards the heads the node announces, and both   *)
(* feed one channel of the block dispatcher (svc/dispatch_blk.go), which   *)
(* reports every block number back to the scanner.  Four goroutines and    *)
(* the node; every channel is bounded and a push to a full one waits.      *)
(*                                                                         *)
(* A block is its number.  Timers are left out: a tick may come whenever   *)
(* its goroutine is in its select.  The stop signal is in Shutdown.        *)
(***************************************************************************)
EXTENDS Integers, Sequences, SequencesExt

CONSTANTS
  LastKnown,      \* the last known block number found in the database
  ReScan,         \* BlockScanReScan, how far the scanner steps back at start
  Hysteresis,     \* blsReScanHysteresis
  BlockCap,       \* capacity of outBlock, blsBlockBufferCapacity
  DispatchedCap,  \* capacity of outDispatched, blsBlockBufferCapacity
  HeadsCap,       \* capacity of the heads proxy, rpcHeadProxyChannelCapacity
  RingCap,        \* orBlockCacheCapacity
  InitHeight,     \* height of the chain when the server starts
  MaxHeight,      \* bound: the chain grows up to this height
  MaxErrors,      \* bound: how many node calls may fail
  MaxLost         \* bound: how many heads a broken subscription may lose

(* The database names a block of this chain, block 0 is the genesis. *)
ASSUME ChainAssumption ==
  /\ LastKnown \in Nat \ {0} /\ ReScan \in Nat
  /\ InitHeight \in Nat /\ MaxHeight \in Nat
  /\ LastKnown <= InitHeight /\ InitHeight <= MaxHeight

ASSUME CapacityAssumption ==
  /\ BlockCap \in Nat \ {0} /\ DispatchedCap \in Nat \ {0}
  /\ HeadsCap \in Nat \ {0} /\ RingCap \in Nat /\ RingCap >= 2
  /\ Hysteresis \in Nat

ASSUME BoundAssumption == MaxErrors \in Nat /\ MaxLost \in Nat

VARIABLES
  height,         \* the node: number of the newest block
  heads,          \* channel of announced heads, observer to orchestrator
  errors,         \* node calls that failed so far
  lost,           \* heads lost so far
  scanPc,         \* scanner: "start", "select", "pushBlock" or "pushState"
  onIdle,         \* scanner: all known blocks are scanned
  next,           \* scanner: next block to pull
  to,             \* scanner: last block to pull
  done,           \* scanner: dispatched without a gap up to here, 0 = none yet
  inBlock,        \* channel bls.outBlock = bld.inBlock
  outDispatched,  \* channel bld.outDispatched = bls.inDispatched
  stateSwitch,    \* channel bls.outStateSwitch = or.inScanStateSwitch, capacity 1
  pushHeads,      \* orchestrator: heads go straight to the dispatcher
  ring,           \* orchestrator: blkCache, newest first
  pending,        \* orchestrator: blocks its current handler still has to push
  bldPc,          \* dispatcher: "select", "report" or "process"
  bldBlock,       \* dispatcher: the block it works on
  dispatched,     \* history: block numbers reported by the dispatcher
  processed,      \* history: blocks whose transactions were forwarded
  missed          \* history: heads that never reached the dispatcher

scanVars == <<scanPc, onIdle, next, to, done>>
orVars   == <<pushHeads, ring, pending>>
bldVars  == <<bldPc, bldBlock, dispatched, processed>>
nodeVars == <<height, heads, errors, lost>>
chanVars == <<inBlock, outDispatched, stateSwitch>>
vars == <<nodeVars, scanVars, chanVars, orVars, bldVars, missed>>

Block == 0 .. MaxHeight

(* boundaries: the scanner steps back if there is enough to step back over. *)
Start == IF LastKnown > ReScan THEN LastKnown - ReScan ELSE LastKnown

(* Every variable in its range and no channel or cache over its capacity.  *)
NodeType ==
  /\ height \in Block /\ errors \in 0 .. MaxErrors /\ lost \in 0 .. MaxLost

ScannerType ==
  /\ scanPc \in {"start", "select", "pushBlock", "pushState"}
  /\ next \in 0 .. MaxHeight + 1 /\ to \in Block /\ done \in Block
  /\ scanPc = "pushBlock" => next <= MaxHeight

FlagType == onIdle \in BOOLEAN /\ pushHeads \in BOOLEAN /\ stateSwitch \in Seq(BOOLEAN)

ChannelType ==
  /\ heads \in Seq(Block) /\ Len(heads) <= HeadsCap
  /\ inBlock \in Seq(Block) /\ Len(inBlock) <= BlockCap
  /\ outDispatched \in Seq(Block) /\ Len(outDispatched) <= DispatchedCap
  /\ ring \in Seq(Block) /\ Len(ring) <= RingCap
  /\ pending \in Seq(Block) /\ Len(pending) <= RingCap
  /\ Len(stateSwitch) <= 1

DispatcherType ==
  /\ bldPc \in {"select", "report", "process"} /\ bldBlock \in Block
  /\ dispatched \subseteq Block /\ processed \subseteq Block /\ missed \subseteq Block

TypeOK == NodeType /\ ScannerType /\ FlagType /\ ChannelType /\ DispatcherType

Init ==
  /\ height = InitHeight /\ heads = <<>> /\ errors = 0 /\ lost = 0
  /\ scanPc = "start" /\ onIdle = FALSE /\ next = Start /\ to = 0 /\ done = 0
  /\ inBlock = <<>> /\ outDispatched = <<>> /\ stateSwitch = <<>>
  /\ pushHeads = FALSE /\ ring = <<>> /\ pending = <<>>
  /\ bldPc = "select" /\ bldBlock = 0
  /\ dispatched = {} /\ processed = {} /\ missed = {}

-----------------------------------------------------------------------------
(* The node.  A block is sealed and its head announced through the         *)
(* subscription; while the subscription is down the head is lost, the      *)
(* observer only subscribes again and asks for no past heads.              *)

NewHead ==
  /\ height < MaxHeight /\ Len(heads) < HeadsCap
  /\ height' = height + 1
  /\ heads' = Append(heads, height')
  /\ UNCHANGED <<errors, lost, scanVars, chanVars, orVars, bldVars, missed>>

NewHeadLost ==
  /\ height < MaxHeight /\ lost < MaxLost
  /\ height' = height + 1
  /\ lost' = lost + 1
  /\ missed' = missed \union {height'}
  /\ UNCHANGED <<heads, errors, scanVars, chanVars, orVars, bldVars>>

(* A call of the node that fails. *)
CallFails == errors < MaxErrors /\ errors' = errors + 1

CallSucceeds == UNCHANGED errors

-----------------------------------------------------------------------------
(* The scanner. *)

(* The dispatched-number counter moves to the first number it sees and     *)
(* from there by single steps; re-scans and jumps leave it alone.          *)
AcceptsJump(bin) == bin > done
Accepts(bin) == done = 0 \/ bin - done = 1

IdleWindowWide(target) == target < done + Hysteresis + 1
IdleWindow(target) == target < done + Hysteresis

(* The scan is through when the target block itself was pushed. *)
ScannedEarly(target) == target <= next
Scanned(target) == target < next

(* updateState: a change of state is advertised before anything else. *)
UpdateState(target) ==
  IF target = onIdle
  THEN scanPc' = "select" /\ UNCHANGED onIdle
  ELSE scanPc' = "pushState" /\ onIdle' = target

(* Where a scan of an idle scanner would start again. *)
RescanFromTarget == height + 1
RescanFrom == done

(* observe, whose outcome goes to updateState.  On idle the scanner waits  *)
(* at the last dispatched block until the head runs away from it.          *)
ObserveFails ==
  /\ CallFails
  /\ UpdateState(FALSE)
  /\ UNCHANGED <<next, to>>

ObserveIdling ==
  /\ onIdle /\ IdleWindow(height)
  /\ next' = RescanFrom
  /\ UpdateState(TRUE)
  /\ CallSucceeds /\ UNCHANGED to

ObserveTarget ==
  /\ ~(onIdle /\ IdleWindow(height))
  /\ to' = height
  /\ UpdateState(Scanned(height))
  /\ CallSucceeds /\ UNCHANGED next

Observe == ObserveFails \/ ObserveIdling \/ ObserveTarget

(* execute looks at the head once before its loop and drops the outcome. *)
ScanStart ==
  /\ scanPc = "start"
  /\ scanPc' = "select"
  /\ \/ CallFails /\ UNCHANGED to
     \/ CallSucceeds /\ to' = height
  /\ UNCHANGED <<height, heads, lost, onIdle, next, done, chanVars, orVars, bldVars, missed>>

ObserveTick ==
  /\ scanPc = "select"
  /\ Observe
  /\ UNCHANGED <<height, heads, lost, done, chanVars, orVars, bldVars, missed>>

(* shift, on a scan tick: at the end look at the head again, else pull the *)
(* next block and go on to push it.  On idle the tick does nothing.        *)
ShiftAtEnd ==
  /\ scanPc = "select" /\ ~onIdle /\ next > to
  /\ Observe
  /\ UNCHANGED <<height, heads, lost, done, chanVars, orVars, bldVars, missed>>

ShiftPull ==
  /\ scanPc = "select" /\ ~onIdle /\ next <= to
  /\ \/ CallFails /\ UNCHANGED scanPc
     \/ CallSucceeds /\ scanPc' = "pushBlock"
  /\ UNCHANGED <<height, heads, lost, onIdle, next, to, done, chanVars, orVars, bldVars, missed>>

ScanPushBlock ==
  /\ scanPc = "pushBlock" /\ Len(inBlock) < BlockCap
  /\ inBlock' = Append(inBlock, next)
  /\ next' = next + 1
  /\ scanPc' = "select"
  /\ UNCHANGED <<nodeVars, onIdle, to, done, outDispatched, stateSwitch, orVars, bldVars, missed>>

ScanPushState ==
  /\ scanPc = "pushState" /\ Len(stateSwitch) < 1
  /\ stateSwitch' = Append(stateSwitch, onIdle)
  /\ scanPc' = "select"
  /\ UNCHANGED <<nodeVars, onIdle, next, to, done, inBlock, outDispatched, orVars, bldVars, missed>>

ScanDispatched ==
  /\ scanPc = "select" /\ outDispatched # <<>>
  /\ done' = IF Accepts(Head(outDispatched)) THEN Head(outDispatched) ELSE done
  /\ outDispatched' = Tail(outDispatched)
  /\ UNCHANGED <<nodeVars, scanPc, onIdle, next, to, inBlock, stateSwitch, orVars, bldVars, missed>>

-----------------------------------------------------------------------------
(* The orchestrator. *)

(* The ring keeps the newest RingCap blocks. *)
RingAddAll(r, b) == <<b>> \o r
RingAdd(r, b) == SubSeq(<<b>> \o r, 1, IF Len(r) < RingCap THEN Len(r) + 1 ELSE RingCap)
RingDrops(r) == IF Len(r) < RingCap THEN {} ELSE {r[Len(r)]}

(* handleNewHead: a head whose block the node does not give is dropped. *)
OrHeadDropped ==
  /\ pending = <<>> /\ heads # <<>>
  /\ CallFails
  /\ heads' = Tail(heads)
  /\ missed' = missed \union {Head(heads)}
  /\ UNCHANGED <<height, lost, scanVars, chanVars, orVars, bldVars>>

OrHeadPushed ==
  /\ pending = <<>> /\ heads # <<>> /\ pushHeads
  /\ CallSucceeds
  /\ heads' = Tail(heads)
  /\ pending' = <<Head(heads)>>
  /\ UNCHANGED <<height, lost, scanVars, chanVars, pushHeads, ring, bldVars, missed>>

OrHeadCached ==
  /\ pending = <<>> /\ heads # <<>> /\ ~pushHeads
  /\ CallSucceeds
  /\ heads' = Tail(heads)
  /\ ring' = RingAdd(ring, Head(heads))
  /\ missed' = missed \union RingDrops(ring)
  /\ UNCHANGED <<height, lost, scanVars, chanVars, pushHeads, pending, bldVars>>

(* unloadCache lists the ring newest first and empties it. *)
UnloadNothing(r) == <<>>
Unload(r) == r

OrStateSwitch ==
  /\ pending = <<>> /\ stateSwitch # <<>>
  /\ pushHeads' = Head(stateSwitch)
  /\ stateSwitch' = Tail(stateSwitch)
  /\ pending' = IF Head(stateSwitch) THEN Unload(ring) ELSE <<>>
  /\ ring' = IF Head(stateSwitch) THEN <<>> ELSE ring
  /\ UNCHANGED <<nodeVars, scanVars, inBlock, outDispatched, bldVars, missed>>

OrPush ==
  /\ pending # <<>> /\ Len(inBlock) < BlockCap
  /\ inBlock' = Append(inBlock, Head(pending))
  /\ pending' = Tail(pending)
  /\ UNCHANGED <<nodeVars, scanVars, outDispatched, stateSwitch, pushHeads, ring, bldVars, missed>>

-----------------------------------------------------------------------------
(* The block dispatcher: take a block, report its number, forward its      *)
(* transactions.                                                           *)

DispatcherTake ==
  /\ bldPc = "select" /\ inBlock # <<>>
  /\ bldBlock' = Head(inBlock)
  /\ inBlock' = Tail(inBlock)
  /\ bldPc' = "report"
  /\ UNCHANGED <<nodeVars, scanVars, outDispatched, stateSwitch, orVars, dispatched, processed, missed>>

DispatcherReport ==
  /\ bldPc = "report" /\ Len(outDispatched) < DispatchedCap
  /\ outDispatched' = Append(outDispatched, bldBlock)
  /\ dispatched' = dispatched \union {bldBlock}
  /\ bldPc' = "process"
  /\ UNCHANGED <<nodeVars, scanVars, inBlock, stateSwitch, orVars, bldBlock, processed, missed>>

DispatcherProcess ==
  /\ bldPc = "process"
  /\ processed' = processed \union {bldBlock}
  /\ bldPc' = "select"
  /\ UNCHANGED <<nodeVars, scanVars, chanVars, orVars, bldBlock, dispatched, missed>>

-----------------------------------------------------------------------------
Scanner == \/ ScanStart \/ ObserveTick \/ ShiftAtEnd \/ ShiftPull
           \/ ScanPushBlock \/ ScanPushState \/ ScanDispatched

Orchestrator == OrHeadDropped \/ OrHeadPushed \/ OrHeadCached \/ OrStateSwitch \/ OrPush

Dispatcher == DispatcherTake \/ DispatcherReport \/ DispatcherProcess

Next == NewHead \/ NewHeadLost \/ Scanner \/ Orchestrator \/ Dispatcher

Spec == Init /\ [][Next]_vars

(* Every goroutine that can move does.  A Go select picks at random among  *)
(* the cases that are ready, so a case that is ready again and again is    *)
(* taken: strong fairness for the cases of the scanner's and the           *)
(* orchestrator's select.                                                  *)
Fairness ==
  /\ WF_vars(ScanStart) /\ WF_vars(ScanPushBlock) /\ WF_vars(ScanPushState)
  /\ SF_vars(ObserveTick) /\ SF_vars(ShiftAtEnd \/ ShiftPull) /\ SF_vars(ScanDispatched)
  /\ SF_vars(OrHeadDropped \/ OrHeadPushed \/ OrHeadCached) /\ SF_vars(OrStateSwitch)
  /\ WF_vars(OrPush)
  /\ WF_vars(Dispatcher)

FairSpec == Spec /\ Fairness

-----------------------------------------------------------------------------
(* Where a block can be between its source and the dispatcher's report. *)
InFlight ==
  Range(inBlock) \union (IF bldPc = "report" THEN {bldBlock} ELSE {})

(* The dispatched counter never runs over a hole: every block from the     *)
(* start of the scan up to done was forwarded to transaction processing,   *)
(* but for the one the dispatcher is at.  Heads pushed out of order by     *)
(* the cache unload and blocks pushed again by a re-scan do not break it.  *)
(* (scan_blk.go:136, "do not skip blocks in dispatched # counter")         *)
NoBlockSkipped ==
  done # 0 => \A n \in Start .. done :
                n \in processed \/ (bldPc = "process" /\ n = bldBlock)

(* Whatever is behind the scanner is on its way or reported, also after    *)
(* the idle scanner stepped back to the last dispatched block.             *)
NothingLeftBehind ==
  \A n \in Start .. next - 1 : n \in dispatched \union InFlight

(* Once the orchestrator pushes heads directly, the switch from scan to    *)
(* heads has left no gap: every block of the chain was reported, is on its *)
(* way, is still queued as a head, or is a head the pipeline lost.         *)
(* (orchestrator.go:113-115, "to make sure we didn't miss any of them on   *)
(* scan to idle transition")                                               *)
TransitionCovered ==
  pushHeads =>
    Start .. height \subseteq
      dispatched \union InFlight \union Range(pending) \union Range(heads)
        \union missed

(* Every goroutine of the loop waits for another one: the dispatcher for   *)
(* room in outDispatched, the scanner, the only reader of outDispatched,   *)
(* for room in the block channel or for the orchestrator to take a state   *)
(* change, and the orchestrator for room in the block channel.             *)
CircularWait ==
  /\ bldPc = "report" /\ Len(outDispatched) >= DispatchedCap /\ Len(inBlock) >= BlockCap
  /\ \/ scanPc = "pushBlock"
     \/ scanPc = "pushState" /\ stateSwitch # <<>> /\ pending # <<>>

(* A full block channel slows the scanner down and never stops the         *)
(* pipeline.  (scan_blk.go:25-27, "the push will have to wait for room     *)
(* here and the scanner will be slowed down naturally")                    *)
NoCircularWait == ~CircularWait

(* A block whose head was lost is found by the re-scan as soon as the      *)
(* chain is Hysteresis blocks past its predecessor: every block that old   *)
(* is processed in the end, unless the pipeline is stuck for good.         *)
EventuallyProcessed ==
  \A n \in Start .. MaxHeight :
    (height >= n - 1 + Hysteresis) ~> (n \in processed \/ CircularWait)

=============================================================================
