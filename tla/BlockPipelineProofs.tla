------------------------- MODULE BlockPipelineProofs -------------------------
(***************************************************************************)
(* Proofs about the ring buffer, about BlockPipeline, and about the        *)
(* pipeline's use of such a buffer, for every value of their constants.    *)
(***************************************************************************)
EXTENDS BlockPipeline, Ring, SequenceTheorems, TLAPS

-----------------------------------------------------------------------------
(* The ring buffer keeps its index and depth inside the array, has no hole *)
(* among the values it keeps, and implements the list of the newest values *)
(* for every capacity.  The refinement needs both parts of the inductive   *)
(* invariant, NoHole because a hole would cut a list short.                *)
RingInv == RingTypeOK /\ NoHole

-----------------------------------------------------------------------------
(* The place of the value i behind the head is inside the array. *)
LEMMA BehindInRange ==
  ASSUME RingTypeOK, NEW i \in 0 .. depth - 1
  PROVE  Behind(i) \in Index
  BY RingAssumption DEF RingTypeOK, Index, Behind

(* Two values less than Capacity apart are in different places. *)
LEMMA BehindApart ==
  ASSUME RingTypeOK, NEW i \in 0 .. Capacity - 1, NEW j \in 0 .. Capacity - 1, i # j
  PROVE  Behind(i) # Behind(j)
  BY RingAssumption DEF RingTypeOK, Index, Behind

(* After an Add the new value is at the head, and what was i behind the    *)
(* head is i + 1 behind it, at the place it was before.                    *)
LEMMA AddShifts ==
  ASSUME RingTypeOK, NEW v \in Value, Add(v)
  PROVE  /\ RingTypeOK'
         /\ Behind(0)' = head'
         /\ nodes'[head'] = v
         /\ \A i \in 1 .. depth' - 1 :
              /\ i - 1 \in 0 .. depth - 1
              /\ Behind(i)' = Behind(i - 1)
              /\ nodes'[Behind(i - 1)] = nodes[Behind(i - 1)]
<1>1. head' \in Index /\ depth' \in 0 .. Capacity
  BY RingAssumption DEF RingTypeOK, Add, Advance, Deeper, Index
<1>2. nodes' = [nodes EXCEPT ![head'] = v]
  BY DEF Add
<1>3. nodes' \in [Index -> Value \union {Nil}]
  BY <1>1, <1>2 DEF RingTypeOK
<1>4. RingTypeOK'
  BY <1>1, <1>3 DEF RingTypeOK, Add
<1>5. Behind(0)' = head'
  BY RingAssumption DEF RingTypeOK, Add, Advance, Index, Behind
<1>6. nodes'[head'] = v
  BY <1>1, <1>2 DEF RingTypeOK
<1>7. ASSUME NEW i \in 1 .. depth' - 1
      PROVE  /\ i - 1 \in 0 .. depth - 1
             /\ Behind(i)' = Behind(i - 1)
             /\ nodes'[Behind(i - 1)] = nodes[Behind(i - 1)]
  <2>1. i - 1 \in 0 .. depth - 1
    BY RingAssumption DEF RingTypeOK, Add, Deeper
  <2>2. i \in 0 .. Capacity - 1
    BY RingAssumption DEF RingTypeOK, Add, Deeper
  <2>3. Behind(i)' = Behind(i - 1)
    BY <2>2, RingAssumption DEF RingTypeOK, Behind, Add, Advance, Index
  <2>4. Behind(i - 1) # head'
    BY <2>2, RingAssumption DEF RingTypeOK, Behind, Add, Advance, Index
  <2>5. Behind(i - 1) \in Index
    BY <2>1, BehindInRange
  <2> QED
    BY <2>1, <2>3, <2>4, <2>5, <1>2 DEF RingTypeOK
<1> QED
  BY <1>4, <1>5, <1>6, <1>7

(* Where there is no hole, a list of n values is as long as it can be. *)
LEMMA ListComplete ==
  ASSUME RingInv, NEW n \in 0 .. Capacity
  PROVE  Holes(n) = {} /\ Loaded(n) = Limit(n) /\ Limit(n) \in 0 .. depth
<1>1. Limit(n) \in 0 .. depth
  BY RingAssumption DEF RingInv, RingTypeOK, Limit
<1>2. Holes(n) = {}
  BY <1>1 DEF RingInv, RingTypeOK, NoHole, Holes
<1> QED
  BY <1>1, <1>2 DEF Loaded

(* The values kept are a sequence of the values added, as long as deep. *)
LEMMA ItemsType ==
  ASSUME RingInv
  PROVE  Items \in Seq(Value) /\ Len(Items) = depth
<1>1. depth \in Nat
  BY RingAssumption DEF RingInv, RingTypeOK
<1>2. ASSUME NEW i \in 1 .. depth PROVE nodes[Behind(i - 1)] \in Value
  <2>1. i - 1 \in 0 .. depth - 1
    BY <1>1
  <2>2. Behind(i - 1) \in Index /\ nodes[Behind(i - 1)] # Nil
    BY <2>1, BehindInRange DEF RingInv, NoHole
  <2> QED
    BY <2>2 DEF RingInv, RingTypeOK
<1>3. Items \in [1 .. depth -> Value]
  BY <1>2 DEF Items
<1> QED
  BY <1>1, <1>3, SeqDef, LenProperties

-----------------------------------------------------------------------------
(* The three facts of the inductive invariant. *)
LEMMA RingInvInit == RingInit => RingInv
  BY RingAssumption DEF RingInit, RingInv, RingTypeOK, NoHole, Index

LEMMA RingInvStep == RingInv /\ [RingNext]_ringVars => RingInv'
<1> SUFFICES ASSUME RingInv, [RingNext]_ringVars PROVE RingInv'
  OBVIOUS
<1>1. ASSUME NEW v \in Value, Add(v) PROVE RingInv'
  <2>1. RingTypeOK'
    BY <1>1, AddShifts DEF RingInv
  <2>2. ASSUME NEW i \in 0 .. depth' - 1 PROVE nodes'[Behind(i)'] # Nil
    <3>1. CASE i = 0
      BY <1>1, <3>1, AddShifts, RingAssumption DEF RingInv
    <3>2. CASE i # 0
      <4>1. i \in 1 .. depth' - 1
        BY <1>1, <3>2, RingAssumption DEF Add, Deeper, RingInv, RingTypeOK
      <4>2. /\ i - 1 \in 0 .. depth - 1
            /\ nodes'[Behind(i)'] = nodes[Behind(i - 1)]
        BY <1>1, <4>1, AddShifts DEF RingInv
      <4> QED
        BY <4>2 DEF RingInv, NoHole
    <3> QED
      BY <3>1, <3>2
  <2> QED
    BY <2>1, <2>2 DEF RingInv, NoHole
<1>2. CASE Reset
  BY <1>2, RingAssumption DEF Reset, RingInv, RingTypeOK, NoHole
<1>3. ASSUME NEW n \in 0 .. Capacity, List(n) PROVE RingInv'
  <2>1. Loaded(n) \in 0 .. depth
    BY ListComplete
  <2>2. taken' \in Seq(Value)
    <3>1. Loaded(n) \in Nat
      BY <2>1, RingAssumption DEF RingInv, RingTypeOK
    <3>2. ASSUME NEW i \in 1 .. Loaded(n) PROVE nodes[Behind(i - 1)] \in Value
      <4>1. i - 1 \in 0 .. depth - 1
        BY <2>1, RingAssumption DEF RingInv, RingTypeOK
      <4>2. Behind(i - 1) \in Index /\ nodes[Behind(i - 1)] # Nil
        BY <4>1, BehindInRange DEF RingInv, NoHole
      <4> QED
        BY <4>2 DEF RingInv, RingTypeOK
    <3>3. taken' \in [1 .. Loaded(n) -> Value]
      BY <1>3, <3>2 DEF List
    <3> QED
      BY <3>1, <3>3, SeqDef
  <2> QED
    BY <1>3, <2>2 DEF List, RingInv, RingTypeOK, NoHole, Behind
<1>4. CASE UNCHANGED ringVars
  BY <1>4 DEF ringVars, RingInv, RingTypeOK, NoHole, Behind
<1> QED
  BY <1>1, <1>2, <1>3, <1>4 DEF RingNext

LEMMA RingInvAlways == RingSpec => []RingInv
  BY RingInvInit, RingInvStep, PTL DEF RingSpec

(* For every capacity the index and the depth stay inside the array        *)
(* (ring.go:40-50).                                                        *)
THEOREM RingTypeCorrect == RingSpec => []RingTypeOK
  BY RingInvAlways, PTL DEF RingInv

(* For every capacity no list is cut short by an empty node (ring.go:86-90). *)
THEOREM NeverAHole == RingSpec => []NoHole
  BY RingInvAlways, PTL DEF RingInv

-----------------------------------------------------------------------------
(* The refinement: each operation of the array is the operation of the     *)
(* list, or leaves it alone.                                               *)
LEMMA AddImplements ==
  ASSUME RingInv, RingInv', NEW v \in Value, Add(v)
  PROVE  Abstract!Add(v)
<1> DEFINE New == [i \in 1 .. Abstract!Lesser(Len(Items) + 1, Capacity) |->
                     IF i = 1 THEN v ELSE Items[i - 1]]
<1>1. Len(Items) = depth
  BY ItemsType
<1>2. Abstract!Lesser(Len(Items) + 1, Capacity) = depth'
  BY <1>1, RingAssumption DEF Abstract!Lesser, Add, Deeper, RingInv, RingTypeOK
<1>3. ASSUME NEW i \in 1 .. depth'
      PROVE  nodes'[Behind(i - 1)'] = (IF i = 1 THEN v ELSE Items[i - 1])
  <2>1. CASE i = 1
    BY <2>1, AddShifts DEF RingInv
  <2>2. CASE i # 1
    <3>1. i - 1 \in 1 .. depth' - 1 /\ i - 1 \in 1 .. depth
      BY <2>2, RingAssumption DEF Add, Deeper, RingInv, RingTypeOK
    <3>2. nodes'[Behind(i - 1)'] = nodes[Behind((i - 1) - 1)]
      BY <3>1, AddShifts DEF RingInv
    <3>3. Items[i - 1] = nodes[Behind((i - 1) - 1)]
      BY <3>1 DEF Items
    <3> QED
      BY <2>2, <3>2, <3>3
  <2> QED
    BY <2>1, <2>2
<1>4. Items' = [i \in 1 .. depth' |-> nodes'[Behind(i - 1)']]
  BY DEF Items
<1>5. Items' = New
  BY <1>2, <1>3, <1>4
<1> QED
  BY <1>5 DEF Abstract!Add, Add

LEMMA ListImplements ==
  ASSUME RingInv, NEW n \in 0 .. Capacity, List(n)
  PROVE  Abstract!Take(n)
<1>1. Len(Items) = depth
  BY ItemsType
<1>2. Loaded(n) = Abstract!Lesser(n, Len(Items)) /\ Loaded(n) \in 0 .. depth
  BY <1>1, ListComplete, RingAssumption DEF Abstract!Lesser, Limit, RingInv, RingTypeOK
<1>3. \A i \in 1 .. Loaded(n) : Items[i] = nodes[Behind(i - 1)]
  <2>1. \A i \in 1 .. Loaded(n) : i \in 1 .. depth
    BY <1>2, RingAssumption DEF RingInv, RingTypeOK
  <2> QED
    BY <2>1 DEF Items
<1>4. taken' = [i \in 1 .. Abstract!Lesser(n, Len(Items)) |-> Items[i]]
  BY <1>2, <1>3 DEF List
<1>5. Items' = Items
  BY DEF List, Items, Behind
<1> QED
  BY <1>4, <1>5 DEF Abstract!Take

LEMMA ResetImplements == ASSUME Reset PROVE Abstract!Reset
<1>1. Items' = [i \in 1 .. 0 |-> nodes'[Behind(i - 1)']]
  BY DEF Items, Reset
<1>2. Items' = << >>
  BY <1>1
<1> QED
  BY <1>2 DEF Abstract!Reset, Reset

LEMMA RingInitImplements == RingInit => Abstract!Init
<1> SUFFICES ASSUME RingInit PROVE Abstract!Init
  OBVIOUS
<1>1. Items = [i \in 1 .. 0 |-> nodes[Behind(i - 1)]]
  BY DEF Items, RingInit
<1>2. Items = << >>
  BY <1>1
<1> QED
  BY <1>2 DEF Abstract!Init, RingInit

LEMMA RingStepImplements ==
  RingInv /\ RingInv' /\ [RingNext]_ringVars => [Abstract!Next]_Abstract!vars
<1> SUFFICES ASSUME RingInv, RingInv', [RingNext]_ringVars
             PROVE  [Abstract!Next]_Abstract!vars
  OBVIOUS
<1>1. ASSUME NEW v \in Value, Add(v) PROVE Abstract!Next
  BY <1>1, AddImplements DEF Abstract!Next
<1>2. CASE Reset
  BY <1>2, ResetImplements DEF Abstract!Next
<1>3. ASSUME NEW n \in 0 .. Capacity, List(n) PROVE Abstract!Next
  BY <1>3, ListImplements DEF Abstract!Next
<1>4. CASE UNCHANGED ringVars
  <2>1. Items' = Items
    BY <1>4 DEF ringVars, Items, Behind
  <2> QED
    BY <1>4, <2>1 DEF ringVars, Abstract!vars
<1> QED
  BY <1>1, <1>2, <1>3, <1>4 DEF RingNext

(* For every capacity the ring buffer does what its readers are promised:  *)
(* it is a list of the newest values, of which only the oldest one is lost *)
(* when it is full (ring.go:34-94).                                        *)
THEOREM RingImplements == RingSpec => ImplementsNewestFirst
<1>1. RingSpec => Abstract!Init
  BY RingInitImplements DEF RingSpec
<1>2. RingSpec => [][Abstract!Next]_Abstract!vars
  BY RingInvAlways, RingStepImplements, PTL DEF RingSpec
<1> QED
  BY <1>1, <1>2 DEF ImplementsNewestFirst, Abstract!Spec

-----------------------------------------------------------------------------
(* The block pipeline. *)

USE ChainAssumption, CapacityAssumption, BoundAssumption

-----------------------------------------------------------------------------
(* The scan starts at a block of the chain behind the genesis. *)
LEMMA StartInChain == Start \in Block /\ Start >= 1 /\ Start <= InitHeight
  BY DEF Start, Block

LEMMA BlockDef == \A n : n \in Block <=> n \in Nat /\ n <= MaxHeight
  BY DEF Block

(* What a push to a channel and a receive from it do to its contents. *)
LEMMA ChannelPush ==
  ASSUME NEW S, NEW s \in Seq(S), NEW e \in S
  PROVE  Append(s, e) \in Seq(S) /\ Len(Append(s, e)) = Len(s) + 1
  BY AppendProperties

LEMMA ChannelReceive ==
  ASSUME NEW S, NEW s \in Seq(S), s # <<>>
  PROVE  Head(s) \in S /\ Tail(s) \in Seq(S) /\ Len(Tail(s)) = Len(s) - 1
  BY HeadTailProperties

LEMMA FlagPush ==
  ASSUME NEW f \in BOOLEAN, NEW s \in Seq(BOOLEAN)
  PROVE  Append(s, f) \in Seq(BOOLEAN) /\ Len(Append(s, f)) = Len(s) + 1
<1>1. Append(s, f) \in Seq(BOOLEAN)
  BY AppendProperties
<1>2. Len(Append(s, f)) = Len(s) + 1
  BY AppendProperties
<1> QED
  BY <1>1, <1>2

(* Adding to the ring never grows it over its capacity. *)
LEMMA RingAddBounded ==
  ASSUME NEW r \in Seq(Block), NEW b \in Block, Len(r) <= RingCap
  PROVE  RingAdd(r, b) \in Seq(Block) /\ Len(RingAdd(r, b)) <= RingCap
<1> DEFINE s == <<b>> \o r
           n == IF Len(r) < RingCap THEN Len(r) + 1 ELSE RingCap
<1>1. s \in Seq(Block) /\ Len(s) = Len(r) + 1
  OBVIOUS
<1>2. n \in 0 .. Len(s) /\ n <= RingCap
  BY <1>1
<1>3. SubSeq(s, 1, n) \in Seq(Block) /\ Len(SubSeq(s, 1, n)) = n
  BY <1>1, <1>2
<1> QED
  BY <1>2, <1>3 DEF RingAdd

-----------------------------------------------------------------------------
(* Type correctness, one lemma for the steps of each goroutine. *)

LEMMA InitType == Init => TypeOK
<1> SUFFICES ASSUME Init PROVE TypeOK
  OBVIOUS
<1>1. FlagType
  BY EmptySeq DEF Init, FlagType
<1>2. ChannelType
  BY EmptySeq DEF Init, ChannelType
<1> QED
  BY <1>1, <1>2, StartInChain, BlockDef DEF Init, TypeOK, NodeType, ScannerType, DispatcherType

LEMMA NodeStepType ==
  ASSUME TypeOK, NewHead \/ NewHeadLost
  PROVE  TypeOK'
<1> USE BlockDef DEF TypeOK, scanVars, orVars, bldVars, chanVars
<1>1. NodeType' /\ height' \in Block
  BY DEF NewHead, NewHeadLost, NodeType
<1>2. FlagType' /\ ScannerType'
  BY DEF NewHead, NewHeadLost, FlagType, ScannerType
<1>3. ChannelType'
  <2>1. CASE NewHead
    <3>1. heads' \in Seq(Block) /\ Len(heads') = Len(heads) + 1
      BY <1>1, <2>1, ChannelPush DEF NewHead, ChannelType
    <3> QED
      BY <2>1, <3>1 DEF NewHead, ChannelType
  <2>2. CASE NewHeadLost
    BY <2>2 DEF NewHeadLost, ChannelType
  <2> QED
    BY <2>1, <2>2
<1>4. DispatcherType'
  BY <1>1 DEF NewHead, NewHeadLost, DispatcherType
<1> QED
  BY <1>1, <1>2, <1>3, <1>4

LEMMA UpdateStateType ==
  ASSUME NEW t \in BOOLEAN, onIdle \in BOOLEAN, UpdateState(t)
  PROVE  scanPc' \in {"select", "pushState"} /\ onIdle' \in BOOLEAN
<1>1. CASE t = onIdle
  BY <1>1 DEF UpdateState
<1>2. CASE t # onIdle
  BY <1>2 DEF UpdateState
<1> QED
  BY <1>1, <1>2

LEMMA ObserveUpdates ==
  ASSUME Observe, onIdle \in BOOLEAN
  PROVE  scanPc' \in {"select", "pushState"} /\ onIdle' \in BOOLEAN
<1>1. Scanned(height) \in BOOLEAN
  BY DEF Scanned
<1>2. \E t \in BOOLEAN : UpdateState(t)
  BY <1>1 DEF Observe, ObserveFails, ObserveIdling, ObserveTarget
<1> QED
  BY <1>2, UpdateStateType

LEMMA ObserveNumbers ==
  ASSUME Observe
  PROVE  /\ errors' = errors \/ (errors < MaxErrors /\ errors' = errors + 1)
         /\ next' \in {next, done}
         /\ to' \in {to, height}
<1>1. CASE ObserveFails
  <2>1. errors < MaxErrors /\ errors' = errors + 1 /\ next' = next /\ to' = to
    BY <1>1, Zenon DEF ObserveFails, CallFails
  <2> QED
    BY <2>1
<1>2. CASE ObserveIdling
  <2>1. errors' = errors /\ next' = done /\ to' = to
    BY <1>2, Zenon DEF ObserveIdling, CallSucceeds, RescanFrom
  <2> QED
    BY <2>1
<1>3. CASE ObserveTarget
  <2>1. errors' = errors /\ next' = next /\ to' = height
    BY <1>3, Zenon DEF ObserveTarget, CallSucceeds
  <2> QED
    BY <2>1
<1> QED
  BY <1>1, <1>2, <1>3 DEF Observe

LEMMA ObserveType ==
  ASSUME TypeOK, Observe, scanPc = "select",
         UNCHANGED <<height, heads, lost, done, chanVars, orVars, bldVars, missed>>
  PROVE  TypeOK'
<1> USE BlockDef DEF TypeOK, orVars, bldVars, chanVars
<1>1. NodeType'
  BY ObserveNumbers DEF NodeType
<1>2. scanPc' \in {"select", "pushState"} /\ onIdle' \in BOOLEAN
  BY ObserveUpdates DEF FlagType
<1>3. ScannerType'
  <2>1. next' \in 0 .. MaxHeight + 1 /\ to' \in Block /\ done' \in Block
    BY ObserveNumbers DEF NodeType, ScannerType
  <2> QED
    BY <1>2, <2>1 DEF ScannerType
<1>5. FlagType'
  BY <1>2 DEF FlagType
<1>6. ChannelType' /\ DispatcherType'
  BY DEF ChannelType, DispatcherType
<1> QED
  BY <1>1, <1>3, <1>5, <1>6

LEMMA ScannerStepType ==
  ASSUME TypeOK, Scanner
  PROVE  TypeOK'
<1> USE BlockDef DEF TypeOK, nodeVars, orVars, bldVars, chanVars, CallFails, CallSucceeds
<1>1. CASE ScanStart
  <2>1. NodeType' /\ ScannerType'
    BY <1>1 DEF ScanStart, NodeType, ScannerType
  <2>2. FlagType' /\ ChannelType' /\ DispatcherType'
    BY <1>1 DEF ScanStart, FlagType, ChannelType, DispatcherType
  <2> QED
    BY <2>1, <2>2
<1>2. CASE ObserveTick \/ ShiftAtEnd
  BY <1>2, ObserveType DEF ObserveTick, ShiftAtEnd
<1>3. CASE ShiftPull
  <2>1. NodeType' /\ ScannerType'
    BY <1>3 DEF ShiftPull, NodeType, ScannerType
  <2>2. FlagType' /\ ChannelType' /\ DispatcherType'
    BY <1>3 DEF ShiftPull, FlagType, ChannelType, DispatcherType
  <2> QED
    BY <2>1, <2>2
<1>4. CASE ScanPushBlock
  <2>1. NodeType' /\ FlagType' /\ DispatcherType'
    BY <1>4 DEF ScanPushBlock, NodeType, FlagType, DispatcherType
  <2>4. ScannerType'
    BY <1>4 DEF ScanPushBlock, ScannerType
  <2>2. inBlock' \in Seq(Block) /\ Len(inBlock') = Len(inBlock) + 1
    <3>1. next \in Block
      BY <1>4 DEF ScanPushBlock, ScannerType
    <3>2. inBlock \in Seq(Block) /\ inBlock' = Append(inBlock, next)
      BY <1>4, Zenon DEF ScanPushBlock, ChannelType
    <3> QED
      BY <3>1, <3>2, ChannelPush, Zenon
  <2>3. ChannelType'
    BY <1>4, <2>2, LenProperties DEF ScanPushBlock, ChannelType
  <2> QED
    BY <2>1, <2>3, <2>4
<1>5. CASE ScanPushState
  <2>1. NodeType' /\ ScannerType' /\ DispatcherType'
    BY <1>5 DEF ScanPushState, NodeType, ScannerType, DispatcherType
  <2>2. stateSwitch' \in Seq(BOOLEAN) /\ Len(stateSwitch') = Len(stateSwitch) + 1
    <3>1. onIdle \in BOOLEAN /\ stateSwitch \in Seq(BOOLEAN) /\ stateSwitch' = Append(stateSwitch, onIdle)
      BY <1>5 DEF ScanPushState, FlagType
    <3> QED
      BY <3>1, FlagPush, Zenon
  <2>3. FlagType'
    BY <1>5, <2>2 DEF ScanPushState, FlagType
  <2>4. Len(stateSwitch') <= 1
    BY <1>5, <2>2, LenProperties DEF ScanPushState, FlagType
  <2>5. ChannelType'
    BY <1>5, <2>4 DEF ScanPushState, ChannelType
  <2> QED
    BY <2>1, <2>3, <2>5
<1>6. CASE ScanDispatched
  <2>1. /\ Head(outDispatched) \in Block /\ outDispatched' \in Seq(Block)
        /\ Len(outDispatched') = Len(outDispatched) - 1
    BY <1>6, ChannelReceive DEF ScanDispatched, ChannelType
  <2>2. NodeType' /\ ScannerType' /\ FlagType' /\ DispatcherType'
    BY <1>6, <2>1 DEF ScanDispatched, NodeType, ScannerType, FlagType, DispatcherType
  <2>3. ChannelType'
    BY <1>6, <2>1, LenProperties DEF ScanDispatched, ChannelType
  <2> QED
    BY <2>2, <2>3
<1> QED
  BY <1>1, <1>2, <1>3, <1>4, <1>5, <1>6 DEF Scanner

LEMMA OrchestratorStepType ==
  ASSUME TypeOK, Orchestrator
  PROVE  TypeOK'
<1> USE DEF TypeOK, nodeVars, scanVars, bldVars, chanVars, CallFails, CallSucceeds
<1>1. ASSUME heads # <<>>
      PROVE  /\ Head(heads) \in Block /\ Tail(heads) \in Seq(Block)
             /\ Len(Tail(heads)) = Len(heads) - 1 /\ Len(heads) \in Nat
  BY <1>1, ChannelReceive, LenProperties DEF ChannelType
<1>2. CASE OrHeadDropped
  BY <1>1, <1>2 DEF OrHeadDropped, orVars, NodeType, ScannerType, FlagType, ChannelType, DispatcherType
<1>3. CASE OrHeadPushed
  <2>1. pending' \in Seq(Block) /\ Len(pending') <= RingCap
    BY <1>1, <1>3 DEF OrHeadPushed
  <2>2. ChannelType'
    BY <1>1, <1>3, <2>1 DEF OrHeadPushed, ChannelType
  <2> QED
    BY <1>3, <2>2 DEF OrHeadPushed, NodeType, ScannerType, FlagType, DispatcherType
<1>4. CASE OrHeadCached
  <2>1. ring' \in Seq(Block) /\ Len(ring') <= RingCap
    BY <1>1, <1>4, RingAddBounded DEF OrHeadCached, ChannelType
  <2>2. ChannelType'
    BY <1>1, <1>4, <2>1 DEF OrHeadCached, ChannelType
  <2>3. RingDrops(ring) \subseteq Block
    <3>1. CASE Len(ring) < RingCap
      BY <3>1 DEF RingDrops
    <3>2. CASE ~(Len(ring) < RingCap)
      <4>1. Len(ring) \in 1 .. Len(ring)
        BY <3>2, LenProperties DEF ChannelType
      <4> QED
        BY <3>2, <4>1, ElementOfSeq DEF RingDrops, ChannelType
    <3> QED
      BY <3>1, <3>2
  <2>4. DispatcherType'
    BY <1>4, <2>3 DEF OrHeadCached, DispatcherType
  <2> QED
    BY <1>4, <2>2, <2>4 DEF OrHeadCached, NodeType, ScannerType, FlagType
<1>5. CASE OrStateSwitch
  <2>1. /\ Head(stateSwitch) \in BOOLEAN /\ Tail(stateSwitch) \in Seq(BOOLEAN)
        /\ Len(Tail(stateSwitch)) = Len(stateSwitch) - 1 /\ Len(stateSwitch) \in Nat
    BY <1>5, ChannelReceive, LenProperties DEF OrStateSwitch, FlagType
  <2>2. FlagType'
    BY <1>5, <2>1 DEF OrStateSwitch, FlagType
  <2>3. /\ ring' \in Seq(Block) /\ Len(ring') <= RingCap
        /\ pending' \in Seq(Block) /\ Len(pending') <= RingCap
    <3>1. CASE Head(stateSwitch)
      BY <1>5, <3>1, EmptySeq DEF OrStateSwitch, Unload, ChannelType
    <3>2. CASE ~Head(stateSwitch)
      BY <1>5, <3>2, EmptySeq DEF OrStateSwitch, Unload, ChannelType
    <3> QED
      BY <3>1, <3>2
  <2>4. Len(stateSwitch') <= 1
    <3>1. stateSwitch' = Tail(stateSwitch)
      BY <1>5, Zenon DEF OrStateSwitch
    <3>2. Len(Tail(stateSwitch)) <= 1
      BY <2>1 DEF ChannelType
    <3> QED
      BY <3>1, <3>2, Zenon
  <2>5. ChannelType'
    BY <1>5, <2>3, <2>4 DEF OrStateSwitch, ChannelType
  <2> QED
    BY <1>5, <2>2, <2>5 DEF OrStateSwitch, NodeType, ScannerType, DispatcherType
<1>6. CASE OrPush
  <2>1. /\ Head(pending) \in Block /\ Tail(pending) \in Seq(Block)
        /\ Len(Tail(pending)) = Len(pending) - 1 /\ Len(pending) \in Nat
    BY <1>6, ChannelReceive, LenProperties DEF OrPush, ChannelType
  <2>2. inBlock' \in Seq(Block) /\ Len(inBlock') = Len(inBlock) + 1 /\ Len(inBlock) \in Nat
    BY <1>6, <2>1, ChannelPush, LenProperties DEF OrPush, ChannelType
  <2>3. ChannelType'
    BY <1>6, <2>1, <2>2 DEF OrPush, ChannelType
  <2> QED
    BY <1>6, <2>3 DEF OrPush, NodeType, ScannerType, FlagType, DispatcherType
<1> QED
  BY <1>2, <1>3, <1>4, <1>5, <1>6 DEF Orchestrator

LEMMA DispatcherStepType ==
  ASSUME TypeOK, Dispatcher
  PROVE  TypeOK'
<1> USE DEF TypeOK, nodeVars, scanVars, orVars, chanVars
<1>1. NodeType' /\ ScannerType' /\ FlagType'
  BY DEF Dispatcher, DispatcherTake, DispatcherReport, DispatcherProcess,
         NodeType, ScannerType, FlagType
<1>2. CASE DispatcherTake
  <2>1. /\ Head(inBlock) \in Block /\ Tail(inBlock) \in Seq(Block)
        /\ Len(Tail(inBlock)) = Len(inBlock) - 1 /\ Len(inBlock) \in Nat
    BY <1>2, ChannelReceive, LenProperties DEF DispatcherTake, ChannelType
  <2>2. ChannelType' /\ DispatcherType'
    BY <1>2, <2>1 DEF DispatcherTake, ChannelType, DispatcherType
  <2> QED
    BY <1>1, <2>2
<1>3. CASE DispatcherReport
  <2>1. /\ outDispatched' \in Seq(Block) /\ Len(outDispatched') = Len(outDispatched) + 1
        /\ Len(outDispatched) \in Nat
    BY <1>3, ChannelPush, LenProperties DEF DispatcherReport, ChannelType, DispatcherType
  <2>2. ChannelType' /\ DispatcherType'
    BY <1>3, <2>1 DEF DispatcherReport, ChannelType, DispatcherType
  <2> QED
    BY <1>1, <2>2
<1>4. CASE DispatcherProcess
  BY <1>1, <1>4 DEF DispatcherProcess, ChannelType, DispatcherType
<1> QED
  BY <1>2, <1>3, <1>4 DEF Dispatcher

LEMMA TypeStep == TypeOK /\ [Next]_vars => TypeOK'
<1>1. TypeOK /\ UNCHANGED vars => TypeOK'
  BY DEF vars, nodeVars, scanVars, chanVars, orVars, bldVars, TypeOK,
         NodeType, ScannerType, FlagType, ChannelType, DispatcherType
<1> QED
  BY <1>1, NodeStepType, ScannerStepType, OrchestratorStepType, DispatcherStepType DEF Next

(* Variables stay in their ranges and no channel, cache or push list grows *)
(* over its capacity, whatever the capacities are: a goroutine that finds  *)
(* a channel full waits.                                                   *)
THEOREM TypeCorrect == Spec => []TypeOK
  BY InitType, TypeStep, PTL DEF Spec

-----------------------------------------------------------------------------
(* NoBlockSkipped and NothingLeftBehind.  Neither is inductive: that the   *)
(* counter starts at the first block of the scan, and not at a head that   *)
(* overtook it, needs the whole way of that first block to the counter.    *)

(* The dispatcher is through with what it reported, but for one block. *)
Forwarded ==
  \A n \in dispatched : n \in processed \/ (bldPc = "process" /\ n = bldBlock)

(* Only dispatched blocks are reported, and the counter runs over no hole. *)
CounterBehind ==
  /\ \A i \in DOMAIN outDispatched : outDispatched[i] \in dispatched
  /\ done # 0 => done >= Start /\ Start .. done \subseteq dispatched

(* The first report the counter will see is the one of the first block. *)
FirstReport ==
  done = 0 => /\ outDispatched # <<>> => outDispatched[1] = Start
              /\ outDispatched = <<>> => dispatched = {}

(* Nothing was scanned yet, and nothing else can reach the dispatcher. *)
Fresh ==
  /\ next = Start /\ ~onIdle /\ scanPc # "pushState"
  /\ ~pushHeads /\ stateSwitch = <<>> /\ pending = <<>>

(* Until something is dispatched, the first block is the first on the way. *)
FirstBlock ==
  dispatched = {} =>
    /\ done = 0 /\ bldPc # "process"
    /\ bldPc = "report" => bldBlock = Start
    /\ bldPc = "select" /\ inBlock # <<>> => inBlock[1] = Start
    /\ bldPc = "select" /\ inBlock = <<>> => Fresh

(* The inductive invariant. *)
ScanInv ==
  /\ TypeOK /\ height >= Start
  /\ Forwarded /\ CounterBehind /\ FirstReport /\ FirstBlock /\ NothingLeftBehind

LEMMA PushContents ==
  ASSUME NEW S, NEW s \in Seq(S), NEW e \in S
  PROVE  /\ Append(s, e) # <<>>
         /\ Append(s, e)[1] = (IF s = <<>> THEN e ELSE s[1])
         /\ \A i \in DOMAIN Append(s, e) : Append(s, e)[i] = e \/ \E j \in DOMAIN s : Append(s, e)[i] = s[j]
         /\ Range(Append(s, e)) = Range(s) \union {e}
<1>1. /\ Len(s) \in Nat /\ DOMAIN s = 1 .. Len(s)
      /\ DOMAIN Append(s, e) = 1 .. Len(s) + 1
      /\ \A i \in 1 .. Len(s) : Append(s, e)[i] = s[i]
      /\ Append(s, e)[Len(s) + 1] = e
  BY AppendProperties, LenProperties
<1>2. s = <<>> <=> Len(s) = 0
  BY EmptySeq
<1> QED
  BY <1>1, <1>2 DEF Range

LEMMA ReceiveContents ==
  ASSUME NEW S, NEW s \in Seq(S), s # <<>>
  PROVE  /\ Head(s) = s[1] /\ 1 \in DOMAIN s
         /\ \A i \in DOMAIN Tail(s) : \E j \in DOMAIN s : Tail(s)[i] = s[j]
         /\ Range(s) = Range(Tail(s)) \union {Head(s)}
<1>1. /\ Len(s) \in Nat /\ Len(s) >= 1 /\ DOMAIN s = 1 .. Len(s)
      /\ DOMAIN Tail(s) = 1 .. Len(s) - 1
      /\ \A i \in 1 .. Len(s) - 1 : Tail(s)[i] = s[i + 1]
      /\ Head(s) = s[1]
  BY HeadTailProperties, LenProperties, EmptySeq
<1>2. \A i \in DOMAIN s : i = 1 \/ i - 1 \in DOMAIN Tail(s)
  BY <1>1
<1> QED
  BY <1>1, <1>2 DEF Range

LEMMA InitScanInv == Init => ScanInv
<1> SUFFICES ASSUME Init PROVE ScanInv
  OBVIOUS
<1>1. TypeOK
  BY InitType
<1>2. height >= Start /\ Forwarded /\ CounterBehind /\ FirstReport /\ FirstBlock
  BY StartInChain DEF Init, Forwarded, CounterBehind, FirstReport, FirstBlock, Fresh
<1>3. NothingLeftBehind
  BY StartInChain, BlockDef DEF Init, NothingLeftBehind
<1> QED
  BY <1>1, <1>2, <1>3 DEF ScanInv

(* The reports, up to the counter. *)
LEMMA TakeReports ==
  ASSUME ScanInv, DispatcherTake
  PROVE  Forwarded' /\ CounterBehind' /\ FirstReport' /\ FirstBlock' /\ NothingLeftBehind'
<1> USE DEF ScanInv, DispatcherTake, scanVars, orVars, nodeVars
<1>1. Forwarded'
  BY DEF Forwarded
<1>2. CounterBehind' /\ FirstReport'
  BY DEF CounterBehind, FirstReport
<1>3. inBlock \in Seq(Block) /\ inBlock # <<>>
  BY DEF TypeOK, ChannelType
<1>4. /\ Head(inBlock) = inBlock[1]
      /\ Range(inBlock) = Range(Tail(inBlock)) \union {Head(inBlock)}
  BY <1>3, ReceiveContents
<1>5. FirstBlock'
  <2> SUFFICES ASSUME dispatched' = {} PROVE FirstBlock'
    BY DEF FirstBlock
  <2>1. done = 0 /\ inBlock[1] = Start
    BY <1>3 DEF FirstBlock
  <2> QED
    BY <2>1, <1>4 DEF FirstBlock
<1>6. InFlight \subseteq InFlight'
  BY <1>4 DEF InFlight
<1>7. next' = next /\ dispatched' = dispatched
  OBVIOUS
<1> QED
  BY <1>1, <1>2, <1>5, <1>6, <1>7 DEF NothingLeftBehind

LEMMA ReportReports ==
  ASSUME ScanInv, DispatcherReport
  PROVE  Forwarded' /\ CounterBehind' /\ FirstReport' /\ FirstBlock' /\ NothingLeftBehind'
<1> USE DEF ScanInv, DispatcherReport, scanVars, orVars, nodeVars
<1>1. /\ outDispatched \in Seq(Block) /\ bldBlock \in Block
      /\ dispatched' = dispatched \union {bldBlock}
      /\ outDispatched' = Append(outDispatched, bldBlock) /\ done' = done
  BY DEF TypeOK, ChannelType, DispatcherType
<1>2. /\ outDispatched' # <<>>
      /\ outDispatched'[1] = (IF outDispatched = <<>> THEN bldBlock ELSE outDispatched[1])
      /\ \A i \in DOMAIN outDispatched' :
            outDispatched'[i] = bldBlock \/ \E j \in DOMAIN outDispatched : outDispatched'[i] = outDispatched[j]
  BY <1>1, PushContents
<1>3. Forwarded'
  BY <1>1 DEF Forwarded
<1>4. CounterBehind'
  BY <1>1, <1>2 DEF CounterBehind
<1>5. FirstReport'
  <2> SUFFICES ASSUME done' = 0 PROVE outDispatched'[1] = Start
    BY <1>2 DEF FirstReport
  <2>1. CASE outDispatched = <<>>
    BY <1>1, <1>2, <2>1 DEF FirstReport, FirstBlock
  <2>2. CASE outDispatched # <<>>
    BY <1>1, <1>2, <2>2 DEF FirstReport
  <2> QED
    BY <2>1, <2>2
<1>6. FirstBlock'
  BY <1>1 DEF FirstBlock
<1>7. InFlight \subseteq InFlight' \union {bldBlock} /\ next' = next
  BY DEF InFlight
<1> QED
  BY <1>1, <1>3, <1>4, <1>5, <1>6, <1>7 DEF NothingLeftBehind

LEMMA ProcessReports ==
  ASSUME ScanInv, DispatcherProcess
  PROVE  Forwarded' /\ CounterBehind' /\ FirstReport' /\ FirstBlock' /\ NothingLeftBehind'
<1> USE DEF ScanInv, DispatcherProcess, scanVars, chanVars, orVars, nodeVars
<1>1. Forwarded'
  BY DEF Forwarded
<1>2. CounterBehind' /\ FirstReport'
  BY DEF CounterBehind, FirstReport
<1>3. FirstBlock'
  BY DEF FirstBlock
<1>4. InFlight \subseteq InFlight' /\ next' = next /\ dispatched' = dispatched
  BY DEF InFlight
<1> QED
  BY <1>1, <1>2, <1>3, <1>4 DEF NothingLeftBehind

LEMMA CounterMoves ==
  ASSUME ScanInv, ScanDispatched
  PROVE  Forwarded' /\ CounterBehind' /\ FirstReport' /\ FirstBlock' /\ NothingLeftBehind'
<1> USE DEF ScanInv, orVars, bldVars, nodeVars
<1> DEFINE bin == Head(outDispatched)
<1>1. /\ outDispatched \in Seq(Block) /\ outDispatched # <<>>
      /\ done' = (IF Accepts(bin) THEN bin ELSE done) /\ outDispatched' = Tail(outDispatched)
      /\ dispatched' = dispatched /\ next' = next /\ inBlock' = inBlock
      /\ bldPc' = bldPc /\ bldBlock' = bldBlock /\ processed' = processed
  BY DEF ScanDispatched, TypeOK, ChannelType
<1>2. /\ bin = outDispatched[1] /\ 1 \in DOMAIN outDispatched
      /\ \A i \in DOMAIN Tail(outDispatched) :
            \E j \in DOMAIN outDispatched : Tail(outDispatched)[i] = outDispatched[j]
  BY <1>1, ReceiveContents
<1>3. bin \in dispatched /\ bin \in Nat /\ done \in Nat
  BY <1>2, <1>1, BlockDef, ElementOfSeq, LenProperties DEF CounterBehind, TypeOK, DispatcherType, ScannerType
<1>4. done = 0 => bin = Start
  BY <1>1, <1>2 DEF FirstReport
<1>5. done' # 0 /\ done' >= Start /\ Start .. done' \subseteq dispatched
  <2>1. CASE done = 0
    BY <1>1, <1>3, <1>4, <2>1, StartInChain, BlockDef DEF Accepts
  <2>2. CASE done # 0 /\ bin - done = 1
    <3>1. done' = done + 1
      BY <1>1, <1>3, <2>2 DEF Accepts
    <3>2. \A n \in Start .. done + 1 : n \in Start .. done \/ n = bin
      BY <1>3, <2>2, StartInChain, BlockDef
    <3> QED
      BY <1>3, <2>2, <3>1, <3>2, StartInChain, BlockDef DEF CounterBehind
  <2>3. CASE done # 0 /\ bin - done # 1
    BY <1>1, <2>3 DEF Accepts, CounterBehind
  <2> QED
    BY <2>1, <2>2, <2>3
<1>6. CounterBehind'
  BY <1>1, <1>2, <1>5 DEF CounterBehind
<1>7. Forwarded' /\ FirstReport' /\ FirstBlock'
  BY <1>1, <1>3, <1>5 DEF Forwarded, FirstReport, FirstBlock
<1>8. NothingLeftBehind'
  BY <1>1 DEF NothingLeftBehind, InFlight
<1> QED
  BY <1>6, <1>7, <1>8

(* Every other step leaves the reports alone. *)
LEMMA ReportsUnchanged ==
  ASSUME ScanInv, UNCHANGED <<done, outDispatched, bldVars>>
  PROVE  Forwarded' /\ CounterBehind' /\ FirstReport'
  BY DEF ScanInv, bldVars, Forwarded, CounterBehind, FirstReport

LEMMA InFlightUnchanged ==
  ASSUME ScanInv, UNCHANGED <<next, inBlock, bldVars>>
  PROVE  NothingLeftBehind'
  BY DEF ScanInv, bldVars, NothingLeftBehind, InFlight

(* A look at the head: a fresh scanner has blocks to scan and stays fresh. *)
LEMMA ObserveFresh ==
  ASSUME ScanInv, Observe, scanPc = "select", Fresh,
         UNCHANGED <<chanVars, orVars>>
  PROVE  Fresh'
<1>1. /\ next = Start /\ onIdle = FALSE /\ pushHeads' = pushHeads
      /\ stateSwitch' = stateSwitch /\ pending' = pending
  <2>1. onIdle = FALSE
    BY DEF ScanInv, TypeOK, FlagType, Fresh
  <2> QED
    BY <2>1 DEF Fresh, chanVars, orVars
<1>2. ~Scanned(height)
  BY <1>1, StartInChain, BlockDef DEF ScanInv, TypeOK, NodeType, Scanned
<1>3. next' = next /\ UpdateState(FALSE)
  <2>1. CASE ObserveFails
    BY <2>1, Zenon DEF ObserveFails
  <2>2. CASE ObserveIdling
    BY <1>1, <2>2 DEF ObserveIdling
  <2>3. CASE ObserveTarget
    <3>1. next' = next /\ UpdateState(Scanned(height))
      BY <2>3, Zenon DEF ObserveTarget
    <3>2. Scanned(height) = FALSE
      BY <1>2 DEF Scanned
    <3> QED
      BY <3>1, <3>2, Zenon
  <2> QED
    BY <2>1, <2>2, <2>3 DEF Observe
<1>4. scanPc' = "select" /\ onIdle' = onIdle
  BY <1>1, <1>3 DEF UpdateState
<1> QED
  BY <1>1, <1>3, <1>4 DEF Fresh

LEMMA ObserveScanInv ==
  ASSUME ScanInv, Observe, scanPc = "select",
         UNCHANGED <<height, heads, lost, done, chanVars, orVars, bldVars, missed>>
  PROVE  Forwarded' /\ CounterBehind' /\ FirstReport' /\ FirstBlock' /\ NothingLeftBehind'
<1>1. /\ done' = done /\ inBlock' = inBlock /\ outDispatched' = outDispatched
      /\ bldPc' = bldPc /\ bldBlock' = bldBlock /\ dispatched' = dispatched
  BY DEF chanVars, bldVars
<1>2. Forwarded' /\ CounterBehind' /\ FirstReport'
  BY <1>1, ReportsUnchanged
<1>3. FirstBlock'
  BY <1>1, ObserveFresh DEF ScanInv, FirstBlock
<1>4. next' \in {next, done}
  BY ObserveNumbers
<1>5. NothingLeftBehind'
  <2>1. CASE next' = next
    BY <1>1, <2>1 DEF ScanInv, NothingLeftBehind, InFlight
  <2>2. CASE next' = done
    <3>1. done = 0 => Start .. next' - 1 = {}
      BY <2>2, StartInChain, BlockDef
    <3>2. done # 0 => Start .. next' - 1 \subseteq dispatched
      BY <2>2, StartInChain, BlockDef DEF ScanInv, CounterBehind, TypeOK, ScannerType
    <3> QED
      BY <1>1, <3>1, <3>2 DEF NothingLeftBehind
  <2> QED
    BY <1>4, <2>1, <2>2
<1> QED
  BY <1>2, <1>3, <1>5

LEMMA NodeScanInv ==
  ASSUME ScanInv, NewHead \/ NewHeadLost
  PROVE  Forwarded' /\ CounterBehind' /\ FirstReport' /\ FirstBlock' /\ NothingLeftBehind'
<1>1. UNCHANGED <<scanVars, chanVars, orVars, bldVars>>
  BY DEF NewHead, NewHeadLost
<1>2. Forwarded' /\ CounterBehind' /\ FirstReport' /\ NothingLeftBehind'
  BY <1>1, ReportsUnchanged, InFlightUnchanged DEF scanVars, chanVars
<1>3. FirstBlock'
  BY <1>1, Zenon DEF ScanInv, FirstBlock, Fresh, scanVars, chanVars, orVars, bldVars
<1> QED
  BY <1>2, <1>3

LEMMA ScannerScanInv ==
  ASSUME ScanInv, Scanner
  PROVE  Forwarded' /\ CounterBehind' /\ FirstReport' /\ FirstBlock' /\ NothingLeftBehind'
<1>1. CASE ScanStart \/ ShiftPull
  <2>1. UNCHANGED <<onIdle, next, done, chanVars, orVars, bldVars>> /\ scanPc' # "pushState"
    <3>1. CASE ScanStart
      BY <3>1 DEF ScanStart
    <3>2. CASE ShiftPull
      BY <3>2 DEF ShiftPull
    <3> QED
      BY <1>1, <3>1, <3>2
  <2>2. Forwarded' /\ CounterBehind' /\ FirstReport' /\ NothingLeftBehind'
    BY <2>1, ReportsUnchanged, InFlightUnchanged DEF chanVars
  <2>3. FirstBlock'
    BY <2>1, Zenon DEF ScanInv, FirstBlock, Fresh, chanVars, orVars, bldVars
  <2> QED
    BY <2>2, <2>3
<1>2. CASE ObserveTick \/ ShiftAtEnd
  BY <1>2, ObserveScanInv DEF ObserveTick, ShiftAtEnd
<1>3. CASE ScanPushBlock
  <2>1. inBlock \in Seq(Block) /\ next \in Block
    <3>1. next \in Block
      BY <1>3, BlockDef DEF ScanPushBlock, ScanInv, TypeOK, ScannerType
    <3> QED
      BY <3>1 DEF ScanInv, TypeOK, ChannelType
  <2>2. /\ inBlock' = Append(inBlock, next) /\ next' = next + 1
        /\ UNCHANGED <<onIdle, done, outDispatched, bldVars>>
    BY <1>3 DEF ScanPushBlock
  <2>3. /\ inBlock' # <<>> /\ inBlock'[1] = (IF inBlock = <<>> THEN next ELSE inBlock[1])
        /\ Range(inBlock') = Range(inBlock) \union {next}
    BY <2>1, <2>2, PushContents
  <2>4. Forwarded' /\ CounterBehind' /\ FirstReport'
    BY <2>2, ReportsUnchanged
  <2>5. FirstBlock'
    BY <2>2, <2>3 DEF ScanInv, FirstBlock, Fresh, bldVars
  <2>6. NothingLeftBehind'
    <3>1. InFlight' = InFlight \union {next} /\ dispatched' = dispatched
      BY <2>2, <2>3 DEF InFlight, bldVars
    <3>2. \A n \in Start .. next' - 1 : n \in Start .. next - 1 \/ n = next
      BY <2>1, <2>2, StartInChain, BlockDef
    <3> QED
      BY <3>1, <3>2 DEF ScanInv, NothingLeftBehind
  <2> QED
    BY <2>4, <2>5, <2>6
<1>4. CASE ScanPushState
  <2>1. UNCHANGED <<next, done, inBlock, outDispatched, bldVars>> /\ scanPc = "pushState"
    BY <1>4 DEF ScanPushState
  <2>2. Forwarded' /\ CounterBehind' /\ FirstReport' /\ NothingLeftBehind'
    BY <2>1, ReportsUnchanged, InFlightUnchanged
  <2>3. FirstBlock'
    BY <2>1, Zenon DEF ScanInv, FirstBlock, Fresh, bldVars
  <2> QED
    BY <2>2, <2>3
<1>5. CASE ScanDispatched
  BY <1>5, CounterMoves
<1> QED
  BY <1>1, <1>2, <1>3, <1>4, <1>5 DEF Scanner

LEMMA OrchestratorScanInv ==
  ASSUME ScanInv, Orchestrator
  PROVE  Forwarded' /\ CounterBehind' /\ FirstReport' /\ FirstBlock' /\ NothingLeftBehind'
<1>1. UNCHANGED <<scanVars, outDispatched, bldVars>>
  BY DEF Orchestrator, OrHeadDropped, OrHeadPushed, OrHeadCached, OrStateSwitch, OrPush, chanVars
<1>2. Forwarded' /\ CounterBehind' /\ FirstReport'
  BY <1>1, ReportsUnchanged DEF scanVars
<1>3. CASE OrHeadDropped \/ OrHeadCached
  <2>1. UNCHANGED <<inBlock, stateSwitch, pushHeads, pending>>
    BY <1>3 DEF OrHeadDropped, OrHeadCached, chanVars, orVars
  <2>2. FirstBlock'
    BY <1>1, <2>1, Zenon DEF ScanInv, FirstBlock, Fresh, scanVars, bldVars
  <2> QED
    BY <1>1, <1>2, <2>1, <2>2, InFlightUnchanged DEF scanVars
<1>4. CASE OrHeadPushed
  <2>1. inBlock' = inBlock /\ pushHeads
    BY <1>4 DEF OrHeadPushed, chanVars
  <2>2. FirstBlock'
    BY <1>1, <2>1, Zenon DEF ScanInv, FirstBlock, Fresh, scanVars, bldVars
  <2> QED
    BY <1>1, <1>2, <2>1, <2>2, InFlightUnchanged DEF scanVars
<1>5. CASE OrStateSwitch
  <2>1. inBlock' = inBlock /\ stateSwitch # <<>>
    BY <1>5 DEF OrStateSwitch
  <2>2. FirstBlock'
    BY <1>1, <2>1, Zenon DEF ScanInv, FirstBlock, Fresh, scanVars, bldVars
  <2> QED
    BY <1>1, <1>2, <2>1, <2>2, InFlightUnchanged DEF scanVars
<1>6. CASE OrPush
  <2>1. /\ inBlock \in Seq(Block) /\ pending \in Seq(Block) /\ pending # <<>>
        /\ inBlock' = Append(inBlock, Head(pending))
    BY <1>6 DEF OrPush, ScanInv, TypeOK, ChannelType
  <2>2. Head(pending) \in Block
    BY <2>1, ChannelReceive
  <2>3. /\ inBlock' # <<>> /\ (inBlock # <<>> => inBlock'[1] = inBlock[1])
        /\ Range(inBlock') = Range(inBlock) \union {Head(pending)}
    BY <2>1, <2>2, PushContents
  <2>4. FirstBlock'
    BY <1>1, <2>1, <2>3 DEF ScanInv, FirstBlock, Fresh, scanVars, bldVars
  <2>5. NothingLeftBehind'
    BY <1>1, <2>3 DEF ScanInv, NothingLeftBehind, InFlight, scanVars, bldVars
  <2> QED
    BY <1>2, <2>4, <2>5
<1> QED
  BY <1>3, <1>4, <1>5, <1>6 DEF Orchestrator

LEMMA StepScanInv == ScanInv /\ [Next]_vars => ScanInv'
<1> SUFFICES ASSUME ScanInv, [Next]_vars PROVE ScanInv'
  OBVIOUS
<1>1. TypeOK'
  BY TypeStep DEF ScanInv
<1>2. height \in Nat /\ height' >= height
  <2>1. height \in Nat /\ height >= Start
    BY BlockDef DEF ScanInv, TypeOK, NodeType
  <2>2. CASE NewHead \/ NewHeadLost
    BY <2>1, <2>2 DEF NewHead, NewHeadLost
  <2>3. Scanner \/ Orchestrator \/ Dispatcher \/ UNCHANGED vars => height' = height
    <3>1. Scanner => height' = height
      BY Zenon DEF Scanner, ScanStart, ObserveTick, ShiftAtEnd, ShiftPull, ScanPushBlock,
                   ScanPushState, ScanDispatched, nodeVars
    <3>2. Orchestrator => height' = height
      BY Zenon DEF Orchestrator, OrHeadDropped, OrHeadPushed, OrHeadCached, OrStateSwitch,
                   OrPush, nodeVars
    <3>3. Dispatcher \/ UNCHANGED vars => height' = height
      BY Zenon DEF Dispatcher, DispatcherTake, DispatcherReport, DispatcherProcess, nodeVars, vars
    <3> QED
      BY <3>1, <3>2, <3>3
  <2> QED
    BY <2>1, <2>2, <2>3 DEF Next
<1>3. Forwarded' /\ CounterBehind' /\ FirstReport' /\ FirstBlock' /\ NothingLeftBehind'
  <2>1. CASE UNCHANGED vars
    <3>1. FirstBlock'
      BY <2>1, Zenon DEF ScanInv, FirstBlock, Fresh, vars, scanVars, chanVars, orVars, bldVars
    <3> QED
      BY <2>1, <3>1, ReportsUnchanged, InFlightUnchanged DEF vars, scanVars, chanVars
  <2>2. CASE Dispatcher
    BY <2>2, TakeReports, ReportReports, ProcessReports DEF Dispatcher
  <2> QED
    BY <2>1, <2>2, NodeScanInv, ScannerScanInv, OrchestratorScanInv DEF Next
<1>4. height' >= Start
  BY <1>1, <1>2, StartInChain, BlockDef DEF ScanInv, TypeOK, NodeType
<1> QED
  BY <1>1, <1>3, <1>4 DEF ScanInv

(* The counter of dispatched blocks, which steers the re-scans of an idle  *)
(* scanner, never runs over a block that was not forwarded, for any        *)
(* capacities, re-scan depth, hysteresis and number of failing calls.      *)
THEOREM CounterSound == Spec => []NoBlockSkipped
<1>1. ScanInv => NoBlockSkipped
  BY DEF ScanInv, Forwarded, CounterBehind, NoBlockSkipped
<1> QED
  BY <1>1, InitScanInv, StepScanInv, PTL DEF Spec

(* The scanner leaves no block behind that is neither reported nor on its  *)
(* way to the dispatcher, also when it steps back to done on idle.         *)
THEOREM ScanComplete == Spec => []NothingLeftBehind
<1>1. ScanInv => NothingLeftBehind
  BY DEF ScanInv
<1> QED
  BY <1>1, InitScanInv, StepScanInv, PTL DEF Spec

-----------------------------------------------------------------------------
(* TransitionCovered.  What the scan covered stays covered, so the blocks  *)
(* the chain had at the start are covered once the scan went through; the  *)
(* later ones came as heads, and no step drops a head without a trace.     *)
Covered == dispatched \union InFlight
Away == Covered \union Range(pending) \union Range(ring) \union Range(heads) \union missed

HeadsKept == InitHeight + 1 .. height \subseteq Away
ScanWentThrough == onIdle \/ pushHeads \/ (stateSwitch # <<>> /\ stateSwitch[1])
InitialChain == ScanWentThrough => Start .. InitHeight \subseteq Covered
Unloaded == pushHeads => ring = <<>>

(* The inductive invariant, on top of ScanInv. *)
TransInv == height >= InitHeight /\ HeadsKept /\ InitialChain /\ Unloaded

LEMMA InitTransInv == Init => TransInv
<1> SUFFICES ASSUME Init PROVE TransInv
  OBVIOUS
<1>1. InitHeight + 1 .. height = {}
  BY ChainAssumption DEF Init
<1> QED
  BY <1>1, ChainAssumption DEF Init, TransInv, HeadsKept, InitialChain, ScanWentThrough, Unloaded

LEMMA EmptyRange == Range(<<>>) = {}
  BY DEF Range

LEMMA PrefixRange ==
  ASSUME NEW s \in Seq(Block), NEW m \in 1 .. Len(s), NEW i \in 1 .. m
  PROVE  s[i] \in Range(SubSeq(s, 1, m))
<1>1. Len(s) \in Nat /\ m \in Int /\ 1 \in Int /\ m >= 1 /\ \A j \in 1 .. m : s[j] \in Block
  BY LenProperties
<1>2. /\ SubSeq(s, 1, m) \in Seq(Block) /\ Len(SubSeq(s, 1, m)) = m
      /\ \A j \in 1 .. m : SubSeq(s, 1, m)[j] = s[j]
  BY <1>1
<1>3. DOMAIN SubSeq(s, 1, m) = 1 .. m
  BY <1>2
<1> QED
  BY <1>2, <1>3 DEF Range

(* The ring drops what RingDrops names and nothing else. *)
LEMMA RingKeeps ==
  ASSUME NEW r \in Seq(Block), NEW b \in Block, Len(r) <= RingCap
  PROVE  Range(r) \union {b} \subseteq Range(RingAdd(r, b)) \union RingDrops(r)
<1> DEFINE s == <<b>> \o r
<1>1. /\ s \in Seq(Block) /\ Len(s) = Len(r) + 1 /\ Len(r) \in Nat /\ DOMAIN r = 1 .. Len(r)
      /\ s[1] = b /\ \A i \in 1 .. Len(r) : s[i + 1] = r[i]
  <2>1. <<b>> \in Seq(Block) /\ Len(<<b>>) = 1 /\ <<b>>[1] = b
    OBVIOUS
  <2>2. /\ s \in Seq(Block) /\ Len(s) = 1 + Len(r) /\ Len(r) \in Nat /\ DOMAIN r = 1 .. Len(r)
        /\ \A i \in 1 .. 1 + Len(r) : s[i] = IF i <= 1 THEN <<b>>[i] ELSE r[i - 1]
    BY <2>1, ConcatProperties, LenProperties
  <2> HIDE DEF s
  <2> QED
    BY <2>1, <2>2
<1>2. CASE Len(r) < RingCap
  <2>1. RingAdd(r, b) = SubSeq(s, 1, Len(r) + 1)
    BY <1>2 DEF RingAdd
  <2> HIDE DEF s
  <2>2. Len(r) + 1 \in 1 .. Len(s) /\ \A i \in 1 .. Len(r) : i + 1 \in 1 .. Len(r) + 1
    BY <1>1
  <2>3. \A i \in 1 .. Len(r) + 1 : s[i] \in Range(RingAdd(r, b))
    BY <1>1, <2>1, <2>2, PrefixRange
  <2>4. 1 \in 1 .. Len(r) + 1
    BY <1>1
  <2> QED
    BY <1>1, <2>2, <2>3, <2>4 DEF Range
<1>3. CASE ~(Len(r) < RingCap)
  <2>1. Len(r) = RingCap /\ Len(r) >= 1 /\ RingCap \in Nat
    BY <1>1, <1>3
  <2>2. RingAdd(r, b) = SubSeq(s, 1, Len(r)) /\ RingDrops(r) = {r[Len(r)]}
    BY <1>3, <2>1 DEF RingAdd, RingDrops
  <2> HIDE DEF s
  <2>3. Len(r) \in 1 .. Len(s) /\ 1 \in 1 .. Len(r)
        /\ \A i \in 1 .. Len(r) : i = Len(r) \/ i + 1 \in 1 .. Len(r)
    BY <1>1, <2>1
  <2>4. \A i \in 1 .. Len(r) : s[i] \in Range(RingAdd(r, b))
    BY <1>1, <2>2, <2>3, PrefixRange
  <2>5. ASSUME NEW i \in 1 .. Len(r) PROVE r[i] \in Range(RingAdd(r, b)) \union RingDrops(r)
    <3>1. CASE i = Len(r)
      BY <2>2, <3>1
    <3>2. CASE i + 1 \in 1 .. Len(r)
      BY <1>1, <2>4, <3>2
    <3> QED
      BY <2>3, <3>1, <3>2
  <2>6. b \in Range(RingAdd(r, b))
    BY <1>1, <2>3, <2>4
  <2> QED
    BY <1>1, <2>5, <2>6 DEF Range
<1> QED
  BY <1>2, <1>3

(* What was covered stays covered: a block leaves the channel only into    *)
(* the hands of the dispatcher, and these only with its report.            *)
LEMMA CoveredGrows ==
  ASSUME TypeOK, [Next]_vars
  PROVE  Covered \subseteq Covered'
<1> USE DEF Covered, InFlight
<1>1. inBlock \in Seq(Block) /\ next \in Int
  BY DEF TypeOK, ChannelType, ScannerType
<1>2. CASE DispatcherTake
  <2>1. Range(inBlock) = Range(inBlock') \union {bldBlock'}
    BY <1>1, <1>2, ReceiveContents DEF DispatcherTake
  <2> QED
    BY <1>2, <2>1 DEF DispatcherTake
<1>3. CASE DispatcherReport
  BY <1>3 DEF DispatcherReport
<1>4. CASE DispatcherProcess
  BY <1>4 DEF DispatcherProcess, chanVars
<1>5. CASE ScanPushBlock
  <2>1. next \in Block
    BY <1>5, BlockDef DEF ScanPushBlock, TypeOK, ScannerType
  <2>2. Range(inBlock') = Range(inBlock) \union {next}
    BY <1>1, <1>5, <2>1, PushContents DEF ScanPushBlock
  <2> QED
    BY <1>5, <2>2 DEF ScanPushBlock, bldVars
<1>6. CASE OrPush
  <2>1. Head(pending) \in Block
    BY <1>6, ChannelReceive DEF OrPush, TypeOK, ChannelType
  <2>2. Range(inBlock') = Range(inBlock) \union {Head(pending)}
    BY <1>1, <1>6, <2>1, PushContents DEF OrPush
  <2> QED
    BY <1>6, <2>2 DEF OrPush, bldVars
<1>7. CASE UNCHANGED <<inBlock, bldVars>>
  BY <1>7 DEF bldVars
<1>8. \/ DispatcherTake \/ DispatcherReport \/ DispatcherProcess \/ ScanPushBlock \/ OrPush
      \/ UNCHANGED <<inBlock, bldVars>>
  BY Zenon DEF Next, NewHead, NewHeadLost, Scanner, ScanStart, ObserveTick, ShiftAtEnd, ShiftPull,
     ScanPushState, ScanDispatched, Orchestrator, OrHeadDropped, OrHeadPushed, OrHeadCached,
     OrStateSwitch, Dispatcher, vars, chanVars
<1> QED
  BY <1>2, <1>3, <1>4, <1>5, <1>6, <1>7, <1>8

(* The steps that move heads: each one stays in one of the places. *)
LEMMA StepHeadsKept ==
  ASSUME TypeOK, [Next]_vars, TransInv
  PROVE  HeadsKept'
<1> USE DEF Away
<1>1. /\ heads \in Seq(Block) /\ pending \in Seq(Block) /\ ring \in Seq(Block) /\ Len(ring) <= RingCap
      /\ height \in Nat /\ height <= MaxHeight
  BY BlockDef DEF TypeOK, ChannelType, NodeType
<1>2. Covered \subseteq Covered'
  BY CoveredGrows
<1>3. InitHeight + 1 .. height \subseteq Away
  BY DEF TransInv, HeadsKept
<1>4. CASE NewHead \/ NewHeadLost
  <2>1. height' = height + 1 /\ height + 1 \in Block
    <3>1. height' = height + 1 /\ height < MaxHeight
      BY <1>4, Zenon DEF NewHead, NewHeadLost
    <3>2. height + 1 \in Nat /\ height + 1 <= MaxHeight
      BY <1>1, <3>1, ChainAssumption
    <3> QED
      BY <3>1, <3>2, BlockDef
  <2>2. Away \union {height + 1} \subseteq Away'
    <3>1. CASE NewHead
      <4>1. Range(heads') = Range(heads) \union {height + 1}
        BY <1>1, <2>1, <3>1, PushContents DEF NewHead
      <4> QED
        BY <1>2, <3>1, <4>1 DEF NewHead, orVars
    <3>2. CASE NewHeadLost
      BY <1>2, <2>1, <3>2 DEF NewHeadLost, orVars
    <3> QED
      BY <1>4, <3>1, <3>2
  <2>3. \A n \in InitHeight + 1 .. height' : n \in InitHeight + 1 .. height \/ n = height + 1
    BY <1>1, <2>1, ChainAssumption
  <2> QED
    BY <1>3, <2>2, <2>3 DEF HeadsKept
<1>5. CASE OrHeadDropped \/ OrHeadPushed \/ OrHeadCached
  <2>1. height' = height /\ Head(heads) \in Block
    BY <1>1, <1>5, ChannelReceive DEF OrHeadDropped, OrHeadPushed, OrHeadCached
  <2>2. Range(heads) = Range(heads') \union {Head(heads)}
    BY <1>1, <1>5, ReceiveContents DEF OrHeadDropped, OrHeadPushed, OrHeadCached
  <2>3. Away \subseteq Away'
    <3>1. CASE OrHeadDropped
      BY <1>2, <2>2, <3>1 DEF OrHeadDropped, orVars
    <3>2. CASE OrHeadPushed
      <4>1. Range(pending) = {} /\ Range(pending') = {Head(heads)}
        BY <3>2, EmptyRange DEF OrHeadPushed, Range
      <4> QED
        BY <1>2, <2>2, <3>2, <4>1 DEF OrHeadPushed
    <3>3. CASE OrHeadCached
      <4>1. Range(ring) \union {Head(heads)} \subseteq Range(ring') \union RingDrops(ring)
        BY <1>1, <2>1, <3>3, RingKeeps DEF OrHeadCached
      <4> QED
        BY <1>2, <2>2, <3>3, <4>1 DEF OrHeadCached
    <3> QED
      BY <1>5, <3>1, <3>2, <3>3
  <2> QED
    BY <1>3, <2>1, <2>3 DEF HeadsKept
<1>6. CASE OrStateSwitch
  <2>1. Range(pending) = {}
    BY <1>6, EmptyRange DEF OrStateSwitch
  <2>2. Range(ring) \subseteq Range(pending') \union Range(ring')
    BY <1>6 DEF OrStateSwitch, Unload
  <2>3. height' = height /\ heads' = heads /\ missed' = missed
    BY <1>6 DEF OrStateSwitch, nodeVars
  <2> QED
    BY <1>2, <1>3, <2>1, <2>2, <2>3 DEF HeadsKept
<1>7. CASE OrPush
  <2>1. Range(pending) = Range(pending') \union {Head(pending)} /\ Head(pending) \in Block
    BY <1>1, <1>7, ReceiveContents, ChannelReceive DEF OrPush
  <2>2. Head(pending) \in Covered'
    <3>1. Range(inBlock') = Range(inBlock) \union {Head(pending)}
      BY <1>7, <2>1, PushContents DEF OrPush, TypeOK, ChannelType
    <3> QED
      BY <3>1 DEF Covered, InFlight
  <2>3. height' = height /\ heads' = heads /\ missed' = missed /\ ring' = ring
    BY <1>7 DEF OrPush, nodeVars
  <2> QED
    BY <1>2, <1>3, <2>1, <2>2, <2>3 DEF HeadsKept
<1>8. CASE UNCHANGED <<height, heads, orVars, missed>>
  BY <1>2, <1>3, <1>8 DEF HeadsKept, orVars
<1>9. Scanner \/ Dispatcher \/ UNCHANGED vars => UNCHANGED <<height, heads, orVars, missed>>
  BY Zenon DEF Scanner, ScanStart, ObserveTick, ShiftAtEnd, ShiftPull, ScanPushBlock, ScanPushState,
     ScanDispatched, Dispatcher, DispatcherTake, DispatcherReport, DispatcherProcess, vars, nodeVars
<1> QED
  BY <1>4, <1>5, <1>6, <1>7, <1>8, <1>9 DEF Next, Orchestrator

(* A look at the head turns the scanner idle only behind the end of the    *)
(* chain, when everything up to there is covered.                          *)
LEMMA ObserveCovers ==
  ASSUME ScanInv, height >= InitHeight, Observe, ~onIdle, onIdle'
  PROVE  Start .. InitHeight \subseteq Covered
<1>1. onIdle \in BOOLEAN /\ height \in Int /\ next \in Int
  BY BlockDef DEF ScanInv, TypeOK, FlagType, NodeType, ScannerType
<1>2. ASSUME NEW f \in BOOLEAN, UpdateState(f) PROVE f
  BY <1>1, <1>2 DEF UpdateState
<1>3. Scanned(height)
  <2>1. CASE ObserveFails
    BY <1>2, <2>1 DEF ObserveFails
  <2>2. CASE ObserveIdling
    BY <2>2 DEF ObserveIdling
  <2>3. CASE ObserveTarget
    <3>1. UpdateState(Scanned(height))
      BY <2>3, Zenon DEF ObserveTarget
    <3>2. Scanned(height) \in BOOLEAN
      BY DEF Scanned
    <3> QED
      BY <1>2, <3>1, <3>2
  <2> QED
    BY <2>1, <2>2, <2>3 DEF Observe
<1>4. Start .. InitHeight \subseteq Start .. next - 1
  BY <1>1, <1>3, StartInChain, BlockDef DEF Scanned
<1> QED
  BY <1>4 DEF ScanInv, NothingLeftBehind, Covered

LEMMA StepInitialChain ==
  ASSUME ScanInv, [Next]_vars, TransInv
  PROVE  InitialChain'
<1>1. Covered \subseteq Covered'
  BY CoveredGrows DEF ScanInv
<1>2. stateSwitch \in Seq(BOOLEAN) /\ Len(stateSwitch) <= 1
  BY DEF ScanInv, TypeOK, FlagType, ChannelType
<1>3. CASE Observe /\ UNCHANGED <<stateSwitch, pushHeads>>
  <2>1. CASE onIdle' /\ ~onIdle
    BY <1>1, <1>3, <2>1, ObserveCovers DEF TransInv, InitialChain
  <2>2. CASE ~(onIdle' /\ ~onIdle)
    BY <1>1, <1>3, <2>2 DEF TransInv, InitialChain, ScanWentThrough
  <2> QED
    BY <2>1, <2>2
<1>4. CASE ScanPushState
  <2>1. stateSwitch = <<>> /\ stateSwitch' = Append(stateSwitch, onIdle)
        /\ UNCHANGED <<onIdle, pushHeads>>
    BY <1>2, <1>4, EmptySeq DEF ScanPushState, orVars
  <2>2. stateSwitch'[1] = onIdle
    BY <2>1
  <2> QED
    BY <1>1, <2>1, <2>2 DEF TransInv, InitialChain, ScanWentThrough
<1>5. CASE OrStateSwitch
  <2>1. stateSwitch # <<>> /\ pushHeads' = Head(stateSwitch) /\ stateSwitch' = Tail(stateSwitch)
        /\ UNCHANGED onIdle
    BY <1>5 DEF OrStateSwitch, scanVars
  <2>2. Head(stateSwitch) = stateSwitch[1] /\ Tail(stateSwitch) = <<>>
    BY <1>2, <2>1, HeadTailProperties, EmptySeq
  <2> QED
    BY <1>1, <2>1, <2>2 DEF TransInv, InitialChain, ScanWentThrough
<1>6. CASE UNCHANGED <<onIdle, stateSwitch, pushHeads>>
  BY <1>1, <1>6 DEF TransInv, InitialChain, ScanWentThrough
<1>7. \/ Observe /\ UNCHANGED <<stateSwitch, pushHeads>>
      \/ ScanPushState \/ OrStateSwitch \/ UNCHANGED <<onIdle, stateSwitch, pushHeads>>
  BY Zenon DEF Next, NewHead, NewHeadLost, Scanner, ScanStart, ObserveTick, ShiftAtEnd, ShiftPull,
     ScanPushBlock, ScanDispatched, Orchestrator, OrHeadDropped, OrHeadPushed, OrHeadCached,
     OrPush, Dispatcher, DispatcherTake, DispatcherReport, DispatcherProcess,
     vars, scanVars, chanVars, orVars
<1> QED
  BY <1>3, <1>4, <1>5, <1>6, <1>7

LEMMA StepUnloaded ==
  ASSUME [Next]_vars, TransInv
  PROVE  Unloaded'
<1>1. CASE OrHeadCached
  BY <1>1 DEF OrHeadCached, Unloaded
<1>2. CASE OrStateSwitch
  BY <1>2 DEF OrStateSwitch, Unloaded
<1>3. CASE UNCHANGED <<pushHeads, ring>>
  BY <1>3 DEF TransInv, Unloaded
<1>4. OrHeadCached \/ OrStateSwitch \/ UNCHANGED <<pushHeads, ring>>
  BY Zenon DEF Next, NewHead, NewHeadLost, Scanner, ScanStart, ObserveTick, ShiftAtEnd, ShiftPull,
     ScanPushBlock, ScanPushState, ScanDispatched, Orchestrator, OrHeadDropped, OrHeadPushed,
     OrPush, Dispatcher, DispatcherTake, DispatcherReport, DispatcherProcess, vars, orVars
<1> QED
  BY <1>1, <1>2, <1>3, <1>4

LEMMA HeightGrows ==
  ASSUME TypeOK, [Next]_vars
  PROVE  height \in Nat /\ height' \in Nat /\ height' >= height
<1>1. height \in Nat
  BY BlockDef DEF TypeOK, NodeType
<1>2. height' = height + 1 \/ height' = height
  BY Zenon DEF Next, NewHead, NewHeadLost, Scanner, ScanStart, ObserveTick, ShiftAtEnd, ShiftPull,
     ScanPushBlock, ScanPushState, ScanDispatched, Orchestrator, OrHeadDropped, OrHeadPushed,
     OrHeadCached, OrStateSwitch, OrPush, Dispatcher, DispatcherTake, DispatcherReport,
     DispatcherProcess, vars, nodeVars
<1> QED
  BY <1>1, <1>2

LEMMA StepTransInv == ScanInv /\ TransInv /\ [Next]_vars => TransInv'
<1> SUFFICES ASSUME ScanInv, TransInv, [Next]_vars PROVE TransInv'
  OBVIOUS
<1>1. height' >= InitHeight
  BY HeightGrows, ChainAssumption DEF ScanInv, TransInv
<1>2. HeadsKept' /\ InitialChain' /\ Unloaded'
  BY StepHeadsKept, StepInitialChain, StepUnloaded DEF ScanInv
<1> QED
  BY <1>1, <1>2 DEF TransInv

(* When heads go straight to the dispatcher, no block between the start of *)
(* the scan and the head of the chain is missing without a trace, for any  *)
(* capacities, also of the cache, and any number of failures.              *)
THEOREM NothingMissedOnTransition == Spec => []TransitionCovered
<1>1. ScanInv /\ TransInv => TransitionCovered
  <2> SUFFICES ASSUME ScanInv, TransInv, pushHeads, NEW n \in Start .. height
               PROVE  n \in Covered \union Range(pending) \union Range(heads) \union missed
    BY DEF TransitionCovered, Covered
  <2>1. Range(ring) = {}
    BY EmptyRange DEF TransInv, Unloaded
  <2>2. n \in Start .. InitHeight \/ n \in InitHeight + 1 .. height
    BY StartInChain, BlockDef, ChainAssumption DEF ScanInv, TypeOK, NodeType
  <2> QED
    BY <2>1, <2>2 DEF TransInv, InitialChain, ScanWentThrough, HeadsKept, Away
<1> QED
  BY <1>1, InitScanInv, StepScanInv, InitTransInv, StepTransInv, PTL DEF Spec

-----------------------------------------------------------------------------
(* The pipeline and the ring buffer.  What BlockPipeline takes the cache   *)
(* of the orchestrator to be is what Ring implements: the list of the      *)
(* newest values.                                                          *)
Cache == INSTANCE NewestFirst WITH
           Value <- Block, Capacity <- RingCap, items <- ring, taken <- <<>>

(* The cache is emptied only by a reader that takes the whole of it, which *)
(* from then on has the blocks in hand, and new heads go around the cache. *)
UnloadsAll ==
  [][ring # <<>> /\ ring' = <<>> =>
       /\ pending' = [i \in 1 .. Cache!Lesser(RingCap, Len(ring)) |-> ring[i]]
       /\ pushHeads']_vars

(* A head that is cached goes to the front, and only the oldest block of a *)
(* full cache falls out.                                                   *)
LEMMA RingAddIsAdd ==
  ASSUME NEW r \in Seq(Block), NEW b \in Block, Len(r) <= RingCap
  PROVE  RingAdd(r, b) =
           [i \in 1 .. Cache!Lesser(Len(r) + 1, RingCap) |-> IF i = 1 THEN b ELSE r[i - 1]]
<1> DEFINE s == <<b>> \o r
           n == IF Len(r) < RingCap THEN Len(r) + 1 ELSE RingCap
<1>1. s \in Seq(Block) /\ Len(s) = Len(r) + 1
  OBVIOUS
<1>2. n \in 0 .. Len(s) /\ n = Cache!Lesser(Len(r) + 1, RingCap)
  BY <1>1 DEF Cache!Lesser
<1>3. SubSeq(s, 1, n) = [i \in 1 .. n |-> s[i]]
  BY <1>1, <1>2
<1>4. ASSUME NEW i \in 1 .. n PROVE s[i] = IF i = 1 THEN b ELSE r[i - 1]
  BY <1>2
<1> QED
  BY <1>2, <1>3, <1>4 DEF RingAdd

(* A sequence is the function of its places. *)
LEMMA WholeSeq ==
  ASSUME NEW S, NEW s \in Seq(S)
  PROVE  s = [i \in 1 .. Len(s) |-> s[i]]
  OBVIOUS

LEMMA StepUsesCache == TypeOK /\ [Next]_vars => [Cache!Next]_Cache!vars
<1> SUFFICES ASSUME TypeOK, [Next]_vars PROVE [Cache!Next]_Cache!vars
  OBVIOUS
<1>1. CASE OrHeadCached
  <2>1. Head(heads) \in Block /\ ring \in Seq(Block) /\ Len(ring) <= RingCap
    BY <1>1, ChannelReceive DEF OrHeadCached, TypeOK, ChannelType
  <2>2. ring' = RingAdd(ring, Head(heads))
    BY <1>1 DEF OrHeadCached
  <2>3. Cache!Add(Head(heads))
    BY <2>1, <2>2, RingAddIsAdd DEF Cache!Add
  <2> QED
    BY <2>1, <2>3 DEF Cache!Next
<1>2. CASE OrStateSwitch
  <2>1. CASE Head(stateSwitch)
    <3>1. Cache!Reset
      BY <1>2, <2>1 DEF OrStateSwitch, Cache!Reset
    <3> QED
      BY <3>1 DEF Cache!Next
  <2>2. CASE ~Head(stateSwitch)
    BY <1>2, <2>2 DEF OrStateSwitch, Cache!vars
  <2> QED
    BY <2>1, <2>2
<1>3. CASE ~OrHeadCached /\ ~OrStateSwitch
  <2>1. ring' = ring
    BY <1>3 DEF Next, NewHead, NewHeadLost, Scanner, ScanStart, ObserveTick, ShiftAtEnd,
       ShiftPull, ScanPushBlock, ScanPushState, ScanDispatched, Orchestrator, OrHeadDropped,
       OrHeadPushed, OrPush, Dispatcher, DispatcherTake, DispatcherReport, DispatcherProcess,
       vars, orVars
  <2> QED
    BY <2>1 DEF Cache!vars
<1> QED
  BY <1>1, <1>2, <1>3

(* The cache of the orchestrator is at all times a list of the newest      *)
(* heads, as the ring buffer keeps it (orchestrator.go:93-134,             *)
(* ring.go:34-94).                                                         *)
THEOREM PipelineUsesCache == Spec => Cache!Spec
<1>1. Init => Cache!Init
  BY DEF Init, Cache!Init
<1> QED
  BY <1>1, TypeCorrect, StepUsesCache, PTL DEF Spec, Cache!Spec

(* No block leaves the cache on the switch from scan to heads but into the *)
(* hands of the orchestrator (orchestrator.go:117-134).                    *)
THEOREM UnloadLosesNothing == Spec => UnloadsAll
<1> DEFINE Unloads == ring # <<>> /\ ring' = <<>> =>
             /\ pending' = [i \in 1 .. Cache!Lesser(RingCap, Len(ring)) |-> ring[i]]
             /\ pushHeads'
<1>1. ASSUME TypeOK, [Next]_vars PROVE [Unloads]_vars
  <2> SUFFICES ASSUME ring # <<>>, ring' = <<>> PROVE Unloads
    OBVIOUS
  <2>1. ring \in Seq(Block) /\ Len(ring) <= RingCap /\ Len(ring) \in Nat
    BY <1>1 DEF TypeOK, ChannelType
  <2>2. CASE OrHeadCached
    <3>1. Head(heads) \in Block
      BY <1>1, <2>2, ChannelReceive DEF OrHeadCached, TypeOK, ChannelType
    <3>2. Len(ring') >= 1
      BY <2>1, <2>2, <3>1 DEF OrHeadCached, RingAdd
    <3> QED
      BY <3>2
  <2>3. CASE OrStateSwitch
    <3>1. Head(stateSwitch) /\ pushHeads' = Head(stateSwitch) /\ pending' = ring
      BY <2>3 DEF OrStateSwitch, Unload
    <3>2. Cache!Lesser(RingCap, Len(ring)) = Len(ring)
      BY <2>1 DEF Cache!Lesser
    <3> QED
      BY <2>1, <3>1, <3>2, WholeSeq
  <2>4. CASE ~OrHeadCached /\ ~OrStateSwitch
    BY <1>1, <2>4 DEF Next, NewHead, NewHeadLost, Scanner, ScanStart, ObserveTick, ShiftAtEnd,
       ShiftPull, ScanPushBlock, ScanPushState, ScanDispatched, Orchestrator, OrHeadDropped,
       OrHeadPushed, OrPush, Dispatcher, DispatcherTake, DispatcherReport, DispatcherProcess,
       vars, orVars
  <2> QED
    BY <2>2, <2>3, <2>4
<1> QED
  BY <1>1, TypeCorrect, PTL DEF Spec, UnloadsAll

=============================================================================
