--------------------------- MODULE TrxDispatchProofs ---------------------------
(***************************************************************************)
(* Proofs about TrxDispatch, for every value of its constants.             *)
(***************************************************************************)
EXTENDS TrxDispatch, SequenceTheorems, FiniteSetTheorems, FunctionTheorems,
        WellFoundedInduction, TLAPS

-----------------------------------------------------------------------------
(* Queues: what is in one after a send and after a receive, and how many   *)
(* of its items belong to the event e.                                     *)

Items(s) == {s[i] : i \in DOMAIN s}
Places(s, e) == {i \in DOMAIN s : s[i].evt = e}
Cnt(s, e) == Cardinality(Places(s, e))

LEMMA QueueSend ==
  ASSUME NEW S, NEW s \in Seq(S), NEW x \in S
  PROVE  /\ Append(s, x) \in Seq(S) /\ Len(Append(s, x)) = Len(s) + 1
         /\ Items(Append(s, x)) = Items(s) \union {x}
<1>1. /\ Append(s, x) \in Seq(S) /\ Len(Append(s, x)) = Len(s) + 1
      /\ DOMAIN s = 1 .. Len(s) /\ DOMAIN Append(s, x) = 1 .. Len(s) + 1
      /\ \A i \in 1 .. Len(s) : Append(s, x)[i] = s[i]
      /\ Append(s, x)[Len(s) + 1] = x /\ Len(s) \in Nat
  OBVIOUS
<1> QED
  BY <1>1 DEF Items

LEMMA QueueReceive ==
  ASSUME NEW S, NEW s \in Seq(S), s # <<>>
  PROVE  /\ Head(s) \in S /\ Tail(s) \in Seq(S) /\ Len(Tail(s)) = Len(s) - 1
         /\ Items(s) = Items(Tail(s)) \union {Head(s)}
<1>1. /\ Head(s) \in S /\ Tail(s) \in Seq(S) /\ Len(Tail(s)) = Len(s) - 1
      /\ DOMAIN s = 1 .. Len(s) /\ DOMAIN Tail(s) = 1 .. Len(s) - 1
      /\ \A i \in 1 .. Len(s) - 1 : Tail(s)[i] = s[i + 1]
      /\ Head(s) = s[1] /\ Len(s) \in Nat /\ Len(s) >= 1
  OBVIOUS
<1>2. ASSUME NEW i \in 1 .. Len(s) PROVE s[i] \in Items(Tail(s)) \union {Head(s)}
  <2>1. CASE i = 1
    BY <1>1, <2>1
  <2>2. CASE i # 1
    <3>1. i - 1 \in 1 .. Len(s) - 1 /\ Tail(s)[i - 1] = s[i]
      BY <1>1, <2>2
    <3> QED
      BY <1>1, <3>1 DEF Items
  <2> QED
    BY <2>1, <2>2
<1>3. ASSUME NEW i \in 1 .. Len(s) - 1 PROVE Tail(s)[i] \in Items(s)
  <2>1. i + 1 \in 1 .. Len(s) /\ Tail(s)[i] = s[i + 1]
    BY <1>1
  <2> QED
    BY <1>1, <2>1 DEF Items
<1>4. Head(s) \in Items(s)
  BY <1>1 DEF Items
<1> QED
  BY <1>1, <1>2, <1>3, <1>4 DEF Items

LEMMA QueueItems ==
  ASSUME NEW S, NEW s \in Seq(S)
  PROVE  /\ Items(s) \subseteq S
         /\ s = <<>> <=> Items(s) = {}
<1>1. DOMAIN s = 1 .. Len(s) /\ Len(s) \in Nat /\ \A i \in 1 .. Len(s) : s[i] \in S
  OBVIOUS
<1>2. s = <<>> => DOMAIN s = {}
  OBVIOUS
<1>3. s # <<>> => 1 \in DOMAIN s
  OBVIOUS
<1>4. Items(s) \subseteq S
  BY <1>1 DEF Items
<1>5. s = <<>> <=> Items(s) = {}
  BY <1>2, <1>3 DEF Items
<1> QED
  BY <1>4, <1>5

LEMMA SeqWiden ==
  ASSUME NEW S, NEW T, S \subseteq T, NEW s \in Seq(S)
  PROVE  s \in Seq(T)
<1>1. s = [i \in 1 .. Len(s) |-> s[i]] /\ Len(s) \in Nat /\ \A i \in 1 .. Len(s) : s[i] \in T
  OBVIOUS
<1> QED
  BY <1>1

LEMMA FunctionIsSeq ==
  ASSUME NEW S, NEW n \in Nat, NEW f \in [1 .. n -> S]
  PROVE  f \in Seq(S) /\ Len(f) = n
<1>1. f \in Seq(S)
  OBVIOUS
<1>2. DOMAIN f = 1 .. Len(f) /\ Len(f) \in Nat
  BY <1>1
<1> QED
  BY <1>1, <1>2

LEMMA CntType ==
  ASSUME NEW S, NEW s \in Seq(S), NEW e
  PROVE  /\ Cnt(s, e) \in Nat /\ IsFiniteSet(Places(s, e))
         /\ Cnt(s, e) = 0 <=> \A x \in Items(s) : x.evt # e
<1>1. IsFiniteSet(DOMAIN s)
  <2>1. DOMAIN s = 1 .. Len(s) /\ Len(s) \in Nat
    OBVIOUS
  <2> QED
    BY <2>1, FS_Interval
<1>2. IsFiniteSet(Places(s, e))
  BY <1>1, FS_Subset DEF Places
<1>3. Cnt(s, e) \in Nat /\ (Cnt(s, e) = 0 <=> Places(s, e) = {})
  BY <1>2, FS_CardinalityType, FS_EmptySet DEF Cnt
<1>4. Places(s, e) = {} <=> \A x \in Items(s) : x.evt # e
  BY DEF Places, Items
<1> QED
  BY <1>2, <1>3, <1>4

LEMMA CntSend ==
  ASSUME NEW S, NEW s \in Seq(S), NEW x \in S, NEW e
  PROVE  Cnt(Append(s, x), e) = Cnt(s, e) + (IF x.evt = e THEN 1 ELSE 0)
<1>1. /\ DOMAIN s = 1 .. Len(s) /\ DOMAIN Append(s, x) = 1 .. Len(s) + 1
      /\ \A i \in 1 .. Len(s) : Append(s, x)[i] = s[i]
      /\ Append(s, x)[Len(s) + 1] = x /\ Len(s) \in Nat
  OBVIOUS
<1>2. IsFiniteSet(Places(s, e)) /\ Cnt(s, e) \in Nat
  BY CntType
<1>3. CASE x.evt = e
  <2>1. Places(Append(s, x), e) = Places(s, e) \union {Len(s) + 1}
    BY <1>1, <1>3 DEF Places
  <2>2. Len(s) + 1 \notin Places(s, e)
    BY <1>1 DEF Places
  <2> QED
    BY <1>2, <1>3, <2>1, <2>2, FS_AddElement DEF Cnt
<1>4. CASE x.evt # e
  <2>1. Places(Append(s, x), e) = Places(s, e)
    BY <1>1, <1>4 DEF Places
  <2> QED
    BY <1>2, <1>4, <2>1 DEF Cnt
<1> QED
  BY <1>3, <1>4

LEMMA CntReceive ==
  ASSUME NEW S, NEW s \in Seq(S), s # <<>>, NEW e
  PROVE  Cnt(s, e) = Cnt(Tail(s), e) + (IF Head(s).evt = e THEN 1 ELSE 0)
<1>1. /\ DOMAIN s = 1 .. Len(s) /\ DOMAIN Tail(s) = 1 .. Len(s) - 1
      /\ \A i \in 1 .. Len(s) - 1 : Tail(s)[i] = s[i + 1]
      /\ Head(s) = s[1] /\ Len(s) \in Nat /\ Len(s) >= 1 /\ Tail(s) \in Seq(S)
  OBVIOUS
<1>2. /\ IsFiniteSet(Places(s, e)) /\ Cnt(s, e) \in Nat
      /\ IsFiniteSet(Places(Tail(s), e)) /\ Cnt(Tail(s), e) \in Nat
  BY <1>1, CntType
<1> DEFINE A == Places(Tail(s), e)
           B == Places(s, e) \ {1}
           f == [i \in A |-> i + 1]
<1>3. f \in Bijection(A, B)
  <2>1. A \subseteq Int /\ \A i \in A : i + 1 \in B
    BY <1>1 DEF Places
  <2>2. f \in [A -> B]
    BY <2>1
  <2>3. \A i, j \in A : f[i] = f[j] => i = j
    BY <2>1
  <2>4. \A j \in B : j - 1 \in A /\ f[j - 1] = j
    BY <1>1 DEF Places
  <2> HIDE DEF f
  <2> QED
    BY <2>2, <2>3, <2>4, Fun_IsBij
<1>4. Cardinality(B) = Cardinality(A)
  BY <1>2, <1>3, FS_Bijection, Fun_ExistsBij
<1>5. 1 \in Places(s, e) <=> Head(s).evt = e
  BY <1>1 DEF Places
<1>6. Cardinality(B) = IF 1 \in Places(s, e) THEN Cardinality(Places(s, e)) - 1
                       ELSE Cardinality(Places(s, e))
  BY <1>2, FS_RemoveElement
<1> QED
  BY <1>2, <1>4, <1>5, <1>6 DEF Cnt

-----------------------------------------------------------------------------
(* The inductive invariant. *)

OnChain == UNION {Range(Chain[b]) : b \in Block}

Flow ==
  /\ blkTrxs \in Seq(OnChain) /\ inTransaction \in Seq(OnChain) /\ evts \in Seq(OnChain)
  /\ stored \subseteq OnChain

(* Only the event that is being pushed has items left to push. *)
Owned ==
  /\ \A x \in Items(accToPush) \union Items(logToPush) :
       x.evt \in DOMAIN evts /\ stage[x.evt] = "push"
  /\ \A x \in Items(outAccount) \union Items(outLog) : x.evt \in DOMAIN evts

(* A wait group counts the items of its transaction in the two queues. *)
Counted == \A e \in DOMAIN evts : wg[e] = Cnt(outAccount, e) + Cnt(outLog, e)

IType == TypeOK /\ Flow /\ Owned /\ Counted

(* Each account and log of a transaction is worked off or on its way. *)
Worked ==
  \A e \in DOMAIN evts :
    /\ \A a \in Touched(evts[e]) :
         \/ <<evts[e], a>> \in accDone
         \/ \E x \in Items(outAccount) \union Items(accToPush) : x.evt = e /\ x.adr = a
    /\ \A i \in 1 .. Logs[evts[e]] :
         \/ <<evts[e], i>> \in logged
         \/ \E x \in Items(outLog) \union Items(logToPush) : x.evt = e /\ x.idx = i

(* Only a transaction that is through is noted. *)
Through(b) == b > 1 => \E t \in stored \union unstored : BlockOf(t) >= b
Noted ==
  /\ \A e \in DOMAIN evts : stage[e] = "note" => evts[e] \in (stored \union unstored) \cap OnChain
  /\ Through(blkObserver) /\ Through(lnb)

(* An account counts at least the transactions worked off for it. *)
DoneFor(a) == {t \in Trx : <<t, a>> \in accDone /\ <<t, a>> \notin missed}
Active ==
  \A a \in Account :
    /\ IsFiniteSet(DoneFor(a))
    /\ DoneFor(a) # {} => /\ accounts[a] # None
                          /\ accounts[a].counter >= Cardinality(DoneFor(a))

IInv == IType /\ Worked /\ StoredAfterWork /\ Noted /\ Active

-----------------------------------------------------------------------------
(* The chain, the accounts of a transaction, and where a restart begins. *)

LEMMA BlockOfType ==
  ASSUME NEW t \in OnChain
  PROVE  t \in Trx /\ BlockOf(t) \in Block /\ Block = 1 .. Len(Chain) /\ Len(Chain) \in Nat
<1>1. /\ Chain \in Seq(Seq(Trx)) /\ Block = 1 .. Len(Chain) /\ Len(Chain) \in Nat
  BY ChainAssumption DEF Block
<1>2. PICK b \in Block : t \in Range(Chain[b])
  BY DEF OnChain
<1>3. Chain[b] \in Seq(Trx)
  BY <1>1, <1>2
<1>4. t \in Trx
  BY <1>2, <1>3 DEF Range
<1>5. BlockOf(t) \in Block
  BY <1>2 DEF BlockOf
<1> QED
  BY <1>1, <1>4, <1>5

LEMMA ChainType ==
  /\ Block = 1 .. Len(Chain) /\ Len(Chain) \in Nat \ {0} /\ 1 \in Block
  /\ \A b \in Block : Chain[b] \in Seq(OnChain)
  /\ OnChain \subseteq Trx
<1>1. /\ Chain \in Seq(Seq(Trx)) /\ Block = 1 .. Len(Chain) /\ Len(Chain) \in Nat \ {0}
  BY ChainAssumption DEF Block
<1>2. ASSUME NEW b \in Block PROVE Chain[b] \in Seq(OnChain)
  <2>1. Chain[b] \in Seq(Trx)
    BY <1>1
  <2>2. DOMAIN Chain[b] = 1 .. Len(Chain[b]) /\ Len(Chain[b]) \in Nat
        /\ Chain[b] = [i \in 1 .. Len(Chain[b]) |-> Chain[b][i]]
    BY <2>1
  <2>3. \A i \in 1 .. Len(Chain[b]) : Chain[b][i] \in OnChain
    BY <2>2 DEF OnChain, Range
  <2> QED
    BY <2>2, <2>3
<1>3. 1 \in Block
  BY <1>1
<1> QED
  BY <1>1, <1>2, <1>3, BlockOfType

LEMMA NewestType ==
  ASSUME NEW S, S \subseteq Block, S # {}
  PROVE  Newest(S) \in S
<1> DEFINE n == Len(Chain)
           T == {n - b : b \in S}
           R == OpToRel(<, Nat)
<1>1. n \in Nat /\ \A b \in S : b \in Int /\ n - b \in Nat
  BY ChainType
<1>2. T \subseteq Nat /\ T # {}
  BY <1>1
<1>3. \E x \in T : \A y \in T : ~(<<y, x>> \in R)
  <2>1. IsWellFoundedOn(R, Nat)
    BY NatLessThanWellFounded
  <2> HIDE DEF R, T
  <2> QED
    BY <1>2, <2>1, WFMin
<1>4. PICK x \in T : \A y \in T : ~(y < x)
  BY <1>2, <1>3 DEF OpToRel
<1>5. PICK b \in S : x = n - b
  OBVIOUS
<1>6. \A c \in S : c <= b
  <2> TAKE c \in S
  <2>1. ~(n - c < n - b)
    BY <1>4, <1>5
  <2> QED
    BY <1>1, <2>1
<1> QED
  BY <1>6 DEF Newest

LEMMA StartType ==
  ASSUME lnb \in Block \union {0}, stored \subseteq OnChain
  PROVE  StartFrom(LastKnownBlock) \in Block
<1>1. LastKnownBlock \in Block
  <2>1. CASE lnb # 0
    BY <2>1 DEF LastKnownBlock
  <2>2. CASE lnb = 0 /\ stored = {}
    BY <2>2, ChainType DEF LastKnownBlock
  <2>3. CASE lnb = 0 /\ stored # {}
    <3> DEFINE S == {BlockOf(t) : t \in stored}
    <3>1. S \subseteq Block /\ S # {}
      BY <2>3, BlockOfType
    <3>2. Newest(S) \in Block
      BY <3>1, NewestType
    <3> QED
      BY <2>3, <3>2 DEF LastKnownBlock
  <2> QED
    BY <2>1, <2>2, <2>3
<1> QED
  BY <1>1, ChainType, BoundAssumption DEF StartFrom

AccountEntry == [adr : Account, act : {"wallet", "contract"}]

LEMMA AccountsOfType ==
  ASSUME NEW t \in Trx
  PROVE  AccountsOf(t) \in Seq(AccountEntry)
<1> DEFINE wallet(a) == IF a = None THEN <<>> ELSE <<[adr |-> a, act |-> "wallet"]>>
           contract(a) == IF a = None THEN <<>> ELSE <<[adr |-> a, act |-> "contract"]>>
<1>1. \A a \in Account \union {None} :
        wallet(a) \in Seq(AccountEntry) /\ contract(a) \in Seq(AccountEntry)
  <2> TAKE a \in Account \union {None}
  <2>1. \A x \in AccountEntry : <<x>> \in Seq(AccountEntry)
    OBVIOUS
  <2>2. a # None => [adr |-> a, act |-> "wallet"] \in AccountEntry
                    /\ [adr |-> a, act |-> "contract"] \in AccountEntry
    BY DEF AccountEntry
  <2>3. <<>> \in Seq(AccountEntry)
    OBVIOUS
  <2> QED
    BY <2>1, <2>2, <2>3
<1>2. /\ From[t] \in Account \union {None} /\ To[t] \in Account \union {None}
      /\ Created[t] \in Account \union {None}
  BY ChainAssumption
<1>3. /\ wallet(From[t]) \in Seq(AccountEntry) /\ wallet(To[t]) \in Seq(AccountEntry)
      /\ contract(Created[t]) \in Seq(AccountEntry)
  BY <1>1, <1>2
<1>4. AccountsOf(t) = wallet(From[t]) \o wallet(To[t]) \o contract(Created[t])
  BY DEF AccountsOf
<1> HIDE DEF wallet, contract
<1> QED
  BY <1>3, <1>4

LEMMA TouchedType ==
  ASSUME NEW t \in Trx
  PROVE  Touched(t) \subseteq Account
<1>1. AccountsOf(t) \in Seq(AccountEntry)
  BY AccountsOfType
<1>2. \A i \in DOMAIN AccountsOf(t) : AccountsOf(t)[i] \in AccountEntry
  BY <1>1
<1> QED
  BY <1>2 DEF Touched, AccountEntry

-----------------------------------------------------------------------------
(* Type correctness. *)

LEMMA InitType == Init => IType
<1> SUFFICES ASSUME Init PROVE IType
  OBVIOUS
<1>1. \A S : <<>> \in Seq(S) /\ Len(<<>>) = 0
  OBVIOUS
<1>2. Items(<<>>) = {} /\ DOMAIN <<>> = {}
  BY DEF Items
<1>3. TypeOK
  <2>1. 1 \in 1 .. Len(Chain) + 1 /\ 1 \in Block
    BY ChainType
  <2>2. wg \in [DOMAIN evts -> Nat] /\ stage \in [DOMAIN evts -> {"push", "wait", "note", "end"}]
    BY DEF Init
  <2> QED
    BY <1>1, <2>1, <2>2, BoundAssumption DEF Init, TypeOK
<1>4. Flow /\ Owned /\ Counted
  BY <1>1, <1>2 DEF Init, Flow, Owned, Counted
<1> QED
  BY <1>3, <1>4 DEF IType

(* The block dispatcher hands on transactions of the chain. *)
LEMMA BlockDispatcherType ==
  ASSUME IType, BlockDispatcher
  PROVE  /\ IType'
         /\ UNCHANGED <<accounts, contracts, logged, stored, lnb, evts, wg, stage, accToPush,
                        logToPush, outAccount, outLog, blkObserver, accDone, missed>>
         /\ unstored \subseteq unstored'
<1> USE DEF IType, dbVars, evtVars, pushVars, histVars
<1>1. /\ UNCHANGED <<accounts, contracts, logged, stored, lnb, evts, wg, stage, accToPush,
                     logToPush, outAccount, outLog, blkObserver, start, accDone, missed, crashes>>
      /\ unstored \subseteq unstored'
  BY DEF BlockDispatcher, TakeBlock, TakeBlockOutOfTurn, LoadTrx, LoadTrxFails
<1>2. Flow' /\ Owned' /\ Counted'
  <2>1. blkTrxs' \in Seq(OnChain) /\ inTransaction' \in Seq(OnChain)
    <3>1. CASE TakeBlock
      BY <3>1, ChainType DEF TakeBlock, Flow
    <3>2. CASE TakeBlockOutOfTurn
      <4>1. start .. Len(Chain) \subseteq Block
        BY ChainType DEF TypeOK
      <4> QED
        BY <3>2, <4>1, ChainType DEF TakeBlockOutOfTurn, Flow
    <3>3. CASE LoadTrx
      BY <3>3, QueueReceive, QueueSend DEF LoadTrx, Flow
    <3>4. CASE LoadTrxFails
      BY <3>4, QueueReceive DEF LoadTrxFails, Flow
    <3> QED
      BY <3>1, <3>2, <3>3, <3>4 DEF BlockDispatcher
  <2> QED
    BY <1>1, <2>1 DEF Flow, Owned, Counted
<1>3. /\ cursor' \in 1 .. Len(Chain) + 1 /\ again' \in 0 .. MaxAgain
      /\ unstored' \subseteq Trx /\ failures' \in 0 .. MaxFailures
      /\ Len(inTransaction') <= TrxCap
  <2>1. CASE TakeBlock
    BY <2>1, ChainType DEF TakeBlock, TypeOK
  <2>2. CASE TakeBlockOutOfTurn
    BY <2>2, BoundAssumption DEF TakeBlockOutOfTurn, TypeOK
  <2>3. CASE LoadTrx
    <3>1. Len(inTransaction') = Len(inTransaction) + 1 /\ Len(inTransaction) \in Nat
      BY <2>3, QueueReceive, QueueSend DEF LoadTrx, Flow
    <3> QED
      BY <2>3, <3>1, BoundAssumption DEF LoadTrx, TypeOK
  <2>4. CASE LoadTrxFails
    <3>1. Head(blkTrxs) \in Trx
      BY <2>4, QueueReceive, ChainType DEF LoadTrxFails, Flow
    <3> QED
      BY <2>4, <3>1, BoundAssumption DEF LoadTrxFails, Fails, TypeOK
  <2> QED
    BY <2>1, <2>2, <2>3, <2>4 DEF BlockDispatcher
<1>4. blkTrxs' \in Seq(Trx) /\ inTransaction' \in Seq(Trx)
  BY <1>2, ChainType, SeqWiden DEF Flow
<1>5. TypeOK'
  BY <1>1, <1>3, <1>4 DEF TypeOK
<1> QED
  BY <1>1, <1>2, <1>5

(* What a transaction leaves to be pushed: an event for each account it    *)
(* touches and a record for each log.                                      *)
LEMMA TakenItems ==
  ASSUME IType, TakeTrx
  PROVE  LET t == Head(inTransaction)
             e == Len(evts) + 1
         IN  /\ t \in OnChain /\ e \in Nat \ {0} /\ e \notin DOMAIN evts
             /\ evts' = Append(evts, t) /\ wg' = Append(wg, 0) /\ stage' = Append(stage, "push")
             /\ accToPush' \in Seq(AccountEvent) /\ logToPush' \in Seq(LogRecord)
             /\ \A x \in Items(accToPush') \union Items(logToPush') : x.evt = e
             /\ \A a \in Touched(t) : \E x \in Items(accToPush') : x.evt = e /\ x.adr = a
             /\ \A j \in 1 .. Logs[t] : \E x \in Items(logToPush') : x.evt = e /\ x.idx = j
             /\ inTransaction' \in Seq(OnChain) /\ Len(inTransaction') = Len(inTransaction) - 1
<1> USE DEF IType
<1> DEFINE t == Head(inTransaction)
           e == Len(evts) + 1
           acc == AccountsOf(t)
           A == [i \in DOMAIN acc |-> [evt |-> e, adr |-> acc[i].adr, act |-> acc[i].act]]
           L == [i \in 1 .. Logs[t] |-> [evt |-> e, idx |-> i]]
<1>1. /\ t \in OnChain /\ inTransaction' \in Seq(OnChain)
      /\ Len(inTransaction') = Len(inTransaction) - 1
  BY QueueReceive DEF TakeTrx, Flow
<1>2. t \in Trx /\ Logs[t] \in Nat /\ acc \in Seq(AccountEntry)
  BY <1>1, ChainType, ChainAssumption, AccountsOfType
<1>3. e \in Nat \ {0} /\ e \notin DOMAIN evts
  <2>1. DOMAIN evts = 1 .. Len(evts) /\ Len(evts) \in Nat
    BY DEF Flow
  <2> QED
    BY <2>1
<1>4. /\ accToPush' = A /\ logToPush' = L
      /\ evts' = Append(evts, t) /\ wg' = Append(wg, 0) /\ stage' = Append(stage, "push")
  BY DEF TakeTrx
<1> HIDE DEF t, e
<1>5. A \in Seq(AccountEvent)
  <2>1. DOMAIN acc = 1 .. Len(acc) /\ Len(acc) \in Nat /\ \A j \in DOMAIN acc : acc[j] \in AccountEntry
    BY <1>2
  <2> HIDE DEF acc
  <2>2. \A j \in DOMAIN acc : [evt |-> e, adr |-> acc[j].adr, act |-> acc[j].act] \in AccountEvent
    BY <1>3, <2>1 DEF AccountEntry, AccountEvent
  <2> QED
    BY <2>1, <2>2
<1>6. L \in Seq(LogRecord)
  <2>1. \A j \in 1 .. Logs[t] : [evt |-> e, idx |-> j] \in LogRecord
    BY <1>2, <1>3 DEF LogRecord
  <2> QED
    BY <1>2, <2>1
<1>7. \A x \in Items(A) \union Items(L) : x.evt = e
  <2>1. \A j \in DOMAIN A : A[j].evt = e
    OBVIOUS
  <2>2. \A j \in DOMAIN L : L[j].evt = e
    OBVIOUS
  <2> HIDE DEF A, L
  <2> QED
    BY <2>1, <2>2 DEF Items
<1>8. ASSUME NEW a \in Touched(t) PROVE \E x \in Items(A) : x.evt = e /\ x.adr = a
  <2>1. PICK j \in DOMAIN acc : acc[j].adr = a
    BY <1>8 DEF Touched
  <2>2. A[j] \in Items(A) /\ A[j].evt = e /\ A[j].adr = a
    BY <2>1 DEF Items
  <2> QED
    BY <2>2
<1>9. ASSUME NEW j \in 1 .. Logs[t] PROVE \E x \in Items(L) : x.evt = e /\ x.idx = j
  <2>1. L[j] \in Items(L) /\ L[j].evt = e /\ L[j].idx = j
    BY DEF Items
  <2> QED
    BY <2>1
<1> HIDE DEF A, L
<1> QED
  BY <1>1, <1>3, <1>4, <1>5, <1>6, <1>7, <1>8, <1>9 DEF t, e

(* Without an event being pushed nothing is left to push. *)
LEMMA PushedAllIdle ==
  ASSUME IType, ~Pushing
  PROVE  accToPush = <<>> /\ logToPush = <<>>
<1>1. Items(accToPush) = {} /\ Items(logToPush) = {}
  BY DEF IType, Owned, Pushing
<1>2. accToPush \in Seq(AccountEvent) /\ logToPush \in Seq(LogRecord)
  BY DEF IType, TypeOK
<1> QED
  BY <1>1, <1>2, QueueItems

LEMMA TakeTrxType ==
  ASSUME IType, TakeTrx
  PROVE  IType'
<1> USE DEF IType, dbVars, bldVars, histVars
<1> DEFINE t == Head(inTransaction)
           e == Len(evts) + 1
<1>1. /\ t \in OnChain /\ t \in Trx /\ e \in Nat \ {0} /\ e \notin DOMAIN evts
      /\ evts' = Append(evts, t) /\ wg' = Append(wg, 0) /\ stage' = Append(stage, "push")
      /\ accToPush' \in Seq(AccountEvent) /\ logToPush' \in Seq(LogRecord)
      /\ \A x \in Items(accToPush') \union Items(logToPush') : x.evt = e
      /\ inTransaction' \in Seq(OnChain) /\ Len(inTransaction') = Len(inTransaction) - 1
  BY TakenItems, ChainType
<1>2. /\ evts' \in Seq(OnChain) /\ evts' \in Seq(Trx) /\ DOMAIN evts' = DOMAIN evts \union {e}
      /\ inTransaction' \in Seq(Trx) /\ DOMAIN evts = 1 .. Len(evts) /\ Len(evts) \in Nat
  <2>1. evts \in Seq(OnChain) /\ evts' \in Seq(OnChain)
    BY <1>1 DEF Flow
  <2>2. /\ DOMAIN evts = 1 .. Len(evts) /\ DOMAIN evts' = 1 .. Len(evts) + 1 /\ Len(evts) \in Nat
    BY <1>1, <2>1
  <2>3. DOMAIN evts' = DOMAIN evts \union {e}
    BY <2>2
  <2> QED
    BY <1>1, <2>1, <2>2, <2>3, ChainType, SeqWiden
<1>3. UNCHANGED <<accounts, contracts, logged, stored, lnb, cursor, again, blkTrxs, outAccount,
                  outLog, blkObserver, start, accDone, missed, unstored, failures, crashes>>
  BY DEF TakeTrx
<1>4. /\ wg' \in [DOMAIN evts' -> Nat] /\ wg'[e] = 0
      /\ \A f \in DOMAIN evts : wg'[f] = wg[f]
  <2>1. wg \in Seq(Nat) /\ Len(wg) = Len(evts)
    <3>1. wg \in [1 .. Len(evts) -> Nat] /\ Len(evts) \in Nat
      BY <1>2 DEF TypeOK
    <3> QED
      BY <3>1, FunctionIsSeq
  <2>2. /\ wg' \in Seq(Nat) /\ Len(wg') = Len(wg) + 1 /\ wg'[Len(wg) + 1] = 0
        /\ \A f \in 1 .. Len(wg) : wg'[f] = wg[f]
    BY <1>1, <2>1
  <2>3. wg' \in [1 .. Len(evts) + 1 -> Nat]
    BY <2>1, <2>2
  <2>4. 1 .. Len(evts) + 1 = DOMAIN evts'
    BY <1>2
  <2> QED
    BY <1>2, <2>1, <2>2, <2>3, <2>4
<1>5. /\ stage' \in [DOMAIN evts' -> {"push", "wait", "note", "end"}] /\ stage'[e] = "push"
      /\ \A f \in DOMAIN evts : stage'[f] = stage[f]
  <2> DEFINE G == {"push", "wait", "note", "end"}
  <2>1. stage \in Seq(G) /\ Len(stage) = Len(evts)
    <3>1. stage \in [1 .. Len(evts) -> G] /\ Len(evts) \in Nat
      BY <1>2 DEF TypeOK
    <3> QED
      BY <3>1, FunctionIsSeq
  <2>2. /\ stage' \in Seq(G) /\ Len(stage') = Len(stage) + 1 /\ stage'[Len(stage) + 1] = "push"
        /\ \A f \in 1 .. Len(stage) : stage'[f] = stage[f]
    BY <1>1, <2>1
  <2>3. stage' \in [1 .. Len(evts) + 1 -> G]
    BY <2>1, <2>2
  <2>4. 1 .. Len(evts) + 1 = DOMAIN evts'
    BY <1>2
  <2> QED
    BY <1>2, <2>1, <2>2, <2>3, <2>4
<1>6. Flow'
  BY <1>1, <1>2, <1>3 DEF Flow
<1>7. Owned'
  <2>1. \A x \in Items(outAccount') \union Items(outLog') : x.evt \in DOMAIN evts'
    BY <1>2, <1>3 DEF Owned
  <2>2. \A x \in Items(accToPush') \union Items(logToPush') :
          x.evt \in DOMAIN evts' /\ stage'[x.evt] = "push"
    BY <1>1, <1>2, <1>5
  <2> QED
    BY <2>1, <2>2 DEF Owned
<1>8. Counted'
  <2>1. ASSUME NEW f \in DOMAIN evts'
        PROVE  wg'[f] = Cnt(outAccount', f) + Cnt(outLog', f)
    <3>1. CASE f \in DOMAIN evts
      BY <1>3, <1>4, <3>1 DEF Counted
    <3>2. CASE f = e
      <4>1. \A x \in Items(outAccount) \union Items(outLog) : x.evt # e
        BY <1>1 DEF Owned
      <4>2. outAccount \in Seq(AccountEvent) /\ outLog \in Seq(LogRecord)
        BY DEF TypeOK
      <4>3. Cnt(outAccount, e) = 0 /\ Cnt(outLog, e) = 0
        BY <4>1, <4>2, CntType
      <4> QED
        BY <1>3, <1>4, <3>2, <4>3
    <3> QED
      BY <1>2, <2>1, <3>1, <3>2
  <2> QED
    BY <2>1 DEF Counted
<1>9. TypeOK'
  <2>1. Len(inTransaction') <= TrxCap
    BY <1>1, BoundAssumption DEF TypeOK
  <2> HIDE DEF e, t
  <2> QED
    BY <1>1, <1>2, <1>3, <1>4, <1>5, <2>1 DEF TypeOK
<1> QED
  BY <1>6, <1>7, <1>8, <1>9

(* An item goes to a queue, and the wait group counts it. *)
LEMMA PushAccountType ==
  ASSUME IType, PushAccount
  PROVE  /\ IType'
         /\ Items(accToPush) = Items(accToPush') \union {Head(accToPush)}
         /\ Items(outAccount') = Items(outAccount) \union {Head(accToPush)}
<1> USE DEF IType, dbVars, bldVars, histVars
<1> DEFINE x == Head(accToPush)
<1>1. /\ accToPush \in Seq(AccountEvent) /\ accToPush # <<>> /\ outAccount \in Seq(AccountEvent)
      /\ accToPush' = Tail(accToPush) /\ outAccount' = Append(outAccount, x)
      /\ wg' = [wg EXCEPT ![x.evt] = @ + 1] /\ wg \in [DOMAIN evts -> Nat]
  BY DEF PushAccount, TypeOK
<1>2. /\ x \in AccountEvent /\ accToPush' \in Seq(AccountEvent)
      /\ Items(accToPush) = Items(accToPush') \union {x}
  BY <1>1, QueueReceive
<1>3. /\ outAccount' \in Seq(AccountEvent) /\ Len(outAccount') = Len(outAccount) + 1
      /\ Items(outAccount') = Items(outAccount) \union {x}
  BY <1>1, <1>2, QueueSend
<1>4. x.evt \in DOMAIN evts
  BY <1>2 DEF Owned
<1>5. UNCHANGED <<accounts, contracts, logged, stored, lnb, cursor, again, blkTrxs, inTransaction,
                  evts, stage, logToPush, outLog, blkObserver, start, accDone, missed, unstored,
                  failures, crashes>>
  BY DEF PushAccount
<1>6. Flow' /\ Owned'
  BY <1>2, <1>3, <1>4, <1>5 DEF Flow, Owned
<1>7. wg' \in [DOMAIN evts -> Nat] /\ \A e \in DOMAIN evts : wg'[e] = wg[e] + IF x.evt = e THEN 1 ELSE 0
  BY <1>1, <1>4
<1>8. Counted'
  <2>1. ASSUME NEW e \in DOMAIN evts' PROVE wg'[e] = Cnt(outAccount', e) + Cnt(outLog', e)
    <3>1. /\ Cnt(outAccount', e) = Cnt(outAccount, e) + (IF x.evt = e THEN 1 ELSE 0)
          /\ Cnt(outAccount, e) \in Nat
      BY <1>1, <1>2, CntSend, CntType
    <3>2. Cnt(outLog, e) \in Nat /\ outLog' = outLog /\ e \in DOMAIN evts
      BY <1>5, <2>1, CntType DEF TypeOK
    <3>3. wg[e] = Cnt(outAccount, e) + Cnt(outLog, e)
      BY <3>2 DEF Counted
    <3> QED
      BY <1>7, <3>1, <3>2, <3>3
  <2> QED
    BY <2>1 DEF Counted
<1>9. Len(outAccount') <= AccCap
  <2>1. Len(outAccount) \in Nat /\ Len(outAccount) < AccCap
    BY <1>1 DEF PushAccount
  <2> QED
    BY <1>3, <2>1, BoundAssumption
<1>10. TypeOK'
  <2> HIDE DEF x
  <2> QED
    BY <1>2, <1>3, <1>5, <1>7, <1>9 DEF TypeOK
<1> QED
  BY <1>2, <1>3, <1>6, <1>8, <1>10

LEMMA PushLogType ==
  ASSUME IType, PushLog
  PROVE  /\ IType'
         /\ Items(logToPush) = Items(logToPush') \union {Head(logToPush)}
         /\ Items(outLog') = Items(outLog) \union {Head(logToPush)}
<1> USE DEF IType, dbVars, bldVars, histVars
<1> DEFINE x == Head(logToPush)
<1>1. /\ logToPush \in Seq(LogRecord) /\ logToPush # <<>> /\ outLog \in Seq(LogRecord)
      /\ logToPush' = Tail(logToPush) /\ outLog' = Append(outLog, x)
      /\ wg' = [wg EXCEPT ![x.evt] = @ + 1] /\ wg \in [DOMAIN evts -> Nat]
  BY DEF PushLog, TypeOK
<1>2. /\ x \in LogRecord /\ logToPush' \in Seq(LogRecord)
      /\ Items(logToPush) = Items(logToPush') \union {x}
  BY <1>1, QueueReceive
<1>3. /\ outLog' \in Seq(LogRecord) /\ Len(outLog') = Len(outLog) + 1
      /\ Items(outLog') = Items(outLog) \union {x}
  BY <1>1, <1>2, QueueSend
<1>4. x.evt \in DOMAIN evts
  BY <1>2 DEF Owned
<1>5. UNCHANGED <<accounts, contracts, logged, stored, lnb, cursor, again, blkTrxs, inTransaction,
                  evts, stage, accToPush, outAccount, blkObserver, start, accDone, missed, unstored,
                  failures, crashes>>
  BY DEF PushLog
<1>6. Flow' /\ Owned'
  BY <1>2, <1>3, <1>4, <1>5 DEF Flow, Owned
<1>7. wg' \in [DOMAIN evts -> Nat] /\ \A e \in DOMAIN evts : wg'[e] = wg[e] + IF x.evt = e THEN 1 ELSE 0
  BY <1>1, <1>4
<1>8. Counted'
  <2>1. ASSUME NEW e \in DOMAIN evts' PROVE wg'[e] = Cnt(outAccount', e) + Cnt(outLog', e)
    <3>1. /\ Cnt(outLog', e) = Cnt(outLog, e) + (IF x.evt = e THEN 1 ELSE 0)
          /\ Cnt(outLog, e) \in Nat
      BY <1>1, <1>2, CntSend, CntType
    <3>2. Cnt(outAccount, e) \in Nat /\ outAccount' = outAccount /\ e \in DOMAIN evts
      BY <1>5, <2>1, CntType DEF TypeOK
    <3>3. wg[e] = Cnt(outAccount, e) + Cnt(outLog, e)
      BY <3>2 DEF Counted
    <3> QED
      BY <1>7, <3>1, <3>2, <3>3
  <2> QED
    BY <2>1 DEF Counted
<1>9. Len(outLog') <= LogCap
  <2>1. Len(outLog) \in Nat /\ Len(outLog) < LogCap
    BY <1>1 DEF PushLog
  <2> QED
    BY <1>3, <2>1, BoundAssumption
<1>10. TypeOK'
  <2> HIDE DEF x
  <2> QED
    BY <1>2, <1>3, <1>5, <1>7, <1>9 DEF TypeOK
<1> QED
  BY <1>2, <1>3, <1>6, <1>8, <1>10

(* The storing goroutines move from stage to stage. *)
LEMMA StageType ==
  ASSUME IType, NEW e \in DOMAIN evts, SpawnStore(e) \/ Storing(e)
  PROVE  IType'
<1> USE DEF IType, dbVars, bldVars, pushVars, histVars
<1>1. PICK g \in {"wait", "note", "end"} : stage' = [stage EXCEPT ![e] = g]
  BY DEF SpawnStore, Storing, StoreTrx, StoreTrxFails, NoteBlock
<1>2. stage' \in [DOMAIN evts -> {"push", "wait", "note", "end"}]
      /\ \A f \in DOMAIN evts : f # e => stage'[f] = stage[f]
  BY <1>1 DEF TypeOK
<1>3. UNCHANGED <<accounts, contracts, logged, lnb, cursor, again, blkTrxs, inTransaction, evts, wg,
                  accToPush, logToPush, outAccount, outLog, start, accDone, missed, crashes>>
  BY DEF SpawnStore, Storing, StoreTrx, StoreTrxFails, NoteBlock
<1>4. evts[e] \in OnChain /\ evts[e] \in Trx
  BY ChainType DEF Flow
<1>5. /\ stored' \subseteq OnChain /\ stored' \subseteq Trx /\ unstored' \subseteq Trx
      /\ blkObserver' \in Block /\ failures' \in 0 .. MaxFailures
  <2>1. CASE SpawnStore(e)
    BY <2>1 DEF SpawnStore, TypeOK, Flow
  <2>2. CASE StoreTrx(e)
    BY <1>4, <2>2 DEF StoreTrx, TypeOK, Flow
  <2>3. CASE StoreTrxFails(e)
    BY <1>4, <2>3, BoundAssumption DEF StoreTrxFails, Fails, TypeOK, Flow
  <2>4. CASE NoteBlock(e)
    BY <1>4, <2>4, BlockOfType DEF NoteBlock, TypeOK, Flow
  <2> QED
    BY <2>1, <2>2, <2>3, <2>4 DEF Storing
<1>6. Owned'
  <2>1. \A x \in Items(accToPush) \union Items(logToPush) : x.evt # e
    <3>1. CASE SpawnStore(e)
      <4>1. accToPush = <<>> /\ logToPush = <<>>
        BY <3>1 DEF SpawnStore, PushedAll
      <4>2. accToPush \in Seq(AccountEvent) /\ logToPush \in Seq(LogRecord)
        BY DEF TypeOK
      <4> QED
        BY <4>1, <4>2, QueueItems
    <3>2. CASE Storing(e)
      <4>1. stage[e] # "push"
        BY <3>2 DEF Storing, StoreTrx, StoreTrxFails, Waited, NoteBlock, MayNote
      <4> QED
        BY <4>1 DEF Owned
    <3> QED
      BY <3>1, <3>2
  <2> QED
    BY <1>2, <1>3, <2>1 DEF Owned
<1>7. Flow' /\ Counted'
  BY <1>3, <1>5 DEF Flow, Counted
<1>8. TypeOK'
  BY <1>2, <1>3, <1>5 DEF TypeOK
<1> QED
  BY <1>6, <1>7, <1>8

(* What the account dispatcher does to the queue and the wait group. *)
LEMMA AccTakes ==
  ASSUME IType, AccDispatcher
  PROVE  LET x == Head(outAccount)
             t == evts[x.evt]
         IN  /\ x \in AccountEvent /\ x.evt \in DOMAIN evts /\ t \in OnChain /\ t \in Trx
             /\ x.adr \in Account
             /\ outAccount \in Seq(AccountEvent) /\ outAccount # <<>>
             /\ outAccount' = Tail(outAccount) /\ outAccount' \in Seq(AccountEvent)
             /\ Len(outAccount') = Len(outAccount) - 1
             /\ Items(outAccount) = Items(outAccount') \union {x}
             /\ wg' = [wg EXCEPT ![x.evt] = @ - 1]
             /\ accDone' = accDone \union {<<t, x.adr>>}
             /\ missed' \in {missed, missed \union {<<t, x.adr>>}}
             /\ UNCHANGED <<logged, stored, lnb, cursor, again, blkTrxs, inTransaction, evts,
                            stage, accToPush, logToPush, outLog, blkObserver, start, unstored,
                            crashes>>
<1> USE DEF IType, bldVars, pushVars
<1>1. outAccount \in Seq(AccountEvent) /\ outAccount # <<>>
  BY DEF AccDispatcher, MarkKnown, AddUnknown, AccountFails, TypeOK
<1>2. /\ outAccount' = Tail(outAccount)
      /\ wg' = [wg EXCEPT ![Head(outAccount).evt] = @ - 1]
      /\ accDone' = accDone \union {<<evts[Head(outAccount).evt], Head(outAccount).adr>>}
      /\ missed' \in {missed, missed \union {<<evts[Head(outAccount).evt], Head(outAccount).adr>>}}
      /\ UNCHANGED <<logged, stored, lnb, cursor, again, blkTrxs, inTransaction, evts,
                     stage, accToPush, logToPush, outLog, blkObserver, start, unstored, crashes>>
  BY DEF AccDispatcher, MarkKnown, AddUnknown, AccountFails, Release
<1>3. /\ Head(outAccount) \in AccountEvent /\ Tail(outAccount) \in Seq(AccountEvent)
      /\ Len(Tail(outAccount)) = Len(outAccount) - 1
      /\ Items(outAccount) = Items(Tail(outAccount)) \union {Head(outAccount)}
  BY <1>1, QueueReceive
<1>4. Head(outAccount).evt \in DOMAIN evts /\ Head(outAccount).adr \in Account
  BY <1>3 DEF Owned, AccountEvent
<1>5. evts[Head(outAccount).evt] \in OnChain /\ evts[Head(outAccount).evt] \in Trx
  BY <1>4, ChainType DEF Flow
<1> QED
  BY <1>1, <1>2, <1>3, <1>4, <1>5

(* What it does to the accounts. *)
LEMMA AccWrites ==
  ASSUME IType, AccDispatcher
  PROVE  LET x == Head(outAccount)
             t == evts[x.evt]
         IN  /\ \/ /\ accounts[x.adr] # None /\ missed' = missed
                   /\ accounts' = [accounts EXCEPT ![x.adr] =
                                     MarkActivity(accounts[x.adr], BlockOf(t))]
                \/ /\ accounts[x.adr] = None /\ missed' = missed
                   /\ accounts' = [accounts EXCEPT ![x.adr] =
                        [type |-> TypeOf(x, t), activity |-> BlockOf(t), counter |-> 1]]
                \/ accounts' = accounts /\ missed' = missed \union {<<t, x.adr>>}
             /\ contracts' \in {contracts, contracts \union {x.adr}}
             /\ failures' \in 0 .. MaxFailures
<1> USE DEF IType
<1>1. CASE MarkKnown
  BY <1>1 DEF MarkKnown, TypeOK
<1>2. CASE AddUnknown
  BY <1>2 DEF AddUnknown, TypeOK
<1>3. CASE AccountFails
  BY <1>3, BoundAssumption DEF AccountFails, Fails, TypeOK
<1> QED
  BY <1>1, <1>2, <1>3 DEF AccDispatcher

LEMMA MarkedRecord ==
  ASSUME NEW r \in Record, NEW b \in Block
  PROVE  MarkActivity(r, b) \in Record /\ MarkActivity(r, b).counter = r.counter + 1
         /\ r.counter \in Nat \ {0}
<1>1. r.counter \in Nat \ {0}
  BY DEF Record
<1>2. r.counter + 1 \in Nat \ {0}
  BY <1>1
<1>3. MarkActivity(r, b) \in Record
  BY <1>2 DEF MarkActivity, Record
<1>4. MarkActivity(r, b).counter = r.counter + 1
  BY DEF MarkActivity, Record
<1> QED
  BY <1>1, <1>3, <1>4

LEMMA AccountsType ==
  ASSUME IType, AccDispatcher
  PROVE  accounts' \in [Account -> Record \union {None}]
<1> USE DEF IType
<1> DEFINE x == Head(outAccount)
           t == evts[x.evt]
           b == BlockOf(t)
<1>1. x.adr \in Account /\ x.act \in {"wallet", "contract"} /\ b \in Block
  BY AccTakes, BlockOfType DEF AccountEvent
<1>2. accounts \in [Account -> Record \union {None}]
  BY DEF TypeOK
<1>3. accounts[x.adr] # None => MarkActivity(accounts[x.adr], b) \in Record
  <2>1. accounts[x.adr] # None => accounts[x.adr] \in Record
    BY <1>1, <1>2
  <2> QED
    BY <1>1, <2>1, MarkedRecord
<1>4. [type |-> TypeOf(x, t), activity |-> b, counter |-> 1] \in Record
  BY <1>1 DEF Record, TypeOf
<1> QED
  BY <1>1, <1>2, <1>3, <1>4, AccWrites

LEMMA AccDispatcherType ==
  ASSUME IType, AccDispatcher
  PROVE  IType'
<1> USE DEF IType
<1> DEFINE x == Head(outAccount)
           t == evts[x.evt]
<1>1. /\ x \in AccountEvent /\ x.evt \in DOMAIN evts /\ t \in OnChain /\ t \in Trx
      /\ x.adr \in Account
      /\ outAccount \in Seq(AccountEvent) /\ outAccount # <<>>
      /\ outAccount' = Tail(outAccount) /\ outAccount' \in Seq(AccountEvent)
      /\ Len(outAccount') = Len(outAccount) - 1
      /\ Items(outAccount) = Items(outAccount') \union {x}
      /\ wg' = [wg EXCEPT ![x.evt] = @ - 1]
      /\ accDone' = accDone \union {<<t, x.adr>>}
      /\ missed' \in {missed, missed \union {<<t, x.adr>>}}
  BY AccTakes
<1>2. UNCHANGED <<logged, stored, lnb, cursor, again, blkTrxs, inTransaction, evts,
                  stage, accToPush, logToPush, outLog, blkObserver, start, unstored, crashes>>
  BY AccTakes
<1>3. /\ accounts' \in [Account -> Record \union {None}]
      /\ contracts' \in {contracts, contracts \union {x.adr}} /\ failures' \in 0 .. MaxFailures
  BY AccountsType, AccWrites
<1> HIDE DEF x, t
<1>4. Flow' /\ Owned'
  BY <1>1, <1>2 DEF Flow, Owned
<1>5. ASSUME NEW e \in DOMAIN evts
      PROVE  /\ Cnt(outAccount', e) + Cnt(outLog, e) \in Nat
             /\ wg'[e] = Cnt(outAccount', e) + Cnt(outLog, e)
  <2>1. Cnt(outAccount, e) = Cnt(outAccount', e) + (IF x.evt = e THEN 1 ELSE 0)
    BY <1>1, CntReceive DEF x
  <2>2. Cnt(outAccount', e) \in Nat /\ Cnt(outLog, e) \in Nat
    BY <1>1, CntType DEF TypeOK
  <2>3. wg[e] = Cnt(outAccount, e) + Cnt(outLog, e)
    BY DEF Counted
  <2>4. wg'[e] = IF x.evt = e THEN wg[e] - 1 ELSE wg[e]
    BY <1>1 DEF TypeOK
  <2> QED
    BY <2>1, <2>2, <2>3, <2>4
<1>6. wg' \in [DOMAIN evts -> Nat]
  <2>1. wg' = [e \in DOMAIN evts |-> wg'[e]]
    BY <1>1 DEF TypeOK
  <2> QED
    BY <1>5, <2>1
<1>7. Counted'
  BY <1>2, <1>5 DEF Counted
<1>8. Len(outAccount') <= AccCap
  BY <1>1, BoundAssumption DEF TypeOK
<1>9. TypeOK'
  <2>1. t \in Trx /\ x.adr \in Account
    BY <1>1
  <2>2. contracts' \subseteq Account /\ accDone' \subseteq Trx \X Account
        /\ missed' \subseteq Trx \X Account
    BY <1>1, <1>3, <2>1 DEF TypeOK
  <2>3. /\ accounts' \in [Account -> Record \union {None}] /\ outAccount' \in Seq(AccountEvent)
        /\ failures' \in 0 .. MaxFailures
    BY <1>1, <1>3
  <2> QED
    BY <1>2, <1>6, <1>8, <2>2, <2>3 DEF TypeOK
<1> QED
  BY <1>4, <1>7, <1>9

LEMMA HandleLogType ==
  ASSUME IType, HandleLog
  PROVE  /\ IType'
         /\ Items(outLog) = Items(outLog') \union {Head(outLog)}
<1> USE DEF IType, bldVars, pushVars, histVars
<1> DEFINE x == Head(outLog)
<1>1. /\ outLog \in Seq(LogRecord) /\ outLog # <<>> /\ outLog' = Tail(outLog)
      /\ wg' = [wg EXCEPT ![x.evt] = @ - 1]
      /\ logged' = logged \union {<<evts[x.evt], x.idx>>}
  BY DEF HandleLog, Release, TypeOK
<1>2. /\ x \in LogRecord /\ outLog' \in Seq(LogRecord) /\ Len(outLog') = Len(outLog) - 1
      /\ Items(outLog) = Items(outLog') \union {x}
  BY <1>1, QueueReceive
<1>3. UNCHANGED <<accounts, contracts, stored, lnb, cursor, again, blkTrxs, inTransaction, evts,
                  stage, accToPush, logToPush, outAccount, blkObserver, start, accDone, missed,
                  unstored, failures, crashes>>
  BY DEF HandleLog
<1>4. x.evt \in DOMAIN evts /\ evts[x.evt] \in Trx /\ x.idx \in Nat
  BY <1>2, ChainType DEF Owned, Flow, LogRecord
<1> HIDE DEF x
<1>5. Flow' /\ Owned'
  BY <1>2, <1>3 DEF Flow, Owned
<1>6. ASSUME NEW e \in DOMAIN evts
      PROVE  /\ Cnt(outAccount, e) + Cnt(outLog', e) \in Nat
             /\ wg'[e] = Cnt(outAccount, e) + Cnt(outLog', e)
  <2>1. Cnt(outLog, e) = Cnt(outLog', e) + (IF x.evt = e THEN 1 ELSE 0)
    BY <1>1, CntReceive DEF x
  <2>2. Cnt(outLog', e) \in Nat /\ Cnt(outAccount, e) \in Nat
    BY <1>2, CntType DEF TypeOK
  <2>3. wg[e] = Cnt(outAccount, e) + Cnt(outLog, e)
    BY DEF Counted
  <2>4. wg'[e] = IF x.evt = e THEN wg[e] - 1 ELSE wg[e]
    BY <1>1 DEF TypeOK
  <2> QED
    BY <2>1, <2>2, <2>3, <2>4
<1>7. wg' \in [DOMAIN evts -> Nat]
  <2>1. wg' = [e \in DOMAIN evts |-> wg'[e]]
    BY <1>1 DEF TypeOK
  <2> QED
    BY <1>6, <2>1
<1>8. Counted'
  BY <1>3, <1>6 DEF Counted
<1>9. Len(outLog') <= LogCap /\ logged' \subseteq Trx \X Nat
  BY <1>1, <1>2, <1>4, BoundAssumption DEF TypeOK
<1>10. TypeOK'
  <2>1. outLog' \in Seq(LogRecord)
    BY <1>2
  <2> QED
    BY <1>3, <1>7, <1>9, <2>1 DEF TypeOK
<1> QED
  BY <1>2, <1>5, <1>8, <1>10 DEF x

LEMMA CrashType ==
  ASSUME IType, Crash
  PROVE  IType'
<1> USE DEF IType, dbVars
<1>1. \A S : <<>> \in Seq(S) /\ Len(<<>>) = 0
  OBVIOUS
<1>2. Items(<<>>) = {} /\ DOMAIN <<>> = {}
  BY DEF Items
<1>3. start' \in Block /\ cursor' \in Block /\ Block \subseteq 1 .. Len(Chain) + 1
  BY StartType, ChainType DEF Crash, TypeOK, Flow
<1>4. wg' \in [DOMAIN evts' -> Nat] /\ stage' \in [DOMAIN evts' -> {"push", "wait", "note", "end"}]
  BY DEF Crash
<1>5. 1 \in Block /\ crashes' \in 0 .. MaxCrashes
  BY ChainType, BoundAssumption DEF Crash, TypeOK
<1>6. TypeOK'
  <2>1. /\ UNCHANGED <<accounts, contracts, logged, stored, lnb, accDone, missed, unstored, failures>>
        /\ again' = 0 /\ blkTrxs' = <<>> /\ inTransaction' = <<>> /\ evts' = <<>>
        /\ accToPush' = <<>> /\ logToPush' = <<>> /\ outAccount' = <<>> /\ outLog' = <<>>
        /\ blkObserver' = 1
    BY DEF Crash
  <2>2. /\ again' \in 0 .. MaxAgain /\ blkTrxs' \in Seq(Trx) /\ inTransaction' \in Seq(Trx)
        /\ Len(inTransaction') <= TrxCap /\ evts' \in Seq(Trx)
        /\ accToPush' \in Seq(AccountEvent) /\ logToPush' \in Seq(LogRecord)
        /\ outAccount' \in Seq(AccountEvent) /\ Len(outAccount') <= AccCap
        /\ outLog' \in Seq(LogRecord) /\ Len(outLog') <= LogCap /\ blkObserver' \in Block
    BY <1>1, <1>5, <2>1, BoundAssumption
  <2>3. cursor' \in 1 .. Len(Chain) + 1
    BY <1>3
  <2> QED
    BY <1>3, <1>4, <1>5, <2>1, <2>2, <2>3 DEF TypeOK
<1>7. Flow' /\ Owned' /\ Counted'
  BY <1>1, <1>2 DEF Crash, Flow, Owned, Counted
<1> QED
  BY <1>6, <1>7

LEMMA NextType == IType /\ [Next]_vars => IType'
<1> SUFFICES ASSUME IType, [Next]_vars PROVE IType'
  OBVIOUS
<1>1. CASE UNCHANGED vars
  BY <1>1 DEF vars, dbVars, bldVars, evtVars, pushVars, histVars, IType, TypeOK, Flow, Owned, Counted
<1>2. CASE UpdateLastSeenBlock
  BY <1>2 DEF UpdateLastSeenBlock, bldVars, evtVars, pushVars, histVars, IType, TypeOK, Flow, Owned,
     Counted
<1>3. CASE Next /\ ~UpdateLastSeenBlock
  BY <1>3, BlockDispatcherType, TakeTrxType, PushAccountType, PushLogType, StageType,
     AccDispatcherType, HandleLogType, CrashType DEF Next, TrxDispatcher
<1> QED
  BY <1>1, <1>2, <1>3

(* Every variable keeps its range, for any chain and any capacity: no      *)
(* queue overflows, no wait group goes below zero (which panics in Go),    *)
(* and the scan starts in the chain after every restart.                   *)
THEOREM TypeCorrect == Spec => []TypeOK
<1>1. IType => TypeOK
  BY DEF IType
<1> QED
  BY <1>1, InitType, NextType, PTL DEF Spec

-----------------------------------------------------------------------------
(* Nothing of a transaction is lost between the queues. *)

LEMMA WorkedNext ==
  ASSUME IType, Worked, [Next]_vars
  PROVE  Worked'
<1> USE DEF IType, dbVars, bldVars, evtVars, pushVars, histVars
<1>1. CASE UNCHANGED <<evts, accDone, logged, outAccount, accToPush, outLog, logToPush>>
  BY <1>1 DEF Worked
<1>2. CASE TakeTrx
  <2> DEFINE t == Head(inTransaction)
             e == Len(evts) + 1
  <2>1. /\ evts' = Append(evts, t) /\ e \in Nat \ {0} /\ t \in OnChain
        /\ \A a \in Touched(t) : \E x \in Items(accToPush') : x.evt = e /\ x.adr = a
        /\ \A j \in 1 .. Logs[t] : \E x \in Items(logToPush') : x.evt = e /\ x.idx = j
    BY <1>2, TakenItems
  <2>2. UNCHANGED <<accDone, logged, outAccount, outLog>>
    BY <1>2 DEF TakeTrx
  <2>3. Items(accToPush) = {} /\ Items(logToPush) = {}
    BY <1>2, PushedAllIdle, QueueItems DEF TakeTrx, TypeOK
  <2>4. /\ DOMAIN evts' = DOMAIN evts \union {e} /\ evts'[e] = t
        /\ \A f \in DOMAIN evts : evts'[f] = evts[f]
    <3>1. evts \in Seq(OnChain)
      BY DEF Flow
    <3>2. /\ DOMAIN evts = 1 .. Len(evts) /\ DOMAIN evts' = 1 .. Len(evts) + 1 /\ Len(evts) \in Nat
          /\ evts'[Len(evts) + 1] = t /\ \A f \in 1 .. Len(evts) : evts'[f] = evts[f]
      BY <2>1, <3>1
    <3> QED
      BY <3>2
  <2> HIDE DEF t, e
  <2>5. ASSUME NEW f \in DOMAIN evts
        PROVE  /\ \A a \in Touched(evts'[f]) :
                    \/ <<evts'[f], a>> \in accDone'
                    \/ \E x \in Items(outAccount') \union Items(accToPush') : x.evt = f /\ x.adr = a
               /\ \A i \in 1 .. Logs[evts'[f]] :
                    \/ <<evts'[f], i>> \in logged'
                    \/ \E x \in Items(outLog') \union Items(logToPush') : x.evt = f /\ x.idx = i
    BY <2>2, <2>3, <2>4 DEF Worked
  <2> QED
    BY <2>1, <2>4, <2>5 DEF Worked
<1>3. CASE PushAccount
  <2>1. Items(outAccount) \union Items(accToPush) = Items(outAccount') \union Items(accToPush')
    BY <1>3, PushAccountType
  <2>2. UNCHANGED <<evts, accDone, logged, outLog, logToPush>>
    BY <1>3 DEF PushAccount
  <2> QED
    BY <2>1, <2>2 DEF Worked
<1>4. CASE PushLog
  <2>1. Items(outLog) \union Items(logToPush) = Items(outLog') \union Items(logToPush')
    BY <1>4, PushLogType
  <2>2. UNCHANGED <<evts, accDone, logged, outAccount, accToPush>>
    BY <1>4 DEF PushLog
  <2> QED
    BY <2>1, <2>2 DEF Worked
<1>5. CASE AccDispatcher
  <2>1. /\ Items(outAccount) = Items(outAccount') \union {Head(outAccount)}
        /\ accDone' = accDone \union {<<evts[Head(outAccount).evt], Head(outAccount).adr>>}
        /\ UNCHANGED <<logged, evts, accToPush, logToPush, outLog>>
    BY <1>5, AccTakes
  <2> QED
    BY <2>1 DEF Worked
<1>6. CASE HandleLog
  <2>1. Items(outLog) = Items(outLog') \union {Head(outLog)}
    BY <1>6, HandleLogType
  <2>2. /\ logged' = logged \union {<<evts[Head(outLog).evt], Head(outLog).idx>>}
        /\ UNCHANGED <<evts, accDone, outAccount, accToPush, logToPush>>
    BY <1>6 DEF HandleLog
  <2> QED
    BY <2>1, <2>2 DEF Worked
<1>7. CASE Crash
  <2>1. DOMAIN evts' = {}
    BY <1>7 DEF Crash
  <2> QED
    BY <2>1 DEF Worked
<1>8. CASE BlockDispatcher
  BY <1>1, <1>8, BlockDispatcherType
<1>9. CASE \E e \in DOMAIN evts : SpawnStore(e) \/ Storing(e)
  BY <1>1, <1>9 DEF SpawnStore, Storing, StoreTrx, StoreTrxFails, NoteBlock
<1>10. CASE UpdateLastSeenBlock
  BY <1>1, <1>10 DEF UpdateLastSeenBlock
<1>11. CASE UNCHANGED vars
  BY <1>1, <1>11 DEF vars
<1> QED
  BY <1>2, <1>3, <1>4, <1>5, <1>6, <1>7, <1>8, <1>9, <1>10, <1>11 DEF Next, TrxDispatcher

(* What a step does to what was worked off and to what is through. *)
LEMMA Progress ==
  ASSUME IType, [Next]_vars
  PROVE  /\ accDone \subseteq accDone' /\ logged \subseteq logged'
         /\ stored \subseteq stored' /\ unstored \subseteq unstored'
         /\ stored' = stored \/ \E e \in DOMAIN evts : StoreTrx(e)
<1> USE DEF IType, dbVars, bldVars, evtVars, pushVars, histVars
<1>1. CASE UNCHANGED vars
  BY <1>1 DEF vars
<1>2. CASE BlockDispatcher
  BY <1>2, BlockDispatcherType
<1>3. CASE TrxDispatcher
  BY <1>3 DEF TrxDispatcher, TakeTrx, PushAccount, PushLog, SpawnStore, UpdateLastSeenBlock
<1>4. CASE AccDispatcher
  BY <1>4, AccTakes
<1>5. CASE HandleLog
  BY <1>5 DEF HandleLog
<1>6. CASE \E e \in DOMAIN evts : Storing(e)
  BY <1>6 DEF Storing, StoreTrx, StoreTrxFails, NoteBlock
<1>7. CASE Crash
  BY <1>7 DEF Crash
<1> QED
  BY <1>1, <1>2, <1>3, <1>4, <1>5, <1>6, <1>7 DEF Next

(* An empty wait group, everything pushed: all of the transaction is done. *)
LEMMA WaitedDone ==
  ASSUME IType, Worked, NEW e \in DOMAIN evts, Waited(e)
  PROVE  /\ \A a \in Touched(evts[e]) : <<evts[e], a>> \in accDone
         /\ \A i \in 1 .. Logs[evts[e]] : <<evts[e], i>> \in logged
<1>1. \A x \in Items(accToPush) \union Items(logToPush) : x.evt # e
  BY DEF IType, Owned, Waited
<1>2. outAccount \in Seq(AccountEvent) /\ outLog \in Seq(LogRecord)
  BY DEF IType, TypeOK
<1>3. Cnt(outAccount, e) \in Nat /\ Cnt(outLog, e) \in Nat
  BY <1>2, CntType
<1>4. Cnt(outAccount, e) + Cnt(outLog, e) = 0
  BY DEF IType, Counted, Waited
<1>5. Cnt(outAccount, e) = 0 /\ Cnt(outLog, e) = 0
  BY <1>3, <1>4
<1>6. \A x \in Items(outAccount) \union Items(outLog) : x.evt # e
  BY <1>2, <1>5, CntType
<1> QED
  BY <1>1, <1>6 DEF Worked

LEMMA StoredNext ==
  ASSUME IType, Worked, StoredAfterWork, [Next]_vars
  PROVE  StoredAfterWork'
<1>1. accDone \subseteq accDone' /\ logged \subseteq logged'
  BY Progress
<1>2. CASE stored' = stored
  BY <1>1, <1>2 DEF StoredAfterWork
<1>3. CASE \E e \in DOMAIN evts : StoreTrx(e)
  <2>1. PICK e \in DOMAIN evts : StoreTrx(e)
    BY <1>3
  <2>2. stored' = stored \union {evts[e]} /\ Waited(e)
    BY <2>1 DEF StoreTrx
  <2> QED
    BY <1>1, <2>2, WaitedDone DEF StoredAfterWork
<1> QED
  BY <1>2, <1>3, Progress

(* The block that is noted belongs to a transaction that is through. *)
LEMMA NotedNext ==
  ASSUME IType, Noted, [Next]_vars
  PROVE  Noted'
<1> USE DEF IType, dbVars, bldVars, evtVars, pushVars, histVars
<1>1. \A b : (b > 1 => \E t \in stored \union unstored : BlockOf(t) >= b)
             => (b > 1 => \E t \in stored' \union unstored' : BlockOf(t) >= b)
  BY Progress
<1>2. Through(blkObserver) /\ Through(lnb)
  BY DEF Noted
<1>3. (stored \union unstored) \cap OnChain \subseteq (stored' \union unstored') \cap OnChain
  BY Progress
<1>4. CASE UNCHANGED <<evts, stage, blkObserver>> /\ lnb' \in {lnb, blkObserver}
  BY <1>1, <1>2, <1>3, <1>4 DEF Noted, Through
<1>5. CASE TakeTrx
  <2>1. /\ evts' = Append(evts, Head(inTransaction)) /\ stage' = Append(stage, "push")
        /\ UNCHANGED <<blkObserver, lnb>>
    BY <1>5 DEF TakeTrx
  <2>2. evts \in Seq(OnChain) /\ stage \in [1 .. Len(evts) -> {"push", "wait", "note", "end"}]
        /\ Len(evts) \in Nat
    BY DEF Flow, TypeOK
  <2>3. stage \in Seq({"push", "wait", "note", "end"}) /\ Len(stage) = Len(evts)
    BY <2>2, FunctionIsSeq
  <2>4. /\ DOMAIN evts' = 1 .. Len(evts) + 1 /\ DOMAIN evts = 1 .. Len(evts)
        /\ \A f \in 1 .. Len(evts) : evts'[f] = evts[f] /\ stage'[f] = stage[f]
        /\ stage'[Len(evts) + 1] = "push"
    BY <2>1, <2>2, <2>3
  <2>5. \A f \in DOMAIN evts' : stage'[f] = "note" => f \in DOMAIN evts
    BY <2>2, <2>4
  <2>6. \A f \in DOMAIN evts' : stage'[f] = "note" =>
           evts'[f] \in (stored' \union unstored') \cap OnChain
    BY <1>3, <2>4, <2>5 DEF Noted
  <2> QED
    BY <1>1, <1>2, <2>1, <2>6 DEF Noted, Through
<1>6. CASE \E e \in DOMAIN evts : SpawnStore(e)
  <2>1. PICK e \in DOMAIN evts : SpawnStore(e)
    BY <1>6
  <2>2. stage' = [stage EXCEPT ![e] = "wait"] /\ UNCHANGED <<evts, blkObserver, lnb>>
    BY <2>1 DEF SpawnStore
  <2>3. \A f \in DOMAIN evts : stage'[f] = "note" => stage[f] = "note"
    BY <2>2 DEF TypeOK
  <2> QED
    BY <1>1, <1>2, <1>3, <2>2, <2>3 DEF Noted, Through
<1>7. CASE \E e \in DOMAIN evts : StoreTrx(e) \/ StoreTrxFails(e)
  <2>1. PICK e \in DOMAIN evts : StoreTrx(e) \/ StoreTrxFails(e)
    BY <1>7
  <2>2. /\ stage' = [stage EXCEPT ![e] = "note"] /\ UNCHANGED <<evts, blkObserver, lnb>>
        /\ evts[e] \in stored' \union unstored'
    BY <2>1 DEF StoreTrx, StoreTrxFails
  <2>3. evts[e] \in OnChain
    BY DEF Flow
  <2>4. \A f \in DOMAIN evts : stage'[f] = "note" => f = e \/ stage[f] = "note"
    BY <2>2 DEF TypeOK
  <2> QED
    BY <1>1, <1>2, <1>3, <2>2, <2>3, <2>4 DEF Noted, Through
<1>8. CASE \E e \in DOMAIN evts : NoteBlock(e)
  <2>1. PICK e \in DOMAIN evts : NoteBlock(e)
    BY <1>8
  <2>2. /\ stage' = [stage EXCEPT ![e] = "end"] /\ UNCHANGED <<evts, lnb>>
        /\ blkObserver' = BlockOf(evts[e]) /\ stage[e] = "note"
    BY <2>1 DEF NoteBlock, MayNote
  <2>3. evts[e] \in (stored \union unstored) \cap OnChain
    BY <2>2 DEF Noted
  <2>4. \A f \in DOMAIN evts : stage'[f] = "note" => stage[f] = "note"
    BY <2>2 DEF TypeOK
  <2>5. BlockOf(evts[e]) \in Nat
    BY <2>3, BlockOfType
  <2>6. evts[e] \in stored' \union unstored' /\ blkObserver' >= blkObserver'
    BY <1>3, <2>2, <2>3, <2>5
  <2>7. Through(blkObserver)'
    BY <2>2, <2>6 DEF Through
  <2>8. Through(lnb)'
    BY <1>1, <1>2, <2>2 DEF Through
  <2> QED
    BY <1>3, <2>2, <2>4, <2>7, <2>8 DEF Noted
<1>9. CASE Crash
  <2>1. DOMAIN evts' = {} /\ blkObserver' = 1 /\ lnb' = lnb
    BY <1>9 DEF Crash
  <2>2. Through(blkObserver)'
    BY <2>1 DEF Through
  <2>3. Through(lnb)'
    BY <1>1, <1>2, <2>1 DEF Through
  <2> QED
    BY <2>1, <2>2, <2>3 DEF Noted
<1>10. CASE BlockDispatcher
  BY <1>4, <1>10, BlockDispatcherType
<1>11. CASE AccDispatcher
  BY <1>4, <1>11, AccTakes
<1>12. CASE HandleLog \/ PushAccount \/ PushLog \/ UpdateLastSeenBlock \/ UNCHANGED vars
  BY <1>4, <1>12 DEF HandleLog, PushAccount, PushLog, UpdateLastSeenBlock, vars
<1> QED
  BY <1>5, <1>6, <1>7, <1>8, <1>9, <1>10, <1>11, <1>12 DEF Next, TrxDispatcher, Storing

-----------------------------------------------------------------------------
(* The activity counters. *)

LEMMA ActiveNext ==
  ASSUME IType, Active, [Next]_vars
  PROVE  Active'
<1>1. CASE UNCHANGED <<accounts, accDone, missed>>
  BY <1>1 DEF Active, DoneFor
<1>2. CASE AccDispatcher
  <2> DEFINE x == Head(outAccount)
             t == evts[x.evt]
             b == BlockOf(t)
  <2>1. /\ t \in Trx /\ x.adr \in Account /\ b \in Block
        /\ accDone' = accDone \union {<<t, x.adr>>}
    BY <1>2, AccTakes, BlockOfType
  <2>2. accounts \in [Account -> Record \union {None}]
    BY DEF IType, TypeOK
  <2>3. \/ /\ accounts[x.adr] # None /\ missed' = missed
           /\ accounts' = [accounts EXCEPT ![x.adr] = MarkActivity(accounts[x.adr], b)]
        \/ /\ accounts[x.adr] = None /\ missed' = missed
           /\ accounts' = [accounts EXCEPT ![x.adr] =
                [type |-> TypeOf(x, t), activity |-> b, counter |-> 1]]
        \/ accounts' = accounts /\ missed' = missed \union {<<t, x.adr>>}
    BY <1>2, AccWrites
  <2> HIDE DEF x, t, b
  <2> SUFFICES ASSUME NEW a \in Account
               PROVE  /\ IsFiniteSet(DoneFor(a)')
                      /\ DoneFor(a)' # {} => /\ accounts'[a] # None
                                             /\ accounts'[a].counter >= Cardinality(DoneFor(a)')
    BY DEF Active
  <2> DEFINE D == DoneFor(a)
             E == DoneFor(a)'
  <2>4. /\ IsFiniteSet(D) /\ Cardinality(D) \in Nat
        /\ D # {} => accounts[a] # None /\ accounts[a].counter >= Cardinality(D)
        /\ D = {} => Cardinality(D) = 0
    BY FS_CardinalityType, FS_EmptySet DEF Active
  <2>5. CASE a # x.adr
    <3>1. E = D /\ accounts'[a] = accounts[a]
      BY <2>1, <2>2, <2>3, <2>5 DEF DoneFor
    <3> QED
      BY <2>4, <3>1
  <2>6. CASE a = x.adr /\ missed' = missed
    <3>1. E = D \/ E = D \union {t}
      BY <2>1, <2>6 DEF DoneFor
    <3> HIDE DEF D, E
    <3>2. /\ IsFiniteSet(E) /\ Cardinality(E) \in Nat /\ Cardinality(E) <= Cardinality(D) + 1
      BY <2>4, <3>1, FS_AddElement, FS_CardinalityType
    <3>3. CASE accounts[x.adr] # None
               /\ accounts' = [accounts EXCEPT ![x.adr] = MarkActivity(accounts[x.adr], b)]
      <4>1. accounts[x.adr] \in Record
        BY <2>1, <2>2, <3>3
      <4>2. /\ MarkActivity(accounts[x.adr], b) \in Record
            /\ MarkActivity(accounts[x.adr], b).counter = accounts[x.adr].counter + 1
            /\ accounts[x.adr].counter \in Nat \ {0}
        BY <2>1, <4>1, MarkedRecord
      <4>3. accounts'[a] = MarkActivity(accounts[a], b)
        BY <2>1, <2>2, <2>6, <3>3
      <4>4. accounts'[a] # None /\ accounts'[a].counter = accounts[a].counter + 1
            /\ accounts[a].counter \in Nat
        BY <2>6, <4>2, <4>3, NoneAssumption
      <4>5. accounts[a].counter >= Cardinality(D)
        BY <2>4, <4>4
      <4> QED
        BY <2>4, <3>2, <4>4, <4>5 DEF E
    <3>4. CASE accounts[x.adr] = None
               /\ accounts' = [accounts EXCEPT ![x.adr] =
                    [type |-> TypeOf(x, t), activity |-> b, counter |-> 1]]
      <4>1. accounts'[a] = [type |-> TypeOf(x, t), activity |-> b, counter |-> 1]
        BY <2>1, <2>2, <2>6, <3>4
      <4>2. x.act \in {"wallet", "contract"}
        BY <1>2, AccTakes DEF AccountEvent, x
      <4>3. accounts'[a] \in Record
        BY <2>1, <4>1, <4>2 DEF Record, TypeOf
      <4>4. accounts'[a] # None /\ accounts'[a].counter = 1
        BY <4>1, <4>3, NoneAssumption
      <4>5. D = {}
        BY <2>4, <2>6, <3>4
      <4> QED
        BY <2>4, <3>2, <4>4, <4>5 DEF E
    <3>5. CASE accounts' = accounts /\ missed' = missed \union {<<t, x.adr>>}
      <4>1. <<t, x.adr>> \in missed
        BY <2>6, <3>5
      <4>2. E = D
        BY <2>1, <2>6, <4>1 DEF D, E, DoneFor
      <4> QED
        BY <2>4, <3>5, <4>2 DEF E
    <3> QED
      BY <2>3, <3>3, <3>4, <3>5
  <2>7. CASE a = x.adr /\ accounts' = accounts /\ missed' = missed \union {<<t, x.adr>>}
    <3>1. E \subseteq D
      BY <2>1, <2>7 DEF DoneFor
    <3> HIDE DEF D, E
    <3>2. IsFiniteSet(E) /\ Cardinality(E) \in Nat /\ Cardinality(E) <= Cardinality(D)
      BY <2>4, <3>1, FS_Subset, FS_CardinalityType
    <3>3. CASE D = {}
      BY <3>1, <3>2, <3>3 DEF E
    <3>4. CASE D # {}
      <4>1. accounts[a] \in Record
        BY <2>2, <2>4, <3>4
      <4>2. accounts[a].counter \in Nat
        BY <4>1 DEF Record
      <4> QED
        BY <2>4, <2>7, <3>2, <3>4, <4>2 DEF E
    <3> QED
      BY <3>3, <3>4
  <2> QED
    BY <2>3, <2>5, <2>6, <2>7
<1>3. CASE [Next]_vars /\ ~AccDispatcher
  <2> USE DEF dbVars, bldVars, evtVars, pushVars, histVars
  <2>1. CASE BlockDispatcher
    BY <1>1, <2>1, BlockDispatcherType
  <2>2. CASE TrxDispatcher
    BY <1>1, <2>2 DEF TrxDispatcher, TakeTrx, PushAccount, PushLog, SpawnStore, UpdateLastSeenBlock
  <2>3. CASE HandleLog \/ Crash \/ UNCHANGED vars
    BY <1>1, <2>3 DEF HandleLog, Crash, vars
  <2>4. CASE \E e \in DOMAIN evts : Storing(e)
    BY <1>1, <2>4 DEF Storing, StoreTrx, StoreTrxFails, NoteBlock
  <2> QED
    BY <1>3, <2>1, <2>2, <2>3, <2>4 DEF Next
<1> QED
  BY <1>2, <1>3

LEMMA InitInv == Init => IInv
<1> SUFFICES ASSUME Init PROVE IInv
  OBVIOUS
<1>1. DOMAIN evts = {} /\ stored = {} /\ accDone = {} /\ blkObserver = 1 /\ lnb = 0
  BY DEF Init
<1>2. Worked /\ StoredAfterWork /\ Noted
  BY <1>1 DEF Worked, StoredAfterWork, Noted, Through
<1>3. \A a \in Account : DoneFor(a) = {}
  BY <1>1 DEF DoneFor
<1>4. Active
  BY <1>3, FS_EmptySet DEF Active
<1> QED
  BY <1>2, <1>4, InitType DEF IInv

LEMMA NextInv == IInv /\ [Next]_vars => IInv'
BY NextType, WorkedNext, StoredNext, NotedNext, ActiveNext DEF IInv

(* What is stored and worked off is counted. *)
LEMMA Counters == IInv => CountersCover
<1> SUFFICES ASSUME IInv, NEW a \in Account,
                    NEW S, S = {t \in stored : a \in Touched(t) /\ <<t, a>> \notin missed}, S # {}
             PROVE  accounts[a] # None /\ accounts[a].counter >= Cardinality(S)
  BY DEF CountersCover
<1> DEFINE D == DoneFor(a)
<1>1. S \subseteq D
  BY DEF IInv, IType, TypeOK, StoredAfterWork, DoneFor
<1>2. IsFiniteSet(D) /\ (D # {} => accounts[a] # None /\ accounts[a].counter >= Cardinality(D))
  BY DEF IInv, Active
<1> HIDE DEF D
<1>3. accounts[a] # None /\ accounts[a].counter >= Cardinality(D)
  BY <1>1, <1>2
<1>4. Cardinality(S) \in Nat /\ Cardinality(D) \in Nat /\ Cardinality(S) <= Cardinality(D)
  BY <1>1, <1>2, FS_Subset, FS_CardinalityType
<1>5. accounts[a].counter \in Nat
  BY <1>3 DEF IInv, IType, TypeOK, Record
<1> QED
  BY <1>3, <1>4, <1>5

(* The database holds a transaction only when all of its accounts and logs *)
(* were worked off, in however many runs of the server.                    *)
THEOREM StoredAfterAllWork == Spec => []StoredAfterWork
<1>1. IInv => StoredAfterWork
  BY DEF IInv
<1> QED
  BY <1>1, InitInv, NextInv, PTL DEF Spec

(* The activity counter of an account is at least the number of stored     *)
(* transactions that touch it and that the database took.                  *)
THEOREM CountersNeverShort == Spec => []CountersCover
BY InitInv, NextInv, Counters, PTL DEF Spec

(* The persisted block is not ahead of every transaction that is through.  *)
THEOREM CheckpointNotAhead == Spec => []CheckpointBacked
<1>1. IInv => CheckpointBacked
  BY DEF IInv, Noted, Through, CheckpointBacked
<1> QED
  BY <1>1, InitInv, NextInv, PTL DEF Spec

=============================================================================
