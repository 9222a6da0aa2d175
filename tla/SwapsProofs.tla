----------------------------- MODULE SwapsProofs -----------------------------
(***************************************************************************)
(* Proofs about Swaps, for every value of its constants.                   *)
(***************************************************************************)
EXTENDS Swaps, TLAPS

(* What is in work are logs of the transaction in work, and no transaction *)
(* of the chain is without logs.                                           *)
Well ==
  /\ \A t \in DOMAIN trxs : trxs[t] # <<>>
  /\ todo # <<>> => trx \in DOMAIN trxs
  /\ \A i \in DOMAIN todo : todo[i] \in DOMAIN trxs[trx]

IInv == TypeOK /\ Well

LEMMA InitInv == Init => IInv
<1> SUFFICES ASSUME Init PROVE IInv
  OBVIOUS
<1>1. \A S : <<>> \in Seq(S) /\ Len(<<>>) = 0 /\ DOMAIN <<>> = {}
  OBVIOUS
<1>2. 0 \in Nat /\ 1 \in 1 .. 0 + 1 /\ 0 \in 0 .. 0
  OBVIOUS
<1>3. 0 \in 0 .. MaxAgain /\ 0 \in 0 .. MaxFailures /\ 0 \in 0 .. MaxCrashes /\ 0 <= MaxTrx
  BY SwapsAssumption
<1>4. Well
  BY <1>1 DEF Init, Well
<1>5. /\ created \subseteq Listed /\ trxs \in Seq(Seq(Log)) /\ Len(trxs) <= MaxTrx
      /\ next \in 1 .. Len(trxs) + 1 /\ trx \in 0 .. Len(trxs) /\ todo \in Seq(Nat)
      /\ carried \in Nat
  BY <1>1, <1>2, <1>3 DEF Init
<1>6. /\ swap \in [Key -> Record \union {None}] /\ known \in [Pair -> BOOLEAN \union {None}]
      /\ hurt \subseteq 1 .. MaxTrx /\ rejected \subseteq Key
      /\ step \in {"idle", "known", "find", "delete", "insert"} /\ todo = <<>> /\ step = "idle"
      /\ pairsCache = None
  BY DEF Init
<1>7. again \in 0 .. MaxAgain /\ failures \in 0 .. MaxFailures /\ crashes \in 0 .. MaxCrashes
  BY <1>3 DEF Init
<1> QED
  BY <1>4, <1>5, <1>6, <1>7 DEF IInv, TypeOK

-----------------------------------------------------------------------------
(* The log in work and the record it goes to. *)
LEMMA InWork ==
  ASSUME IInv, todo # <<>>
  PROVE  /\ trx \in DOMAIN trxs /\ trx \in 1 .. MaxTrx
         /\ Head(todo) \in Nat /\ Head(todo) \in DOMAIN trxs[trx]
         /\ Log1 \in Log /\ At \in Key
<1> USE DEF IInv, TypeOK, Well
<1>1. trxs \in Seq(Seq(Log)) /\ DOMAIN trxs = 1 .. Len(trxs) /\ Len(trxs) \in Nat /\ Len(trxs) <= MaxTrx
  OBVIOUS
<1>2. trx \in DOMAIN trxs
  OBVIOUS
<1>3. trx \in 1 .. MaxTrx /\ trxs[trx] \in Seq(Log)
  BY <1>1, <1>2, SwapsAssumption
<1>4. todo \in Seq(Nat) /\ todo # <<>> /\ 1 \in DOMAIN todo /\ Head(todo) = todo[1]
  OBVIOUS
<1>5. Head(todo) \in Nat /\ Head(todo) \in DOMAIN trxs[trx]
  BY <1>4
<1>6. Log1 \in Log
  BY <1>3, <1>5 DEF Log1
<1> QED
  BY <1>2, <1>3, <1>5, <1>6 DEF At, Key, Log

(* The two ways a step of the handler ends. *)
Stays ==
  /\ step' \in {"find", "insert"} /\ carried' \in Nat
  /\ UNCHANGED <<next, trx, todo>>

LEMMA WorkType ==
  ASSUME IInv, todo # <<>>, Done \/ Stays, UNCHANGED nodeVars
  PROVE  /\ Well'
         /\ next' \in 1 .. Len(trxs') + 1 /\ trx' \in 0 .. Len(trxs')
         /\ todo' \in Seq(Nat) /\ step' \in {"idle", "known", "find", "delete", "insert"}
         /\ todo' = <<>> <=> step' = "idle"
         /\ carried' \in Nat
<1> USE DEF nodeVars
<1>1. CASE Stays
  BY <1>1 DEF Stays, IInv, TypeOK, Well
<1>2. CASE Done
  <2>1. todo \in Seq(Nat) /\ todo # <<>> /\ trx \in DOMAIN trxs
    BY DEF IInv, TypeOK, Well
  <2>2. /\ todo' = Tail(todo) /\ step' = (IF Len(todo) = 1 THEN "idle" ELSE "known")
        /\ carried' = 0 /\ next' = next /\ trx' = trx /\ trxs' = trxs
    BY <1>2 DEF Done
  <2>3. /\ Tail(todo) \in Seq(Nat) /\ Len(Tail(todo)) = Len(todo) - 1
        /\ DOMAIN todo = 1 .. Len(todo) /\ DOMAIN Tail(todo) = 1 .. Len(todo) - 1
        /\ \A i \in 1 .. Len(todo) - 1 : Tail(todo)[i] = todo[i + 1]
        /\ Len(todo) \in Nat \ {0}
    BY <2>1
  <2>4. Tail(todo) = <<>> <=> Len(todo) = 1
    <3> DEFINE r == Tail(todo)
    <3>1. r \in Seq(Nat) /\ Len(r) = Len(todo) - 1 /\ Len(todo) \in Nat
      BY <2>3
    <3> HIDE DEF r
    <3>2. r = <<>> => Len(r) = 0
      OBVIOUS
    <3>3. r # <<>> => 1 \in 1 .. Len(r)
      BY <3>1
    <3>4. r = <<>> <=> Len(todo) = 1
      BY <3>1, <3>2, <3>3
    <3> QED
      BY <3>4 DEF r
  <2>5. \A i \in DOMAIN Tail(todo) : Tail(todo)[i] \in DOMAIN trxs[trx]
    <3> TAKE i \in DOMAIN Tail(todo)
    <3>1. i + 1 \in DOMAIN todo /\ Tail(todo)[i] = todo[i + 1]
      BY <2>3
    <3> QED
      BY <3>1 DEF IInv, Well
  <2>6. Well'
    BY <2>1, <2>2, <2>5 DEF IInv, Well
  <2> QED
    BY <2>2, <2>3, <2>4, <2>6 DEF IInv, TypeOK
<1> QED
  BY <1>1, <1>2

(* The chain grows. *)
LEMMA ChainNext ==
  ASSUME IInv, Chain
  PROVE  IInv'
<1> USE DEF workVars, pairVars, boundVars
<1>1. CASE CreatePair
  BY <1>1 DEF CreatePair, IInv, TypeOK, Well
<1>2. CASE NewTrx
  <2>0. PICK p \in created \union (Pair \ Listed) :
          \E body \in Bodies(p) : trxs' = Append(trxs, body)
    BY <1>2 DEF NewTrx
  <2>1. PICK body \in Bodies(p) : trxs' = Append(trxs, body)
    BY <2>0
  <2>2. p \in Pair
    BY <2>0, SwapsAssumption DEF IInv, TypeOK
  <2>3. body \in Seq(Log) /\ body # <<>>
    <3>1. [pair |-> p, kind |-> "sync"] \in Log /\ [pair |-> p, kind |-> "action"] \in Log
          /\ [pair |-> p, kind |-> "zero"] \in Log
      BY <2>2 DEF Log
    <3> DEFINE log(k) == [pair |-> p, kind |-> k]
    <3>2. body \in { <<log("sync")>>, <<log("sync"), log("action")>>, <<log("sync"), log("zero")>>,
                     <<log("sync"), log("action"), log("sync"), log("action")>>,
                     <<log("sync"), log("zero"), log("sync"), log("action")>> }
      BY DEF Bodies
    <3>3. log("sync") \in Log /\ log("action") \in Log /\ log("zero") \in Log
      BY <3>1
    <3> HIDE DEF log
    <3>4. \A x, y, z, w \in Log :
            /\ <<x>> \in Seq(Log) /\ <<x, y>> \in Seq(Log) /\ <<x, y, z, w>> \in Seq(Log)
            /\ <<x>> # <<>> /\ <<x, y>> # <<>> /\ <<x, y, z, w>> # <<>>
      OBVIOUS
    <3> QED
      BY <3>2, <3>3, <3>4
  <2>4. /\ trxs \in Seq(Seq(Log)) /\ Len(trxs) \in Nat /\ Len(trxs) < MaxTrx
        /\ DOMAIN trxs = 1 .. Len(trxs)
    BY <1>2 DEF NewTrx, IInv, TypeOK
  <2>5. /\ trxs' \in Seq(Seq(Log)) /\ Len(trxs') = Len(trxs) + 1
        /\ DOMAIN trxs' = 1 .. Len(trxs) + 1 /\ trxs'[Len(trxs) + 1] = body
        /\ \A t \in DOMAIN trxs : trxs'[t] = trxs[t]
    BY <2>1, <2>3, <2>4
  <2>6. UNCHANGED <<created, swap, next, trx, todo, step, carried, pairsCache, known, hurt,
                    rejected, again, failures, crashes>>
    BY <1>2 DEF NewTrx
  <2>7. Len(trxs') <= MaxTrx /\ next' \in 1 .. Len(trxs') + 1 /\ trx' \in 0 .. Len(trxs')
    BY <2>4, <2>5, <2>6, SwapsAssumption DEF IInv, TypeOK
  <2>8. Well'
    <3>1. \A t \in DOMAIN trxs' : trxs'[t] # <<>>
      <4> TAKE t \in DOMAIN trxs'
      <4>1. CASE t \in DOMAIN trxs
        BY <2>5, <4>1 DEF IInv, Well
      <4>2. CASE t = Len(trxs) + 1
        BY <2>3, <2>5, <4>2
      <4> QED
        BY <2>4, <2>5, <4>1, <4>2
    <3>2. todo = <<>> \/ trx \in DOMAIN trxs
      BY DEF IInv, Well
    <3>3. todo' # <<>> => trx' \in DOMAIN trxs'
      BY <2>4, <2>5, <2>6, <3>2
    <3>4. \A i \in DOMAIN todo' : todo'[i] \in DOMAIN trxs'[trx']
      <4>1. CASE todo = <<>>
        BY <2>6, <4>1
      <4>2. CASE trx \in DOMAIN trxs
        BY <2>5, <2>6, <4>2 DEF IInv, Well
      <4> QED
        BY <3>2, <4>1, <4>2
    <3> QED
      BY <3>1, <3>3, <3>4 DEF Well
  <2> QED
    BY <2>5, <2>6, <2>7, <2>8 DEF IInv, TypeOK
<1> QED
  BY <1>1, <1>2 DEF Chain

(* A transaction is taken up, in turn or out of turn. *)
LEMMA TakeUpNext ==
  ASSUME IInv, Deliver \/ DeliverOutOfTurn
  PROVE  IInv'
<1> USE DEF nodeVars, pairVars
<1>1. /\ trxs \in Seq(Seq(Log)) /\ Len(trxs) \in Nat /\ DOMAIN trxs = 1 .. Len(trxs)
      /\ Len(trxs) <= MaxTrx /\ next \in 1 .. Len(trxs) + 1
  BY DEF IInv, TypeOK
<1>2. PICK t \in DOMAIN trxs : TakeUp(t)
  <2>1. CASE Deliver
    <3>1. next \in DOMAIN trxs
      BY <1>1, <2>1 DEF Deliver
    <3> QED
      BY <2>1, <3>1 DEF Deliver
  <2>2. CASE DeliverOutOfTurn
    BY <2>2 DEF DeliverOutOfTurn
  <2> QED
    BY <2>1, <2>2
<1>3. /\ trx' = t /\ todo' = [i \in 1 .. Len(trxs[t]) |-> i] /\ step' = "known" /\ carried' = 0
      /\ hurt' = hurt \ {t} /\ rejected' = {k \in rejected : k[1] # t}
      /\ UNCHANGED <<created, trxs, swap, pairsCache, known, failures, crashes>>
  BY <1>2 DEF TakeUp
<1>4. next' \in 1 .. Len(trxs) + 1 /\ again' \in 0 .. MaxAgain
  <2>1. next \in 1 .. Len(trxs) + 1 /\ again \in 0 .. MaxAgain /\ MaxAgain \in Nat
    BY SwapsAssumption DEF IInv, TypeOK
  <2>2. CASE Deliver
    BY <1>1, <2>1, <2>2 DEF Deliver
  <2>3. CASE DeliverOutOfTurn
    BY <1>1, <2>1, <2>3 DEF DeliverOutOfTurn
  <2> QED
    BY <2>2, <2>3
<1>5. trxs[t] \in Seq(Log) /\ trxs[t] # <<>> /\ Len(trxs[t]) \in Nat \ {0}
      /\ DOMAIN trxs[t] = 1 .. Len(trxs[t])
  <2>1. trxs[t] \in Seq(Log) /\ trxs[t] # <<>>
    BY <1>1 DEF IInv, Well
  <2> QED
    BY <2>1
<1>6. /\ todo' \in Seq(Nat) /\ todo' # <<>>
      /\ \A i \in DOMAIN todo' : todo'[i] \in DOMAIN trxs[t]
  <2>1. todo' \in Seq(Nat)
    BY <1>3, <1>5
  <2>2. DOMAIN todo' = 1 .. Len(trxs[t]) /\ 1 \in DOMAIN todo'
    BY <1>3, <1>5
  <2> QED
    BY <1>3, <1>5, <2>1, <2>2
<1>7. Well'
  BY <1>2, <1>3, <1>6 DEF IInv, Well
<1>8. TypeOK'
  <2>1. t \in 0 .. Len(trxs)
    BY <1>1
  <2> QED
    BY <1>3, <1>4, <1>6, <2>1 DEF IInv, TypeOK
<1> QED
  BY <1>7, <1>8 DEF IInv

Handling ==
  \/ PairKnown \/ PairChecked \/ PairCheckFails
  \/ SkipSmall \/ NotFound \/ FindFails \/ UpdateReserves \/ UpdateFails
  \/ ActionKnown \/ DeleteSync \/ DeleteFails \/ Insert \/ InsertRefused \/ InsertFails

(* What a step of the handler does to the records. *)
LEMMA SwapWrites ==
  ASSUME IInv, Handling
  PROVE  \/ swap' = swap
         \/ /\ swap[At] # None
            /\ swap' = [swap EXCEPT ![At] = [swap[At] EXCEPT !.res = Head(todo)]]
         \/ /\ swap[At] # None /\ swap[At].type = "sync"
            /\ swap' = [swap EXCEPT ![At] = None]
         \/ /\ swap[At] = None
            /\ swap' = [swap EXCEPT ![At] = Made]
BY DEF Handling, PairKnown, PairChecked, PairCheckFails, SkipSmall, NotFound, FindFails,
   UpdateReserves, UpdateFails, ActionKnown, DeleteSync, DeleteFails, Insert, InsertRefused,
   InsertFails, SetReserves, Replaces

LEMMA HandlingNext ==
  ASSUME IInv, Handling
  PROVE  IInv'
<1> USE DEF pairVars, boundVars, nodeVars
<1>1. todo # <<>> /\ UNCHANGED <<created, trxs, again, crashes>>
  BY DEF Handling, PairKnown, PairChecked, PairCheckFails, SkipSmall, NotFound, FindFails,
     UpdateReserves, UpdateFails, ActionKnown, DeleteSync, DeleteFails, Insert, InsertRefused,
     InsertFails, Working, TooSmall, Looks, Idle
<1>2. /\ trx \in 1 .. MaxTrx /\ Head(todo) \in Nat /\ Log1 \in Log /\ At \in Key
  BY <1>1, InWork
<1>3. Done \/ Stays
  <2>1. CASE PairKnown \/ PairChecked \/ NotFound
    BY <2>1 DEF PairKnown, PairChecked, NotFound, Judge, GoTo, Stays, IInv, TypeOK
  <2>2. CASE DeleteSync \/ DeleteFails
    <3>1. swap[At] \in Record
      BY <1>2, <2>2 DEF DeleteSync, DeleteFails, IInv, TypeOK
    <3>2. swap[At].res \in Nat
      BY <3>1 DEF Record
    <3> QED
      BY <2>2, <3>2 DEF DeleteSync, DeleteFails, Stays
  <2>3. CASE ~(PairKnown \/ PairChecked \/ NotFound \/ DeleteSync \/ DeleteFails)
    BY <2>3 DEF Handling, PairCheckFails, SkipSmall, FindFails, UpdateReserves, UpdateFails,
       ActionKnown, Insert, InsertRefused, InsertFails
  <2> QED
    BY <2>1, <2>2, <2>3
<1>4. swap' \in [Key -> Record \union {None}]
  <2>1. swap \in [Key -> Record \union {None}]
    BY DEF IInv, TypeOK
  <2>2. \A r \in Record, i \in Nat : [r EXCEPT !.res = i] \in Record
    BY DEF Record
  <2>3. Made \in Record
    <3>1. carried \in Nat
      BY DEF IInv, TypeOK
    <3> QED
      BY <1>2, <3>1 DEF Made, Record
  <2>4. swap[At] \in Record \union {None}
    BY <1>2, <2>1
  <2> QED
    BY <1>2, <2>1, <2>2, <2>3, <2>4, SwapWrites
<1>5. pairsCache' \in (SUBSET created') \union {None} /\ known' \in [Pair -> BOOLEAN \union {None}]
  <2>1. CASE PairChecked
    <3>1. /\ pairsCache' = IF List = {} THEN pairsCache ELSE List
          /\ known' = [known EXCEPT ![Log1.pair] = Log1.pair \in List]
      BY <2>1 DEF PairChecked
    <3>2. List \in SUBSET created
      BY DEF List, IInv, TypeOK
    <3>3. (Log1.pair \in List) \in BOOLEAN
      OBVIOUS
    <3>4. known' \in [Pair -> BOOLEAN \union {None}]
      BY <3>1, <3>3 DEF IInv, TypeOK
    <3> QED
      BY <1>1, <3>1, <3>2, <3>4 DEF IInv, TypeOK
  <2>2. CASE ~PairChecked
    <3>1. UNCHANGED <<pairsCache, known>>
      BY <2>2 DEF Handling, PairKnown, PairCheckFails, SkipSmall, NotFound, FindFails,
         UpdateReserves, UpdateFails, ActionKnown, DeleteSync, DeleteFails, Insert, InsertRefused,
         InsertFails
    <3> QED
      BY <1>1, <3>1 DEF IInv, TypeOK
  <2> QED
    BY <2>1, <2>2
<1>6. /\ hurt' \in {hurt, hurt \union {trx}} /\ failures' \in 0 .. MaxFailures
      /\ rejected' \in {rejected, rejected \union {At}}
  <2>1. /\ hurt' \in {hurt, hurt \union {trx}}
        /\ rejected' \in {rejected, rejected \union {At}}
        /\ failures' = failures \/ (failures < MaxFailures /\ failures' = failures + 1)
    BY DEF Handling, PairKnown, PairChecked, PairCheckFails, Judge, SkipSmall, NotFound, FindFails,
       UpdateReserves, UpdateFails, ActionKnown, DeleteSync, DeleteFails, Insert, InsertRefused,
       InsertFails, Fails
  <2>2. failures' \in 0 .. MaxFailures
    BY <2>1, SwapsAssumption DEF IInv, TypeOK
  <2> QED
    BY <2>1, <2>2
<1>7. hurt' \subseteq 1 .. MaxTrx /\ rejected' \subseteq Key
  BY <1>2, <1>6 DEF IInv, TypeOK
<1>8. /\ Well'
      /\ next' \in 1 .. Len(trxs') + 1 /\ trx' \in 0 .. Len(trxs')
      /\ todo' \in Seq(Nat) /\ step' \in {"idle", "known", "find", "delete", "insert"}
      /\ todo' = <<>> <=> step' = "idle"
      /\ carried' \in Nat
  BY <1>1, <1>3, WorkType
<1>9. TypeOK'
  BY <1>1, <1>4, <1>5, <1>6, <1>7, <1>8 DEF IInv, TypeOK
<1> QED
  BY <1>8, <1>9 DEF IInv

LEMMA CrashNext ==
  ASSUME IInv, Crash
  PROVE  IInv'
<1> USE DEF nodeVars
<1>1. /\ next' \in 1 .. (IF Idle THEN next ELSE IF trx = next - 1 THEN trx ELSE next)
      /\ trx' = 0 /\ todo' = <<>> /\ step' = "idle" /\ carried' = 0
      /\ pairsCache' = None /\ known' = [p \in Pair |-> None]
      /\ hurt' = (IF Idle THEN hurt ELSE hurt \union {trx})
      /\ UNCHANGED <<created, trxs, swap, rejected, again, failures>>
      /\ crashes' \in 0 .. MaxCrashes
  BY SwapsAssumption DEF Crash, IInv, TypeOK
<1>2. next' \in 1 .. Len(trxs') + 1 /\ trx' \in 0 .. Len(trxs') /\ carried' \in Nat
  BY <1>1 DEF IInv, TypeOK
<1>3. hurt' \subseteq 1 .. MaxTrx
  BY <1>1, InWork DEF Idle, IInv, TypeOK
<1>4. todo' \in Seq(Nat) /\ DOMAIN todo' = {} /\ known' \in [Pair -> BOOLEAN \union {None}]
  BY <1>1
<1>5. Well'
  BY <1>1, <1>4 DEF IInv, Well
<1>6. pairsCache' \in (SUBSET created') \union {None} /\ todo' = <<>> /\ step' = "idle"
  BY <1>1
<1>7. TypeOK'
  BY <1>1, <1>2, <1>3, <1>4, <1>6 DEF IInv, TypeOK
<1> QED
  BY <1>5, <1>7 DEF IInv

LEMMA NextInv == IInv /\ [Next]_vars => IInv'
<1> SUFFICES ASSUME IInv, [Next]_vars PROVE IInv'
  OBVIOUS
<1>1. CASE ReaderCachesPairs \/ EvictPairs \/ UNCHANGED vars
  <2>1. /\ UNCHANGED <<created, trxs, swap, next, trx, todo, step, carried, known, hurt, rejected,
                      again, failures, crashes>>
        /\ pairsCache' \in {pairsCache, created, None}
    BY <1>1 DEF ReaderCachesPairs, EvictPairs, vars, nodeVars, workVars, pairVars, boundVars
  <2>2. Well'
    BY <2>1 DEF IInv, Well
  <2>3. pairsCache' \in (SUBSET created') \union {None}
    BY <2>1 DEF IInv, TypeOK
  <2> QED
    BY <2>1, <2>2, <2>3 DEF IInv, TypeOK
<1> QED
  BY <1>1, ChainNext, TakeUpNext, HandlingNext, CrashNext DEF Next, Handler, Handling

-----------------------------------------------------------------------------
(* Every variable keeps its range; the handler only works on a log that is *)
(* there, also when transactions come again or are cut off.                *)
THEOREM TypeCorrect == Spec => []TypeOK
<1>1. IInv => TypeOK
  BY DEF IInv
<1> QED
  BY <1>1, InitInv, NextInv, PTL DEF Spec

(* No action that was recorded is lost or replaced, for any number of      *)
(* pairs, transactions, deliveries, failures and stops.                    *)
THEOREM ActionNeverLost == Spec => ActionKept
<1> DEFINE Kept(k) ==
      swap[k] # None /\ swap[k].type = "action" =>
        swap'[k] # None /\ swap'[k].type = "action" /\ swap'[k].act = swap[k].act
<1>1. ASSUME IInv, [Next]_vars, NEW k \in Key PROVE Kept(k)
  <2>1. CASE swap' = swap
    BY <2>1
  <2>2. CASE Handling
    <3>1. At \in Key /\ Head(todo) \in Nat
      <4>1. todo # <<>>
        BY <2>2 DEF Handling, PairKnown, PairChecked, PairCheckFails, SkipSmall, NotFound,
           FindFails, UpdateReserves, UpdateFails, ActionKnown, DeleteSync, DeleteFails, Insert,
           InsertRefused, InsertFails, Working, TooSmall, Looks, Idle
      <4> QED
        BY <1>1, <4>1, InWork
    <3>2. swap \in [Key -> Record \union {None}]
      BY <1>1 DEF IInv, TypeOK
    <3>3. \A r \in Record, i \in Nat :
            /\ [r EXCEPT !.res = i] \in Record
            /\ [r EXCEPT !.res = i].type = r.type /\ [r EXCEPT !.res = i].act = r.act
      BY DEF Record
    <3>4. CASE k = At /\ swap[At] # None
               /\ swap' = [swap EXCEPT ![At] = [swap[At] EXCEPT !.res = Head(todo)]]
      <4>1. swap[At] \in Record
        BY <3>1, <3>2, <3>4
      <4>2. swap'[k] = [swap[k] EXCEPT !.res = Head(todo)]
        BY <3>1, <3>2, <3>4
      <4>3. swap'[k] # None
        BY <3>1, <3>3, <3>4, <4>1, <4>2, NoneAssumption
      <4> QED
        BY <3>1, <3>3, <3>4, <4>1, <4>2, <4>3
    <3> QED
      BY <1>1, <2>2, <3>1, <3>2, <3>4, SwapWrites
  <2> QED
    BY <1>1, <2>1, <2>2 DEF Next, Chain, CreatePair, NewTrx, Handler, Handling, Deliver,
       DeliverOutOfTurn, TakeUp, ReaderCachesPairs, EvictPairs, Crash, vars
<1>2. IInv /\ [Next]_vars =>
        [\A k \in Key :
           swap[k] # None /\ swap[k].type = "action" =>
             swap'[k] # None /\ swap'[k].type = "action" /\ swap'[k].act = swap[k].act]_vars
  BY <1>1
<1> QED
  BY <1>2, InitInv, NextInv, PTL DEF Spec, ActionKept

-----------------------------------------------------------------------------
(* That the records settle needs more than what they show in the end: what *)
(* each shows on the way.  A transaction has the logs of one pair and      *)
(* begins with its Sync; they are worked off in their order; as long as    *)
(* nothing failed since it was taken up, its record shows the logs handled *)
(* so far, or is out of the database with its reserves in hand.            *)
Own(t) == trxs[t][1].pair
OnePair ==
  \A t \in DOMAIN trxs :
    /\ trxs[t][1].kind = "sync"
    /\ \A i \in DOMAIN trxs[t] : trxs[t][i].pair = Own(t)

Handled == Len(trxs[trx]) - Len(todo)
InOrder ==
  todo # <<>> =>
    /\ Len(todo) <= Len(trxs[trx])
    /\ \A i \in DOMAIN todo : todo[i] = Handled + i
    /\ step = "insert" => Log1.kind # "zero"

RecordsFit ==
  \A k \in Key : swap[k] # None =>
    /\ k[1] \in DOMAIN trxs
    /\ swap[k].type = "action" => swap[k].act \in LogsOf(k[1], k[2], "action")

Upto(t, p, kind, n) == LogsOf(t, p, kind) \intersect (1 .. n)
IsLatest(i, S) == i \in S /\ \A j \in S : j <= i

(* The record r shows the first n logs of a transaction. *)
Shows(r, t, p, n) ==
  /\ r # None
  /\ IsLatest(r.res, Upto(t, p, "sync", n))
  /\ Upto(t, p, "action", n) # {} => r.type = "action"

Sound(k) == k[1] \notin hurt /\ k \notin rejected

InHand ==
  todo # <<>> /\ Sound(<<trx, Own(trx)>>) =>
    LET r == swap[<<trx, Own(trx)>>]
    IN  /\ step # "insert" /\ Handled > 0 => Shows(r, trx, Own(trx), Handled)
        /\ step = "insert" =>
             /\ r = None
             /\ IF Log1.kind = "sync" THEN Handled = 0
                ELSE IsLatest(carried, Upto(trx, Own(trx), "sync", Handled))

Settled ==
  \A t \in 1 .. next - 1 :
    (todo = <<>> \/ trx # t) /\ Sound(<<t, Own(t)>>) =>
      Shows(swap[<<t, Own(t)>>], t, Own(t), Len(trxs[t]))

SettleInv == OnePair /\ InOrder /\ RecordsFit /\ InHand /\ Settled

LEMMA InitSettle == Init => SettleInv
<1> SUFFICES ASSUME Init PROVE SettleInv
  OBVIOUS
<1>1. trxs = <<>> /\ todo = <<>> /\ next = 1 /\ \A k \in Key : swap[k] = None
  BY DEF Init
<1>2. DOMAIN trxs = {} /\ 1 .. next - 1 = {}
  BY <1>1
<1> QED
  BY <1>1, <1>2 DEF SettleInv, OnePair, InOrder, RecordsFit, InHand, Settled

(* The logs of a kind among the first n + 1, from those among the first n. *)
LEMMA UptoNext ==
  ASSUME NEW t \in DOMAIN trxs, NEW n \in Nat, n + 1 \in DOMAIN trxs[t],
         NEW kind, NEW p, trxs[t][n + 1].pair = p
  PROVE  Upto(t, p, kind, n + 1) =
           Upto(t, p, kind, n) \union (IF trxs[t][n + 1].kind = kind THEN {n + 1} ELSE {})
<1>1. 1 .. n + 1 = (1 .. n) \union {n + 1}
  OBVIOUS
<1>2. n + 1 \in LogsOf(t, p, kind) <=> trxs[t][n + 1].kind = kind
  BY DEF LogsOf
<1> HIDE DEF LogsOf
<1> QED
  BY <1>1, <1>2 DEF Upto

(* A record that shows the first n logs shows the next one, too, when it   *)
(* has taken in what that log says.                                        *)
LEMMA ShowsNext ==
  ASSUME NEW t \in DOMAIN trxs, NEW n \in Nat, n + 1 \in DOMAIN trxs[t],
         NEW p, trxs[t][n + 1].pair = p, NEW r, r # None,
         \/ /\ trxs[t][n + 1].kind = "sync" /\ r.res = n + 1
            /\ Upto(t, p, "action", n) # {} => r.type = "action"
         \/ /\ trxs[t][n + 1].kind = "action" /\ r.type = "action"
            /\ IsLatest(r.res, Upto(t, p, "sync", n))
         \/ /\ trxs[t][n + 1].kind = "zero" /\ Shows(r, t, p, n)
  PROVE  Shows(r, t, p, n + 1)
<1>0. \A kind : Upto(t, p, kind, n + 1) =
        Upto(t, p, kind, n) \union (IF trxs[t][n + 1].kind = kind THEN {n + 1} ELSE {})
  BY UptoNext
<1>1. /\ Upto(t, p, "sync", n + 1) =
           Upto(t, p, "sync", n) \union (IF trxs[t][n + 1].kind = "sync" THEN {n + 1} ELSE {})
      /\ Upto(t, p, "action", n + 1) =
           Upto(t, p, "action", n) \union (IF trxs[t][n + 1].kind = "action" THEN {n + 1} ELSE {})
  BY <1>0
<1>2. \A kind : Upto(t, p, kind, n) \subseteq 1 .. n
  BY DEF Upto
<1>3. CASE trxs[t][n + 1].kind = "sync"
  <2>1. r.res = n + 1 /\ (Upto(t, p, "action", n) # {} => r.type = "action")
    BY <1>3
  <2>2. Upto(t, p, "action", n + 1) = Upto(t, p, "action", n)
        /\ Upto(t, p, "sync", n + 1) = Upto(t, p, "sync", n) \union {n + 1}
    BY <1>1, <1>3
  <2>3. \A j \in Upto(t, p, "sync", n + 1) : j <= n + 1
    BY <1>2, <2>2
  <2> QED
    BY <2>1, <2>2, <2>3 DEF Shows, IsLatest
<1>4. CASE trxs[t][n + 1].kind = "action"
  <2>1. r.type = "action" /\ IsLatest(r.res, Upto(t, p, "sync", n))
    BY <1>4
  <2>2. Upto(t, p, "sync", n + 1) = Upto(t, p, "sync", n)
    BY <1>1, <1>4
  <2> QED
    BY <2>1, <2>2 DEF Shows
<1>5. CASE trxs[t][n + 1].kind = "zero"
  <2>1. Shows(r, t, p, n)
    BY <1>5
  <2>2. Upto(t, p, "sync", n + 1) = Upto(t, p, "sync", n)
        /\ Upto(t, p, "action", n + 1) = Upto(t, p, "action", n)
    BY <1>1, <1>5
  <2> QED
    BY <2>1, <2>2 DEF Shows
<1> QED
  BY <1>3, <1>4, <1>5

(* The log in work is the one after those handled, and a log of the pair   *)
(* of its transaction.                                                     *)
LEMMA AtWork ==
  ASSUME IInv, SettleInv, todo # <<>>
  PROVE  /\ trx \in DOMAIN trxs /\ Handled \in Nat /\ Head(todo) = Handled + 1
         /\ Handled + 1 \in DOMAIN trxs[trx] /\ Log1 = trxs[trx][Handled + 1]
         /\ Log1.pair = Own(trx) /\ At = <<trx, Own(trx)>> /\ At \in Key
         /\ Log1.kind \in {"sync", "action", "zero"}
         /\ Handled = 0 => Log1.kind = "sync"
         /\ Len(trxs[trx]) \in Nat /\ Len(todo) \in Nat \ {0}
<1>1. /\ trx \in DOMAIN trxs /\ Head(todo) \in DOMAIN trxs[trx] /\ Log1 \in Log /\ At \in Key
  BY InWork
<1>2. trxs[trx] \in Seq(Log) /\ todo \in Seq(Nat)
  BY <1>1 DEF IInv, TypeOK
<1>3. Len(trxs[trx]) \in Nat /\ Len(todo) \in Nat \ {0} /\ Head(todo) = todo[1] /\ 1 \in DOMAIN todo
  BY <1>2
<1>4. Len(todo) <= Len(trxs[trx]) /\ todo[1] = Handled + 1
  BY <1>3 DEF SettleInv, InOrder
<1>5. Handled \in Nat
  BY <1>3, <1>4 DEF Handled
<1>6. Log1 = trxs[trx][Handled + 1] /\ Handled + 1 \in DOMAIN trxs[trx]
  BY <1>1, <1>3, <1>4 DEF Log1
<1>7. Log1.pair = Own(trx) /\ (Handled = 0 => Log1.kind = "sync")
  BY <1>1, <1>6 DEF SettleInv, OnePair
<1>8. At = <<trx, Own(trx)>>
  BY <1>7 DEF At
<1>9. Log1.kind \in {"sync", "action", "zero"}
  BY <1>1 DEF Log
<1> QED
  BY <1>1, <1>3, <1>4, <1>5, <1>6, <1>7, <1>8, <1>9

(* When the handler of a log ends, there is one more log handled.          *)
LEMMA DoneWork ==
  ASSUME IInv, SettleInv, todo # <<>>, Done, UNCHANGED nodeVars
  PROVE  /\ InOrder' /\ step' # "insert" /\ Handled' = Handled + 1
         /\ todo' = <<>> => Handled + 1 = Len(trxs[trx])
<1> USE DEF nodeVars
<1>1. /\ todo' = Tail(todo) /\ step' = (IF Len(todo) = 1 THEN "idle" ELSE "known")
      /\ trx' = trx /\ trxs' = trxs
  BY DEF Done
<1>2. /\ Handled \in Nat /\ Len(todo) \in Nat \ {0} /\ Len(trxs[trx]) \in Nat /\ todo \in Seq(Nat)
  BY AtWork DEF IInv, TypeOK
<1>3. /\ Len(Tail(todo)) = Len(todo) - 1 /\ DOMAIN Tail(todo) = 1 .. Len(todo) - 1
      /\ DOMAIN todo = 1 .. Len(todo)
      /\ \A i \in 1 .. Len(todo) - 1 : Tail(todo)[i] = todo[i + 1]
  BY <1>2
<1>4. Handled' = Handled + 1
  BY <1>1, <1>2, <1>3 DEF Handled
<1>5. step' # "insert"
  BY <1>1
<1>6. todo' = <<>> => Handled + 1 = Len(trxs[trx])
  <2> SUFFICES ASSUME todo' = <<>> PROVE Handled + 1 = Len(trxs[trx])
    OBVIOUS
  <2>1. Len(<<>>) = 0
    OBVIOUS
  <2>2. Len(todo') = Len(todo) - 1
    BY <1>1, <1>3
  <2>3. Len(todo) = 1
    BY <1>2, <2>1, <2>2
  <2> QED
    BY <1>2, <2>3 DEF Handled
<1>7. Len(todo) <= Len(trxs[trx]) /\ \A i \in DOMAIN todo : todo[i] = Handled + i
  BY DEF SettleInv, InOrder
<1>8. \A i \in DOMAIN todo' : todo'[i] = Handled' + i
  <2> TAKE i \in DOMAIN todo'
  <2>1. i \in 1 .. Len(todo) - 1 /\ todo'[i] = todo[i + 1] /\ i + 1 \in DOMAIN todo
    BY <1>1, <1>2, <1>3
  <2>2. todo[i + 1] = Handled + (i + 1)
    BY <1>7, <2>1
  <2> QED
    BY <1>2, <1>4, <2>1, <2>2
<1>9. Len(todo') <= Len(trxs'[trx'])
  BY <1>1, <1>2, <1>3, <1>7
<1> QED
  BY <1>4, <1>5, <1>6, <1>8, <1>9 DEF InOrder

(* What one step of the handler leaves: the log is done and the record     *)
(* shows it, or the pair is accepted, or the record is to be inserted.     *)
LooksNext == step = "known" /\ step' = "find" /\ Stays /\ swap' = swap

InsertsNext ==
  /\ step' = "insert" /\ Stays /\ Log1.kind # "zero"
  /\ trx \notin hurt' /\ At \notin rejected' =>
       /\ swap'[At] = None
       /\ IF Log1.kind = "sync" THEN Handled = 0
          ELSE IsLatest(carried', Upto(trx, Own(trx), "sync", Handled))

DoneNext ==
  /\ Done
  /\ trx \notin hurt' /\ At \notin rejected' =>
       Shows(swap'[At], trx, Own(trx), Handled + 1)

LEMMA HandlingEffect ==
  ASSUME IInv, SettleInv, Handling
  PROVE  LooksNext \/ InsertsNext \/ DoneNext
<1> DEFINE n == Handled
           p == Own(trx)
           r == swap[At]
           clean == trx \notin hurt /\ At \notin rejected
<1>1. todo # <<>>
  BY DEF Handling, PairKnown, PairChecked, PairCheckFails, SkipSmall, NotFound, FindFails,
     UpdateReserves, UpdateFails, ActionKnown, DeleteSync, DeleteFails, Insert, InsertRefused,
     InsertFails, Working, TooSmall, Looks, Idle
<1>2. /\ trx \in DOMAIN trxs /\ n \in Nat /\ Head(todo) = n + 1
      /\ n + 1 \in DOMAIN trxs[trx] /\ Log1 = trxs[trx][n + 1]
      /\ Log1.pair = p /\ At = <<trx, p>> /\ At \in Key
      /\ Log1.kind \in {"sync", "action", "zero"} /\ (n = 0 => Log1.kind = "sync")
  BY <1>1, AtWork
<1>3. swap \in [Key -> Record \union {None}] /\ carried \in Nat /\ r \in Record \union {None}
  BY <1>2 DEF IInv, TypeOK
<1>4. clean =>
        /\ step # "insert" /\ n > 0 => Shows(r, trx, p, n)
        /\ step = "insert" =>
             /\ r = None
             /\ IF Log1.kind = "sync" THEN n = 0 ELSE IsLatest(carried, Upto(trx, p, "sync", n))
  BY <1>1, <1>2 DEF SettleInv, InHand, Sound
<1>5. Upto(trx, p, "action", 0) = {}
  BY DEF Upto
<1>6. \A s : /\ trxs[trx][n + 1].pair = p /\ s # None
             /\ \/ /\ Log1.kind = "sync" /\ s.res = n + 1
                   /\ Upto(trx, p, "action", n) # {} => s.type = "action"
                \/ /\ Log1.kind = "action" /\ s.type = "action"
                   /\ IsLatest(s.res, Upto(trx, p, "sync", n))
                \/ /\ Log1.kind = "zero" /\ Shows(s, trx, p, n)
             => Shows(s, trx, p, n + 1)
  BY <1>2, ShowsNext
<1>7. trxs[trx][n + 1].pair = p
  BY <1>2
<1> HIDE DEF n, p
<1>10. CASE PairKnown \/ PairChecked
  BY <1>2, <1>3, <1>10 DEF PairKnown, PairChecked, Judge, GoTo, Working, LooksNext, DoneNext, Stays
<1>11. CASE PairCheckFails \/ FindFails \/ UpdateFails \/ InsertFails
  BY <1>11 DEF PairCheckFails, FindFails, UpdateFails, InsertFails, Fails, DoneNext
<1>12. CASE SkipSmall
  <2>1. Done /\ swap' = swap /\ hurt' = hurt /\ rejected' = rejected /\ step = "find"
        /\ Log1.kind = "zero"
    BY <1>12 DEF SkipSmall, TooSmall, Working
  <2>2. n > 0
    BY <1>2, <2>1
  <2>3. clean => r # None /\ Shows(r, trx, p, n)
    BY <1>4, <2>1, <2>2 DEF Shows
  <2>4. clean => Shows(r, trx, p, n + 1)
    BY <1>6, <1>7, <2>1, <2>3
  <2> QED
    BY <2>1, <2>4 DEF DoneNext, n, p
<1>13. CASE NotFound
  <2>1. /\ r = None /\ step = "find" /\ Log1.kind # "zero" /\ step' = "insert"
        /\ swap' = swap /\ hurt' = hurt /\ rejected' = rejected
        /\ UNCHANGED <<next, trx, todo, carried>>
    BY <1>13 DEF NotFound, Looks, Working, GoTo
  <2>2. clean => n = 0
    BY <1>2, <1>4, <2>1 DEF Shows
  <2> QED
    BY <1>2, <1>3, <2>1, <2>2 DEF InsertsNext, Stays, n, p
<1>14. CASE UpdateReserves
  <2>1. /\ Done /\ step = "find" /\ r # None /\ Log1.kind = "sync"
        /\ swap' = [swap EXCEPT ![At] = [r EXCEPT !.res = n + 1]]
        /\ hurt' = hurt /\ rejected' = rejected
    BY <1>2, <1>14 DEF UpdateReserves, Looks, Working, SetReserves
  <2> DEFINE s == [r EXCEPT !.res = n + 1]
  <2>2. r \in Record
    BY <1>3, <2>1
  <2>3. s \in Record /\ s.res = n + 1 /\ s.type = r.type
    BY <1>2, <2>2 DEF Record
  <2>4. swap'[At] = s
    BY <1>2, <1>3, <2>1
  <2> HIDE DEF s
  <2>5. s # None
    BY <2>3, NoneAssumption
  <2>6. clean => (Upto(trx, p, "action", n) # {} => s.type = "action")
    <3>1. CASE n = 0
      BY <1>5, <3>1
    <3>2. CASE n > 0
      BY <1>4, <2>1, <2>3, <3>2 DEF Shows
    <3> QED
      BY <1>2, <3>1, <3>2
  <2>7. clean => Shows(s, trx, p, n + 1)
    BY <1>6, <1>7, <2>1, <2>3, <2>5, <2>6
  <2> QED
    BY <2>1, <2>4, <2>7 DEF DoneNext, n, p
<1>15. CASE ActionKnown
  <2>1. /\ Done /\ step = "find" /\ r # None /\ Log1.kind = "action" /\ r.type # "sync"
        /\ swap' = swap /\ hurt' = hurt /\ rejected' = rejected
    BY <1>15 DEF ActionKnown, Looks, Working, Replaces
  <2>2. r \in Record
    BY <1>3, <2>1
  <2>3. r.type = "action" /\ n > 0
    BY <1>2, <2>1, <2>2 DEF Record
  <2>4. clean => Shows(r, trx, p, n)
    BY <1>4, <2>1, <2>3
  <2>5. clean => Shows(r, trx, p, n + 1)
    BY <1>6, <1>7, <2>1, <2>3, <2>4 DEF Shows
  <2> QED
    BY <2>1, <2>5 DEF DoneNext, n, p
<1>16. CASE DeleteSync
  <2>1. /\ step = "find" /\ r # None /\ Log1.kind = "action"
        /\ swap' = [swap EXCEPT ![At] = None]
        /\ step' = "insert" /\ carried' = r.res
        /\ UNCHANGED <<next, trx, todo>> /\ hurt' = hurt /\ rejected' = rejected
    BY <1>16 DEF DeleteSync, Looks, Working
  <2>2. r \in Record /\ r.res \in Nat /\ n > 0
    BY <1>2, <1>3, <2>1 DEF Record
  <2>3. swap'[At] = None
    BY <1>2, <1>3, <2>1
  <2>4. clean => IsLatest(r.res, Upto(trx, p, "sync", n))
    BY <1>4, <2>1, <2>2 DEF Shows
  <2>5. Stays
    BY <2>1, <2>2 DEF Stays
  <2> QED
    BY <2>1, <2>3, <2>4, <2>5 DEF InsertsNext, n, p
<1>17. CASE DeleteFails
  <2>1. /\ r # None /\ Log1.kind = "action" /\ step' = "insert" /\ carried' = r.res
        /\ UNCHANGED <<next, trx, todo>> /\ trx \in hurt'
    BY <1>17 DEF DeleteFails, Looks, Working, Fails
  <2>2. r \in Record /\ r.res \in Nat
    BY <1>3, <2>1 DEF Record
  <2> QED
    BY <2>1, <2>2 DEF InsertsNext, Stays
<1>18. CASE Insert
  <2>1. /\ Done /\ step = "insert" /\ r = None /\ hurt' = hurt /\ rejected' = rejected
        /\ swap' = [swap EXCEPT ![At] = Made]
    BY <1>18 DEF Insert, Working
  <2>2. swap'[At] = Made
    BY <1>2, <1>3, <2>1
  <2>3. Log1.kind # "zero"
    BY <1>1, <2>1 DEF SettleInv, InOrder
  <2>4. Made \in Record
    BY <1>2, <1>3 DEF Made, Record
  <2>5. Made # None
    BY <2>4, NoneAssumption
  <2>6. clean => Shows(Made, trx, p, n + 1)
    <3>1. CASE Log1.kind = "sync"
      <4>1. Made.res = n + 1
        BY <1>2, <3>1 DEF Made
      <4>2. clean => Upto(trx, p, "action", n) = {}
        BY <1>4, <1>5, <2>1, <3>1
      <4> QED
        BY <1>6, <1>7, <2>5, <3>1, <4>1, <4>2
    <3>2. CASE Log1.kind = "action"
      <4>1. Made.res = carried /\ Made.type = "action"
        BY <3>2 DEF Made
      <4>2. clean => IsLatest(carried, Upto(trx, p, "sync", n))
        BY <1>4, <2>1, <3>2
      <4> QED
        BY <1>6, <1>7, <2>5, <3>2, <4>1, <4>2
    <3> QED
      BY <1>2, <2>3, <3>1, <3>2
  <2> QED
    BY <2>1, <2>2, <2>6 DEF DoneNext, n, p
<1>19. CASE InsertRefused
  <2>1. Done /\ step = "insert" /\ r # None /\ hurt' = hurt /\ rejected' = rejected
    BY <1>19 DEF InsertRefused, Working
  <2> QED
    BY <1>4, <2>1 DEF DoneNext
<1> QED
  BY <1>10, <1>11, <1>12, <1>13, <1>14, <1>15, <1>16, <1>17, <1>18, <1>19 DEF Handling

(* A step of the handler leaves every other record alone, and what it says *)
(* of failures and rejections is only added to.                            *)
LEMMA HandlingLeaves ==
  ASSUME IInv, Handling
  PROVE  /\ todo # <<>> /\ UNCHANGED nodeVars /\ next' = next /\ trx' = trx
         /\ hurt \subseteq hurt' /\ rejected \subseteq rejected'
         /\ \A k \in Key : k # At => swap'[k] = swap[k]
<1>1. todo # <<>> /\ UNCHANGED nodeVars /\ hurt \subseteq hurt' /\ rejected \subseteq rejected'
  BY DEF Handling, PairKnown, PairChecked, PairCheckFails, Judge, SkipSmall, NotFound, FindFails,
     UpdateReserves, UpdateFails, ActionKnown, DeleteSync, DeleteFails, Insert, InsertRefused,
     InsertFails, Fails, Working, TooSmall, Looks, Idle
<1>2. next' = next /\ trx' = trx
  BY DEF Handling, PairKnown, PairChecked, PairCheckFails, Judge, SkipSmall, NotFound, FindFails,
     UpdateReserves, UpdateFails, ActionKnown, DeleteSync, DeleteFails, Insert, InsertRefused,
     InsertFails, GoTo, Done
<1>3. swap \in [Key -> Record \union {None}]
  BY DEF IInv, TypeOK
<1>4. \A k \in Key : k # At => swap'[k] = swap[k]
  BY <1>3, SwapWrites
<1> QED
  BY <1>1, <1>2, <1>4

(* Every record names an action of its own transaction and pair. *)
LEMMA HandlingFits ==
  ASSUME IInv, SettleInv, Handling
  PROVE  RecordsFit'
<1>1. todo # <<>> /\ trxs' = trxs /\ \A k \in Key : k # At => swap'[k] = swap[k]
  BY HandlingLeaves DEF nodeVars
<1>2. /\ trx \in DOMAIN trxs /\ Head(todo) = Handled + 1 /\ Handled + 1 \in DOMAIN trxs[trx]
      /\ Log1 = trxs[trx][Handled + 1] /\ Log1.pair = Own(trx) /\ At = <<trx, Own(trx)>>
      /\ At \in Key /\ Log1.kind \in {"sync", "action", "zero"}
  BY <1>1, AtWork
<1>3. swap \in [Key -> Record \union {None}]
  BY DEF IInv, TypeOK
<1>4. ASSUME NEW k \in Key, swap'[k] # None
      PROVE  /\ k[1] \in DOMAIN trxs
             /\ swap'[k].type = "action" => swap'[k].act \in LogsOf(k[1], k[2], "action")
  <2>1. CASE swap'[k] = swap[k]
    BY <1>4, <2>1 DEF SettleInv, RecordsFit
  <2>2. CASE k = At /\ swap[At] # None
             /\ swap' = [swap EXCEPT ![At] = [swap[At] EXCEPT !.res = Head(todo)]]
    <3>1. swap[At] \in Record
      BY <1>2, <1>3, <2>2
    <3>2. swap'[k].type = swap[k].type /\ swap'[k].act = swap[k].act
      BY <1>2, <1>3, <2>2, <3>1 DEF Record
    <3> QED
      BY <2>2, <3>2 DEF SettleInv, RecordsFit
  <2>3. CASE k = At /\ Insert
    <3>1. swap'[k] = Made /\ step = "insert"
      BY <1>2, <1>3, <2>3 DEF Insert, Working
    <3>2. Log1.kind \in {"sync", "action"}
      BY <1>1, <1>2, <3>1 DEF SettleInv, InOrder
    <3>3. Made.type = "action" => Made.act = Handled + 1 /\ Log1.kind = "action"
      BY <1>2, <3>2 DEF Made
    <3>4. Log1.kind = "action" => Handled + 1 \in LogsOf(trx, Own(trx), "action")
      BY <1>2 DEF LogsOf
    <3>5. k[1] = trx /\ k[2] = Own(trx)
      BY <1>2, <2>3
    <3> HIDE DEF LogsOf
    <3> QED
      BY <1>2, <3>1, <3>3, <3>4, <3>5
  <2>4. CASE k = At /\ swap' = [swap EXCEPT ![At] = None]
    BY <1>2, <1>3, <1>4, <2>4
  <2>5. CASE k = At /\ ~Insert /\ swap[At] = None /\ swap' # swap
    <3>1. FALSE
      BY <1>3, <2>5, SwapWrites DEF Handling, PairKnown, PairChecked, PairCheckFails, SkipSmall,
         NotFound, FindFails, UpdateReserves, UpdateFails, ActionKnown, DeleteSync, DeleteFails,
         InsertRefused, InsertFails
    <3> QED
      BY <3>1
  <2> QED
    BY <1>1, <2>1, <2>2, <2>3, <2>4, <2>5, SwapWrites
<1> QED
  BY <1>1, <1>4 DEF RecordsFit, LogsOf

LEMMA HandlingSettles ==
  ASSUME IInv, SettleInv, Handling
  PROVE  SettleInv'
<1>1. /\ todo # <<>> /\ UNCHANGED nodeVars /\ trxs' = trxs /\ next' = next /\ trx' = trx
      /\ hurt \subseteq hurt' /\ rejected \subseteq rejected'
      /\ \A k \in Key : k # At => swap'[k] = swap[k]
  BY HandlingLeaves DEF nodeVars
<1>2. /\ trx \in DOMAIN trxs /\ Handled \in Nat /\ At = <<trx, Own(trx)>> /\ At \in Key
      /\ Log1.kind \in {"sync", "action", "zero"}
      /\ Len(trxs[trx]) \in Nat /\ Len(todo) \in Nat \ {0}
  BY <1>1, AtWork
<1>3. /\ \A t : Own(t)' = Own(t)
      /\ \A t, p, k, n : Upto(t, p, k, n)' = Upto(t, p, k, n)
      /\ \A r, t, p, n : Shows(r, t, p, n)' = Shows(r, t, p, n)
  BY <1>1 DEF Own, Upto, LogsOf, Shows
<1>4. LooksNext \/ InsertsNext \/ DoneNext
  BY HandlingEffect
<1>5. OnePair'
  BY <1>1 DEF SettleInv, OnePair, Own
<1>6. InOrder'
  <2>1. CASE DoneNext
    BY <1>1, <2>1, DoneWork DEF DoneNext
  <2>2. CASE LooksNext \/ InsertsNext
    <3>1. UNCHANGED <<next, trx, todo>> /\ (step' = "insert" => Log1.kind # "zero")
      BY <2>2 DEF LooksNext, InsertsNext, Stays
    <3>2. Handled' = Handled /\ Log1' = Log1
      BY <1>1, <3>1 DEF Handled, Log1
    <3> QED
      BY <1>1, <3>1, <3>2 DEF SettleInv, InOrder
  <2> QED
    BY <1>4, <2>1, <2>2
<1>7. InHand'
  <2> SUFFICES ASSUME todo' # <<>>, trx \notin hurt', At \notin rejected'
               PROVE  /\ step' # "insert" /\ Handled' > 0 =>
                           Shows(swap'[At], trx, Own(trx), Handled')
                      /\ step' = "insert" =>
                           /\ swap'[At] = None
                           /\ IF Log1'.kind = "sync" THEN Handled' = 0
                              ELSE IsLatest(carried', Upto(trx, Own(trx), "sync", Handled'))
    BY <1>1, <1>2, <1>3 DEF InHand, Sound
  <2>1. CASE DoneNext
    <3>1. Handled' = Handled + 1 /\ step' # "insert"
      BY <1>1, <2>1, DoneWork DEF DoneNext
    <3> QED
      BY <2>1, <3>1 DEF DoneNext
  <2>2. CASE LooksNext
    <3>1. /\ todo' = todo /\ step = "known" /\ step' = "find" /\ swap' = swap
      BY <2>2 DEF LooksNext, Stays
    <3>2. Handled' = Handled
      BY <1>1, <3>1 DEF Handled
    <3>3. Sound(At)
      BY <1>1, <1>2 DEF Sound
    <3> QED
      BY <1>1, <1>2, <3>1, <3>2, <3>3 DEF SettleInv, InHand
  <2>3. CASE InsertsNext
    <3>1. todo' = todo
      BY <2>3 DEF InsertsNext, Stays
    <3>2. Handled' = Handled /\ Log1' = Log1
      BY <1>1, <3>1 DEF Handled, Log1
    <3> QED
      BY <2>3, <3>2 DEF InsertsNext
  <2> QED
    BY <1>4, <2>1, <2>2, <2>3
<1>8. Settled'
  <2> SUFFICES ASSUME NEW t \in 1 .. next - 1, todo' = <<>> \/ trx # t,
                      t \notin hurt', <<t, Own(t)>> \notin rejected'
               PROVE  Shows(swap'[<<t, Own(t)>>], t, Own(t), Len(trxs[t]))
    BY <1>1, <1>3 DEF Settled, Sound
  <2>1. CASE t # trx
    <3>1. t \in DOMAIN trxs
      BY DEF IInv, TypeOK
    <3>2. <<t, Own(t)>> \in Key
      <4>1. t \in 1 .. MaxTrx /\ trxs[t] \in Seq(Log) /\ trxs[t] # <<>>
        BY <3>1, SwapsAssumption DEF IInv, TypeOK, Well
      <4>2. trxs[t][1] \in Log
        BY <4>1
      <4>3. Own(t) \in Pair
        BY <4>2 DEF Own, Log
      <4> QED
        BY <4>1, <4>3 DEF Key
    <3>3. swap'[<<t, Own(t)>>] = swap[<<t, Own(t)>>]
      BY <1>1, <1>2, <2>1, <3>2
    <3>4. Sound(<<t, Own(t)>>)
      BY <1>1 DEF Sound
    <3> QED
      BY <2>1, <3>3, <3>4 DEF SettleInv, Settled
  <2>2. CASE t = trx
    <3>1. todo' = <<>>
      BY <2>2
    <3>2. DoneNext
      BY <1>1, <1>4, <3>1 DEF LooksNext, InsertsNext, Stays
    <3>3. Handled + 1 = Len(trxs[trx])
      BY <1>1, <3>1, <3>2, DoneWork DEF DoneNext
    <3> QED
      BY <1>2, <2>2, <3>2, <3>3 DEF DoneNext
  <2> QED
    BY <2>1, <2>2
<1> QED
  BY <1>5, <1>6, <1>7, <1>8, HandlingFits DEF SettleInv

(* A transaction that is taken up is in work, and its failures and         *)
(* rejections are forgotten.                                               *)
LEMMA TakeUpSettles ==
  ASSUME IInv, SettleInv, Deliver \/ DeliverOutOfTurn
  PROVE  SettleInv'
<1>1. /\ trxs \in Seq(Seq(Log)) /\ Len(trxs) \in Nat /\ DOMAIN trxs = 1 .. Len(trxs)
      /\ next \in 1 .. Len(trxs) + 1
  BY DEF IInv, TypeOK
<1>2. /\ todo = <<>>
      /\ \/ TakeUp(next) /\ next' = next + 1 /\ next \in DOMAIN trxs
         \/ (\E t \in DOMAIN trxs : TakeUp(t)) /\ next' = next
  BY <1>1 DEF Deliver, DeliverOutOfTurn, Idle
<1>3. PICK t \in DOMAIN trxs :
        TakeUp(t) /\ ((next' = next + 1 /\ t = next) \/ next' = next)
  BY <1>2
<1>4. /\ trx' = t /\ todo' = [i \in 1 .. Len(trxs[t]) |-> i] /\ step' = "known"
      /\ hurt' = hurt \ {t} /\ rejected' = {k \in rejected : k[1] # t}
      /\ trxs' = trxs /\ swap' = swap
  BY <1>3 DEF TakeUp, nodeVars
<1>5. /\ \A u : Own(u)' = Own(u)
      /\ \A r, u, p, n : Shows(r, u, p, n)' = Shows(r, u, p, n)
      /\ \A u, p, k : LogsOf(u, p, k)' = LogsOf(u, p, k)
  BY <1>4 DEF Own, Upto, LogsOf, Shows
<1>6. Len(trxs[t]) \in Nat
  <2>1. trxs[t] \in Seq(Log)
    BY <1>1
  <2> QED
    BY <2>1
<1>7. /\ todo' \in Seq(Nat) /\ Len(todo') = Len(trxs[t]) /\ DOMAIN todo' = 1 .. Len(trxs[t])
      /\ Handled' = 0 /\ \A i \in DOMAIN todo' : todo'[i] = Handled' + i
  <2>1. /\ todo' \in Seq(Nat) /\ Len(todo') = Len(trxs[t]) /\ DOMAIN todo' = 1 .. Len(trxs[t])
        /\ \A i \in 1 .. Len(trxs[t]) : todo'[i] = i
    BY <1>4, <1>6
  <2>2. Handled' = 0
    BY <1>4, <1>6, <2>1 DEF Handled
  <2> QED
    BY <2>1, <2>2
<1>8. OnePair' /\ RecordsFit'
  BY <1>4, <1>5 DEF SettleInv, OnePair, RecordsFit
<1>9. InOrder' /\ InHand'
  BY <1>4, <1>6, <1>7 DEF InOrder, InHand
<1>10. Settled'
  <2> SUFFICES ASSUME NEW u \in 1 .. next' - 1, todo' = <<>> \/ trx' # u,
                      Sound(<<u, Own(u)>>)'
               PROVE  Shows(swap[<<u, Own(u)>>], u, Own(u), Len(trxs[u]))
    BY <1>4, <1>5 DEF Settled, Sound
  <2>1. CASE u = t
    <3>1. todo' = <<>>
      BY <1>4, <2>1
    <3>2. trxs[t] \in Seq(Log) /\ trxs[t] # <<>>
      BY <1>1 DEF IInv, Well
    <3>3. Len(trxs[t]) # 0
      BY <3>2
    <3>4. 1 \in DOMAIN todo'
      BY <1>6, <1>7, <3>3
    <3> QED
      BY <3>1, <3>4
  <2>2. CASE u # t
    <3>1. u \in 1 .. next - 1
      BY <1>1, <1>3, <2>2
    <3>2. Sound(<<u, Own(u)>>)
      BY <1>4, <1>5, <2>2 DEF Sound
    <3> QED
      BY <1>2, <3>1, <3>2 DEF SettleInv, Settled
  <2> QED
    BY <2>1, <2>2
<1> QED
  BY <1>8, <1>9, <1>10 DEF SettleInv

(* A new transaction has the logs of one pair, the Sync first. *)
LEMMA ChainSettles ==
  ASSUME IInv, SettleInv, Chain
  PROVE  SettleInv'
<1>1. /\ UNCHANGED <<swap, next, trx, todo, step, carried, hurt, rejected>>
      /\ \/ trxs' = trxs
         \/ \E p \in Pair : \E body \in Bodies(p) : trxs' = Append(trxs, body)
  BY SwapsAssumption DEF Chain, CreatePair, NewTrx, workVars, IInv, TypeOK
<1>2. /\ trxs \in Seq(Seq(Log)) /\ Len(trxs) \in Nat /\ DOMAIN trxs = 1 .. Len(trxs)
      /\ next \in 1 .. Len(trxs) + 1
  BY DEF IInv, TypeOK
<1>3. CASE trxs' = trxs
  <2>1. Handled' = Handled /\ Log1' = Log1
    BY <1>1, <1>3 DEF Handled, Log1
  <2>2. /\ \A t : Own(t)' = Own(t)
        /\ \A t, p, k : LogsOf(t, p, k)' = LogsOf(t, p, k)
        /\ \A t, p, k, n : Upto(t, p, k, n)' = Upto(t, p, k, n)
        /\ \A r, t, p, n : Shows(r, t, p, n)' = Shows(r, t, p, n)
        /\ \A k : Sound(k)' = (k[1] \notin hurt /\ k \notin rejected)
    BY <1>1, <1>3 DEF Own, Upto, LogsOf, Shows, Sound
  <2>3. OnePair' /\ RecordsFit' /\ InOrder'
    BY <1>1, <1>3, <2>1, <2>2 DEF SettleInv, OnePair, RecordsFit, InOrder
  <2>4. InHand' /\ Settled'
    BY <1>1, <1>3, <2>1, <2>2 DEF SettleInv, InHand, Settled, Sound
  <2> QED
    BY <2>3, <2>4 DEF SettleInv
<1>4. CASE \E p \in Pair : \E body \in Bodies(p) : trxs' = Append(trxs, body)
  <2>1. PICK p \in Pair : \E body \in Bodies(p) : trxs' = Append(trxs, body)
    BY <1>4
  <2>2. PICK body \in Bodies(p) : trxs' = Append(trxs, body)
    BY <2>1
  <2> DEFINE log(k) == [pair |-> p, kind |-> k]
  <2>3. /\ log("sync").kind = "sync"
        /\ \A k : log(k).pair = p
        /\ \A k \in {"sync", "action", "zero"} : log(k) \in Log
    BY DEF Log
  <2>4. body \in { <<log("sync")>>, <<log("sync"), log("action")>>, <<log("sync"), log("zero")>>,
                   <<log("sync"), log("action"), log("sync"), log("action")>>,
                   <<log("sync"), log("zero"), log("sync"), log("action")>> }
    BY DEF Bodies
  <2>5. \A x \in Log : <<x>> \in Seq(Log) /\ <<x>>[1] = x /\ DOMAIN <<x>> = {1}
    OBVIOUS
  <2>6. \A x, y \in Log : /\ <<x, y>> \in Seq(Log) /\ <<x, y>>[1] = x /\ <<x, y>>[2] = y
                          /\ DOMAIN <<x, y>> = {1, 2}
    OBVIOUS
  <2>7. \A x, y, z, w \in Log :
          /\ <<x, y, z, w>> \in Seq(Log) /\ DOMAIN <<x, y, z, w>> = {1, 2, 3, 4}
          /\ <<x, y, z, w>>[1] = x /\ <<x, y, z, w>>[2] = y
          /\ <<x, y, z, w>>[3] = z /\ <<x, y, z, w>>[4] = w
    OBVIOUS
  <2>8. log("sync") \in Log /\ log("action") \in Log /\ log("zero") \in Log
    BY <2>3
  <2> HIDE DEF log
  <2>9. /\ body \in Seq(Log) /\ 1 \in DOMAIN body /\ body[1] = log("sync")
        /\ \A i \in DOMAIN body : body[i].pair = p
    <3>1. CASE body = <<log("sync")>>
      BY <2>3, <2>5, <2>8, <3>1
    <3>2. ASSUME NEW x \in Log, x.pair = p, body = <<log("sync"), x>>
          PROVE  /\ body \in Seq(Log) /\ 1 \in DOMAIN body /\ body[1] = log("sync")
                 /\ \A i \in DOMAIN body : body[i].pair = p
      <4>1. body \in Seq(Log) /\ body[1] = log("sync") /\ body[2] = x /\ DOMAIN body = {1, 2}
        BY <2>6, <2>8, <3>2
      <4>2. log("sync").pair = p
        BY <2>3
      <4> QED
        BY <3>2, <4>1, <4>2
    <3>3. ASSUME NEW x \in Log, NEW y \in Log, x.pair = p, y.pair = p,
                 body = <<log("sync"), x, log("sync"), y>>
          PROVE  /\ body \in Seq(Log) /\ 1 \in DOMAIN body /\ body[1] = log("sync")
                 /\ \A i \in DOMAIN body : body[i].pair = p
      <4>1. /\ body \in Seq(Log) /\ body[1] = log("sync") /\ body[2] = x
            /\ body[3] = log("sync") /\ body[4] = y /\ DOMAIN body = {1, 2, 3, 4}
        BY <2>7, <2>8, <3>3
      <4>2. log("sync").pair = p
        BY <2>3
      <4> QED
        BY <3>3, <4>1, <4>2
    <3>4. log("action").pair = p /\ log("zero").pair = p
      BY <2>3
    <3> QED
      BY <2>4, <2>8, <3>1, <3>2, <3>3, <3>4
  <2>10. /\ DOMAIN trxs' = 1 .. Len(trxs) + 1 /\ trxs'[Len(trxs) + 1] = body
         /\ \A t \in DOMAIN trxs : trxs'[t] = trxs[t] /\ t \in DOMAIN trxs'
    BY <1>2, <2>2, <2>9
  <2>11. \A t \in DOMAIN trxs :
           /\ Own(t)' = Own(t)
           /\ \A p1, k : LogsOf(t, p1, k)' = LogsOf(t, p1, k)
           /\ \A p1, k, n : Upto(t, p1, k, n)' = Upto(t, p1, k, n)
           /\ \A r, p1, n : Shows(r, t, p1, n)' = Shows(r, t, p1, n)
    <3> TAKE t \in DOMAIN trxs
    <3>1. trxs'[t] = trxs[t]
      BY <2>10
    <3>2. Own(t)' = Own(t)
      BY <3>1 DEF Own
    <3>3. \A p1, k : LogsOf(t, p1, k)' = LogsOf(t, p1, k)
      BY <3>1 DEF LogsOf
    <3>4. \A p1, k, n : Upto(t, p1, k, n)' = Upto(t, p1, k, n)
      BY <3>3 DEF Upto
    <3>5. \A r, p1, n : Shows(r, t, p1, n)' = Shows(r, t, p1, n)
      BY <3>4 DEF Shows
    <3> QED
      BY <3>2, <3>3, <3>4, <3>5
  <2>12. OnePair'
    <3> SUFFICES ASSUME NEW t \in DOMAIN trxs'
                 PROVE  /\ trxs'[t][1].kind = "sync"
                        /\ \A i \in DOMAIN trxs'[t] : trxs'[t][i].pair = trxs'[t][1].pair
      BY DEF OnePair, Own
    <3>1. CASE t \in DOMAIN trxs
      BY <2>10, <3>1 DEF SettleInv, OnePair, Own
    <3>2. CASE t = Len(trxs) + 1
      BY <2>3, <2>9, <2>10, <3>2
    <3> QED
      BY <1>2, <2>10, <3>1, <3>2
  <2>13. RecordsFit'
    BY <1>1, <2>10, <2>11 DEF SettleInv, RecordsFit
  <2>14. todo # <<>> => /\ trx \in DOMAIN trxs /\ Handled' = Handled /\ Log1' = Log1
    BY <1>1, <2>10 DEF IInv, Well, Handled, Log1
  <2>15. InOrder'
    BY <1>1, <2>10, <2>14 DEF SettleInv, InOrder
  <2>16. InHand'
    BY <1>1, <2>10, <2>11, <2>14 DEF SettleInv, InHand, Sound
  <2>17. Settled'
    <3> SUFFICES ASSUME NEW t \in 1 .. next - 1, todo = <<>> \/ trx # t, Sound(<<t, Own(t)>>)'
                 PROVE  Shows(swap[<<t, Own(t)>>], t, Own(t), Len(trxs[t]))'
      BY <1>1 DEF Settled
    <3>1. t \in DOMAIN trxs
      BY <1>2
    <3>2. Sound(<<t, Own(t)>>)
      BY <1>1, <2>11, <3>1 DEF Sound
    <3>3. Shows(swap[<<t, Own(t)>>], t, Own(t), Len(trxs[t]))
      BY <3>1, <3>2 DEF SettleInv, Settled
    <3>4. Upto(t, Own(t), "sync", Len(trxs[t]))' = Upto(t, Own(t), "sync", Len(trxs[t]))
          /\ Upto(t, Own(t), "action", Len(trxs[t]))' = Upto(t, Own(t), "action", Len(trxs[t]))
      BY <2>10, <2>11, <3>1 DEF Upto, LogsOf, Own
    <3>5. Own(t)' = Own(t) /\ swap' = swap
      BY <1>1, <2>11, <3>1
    <3> QED
      BY <3>3, <3>4, <3>5 DEF Shows
  <2> QED
    BY <2>12, <2>13, <2>15, <2>16, <2>17 DEF SettleInv
<1> QED
  BY <1>1, <1>3, <1>4

(* A stop leaves the transaction in work among those hurt. *)
LEMMA CrashSettles ==
  ASSUME IInv, SettleInv, Crash
  PROVE  SettleInv'
<1>1. /\ next' \in 1 .. (IF Idle THEN next ELSE IF trx = next - 1 THEN trx ELSE next)
      /\ todo' = <<>> /\ hurt' = (IF Idle THEN hurt ELSE hurt \union {trx})
      /\ trxs' = trxs /\ swap' = swap /\ rejected' = rejected
  BY DEF Crash, nodeVars
<1>2. 1 .. next' - 1 \subseteq 1 .. next - 1
  <2>1. next \in Nat
    BY DEF IInv, TypeOK
  <2>2. next' \in Nat /\ next' <= next
    <3>1. CASE Idle \/ trx # next - 1
      BY <1>1, <2>1, <3>1
    <3>2. CASE ~Idle /\ trx = next - 1
      BY <1>1, <2>1, <3>2
    <3> QED
      BY <3>1, <3>2
  <2>3. \A a, b \in Nat : a <= b => 1 .. a - 1 \subseteq 1 .. b - 1
    OBVIOUS
  <2> QED
    BY <2>1, <2>2, <2>3
<1>3. /\ \A t : Own(t)' = Own(t)
      /\ \A t, p, k : LogsOf(t, p, k)' = LogsOf(t, p, k)
      /\ \A r, t, p, n : Shows(r, t, p, n)' = Shows(r, t, p, n)
  BY <1>1 DEF Own, Upto, LogsOf, Shows
<1>4. OnePair' /\ RecordsFit' /\ InOrder' /\ InHand'
  BY <1>1, <1>3 DEF SettleInv, OnePair, RecordsFit, InOrder, InHand
<1>5. Settled'
  BY <1>1, <1>2, <1>3 DEF SettleInv, Settled, Sound, Idle
<1> QED
  BY <1>4, <1>5 DEF SettleInv

LEMMA NextSettles == IInv /\ SettleInv /\ [Next]_vars => SettleInv'
<1> SUFFICES ASSUME IInv, SettleInv, [Next]_vars PROVE SettleInv'
  OBVIOUS
<1>1. CASE ReaderCachesPairs \/ EvictPairs \/ UNCHANGED vars
  <2>1. UNCHANGED <<trxs, swap, next, trx, todo, step, carried, hurt, rejected>>
    BY <1>1 DEF ReaderCachesPairs, EvictPairs, vars, nodeVars, workVars
  <2>2. OnePair' /\ InOrder' /\ RecordsFit'
    BY <2>1 DEF SettleInv, OnePair, InOrder, RecordsFit, Own, Handled, Log1, LogsOf
  <2>3. InHand' /\ Settled'
    BY <2>1 DEF SettleInv, InHand, Settled, Own, Handled, Log1, LogsOf, Upto, Shows, Sound
  <2> QED
    BY <2>2, <2>3 DEF SettleInv
<1> QED
  BY <1>1, ChainSettles, TakeUpSettles, HandlingSettles, CrashSettles DEF Next, Handler, Handling

LEMMA SettleImplies == IInv /\ SettleInv => ActionsSettle
<1> SUFFICES ASSUME IInv, SettleInv, NEW t \in 1 .. next - 1, NEW p \in Pair,
                    todo = <<>> \/ trx # t, t \notin hurt, <<t, p>> \notin rejected,
                    LogsOf(t, p, "sync") # {}
             PROVE  /\ swap[<<t, p>>] # None
                    /\ swap[<<t, p>>].res = Latest(LogsOf(t, p, "sync"))
                    /\ IF LogsOf(t, p, "action") = {} THEN swap[<<t, p>>].type = "sync"
                       ELSE /\ swap[<<t, p>>].type = "action"
                            /\ swap[<<t, p>>].act \in LogsOf(t, p, "action")
  BY DEF ActionsSettle, Idle
<1> DEFINE r == swap[<<t, p>>]
<1>1. t \in DOMAIN trxs /\ t \in 1 .. MaxTrx /\ trxs[t] \in Seq(Log)
  BY SwapsAssumption DEF IInv, TypeOK
<1>2. p = Own(t)
  BY <1>1 DEF LogsOf, SettleInv, OnePair
<1>3. \A kind : Upto(t, p, kind, Len(trxs[t])) = LogsOf(t, p, kind)
  <2>1. DOMAIN trxs[t] = 1 .. Len(trxs[t])
    BY <1>1
  <2> QED
    BY <2>1 DEF Upto, LogsOf
<1>4. Shows(r, t, p, Len(trxs[t]))
  BY <1>2 DEF SettleInv, Settled, Sound
<1>5. /\ r # None /\ IsLatest(r.res, LogsOf(t, p, "sync"))
      /\ LogsOf(t, p, "action") # {} => r.type = "action"
  BY <1>3, <1>4 DEF Shows
<1>6. <<t, p>> \in Key /\ r \in Record
  BY <1>1, <1>5 DEF IInv, TypeOK, Key
<1>7. r.type = "action" => r.act \in LogsOf(t, p, "action")
  BY <1>5, <1>6 DEF SettleInv, RecordsFit
<1>8. r.res = Latest(LogsOf(t, p, "sync"))
  <2>1. \A i \in LogsOf(t, p, "sync") : i \in Nat
    BY <1>1 DEF LogsOf
  <2> DEFINE S == LogsOf(t, p, "sync")
  <2>2. r.res \in S /\ \A j \in S : j <= r.res
    BY <1>5 DEF IsLatest
  <2> HIDE DEF S, r
  <2>3. \A i \in S : (\A j \in S : j <= i) => i = r.res
    BY <2>1, <2>2 DEF S
  <2>4. Latest(S) \in S /\ \A j \in S : j <= Latest(S)
    BY <2>2 DEF Latest
  <2> QED
    BY <2>3, <2>4 DEF S
<1> QED
  BY <1>5, <1>6, <1>7, <1>8 DEF Record

(* Worked off without a failure the last time it came, a transaction has   *)
(* its record in place, with one of its actions if it had any and the      *)
(* reserves of its last Sync: whatever was left of it, in part, by earlier *)
(* deliveries, failures and stops, for any number of all of them.          *)
THEOREM RecordsSettle == Spec => []ActionsSettle
<1>1. Init => IInv /\ SettleInv
  BY InitInv, InitSettle
<1>2. IInv /\ SettleInv /\ [Next]_vars => (IInv /\ SettleInv)'
  BY NextInv, NextSettles
<1>3. IInv /\ SettleInv => ActionsSettle
  BY SettleImplies
<1> QED
  BY <1>1, <1>2, <1>3, PTL DEF Spec

=============================================================================
