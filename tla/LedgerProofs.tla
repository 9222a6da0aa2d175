----------------------------- MODULE LedgerProofs -----------------------------
(***************************************************************************)
(* Proofs about Ledger, for every value of its constants.                  *)
(***************************************************************************)
EXTENDS Ledger, SequenceTheorems, TLAPS

USE LedgerAssumption, NoneAssumption

-----------------------------------------------------------------------------
(* The steps left are the last ones of the log being handled. *)
Work ==
  \/ todo = <<>>
  \/ /\ cur \in Log
     /\ \/ \E op \in {"balance", "store"} : todo = <<Do(op, cur.dlg)>>
        \/ todo = <<Do("claim", cur.dlg), Do("balance", cur.dlg)>>
        \/ \E op \in {"open", "close"} :
             todo = <<Do(op, cur.dlg), Do("balance", cur.dlg)>> /\ cur.req \in ReqId
        \/ todo = <<Do("balance", cur.dlg), Do("store", cur.to)>> /\ cur.to \in Delegation
        \/ todo = <<Do("store", cur.to)>> /\ cur.to \in Delegation

(* A log has the fields its handler uses. *)
LogWell(l) ==
  /\ l.kind \in {"undelegated", "withdrawn"} => l.req \in ReqId
  /\ l.kind = "moved" => l.to \in Delegation
  /\ l.kind # "moved" => l.to = None

(* What a reader carries to the cache names the amount first staked, too. *)
ReaderKeepsStaked ==
  reader # None => dlg[reader.dlg] # None /\ reader.rec.amo = dlg[reader.dlg].amo

ICache == CacheKeepsStaked /\ ReaderKeepsStaked

IType ==
  /\ TypeOK /\ Work /\ ICache
  /\ \A i \in 1 .. Len(logs) : LogWell(logs[i])
  /\ pos <= Len(logs) + 1

-----------------------------------------------------------------------------
(* The balance of a delegation is settled, or still to be handled. *)

Touches(l, d) == l.dlg = d \/ l.to = d
Pending(d) == \E i \in pos .. Len(logs) : Touches(logs[i], d)
Owes(d) == \E i \in DOMAIN todo : todo[i].op \in {"balance", "store"} /\ todo[i].dlg = d
Settled(d) == dlg[d] # None /\ (dlg[d].act = stake[d] \/ BackAtFirst(d))
Covered(d) ==
  Pending(d) \/ Settled(d) \/ (Owes(d) /\ pos > 1 /\ Touches(logs[pos - 1], d))

(* The stake in hand is that of the node, or a later log will ask again. *)
AmountFresh ==
  amount # None =>
    todo # <<>> /\ (amount = stake[Head(todo).dlg] \/ Pending(Head(todo).dlg))

AllCovered == \A d \in Delegation \ stale : Handled(d) => Covered(d)

IInv == IType /\ AmountFresh /\ AllCovered

-----------------------------------------------------------------------------
(* The steps of a handler. *)

LEMMA PairOfSteps ==
  ASSUME NEW x \in Step, NEW y \in Step
  PROVE  <<x>> \o <<y>> = <<x, y>>
<1> DEFINE s == <<x>> \o <<y>>
           t == <<x, y>>
<1>1. s \in Seq(Step) /\ Len(s) = 2 /\ s[1] = x /\ s[2] = y
  OBVIOUS
<1>2. t \in Seq(Step) /\ Len(t) = 2 /\ t[1] = x /\ t[2] = y
  OBVIOUS
<1> HIDE DEF s, t
<1>3. \A i \in 1 .. Len(s) : s[i] = t[i]
  BY <1>1, <1>2
<1>4. s = t
  BY <1>1, <1>2, <1>3, SeqEqual
<1> QED
  BY <1>4 DEF s, t

LEMMA Topics ==
  ASSUME NEW l \in Log, LogWell(l)
  PROVE  \/ KnownTopics(l) = <<Do("store", l.dlg)>>
         \/ KnownTopics(l) = <<Do("balance", l.dlg)>>
         \/ KnownTopics(l) = <<Do("open", l.dlg), Do("balance", l.dlg)>> /\ l.req \in ReqId
         \/ KnownTopics(l) = <<Do("close", l.dlg), Do("balance", l.dlg)>> /\ l.req \in ReqId
         \/ KnownTopics(l) = <<Do("claim", l.dlg), Do("balance", l.dlg)>>
         \/ /\ KnownTopics(l) = <<Do("balance", l.dlg), Do("store", l.to)>>
            /\ l.to \in Delegation
<1>2. CASE l.kind = "delegated"
  BY <1>2 DEF KnownTopics, NewDelegation
<1>3. CASE l.kind = "increased"
  BY <1>3 DEF KnownTopics, IncreasedDelegation
<1>4. CASE l.kind = "undelegated"
  BY <1>4 DEF KnownTopics, NewWithdrawRequest, LogWell
<1>5. CASE l.kind = "withdrawn"
  BY <1>5 DEF KnownTopics, FinishedWithdrawRequest, LogWell
<1>6. CASE l.kind = "claimed"
  BY <1>6 DEF KnownTopics, RewardClaim
<1>7. CASE l.kind = "moved"
  <2>1. Do("balance", l.dlg) \in Step /\ Do("store", l.to) \in Step /\ l.to \in Delegation
    BY <1>7 DEF LogWell, Log, Do, Step
  <2> QED
    BY PairOfSteps, <1>7, <2>1 DEF KnownTopics, UpdatedDelegation, NewDelegation
<1> QED
  BY <1>2, <1>3, <1>4, <1>5, <1>6, <1>7 DEF Log

(* What Work says of the step at hand and of what comes after it. *)
LEMMA AtHand ==
  ASSUME Work, todo # <<>>
  PROVE  /\ cur \in Log /\ Head(todo) \in Step /\ Head(todo).dlg \in Delegation
         /\ Head(todo) = todo[1] /\ 1 \in DOMAIN todo
         /\ At("open") \/ At("close") => cur.req \in ReqId
         /\ \/ Tail(todo) = <<>> /\ DOMAIN todo = {1}
            \/ /\ Tail(todo) = <<todo[2]>> /\ DOMAIN todo = {1, 2}
               /\ \/ todo[2] = Do("balance", cur.dlg)
                  \/ todo[2] = Do("store", cur.to) /\ cur.to \in Delegation
         /\ Head(todo).op = "claim" => \A i \in DOMAIN todo : todo[i].dlg = Head(todo).dlg
<1>1. \A d \in Delegation, op \in {"open", "close", "claim", "balance", "store"} :
        /\ Do(op, d) \in Step /\ Do(op, d).dlg = d /\ Do(op, d).op = op
  BY DEF Do, Step
<1>2. cur \in Log /\ cur.dlg \in Delegation
  BY DEF Work, Log
<1>3. ASSUME NEW x, todo = <<x>>
      PROVE  Head(todo) = x /\ Tail(todo) = <<>> /\ DOMAIN todo = {1} /\ todo[1] = x
  BY <1>3
<1>4. ASSUME NEW x, NEW y, todo = <<x, y>>
      PROVE  /\ Head(todo) = x /\ Tail(todo) = <<y>> /\ DOMAIN todo = {1, 2}
             /\ todo[1] = x /\ todo[2] = y
  BY <1>4
<1>5. CASE \E op \in {"balance", "store"} : todo = <<Do(op, cur.dlg)>>
  BY <1>1, <1>2, <1>3, <1>5 DEF At
<1>6. CASE todo = <<Do("claim", cur.dlg), Do("balance", cur.dlg)>>
  BY <1>1, <1>2, <1>4, <1>6 DEF At
<1>7. CASE \E op \in {"open", "close"} :
             todo = <<Do(op, cur.dlg), Do("balance", cur.dlg)>> /\ cur.req \in ReqId
  BY <1>1, <1>2, <1>4, <1>7 DEF At
<1>8. CASE todo = <<Do("balance", cur.dlg), Do("store", cur.to)>> /\ cur.to \in Delegation
  BY <1>1, <1>2, <1>4, <1>8 DEF At
<1>9. CASE todo = <<Do("store", cur.to)>> /\ cur.to \in Delegation
  BY <1>1, <1>2, <1>3, <1>9 DEF At
<1> QED
  BY <1>5, <1>6, <1>7, <1>8, <1>9 DEF Work

WorkTyped == todo \in Seq(Step) /\ (todo # <<>> => cur \in Log /\ cur # None)

LEMMA WorkType == Work => WorkTyped
<1> SUFFICES ASSUME Work PROVE todo \in Seq(Step) /\ (todo # <<>> => cur \in Log /\ cur # None)
  BY DEF WorkTyped
<1>1. CASE todo = <<>>
  BY <1>1
<1>2. CASE todo # <<>>
  <2>1. \A d \in Delegation, op \in {"open", "close", "claim", "balance", "store"} :
          Do(op, d) \in Step
    BY DEF Do, Step
  <2>2. cur \in Log /\ cur.dlg \in Delegation
    BY <1>2 DEF Work, Log
  <2>3. \A x, y \in Step : <<x>> \in Seq(Step) /\ <<x, y>> \in Seq(Step)
    OBVIOUS
  <2>4. todo \in Seq(Step)
    BY <1>2, <2>1, <2>2, <2>3 DEF Work
  <2> QED
    BY <2>2, <2>4
<1> QED
  BY <1>1, <1>2

(* To the next step, or to the end of the handler. *)
LEMMA GoToWork ==
  ASSUME Work, todo # <<>>, NextStep \/ GoTo(<<>>)
  PROVE  /\ Work' /\ pos' = pos /\ amount' = None
         /\ cur' \in Log \union {None} /\ todo' \in {Tail(todo), <<>>}
<1>1. pos' = pos /\ amount' = None /\ todo' \in {Tail(todo), <<>>}
      /\ cur' = IF todo' = <<>> THEN None ELSE cur
  BY DEF NextStep, GoTo
<1>2. cur \in Log
  BY DEF Work
<1>3. Work'
  <2>1. CASE todo' = <<>>
    BY <2>1 DEF Work
  <2>2. CASE todo' # <<>>
    <3>0. todo' = Tail(todo) /\ cur' = cur
      BY <1>1, <2>2
    <3>1. todo' = <<todo[2]>> /\ cur' = cur
      BY <2>2, <3>0, AtHand
    <3>2. \/ todo[2] = Do("balance", cur.dlg)
          \/ todo[2] = Do("store", cur.to) /\ cur.to \in Delegation
      BY <1>1, <2>2, AtHand
    <3> QED
      BY <1>2, <3>1, <3>2 DEF Work
  <2> QED
    BY <2>1, <2>2
<1> QED
  BY <1>1, <1>2, <1>3

-----------------------------------------------------------------------------
(* Type correctness. *)

LEMMA InitType == Init => IType
<1> SUFFICES ASSUME Init PROVE IType
  OBVIOUS
<1>1. logs = <<>> /\ Len(logs) = 0 /\ logs \in Seq(Log) /\ todo \in Seq(Step)
  BY DEF Init
<1>2. ICache
  BY DEF Init, ICache, CacheKeepsStaked, ReaderKeepsStaked
<1> QED
  BY <1>1, <1>2 DEF Init, IType, TypeOK, Work, Record, Request

(* The contract appends one log that has the fields of its kind. *)
LEMMA ContractStep ==
  ASSUME IType, Contract
  PROVE  /\ \E l \in Log : /\ LogWell(l) /\ logs' = Append(logs, l)
                           /\ \A d \in Delegation : stake'[d] # stake[d] => Touches(l, d)
         /\ Len(logs) < MaxLogs /\ batched' \in 0 .. MaxBatch
         /\ stake' \in [Delegation -> Nat]
         /\ open' \in [Delegation \X ReqId -> {0} \union Trx]
         /\ UNCHANGED <<dbVars, cache, workVars, reader, stale, again, failures>>
<1> USE DEF IType, TypeOK, Trx
<1>1. PICK d \in Delegation, t \in Trx :
        \/ Delegate(d, t) \/ Increase(d, t) \/ Claim(d, t)
        \/ \E r \in ReqId : Undelegate(d, r, t) \/ Withdraw(d, r, t)
        \/ \E e \in Delegation : Move(d, e, t)
  BY DEF Contract
<1>2. ASSUME NEW kind \in {"delegated", "increased", "undelegated", "withdrawn", "claimed", "moved"},
             NEW to \in Delegation \union {None}, NEW r \in ReqId \union {None},
             Emit(kind, d, to, r, t),
             kind \in {"undelegated", "withdrawn"} => r \in ReqId,
             kind = "moved" => to \in Delegation, kind # "moved" => to = None,
             \A e \in Delegation : stake'[e] # stake[e] => e \in {d, to}
      PROVE  /\ \E l \in Log : /\ LogWell(l) /\ logs' = Append(logs, l)
                               /\ \A e \in Delegation : stake'[e] # stake[e] => Touches(l, e)
             /\ Len(logs) < MaxLogs /\ batched' \in 0 .. MaxBatch
             /\ UNCHANGED <<dbVars, cache, workVars, reader, stale, again, failures>>
  <2> DEFINE l == [kind |-> kind, dlg |-> d, to |-> to, req |-> r, trx |-> t]
  <2>1. l \in Log /\ LogWell(l)
    BY <1>2 DEF Log, LogWell
  <2>2. logs' = Append(logs, l)
    BY <1>2 DEF Emit
  <2>3. \A e \in Delegation : stake'[e] # stake[e] => Touches(l, e)
    BY <1>2 DEF Touches
  <2>4. Len(logs) < MaxLogs /\ batched' \in 0 .. MaxBatch
        /\ UNCHANGED <<dbVars, cache, workVars, reader, stale, again, failures>>
    BY <1>2 DEF Emit
  <2> QED
    BY <2>1, <2>2, <2>3, <2>4
<1>3. CASE Delegate(d, t)
  <2>1. stake' \in [Delegation -> Nat] /\ \A e \in Delegation : stake'[e] # stake[e] => e = d
    BY <1>3 DEF Delegate, Bond
  <2> QED
    BY <1>2, <1>3, <2>1 DEF Delegate
<1>4. CASE Increase(d, t)
  <2>1. stake' \in [Delegation -> Nat] /\ \A e \in Delegation : stake'[e] # stake[e] => e = d
    BY <1>4 DEF Increase
  <2> QED
    BY <1>2, <1>4, <2>1 DEF Increase
<1>5. CASE Claim(d, t)
  BY <1>2, <1>5 DEF Claim
<1>6. ASSUME NEW r \in ReqId, Undelegate(d, r, t) \/ Withdraw(d, r, t)
      PROVE  /\ \E l \in Log : /\ LogWell(l) /\ logs' = Append(logs, l)
                               /\ \A e \in Delegation : stake'[e] # stake[e] => Touches(l, e)
             /\ Len(logs) < MaxLogs /\ batched' \in 0 .. MaxBatch
             /\ stake' \in [Delegation -> Nat]
             /\ open' \in [Delegation \X ReqId -> {0} \union Trx]
             /\ UNCHANGED <<dbVars, cache, workVars, reader, stale, again, failures>>
  <2>1. open' = [open EXCEPT ![<<d, r>>] = t] \/ open' = [open EXCEPT ![<<d, r>>] = 0]
    BY <1>6 DEF Undelegate, Withdraw
  <2>2. open' \in [Delegation \X ReqId -> {0} \union Trx]
    BY <2>1
  <2>3. stake' \in [Delegation -> Nat] /\ \A e \in Delegation : stake'[e] # stake[e] => e = d
    <3>1. CASE Undelegate(d, r, t)
      <4>1. stake[d] - 1 \in Nat /\ stake' = [stake EXCEPT ![d] = stake[d] - 1]
        BY <3>1 DEF Undelegate
      <4> QED
        BY <4>1
    <3>2. CASE Withdraw(d, r, t)
      BY <3>2 DEF Withdraw
    <3> QED
      BY <1>6, <3>1, <3>2
  <2> QED
    BY <1>2, <1>6, <2>2, <2>3 DEF Undelegate, Withdraw
<1>7. ASSUME NEW e \in Delegation, Move(d, e, t)
      PROVE  /\ \E l \in Log : /\ LogWell(l) /\ logs' = Append(logs, l)
                               /\ \A f \in Delegation : stake'[f] # stake[f] => Touches(l, f)
             /\ Len(logs) < MaxLogs /\ batched' \in 0 .. MaxBatch
             /\ stake' \in [Delegation -> Nat]
             /\ open' \in [Delegation \X ReqId -> {0} \union Trx]
             /\ UNCHANGED <<dbVars, cache, workVars, reader, stale, again, failures>>
  <2>1. /\ stake' \in [Delegation -> Nat]
        /\ \A f \in Delegation : stake'[f] # stake[f] => f \in {d, e}
    <3>1. /\ d # e /\ stake[d] - 1 \in Nat /\ stake[e] + 1 \in Nat
          /\ stake' = [[stake EXCEPT ![d] = stake[d] - 1] EXCEPT ![e] = stake[e] + 1]
      BY <1>7 DEF Move
    <3> QED
      BY <3>1
  <2> QED
    BY <1>2, <1>7, <2>1 DEF Move
<1> QED
  BY <1>1, <1>3, <1>4, <1>5, <1>6, <1>7

LEMMA ContractType ==
  ASSUME IType, Contract
  PROVE  IType'
<1> USE DEF IType
<1>1. PICK l \in Log : LogWell(l) /\ logs' = Append(logs, l)
  BY ContractStep
<1>2. /\ logs' \in Seq(Log) /\ Len(logs') = Len(logs) + 1 /\ Len(logs) \in Nat
      /\ logs'[Len(logs) + 1] = l
      /\ \A i \in 1 .. Len(logs) : logs'[i] = logs[i]
  BY <1>1 DEF TypeOK
<1>3. \A i \in 1 .. Len(logs') : LogWell(logs'[i])
  BY <1>1, <1>2
<1>4. UNCHANGED <<dlg, wreq, claims, cache, pos, cur, todo, amount, reader, stale, again, failures>>
  BY ContractStep DEF dbVars, workVars
<1>5. TypeOK'
  BY <1>2, <1>4, ContractStep DEF TypeOK
<1>6. Work' /\ pos' <= Len(logs') + 1
  BY <1>2, <1>4 DEF Work, TypeOK
<1>7. ICache'
  BY <1>4 DEF ICache, CacheKeepsStaked, ReaderKeepsStaked
<1> QED
  BY <1>3, <1>5, <1>6, <1>7

(* Closing a request changes two fields of one record. *)
LEMMA ClosedTwice ==
  ASSUME NEW w \in [Trx -> Request \union {None}], NEW d, NEW r, NEW t,
         Known(w, d, r), KeyOf(w, d, r) \in Trx
  PROVE  CloseWithdrawal(w, d, r, t) =
           [w EXCEPT ![KeyOf(w, d, r)] =
              [w[KeyOf(w, d, r)] EXCEPT !.fin = t, !.trx = KeyOf(w, d, r)]]
<1> DEFINE k == KeyOf(w, d, r)
<1>1. CloseWithdrawal(w, d, r, t) = [w EXCEPT ![k].fin = t, ![k].trx = k] /\ k \in Trx
  BY DEF CloseWithdrawal
<1> HIDE DEF k
<1>2. [w EXCEPT ![k].fin = t, ![k].trx = k] = [w EXCEPT ![k] = [w[k] EXCEPT !.fin = t, !.trx = k]]
  BY <1>1
<1> QED
  BY <1>1, <1>2 DEF k

(* Every outcome of a request keeps the records under their keys. *)
LEMMA RequestsType ==
  ASSUME NEW w \in [Trx -> Request \union {None}], NEW d \in Delegation,
         NEW r \in ReqId, NEW t \in Trx
  PROVE  /\ AddWithdrawal(w, d, r, t) \in [Trx -> Request \union {None}]
         /\ CloseWithdrawal(w, d, r, t) \in [Trx -> Request \union {None}]
<1>1. ASSUME NEW v \in [Trx -> Request \union {None}]
      PROVE  Insert(v, d, r, t) \in [Trx -> Request \union {None}]
  BY <1>1 DEF Insert, InsertOver, Request
<1>2. Known(w, d, r) => KeyOf(w, d, r) \in Trx /\ w[KeyOf(w, d, r)] # None
  BY DEF Known, KeyOf
<1>3. CASE Known(w, d, r)
  <2>1. w[KeyOf(w, d, r)] \in Request /\ KeyOf(w, d, r) \in Trx
    BY <1>2, <1>3
  <2>2. [w EXCEPT ![KeyOf(w, d, r)].req = t] \in [Trx -> Request \union {None}]
    <3>1. [w[KeyOf(w, d, r)] EXCEPT !.req = t] \in Request
      BY <2>1 DEF Request
    <3> QED
      BY <2>1, <3>1
  <2>3. [w EXCEPT ![KeyOf(w, d, r)].trx = t] \in [Trx -> Request \union {None}]
    <3>1. [w[KeyOf(w, d, r)] EXCEPT !.trx = t] \in Request
      BY <2>1 DEF Request
    <3> QED
      BY <2>1, <3>1
  <2>4. CloseWithdrawal(w, d, r, t) \in [Trx -> Request \union {None}]
    <3>1. [w[KeyOf(w, d, r)] EXCEPT !.fin = t, !.trx = KeyOf(w, d, r)] \in Request
      BY <2>1 DEF Request
    <3>2. CloseWithdrawal(w, d, r, t) =
            [w EXCEPT ![KeyOf(w, d, r)] =
               [w[KeyOf(w, d, r)] EXCEPT !.fin = t, !.trx = KeyOf(w, d, r)]]
      BY <1>3, <2>1, ClosedTwice
    <3> QED
      BY <2>1, <3>1, <3>2
  <2>5. Shift(w, d, r, t) \in [Trx -> Request \union {None}]
    BY <1>1, <2>2 DEF Shift
  <2> QED
    BY <1>3, <2>3, <2>4, <2>5 DEF AddWithdrawal
<1>4. CASE ~Known(w, d, r)
  BY <1>1, <1>4 DEF AddWithdrawal, CloseWithdrawal
<1> QED
  BY <1>3, <1>4

LEMMA WorkTypeNext ==
  Work' => todo' \in Seq(Step) /\ (todo' # <<>> => cur' \in Log /\ cur' # None)
<1>1. Work' => WorkTyped'
  BY WorkType, PTL
<1> QED
  BY <1>1 DEF WorkTyped

(* A log is taken up. *)
LEMMA TakesWork ==
  ASSUME cur' \in Log, LogWell(cur'), todo' = KnownTopics(cur')
  PROVE  Work'
<1> DEFINE l == cur'
<1>1. l \in Log /\ LogWell(l) /\ todo' = KnownTopics(l)
  OBVIOUS
<1> HIDE DEF l
<1>2. \/ todo' = <<Do("store", l.dlg)>>
      \/ todo' = <<Do("balance", l.dlg)>>
      \/ todo' = <<Do("open", l.dlg), Do("balance", l.dlg)>> /\ l.req \in ReqId
      \/ todo' = <<Do("close", l.dlg), Do("balance", l.dlg)>> /\ l.req \in ReqId
      \/ todo' = <<Do("claim", l.dlg), Do("balance", l.dlg)>>
      \/ /\ todo' = <<Do("balance", l.dlg), Do("store", l.to)>>
         /\ l.to \in Delegation
  BY <1>1, Topics
<1> QED
  BY <1>1, <1>2 DEF l, Work

LEMMA HandleType ==
  ASSUME IType, HandleLog \/ HandleOutOfTurn
  PROVE  IType'
<1> USE DEF IType, nodeVars, dbVars
<1>1. PICK i \in 1 .. Len(logs) : cur' = logs[i] /\ todo' = KnownTopics(cur')
  <2>1. logs \in Seq(Log) /\ pos \in Nat \ {0} /\ Len(logs) \in Nat
    BY DEF TypeOK
  <2>2. CASE HandleLog
    BY <2>1, <2>2 DEF HandleLog
  <2>3. CASE HandleOutOfTurn
    BY <2>1, <2>3 DEF HandleOutOfTurn
  <2> QED
    BY <2>2, <2>3
<1>2. cur' \in Log /\ LogWell(cur')
  BY <1>1 DEF TypeOK
<1>3. Work'
  BY <1>1, <1>2, TakesWork
<1>4. todo' \in Seq(Step) /\ (todo' # <<>> => cur' # None)
  BY <1>3, WorkTypeNext
<1>5. /\ pos' \in 1 .. MaxLogs + 1 /\ pos' <= Len(logs) + 1 /\ amount' = None
      /\ again' \in 0 .. MaxAgain
      /\ UNCHANGED <<stake, open, logs, dlg, wreq, claims, cache, reader, stale, batched, failures>>
  <2>1. logs \in Seq(Log) /\ Len(logs) <= MaxLogs /\ Len(logs) \in Nat
    BY DEF TypeOK
  <2> QED
    BY <2>1 DEF TypeOK, HandleLog, HandleOutOfTurn
<1>6. TypeOK'
  BY <1>2, <1>4, <1>5 DEF TypeOK
<1>7. ICache'
  BY <1>5 DEF ICache, CacheKeepsStaked, ReaderKeepsStaked
<1> QED
  BY <1>3, <1>5, <1>6, <1>7

LEMMA RestartType ==
  ASSUME IType, Restart
  PROVE  IType'
<1> USE DEF IType, nodeVars, dbVars
<1>1. pos' \in 1 .. Len(logs) + 1 /\ Len(logs) \in Nat /\ Len(logs) <= MaxLogs
  BY DEF Restart, TypeOK
<1>2. todo' = <<>> /\ todo' \in Seq(Step)
  BY DEF Restart
<1>3. again' \in 0 .. MaxAgain
  BY DEF Restart, TypeOK
<1>4. cache' \in [Delegation -> Record \union {None}]
  BY DEF Restart
<1>5. stale' \subseteq Delegation
  BY DEF Restart, TypeOK, Touched
<1>6. Work'
  BY <1>2 DEF Work
<1>7. TypeOK'
  BY <1>1, <1>2, <1>3, <1>4, <1>5 DEF Restart, TypeOK
<1>8. ICache'
  BY DEF Restart, ICache, CacheKeepsStaked, ReaderKeepsStaked
<1> QED
  BY <1>1, <1>6, <1>7, <1>8 DEF Restart

(* A step of a handler goes on to the next or ends it; what it writes has  *)
(* its type.                                                               *)
Steps ==
  \/ OpenRequest \/ CloseRequest \/ StoreClaim \/ StoreDelegation
  \/ AdHocDelegation \/ BalanceSkipped \/ BalanceWritten \/ StepFails

LEMMA StepMoves ==
  ASSUME Work, Steps
  PROVE  /\ todo # <<>> /\ (NextStep \/ GoTo(<<>>))
         /\ UNCHANGED <<stake, open, logs, reader, batched, again>>
<1>1. \A op \in {"open", "close", "claim", "balance", "store"} : At(op) => todo # <<>>
  BY DEF At, Idle
<1> QED
  BY <1>1 DEF Steps, OpenRequest, CloseRequest, StoreClaim, StoreDelegation, AdHocDelegation,
     BalanceSkipped, BalanceWritten, StepFails, Idle, NextStep, nodeVars, dbVars

LEMMA RequestStepType ==
  ASSUME IType, OpenRequest \/ CloseRequest \/ StoreClaim
  PROVE  /\ wreq' \in [Trx -> Request \union {None}] /\ claims' \in [Trx -> Delegation \union {None}]
         /\ UNCHANGED <<dlg, cache, stale, failures>>
<1> USE DEF IType
<1>0. /\ wreq \in [Trx -> Request \union {None}] /\ claims \in [Trx -> Delegation \union {None}]
      /\ todo # <<>> /\ cur \in Log
  BY AtHand, StepMoves DEF Steps, TypeOK
<1>1. cur.dlg \in Delegation /\ cur.trx \in Trx
  BY <1>0 DEF Log
<1>2. CASE OpenRequest
  <2>1. cur.req \in ReqId
    BY <1>0, <1>2, AtHand DEF OpenRequest
  <2> QED
    BY <1>0, <1>1, <1>2, <2>1, RequestsType DEF OpenRequest
<1>3. CASE CloseRequest
  <2>1. cur.req \in ReqId
    BY <1>0, <1>3, AtHand DEF CloseRequest
  <2> QED
    BY <1>0, <1>1, <1>3, <2>1, RequestsType DEF CloseRequest
<1>4. CASE StoreClaim
  BY <1>0, <1>1, <1>4 DEF StoreClaim
<1> QED
  BY <1>2, <1>3, <1>4

LEMMA DelegationStep ==
  ASSUME IType, StoreDelegation \/ AdHocDelegation \/ BalanceSkipped \/ BalanceWritten
  PROVE  /\ Head(todo).dlg \in Delegation /\ amount \in Nat
         /\ stale' = stale \ {Head(todo).dlg}
         /\ UNCHANGED <<wreq, claims, failures>>
<1> USE DEF IType
<1>1. Head(todo).dlg \in Delegation
  BY StepMoves, AtHand DEF Steps
<1>2. amount \in Nat
  BY DEF TypeOK, StoreDelegation, AdHocDelegation, BalanceSkipped, BalanceWritten
<1>3. UNCHANGED <<wreq, claims, failures>> /\ stale' = stale \ {Head(todo).dlg}
  BY DEF StoreDelegation, AdHocDelegation, BalanceSkipped, BalanceWritten, dbVars
<1> QED
  BY <1>1, <1>2, <1>3

(* The record of a delegation once written keeps the amount first staked,  *)
(* and what goes to the cache or to a reader is a copy of it.              *)
LEMMA DelegationStepType ==
  ASSUME IType, StoreDelegation \/ AdHocDelegation \/ BalanceSkipped \/ BalanceWritten
  PROVE  /\ dlg' \in [Delegation -> Record \union {None}]
         /\ cache' \in [Delegation -> Record \union {None}]
         /\ stale' \subseteq Delegation
         /\ UNCHANGED <<wreq, claims, failures>>
         /\ ICache'
         /\ \A e \in Delegation : e # Head(todo).dlg => dlg'[e] = dlg[e]
         /\ LET d == Head(todo).dlg
            IN  dlg'[d] # None /\ (dlg'[d].act = amount \/ dlg'[d].amo = amount)
<1> USE DEF IType
<1> DEFINE d == Head(todo).dlg
<1>0. /\ dlg \in [Delegation -> Record \union {None}]
      /\ cache \in [Delegation -> Record \union {None}] /\ stale \subseteq Delegation
      /\ reader # None => reader.dlg \in Delegation
      /\ \A r \in Record : r # None
  BY DEF TypeOK
<1>1. d \in Delegation /\ amount \in Nat /\ stale' = stale \ {d} /\ UNCHANGED <<wreq, claims, failures>>
      /\ reader' = reader
  BY DelegationStep, StepMoves DEF Steps
<1>2. /\ Loaded(d) \in Record \union {None}
      /\ Loaded(d) # None => /\ dlg[d] \in Record /\ dlg[d] # None /\ Loaded(d) \in Record
                             /\ Loaded(d).amo = dlg[d].amo
  BY <1>0, <1>1 DEF Loaded, ICache, CacheKeepsStaked
<1> HIDE DEF d
<1>3. ASSUME NEW r \in Record, NEW c, dlg' = [dlg EXCEPT ![d] = r],
             dlg[d] # None => r.amo = dlg[d].amo,
             cache' = cache \/ (c \in Record /\ c.amo = r.amo /\ cache' = [cache EXCEPT ![d] = c])
      PROVE  /\ dlg' \in [Delegation -> Record \union {None}]
             /\ cache' \in [Delegation -> Record \union {None}]
             /\ \A e \in Delegation : e # d => dlg'[e] = dlg[e]
             /\ ICache' /\ dlg'[d] = r
  <2>1. /\ dlg' \in [Delegation -> Record \union {None}] /\ dlg'[d] = r
        /\ \A e \in Delegation : e # d => dlg'[e] = dlg[e]
    BY <1>0, <1>1, <1>3
  <2>2. /\ cache' \in [Delegation -> Record \union {None}]
        /\ \A e \in Delegation : e # d => cache'[e] = cache[e]
        /\ cache'[d] = cache[d] \/ cache'[d].amo = r.amo
    BY <1>0, <1>1, <1>3
  <2>3. \A e \in Delegation : dlg[e] # None => dlg'[e] # None /\ dlg'[e].amo = dlg[e].amo
    BY <1>0, <1>3, <2>1
  <2>4. CacheKeepsStaked'
    BY <1>0, <2>1, <2>2, <2>3 DEF ICache, CacheKeepsStaked
  <2>5. ReaderKeepsStaked'
    BY <1>0, <1>1, <2>3 DEF ICache, ReaderKeepsStaked
  <2> QED
    BY <2>1, <2>2, <2>4, <2>5 DEF ICache
<1>4. CASE StoreDelegation \/ AdHocDelegation
  <2>1. PICK amo \in Nat : AddDelegation(d, amount, amo) /\ cache' = cache
    BY <1>4, <1>1 DEF d, StoreDelegation, AdHocDelegation, EventAmount, Bond
  <2> DEFINE r == [act |-> amount, amo |-> IF dlg[d] = None THEN amo ELSE dlg[d].amo]
  <2>2. r \in Record /\ r.act = amount /\ (dlg[d] # None => r.amo = dlg[d].amo)
    BY <1>0, <1>1 DEF Record
  <2>3. dlg' = [dlg EXCEPT ![d] = r]
    BY <2>1 DEF AddDelegation
  <2> HIDE DEF r
  <2>4. /\ dlg' \in [Delegation -> Record \union {None}]
        /\ cache' \in [Delegation -> Record \union {None}]
        /\ \A e \in Delegation : e # d => dlg'[e] = dlg[e]
        /\ ICache' /\ dlg'[d] = r
    BY <1>3, <2>1, <2>2, <2>3
  <2> QED
    BY <1>0, <1>1, <2>2, <2>4 DEF d
<1>5. CASE BalanceSkipped
  <2>1. /\ dlg' = dlg /\ cache' = [cache EXCEPT ![d] = Loaded(d)]
        /\ Loaded(d) # None /\ Loaded(d).amo = amount
    BY <1>5 DEF d, BalanceSkipped, dbVars, SkipsUpdate
  <2>2. dlg' = [dlg EXCEPT ![d] = dlg[d]]
    BY <1>0, <1>1, <2>1
  <2> QED
    BY <1>0, <1>1, <1>2, <1>3, <2>1, <2>2 DEF d
<1>6. CASE BalanceWritten
  <2>1. /\ dlg' = [dlg EXCEPT ![d].act = amount] /\ Loaded(d) # None
        /\ cache' = [cache EXCEPT ![d] = [Loaded(d) EXCEPT !.act = amount]]
    BY <1>6 DEF d, BalanceWritten
  <2> DEFINE r == [dlg[d] EXCEPT !.act = amount]
             c == [Loaded(d) EXCEPT !.act = amount]
  <2>2. /\ r \in Record /\ r.act = amount /\ r.amo = dlg[d].amo
        /\ c \in Record /\ c.amo = Loaded(d).amo
    BY <1>1, <1>2, <2>1 DEF Record
  <2>3. dlg' = [dlg EXCEPT ![d] = r] /\ cache' = [cache EXCEPT ![d] = c]
    BY <2>1
  <2> HIDE DEF r, c
  <2>4. c.amo = r.amo
    BY <1>2, <2>1, <2>2
  <2>5. /\ dlg' \in [Delegation -> Record \union {None}]
        /\ cache' \in [Delegation -> Record \union {None}]
        /\ \A e \in Delegation : e # d => dlg'[e] = dlg[e]
        /\ ICache' /\ dlg'[d] = r
    BY <1>3, <2>2, <2>3, <2>4
  <2> QED
    BY <1>0, <1>1, <2>2, <2>5 DEF d
<1> QED
  BY <1>4, <1>5, <1>6

LEMMA FailsType ==
  ASSUME IType, StepFails
  PROVE  /\ UNCHANGED <<dlg, wreq, claims, cache>> /\ stale' \subseteq Delegation
         /\ failures' \in 0 .. MaxFailures
<1>1. todo # <<>> /\ Head(todo).dlg \in Delegation
  BY StepMoves, AtHand DEF IType, Steps
<1> QED
  BY <1>1 DEF IType, TypeOK, StepFails, dbVars

LEMMA StepsType ==
  ASSUME IType, Steps
  PROVE  IType'
<1> USE DEF IType
<1>1. /\ Work' /\ pos' = pos /\ amount' = None /\ cur' \in Log \union {None}
      /\ UNCHANGED <<stake, open, logs, reader, batched, again>>
  BY StepMoves, GoToWork
<1>2. todo' \in Seq(Step) /\ (todo' # <<>> => cur' # None)
  BY <1>1, WorkTypeNext
<1>3. /\ dlg' \in [Delegation -> Record \union {None}]
      /\ cache' \in [Delegation -> Record \union {None}]
      /\ stale' \subseteq Delegation /\ failures' \in 0 .. MaxFailures
      /\ wreq' \in [Trx -> Request \union {None}] /\ claims' \in [Trx -> Delegation \union {None}]
      /\ ICache'
  <2>1. CASE OpenRequest \/ CloseRequest \/ StoreClaim
    BY <1>1, <2>1, RequestStepType DEF TypeOK, ICache, CacheKeepsStaked, ReaderKeepsStaked
  <2>2. CASE StoreDelegation \/ AdHocDelegation \/ BalanceSkipped \/ BalanceWritten
    BY <2>2, DelegationStepType DEF TypeOK
  <2>3. CASE StepFails
    BY <1>1, <2>3, FailsType DEF TypeOK, ICache, CacheKeepsStaked, ReaderKeepsStaked
  <2> QED
    BY <2>1, <2>2, <2>3 DEF Steps
<1>4. TypeOK'
  BY <1>1, <1>2, <1>3 DEF TypeOK
<1> QED
  BY <1>1, <1>3, <1>4

(* A reader caches a copy that was the record when it was loaded. *)
LEMMA ReadersType ==
  ASSUME IType, Readers
  PROVE  /\ IType'
         /\ UNCHANGED <<nodeVars, dbVars, workVars, stale>>
<1> USE DEF IType, Readers
<1>0. UNCHANGED <<nodeVars, dbVars, workVars, stale, batched, again, failures>>
  BY DEF ReaderLoads, ReaderCaches, Evict
<1>1. /\ cache' \in [Delegation -> Record \union {None}]
      /\ reader' = None \/ reader' \in [dlg : Delegation, rec : Record]
      /\ ICache'
  <2>1. ASSUME NEW d \in Delegation, ReaderLoads(d)
        PROVE  /\ cache' = cache /\ reader' \in [dlg : Delegation, rec : Record]
               /\ reader'.dlg = d /\ reader'.rec = dlg[d] /\ dlg' = dlg /\ dlg[d] # None
    BY <2>1 DEF ReaderLoads, TypeOK, dbVars
  <2>2. CASE \E d \in Delegation : ReaderLoads(d)
    BY <2>1, <2>2 DEF TypeOK, ICache, CacheKeepsStaked, ReaderKeepsStaked
  <2>3. CASE ReaderCaches
    BY <2>3 DEF ReaderCaches, TypeOK, ICache, CacheKeepsStaked, ReaderKeepsStaked, dbVars
  <2>4. CASE \E d \in Delegation : Evict(d)
    BY <2>4 DEF Evict, TypeOK, ICache, CacheKeepsStaked, ReaderKeepsStaked, dbVars
  <2> QED
    BY <2>2, <2>3, <2>4
<1>2. TypeOK' /\ Work' /\ pos' <= Len(logs') + 1 /\ \A j \in 1 .. Len(logs') : LogWell(logs'[j])
  BY <1>0, <1>1 DEF TypeOK, Work, nodeVars, dbVars, workVars
<1> QED
  BY <1>0, <1>1, <1>2

LEMMA ReadStakeType ==
  ASSUME IType, ReadStake
  PROVE  /\ IType' /\ todo # <<>> /\ amount' = stake[Head(todo).dlg]
         /\ UNCHANGED <<nodeVars, dbVars, pos, todo, stale>>
<1> USE DEF IType
<1>1. todo # <<>>
  BY DEF ReadStake, At, Idle
<1>2. amount' \in Nat /\ amount' = stake[Head(todo).dlg]
  BY <1>1, AtHand DEF ReadStake, TypeOK
<1>3. UNCHANGED <<nodeVars, dbVars, cache, pos, cur, todo, reader, stale, batched, again, failures>>
  BY DEF ReadStake
<1>4. TypeOK' /\ Work' /\ pos' <= Len(logs') + 1 /\ \A j \in 1 .. Len(logs') : LogWell(logs'[j])
  BY <1>2, <1>3 DEF TypeOK, Work, nodeVars, dbVars
<1>5. ICache'
  BY <1>3 DEF ICache, CacheKeepsStaked, ReaderKeepsStaked, dbVars
<1> QED
  BY <1>1, <1>2, <1>3, <1>4, <1>5

LEMMA NextType == IType /\ [Next]_vars => IType'
<1> SUFFICES ASSUME IType, [Next]_vars PROVE IType'
  OBVIOUS
<1>1. CASE UNCHANGED vars
  BY <1>1 DEF vars, nodeVars, dbVars, workVars, IType, TypeOK, Work, ICache, CacheKeepsStaked,
     ReaderKeepsStaked
<1>2. CASE Next
  BY <1>2, ContractType, HandleType, RestartType, StepsType, ReadersType, ReadStakeType
     DEF Next, Handlers, Steps
<1> QED
  BY <1>1, <1>2

(* Every variable keeps its range: every record of the database, of the    *)
(* cache and of a reader is one of a delegation and its amounts, and a     *)
(* withdraw request sits under one primary key, whatever is handled again. *)
THEOREM TypeCorrect == Spec => []TypeOK
<1>1. IType => TypeOK
  BY DEF IType
<1> QED
  BY <1>1, InitType, NextType, PTL DEF Spec

(* A stale copy in the memory cache decides no update of a balance         *)
(* wrongly, however many readers and restarts come in between: the amount  *)
(* it is compared with is the one in the database (sfc_delegation.go:47,   *)
(* 74).                                                                    *)
THEOREM CacheDecidesRightly == Spec => []CacheKeepsStaked
<1>1. IType => CacheKeepsStaked
  BY DEF IType, ICache
<1> QED
  BY <1>1, InitType, NextType, PTL DEF Spec

-----------------------------------------------------------------------------
(* The balances. *)

LEMMA InitInv == Init => IInv
<1> SUFFICES ASSUME Init PROVE IInv
  OBVIOUS
<1>1. IType
  BY InitType
<1>2. AmountFresh /\ AllCovered
  BY DEF Init, AmountFresh, AllCovered, Handled
<1> QED
  BY <1>1, <1>2 DEF IInv

(* A log taken up leaves a step for each delegation it touches. *)
LEMMA TopicsOwe ==
  ASSUME NEW l \in Log, LogWell(l), NEW d \in Delegation, Touches(l, d)
  PROVE  \E i \in DOMAIN KnownTopics(l) :
           KnownTopics(l)[i].op \in {"balance", "store"} /\ KnownTopics(l)[i].dlg = d
<1> DEFINE K == KnownTopics(l)
<1>1. \A op, e : Do(op, e).op = op /\ Do(op, e).dlg = e
  BY DEF Do
<1>2. ASSUME NEW x, NEW y, K = <<x, y>>
      PROVE  1 \in DOMAIN K /\ 2 \in DOMAIN K /\ K[1] = x /\ K[2] = y
  BY <1>2
<1>3. ASSUME NEW x, K = <<x>>
      PROVE  1 \in DOMAIN K /\ K[1] = x
  BY <1>3
<1>4. l.kind = "moved" => K = <<Do("balance", l.dlg), Do("store", l.to)>>
  <2> SUFFICES ASSUME l.kind = "moved" PROVE K = <<Do("balance", l.dlg), Do("store", l.to)>>
    OBVIOUS
  <2>1. K = <<Do("balance", l.dlg)>> \o <<Do("store", l.to)>>
    BY DEF KnownTopics, UpdatedDelegation, NewDelegation
  <2>2. Do("balance", l.dlg) \in Step /\ Do("store", l.to) \in Step
    BY DEF Do, Step, Log, LogWell
  <2> QED
    BY <2>1, <2>2, PairOfSteps
<1>5. CASE l.kind = "moved"
  BY <1>1, <1>2, <1>4, <1>5 DEF Touches
<1>6. CASE l.kind # "moved"
  <2>1. l.dlg = d /\ l.to \notin Delegation
    BY <1>6 DEF Touches, LogWell
  <2> HIDE DEF K
  <2>2. \/ \E op \in {"store", "balance"} : K = <<Do(op, d)>>
        \/ \E op \in {"open", "close", "claim"} : K = <<Do(op, d), Do("balance", d)>>
    BY <2>1, Topics DEF K
  <2> QED
    BY <1>1, <1>2, <1>3, <2>2 DEF K
<1> QED
  BY <1>5, <1>6

(* A step that is done leaves the others owed. *)
LEMMA OweLeft ==
  ASSUME Work, todo # <<>>, todo' = Tail(todo), NEW d \in Delegation, Owes(d),
         Head(todo).op \notin {"balance", "store"} \/ Head(todo).dlg # d
  PROVE  Owes(d)'
<1>1. PICK i \in DOMAIN todo : todo[i].op \in {"balance", "store"} /\ todo[i].dlg = d
  BY DEF Owes
<1>2. i # 1
  BY <1>1, AtHand
<1>3. i = 2 /\ Tail(todo) = <<todo[2]>>
  BY <1>2, AtHand
<1>4. 1 \in DOMAIN <<todo[2]>> /\ <<todo[2]>>[1] = todo[2]
  OBVIOUS
<1>5. 1 \in DOMAIN todo' /\ todo'[1] = todo[2]
  BY <1>3, <1>4
<1> QED
  BY <1>1, <1>3, <1>5 DEF Owes

(* A change of a stake is pending by its log. *)
LEMMA ContractCovers ==
  ASSUME IInv, Contract
  PROVE  AmountFresh' /\ AllCovered'
<1> USE DEF IInv, IType, dbVars, workVars
<1>1. PICK l \in Log : /\ LogWell(l) /\ logs' = Append(logs, l)
                       /\ \A d \in Delegation : stake'[d] # stake[d] => Touches(l, d)
  BY ContractStep
<1>2. /\ Len(logs') = Len(logs) + 1 /\ Len(logs) \in Nat /\ pos \in Nat \ {0}
      /\ logs'[Len(logs) + 1] = l /\ pos <= Len(logs) + 1
      /\ \A i \in 1 .. Len(logs) : logs'[i] = logs[i]
      /\ DOMAIN logs = 1 .. Len(logs) /\ DOMAIN logs' = 1 .. Len(logs) + 1
  BY <1>1 DEF TypeOK
<1>3. UNCHANGED <<dlg, wreq, claims, cache, pos, cur, todo, amount, reader, stale>>
  BY ContractStep
<1>4. \A d \in Delegation : Touches(l, d) => Pending(d)'
  <2> TAKE d \in Delegation
  <2> HAVE Touches(l, d)
  <2>1. Len(logs) + 1 \in pos' .. Len(logs') /\ logs'[Len(logs) + 1] = l
    BY <1>2, <1>3
  <2> QED
    BY <2>1 DEF Pending
<1>5. \A d \in Delegation : Pending(d) => Pending(d)'
  BY <1>2, <1>3 DEF Pending
<1>6. AmountFresh'
  <2> SUFFICES ASSUME amount # None PROVE AmountFresh'
    BY <1>3 DEF AmountFresh
  <2>1. todo # <<>> /\ Head(todo).dlg \in Delegation
    BY AtHand DEF AmountFresh
  <2> QED
    BY <1>1, <1>3, <1>4, <1>5, <2>1 DEF AmountFresh
<1>7. ASSUME NEW d \in Delegation \ stale', Handled(d)'
      PROVE  Covered(d)'
  <2>1. CASE Touches(l, d)
    BY <1>4, <2>1 DEF Covered
  <2>2. CASE ~Touches(l, d)
    <3>1. Handled(d) /\ stake'[d] = stake[d]
      BY <1>1, <1>2, <1>7, <2>2 DEF Handled, Touches
    <3>2. Covered(d)
      BY <1>3, <1>7, <3>1 DEF AllCovered
    <3>3. pos > 1 => pos - 1 \in 1 .. Len(logs)
      BY <1>2
    <3> QED
      BY <1>2, <1>3, <1>5, <3>1, <3>2, <3>3 DEF Covered, Settled, BackAtFirst, Owes
  <2> QED
    BY <2>1, <2>2
<1> QED
  BY <1>6, <1>7 DEF AllCovered

LEMMA HandleCovers ==
  ASSUME IInv, HandleLog \/ HandleOutOfTurn
  PROVE  AmountFresh' /\ AllCovered'
<1> USE DEF IInv, IType
<1>1. UNCHANGED <<logs, stake, dlg, stale>> /\ amount' = None /\ todo = <<>>
  BY DEF HandleLog, HandleOutOfTurn, nodeVars, dbVars, Idle
<1>2. pos \in Nat \ {0} /\ Len(logs) \in Nat
  BY DEF TypeOK
<1>3. ASSUME NEW d \in Delegation \ stale', Handled(d)'
      PROVE  Covered(d)'
  <2>1. ~Owes(d) /\ Covered(d)
    BY <1>1, <1>3 DEF Owes, AllCovered, Handled
  <2>2. CASE Settled(d)
    BY <1>1, <2>2 DEF Settled, BackAtFirst, Covered
  <2>3. CASE Pending(d) /\ HandleOutOfTurn
    BY <1>1, <2>3 DEF Pending, Covered, HandleOutOfTurn
  <2>4. CASE Pending(d) /\ HandleLog
    <3>1. pos' = pos + 1 /\ cur' = logs[pos] /\ pos \in 1 .. Len(logs) /\ todo' = KnownTopics(logs[pos])
      BY <1>2, <2>4 DEF HandleLog
    <3>2. PICK i \in pos .. Len(logs) : Touches(logs[i], d)
      BY <2>4 DEF Pending
    <3>3. CASE i = pos
      <4>1. logs[pos] \in Log /\ LogWell(logs[pos])
        BY <3>1 DEF TypeOK
      <4>2. Owes(d)'
        BY <3>1, <3>2, <3>3, <4>1, TopicsOwe DEF Owes
      <4>3. pos' > 1 /\ pos' - 1 = pos
        BY <1>2, <3>1
      <4> QED
        BY <1>1, <3>2, <3>3, <4>2, <4>3 DEF Covered
    <3>4. CASE i # pos
      <4>1. i \in pos' .. Len(logs)
        BY <1>2, <3>1, <3>4
      <4> QED
        BY <1>1, <3>2, <4>1 DEF Covered, Pending
    <3> QED
      BY <3>3, <3>4
  <2> QED
    BY <2>1, <2>2, <2>3, <2>4 DEF Covered
<1>4. AmountFresh'
  BY <1>1 DEF AmountFresh
<1> QED
  BY <1>3, <1>4 DEF AllCovered

(* A place from which the scan goes on divides those of the logs. *)
LEMMA BeforeOrBehind ==
  \A f \in Int, n \in Nat, p \in Nat : \A i \in f .. n :
    IF i <= p - 1 THEN i \in f .. p - 1 ELSE i \in p .. n
  OBVIOUS

(* A restart leaves a log to be handled to come again, or passes over it   *)
(* and marks its delegations as stale.                                     *)
LEMMA RestartCovers ==
  ASSUME IInv, Restart
  PROVE  AmountFresh' /\ AllCovered'
<1> USE DEF IInv, IType
<1> DEFINE from == IF Idle THEN pos ELSE pos - 1
<1>1. /\ UNCHANGED <<logs, stake, dlg>> /\ amount' = None /\ pos' \in Nat
      /\ stale' = stale \union Touched(from, pos' - 1)
  BY DEF Restart, nodeVars, dbVars, TypeOK
<1>2. pos \in Nat \ {0} /\ Len(logs) \in Nat /\ pos <= Len(logs) + 1
  BY DEF TypeOK
<1>3. from \in Int /\ from <= pos /\ (todo # <<>> => from = pos - 1)
  BY <1>2 DEF Idle
<1> HIDE DEF from
<1>4. ASSUME NEW d \in Delegation \ stale', NEW i \in from .. Len(logs), Touches(logs[i], d)
      PROVE  Pending(d)'
  <2>0. pos' \in Nat /\ Len(logs) \in Nat /\ from \in Int
    BY <1>1, <1>2, <1>3
  <2>1. ASSUME i <= pos' - 1 PROVE FALSE
    <3>1. i \in from .. pos' - 1
      BY <2>0, <2>1, BeforeOrBehind
    <3>2. d \in Touched(from, pos' - 1)
      BY <3>1, <1>4 DEF Touched, Touches
    <3> QED
      BY <1>1, <1>4, <3>2
  <2>2. i \in pos' .. Len(logs)
    BY <2>0, <2>1, BeforeOrBehind
  <2> QED
    BY <1>1, <1>4, <2>2 DEF Pending
<1>5. ASSUME NEW d \in Delegation \ stale', Handled(d)'
      PROVE  Covered(d)'
  <2>1. Covered(d)
    BY <1>1, <1>5 DEF AllCovered, Handled
  <2>2. CASE Settled(d)
    BY <1>1, <2>2 DEF Settled, BackAtFirst, Covered
  <2>3. CASE Pending(d)
    <3>1. \A i \in pos .. Len(logs) : i \in from .. Len(logs)
      BY <1>2, <1>3
    <3> QED
      BY <1>4, <1>5, <2>3, <3>1 DEF Pending, Covered
  <2>4. CASE Owes(d) /\ pos > 1 /\ Touches(logs[pos - 1], d)
    <3>1. todo # <<>>
      BY <2>4 DEF Owes
    <3>2. pos - 1 \in from .. Len(logs)
      BY <1>2, <1>3, <3>1
    <3> QED
      BY <1>4, <1>5, <2>4, <3>2 DEF Covered
  <2> QED
    BY <2>1, <2>2, <2>3, <2>4 DEF Covered
<1>6. AmountFresh'
  BY <1>1 DEF AmountFresh
<1> QED
  BY <1>5, <1>6 DEF AllCovered

(* A step settles its delegation, or marks it as stale. *)
LEMMA StepsCover ==
  ASSUME IInv, Steps
  PROVE  AmountFresh' /\ AllCovered'
<1> USE DEF IInv, IType
<1> DEFINE h == Head(todo).dlg
<1>1. /\ UNCHANGED <<logs, stake, pos>> /\ amount' = None /\ todo # <<>> /\ h \in Delegation
  BY StepMoves, GoToWork, AtHand
<1>2. AmountFresh'
  BY <1>1 DEF AmountFresh
<1>3. \A d \in Delegation : Pending(d) => Pending(d)'
  BY <1>1 DEF Pending
<1>4. ASSUME NEW d \in Delegation, Handled(d)', d \notin stale, dlg'[d] = dlg[d],
             Owes(d) => Owes(d)'
      PROVE  Covered(d)'
  <2>1. Covered(d)
    BY <1>1, <1>4 DEF AllCovered, Handled
  <2> QED
    BY <1>1, <1>3, <1>4, <2>1 DEF Covered, Settled, BackAtFirst
<1>5. CASE OpenRequest \/ CloseRequest \/ StoreClaim
  <2>1. UNCHANGED <<dlg, stale>> /\ Head(todo).op \notin {"balance", "store"}
        /\ todo' = Tail(todo)
    BY <1>5, RequestStepType DEF OpenRequest, CloseRequest, StoreClaim, At, NextStep, GoTo
  <2>2. \A d \in Delegation : Owes(d) => Owes(d)'
    BY <1>1, <2>1, OweLeft
  <2> QED
    BY <1>2, <1>4, <2>1, <2>2 DEF AllCovered
<1>6. CASE StoreDelegation \/ AdHocDelegation \/ BalanceSkipped \/ BalanceWritten
  <2>1. /\ \A e \in Delegation : e # h => dlg'[e] = dlg[e]
        /\ dlg'[h] # None /\ (dlg'[h].act = amount \/ dlg'[h].amo = amount)
        /\ stale' = stale \ {h} /\ amount # None
    BY <1>6, DelegationStepType, DelegationStep
  <2>2. todo' = Tail(todo)
    BY <1>6 DEF StoreDelegation, AdHocDelegation, BalanceSkipped, BalanceWritten, NextStep, GoTo
  <2>3. ASSUME NEW d \in Delegation, d = h
        PROVE  Covered(d)'
    <3>1. amount = stake[d] \/ Pending(d)
      BY <2>1, <2>3 DEF AmountFresh
    <3>2. dlg'[d] # None /\ (dlg'[d].act = amount \/ dlg'[d].amo = amount)
      BY <2>1, <2>3
    <3> QED
      BY <1>1, <1>3, <3>1, <3>2 DEF Covered, Settled, BackAtFirst
  <2>4. ASSUME NEW d \in Delegation \ stale', Handled(d)', d # h
        PROVE  Covered(d)'
    <3>1. Owes(d) => Owes(d)'
      BY <1>1, <2>2, <2>4, OweLeft
    <3> QED
      BY <1>4, <2>1, <2>4, <3>1
  <2> QED
    BY <1>2, <2>3, <2>4 DEF AllCovered
<1>7. CASE StepFails
  <2>1. dlg' = dlg /\ todo' = IF Head(todo).op = "claim" THEN <<>> ELSE Tail(todo)
    BY <1>7, FailsType DEF StepFails, GoTo
  <2>2. stale' = IF Head(todo).op \in {"open", "close"} THEN stale ELSE stale \union {h}
    BY <1>7 DEF StepFails
  <2>3. ASSUME NEW d \in Delegation \ stale', Handled(d)'
        PROVE  Covered(d)'
    <3>1. d \notin stale /\ (Head(todo).op \in {"open", "close"} \/ d # h)
      BY <2>2, <2>3
    <3>2. CASE Head(todo).op = "claim"
      <4>1. ~Owes(d)
        BY <1>1, <3>1, <3>2, AtHand DEF Owes
      <4> QED
        BY <1>4, <2>1, <2>3, <3>1, <4>1
    <3>3. CASE Head(todo).op # "claim"
      <4>1. Owes(d) => Owes(d)'
        BY <1>1, <2>1, <3>1, <3>3, OweLeft
      <4> QED
        BY <1>4, <2>1, <2>3, <3>1, <4>1
    <3> QED
      BY <3>2, <3>3
  <2> QED
    BY <1>2, <2>3 DEF AllCovered
<1> QED
  BY <1>5, <1>6, <1>7 DEF Steps

(* Asking the node, and the readers, leave the records alone. *)
LEMMA OthersCover ==
  ASSUME IInv, ReadStake \/ Readers \/ UNCHANGED vars
  PROVE  AmountFresh' /\ AllCovered'
<1> USE DEF IInv, IType
<1>1. UNCHANGED <<logs, stake, open, dlg, pos, todo, stale>>
  BY ReadStakeType, ReadersType DEF nodeVars, dbVars, workVars, vars
<1>2. amount' = amount \/ (todo # <<>> /\ amount' = stake[Head(todo).dlg])
  BY ReadStakeType, ReadersType DEF workVars, vars
<1>3. AmountFresh'
  BY <1>1, <1>2 DEF AmountFresh, Pending
<1>4. AllCovered'
  BY <1>1 DEF AllCovered, Handled, Covered, Pending, Settled, BackAtFirst, Owes
<1> QED
  BY <1>3, <1>4

LEMMA NextInv == IInv /\ [Next]_vars => IInv'
<1> SUFFICES ASSUME IInv, [Next]_vars PROVE IInv'
  OBVIOUS
<1>1. IType'
  BY NextType DEF IInv
<1>2. AmountFresh' /\ AllCovered'
  BY ContractCovers, HandleCovers, RestartCovers, StepsCover, OthersCover
     DEF Next, Handlers, Steps
<1> QED
  BY <1>1, <1>2 DEF IInv

(* When the logs are worked off, every delegation's record shows the stake *)
(* of the contract unless that is back at the amount first staked, for     *)
(* which the code skips the update: for any number of delegations and      *)
(* logs, though the node's answers are newer than the logs, logs are       *)
(* handled again, restarts cut handlers off and readers overwrite the      *)
(* cache (sfc_delegation.go:40-85).                                        *)
THEOREM BalancesSettle == Spec => []BalanceSettled
<1>1. IInv => BalanceSettled
  <2> SUFFICES ASSUME IInv, WorkedOff, NEW d \in Delegation \ stale, Handled(d)
               PROVE  Settled(d)
    BY DEF BalanceSettled, Settled
  <2>1. Covered(d)
    BY DEF IInv, AllCovered
  <2>2. ~Owes(d)
    BY DEF WorkedOff, Idle, Owes
  <2>3. ~Pending(d)
    <3>1. pos = Len(logs) + 1 /\ Len(logs) \in Nat
      BY DEF WorkedOff, IInv, IType, TypeOK
    <3> QED
      BY <3>1 DEF Pending
  <2> QED
    BY <2>1, <2>2, <2>3 DEF Covered
<1> QED
  BY <1>1, InitInv, NextInv, PTL DEF Spec

-----------------------------------------------------------------------------
(* RequestsFirstTime.  The contract uses an ID again only after closing    *)
(* it, so when the handlers take the logs in their order, once each, the   *)
(* records say of every request handled so far what the logs so far say.   *)

Same(s, i, j) == s[i].dlg = s[j].dlg /\ s[i].req = s[j].req

(* The requests among the first p logs, and those of them closed there.    *)
Made(s, p) == {i \in 1 .. Len(s) : i <= p /\ s[i].kind = "undelegated"}
Closed(s, p) ==
  {i \in Made(s, p) : \E k \in i + 1 .. p : s[k].kind = "withdrawn" /\ Same(s, i, k)}

Reopened(s) ==
  \A j \in 1 .. Len(s) : s[j].kind = "undelegated" =>
    \A i \in Made(s, j - 1) : Same(s, i, j) => i \in Closed(s, j - 1)

(* The open requests of the contract are those the logs leave open.        *)
Matches(s, o) ==
  /\ \A i \in Made(s, Len(s)) \ Closed(s, Len(s)) : o[<<s[i].dlg, s[i].req>>] = s[i].trx
  /\ \A d \in Delegation, r \in ReqId : o[<<d, r>>] # 0 =>
       \E i \in Made(s, Len(s)) \ Closed(s, Len(s)) :
         s[i].dlg = d /\ s[i].req = r /\ s[i].trx = o[<<d, r>>]

Chain(s, o) == Reopened(s) /\ Matches(s, o)

AloneIn(s, i) == \A j \in Made(s, Len(s)) : s[j].trx = s[i].trx => j = i

Unique(w) ==
  \A t, u \in Trx : w[t] # None /\ w[u] # None /\ w[t].dlg = w[u].dlg /\ w[t].req = w[u].req => t = u

(* The records w after the requests M, of which C are closed. *)
Backed(s, w, M, C) ==
  \A t \in Trx : w[t] # None =>
    /\ \E i \in M : s[i].trx = t
    /\ w[t].req \in Trx => \E i \in M : s[i].trx = w[t].req
    /\ w[t].req \in ReqId /\ w[t].fin = 0 =>
         \E i \in M \ C : s[i].dlg = w[t].dlg /\ s[i].req = w[t].req

Tells(w, l, isClosed) ==
  /\ w # None /\ w.trx = l.trx /\ w.dlg = l.dlg
  /\ isClosed => w.fin # 0
  /\ ~isClosed => w.fin = 0 /\ w.req = l.req

Requests(s, w, M, C) ==
  Unique(w) /\ Backed(s, w, M, C) /\ \A i \in M : AloneIn(s, i) => Tells(w[s[i].trx], s[i], i \in C)

(* The logs whose request is written: all that are taken up but the one    *)
(* at hand.                                                                *)
Applied == IF At("open") \/ At("close") THEN pos - 2 ELSE pos - 1

InHand ==
  /\ At("open") => pos > 1 /\ cur = logs[pos - 1] /\ cur.kind = "undelegated"
  /\ At("close") => pos > 1 /\ cur = logs[pos - 1] /\ cur.kind = "withdrawn"

HistoryInv ==
  /\ Chain(logs, open)
  /\ again = 0 /\ failures = 0 =>
       InHand /\ Requests(logs, wreq, Made(logs, Applied), Closed(logs, Applied))

(* One log more. *)
LEMMA NextLog ==
  ASSUME NEW s \in Seq(Log), NEW n \in 1 .. Len(s)
  PROVE  /\ s[n].kind = "undelegated" =>
              Made(s, n) = Made(s, n - 1) \union {n} /\ Closed(s, n) = Closed(s, n - 1)
         /\ s[n].kind = "withdrawn" =>
              /\ Made(s, n) = Made(s, n - 1)
              /\ Closed(s, n) = Closed(s, n - 1) \union {i \in Made(s, n - 1) : Same(s, i, n)}
         /\ s[n].kind \notin {"undelegated", "withdrawn"} =>
              Made(s, n) = Made(s, n - 1) /\ Closed(s, n) = Closed(s, n - 1)
         /\ n \notin Made(s, n - 1) /\ Closed(s, n - 1) \subseteq Made(s, n - 1)
<1>1. Len(s) \in Nat /\ n \in Nat
  BY LenProperties
<1>2. \A i : i \in Made(s, n) <=> i \in Made(s, n - 1) \/ (i = n /\ s[n].kind = "undelegated")
  BY <1>1 DEF Made
<1>3. n \notin Made(s, n - 1) /\ Closed(s, n - 1) \subseteq Made(s, n - 1) /\ Closed(s, n) \subseteq Made(s, n)
  BY <1>1 DEF Made, Closed
<1>4. ASSUME NEW i \in Made(s, n - 1)
      PROVE  i \in Closed(s, n) <=> i \in Closed(s, n - 1) \/ (s[n].kind = "withdrawn" /\ Same(s, i, n))
  <2>1. i \in Made(s, n) /\ i \in Nat /\ i <= n - 1
    BY <1>1, <1>2 DEF Made
  <2>2. \A k : k \in i + 1 .. n <=> k \in i + 1 .. n - 1 \/ k = n
    BY <1>1, <2>1
  <2> QED
    BY <2>1, <2>2 DEF Closed
<1>5. s[n].kind = "undelegated" => n \notin Closed(s, n)
  <2>1. n + 1 .. n = {}
    BY <1>1
  <2> QED
    BY <2>1 DEF Closed
<1>6. CASE s[n].kind = "undelegated"
  <2>1. Made(s, n) = Made(s, n - 1) \union {n}
    BY <1>2, <1>6
  <2>2. Closed(s, n) = Closed(s, n - 1)
    BY <1>3, <1>4, <1>5, <1>6, <2>1
  <2> QED
    BY <1>3, <1>6, <2>1, <2>2
<1>7. CASE s[n].kind # "undelegated"
  <2>1. Made(s, n) = Made(s, n - 1)
    BY <1>2, <1>7
  <2>2. s[n].kind = "withdrawn" => Closed(s, n) = Closed(s, n - 1) \union {i \in Made(s, n - 1) : Same(s, i, n)}
    BY <1>3, <1>4, <2>1
  <2>3. s[n].kind # "withdrawn" => Closed(s, n) = Closed(s, n - 1)
    BY <1>3, <1>4, <2>1
  <2> QED
    BY <1>3, <1>7, <2>1, <2>2, <2>3
<1> QED
  BY <1>6, <1>7

(* What the first logs say stays when another one comes. *)
LEMMA Earlier ==
  ASSUME NEW s \in Seq(Log), NEW l \in Log, NEW p \in Int, p <= Len(s)
  PROVE  LET u == Append(s, l)
         IN  /\ Made(u, p) = Made(s, p) /\ Closed(u, p) = Closed(s, p)
             /\ \A i \in Made(s, p) : u[i] = s[i] /\ (AloneIn(u, i) => AloneIn(s, i))
<1> DEFINE u == Append(s, l)
<1>1. /\ Len(s) \in Nat /\ Len(u) = Len(s) + 1
      /\ \A i \in 1 .. Len(s) : u[i] = s[i]
  BY LenProperties, AppendProperties
<1> HIDE DEF u
<1>2. Made(u, p) = Made(s, p)
  BY <1>1 DEF Made
<1>3. \A i \in Made(s, p) : i \in 1 .. Len(s) /\ u[i] = s[i]
  BY <1>1 DEF Made
<1>4. ASSUME NEW i \in Made(s, p), NEW k \in i + 1 .. p
      PROVE  u[k] = s[k]
  <2>1. k \in 1 .. Len(s)
    BY <1>1, <1>3
  <2> QED
    BY <1>1, <2>1
<1>5. Closed(u, p) = Closed(s, p)
  BY <1>2, <1>3, <1>4 DEF Closed, Same
<1>6. ASSUME NEW i \in Made(s, p), AloneIn(u, i) PROVE AloneIn(s, i)
  <2> SUFFICES ASSUME NEW j \in Made(s, Len(s)), s[j].trx = s[i].trx PROVE j = i
    BY DEF AloneIn
  <2>1. j \in Made(u, Len(u)) /\ u[j] = s[j]
    BY <1>1 DEF Made
  <2> QED
    BY <1>3, <1>6, <2>1 DEF AloneIn
<1> QED
  BY <1>2, <1>3, <1>5, <1>6 DEF u

LEMMA RequestsEarlier ==
  ASSUME NEW s \in Seq(Log), NEW l \in Log, NEW p \in Int, p <= Len(s), NEW w,
         Requests(s, w, Made(s, p), Closed(s, p))
  PROVE  LET u == Append(s, l) IN Requests(u, w, Made(u, p), Closed(u, p))
<1> DEFINE u == Append(s, l)
           M == Made(s, p)
           C == Closed(s, p)
<1>1. Made(u, p) = M /\ Closed(u, p) = C /\ \A i \in M : u[i] = s[i] /\ (AloneIn(u, i) => AloneIn(s, i))
  BY Earlier
<1> HIDE DEF u, M, C
<1>2. Requests(s, w, M, C)
  BY DEF M, C
<1>3. Backed(u, w, M, C)
  BY <1>1, <1>2 DEF Requests, Backed
<1>4. \A i \in M : AloneIn(u, i) => Tells(w[u[i].trx], u[i], i \in C)
  BY <1>1, <1>2 DEF Requests
<1>5. Requests(u, w, M, C)
  BY <1>2, <1>3, <1>4 DEF Requests
<1> QED
  BY <1>1, <1>5 DEF u

(* A record added under an ID that is free. *)
LEMMA Inserted ==
  ASSUME NEW s \in Seq(Log), NEW n \in 1 .. Len(s), s[n].req \in ReqId, NEW M, NEW C \in SUBSET M,
         n \notin M, M \subseteq Made(s, Len(s)), n \in Made(s, Len(s)),
         NEW v \in [Trx -> Request \union {None}],
         Unique(v), Backed(s, v, M \union {n}, C),
         \A t \in Trx : v[t] # None => \E i \in M : s[i].trx = t,
         \A i \in M : AloneIn(s, i) => Tells(v[s[i].trx], s[i], i \in C),
         ~Known(v, s[n].dlg, s[n].req)
  PROVE  Requests(s, Insert(v, s[n].dlg, s[n].req, s[n].trx), M \union {n}, C)
<1> DEFINE d == s[n].dlg
           r == s[n].req
           t == s[n].trx
           new == [dlg |-> d, req |-> r, trx |-> t, fin |-> 0]
           w == Insert(v, d, r, t)
<1>0. s[n] \in Log /\ t \in Trx /\ d \in Delegation
  <2>1. s[n] \in Log
    BY LenProperties
  <2> QED
    BY <2>1 DEF Log
<1>1. CASE v[t] # None
  <2>1. w = v
    BY <1>1 DEF Insert
  <2>2. ~AloneIn(s, n)
    <3>1. PICK i \in M : s[i].trx = t
      BY <1>0, <1>1
    <3> QED
      BY <3>1 DEF AloneIn
  <2>3. \A i \in M \union {n} : AloneIn(s, i) => Tells(v[s[i].trx], s[i], i \in C)
    BY <2>2
  <2> QED
    BY <2>1, <2>3 DEF Requests
<1>2. CASE v[t] = None
  <2>1. w = [v EXCEPT ![t] = new]
    BY <1>2 DEF Insert, InsertOver
  <2>2. w[t] = new /\ \A u \in Trx : u # t => w[u] = v[u]
    BY <1>0, <2>1
  <2>3. new # None /\ new.dlg = d /\ new.req = r /\ new.trx = t /\ new.fin = 0 /\ r \notin Trx
    <3>1. new \in Request
      BY <1>0 DEF Request, Trx
    <3>2. new # None
      BY <3>1
    <3> QED
      BY <3>2 DEF Trx
  <2> HIDE DEF new, w
  <2>4. Unique(w)
    <3> SUFFICES ASSUME NEW x \in Trx, NEW y \in Trx, w[x] # None, w[y] # None,
                        w[x].dlg = w[y].dlg, w[x].req = w[y].req
                 PROVE  x = y
      BY DEF Unique
    <3>1. \A u \in Trx : u # t /\ w[u] # None => ~(w[u].dlg = d /\ w[u].req = r)
      BY <2>2 DEF Known
    <3> QED
      BY <2>2, <2>3, <3>1 DEF Unique
  <2>5. Backed(s, w, M \union {n}, C)
    <3> SUFFICES ASSUME NEW u \in Trx, w[u] # None
                 PROVE  /\ \E i \in M \union {n} : s[i].trx = u
                        /\ w[u].req \in Trx => \E i \in M \union {n} : s[i].trx = w[u].req
                        /\ w[u].req \in ReqId /\ w[u].fin = 0 =>
                             \E i \in (M \union {n}) \ C : s[i].dlg = w[u].dlg /\ s[i].req = w[u].req
      BY DEF Backed
    <3>1. CASE u = t
      BY <2>2, <2>3, <3>1
    <3>2. CASE u # t
      BY <2>2, <3>2 DEF Backed
    <3> QED
      BY <3>1, <3>2
  <2>6. \A i \in M \union {n} : AloneIn(s, i) => Tells(w[s[i].trx], s[i], i \in C)
    <3>1. ASSUME NEW i \in M, AloneIn(s, i) PROVE Tells(w[s[i].trx], s[i], i \in C)
      <4>1. Tells(v[s[i].trx], s[i], i \in C)
        BY <3>1
      <4>2. s[i].trx # t
        BY <1>2, <4>1 DEF Tells
      <4>3. s[i].trx \in Trx
        <5>1. i \in 1 .. Len(s)
          BY DEF Made
        <5>2. s[i] \in Log
          BY <5>1, LenProperties
        <5> QED
          BY <5>2 DEF Log
      <4> QED
        BY <2>2, <4>1, <4>2, <4>3
    <3>2. Tells(w[t], s[n], n \in C)
      BY <2>2, <2>3 DEF Tells
    <3> QED
      BY <3>1, <3>2
  <2> QED
    BY <2>4, <2>5, <2>6 DEF Requests, w
<1> QED
  BY <1>1, <1>2


(* The handler of a new request (sfc_reward.go, AddWithdrawal).            *)
LEMMA OpenFits ==
  ASSUME NEW s \in Seq(Log), NEW n \in 1 .. Len(s), s[n].req \in ReqId, NEW M, NEW C \in SUBSET M,
         n \notin M, M \subseteq Made(s, Len(s)), n \in Made(s, Len(s)),
         \A i \in M : Same(s, i, n) => i \in C,
         NEW w \in [Trx -> Request \union {None}], Requests(s, w, M, C)
  PROVE  Requests(s, AddWithdrawal(w, s[n].dlg, s[n].req, s[n].trx), M \union {n}, C)
<1> DEFINE d == s[n].dlg
           r == s[n].req
           t == s[n].trx
           k == KeyOf(w, d, r)
           v == [w EXCEPT ![k].req = t]
<1>1. s[n] \in Log /\ t \in Trx /\ d \in Delegation
  <2>1. s[n] \in Log
    BY LenProperties
  <2> QED
    BY <2>1 DEF Log
<1>2. Unique(w) /\ Backed(s, w, M, C) /\ Backed(s, w, M \union {n}, C)
      /\ \A i \in M : AloneIn(s, i) => Tells(w[s[i].trx], s[i], i \in C)
  BY DEF Requests, Backed
<1>3. \A u \in Trx : w[u] # None => \E i \in M : s[i].trx = u
  BY <1>2 DEF Backed
<1>4. CASE ~Known(w, d, r)
  BY <1>2, <1>3, <1>4, Inserted DEF AddWithdrawal
<1>5. CASE Known(w, d, r)
  <2>1. k \in Trx /\ w[k] # None /\ w[k].dlg = d /\ w[k].req = r /\ w[k] \in Request
    BY <1>5 DEF Known, KeyOf
  <2>2. w[k].fin # 0
    <3> SUFFICES ASSUME w[k].fin = 0 PROVE FALSE
      OBVIOUS
    <3>1. PICK i \in M \ C : s[i].dlg = d /\ s[i].req = r
      BY <1>2, <2>1 DEF Backed
    <3> QED
      BY <3>1 DEF Same
  <2>3. AddWithdrawal(w, d, r, t) = Shift(w, d, r, t)
    BY <1>5, <2>2 DEF AddWithdrawal
  <2>4. CASE Known(w, d, t)
    <3>1. ~AloneIn(s, n)
      <4>1. PICK i \in M : s[i].trx = t
        BY <1>1, <1>2, <2>4 DEF Known, Backed
      <4> QED
        BY <4>1 DEF AloneIn
    <3>2. Requests(s, w, M \union {n}, C)
      BY <1>2, <3>1 DEF Requests
    <3> QED
      BY <2>3, <2>4, <3>2 DEF Shift
  <2>5. CASE ~Known(w, d, t)
    <3> HIDE DEF k
    <3>1. /\ v \in [Trx -> Request \union {None}]
          /\ v[k] \in Request /\ v[k] # None /\ v[k].dlg = d /\ v[k].req = t /\ v[k].fin = w[k].fin /\ v[k].trx = w[k].trx
          /\ \A u \in Trx : u # k => v[u] = w[u]
      <4>1. /\ [w[k] EXCEPT !.req = t] \in Request /\ [w[k] EXCEPT !.req = t].dlg = d
            /\ [w[k] EXCEPT !.req = t].req = t /\ [w[k] EXCEPT !.req = t].fin = w[k].fin
            /\ [w[k] EXCEPT !.req = t].trx = w[k].trx
        BY <1>1, <2>1 DEF Request
      <4> QED
        BY <2>1, <4>1
    <3> HIDE DEF v
    <3>2. r # t
      BY <1>1 DEF Trx
    <3>3. Unique(v)
      <4> SUFFICES ASSUME NEW x \in Trx, NEW y \in Trx, v[x] # None, v[y] # None,
                          v[x].dlg = v[y].dlg, v[x].req = v[y].req
                   PROVE  x = y
        BY DEF Unique
      <4>1. \A u \in Trx : u # k /\ v[u] # None => ~(v[u].dlg = d /\ v[u].req = t)
        BY <2>5, <3>1 DEF Known
      <4> QED
        BY <1>2, <3>1, <4>1 DEF Unique
    <3>4. Backed(s, v, M \union {n}, C)
      <4> SUFFICES ASSUME NEW u \in Trx, v[u] # None
                   PROVE  /\ \E i \in M \union {n} : s[i].trx = u
                          /\ v[u].req \in Trx => \E i \in M \union {n} : s[i].trx = v[u].req
                          /\ v[u].req \in ReqId /\ v[u].fin = 0 =>
                               \E i \in (M \union {n}) \ C : s[i].dlg = v[u].dlg /\ s[i].req = v[u].req
        BY DEF Backed
      <4>1. CASE u = k
        BY <1>3, <2>1, <2>2, <3>1, <4>1
      <4>2. CASE u # k
        BY <1>2, <3>1, <4>2 DEF Backed
      <4> QED
        BY <4>1, <4>2
    <3>5. \A u \in Trx : v[u] # None => \E i \in M : s[i].trx = u
      BY <1>3, <2>1, <3>1
    <3>6. ASSUME NEW i \in M, AloneIn(s, i) PROVE Tells(v[s[i].trx], s[i], i \in C)
      <4>1. Tells(w[s[i].trx], s[i], i \in C)
        BY <1>2, <3>6
      <4>2. s[i].trx \in Trx
        <5>1. i \in 1 .. Len(s)
          BY DEF Made
        <5>2. s[i] \in Log
          BY <5>1, LenProperties
        <5> QED
          BY <5>2 DEF Log
      <4>3. CASE s[i].trx = k
        BY <2>1, <2>2, <3>1, <4>1, <4>3 DEF Tells
      <4>4. CASE s[i].trx # k
        BY <3>1, <4>1, <4>2, <4>4
      <4> QED
        BY <4>3, <4>4
    <3>7. ~Known(v, d, r)
      <4> SUFFICES ASSUME NEW u \in Trx, v[u] # None, v[u].dlg = d, v[u].req = r PROVE FALSE
        BY DEF Known
      <4>1. u # k
        BY <3>1, <3>2
      <4>2. w[u] # None /\ w[u].dlg = d /\ w[u].req = r
        BY <3>1, <4>1
      <4> QED
        BY <1>2, <2>1, <4>1, <4>2 DEF Unique
    <3>8. Requests(s, Insert(v, d, r, t), M \union {n}, C)
      BY <3>1, <3>3, <3>4, <3>5, <3>6, <3>7, Inserted
    <3> QED
      BY <2>3, <2>5, <3>8 DEF Shift, k, v
  <2> QED
    BY <2>4, <2>5
<1> QED
  BY <1>4, <1>5

(* The handler of a closed request.                                        *)
LEMMA CloseFits ==
  ASSUME NEW s \in Seq(Log), NEW n \in 1 .. Len(s), s[n].req \in ReqId, NEW M, NEW C \in SUBSET M,
         M \subseteq Made(s, Len(s)),
         NEW w \in [Trx -> Request \union {None}], Requests(s, w, M, C)
  PROVE  Requests(s, CloseWithdrawal(w, s[n].dlg, s[n].req, s[n].trx), M,
                  C \union {i \in M : Same(s, i, n)})
<1> DEFINE d == s[n].dlg
           r == s[n].req
           t == s[n].trx
           k == KeyOf(w, d, r)
           v == CloseWithdrawal(w, d, r, t)
           D == C \union {i \in M : Same(s, i, n)}
<1>1. s[n] \in Log /\ t \in Trx /\ t # 0
  <2>1. s[n] \in Log
    BY LenProperties
  <2> QED
    BY <2>1 DEF Log, Trx
<1>2. Unique(w) /\ Backed(s, w, M, C)
      /\ \A i \in M : AloneIn(s, i) => Tells(w[s[i].trx], s[i], i \in C)
  BY DEF Requests
(* Which record is closed, if there is one. *)
<1>3. \A u \in Trx : w[u] # None =>
        /\ v[u] # None /\ v[u].dlg = w[u].dlg /\ v[u].req = w[u].req /\ v[u].trx \in {w[u].trx, u}
        /\ w[u].dlg = d /\ w[u].req = r => v[u].fin # 0
        /\ ~(w[u].dlg = d /\ w[u].req = r) => v[u].fin = w[u].fin
        /\ w[u].fin # 0 => v[u].fin # 0
  <2>1. CASE ~Known(w, d, r)
    BY <2>1 DEF CloseWithdrawal, Known
  <2>2. CASE Known(w, d, r)
    <3>1. k \in Trx /\ w[k] # None /\ w[k].dlg = d /\ w[k].req = r /\ w[k] \in Request
      BY <2>2 DEF Known, KeyOf
    <3>2. v = [w EXCEPT ![k].fin = t, ![k].trx = k]
      BY <2>2 DEF CloseWithdrawal
    <3> HIDE DEF v, k
    <3>3. /\ v[k] # None /\ v[k].dlg = d /\ v[k].req = r /\ v[k].trx = k /\ v[k].fin = t
          /\ \A u \in Trx : u # k => v[u] = w[u]
      <4> DEFINE c == [w[k] EXCEPT !.fin = t, !.trx = k]
      <4>1. c \in Request /\ c.dlg = d /\ c.req = r /\ c.fin = t /\ c.trx = k
        BY <1>1, <3>1 DEF Request
      <4>2. v = [w EXCEPT ![k] = c]
        BY <3>1, <3>2
      <4> QED
        BY <3>1, <4>1, <4>2
    <3>4. \A u \in Trx : w[u] # None /\ w[u].dlg = d /\ w[u].req = r => u = k
      BY <1>2, <3>1 DEF Unique
    <3> QED
      BY <1>1, <3>1, <3>3, <3>4
  <2> QED
    BY <2>1, <2>2
<1>4. \A u \in Trx : w[u] = None => v[u] = None
  <2>1. CASE ~Known(w, d, r)
    BY <2>1 DEF CloseWithdrawal
  <2>2. CASE Known(w, d, r)
    <3>1. k \in Trx /\ w[k] # None
      BY <2>2 DEF Known, KeyOf
    <3>2. v = [w EXCEPT ![k].fin = t, ![k].trx = k]
      BY <2>2 DEF CloseWithdrawal
    <3> HIDE DEF v, k
    <3> QED
      BY <3>1, <3>2
  <2> QED
    BY <2>1, <2>2
<1> HIDE DEF v
<1>5. Unique(v)
  BY <1>2, <1>3, <1>4 DEF Unique
<1>6. Backed(s, v, M, D)
  <2> SUFFICES ASSUME NEW u \in Trx, v[u] # None
               PROVE  /\ \E i \in M : s[i].trx = u
                      /\ v[u].req \in Trx => \E i \in M : s[i].trx = v[u].req
                      /\ v[u].req \in ReqId /\ v[u].fin = 0 =>
                           \E i \in M \ D : s[i].dlg = v[u].dlg /\ s[i].req = v[u].req
    BY DEF Backed
  <2>1. w[u] # None /\ v[u].dlg = w[u].dlg /\ v[u].req = w[u].req
    BY <1>3, <1>4
  <2>2. /\ \E i \in M : s[i].trx = u
        /\ w[u].req \in Trx => \E i \in M : s[i].trx = w[u].req
    BY <1>2, <2>1 DEF Backed
  <2>3. ASSUME w[u].req \in ReqId, v[u].fin = 0
        PROVE  \E i \in M \ D : s[i].dlg = w[u].dlg /\ s[i].req = w[u].req
    <3>1. ~(w[u].dlg = d /\ w[u].req = r) /\ w[u].fin = 0
      BY <1>3, <2>1, <2>3
    <3>2. PICK i \in M \ C : s[i].dlg = w[u].dlg /\ s[i].req = w[u].req
      BY <1>2, <2>1, <2>3, <3>1 DEF Backed
    <3>3. i \notin D
      BY <3>1, <3>2 DEF Same
    <3> QED
      BY <3>2, <3>3
  <2> QED
    BY <2>1, <2>2, <2>3
<1>7. ASSUME NEW i \in M, AloneIn(s, i) PROVE Tells(v[s[i].trx], s[i], i \in D)
  <2>1. Tells(w[s[i].trx], s[i], i \in C)
    BY <1>2, <1>7
  <2>2. s[i].trx \in Trx
    <3>1. i \in 1 .. Len(s)
      BY DEF Made
    <3>2. s[i] \in Log
      BY <3>1, LenProperties
    <3> QED
      BY <3>2 DEF Log
  <2> DEFINE x == s[i].trx
  <2>3. /\ w[x] # None /\ v[x] # None /\ v[x].trx = x /\ v[x].dlg = s[i].dlg /\ v[x].req = w[x].req
    BY <1>3, <2>1, <2>2 DEF Tells
  <2>4. CASE i \in C
    <3>1. v[x].fin # 0 /\ i \in D
      BY <1>3, <2>1, <2>2, <2>3, <2>4 DEF Tells
    <3> QED
      BY <2>3, <3>1 DEF Tells
  <2>5. CASE i \notin C /\ Same(s, i, n)
    <3>1. v[x].fin # 0 /\ i \in D
      BY <1>3, <2>1, <2>2, <2>3, <2>5 DEF Tells, Same
    <3> QED
      BY <2>3, <3>1 DEF Tells
  <2>6. CASE i \notin C /\ ~Same(s, i, n)
    <3>1. v[x].fin = 0 /\ v[x].req = s[i].req /\ i \notin D
      BY <1>3, <2>1, <2>2, <2>3, <2>6 DEF Tells, Same
    <3> QED
      BY <2>3, <3>1 DEF Tells
  <2> QED
    BY <2>4, <2>5, <2>6
<1>8. Requests(s, v, M, D)
  BY <1>5, <1>6, <1>7 DEF Requests
<1> QED
  BY <1>8 DEF v

(* What a new log says of the open requests. *)
Opens(l, o, next) ==
  l.kind = "undelegated" /\ l.req \in ReqId /\ o[<<l.dlg, l.req>>] = 0
  /\ next = [o EXCEPT ![<<l.dlg, l.req>>] = l.trx]
Closes(l, o, next) ==
  l.kind = "withdrawn" /\ l.req \in ReqId /\ next = [o EXCEPT ![<<l.dlg, l.req>>] = 0]
Leaves(l, o, next) ==
  l.kind \notin {"undelegated", "withdrawn"} /\ next = o

LEMMA ContractLog ==
  ASSUME IType, Contract
  PROVE  /\ \E l \in Log : /\ logs' = Append(logs, l)
                           /\ Opens(l, open, open') \/ Closes(l, open, open') \/ Leaves(l, open, open')
         /\ UNCHANGED <<wreq, pos, cur, todo, again, failures>>
<1>1. PICK d \in Delegation, t \in Trx :
        \/ Delegate(d, t) \/ Increase(d, t) \/ Claim(d, t)
        \/ \E r \in ReqId : Undelegate(d, r, t) \/ Withdraw(d, r, t)
        \/ \E e \in Delegation : Move(d, e, t)
  BY DEF Contract
<1>2. ASSUME NEW kind \in {"delegated", "increased", "undelegated", "withdrawn", "claimed", "moved"},
             NEW to \in Delegation \union {None}, NEW r \in ReqId \union {None},
             Emit(kind, d, to, r, t)
      PROVE  \E l \in Log : /\ logs' = Append(logs, l)
                            /\ l.kind = kind /\ l.dlg = d /\ l.req = r /\ l.trx = t
  <2> DEFINE l == [kind |-> kind, dlg |-> d, to |-> to, req |-> r, trx |-> t]
  <2>1. l \in Log
    BY DEF Log
  <2> QED
    BY <1>2, <2>1 DEF Emit
<1>3. CASE Delegate(d, t) \/ Increase(d, t) \/ Claim(d, t)
  <2>1. PICK kind \in {"delegated", "increased", "claimed"} : Emit(kind, d, None, None, t) /\ open' = open
    BY <1>3 DEF Delegate, Increase, Claim
  <2> QED
    BY <1>2, <2>1 DEF Emit, dbVars, workVars, Leaves
<1>4. CASE \E r \in ReqId : Undelegate(d, r, t)
  <2>1. PICK r \in ReqId : Undelegate(d, r, t)
    BY <1>4
  <2>2. /\ Emit("undelegated", d, None, r, t) /\ open[<<d, r>>] = 0
        /\ open' = [open EXCEPT ![<<d, r>>] = t]
    BY <2>1 DEF Undelegate
  <2>3. PICK l \in Log : /\ logs' = Append(logs, l)
                          /\ l.kind = "undelegated" /\ l.dlg = d /\ l.req = r /\ l.trx = t
    BY <1>2, <2>2
  <2>4. Opens(l, open, open')
    BY <2>2, <2>3 DEF Opens
  <2>5. UNCHANGED <<wreq, pos, cur, todo, again, failures>>
    BY <2>2 DEF Emit, dbVars, workVars
  <2> QED
    BY <2>3, <2>4, <2>5
<1>5. CASE \E r \in ReqId : Withdraw(d, r, t)
  <2>1. PICK r \in ReqId : Withdraw(d, r, t)
    BY <1>5
  <2>2. Emit("withdrawn", d, None, r, t) /\ open' = [open EXCEPT ![<<d, r>>] = 0]
    BY <2>1 DEF Withdraw
  <2>3. PICK l \in Log : /\ logs' = Append(logs, l)
                          /\ l.kind = "withdrawn" /\ l.dlg = d /\ l.req = r /\ l.trx = t
    BY <1>2, <2>2
  <2>4. Closes(l, open, open')
    BY <2>2, <2>3 DEF Closes
  <2>5. UNCHANGED <<wreq, pos, cur, todo, again, failures>>
    BY <2>2 DEF Emit, dbVars, workVars
  <2> QED
    BY <2>3, <2>4, <2>5
<1>6. CASE \E e \in Delegation : Move(d, e, t)
  <2>1. PICK e \in Delegation : Move(d, e, t)
    BY <1>6
  <2>2. Emit("moved", d, e, None, t) /\ open' = open
    BY <2>1 DEF Move
  <2> QED
    BY <1>2, <2>2 DEF Emit, dbVars, workVars, Leaves
<1> QED
  BY <1>1, <1>3, <1>4, <1>5, <1>6

LEMMA ChainGrows ==
  ASSUME NEW s \in Seq(Log), NEW l \in Log, NEW o \in [Delegation \X ReqId -> {0} \union Trx],
         NEW next, Chain(s, o), Opens(l, o, next) \/ Closes(l, o, next) \/ Leaves(l, o, next),
         \A i \in Made(s, Len(s)) : s[i].req \in ReqId
  PROVE  Chain(Append(s, l), next)
<1> DEFINE u == Append(s, l)
           n == Len(s) + 1
           M == Made(s, Len(s))
           C == Closed(s, Len(s))
<1>1. /\ Len(s) \in Nat /\ Len(u) = n /\ u \in Seq(Log) /\ u[n] = l
      /\ \A i \in 1 .. Len(s) : u[i] = s[i] /\ s[i] \in Log
  <2>1. \A i \in 1 .. Len(s) : s[i] \in Log
    BY LenProperties
  <2> QED
    BY <2>1, LenProperties, AppendProperties
<1>2. \A p \in Int : p <= Len(s) => Made(u, p) = Made(s, p) /\ Closed(u, p) = Closed(s, p)
  BY Earlier
<1> HIDE DEF u
<1>3. n \in 1 .. Len(u) /\ n - 1 = Len(s)
  BY <1>1
<1>4. Made(u, n - 1) = M /\ Closed(u, n - 1) = C
  BY <1>1, <1>2, <1>3
<1>5. /\ l.kind = "undelegated" => Made(u, n) = M \union {n} /\ Closed(u, n) = C
      /\ l.kind = "withdrawn" => Made(u, n) = M /\ Closed(u, n) = C \union {i \in M : Same(u, i, n)}
      /\ l.kind \notin {"undelegated", "withdrawn"} => Made(u, n) = M /\ Closed(u, n) = C
      /\ n \notin M /\ C \subseteq M
  <2> HIDE DEF n
  <2> QED
    BY <1>1, <1>3, <1>4, NextLog
<1>6. \A i \in M : i \in 1 .. Len(s) /\ u[i] = s[i] /\ s[i].trx \in Trx /\ s[i].dlg \in Delegation
  BY <1>1 DEF Made, Log
<1>7. l.dlg \in Delegation /\ l.trx \in Trx /\ 0 \notin Trx
  BY DEF Log, Trx
<1>8. /\ Reopened(s)
      /\ \A i \in M \ C : o[<<s[i].dlg, s[i].req>>] = s[i].trx
      /\ \A d \in Delegation, r \in ReqId : o[<<d, r>>] # 0 =>
           \E i \in M \ C : s[i].dlg = d /\ s[i].req = r /\ s[i].trx = o[<<d, r>>]
  BY DEF Chain, Matches
<1>9. Reopened(u)
  <2> SUFFICES ASSUME NEW j \in 1 .. Len(u), u[j].kind = "undelegated",
                      NEW i \in Made(u, j - 1), Same(u, i, j)
               PROVE  i \in Closed(u, j - 1)
    BY DEF Reopened
  <2>1. CASE j \in 1 .. Len(s)
    <3>1. j - 1 \in Int /\ j - 1 <= Len(s)
      BY <1>1, <2>1
    <3>2. Made(u, j - 1) = Made(s, j - 1) /\ Closed(u, j - 1) = Closed(s, j - 1)
      BY <1>2, <3>1
    <3>3. u[j] = s[j] /\ i \in Made(s, j - 1) /\ u[i] = s[i]
      BY <1>1, <2>1, <3>2 DEF Made
    <3> QED
      BY <1>8, <2>1, <3>2, <3>3 DEF Reopened, Same
  <2>2. CASE j = n
    <3>1. i \in M /\ u[i] = s[i] /\ s[i].dlg = l.dlg /\ s[i].req = l.req /\ l.kind = "undelegated"
      BY <1>1, <1>4, <1>6, <2>2 DEF Same
    <3>2. o[<<l.dlg, l.req>>] = 0
      BY <3>1 DEF Opens, Closes, Leaves
    <3>3. i \in C
      BY <1>6, <1>7, <1>8, <3>1, <3>2
    <3> QED
      BY <1>4, <2>2, <3>3
  <2> QED
    BY <1>1, <2>1, <2>2
<1> HIDE DEF n, M, C
<1>10. Matches(u, next)
  <2>1. CASE Opens(l, o, next)
    <3>1. /\ l.kind = "undelegated" /\ l.req \in ReqId /\ o[<<l.dlg, l.req>>] = 0
          /\ next = [o EXCEPT ![<<l.dlg, l.req>>] = l.trx]
      BY <2>1 DEF Opens
    <3>2. /\ next[<<l.dlg, l.req>>] = l.trx
          /\ \A d \in Delegation, r \in ReqId : d # l.dlg \/ r # l.req => next[<<d, r>>] = o[<<d, r>>]
      BY <1>7, <3>1
    <3>3. Made(u, n) = M \union {n} /\ Closed(u, n) = C /\ n \notin C
      BY <1>5, <3>1
    <3>4. ASSUME NEW i \in M \ C
          PROVE  next[<<u[i].dlg, u[i].req>>] = u[i].trx
      <4>1. o[<<s[i].dlg, s[i].req>>] = s[i].trx /\ s[i].trx # 0 /\ u[i] = s[i] /\ s[i].dlg \in Delegation
        BY <1>6, <1>7, <1>8
      <4>2. s[i].dlg # l.dlg \/ s[i].req # l.req
        BY <3>1, <4>1
      <4>3. s[i].req \in ReqId
        BY DEF M
      <4> QED
        BY <3>2, <4>1, <4>2, <4>3
    <3>5. next[<<u[n].dlg, u[n].req>>] = u[n].trx
      BY <1>1, <3>2
    <3>6. ASSUME NEW d \in Delegation, NEW r \in ReqId, next[<<d, r>>] # 0
          PROVE  \E i \in (M \union {n}) \ C : u[i].dlg = d /\ u[i].req = r /\ u[i].trx = next[<<d, r>>]
      <4>1. CASE d = l.dlg /\ r = l.req
        BY <1>1, <3>2, <3>3, <4>1
      <4>2. CASE d # l.dlg \/ r # l.req
        <5>1. PICK i \in M \ C : s[i].dlg = d /\ s[i].req = r /\ s[i].trx = o[<<d, r>>]
          BY <1>8, <3>2, <3>6, <4>2
        <5>2. u[i] = s[i]
          BY <1>6
        <5> QED
          BY <3>2, <4>2, <5>1, <5>2
      <4> QED
        BY <4>1, <4>2
    <3>7. \A i \in (M \union {n}) \ C : next[<<u[i].dlg, u[i].req>>] = u[i].trx
      BY <3>4, <3>5
    <3>8. Made(u, Len(u)) \ Closed(u, Len(u)) = (M \union {n}) \ C
      BY <1>1, <3>3
    <3> QED
      BY <3>6, <3>7, <3>8 DEF Matches
  <2>2. CASE Closes(l, o, next)
    <3> DEFINE D == C \union {i \in M : Same(u, i, n)}
    <3>1. l.kind = "withdrawn" /\ l.req \in ReqId /\ next = [o EXCEPT ![<<l.dlg, l.req>>] = 0]
      BY <2>2 DEF Closes
    <3>2. /\ next[<<l.dlg, l.req>>] = 0
          /\ \A d \in Delegation, r \in ReqId : d # l.dlg \/ r # l.req => next[<<d, r>>] = o[<<d, r>>]
      BY <1>7, <3>1
    <3>3. Made(u, n) = M /\ Closed(u, n) = D
      BY <1>5, <3>1
    <3>4. \A i \in M : Same(u, i, n) <=> s[i].dlg = l.dlg /\ s[i].req = l.req
      BY <1>1, <1>6 DEF Same
    <3>5. ASSUME NEW i \in M \ D
          PROVE  next[<<u[i].dlg, u[i].req>>] = u[i].trx
      <4>1. o[<<s[i].dlg, s[i].req>>] = s[i].trx /\ u[i] = s[i] /\ s[i].dlg \in Delegation
        BY <1>6, <1>8
      <4>2. s[i].dlg # l.dlg \/ s[i].req # l.req
        BY <3>4
      <4>3. s[i].req \in ReqId
        BY DEF M
      <4> QED
        BY <3>2, <4>1, <4>2, <4>3
    <3>6. ASSUME NEW d \in Delegation, NEW r \in ReqId, next[<<d, r>>] # 0
          PROVE  \E i \in M \ D : u[i].dlg = d /\ u[i].req = r /\ u[i].trx = next[<<d, r>>]
      <4>1. d # l.dlg \/ r # l.req
        BY <3>2, <3>6
      <4>2. PICK i \in M \ C : s[i].dlg = d /\ s[i].req = r /\ s[i].trx = o[<<d, r>>]
        BY <1>8, <3>2, <3>6, <4>1
      <4>3. u[i] = s[i] /\ i \notin D
        BY <1>6, <3>4, <4>1, <4>2
      <4> QED
        BY <3>2, <4>1, <4>2, <4>3
    <3>7. Made(u, Len(u)) \ Closed(u, Len(u)) = M \ D
      BY <1>1, <3>3
    <3> HIDE DEF D
    <3> QED
      BY <3>5, <3>6, <3>7 DEF Matches
  <2>3. CASE Leaves(l, o, next)
    <3>1. next = o /\ Made(u, n) = M /\ Closed(u, n) = C
      BY <1>5, <2>3 DEF Leaves
    <3>2. \A i \in M \ C : o[<<u[i].dlg, u[i].req>>] = u[i].trx
      BY <1>6, <1>8
    <3>3. ASSUME NEW d \in Delegation, NEW r \in ReqId, o[<<d, r>>] # 0
          PROVE  \E i \in M \ C : u[i].dlg = d /\ u[i].req = r /\ u[i].trx = o[<<d, r>>]
      BY <1>6, <1>8, <3>3
    <3>4. Made(u, Len(u)) \ Closed(u, Len(u)) = M \ C
      BY <1>1, <3>1
    <3> QED
      BY <3>1, <3>2, <3>3, <3>4 DEF Matches
  <2> QED
    BY <2>1, <2>2, <2>3
<1> QED
  BY <1>9, <1>10 DEF Chain, u

LEMMA InitHistory == Init => HistoryInv
<1> SUFFICES ASSUME Init PROVE HistoryInv
  OBVIOUS
<1>1. /\ logs = <<>> /\ Len(<<>>) = 0 /\ todo = <<>> /\ wreq = [t \in Trx |-> None]
      /\ \A d \in Delegation, r \in ReqId : open[<<d, r>>] = 0
  BY DEF Init
<1>2. \A p : Made(<<>>, p) = {} /\ Closed(<<>>, p) = {}
  BY <1>1 DEF Made, Closed
<1>3. Chain(logs, open)
  BY <1>1, <1>2 DEF Chain, Reopened, Matches
<1>4. ~At("open") /\ ~At("close")
  BY <1>1 DEF At, Idle
<1>5. Requests(<<>>, wreq, {}, {})
  BY <1>1 DEF Requests, Unique, Backed
<1> QED
  BY <1>1, <1>2, <1>3, <1>4, <1>5 DEF HistoryInv, InHand

(* The requests made are those of logs with a request ID. *)
LEMMA MadeTyped ==
  ASSUME IType
  PROVE  /\ logs \in Seq(Log) /\ Len(logs) \in Nat /\ pos \in Nat /\ pos >= 1 /\ pos <= Len(logs) + 1
         /\ again \in Nat /\ failures \in Nat /\ wreq \in [Trx -> Request \union {None}]
         /\ \A i \in 1 .. Len(logs) : logs[i] \in Log /\ LogWell(logs[i])
         /\ \A i \in Made(logs, Len(logs)) : logs[i].req \in ReqId
<1>1. logs \in Seq(Log) /\ Len(logs) \in Nat /\ pos \in Nat /\ pos >= 1 /\ pos <= Len(logs) + 1
      /\ again \in Nat /\ failures \in Nat /\ wreq \in [Trx -> Request \union {None}]
  BY DEF IType, TypeOK
<1>2. \A i \in 1 .. Len(logs) : logs[i] \in Log /\ LogWell(logs[i])
  BY <1>1, LenProperties DEF IType
<1> QED
  BY <1>1, <1>2 DEF Made, LogWell

LEMMA ContractHistory ==
  ASSUME IType, HistoryInv, Contract
  PROVE  HistoryInv'
<1>1. PICK l \in Log : /\ logs' = Append(logs, l)
                       /\ Opens(l, open, open') \/ Closes(l, open, open') \/ Leaves(l, open, open')
  BY ContractLog
<1>2. UNCHANGED <<wreq, pos, cur, todo, again, failures>>
  BY ContractLog
<1>3. Chain(logs', open')
  <2>1. open \in [Delegation \X ReqId -> {0} \union Trx] /\ Chain(logs, open)
    BY DEF IType, TypeOK, HistoryInv
  <2> QED
    BY <1>1, <2>1, MadeTyped, ChainGrows
<1>4. Applied' = Applied /\ Applied \in Int /\ Applied <= Len(logs)
  BY <1>2, MadeTyped DEF Applied, At, Idle
<1>5. ASSUME again' = 0, failures' = 0
      PROVE  InHand' /\ Requests(logs', wreq', Made(logs', Applied'), Closed(logs', Applied'))
  <2>1. InHand /\ Requests(logs, wreq, Made(logs, Applied), Closed(logs, Applied))
    BY <1>2, <1>5 DEF HistoryInv
  <2>2. Requests(logs', wreq, Made(logs', Applied), Closed(logs', Applied))
    BY <1>1, <1>4, <2>1, MadeTyped, RequestsEarlier
  <2>3. pos > 1 => pos - 1 \in 1 .. Len(logs) /\ logs'[pos - 1] = logs[pos - 1]
    <3>1. pos > 1 => pos - 1 \in 1 .. Len(logs)
      BY MadeTyped
    <3>2. \A i \in 1 .. Len(logs) : logs'[i] = logs[i]
      BY <1>1, MadeTyped, AppendProperties
    <3> QED
      BY <3>1, <3>2
  <2>4. InHand'
    BY <1>2, <2>1, <2>3 DEF InHand, At, Idle
  <2> QED
    BY <1>2, <1>4, <2>2, <2>4
<1> QED
  BY <1>3, <1>5 DEF HistoryInv

(* A log is taken up: a request is still to be written, any other log is   *)
(* none to write.                                                          *)
LEMMA HandleHistory ==
  ASSUME IType, HistoryInv, HandleLog
  PROVE  HistoryInv'
<1> USE DEF nodeVars, dbVars
<1>1. /\ todo = <<>> /\ pos \in 1 .. Len(logs) /\ cur' = logs[pos] /\ todo' = KnownTopics(logs[pos])
      /\ pos' = pos + 1 /\ UNCHANGED <<open, logs, wreq, again, failures>>
  BY MadeTyped DEF HandleLog, Idle
<1>2. Applied = pos - 1
  BY <1>1 DEF Applied, At, Idle
<1>3. logs[pos] \in Log
  BY <1>1, MadeTyped
<1>4. /\ At("open")' <=> logs[pos].kind = "undelegated"
      /\ At("close")' <=> logs[pos].kind = "withdrawn"
  <2> DEFINE l == logs[pos]
  <2>1. /\ l.kind = "delegated" => todo' # <<>> /\ Head(todo').op = "store"
        /\ l.kind = "increased" => todo' # <<>> /\ Head(todo').op = "balance"
        /\ l.kind = "undelegated" => todo' # <<>> /\ Head(todo').op = "open"
        /\ l.kind = "withdrawn" => todo' # <<>> /\ Head(todo').op = "close"
        /\ l.kind = "claimed" => todo' # <<>> /\ Head(todo').op = "claim"
    BY <1>1 DEF KnownTopics, NewDelegation, IncreasedDelegation, NewWithdrawRequest,
       FinishedWithdrawRequest, RewardClaim, Do
  <2>2. l.kind = "moved" => todo' # <<>> /\ Head(todo').op = "balance"
    <3> SUFFICES ASSUME l.kind = "moved" PROVE todo' # <<>> /\ Head(todo').op = "balance"
      OBVIOUS
    <3>1. Do("balance", l.dlg) \in Step /\ Do("store", l.to) \in Step
      BY <1>1, <1>3, MadeTyped DEF LogWell, Log, Do, Step
    <3>2. todo' = <<Do("balance", l.dlg), Do("store", l.to)>>
      BY <1>1, <3>1, PairOfSteps DEF KnownTopics, UpdatedDelegation, NewDelegation
    <3> QED
      BY <3>2 DEF Do
  <2>3. l.kind \in {"delegated", "increased", "undelegated", "withdrawn", "claimed", "moved"}
    BY <1>3 DEF Log
  <2> QED
    BY <2>1, <2>2, <2>3 DEF At, Idle
<1>5. ASSUME again' = 0, failures' = 0
      PROVE  InHand' /\ Requests(logs', wreq', Made(logs', Applied'), Closed(logs', Applied'))
  <2>1. Requests(logs, wreq, Made(logs, pos - 1), Closed(logs, pos - 1))
    BY <1>1, <1>2, <1>5 DEF HistoryInv
  <2>2. pos' > 1 /\ pos' - 1 = pos /\ pos' - 2 = pos - 1
    BY <1>1, MadeTyped
  <2>3. InHand'
    BY <1>1, <1>4, <2>2 DEF InHand
  <2>4. CASE logs[pos].kind \in {"undelegated", "withdrawn"}
    <3>1. Applied' = pos - 1
      BY <1>4, <2>2, <2>4 DEF Applied
    <3> QED
      BY <1>1, <2>1, <2>3, <3>1
  <2>5. CASE logs[pos].kind \notin {"undelegated", "withdrawn"}
    <3>1. Applied' = pos
      BY <1>4, <2>2, <2>5 DEF Applied
    <3>2. Made(logs, pos) = Made(logs, pos - 1) /\ Closed(logs, pos) = Closed(logs, pos - 1)
      BY <1>1, <2>5, MadeTyped, NextLog
    <3> QED
      BY <1>1, <2>1, <2>3, <3>1, <3>2
  <2> QED
    BY <2>4, <2>5
<1> QED
  BY <1>1, <1>5 DEF HistoryInv

(* After a step comes one that writes no request. *)
LEMMA NotAtRequest ==
  ASSUME Work, todo # <<>>, NextStep \/ GoTo(<<>>)
  PROVE  ~At("open")' /\ ~At("close")' /\ pos' = pos
<1>1. pos' = pos /\ (todo' = Tail(todo) \/ todo' = <<>>)
  BY DEF NextStep, GoTo
<1>2. CASE todo' = <<>>
  BY <1>1, <1>2 DEF At, Idle
<1>3. CASE todo' # <<>>
  <2>1. todo' = <<todo[2]>> /\ (todo[2] = Do("balance", cur.dlg) \/ todo[2] = Do("store", cur.to))
    BY <1>1, <1>3, AtHand
  <2>2. Head(todo').op \in {"balance", "store"}
    BY <2>1 DEF Do
  <2> QED
    BY <1>1, <2>2 DEF At
<1> QED
  BY <1>2, <1>3

LEMMA RequestHistory ==
  ASSUME IType, HistoryInv, OpenRequest \/ CloseRequest
  PROVE  HistoryInv'
<1>1. /\ ~At("open")' /\ ~At("close")' /\ pos' = pos
      /\ UNCHANGED <<open, logs, again, failures>>
  BY StepMoves, NotAtRequest DEF IType, Steps, OpenRequest, CloseRequest, nodeVars
<1>2. Applied' = pos - 1 /\ InHand'
  BY <1>1 DEF Applied, InHand
<1>3. ASSUME again' = 0, failures' = 0
      PROVE  Requests(logs, wreq', Made(logs, pos - 1), Closed(logs, pos - 1))
  <2> DEFINE n == pos - 1
             M == Made(logs, n - 1)
             C == Closed(logs, n - 1)
  <2>1. /\ InHand /\ Requests(logs, wreq, Made(logs, Applied), Closed(logs, Applied))
    BY <1>1, <1>3 DEF HistoryInv
  <2>2. /\ At("open") \/ At("close")
        /\ pos > 1 /\ cur = logs[n] /\ cur.kind \in {"undelegated", "withdrawn"}
        /\ OpenRequest => cur.kind = "undelegated"
        /\ CloseRequest => cur.kind = "withdrawn"
    BY <2>1 DEF InHand, OpenRequest, CloseRequest
  <2>3. n \in 1 .. Len(logs) /\ n - 1 = pos - 2 /\ n <= Len(logs) /\ n - 1 <= Len(logs)
    BY <2>1, MadeTyped DEF InHand, OpenRequest, CloseRequest
  <2>4. Applied = n - 1 /\ cur = logs[n]
    BY <2>1, <2>3 DEF Applied, InHand, OpenRequest, CloseRequest
  <2>5. logs[n] \in Log /\ logs[n].req \in ReqId
    BY <2>2, <2>3, <2>4, MadeTyped DEF LogWell, InHand, OpenRequest, CloseRequest
  <2>6. Requests(logs, wreq, M, C)
    BY <2>1, <2>4
  <2>7. /\ cur.kind = "undelegated" => Made(logs, n) = M \union {n} /\ Closed(logs, n) = C
        /\ cur.kind = "withdrawn" =>
             Made(logs, n) = M /\ Closed(logs, n) = C \union {i \in M : Same(logs, i, n)}
        /\ n \notin M /\ C \subseteq M
    <3> HIDE DEF n
    <3> QED
      BY <2>3, <2>4, MadeTyped, NextLog
  <2>8. /\ M \subseteq Made(logs, Len(logs))
        /\ cur.kind = "undelegated" => n \in Made(logs, Len(logs))
    <3> HIDE DEF n
    <3> QED
      BY <2>3, <2>4, MadeTyped DEF Made
  <2>9. CASE OpenRequest
    <3>1. wreq' = AddWithdrawal(wreq, logs[n].dlg, logs[n].req, logs[n].trx) /\ cur.kind = "undelegated"
      BY <2>2, <2>4, <2>9 DEF OpenRequest
    <3>2. \A i \in M : Same(logs, i, n) => i \in C
      BY <2>3, <2>4, <3>1 DEF HistoryInv, Chain, Reopened
    <3> HIDE DEF n, M, C
    <3>3. Requests(logs, wreq', M \union {n}, C)
      BY <2>3, <2>5, <2>6, <2>7, <2>8, <3>1, <3>2, MadeTyped, OpenFits
    <3> QED
      BY <2>7, <3>1, <3>3 DEF n
  <2>10. CASE CloseRequest
    <3>1. wreq' = CloseWithdrawal(wreq, logs[n].dlg, logs[n].req, logs[n].trx) /\ cur.kind = "withdrawn"
      BY <2>2, <2>4, <2>10 DEF CloseRequest
    <3> HIDE DEF n, M, C
    <3>2. Requests(logs, wreq', M, C \union {i \in M : Same(logs, i, n)})
      BY <2>3, <2>5, <2>6, <2>7, <2>8, <3>1, MadeTyped, CloseFits
    <3> QED
      BY <2>7, <3>1, <3>2 DEF n
  <2> QED
    BY <2>9, <2>10
<1> QED
  BY <1>1, <1>2, <1>3 DEF HistoryInv

(* Steps that write no request, and those that end the time of first       *)
(* handling.                                                               *)
LEMMA OtherHistory ==
  ASSUME IType, HistoryInv,
         HandleOutOfTurn \/ Restart \/ StoreClaim \/ ReadStake \/ StoreDelegation \/ AdHocDelegation
         \/ BalanceSkipped \/ BalanceWritten \/ StepFails \/ Readers \/ UNCHANGED vars
  PROVE  HistoryInv'
<1> USE DEF nodeVars, dbVars, workVars
<1>1. Chain(logs, open)
  BY DEF HistoryInv
<1>2. CASE HandleOutOfTurn \/ Restart \/ StepFails
  <2>1. UNCHANGED <<logs, open>> /\ (again' = again + 1 \/ failures' = failures + 1)
    BY <1>2 DEF HandleOutOfTurn, Restart, StepFails
  <2>2. UNCHANGED <<logs, open>> /\ ~(again' = 0 /\ failures' = 0)
    <3>1. again' = again \/ again' = again + 1
      BY <1>2 DEF HandleOutOfTurn, Restart, StepFails
    <3>2. failures' = failures \/ failures' = failures + 1
      BY <1>2 DEF HandleOutOfTurn, Restart, StepFails
    <3> QED
      BY <2>1, <3>1, <3>2, MadeTyped
  <2> QED
    BY <1>1, <2>2 DEF HistoryInv
<1>3. CASE StoreClaim \/ StoreDelegation \/ AdHocDelegation \/ BalanceSkipped \/ BalanceWritten
  <2>1. /\ ~At("open")' /\ ~At("close")' /\ pos' = pos
        /\ UNCHANGED <<open, logs, wreq, again, failures>>
    <3>1. UNCHANGED <<open, logs, wreq, again, failures>>
      BY <1>3 DEF StoreClaim, StoreDelegation, AdHocDelegation, BalanceSkipped, BalanceWritten
    <3> QED
      BY <1>3, <3>1, StepMoves, NotAtRequest DEF IType, Steps
  <2>2. ~At("open") /\ ~At("close")
    BY <1>3 DEF StoreClaim, StoreDelegation, AdHocDelegation, BalanceSkipped, BalanceWritten, At
  <2>3. Applied' = Applied /\ InHand'
    BY <2>1, <2>2 DEF Applied, InHand
  <2> QED
    BY <1>1, <2>1, <2>3 DEF HistoryInv
<1>4. CASE ReadStake \/ Readers \/ UNCHANGED vars
  <2>1. UNCHANGED <<open, logs, wreq, pos, cur, todo, again, failures>>
    BY <1>4 DEF ReadStake, Readers, ReaderLoads, ReaderCaches, Evict, vars
  <2>2. Applied' = Applied /\ (InHand => InHand')
    BY <2>1 DEF Applied, InHand, At, Idle
  <2> QED
    BY <1>1, <2>1, <2>2 DEF HistoryInv
<1> QED
  BY <1>2, <1>3, <1>4

LEMMA NextHistory == IType /\ HistoryInv /\ [Next]_vars => HistoryInv'
BY ContractHistory, HandleHistory, RequestHistory, OtherHistory DEF Next, Handlers

(* As long as each log is handled once and no call fails, every withdraw   *)
(* request that is not made together with another one has its record,      *)
(* open under its ID or closed, for any number of logs and whatever IDs    *)
(* are used again (sfc_reward.go, withdrawal.go:90-130).                   *)
THEOREM RequestsAreRecorded == Spec => []RequestsFirstTime
<1>1. IType /\ HistoryInv => RequestsFirstTime
  <2> SUFFICES ASSUME IType, HistoryInv, WorkedOff, failures = 0, again = 0,
                      NEW i \in RequestLogs, Alone(i)
               PROVE  LET w == wreq[logs[i].trx]
                      IN  /\ w # None /\ w.trx = logs[i].trx
                          /\ OnChain(i) => w.fin = 0 /\ w.req = logs[i].req
                          /\ ~OnChain(i) => w.fin # 0
    BY DEF RequestsFirstTime, RequestsRecorded
  <2> DEFINE n == Len(logs)
  <2>1. Applied = n
    BY MadeTyped DEF WorkedOff, At, Applied
  <2>2. RequestLogs = Made(logs, n)
    BY MadeTyped DEF RequestLogs, Made
  <2> HIDE DEF n
  <2>3. AloneIn(logs, i) /\ i \in Made(logs, n)
    BY <2>2 DEF Alone, AloneIn, n
  <2>4. Tells(wreq[logs[i].trx], logs[i], i \in Closed(logs, n))
    BY <2>1, <2>3 DEF HistoryInv, Requests
  <2>5. i \notin Closed(logs, n) => OnChain(i)
    BY <2>3 DEF HistoryInv, Chain, Matches, OnChain, n
  <2>6. ASSUME i \in Closed(logs, n), OnChain(i) PROVE FALSE
    <3>1. /\ logs[i].dlg \in Delegation /\ logs[i].req \in ReqId /\ logs[i].trx # 0
      BY <2>3, MadeTyped DEF Made, Log, Trx, n
    <3>2. open[<<logs[i].dlg, logs[i].req>>] # 0
      BY <2>6, <3>1 DEF OnChain
    <3>3. PICK j \in Made(logs, n) \ Closed(logs, n) : logs[j].trx = logs[i].trx
      BY <2>6, <3>1, <3>2 DEF HistoryInv, Chain, Matches, OnChain, n
    <3>4. j = i
      BY <2>3, <3>3 DEF AloneIn, n
    <3> QED
      BY <2>6, <3>3, <3>4
  <2> QED
    BY <2>4, <2>5, <2>6 DEF Tells
<1>2. IInv => IType
  BY DEF IInv
<1> QED
  BY <1>1, <1>2, InitInv, NextInv, InitHistory, NextHistory, PTL DEF Spec

=============================================================================
