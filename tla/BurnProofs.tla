------------------------------ MODULE BurnProofs ------------------------------
(***************************************************************************)
(* Proofs about Burn, for every value of its constants.                    *)
(***************************************************************************)
EXTENDS Burn, SequenceTheorems, WellFoundedInduction, TLAPS

-----------------------------------------------------------------------------
(* Sums.  The recursive function of SumOver exists, and what it computes   *)
(* is shown by induction, in the form of a set that holds 0 and with each  *)
(* number the next one; that this is all numbers comes from the order of   *)
(* the natural numbers being well founded.                                 *)

LEMMA LeastNat ==
  ASSUME NEW T, T \subseteq Nat, T # {}
  PROVE  \E x \in T : \A y \in T : x <= y
<1> DEFINE R == {ss \in Nat \X Nat : ss[1] < ss[2]}
<1>1. IsWellFoundedOn(R, Nat)
  BY NatLessThanWellFounded DEF OpToRel
<1>2. \A x, y \in Nat : x < y => <<x, y>> \in R
  OBVIOUS
<1> HIDE DEF R
<1>3. PICK x \in T : \A y \in T : ~(<<y, x>> \in R)
  BY <1>1, WFMin
<1>4. \A y \in T : ~(y < x) /\ y \in Nat /\ x \in Nat
  BY <1>2, <1>3
<1>5. \A y \in T : x <= y
  BY <1>4
<1> QED
  BY <1>3, <1>5

LEMMA UpToInduction ==
  ASSUME NEW n \in Nat, NEW T, 0 \in T, \A i \in 0 .. n - 1 : i \in T => i + 1 \in T
  PROVE  \A i \in 0 .. n : i \in T
<1> DEFINE U == {i \in 0 .. n : i \notin T}
<1> SUFFICES ASSUME U # {} PROVE FALSE
  OBVIOUS
<1>1. U \subseteq Nat
  OBVIOUS
<1>2. PICK x \in U : \A y \in U : x <= y
  BY <1>1, LeastNat
<1>3. x # 0 /\ x - 1 \in 0 .. n - 1 /\ x - 1 + 1 = x
  BY <1>2
<1>4. x - 1 \in T
  BY <1>2, <1>3
<1> QED
  BY <1>2, <1>3, <1>4

(* One step of a sum: g adds up a. *)
AddsUp(g, a, n) == g[0] = 0 /\ \A b \in 1 .. n : g[b] = g[b - 1] + a[b]

LEMMA SumExists ==
  ASSUME NEW a \in [Block -> Nat]
  PROVE  \E g \in [0 .. MaxBlock -> Nat] : AddsUp(g, a, MaxBlock)
<1> DEFINE T == {i \in 0 .. MaxBlock : \E g \in [0 .. i -> Nat] : AddsUp(g, a, i)}
<1>1. MaxBlock \in Nat /\ Block = 1 .. MaxBlock
  BY BurnAssumption DEF Block
<1>2. 0 \in T
  <2> DEFINE g == [j \in 0 .. 0 |-> 0]
  <2>1. g \in [0 .. 0 -> Nat] /\ AddsUp(g, a, 0)
    BY DEF AddsUp
  <2> QED
    BY <1>1, <2>1
<1>3. ASSUME NEW i \in 0 .. MaxBlock - 1, i \in T PROVE i + 1 \in T
  <2>1. PICK g \in [0 .. i -> Nat] : AddsUp(g, a, i)
    BY <1>3
  <2> DEFINE h == [j \in 0 .. i + 1 |-> IF j = i + 1 THEN g[i] + a[i + 1] ELSE g[j]]
  <2>2. i \in Nat /\ i + 1 \in Block /\ a[i + 1] \in Nat /\ g[i] \in Nat
    BY <1>1
  <2>3. h \in [0 .. i + 1 -> Nat]
    BY <2>2
  <2>4. h[0] = 0
    BY <2>1, <2>2 DEF AddsUp
  <2>5. ASSUME NEW b \in 1 .. i + 1 PROVE h[b] = h[b - 1] + a[b]
    <3>1. CASE b = i + 1
      BY <2>2, <3>1
    <3>2. CASE b # i + 1
      <4>1. b \in 1 .. i /\ b \in 0 .. i + 1 /\ b - 1 \in 0 .. i + 1 /\ b - 1 # i + 1
        BY <2>2, <3>2
      <4> QED
        BY <2>1, <3>2, <4>1 DEF AddsUp
    <3> QED
      BY <3>1, <3>2
  <2> HIDE DEF h
  <2>6. AddsUp(h, a, i + 1)
    BY <2>4, <2>5 DEF AddsUp
  <2> QED
    BY <1>1, <2>3, <2>6
<1> HIDE DEF T
<1>4. \A i \in 0 .. MaxBlock : i \in T
  BY <1>1, <1>2, <1>3, UpToInduction
<1>5. MaxBlock \in T
  BY <1>1, <1>4
<1> QED
  BY <1>5 DEF T

(* The function SumOver is taken of adds up a, and so its values are       *)
(* natural numbers.                                                        *)
LEMMA SumDefined ==
  ASSUME NEW a \in [Block -> Nat]
  PROVE  \E g \in [0 .. MaxBlock -> Nat] : AddsUp(g, a, MaxBlock) /\ SumOver(a) = g[MaxBlock]
<1> DEFINE F(g) == [b \in 0 .. MaxBlock |-> IF b = 0 THEN 0 ELSE g[b - 1] + a[b]]
           f == CHOOSE g : g = F(g)
<1>1. MaxBlock \in Nat /\ Block = 1 .. MaxBlock
  BY BurnAssumption DEF Block
<1>2. \E g : g = F(g)
  <2>1. PICK g \in [0 .. MaxBlock -> Nat] : AddsUp(g, a, MaxBlock)
    BY SumExists
  <2>2. \A b \in 0 .. MaxBlock : g[b] = F(g)[b]
    BY <1>1, <2>1 DEF AddsUp
  <2>3. g = F(g)
    BY <2>2
  <2> QED
    BY <2>3
<1>3. f = F(f)
  BY <1>2, Zenon
<1>4. SumOver(a) = f[MaxBlock]
  BY DEF SumOver
<1> HIDE DEF f
<1>5. DOMAIN f = 0 .. MaxBlock /\ f = [b \in 0 .. MaxBlock |-> f[b]]
  BY <1>3
<1>6. AddsUp(f, a, MaxBlock)
  BY <1>1, <1>3 DEF AddsUp
<1>7. \A b \in 0 .. MaxBlock : f[b] \in Nat
  <2> DEFINE T == {b \in 0 .. MaxBlock : f[b] \in Nat}
  <2>1. 0 \in T
    BY <1>1, <1>6 DEF AddsUp
  <2>2. ASSUME NEW i \in 0 .. MaxBlock - 1, i \in T PROVE i + 1 \in T
    <3>1. i + 1 \in 1 .. MaxBlock /\ i + 1 - 1 = i /\ i + 1 \in 0 .. MaxBlock
      BY <1>1
    <3>2. f[i + 1] = f[i] + a[i + 1] /\ f[i] \in Nat /\ a[i + 1] \in Nat
      BY <1>1, <1>6, <2>2, <3>1 DEF AddsUp
    <3> QED
      BY <3>1, <3>2
  <2> HIDE DEF T
  <2>3. \A i \in 0 .. MaxBlock : i \in T
    BY <1>1, <2>1, <2>2, UpToInduction
  <2> QED
    BY <2>3 DEF T
<1>8. f \in [0 .. MaxBlock -> Nat]
  BY <1>5, <1>7
<1> QED
  BY <1>4, <1>6, <1>8

(* A record that is added raises the total by its size. *)
LEMMA SumGrows ==
  ASSUME NEW a \in [Block -> Nat], NEW k \in Block, NEW n \in Nat, a[k] = 0
  PROVE  SumOver([a EXCEPT ![k] = n]) = SumOver(a) + n
<1> DEFINE c == [a EXCEPT ![k] = n]
<1>1. MaxBlock \in Nat /\ Block = 1 .. MaxBlock
  BY BurnAssumption DEF Block
<1>2. c \in [Block -> Nat] /\ c[k] = n /\ \A b \in Block : b # k => c[b] = a[b]
  OBVIOUS
<1> HIDE DEF c
<1>3. PICK g \in [0 .. MaxBlock -> Nat] : AddsUp(g, a, MaxBlock) /\ SumOver(a) = g[MaxBlock]
  BY SumDefined
<1>4. PICK h \in [0 .. MaxBlock -> Nat] : AddsUp(h, c, MaxBlock) /\ SumOver(c) = h[MaxBlock]
  BY <1>2, SumDefined
<1> DEFINE T == {b \in 0 .. MaxBlock : h[b] = g[b] + (IF b < k THEN 0 ELSE n)}
<1>5. 0 \in T
  BY <1>1, <1>3, <1>4 DEF AddsUp
<1>6. ASSUME NEW i \in 0 .. MaxBlock - 1, i \in T PROVE i + 1 \in T
  <2>1. i + 1 \in Block /\ i + 1 - 1 = i /\ i + 1 \in 0 .. MaxBlock /\ i \in 0 .. MaxBlock
    BY <1>1
  <2>2. g[i + 1] = g[i] + a[i + 1] /\ h[i + 1] = h[i] + c[i + 1]
    <3>1. i + 1 \in 1 .. MaxBlock
      BY <1>1, <2>1
    <3> QED
      BY <1>3, <1>4, <2>1, <3>1 DEF AddsUp
  <2>3. g[i] \in Nat /\ h[i] \in Nat /\ a[i + 1] \in Nat /\ c[i + 1] \in Nat
    BY <1>2, <2>1
  <2>4. i \in Int /\ k \in Int /\ h[i] = g[i] + (IF i < k THEN 0 ELSE n)
    BY <1>1, <1>6
  <2>5. CASE i + 1 = k
    <3>1. i < k /\ a[i + 1] = 0 /\ c[i + 1] = n
      BY <1>2, <2>4, <2>5
    <3> QED
      BY <2>1, <2>2, <2>3, <2>4, <2>5, <3>1
  <2>6. CASE i + 1 # k
    <3>1. c[i + 1] = a[i + 1]
      BY <1>2, <2>1, <2>6
    <3>2. i < k <=> i + 1 < k
      BY <2>4, <2>6
    <3>3. h[i + 1] = g[i + 1] + (IF i + 1 < k THEN 0 ELSE n)
      BY <2>2, <2>3, <2>4, <3>1, <3>2
    <3> QED
      BY <2>1, <3>3
  <2> QED
    BY <2>5, <2>6
<1> HIDE DEF T
<1>7. \A i \in 0 .. MaxBlock : i \in T
  BY <1>1, <1>5, <1>6, UpToInduction
<1>8. MaxBlock \in T /\ k <= MaxBlock
  BY <1>1, <1>7
<1>9. h[MaxBlock] = g[MaxBlock] + n
  BY <1>1, <1>8 DEF T
<1> QED
  BY <1>3, <1>4, <1>9 DEF c

(* The total of the database. *)
LEMMA TotalOfRecords ==
  ASSUME burns \in [Block -> Seq(Trx) \union {None}]
  PROVE  Amount \in [Block -> Nat] /\ Total \in Nat
<1>1. Amount \in [Block -> Nat]
  BY DEF Amount
<1>2. MaxBlock \in 0 .. MaxBlock
  BY BurnAssumption
<1>3. SumOver(Amount) \in Nat
  BY <1>1, <1>2, SumDefined
<1> QED
  BY <1>1, <1>3 DEF Total

-----------------------------------------------------------------------------
(* The channel. *)

(* The blocks with a transaction in the channel. *)
Blocks(s) == {s[i][1] : i \in DOMAIN s}

LEMMA BlocksReceive ==
  ASSUME NEW s \in Seq(Block \X Trx), s # <<>>
  PROVE  /\ Head(s) \in Block \X Trx /\ Tail(s) \in Seq(Block \X Trx)
         /\ Blocks(s) = Blocks(Tail(s)) \union {Head(s)[1]}
<1>1. /\ Head(s) \in Block \X Trx /\ Tail(s) \in Seq(Block \X Trx)
      /\ DOMAIN s = 1 .. Len(s) /\ DOMAIN Tail(s) = 1 .. Len(s) - 1
      /\ \A i \in 1 .. Len(s) - 1 : Tail(s)[i] = s[i + 1]
      /\ Head(s) = s[1] /\ Len(s) \in Nat /\ Len(s) >= 1
  OBVIOUS
<1>2. ASSUME NEW i \in 1 .. Len(s) PROVE s[i][1] \in Blocks(Tail(s)) \union {Head(s)[1]}
  <2>1. CASE i = 1
    BY <1>1, <2>1
  <2>2. CASE i # 1
    <3>1. i - 1 \in 1 .. Len(s) - 1 /\ Tail(s)[i - 1] = s[i]
      BY <1>1, <2>2
    <3> QED
      BY <1>1, <3>1 DEF Blocks
  <2> QED
    BY <2>1, <2>2
<1>3. ASSUME NEW i \in 1 .. Len(s) - 1 PROVE Tail(s)[i][1] \in Blocks(s)
  <2>1. i + 1 \in 1 .. Len(s) /\ Tail(s)[i] = s[i + 1]
    BY <1>1
  <2> QED
    BY <1>1, <2>1 DEF Blocks
<1>4. Head(s)[1] \in Blocks(s)
  BY <1>1 DEF Blocks
<1> QED
  BY <1>1, <1>2, <1>3, <1>4 DEF Blocks

LEMMA BlocksSend ==
  ASSUME NEW s \in Seq(Block \X Trx), NEW b \in Block, NEW loaded \in Seq(Trx)
  PROVE  LET q == s \o [i \in 1 .. Len(loaded) |-> <<b, loaded[i]>>]
         IN  /\ q \in Seq(Block \X Trx)
             /\ Blocks(s) \subseteq Blocks(q)
             /\ loaded # <<>> => b \in Blocks(q)
<1> DEFINE r == [i \in 1 .. Len(loaded) |-> <<b, loaded[i]>>]
           q == s \o r
<1>1. Len(loaded) \in Nat /\ \A i \in 1 .. Len(loaded) : loaded[i] \in Trx
  OBVIOUS
<1>2. r \in Seq(Block \X Trx) /\ Len(r) = Len(loaded)
  <2>1. r \in [1 .. Len(loaded) -> Block \X Trx]
    BY <1>1
  <2>2. r \in Seq(Block \X Trx)
    BY <1>1, <2>1
  <2>3. DOMAIN r = 1 .. Len(r) /\ DOMAIN r = 1 .. Len(loaded) /\ Len(r) \in Nat
    BY <2>2
  <2> QED
    BY <1>1, <2>2, <2>3
<1>3. loaded # <<>> => Len(loaded) >= 1 /\ r[1][1] = b
  <2>1. loaded # <<>> => 1 \in 1 .. Len(loaded)
    BY <1>1
  <2>2. 1 \in 1 .. Len(loaded) => r[1] = <<b, loaded[1]>>
    OBVIOUS
  <2>3. <<b, loaded[1]>>[1] = b
    OBVIOUS
  <2> HIDE DEF r
  <2> QED
    BY <1>1, <2>1, <2>2, <2>3
<1> HIDE DEF r
<1>4. /\ q \in Seq(Block \X Trx) /\ Len(q) = Len(s) + Len(r) /\ Len(s) \in Nat /\ Len(r) \in Nat
      /\ DOMAIN q = 1 .. Len(q) /\ DOMAIN s = 1 .. Len(s)
      /\ \A i \in 1 .. Len(s) : q[i] = s[i]
      /\ Len(r) >= 1 => q[Len(s) + 1] = r[1]
  <2>1. Len(s) \in Nat /\ Len(r) \in Nat /\ DOMAIN s = 1 .. Len(s)
    BY <1>2
  <2>2. /\ q \in Seq(Block \X Trx) /\ Len(q) = Len(s) + Len(r)
        /\ \A i \in 1 .. Len(s) + Len(r) : q[i] = IF i <= Len(s) THEN s[i] ELSE r[i - Len(s)]
    BY <1>2, ConcatProperties
  <2> HIDE DEF q
  <2>3. DOMAIN q = 1 .. Len(q)
    BY <2>2
  <2>4. \A i \in 1 .. Len(s) : q[i] = s[i]
    BY <2>1, <2>2
  <2>5. Len(r) >= 1 => q[Len(s) + 1] = r[1]
    BY <2>1, <2>2
  <2> QED
    BY <2>1, <2>2, <2>3, <2>4, <2>5
<1> HIDE DEF q
<1>5. \A i \in 1 .. Len(s) : i \in DOMAIN q
  BY <1>4
<1>6. Blocks(s) \subseteq Blocks(q)
  BY <1>4, <1>5 DEF Blocks
<1>7. loaded # <<>> => b \in Blocks(q)
  <2>1. loaded # <<>> => Len(s) + 1 \in DOMAIN q /\ q[Len(s) + 1][1] = b
    BY <1>2, <1>3, <1>4
  <2> QED
    BY <2>1 DEF Blocks
<1> QED
  BY <1>4, <1>6, <1>7 DEF q, r

LEMMA Bodies ==
  ASSUME NEW b \in Block
  PROVE  /\ Body[b] \in Seq(Trx)
         /\ \A i \in DOMAIN Body[b] : RemoveAt(Body[b], i) \in Seq(Trx)
<1>1. Body[b] \in Seq(Trx)
  BY BurnAssumption
<1>2. ASSUME NEW s \in Seq(Trx), NEW i \in DOMAIN s PROVE RemoveAt(s, i) \in Seq(Trx)
  <2>1. i \in 1 .. Len(s) /\ Len(s) \in Nat
    OBVIOUS
  <2>2. SubSeq(s, 1, i - 1) \in Seq(Trx) /\ SubSeq(s, i + 1, Len(s)) \in Seq(Trx)
    BY <2>1
  <2> QED
    BY <2>2 DEF RemoveAt
<1> QED
  BY <1>1, <1>2

-----------------------------------------------------------------------------
(* The inductive invariant: a block that came is recorded, in work, or on  *)
(* its way, or comes again, unless the database refused it.                *)
BType ==
  /\ burns \in [Block -> Seq(Trx) \union {None}]
  /\ inTransaction \in Seq(Block \X Trx)
  /\ current \in Sum \union {None}
  /\ step \in {"idle", "store"}
  /\ step = "store" => current # None /\ inTransaction # <<>>
  /\ owed \subseteq Block /\ awaited \subseteq owed

InWork(b) == current # None /\ current.block = b
Carried ==
  \A b \in owed :
    burns[b] # None \/ InWork(b) \/ b \in Blocks(inTransaction) \/ b \in awaited

IInv == BType /\ Carried

LEMMA InitInv == Init => IInv
BY DEF Init, IInv, BType, Carried

(* The transaction at the head, as the sum it begins. *)
LEMMA EvtType ==
  ASSUME BType, inTransaction # <<>>
  PROVE  /\ Evt \in Sum /\ Evt # None /\ Evt.block = Head(inTransaction)[1]
         /\ Tail(inTransaction) \in Seq(Block \X Trx)
         /\ Blocks(inTransaction) = Blocks(Tail(inTransaction)) \union {Evt.block}
<1>1. /\ Head(inTransaction) \in Block \X Trx /\ Tail(inTransaction) \in Seq(Block \X Trx)
      /\ Blocks(inTransaction) = Blocks(Tail(inTransaction)) \union {Head(inTransaction)[1]}
  BY BlocksReceive DEF BType
<1>2. Evt = [block |-> Head(inTransaction)[1], txs |-> <<Head(inTransaction)[2]>>]
  BY DEF Evt
<1>3. Head(inTransaction)[1] \in Block /\ Head(inTransaction)[2] \in Trx
  BY <1>1
<1>4. <<Head(inTransaction)[2]>> \in Seq(Trx)
  BY <1>3
<1>5. Evt \in Sum /\ Evt.block = Head(inTransaction)[1]
  BY <1>2, <1>3, <1>4 DEF Sum
<1> QED
  BY <1>1, <1>5, NoneAssumption

LEMMA ArriveNext ==
  ASSUME IInv, NEW b \in Block, NEW loaded \in Seq(Trx), Arrive(b, loaded),
         UNCHANGED <<burns, current, step>>
  PROVE  IInv'
<1>1. inTransaction' = inTransaction \o [i \in 1 .. Len(loaded) |-> <<b, loaded[i]>>]
      /\ awaited' = awaited \ {b}
      /\ \/ loaded = <<>> /\ owed' = owed \ ({b} \intersect awaited)
         \/ loaded # <<>> /\ owed' = owed \union {b}
  BY DEF Arrive
<1>2. /\ inTransaction' \in Seq(Block \X Trx) /\ Blocks(inTransaction) \subseteq Blocks(inTransaction')
      /\ loaded # <<>> => b \in Blocks(inTransaction')
  BY <1>1, BlocksSend DEF IInv, BType
<1>3. inTransaction # <<>> => inTransaction' # <<>>
  <2>1. inTransaction # <<>> => 1 \in DOMAIN inTransaction
    BY DEF IInv, BType
  <2>2. inTransaction # <<>> => Blocks(inTransaction) # {}
    BY <2>1 DEF Blocks
  <2>3. Blocks(<<>>) = {}
    BY DEF Blocks
  <2> QED
    BY <1>2, <2>2, <2>3
<1>4. owed' \subseteq Block /\ awaited' \subseteq owed'
  BY <1>1 DEF IInv, BType
<1>5. ASSUME NEW d \in owed'
      PROVE  burns[d] # None \/ InWork(d) \/ d \in Blocks(inTransaction') \/ d \in awaited'
  <2>1. CASE d = b /\ loaded # <<>>
    BY <1>2, <2>1
  <2>2. CASE d # b \/ loaded = <<>>
    <3>1. d \in owed /\ (d \in awaited => d \in awaited')
      BY <1>1, <2>2
    <3> QED
      BY <1>2, <3>1 DEF IInv, Carried
  <2> QED
    BY <2>1, <2>2
<1>6. Carried'
  BY <1>5 DEF Carried, InWork
<1> QED
  BY <1>2, <1>3, <1>4, <1>6 DEF IInv, BType

LEMMA LoadsNext ==
  ASSUME IInv, NEW b \in Block, Loads(b), UNCHANGED <<burns, current, step>>
  PROVE  IInv'
<1>1. CASE Arrive(b, Body[b])
  BY <1>1, Bodies, ArriveNext
<1>2. CASE \E i \in DOMAIN Body[b] : Arrive(b, RemoveAt(Body[b], i))
  BY <1>2, Bodies, ArriveNext
<1> QED
  BY <1>1, <1>2 DEF Loads

(* The record of the sum in work is written or refused; the head of the    *)
(* channel begins the next sum.                                            *)
LEMMA StoreNext ==
  ASSUME IInv, StoreBurn \/ StoreFails
  PROVE  IInv'
<1> USE DEF seenVars, owedVars, boundVars
<1> DEFINE c == current.block
<1>1. /\ step = "store" /\ current \in Sum /\ c \in Block /\ current.txs \in Seq(Trx)
      /\ inTransaction # <<>>
  BY DEF StoreBurn, StoreFails, IInv, BType, Sum
<1>2. /\ step' = "idle" /\ current' = Evt /\ inTransaction' = Tail(inTransaction)
  BY DEF StoreBurn, StoreFails, NextSum
<1>3. /\ Evt \in Sum /\ Evt # None /\ Tail(inTransaction) \in Seq(Block \X Trx)
      /\ Blocks(inTransaction) = Blocks(inTransaction') \union {Evt.block}
  BY <1>1, <1>2, EvtType DEF IInv
<1>4. /\ burns' \in [Block -> Seq(Trx) \union {None}] /\ owed' \subseteq owed
      /\ awaited' \subseteq owed' /\ \A b \in owed' \ {c} : b \in awaited => b \in awaited'
      /\ \A b \in Block : burns[b] # None => burns'[b] # None
      /\ c \in owed' => burns'[c] # None
  <2>1. burns \in [Block -> Seq(Trx) \union {None}] /\ None \notin Seq(Trx)
    BY BurnAssumption DEF IInv, BType
  <2>2. CASE StoreBurn
    <3>1. burns' = [burns EXCEPT ![c] = IF burns[c] = None THEN current.txs ELSE burns[c]]
          /\ owed' = owed /\ awaited' = awaited /\ awaited \subseteq owed
      BY <2>2 DEF StoreBurn, IInv, BType
    <3> HIDE DEF c
    <3> QED
      BY <1>1, <2>1, <3>1
  <2>3. CASE StoreFails
    <3>1. /\ burns' = burns /\ owed' = owed \ {c} /\ awaited' = awaited \ {c}
          /\ awaited \subseteq owed
      BY <2>3 DEF StoreFails, IInv, BType
    <3> HIDE DEF c
    <3> QED
      BY <2>1, <3>1
  <2> QED
    BY <2>2, <2>3
<1>5. BType'
  BY <1>2, <1>3, <1>4 DEF IInv, BType
<1>6. ASSUME NEW b \in owed'
      PROVE  burns'[b] # None \/ InWork(b)' \/ b \in Blocks(inTransaction') \/ b \in awaited'
  <2>1. b \in owed /\ b \in Block
    BY <1>4 DEF IInv, BType
  <2>2. burns[b] # None \/ b = c \/ b \in Blocks(inTransaction) \/ b \in awaited
    BY <2>1 DEF IInv, Carried, InWork
  <2>3. b = Evt.block => InWork(b)'
    BY <1>2, <1>3 DEF InWork
  <2> HIDE DEF c
  <2> QED
    BY <1>3, <1>4, <2>1, <2>2, <2>3
<1> QED
  BY <1>5, <1>6 DEF IInv, Carried, InWork

LEMMA NextInv == IInv /\ [Next]_vars => IInv'
<1> SUFFICES ASSUME IInv, [Next]_vars PROVE IInv'
  OBVIOUS
<1> USE DEF burnVars, seenVars, owedVars, boundVars
<1>1. CASE InTurn \/ OutOfTurn
  BY <1>1, LoadsNext DEF InTurn, OutOfTurn
<1>2. CASE First
  <2>1. /\ current = None /\ inTransaction # <<>> /\ step = "idle"
        /\ current' = Evt /\ inTransaction' = Tail(inTransaction)
        /\ UNCHANGED <<burns, step, owedVars>>
    BY <1>2 DEF First, Arrived
  <2> QED
    BY <2>1, EvtType DEF IInv, BType, Carried, InWork
<1>3. CASE Joins
  <2>1. /\ current # None /\ current.block = Evt.block /\ inTransaction # <<>> /\ step = "idle"
        /\ current' = [current EXCEPT !.txs = current.txs \o Evt.txs]
        /\ inTransaction' = Tail(inTransaction)
        /\ UNCHANGED <<burns, step, owedVars>>
    BY <1>3 DEF Joins, Arrived, Other
  <2>2. Evt \in Sum /\ current \in Sum
    BY <2>1, EvtType DEF IInv, BType
  <2>3. current.txs \o Evt.txs \in Seq(Trx)
    BY <2>2 DEF Sum
  <2>4. current' \in Sum /\ current'.block = current.block
    BY <2>1, <2>2, <2>3 DEF Sum
  <2>5. current' # None
    BY <2>4, NoneAssumption
  <2> QED
    BY <2>1, <2>4, <2>5, EvtType DEF IInv, BType, Carried, InWork
<1>4. CASE Count \/ LoadAndCount \/ NothingToLoad \/ LoadFails
  <2>1. /\ current # None /\ inTransaction # <<>> /\ step' = "store"
        /\ UNCHANGED <<burns, current, inTransaction, owedVars>>
    BY <1>4 DEF Count, LoadAndCount, NothingToLoad, LoadFails, Complete, Arrived
  <2> QED
    BY <2>1 DEF IInv, BType, Carried, InWork
<1>5. CASE Crash
  <2>1. /\ UNCHANGED burns /\ inTransaction' = <<>> /\ current' = None /\ step' = "idle"
        /\ owed' = {b \in owed : burns[b] # None \/ b >= next'}
        /\ awaited' = {b \in owed' : b >= next'}
    BY <1>5 DEF Crash
  <2> QED
    BY <2>1 DEF IInv, BType, Carried
<1>6. CASE UNCHANGED vars
  BY <1>6 DEF vars, IInv, BType, Carried, InWork
<1> QED
  BY <1>1, <1>2, <1>3, <1>4, <1>5, <1>6, StoreNext DEF Next, Process

-----------------------------------------------------------------------------
(* Type correctness. *)

Container == [block : 0 .. MaxBlock, value : Nat, nextLoad : Nat]
Reloads(c) == c.nextLoad \in c.block + 1 .. c.block + Period

ContainerType ==
  /\ container \in Container \union {None}
  /\ container # None => Reloads(container)

SeenType ==
  /\ next \in 1 .. MaxBlock + 1 /\ last \in 0 .. MaxBlock /\ highest \in 0 .. MaxBlock
  /\ ordered \in BOOLEAN /\ off \in BOOLEAN
  /\ partial \subseteq Block /\ repeated \subseteq Block
  /\ again \in 0 .. MaxAgain /\ failures \in 0 .. MaxFailures /\ crashes \in 0 .. MaxCrashes

LEMMA TypeParts == TypeOK <=> BType /\ ContainerType /\ SeenType
BY DEF TypeOK, BType, ContainerType, SeenType, Container, Reloads

LEMMA BlockDef == MaxBlock \in Nat /\ Period \in Nat /\ Period >= 1 /\ \A b : b \in Block <=> b \in Nat /\ b >= 1 /\ b <= MaxBlock
BY BurnAssumption DEF Block

LEMMA InitTypes == Init => ContainerType /\ SeenType
<1>1. /\ 1 \in 1 .. MaxBlock + 1 /\ 0 \in 0 .. MaxBlock
      /\ 0 \in 0 .. MaxAgain /\ 0 \in 0 .. MaxFailures /\ 0 \in 0 .. MaxCrashes
  BY BurnAssumption
<1> QED
  BY <1>1 DEF Init, ContainerType, SeenType

(* Counting a block keeps the total ahead of its reload. *)
LEMMA CountedType ==
  ASSUME NEW c, c \in [block : 0 .. MaxBlock, value : Nat, nextLoad : Nat],
         current \in Sum, current.block <= c.block \/ current.block < c.nextLoad, Reloads(c)
  PROVE  Counted(c) \in Container /\ Reloads(Counted(c))
<1>1. /\ current.block \in Nat /\ current.block <= MaxBlock /\ current.txs \in Seq(Trx)
      /\ Len(current.txs) \in Nat
  BY BlockDef DEF Sum
<1>2. c.block \in Nat /\ c.value \in Nat /\ c.nextLoad \in Nat /\ Period \in Nat
      /\ c.block + 1 <= c.nextLoad /\ c.nextLoad <= c.block + Period
  BY BlockDef DEF Reloads
<1>3. CASE current.block <= c.block
  BY <1>3 DEF Counted, Container
<1>4. CASE ~(current.block <= c.block)
  <2>1. Counted(c) = [c EXCEPT !.block = current.block, !.value = c.value + Len(current.txs)]
    BY <1>4 DEF Counted
  <2>2. c.value + Len(current.txs) \in Nat /\ current.block \in 0 .. MaxBlock
    BY <1>1, <1>2, BlockDef
  <2>3. Counted(c) \in Container
    BY <2>1, <2>2 DEF Container
  <2>4. Counted(c).block = current.block /\ Counted(c).nextLoad = c.nextLoad
    BY <2>1
  <2>5. c.nextLoad \in current.block + 1 .. current.block + Period
    BY <1>1, <1>2, <1>4
  <2> QED
    BY <2>3, <2>4, <2>5 DEF Reloads
<1> QED
  BY <1>3, <1>4

LEMMA LoadedType ==
  ASSUME BType, current \in Sum
  PROVE  /\ Loaded(current.block) \in Container /\ Reloads(Counted(Loaded(current.block)))
         /\ Counted(Loaded(current.block)) \in Container
         /\ Counted(Loaded(current.block)).value = Total + Len(current.txs)
         /\ Counted(Loaded(current.block)).block = current.block
<1> DEFINE b == current.block
           l == Loaded(b)
<1>1. /\ b \in Nat /\ b >= 1 /\ b <= MaxBlock /\ MaxBlock \in Nat /\ Period \in Nat /\ Period >= 1
      /\ Len(current.txs) \in Nat
  BY BlockDef DEF Sum
<1>2. Total \in Nat
  BY TotalOfRecords DEF BType
<1>3. l = [block |-> b - 1, value |-> Total, nextLoad |-> b + Period]
  BY DEF Loaded
<1> HIDE DEF l, b
<1>4. l.block = b - 1 /\ l.value = Total /\ l.nextLoad = b + Period
  BY <1>3
<1>5. l \in Container
  BY <1>1, <1>2, <1>3 DEF Container
<1>6. ~(b <= l.block)
  BY <1>1, <1>4
<1>7. Counted(l) = [l EXCEPT !.block = b, !.value = Total + Len(current.txs)]
  BY <1>4, <1>6 DEF Counted, b
<1>8. Counted(l).block = b /\ Counted(l).value = Total + Len(current.txs) /\ Counted(l).nextLoad = b + Period
  BY <1>3, <1>7
<1>9. Counted(l) \in Container /\ Reloads(Counted(l))
  <2>1. Total + Len(current.txs) \in Nat /\ b \in 0 .. MaxBlock
    BY <1>1, <1>2
  <2>2. Counted(l) \in Container
    BY <1>5, <1>7, <2>1 DEF Container
  <2>3. b + Period \in b + 1 .. b + Period
    BY <1>1
  <2> QED
    BY <1>8, <2>2, <2>3 DEF Reloads
<1> QED
  BY <1>5, <1>8, <1>9 DEF l, b

LEMMA StepContainerType ==
  ASSUME BType, ContainerType, [Next]_vars
  PROVE  ContainerType'
<1>1. CASE Count
  <2>1. container # None /\ current \in Sum /\ current.block < container.nextLoad
        /\ container' = Counted(container)
    BY <1>1 DEF Count, Complete, Fresh, BType
  <2>2. container \in Container /\ Reloads(container)
    BY <2>1 DEF ContainerType
  <2>3. Counted(container) \in Container /\ Reloads(Counted(container))
    BY <2>1, <2>2, CountedType DEF Container
  <2> QED
    BY <2>1, <2>3 DEF ContainerType, Reloads
<1>2. CASE LoadAndCount
  <2>1. current \in Sum /\ container' = Counted(Loaded(current.block))
    BY <1>2 DEF LoadAndCount, Complete, BType
  <2> QED
    BY <2>1, LoadedType DEF ContainerType, Reloads
<1>3. CASE Crash
  BY <1>3 DEF Crash, ContainerType
<1>4. CASE UNCHANGED container
  BY <1>4 DEF ContainerType, Reloads
<1>5. Count \/ LoadAndCount \/ Crash \/ UNCHANGED container
  BY Zenon DEF Next, InTurn, OutOfTurn, Process, First, Joins, NothingToLoad, LoadFails, StoreBurn,
     StoreFails, vars
<1> QED
  BY <1>1, <1>2, <1>3, <1>4, <1>5

LEMMA LoadsType ==
  ASSUME SeenType, NEW b \in Block, Loads(b)
  PROVE  /\ last' \in 0 .. MaxBlock /\ highest' \in 0 .. MaxBlock /\ ordered' \in BOOLEAN
         /\ partial' \subseteq Block /\ repeated' \subseteq Block /\ failures' \in 0 .. MaxFailures
<1>1. b \in 0 .. MaxBlock /\ highest \in Int
  BY BlockDef DEF SeenType
<1>2. PICK loaded : Arrive(b, loaded)
  BY DEF Loads
<1>3. /\ last' \in {last, b} /\ highest' \in {highest, b}
      /\ ordered' = ordered \/ ordered' = (ordered /\ b > highest)
      /\ repeated' \subseteq repeated \union {b}
  BY <1>2 DEF Arrive
<1>4. partial' \subseteq partial \union {b}
  BY DEF Loads
<1>5. failures' \in 0 .. MaxFailures
  BY BurnAssumption DEF Loads, Fails, SeenType
<1>6. ordered' \in BOOLEAN
  BY <1>3 DEF SeenType
<1> QED
  BY <1>1, <1>3, <1>4, <1>5, <1>6 DEF SeenType

LEMMA StepSeenType ==
  ASSUME SeenType, [Next]_vars
  PROVE  SeenType'
<1> USE DEF boundVars, seenVars
<1>1. CASE InTurn
  <2>1. next \in Block /\ next' \in 1 .. MaxBlock + 1
    BY <1>1, BlockDef DEF InTurn
  <2> QED
    BY <1>1, <2>1, LoadsType DEF InTurn, SeenType
<1>2. CASE OutOfTurn
  <2>1. PICK b \in Block : Loads(b)
    BY <1>2 DEF OutOfTurn
  <2>2. again' \in 0 .. MaxAgain
    BY <1>2, BurnAssumption DEF OutOfTurn, SeenType
  <2> QED
    BY <1>2, <2>1, <2>2, LoadsType DEF OutOfTurn, SeenType
<1>3. CASE LoadFails \/ StoreFails
  <2>1. failures' \in 0 .. MaxFailures /\ off' = TRUE
    BY <1>3, BurnAssumption DEF LoadFails, StoreFails, Fails, SeenType
  <2>2. UNCHANGED <<seenVars, again, crashes>>
    BY <1>3 DEF LoadFails, StoreFails
  <2> QED
    BY <2>1, <2>2 DEF SeenType
<1>4. CASE Crash
  <2>1. next' \in 1 .. MaxBlock + 1 /\ crashes' \in 0 .. MaxCrashes
    BY <1>4, BurnAssumption DEF Crash, SeenType
  <2>2. last' = 0 /\ off' = FALSE /\ UNCHANGED <<highest, ordered, partial, repeated, again, failures>>
    BY <1>4 DEF Crash
  <2>3. 0 \in 0 .. MaxBlock
    BY BlockDef
  <2>4. /\ ordered' \in BOOLEAN /\ off' \in BOOLEAN
    BY <2>2 DEF SeenType
  <2> QED
    BY <2>1, <2>2, <2>3, <2>4 DEF SeenType
<1>5. CASE First \/ Joins \/ Count \/ LoadAndCount \/ NothingToLoad \/ StoreBurn \/ UNCHANGED vars
  <2>1. UNCHANGED <<seenVars, boundVars>> /\ (off' = off \/ off' = FALSE)
    BY <1>5, Zenon DEF First, Joins, Count, LoadAndCount, NothingToLoad, StoreBurn, vars
  <2> QED
    BY <2>1 DEF SeenType
<1> QED
  BY <1>1, <1>2, <1>3, <1>4, <1>5 DEF Next, Process

LEMMA TypeNext == IInv /\ TypeOK /\ [Next]_vars => TypeOK'
BY TypeParts, NextInv, StepContainerType, StepSeenType, PTL DEF IInv

(* Every variable stays in its range, the total in memory never behind its *)
(* reload, for every value of the constants.                               *)
THEOREM TypeCorrect == Spec => []TypeOK
<1>1. Init => TypeOK
  BY InitInv, InitTypes, TypeParts DEF IInv
<1> QED
  BY <1>1, TypeNext, InitInv, NextInv, PTL DEF Spec

-----------------------------------------------------------------------------
(* RecordWhole.  What the dispatcher sums up is read off the channel, so   *)
(* the invariant is about the channel: between two transactions next to    *)
(* each other there is no gap in a block, and a change of block comes only *)
(* at the end of the one and the beginning of the other.  Blocks that came *)
(* incomplete or twice in a row, bad ones, are left out.                   *)

Bad == partial \union repeated

FirstOf(e) == e[2] = Body[e[1]][1]
LastOf(e) == e[2] = Body[e[1]][Len(Body[e[1]])]
Follows(e, f) ==
  \E k \in 1 .. Len(Body[e[1]]) - 1 : e[2] = Body[e[1]][k] /\ f[2] = Body[e[1]][k + 1]

Linked(bad, e, f) ==
  IF e[1] = f[1] THEN e[1] \notin bad => Follows(e, f)
  ELSE /\ e[1] \notin bad => LastOf(e)
       /\ f[1] \notin bad => FirstOf(f)

(* No gap in the channel. *)
Linking(bad, q) == \A i \in 1 .. Len(q) - 1 : Linked(bad, q[i], q[i + 1])

(* The sum c holds the first transactions of its block, and the channel    *)
(* goes on with the next one, or with another block if it holds them all.  *)
Fits(bad, c, q) ==
  c.block \notin bad =>
    LET n == Len(c.txs)
        body == Body[c.block]
    IN  /\ n \in 1 .. Len(body) /\ \A i \in 1 .. n : c.txs[i] = body[i]
        /\ q # <<>> /\ q[1][1] = c.block => n < Len(body) /\ q[1][2] = body[n + 1]
        /\ q = <<>> \/ q[1][1] # c.block => n = Len(body)

OwnBlock(q) == \A i \in 1 .. Len(q) : q[i][2] \in ToSet(Body[q[i][1]])

EndsWell(bad, q, b) == q # <<>> => q[Len(q)][1] = b /\ (b \notin bad => LastOf(q[Len(q)]))

WholeInv ==
  /\ OwnBlock(inTransaction) /\ Linking(Bad, inTransaction) /\ EndsWell(Bad, inTransaction, last)
  /\ current # None =>
       /\ ToSet(current.txs) \subseteq ToSet(Body[current.block])
       /\ Fits(Bad, current, inTransaction)
       /\ inTransaction = <<>> => current.block = last
  /\ inTransaction # <<>> =>
       LET e == inTransaction[1]
       IN  /\ current = None \/ current.block # e[1] => (e[1] \notin Bad => FirstOf(e))
           /\ step = "store" => current.block # e[1]

LEMMA BodyDef ==
  ASSUME NEW b \in Block
  PROVE  /\ Body[b] \in Seq(Trx) /\ Len(Body[b]) \in Nat /\ DOMAIN Body[b] = 1 .. Len(Body[b])
         /\ \A i \in 1 .. Len(Body[b]) : Body[b][i] \in ToSet(Body[b])
         /\ \A i, j \in 1 .. Len(Body[b]) : Body[b][i] = Body[b][j] => i = j
<1>1. Body[b] \in Seq(Trx) /\ IsInjective(Body[b])
  BY BurnAssumption
<1>2. Len(Body[b]) \in Nat /\ DOMAIN Body[b] = 1 .. Len(Body[b])
  BY <1>1, LenProperties
<1>3. \A i, j \in 1 .. Len(Body[b]) : Body[b][i] = Body[b][j] => i = j
  BY <1>1, <1>2 DEF IsInjective
<1>4. \A i \in 1 .. Len(Body[b]) : Body[b][i] \in ToSet(Body[b])
  BY <1>2 DEF ToSet
<1> QED
  BY <1>1, <1>2, <1>3, <1>4

(* More bad blocks leave less to show. *)
LEMMA WithMoreBad ==
  ASSUME NEW bad, NEW more, bad \subseteq more
  PROVE  /\ \A e, f : Linked(bad, e, f) => Linked(more, e, f)
         /\ \A q : Linking(bad, q) => Linking(more, q)
         /\ \A c, q : Fits(bad, c, q) => Fits(more, c, q)
         /\ \A q, b : EndsWell(bad, q, b) => EndsWell(more, q, b)
<1>1. \A e, f : Linked(bad, e, f) => Linked(more, e, f)
  BY DEF Linked
<1>2. \A q : Linking(bad, q) => Linking(more, q)
  BY <1>1 DEF Linking
<1>3. \A c, q : Fits(bad, c, q) => Fits(more, c, q)
  BY Zenon DEF Fits
<1>4. \A q, b : EndsWell(bad, q, b) => EndsWell(more, q, b)
  BY Zenon DEF EndsWell
<1> QED
  BY <1>1, <1>2, <1>3, <1>4

(* The head of the channel, the k-th transaction of its block, decides     *)
(* what comes after it.                                                    *)
LEMMA Successor ==
  ASSUME NEW bad, NEW q \in Seq(Block \X Trx), q # <<>>, NEW b, Linking(bad, q), EndsWell(bad, q, b),
         NEW k, k \in 1 .. Len(Body[q[1][1]]), q[1][2] = Body[q[1][1]][k], q[1][1] \notin bad
  PROVE  LET r == Tail(q)
             body == Body[q[1][1]]
         IN  /\ r # <<>> /\ r[1][1] = q[1][1] => k < Len(body) /\ r[1][2] = body[k + 1]
             /\ r = <<>> \/ r[1][1] # q[1][1] => k = Len(body)
<1> DEFINE r == Tail(q)
           e == q[1]
           body == Body[e[1]]
<1>1. /\ Len(q) \in Nat /\ Len(q) >= 1 /\ r \in Seq(Block \X Trx) /\ Len(r) = Len(q) - 1
      /\ r # <<>> => Len(q) >= 2 /\ r[1] = q[2]
      /\ r = <<>> => Len(q) = 1
  <2>1. /\ r \in Seq(Block \X Trx) /\ Len(r) = Len(q) - 1 /\ \A i \in 1 .. Len(r) : r[i] = q[i + 1]
    BY HeadTailProperties
  <2>2. Len(q) \in Nat /\ Len(r) \in Nat /\ (r = <<>> <=> Len(r) = 0) /\ Len(q) # 0
    BY <2>1, LenProperties, EmptySeq
  <2> HIDE DEF r
  <2>3. r # <<>> => 1 \in 1 .. Len(r)
    BY <2>2
  <2> QED
    BY <2>1, <2>2, <2>3
<1>2. e \in Block \X Trx
  <2>1. 1 \in 1 .. Len(q) /\ q \in [1 .. Len(q) -> Block \X Trx]
    BY <1>1, LenProperties
  <2> QED
    BY <2>1
<1>3. /\ e[1] \in Block /\ Len(body) \in Nat
      /\ \A i, j \in 1 .. Len(body) : body[i] = body[j] => i = j
  BY <1>2, BodyDef
<1> HIDE DEF r
<1>4. ASSUME r # <<>>, r[1][1] = e[1] PROVE k < Len(body) /\ r[1][2] = body[k + 1]
  <2>1. Linked(bad, e, r[1])
    BY <1>1, <1>4 DEF Linking
  <2>2. Follows(e, r[1])
    BY <1>4, <2>1 DEF Linked
  <2>3. PICK j \in 1 .. Len(body) - 1 : e[2] = body[j] /\ r[1][2] = body[j + 1]
    BY <2>2 DEF Follows
  <2>4. j \in 1 .. Len(body) /\ j < Len(body)
    BY <1>3, <2>3
  <2>5. j = k
    BY <1>3, <2>3, <2>4
  <2> QED
    BY <2>3, <2>4, <2>5
<1>5. ASSUME r = <<>> \/ r[1][1] # e[1] PROVE k = Len(body)
  <2>1. LastOf(e)
    <3>1. CASE r = <<>>
      BY <1>1, <3>1 DEF EndsWell
    <3>2. CASE r # <<>>
      <4>1. Linked(bad, e, r[1])
        BY <1>1, <3>2 DEF Linking
      <4> QED
        BY <1>5, <3>2, <4>1 DEF Linked
    <3> QED
      BY <3>1, <3>2
  <2>2. Len(body) \in 1 .. Len(body) /\ body[k] = body[Len(body)]
    BY <1>3, <2>1 DEF LastOf
  <2> QED
    BY <1>3, <2>2
<1> QED
  BY <1>4, <1>5 DEF r

(* What is left of the channel behind its head. *)
LEMMA TailFits ==
  ASSUME NEW bad, NEW q \in Seq(Block \X Trx), q # <<>>, NEW b,
         OwnBlock(q), Linking(bad, q), EndsWell(bad, q, b)
  PROVE  LET r == Tail(q)
         IN  /\ OwnBlock(r) /\ Linking(bad, r) /\ EndsWell(bad, r, b)
             /\ r = <<>> => q[1][1] = b
             /\ r # <<>> => (r[1][1] # q[1][1] => (r[1][1] \notin bad => FirstOf(r[1])))
<1> DEFINE r == Tail(q)
<1>1. /\ Len(q) \in Nat /\ Len(r) \in Nat /\ Len(r) = Len(q) - 1
      /\ \A i \in 1 .. Len(r) : r[i] = q[i + 1]
      /\ r = <<>> <=> Len(r) = 0
  <2>1. r \in Seq(Block \X Trx) /\ Len(r) = Len(q) - 1 /\ \A i \in 1 .. Len(r) : r[i] = q[i + 1]
    BY HeadTailProperties
  <2>2. Len(q) \in Nat /\ Len(r) \in Nat /\ (r = <<>> <=> Len(r) = 0)
    BY <2>1, LenProperties, EmptySeq
  <2> HIDE DEF r
  <2> QED
    BY <2>1, <2>2
<1> HIDE DEF r
<1>2. OwnBlock(r)
  <2>1. ASSUME NEW i \in 1 .. Len(r) PROVE r[i][2] \in ToSet(Body[r[i][1]])
    <3>1. i + 1 \in 1 .. Len(q) /\ r[i] = q[i + 1]
      BY <1>1
    <3> QED
      BY <3>1 DEF OwnBlock
  <2> QED
    BY <2>1 DEF OwnBlock
<1>3. Linking(bad, r)
  <2>1. ASSUME NEW i \in 1 .. Len(r) - 1 PROVE Linked(bad, r[i], r[i + 1])
    <3>1. i + 1 \in 1 .. Len(q) - 1 /\ r[i] = q[i + 1] /\ r[i + 1] = q[i + 1 + 1]
      BY <1>1
    <3> QED
      BY <3>1 DEF Linking
  <2> QED
    BY <2>1 DEF Linking
<1>4. EndsWell(bad, r, b)
  <2>1. r # <<>> => r[Len(r)] = q[Len(q)]
    BY <1>1
  <2> QED
    BY <2>1, Zenon DEF EndsWell
<1>5. r = <<>> => q[1][1] = b
  <2>1. r = <<>> => Len(q) = 1
    BY <1>1
  <2> QED
    BY <2>1 DEF EndsWell
<1>6. ASSUME r # <<>>, r[1][1] # q[1][1], r[1][1] \notin bad PROVE FirstOf(r[1])
  <2>1. 1 \in 1 .. Len(q) - 1 /\ r[1] = q[1 + 1]
    BY <1>1, <1>6
  <2>2. Linked(bad, q[1], r[1])
    BY <2>1 DEF Linking
  <2> QED
    BY <1>6, <2>2 DEF Linked
<1> QED
  BY <1>2, <1>3, <1>4, <1>5, <1>6 DEF r

(* The transactions of a block, and what comes behind the channel.         *)
LEMMA LoadedEntries ==
  ASSUME NEW b \in Block, NEW loaded \in Seq(Trx), NEW q \in Seq(Block \X Trx)
  PROVE  LET r == [i \in 1 .. Len(loaded) |-> <<b, loaded[i]>>]
             s == q \o r
         IN  /\ s \in Seq(Block \X Trx) /\ Len(s) = Len(q) + Len(loaded)
             /\ Len(q) \in Nat /\ Len(loaded) \in Nat
             /\ \A i \in 1 .. Len(q) : s[i] = q[i]
             /\ \A i \in Len(q) + 1 .. Len(q) + Len(loaded) : s[i] = <<b, loaded[i - Len(q)]>>
<1> DEFINE r == [i \in 1 .. Len(loaded) |-> <<b, loaded[i]>>]
           s == q \o r
<1>1. Len(q) \in Nat /\ Len(loaded) \in Nat /\ \A i \in 1 .. Len(loaded) : loaded[i] \in Trx
  BY LenProperties
<1>2. r \in Seq(Block \X Trx) /\ Len(r) = Len(loaded)
  <2>1. r \in [1 .. Len(loaded) -> Block \X Trx]
    BY <1>1
  <2>2. r \in Seq(Block \X Trx)
    BY <1>1, <2>1
  <2>3. DOMAIN r = 1 .. Len(r) /\ DOMAIN r = 1 .. Len(loaded) /\ Len(r) \in Nat
    BY <2>2
  <2> QED
    BY <1>1, <2>2, <2>3
<1>3. \A i \in 1 .. Len(loaded) : r[i] = <<b, loaded[i]>>
  OBVIOUS
<1> HIDE DEF r
<1>4. /\ s \in Seq(Block \X Trx) /\ Len(s) = Len(q) + Len(r)
      /\ \A i \in 1 .. Len(q) + Len(r) : s[i] = IF i <= Len(q) THEN q[i] ELSE r[i - Len(q)]
  BY <1>2, ConcatProperties
<1> HIDE DEF s
<1>5. \A i \in 1 .. Len(q) : i \in 1 .. Len(q) + Len(loaded) /\ i <= Len(q)
  BY <1>1
<1>6. \A i \in Len(q) + 1 .. Len(q) + Len(loaded) :
        i \in 1 .. Len(q) + Len(loaded) /\ ~(i <= Len(q)) /\ i - Len(q) \in 1 .. Len(loaded)
  BY <1>1
<1>7. \A i \in 1 .. Len(q) : s[i] = q[i]
  BY <1>2, <1>4, <1>5
<1>8. \A i \in Len(q) + 1 .. Len(q) + Len(loaded) : s[i] = <<b, loaded[i - Len(q)]>>
  BY <1>2, <1>3, <1>4, <1>6
<1> QED
  BY <1>1, <1>2, <1>4, <1>7, <1>8 DEF r, s

(* s is the channel q with the transactions loaded of block b behind.      *)
Longer(s, q, b, loaded) ==
  /\ s \in Seq(Block \X Trx) /\ Len(s) = Len(q) + Len(loaded)
  /\ \A i \in 1 .. Len(q) : s[i] = q[i]
  /\ \A i \in Len(q) + 1 .. Len(q) + Len(loaded) : s[i] = <<b, loaded[i - Len(q)]>>

Whole(bad, q, b) == OwnBlock(q) /\ Linking(bad, q) /\ EndsWell(bad, q, b)

LEMMA BlockFits ==
  ASSUME NEW bad, NEW more, bad \subseteq more, NEW q \in Seq(Block \X Trx), NEW b0, Whole(bad, q, b0),
         NEW b \in Block, NEW loaded \in Seq(Trx), loaded # <<>>,
         ToSet(loaded) \subseteq ToSet(Body[b]),
         b \notin more => b # b0 /\ loaded = Body[b],
         NEW s, Longer(s, q, b, loaded)
  PROVE  /\ Whole(more, s, b)
         /\ s # <<>> /\ s[1] = (IF q = <<>> THEN <<b, loaded[1]>> ELSE q[1])
<1> DEFINE m == Len(q)
           n == Len(loaded)
<1> USE DEF Whole
<1>1. /\ s \in Seq(Block \X Trx) /\ Len(s) = m + n /\ m \in Nat /\ n \in Nat
      /\ \A i \in 1 .. m : s[i] = q[i]
      /\ \A i \in m + 1 .. m + n : s[i] = <<b, loaded[i - m]>>
  BY LenProperties DEF Longer
<1> HIDE DEF m, n
<1>2. n >= 1 /\ (q = <<>> <=> m = 0) /\ DOMAIN loaded = 1 .. n
  BY EmptySeq, LenProperties DEF m, n
<1>3. OwnBlock(s)
  <2> SUFFICES ASSUME NEW i \in 1 .. m + n PROVE s[i][2] \in ToSet(Body[s[i][1]])
    BY <1>1 DEF OwnBlock
  <2>1. CASE i \in 1 .. m
    BY <1>1, <2>1 DEF OwnBlock, m
  <2>2. CASE i \in m + 1 .. m + n
    <3>1. s[i] = <<b, loaded[i - m]>> /\ i - m \in 1 .. n
      BY <1>1, <2>2
    <3>2. loaded[i - m] \in ToSet(loaded)
      BY <1>2, <3>1 DEF ToSet
    <3> QED
      BY <3>1, <3>2
  <2> QED
    BY <1>1, <2>1, <2>2
<1>4. Linking(more, s)
  <2> SUFFICES ASSUME NEW i \in 1 .. m + n - 1 PROVE Linked(more, s[i], s[i + 1])
    BY <1>1 DEF Linking
  <2>1. CASE i + 1 <= m
    <3>1. i \in 1 .. m - 1 /\ i \in 1 .. m /\ i + 1 \in 1 .. m
      BY <1>1, <2>1
    <3>2. s[i] = q[i] /\ s[i + 1] = q[i + 1]
      BY <1>1, <3>1
    <3>3. Linked(bad, q[i], q[i + 1])
      BY <3>1 DEF Linking, m
    <3>4. Linked(more, q[i], q[i + 1])
      BY <3>3 DEF Linked
    <3> QED
      BY <3>2, <3>4
  <2>2. CASE i = m
    <3>1. s[i] = q[m] /\ s[i + 1] = <<b, loaded[1]>> /\ q # <<>>
      <4>1. m \in 1 .. m /\ m + 1 \in m + 1 .. m + n /\ m + 1 - m = 1 /\ m # 0
        BY <1>1, <1>2, <2>2
      <4>2. s[m] = q[m] /\ s[m + 1] = <<b, loaded[1]>>
        BY <1>1, <4>1
      <4> QED
        BY <1>2, <2>2, <4>1, <4>2
    <3>2. q[m][1] = b0 /\ (b0 \notin bad => LastOf(q[m]))
      BY <3>1 DEF EndsWell, m
    <3>3. CASE b0 = b
      BY <3>1, <3>2, <3>3 DEF Linked
    <3>4. CASE b0 # b
      <4>1. b \notin more => FirstOf(<<b, loaded[1]>>)
        BY DEF FirstOf
      <4> QED
        BY <3>1, <3>2, <3>4, <4>1 DEF Linked
    <3> QED
      BY <3>3, <3>4
  <2>3. CASE i > m
    <3>1. i \in m + 1 .. m + n /\ i + 1 \in m + 1 .. m + n /\ i + 1 - m = i - m + 1
          /\ i - m \in 1 .. n - 1
      BY <1>1, <2>3
    <3>2. s[i] = <<b, loaded[i - m]>> /\ s[i + 1] = <<b, loaded[i - m + 1]>>
      BY <1>1, <3>1
    <3>3. b \notin more => Follows(<<b, loaded[i - m]>>, <<b, loaded[i - m + 1]>>)
      BY <3>1 DEF Follows, n
    <3>4. Linked(more, <<b, loaded[i - m]>>, <<b, loaded[i - m + 1]>>)
      BY <3>3 DEF Linked
    <3> QED
      BY <3>2, <3>4
  <2> QED
    BY <1>1, <2>1, <2>2, <2>3
<1>5. s # <<>> /\ EndsWell(more, s, b)
  <2>1. m + n \in m + 1 .. m + n /\ m + n - m = n
    BY <1>1, <1>2
  <2>2. s[Len(s)] = <<b, loaded[n]>>
    BY <1>1, <2>1
  <2>3. b \notin more => LastOf(s[Len(s)])
    BY <2>2 DEF LastOf, n
  <2>4. Len(s) # 0
    BY <1>1, <1>2
  <2>5. s # <<>>
    BY <1>1, <2>4, EmptySeq
  <2>6. s[Len(s)][1] = b
    BY <2>2
  <2> QED
    BY <2>3, <2>5, <2>6 DEF EndsWell
<1>6. s[1] = (IF q = <<>> THEN <<b, loaded[1]>> ELSE q[1])
  <2>1. m = 0 => 1 \in m + 1 .. m + n /\ 1 - m = 1
    BY <1>1, <1>2
  <2>2. m # 0 => 1 \in 1 .. m
    BY <1>1
  <2> QED
    BY <1>1, <1>2, <2>1, <2>2
<1> QED
  BY <1>3, <1>4, <1>5, <1>6

(* A block without a transaction leaves out none of them.                  *)
LEMMA BodyParts ==
  ASSUME NEW b \in Block, NEW i \in DOMAIN Body[b]
  PROVE  RemoveAt(Body[b], i) \in Seq(Trx) /\ ToSet(RemoveAt(Body[b], i)) \subseteq ToSet(Body[b])
<1> DEFINE s == Body[b]
           u == SubSeq(s, 1, i - 1)
           v == SubSeq(s, i + 1, Len(s))
<1>1. s \in Seq(Trx) /\ Len(s) \in Nat /\ i \in 1 .. Len(s) /\ DOMAIN s = 1 .. Len(s)
  BY BodyDef
<1> HIDE DEF s
<1>2. /\ u \in Seq(Trx) /\ Len(u) = i - 1
      /\ \A j \in 1 .. Len(u) : j \in DOMAIN s /\ u[j] = s[j]
  BY <1>1
<1>3. /\ v \in Seq(Trx) /\ Len(v) = Len(s) - i
      /\ \A j \in 1 .. Len(v) : i + j \in DOMAIN s /\ v[j] = s[i + j]
  BY <1>1
<1> HIDE DEF u, v
<1>4. /\ u \o v \in Seq(Trx) /\ Len(u \o v) = Len(u) + Len(v)
      /\ \A j \in 1 .. Len(u) + Len(v) : (u \o v)[j] = IF j <= Len(u) THEN u[j] ELSE v[j - Len(u)]
  BY <1>2, <1>3, ConcatProperties
<1>5. ASSUME NEW j \in 1 .. Len(u) + Len(v) PROVE (u \o v)[j] \in ToSet(s)
  <2>1. CASE j <= Len(u)
    <3>1. j \in 1 .. Len(u)
      BY <1>1, <1>2, <2>1
    <3> QED
      BY <1>2, <1>4, <2>1, <3>1 DEF ToSet
  <2>2. CASE ~(j <= Len(u))
    <3>1. j - Len(u) \in 1 .. Len(v)
      BY <1>1, <1>2, <1>3, <2>2
    <3> QED
      BY <1>3, <1>4, <2>2, <3>1 DEF ToSet
  <2> QED
    BY <2>1, <2>2
<1>6. DOMAIN (u \o v) = 1 .. Len(u) + Len(v)
  BY <1>4, LenProperties
<1>7. RemoveAt(s, i) = u \o v
  BY DEF RemoveAt, u, v
<1> QED
  BY <1>4, <1>5, <1>6, <1>7 DEF ToSet, s

(* What is known when the channel is not empty: its head.                  *)
LEMMA TheHead ==
  ASSUME BType, inTransaction # <<>>
  PROVE  LET e == inTransaction[1]
         IN  /\ e \in Block \X Trx /\ e[1] \in Block /\ Len(inTransaction) >= 1
             /\ Evt.block = e[1] /\ Evt.txs = <<e[2]>>
<1> DEFINE q == inTransaction
           e == q[1]
<1>1. q \in Seq(Block \X Trx) /\ q # <<>>
  BY DEF BType
<1>2. Len(q) \in Nat /\ Len(q) >= 1 /\ q \in [1 .. Len(q) -> Block \X Trx] /\ Head(q) = e
  <2>1. Len(q) \in Nat /\ Len(q) # 0 /\ q \in [1 .. Len(q) -> Block \X Trx]
    BY <1>1, LenProperties, EmptySeq
  <2>2. Head(q) = e
    BY DEF Head
  <2> QED
    BY <2>1, <2>2
<1>3. e \in Block \X Trx
  <2>1. 1 \in 1 .. Len(q)
    BY <1>2
  <2> QED
    BY <1>2, <2>1
<1>4. Evt = [block |-> e[1], txs |-> <<e[2]>>]
  BY <1>2 DEF Evt
<1> QED
  BY <1>2, <1>3, <1>4

(* Transactions of a block come.                                           *)
LEMMA ArriveWhole ==
  ASSUME BType, WholeInv, NEW b \in Block, NEW loaded \in Seq(Trx), Arrive(b, loaded),
         UNCHANGED <<current, step>>,
         Bad \subseteq Bad', ToSet(loaded) \subseteq ToSet(Body[b]),
         loaded # <<>> => (b \notin Bad' => b # last /\ loaded = Body[b])
  PROVE  WholeInv'
<1> DEFINE q == inTransaction
           s == q \o [i \in 1 .. Len(loaded) |-> <<b, loaded[i]>>]
<1>1. q \in Seq(Block \X Trx) /\ q' = s
  BY DEF BType, Arrive
<1>2. OwnBlock(q) /\ Linking(Bad, q) /\ EndsWell(Bad, q, last)
  BY DEF WholeInv
<1>3. current # None => Fits(Bad', current, q)
  <2>1. current # None => Fits(Bad, current, q)
    BY DEF WholeInv
  <2>2. \A c, p : Fits(Bad, c, p) => Fits(Bad', c, p)
    BY WithMoreBad
  <2> QED
    BY <2>1, <2>2
<1>4. CASE loaded = <<>>
  <2>1. s = q
    <3>1. Len(loaded) = 0 /\ 1 .. 0 = {}
      BY <1>4
    <3>2. [i \in 1 .. Len(loaded) |-> <<b, loaded[i]>>] = <<>>
      BY <3>1
    <3> QED
      BY <1>1, <3>2, ConcatEmptySeq
  <2>2. last' = last
    BY <1>4 DEF Arrive
  <2>3. Linking(Bad', q) /\ EndsWell(Bad', q, last)
    <3> HIDE DEF q
    <3> QED
      BY <1>2, WithMoreBad
  <2>4. inTransaction' = inTransaction
    BY <1>1, <2>1
  <2> QED
    BY <1>2, <1>3, <2>2, <2>3, <2>4 DEF WholeInv
<1>5. CASE loaded # <<>>
  <2>1. /\ OwnBlock(s) /\ Linking(Bad', s) /\ EndsWell(Bad', s, b)
        /\ s # <<>> /\ s[1] = (IF q = <<>> THEN <<b, loaded[1]>> ELSE q[1])
    <3> DEFINE more == Bad'
    <3>1. Bad \subseteq more /\ (b \notin more => b # last /\ loaded = Body[b])
      BY <1>5
    <3>2. Longer(s, q, b, loaded)
      BY <1>1, LoadedEntries DEF Longer
    <3>3. Whole(Bad, q, last)
      BY <1>2 DEF Whole
    <3> HIDE DEF q, s, more
    <3>4. Whole(more, s, b) /\ s # <<>> /\ s[1] = (IF q = <<>> THEN <<b, loaded[1]>> ELSE q[1])
      BY <1>1, <1>5, <3>1, <3>2, <3>3, BlockFits
    <3> QED
      BY <3>4 DEF more, Whole
  <2>2. last' = b
    BY <1>5 DEF Arrive
  <2> HIDE DEF s
  <2>3. CASE q # <<>>
    <3>1. s[1] = q[1]
      BY <2>1, <2>3
    <3>2. current # None => Fits(Bad', current, s)
      BY <1>3, <2>1, <2>3, <3>1, Zenon DEF Fits
    <3> QED
      BY <1>1, <2>1, <2>2, <2>3, <3>1, <3>2 DEF WholeInv
  <2>4. CASE q = <<>>
    <3>1. s[1] = <<b, loaded[1]>>
      BY <2>1, <2>4
    <3>2. step = "idle" /\ (current # None => current.block = last)
      BY <2>4 DEF BType, WholeInv
    <3>3. b \notin Bad' => b # last /\ FirstOf(<<b, loaded[1]>>)
      BY <1>5 DEF FirstOf
    <3>4. current # None => Fits(Bad', current, s)
      <4> SUFFICES ASSUME current # None, current.block \notin Bad'
                   PROVE  Fits(Bad', current, s)
        BY Zenon DEF Fits
      <4>1. s # <<>> /\ s[1][1] # current.block
        BY <2>1, <3>1, <3>2, <3>3
      <4> QED
        BY <1>3, <2>4, <4>1, Zenon DEF Fits
    <3> QED
      BY <1>1, <2>1, <2>2, <3>1, <3>2, <3>3, <3>4 DEF WholeInv
  <2> QED
    BY <2>3, <2>4
<1> QED
  BY <1>4, <1>5

LEMMA LoadsWhole ==
  ASSUME BType, WholeInv, NEW b \in Block, Loads(b), UNCHANGED <<current, step>>
  PROVE  WholeInv'
<1>1. ASSUME Arrive(b, Body[b]), UNCHANGED <<partial, failures>> PROVE WholeInv'
  <2>1. Body[b] # <<>> => repeated' = IF b = last THEN repeated \union {b} ELSE repeated
    BY <1>1 DEF Arrive
  <2>2. Body[b] = <<>> => repeated' = repeated
    BY <1>1 DEF Arrive
  <2>3. Bad \subseteq Bad' /\ (Body[b] # <<>> => (b \notin Bad' => b # last))
    BY <1>1, <2>1, <2>2 DEF Bad
  <2> QED
    BY <1>1, <2>3, Bodies, ArriveWhole
<1>2. ASSUME NEW i \in DOMAIN Body[b], Arrive(b, RemoveAt(Body[b], i)), partial' = partial \union {b}
      PROVE  WholeInv'
  <2>1. repeated \subseteq repeated'
    BY <1>2 DEF Arrive
  <2>2. Bad \subseteq Bad' /\ b \in Bad'
    BY <1>2, <2>1 DEF Bad
  <2> QED
    BY <1>2, <2>2, BodyParts, ArriveWhole
<1> QED
  BY <1>1, <1>2 DEF Loads

(* The head of the channel begins a sum.                                   *)
LEMMA TakeUpWhole ==
  ASSUME BType, WholeInv, inTransaction # <<>>,
         current = None \/ current.block # inTransaction[1][1],
         current' = Evt, inTransaction' = Tail(inTransaction), step' = "idle",
         Bad' = Bad, last' = last
  PROVE  WholeInv'
<1> DEFINE q == inTransaction
           e == q[1]
           r == Tail(q)
           body == Body[e[1]]
<1>1. q \in Seq(Block \X Trx) /\ OwnBlock(q) /\ Linking(Bad, q) /\ EndsWell(Bad, q, last)
  BY DEF BType, WholeInv
<1>2. /\ OwnBlock(r) /\ Linking(Bad, r) /\ EndsWell(Bad, r, last)
      /\ r = <<>> => e[1] = last
      /\ r # <<>> => (r[1][1] # e[1] => (r[1][1] \notin Bad => FirstOf(r[1])))
  <2> HIDE DEF q
  <2> QED
    BY <1>1, TailFits DEF q
<1>3. /\ e \in Block \X Trx /\ e[1] \in Block /\ Len(q) \in Nat /\ Len(q) >= 1
      /\ Evt.block = e[1] /\ Evt.txs = <<e[2]>>
  BY <1>1, TheHead, LenProperties
<1>4. e[2] \in ToSet(body) /\ (e[1] \notin Bad => FirstOf(e))
  <2>1. 1 \in 1 .. Len(q)
    BY <1>3
  <2>2. e[2] \in ToSet(body)
    BY <1>1, <2>1 DEF OwnBlock
  <2>3. e[1] \notin Bad => FirstOf(e)
    BY DEF WholeInv
  <2> QED
    BY <2>2, <2>3
<1>5. ToSet(Evt.txs) \subseteq ToSet(body)
  <2>1. ToSet(<<e[2]>>) = {e[2]}
    BY DEF ToSet
  <2> QED
    BY <1>3, <1>4, <2>1
<1>6. Len(body) \in Nat /\ 1 \in 1 .. Len(body)
  BY <1>3, <1>4, BodyDef DEF ToSet
<1>7. Fits(Bad, Evt, r)
  <2> SUFFICES ASSUME e[1] \notin Bad PROVE Fits(Bad, Evt, r)
    BY <1>3 DEF Fits
  <2>1. e[2] = body[1]
    BY <1>4 DEF FirstOf
  <2>2. /\ r # <<>> /\ r[1][1] = e[1] => 1 < Len(body) /\ r[1][2] = body[1 + 1]
        /\ r = <<>> \/ r[1][1] # e[1] => 1 = Len(body)
    <3>1. q # <<>>
      OBVIOUS
    <3> HIDE DEF q
    <3> QED
      BY <1>1, <1>6, <2>1, <3>1, Successor DEF q
  <2>3. Len(Evt.txs) = 1 /\ Evt.txs[1] = body[1] /\ \A i \in 1 .. 1 : i = 1
    BY <1>3, <2>1
  <2> HIDE DEF r, body, e
  <2>4. Fits(Bad, Evt, r) <=>
          /\ 1 \in 1 .. Len(body) /\ \A i \in 1 .. 1 : Evt.txs[i] = body[i]
          /\ r # <<>> /\ r[1][1] = e[1] => 1 < Len(body) /\ r[1][2] = body[1 + 1]
          /\ r = <<>> \/ r[1][1] # e[1] => 1 = Len(body)
    BY <1>3, <2>3 DEF Fits, body, e
  <2> QED
    BY <1>6, <2>2, <2>3, <2>4
<1> HIDE DEF r
<1>8. inTransaction' = r /\ current'.block = e[1] /\ current'.txs = Evt.txs /\ step' = "idle"
  BY <1>3 DEF r
<1>9. Fits(Bad', current', inTransaction')
  BY <1>7, <1>8
<1>10. OwnBlock(inTransaction') /\ Linking(Bad', inTransaction') /\ EndsWell(Bad', inTransaction', last')
  BY <1>2, <1>8
<1>11. /\ ToSet(current'.txs) \subseteq ToSet(Body[current'.block])
       /\ inTransaction' = <<>> => current'.block = last'
  BY <1>2, <1>5, <1>8
<1>12. inTransaction' # <<>> /\ current'.block # inTransaction'[1][1] =>
         (inTransaction'[1][1] \notin Bad' => FirstOf(inTransaction'[1]))
  BY <1>2, <1>8
<1>13. current' # None
  BY EvtType
<1> QED
  BY <1>8, <1>9, <1>10, <1>11, <1>12, <1>13 DEF WholeInv

(* The head of the channel joins the sum of its block.                     *)
LEMMA JoinsWhole ==
  ASSUME BType, WholeInv, Joins
  PROVE  WholeInv'
<1> DEFINE q == inTransaction
           e == q[1]
           r == Tail(q)
           body == Body[e[1]]
           txs == current.txs \o <<e[2]>>
           n == Len(current.txs)
<1>1. q \in Seq(Block \X Trx) /\ OwnBlock(q) /\ Linking(Bad, q) /\ EndsWell(Bad, q, last)
  BY DEF BType, WholeInv
<1>2. /\ q # <<>> /\ step = "idle" /\ current # None /\ step' = step
      /\ inTransaction' = r /\ Bad' = Bad /\ last' = last
  BY DEF Joins, Arrived, Bad, seenVars
<1>3. /\ e \in Block \X Trx /\ e[1] \in Block /\ Len(q) \in Nat /\ Len(q) >= 1
      /\ Evt.block = e[1] /\ Evt.txs = <<e[2]>> /\ e[2] \in Trx
  BY <1>1, <1>2, TheHead, LenProperties
<1>4. /\ current \in Sum /\ current.block = e[1] /\ current.txs \in Seq(Trx)
      /\ current'.block = e[1] /\ current'.txs = txs /\ current' # None
  <2>1. current \in Sum /\ current.block = e[1] /\ current' = [current EXCEPT !.txs = txs]
    BY <1>2, <1>3 DEF Joins, Other, BType
  <2>2. current.txs \in Seq(Trx) /\ <<e[2]>> \in Seq(Trx)
    BY <1>3, <2>1 DEF Sum
  <2>3. txs \in Seq(Trx)
    BY <2>2, ConcatProperties
  <2> HIDE DEF txs
  <2>4. current' = [block |-> e[1], txs |-> txs] /\ current' \in Sum
    BY <1>3, <2>1, <2>3 DEF Sum
  <2> QED
    BY <2>1, <2>2, <2>4, NoneAssumption
<1>5. /\ n \in Nat /\ Len(txs) = n + 1 /\ txs[n + 1] = e[2] /\ DOMAIN txs = 1 .. n + 1
      /\ \A i \in 1 .. n : txs[i] = current.txs[i]
  <2> DEFINE one == <<e[2]>>
  <2>1. one \in Seq(Trx) /\ Len(one) = 1 /\ one[1] = e[2]
    BY <1>3
  <2>2. n \in Nat
    BY <1>4, LenProperties
  <2> HIDE DEF one
  <2>3. /\ current.txs \o one \in Seq(Trx) /\ Len(current.txs \o one) = n + 1
        /\ \A i \in 1 .. n + 1 : (current.txs \o one)[i] = IF i <= n THEN current.txs[i] ELSE one[i - n]
    BY <1>4, <2>1, ConcatProperties
  <2>4. txs = current.txs \o one
    BY DEF one
  <2> HIDE DEF txs, n
  <2>5. DOMAIN txs = 1 .. n + 1
    BY <2>3, <2>4, LenProperties
  <2>6. n + 1 \in 1 .. n + 1 /\ ~(n + 1 <= n) /\ n + 1 - n = 1 /\ \A i \in 1 .. n : i \in 1 .. n + 1 /\ i <= n
    BY <2>2
  <2>7. txs[n + 1] = e[2]
    <3>1. PICK i \in 1 .. n + 1 : i = n + 1
      BY <2>6
    <3>2. ~(i <= n) /\ i - n = 1
      BY <2>2, <3>1
    <3>3. txs[i] = one[i - n]
      BY <2>3, <2>4, <3>2
    <3> QED
      BY <2>1, <3>1, <3>2, <3>3
  <2>8. \A i \in 1 .. n : txs[i] = current.txs[i]
    BY <2>3, <2>4, <2>6
  <2> QED
    BY <2>2, <2>3, <2>4, <2>5, <2>7, <2>8
<1>6. e[2] \in ToSet(body)
  <2>1. 1 \in 1 .. Len(q)
    BY <1>3
  <2> QED
    BY <1>1, <2>1 DEF OwnBlock
<1> HIDE DEF txs
<1>7. ToSet(txs) \subseteq ToSet(body)
  <2>1. ToSet(current.txs) \subseteq ToSet(body)
    BY <1>2, <1>4 DEF WholeInv
  <2>2. DOMAIN current.txs = 1 .. n
    BY <1>4, LenProperties
  <2>3. ASSUME NEW i \in 1 .. n + 1 PROVE txs[i] \in ToSet(body)
    <3>1. CASE i \in 1 .. n
      BY <1>5, <2>1, <2>2, <3>1 DEF ToSet
    <3>2. CASE i = n + 1
      BY <1>5, <1>6, <3>2
    <3> HIDE DEF n
    <3> QED
      BY <1>5, <3>1, <3>2
  <2> QED
    BY <1>5, <2>3 DEF ToSet
<1>8. /\ OwnBlock(r) /\ Linking(Bad, r) /\ EndsWell(Bad, r, last)
      /\ r = <<>> => e[1] = last
      /\ r # <<>> => (r[1][1] # e[1] => (r[1][1] \notin Bad => FirstOf(r[1])))
  <2>1. q # <<>>
    BY <1>2
  <2> HIDE DEF q
  <2> QED
    BY <1>1, <2>1, TailFits DEF q
<1>9. Fits(Bad, current', r)
  <2> SUFFICES ASSUME e[1] \notin Bad PROVE Fits(Bad, current', r)
    BY <1>4 DEF Fits
  <2>1. /\ n \in 1 .. Len(body) /\ \A i \in 1 .. n : current.txs[i] = body[i]
        /\ n < Len(body) /\ e[2] = body[n + 1]
    <3>1. Fits(Bad, current, q)
      BY <1>2 DEF WholeInv
    <3> QED
      BY <1>2, <1>4, <3>1 DEF Fits
  <2>2. Len(body) \in Nat
    BY <1>3, BodyDef
  <2>3. n + 1 \in 1 .. Len(body)
    BY <1>5, <2>1, <2>2
  <2>4. /\ r # <<>> /\ r[1][1] = e[1] => n + 1 < Len(body) /\ r[1][2] = body[n + 1 + 1]
        /\ r = <<>> \/ r[1][1] # e[1] => n + 1 = Len(body)
    <3>1. q # <<>> /\ e[2] = body[n + 1]
      BY <1>2, <2>1
    <3> HIDE DEF q, n
    <3> QED
      BY <1>1, <2>3, <3>1, Successor DEF q
  <2>5. \A i \in 1 .. n + 1 : txs[i] = body[i]
    <3> HIDE DEF n
    <3>1. ASSUME NEW i \in 1 .. n + 1 PROVE i \in 1 .. n \/ i = n + 1
      BY <1>5
    <3> QED
      BY <1>5, <2>1, <3>1
  <2> HIDE DEF r, body, e, n
  <2>6. Fits(Bad, current', r) <=>
          /\ n + 1 \in 1 .. Len(body) /\ \A i \in 1 .. n + 1 : txs[i] = body[i]
          /\ r # <<>> /\ r[1][1] = e[1] => n + 1 < Len(body) /\ r[1][2] = body[n + 1 + 1]
          /\ r = <<>> \/ r[1][1] # e[1] => n + 1 = Len(body)
    BY <1>4, <1>5 DEF Fits, body
  <2> QED
    BY <2>3, <2>4, <2>5, <2>6
<1> HIDE DEF r
<1>10. Fits(Bad', current', inTransaction')
  BY <1>2, <1>9
<1>11. OwnBlock(inTransaction') /\ Linking(Bad', inTransaction') /\ EndsWell(Bad', inTransaction', last')
  BY <1>2, <1>8
<1>12. /\ ToSet(current'.txs) \subseteq ToSet(Body[current'.block])
       /\ inTransaction' = <<>> => current'.block = last'
  BY <1>2, <1>4, <1>7, <1>8
<1>13. inTransaction' # <<>> /\ current'.block # inTransaction'[1][1] =>
         (inTransaction'[1][1] \notin Bad' => FirstOf(inTransaction'[1]))
  BY <1>2, <1>4, <1>8
<1> QED
  BY <1>2, <1>4, <1>10, <1>11, <1>12, <1>13 DEF WholeInv

LEMMA InitWhole == Init => WholeInv
<1> SUFFICES ASSUME Init PROVE WholeInv
  OBVIOUS
<1>1. inTransaction = <<>> /\ current = None
  BY DEF Init
<1>2. OwnBlock(<<>>) /\ Linking(Bad, <<>>) /\ EndsWell(Bad, <<>>, last)
  BY DEF OwnBlock, Linking, EndsWell
<1> QED
  BY <1>1, <1>2 DEF WholeInv

LEMMA NextWhole == IInv /\ WholeInv /\ [Next]_vars => WholeInv'
<1> SUFFICES ASSUME IInv, WholeInv, [Next]_vars PROVE WholeInv'
  OBVIOUS
<1> USE DEF seenVars, boundVars, burnVars
<1>1. BType
  BY DEF IInv
<1>2. CASE InTurn
  <2>1. next \in Block /\ Loads(next) /\ UNCHANGED <<current, step>>
    BY <1>2 DEF InTurn
  <2> QED
    BY <1>1, <2>1, LoadsWhole
<1>3. CASE OutOfTurn
  <2>1. UNCHANGED <<current, step>> /\ \E b \in Block : Loads(b)
    BY <1>3 DEF OutOfTurn
  <2> QED
    BY <1>1, <2>1, LoadsWhole
<1>4. CASE First
  <2>1. /\ current = None /\ inTransaction # <<>> /\ step' = "idle"
        /\ current' = Evt /\ inTransaction' = Tail(inTransaction)
        /\ Bad' = Bad /\ last' = last
    BY <1>4 DEF First, Arrived, Bad
  <2> QED
    BY <1>1, <2>1, TakeUpWhole
<1>5. CASE Joins
  BY <1>1, <1>5, JoinsWhole
<1>6. CASE StoreBurn \/ StoreFails
  <2>1. /\ inTransaction # <<>> /\ step = "store" /\ step' = "idle"
        /\ current' = Evt /\ inTransaction' = Tail(inTransaction)
        /\ Bad' = Bad /\ last' = last
    BY <1>1, <1>6 DEF StoreBurn, StoreFails, NextSum, Bad, BType
  <2>2. current.block # inTransaction[1][1]
    BY <2>1 DEF WholeInv
  <2> QED
    BY <1>1, <2>1, <2>2, TakeUpWhole
<1>7. CASE Count \/ LoadAndCount \/ NothingToLoad \/ LoadFails
  <2>1. /\ current.block # Evt.block /\ inTransaction # <<>>
        /\ UNCHANGED <<current, inTransaction, last>> /\ Bad' = Bad
    BY <1>7 DEF Count, LoadAndCount, NothingToLoad, LoadFails, Complete, Arrived, Other, Bad
  <2>2. current.block # inTransaction[1][1]
    BY <1>1, <2>1, TheHead
  <2> QED
    BY <2>1, <2>2 DEF WholeInv
<1>8. CASE Crash
  <2>1. inTransaction' = <<>> /\ current' = None
    BY <1>8 DEF Crash
  <2>2. OwnBlock(<<>>) /\ Linking(Bad', <<>>) /\ EndsWell(Bad', <<>>, last')
    BY DEF OwnBlock, Linking, EndsWell
  <2> QED
    BY <2>1, <2>2 DEF WholeInv
<1>9. CASE UNCHANGED vars
  BY <1>9 DEF vars, WholeInv, Bad
<1> QED
  BY <1>2, <1>3, <1>4, <1>5, <1>6, <1>7, <1>8, <1>9 DEF Next, Process

(* What is stored for a block without a record is the whole of it.         *)
LEMMA SumWhole ==
  ASSUME BType, WholeInv, step = "store"
  PROVE  /\ ToSet(current.txs) \subseteq ToSet(Body[current.block])
         /\ current.block \notin Bad => current.txs = Body[current.block]
<1>1. /\ current # None /\ inTransaction # <<>> /\ current.block # inTransaction[1][1]
      /\ current \in Sum
  BY DEF BType, WholeInv
<1>2. ToSet(current.txs) \subseteq ToSet(Body[current.block]) /\ Fits(Bad, current, inTransaction)
  BY <1>1 DEF WholeInv
<1>3. ASSUME current.block \notin Bad PROVE current.txs = Body[current.block]
  <2>1. /\ Len(current.txs) = Len(Body[current.block])
        /\ \A i \in 1 .. Len(current.txs) : current.txs[i] = Body[current.block][i]
    BY <1>1, <1>2, <1>3 DEF Fits
  <2>2. current.txs \in Seq(Trx) /\ Body[current.block] \in Seq(Trx)
    BY <1>1, Bodies DEF Sum
  <2> QED
    BY <2>1, <2>2, SeqEqual
<1> QED
  BY <1>2, <1>3

LEMMA RecordNext == IInv /\ WholeInv /\ RecordWhole /\ [Next]_vars => RecordWhole'
<1> SUFFICES ASSUME IInv, WholeInv, RecordWhole, [Next]_vars,
                    NEW b \in Block, burns'[b] # None
             PROVE  /\ ToSet(burns'[b]) \subseteq ToSet(Body[b])
                    /\ b \notin Bad' => burns'[b] = Body[b]
  BY DEF RecordWhole, Recorded, Bad
<1> USE DEF seenVars, boundVars, burnVars
<1>1. Bad \subseteq Bad'
  <2>1. CASE InTurn \/ OutOfTurn
    <3>1. PICK d \in Block : Loads(d)
      BY <2>1 DEF InTurn, OutOfTurn
    <3>2. partial \subseteq partial'
      BY <3>1 DEF Loads
    <3>3. repeated \subseteq repeated'
      BY <3>1 DEF Loads, Arrive
    <3> QED
      BY <3>2, <3>3 DEF Bad
  <2>2. CASE UNCHANGED <<partial, repeated>>
    BY <2>2 DEF Bad
  <2> QED
    BY <2>1, <2>2 DEF Next, Process, First, Joins, Count, LoadAndCount, NothingToLoad, LoadFails,
       StoreBurn, StoreFails, Crash, vars
<1>2. ASSUME burns'[b] = burns[b]
      PROVE  ToSet(burns'[b]) \subseteq ToSet(Body[b]) /\ (b \notin Bad' => burns'[b] = Body[b])
  BY <1>1, <1>2 DEF RecordWhole, Recorded, Bad
<1>3. CASE StoreBurn
  <2>1. /\ step = "store"
        /\ burns' = [burns EXCEPT ![current.block] =
                       IF burns[current.block] = None THEN current.txs ELSE burns[current.block]]
        /\ Bad' = Bad
    BY <1>3 DEF StoreBurn, Bad
  <2>2. burns'[b] = burns[b] \/ (b = current.block /\ burns'[b] = current.txs)
    BY <2>1 DEF IInv, BType
  <2> QED
    BY <1>2, <2>1, <2>2, SumWhole DEF IInv
<1>4. CASE burns' = burns
  BY <1>2, <1>4
<1> QED
  BY <1>3, <1>4 DEF Next, Process, InTurn, OutOfTurn, First, Joins, Count, LoadAndCount,
     NothingToLoad, LoadFails, StoreFails, Crash, vars

(* A record holds fees of its own block only, and each transaction of the  *)
(* block once and in order, unless the block came incomplete or twice in a *)
(* row.                                                                    *)
THEOREM RecordIsWhole == Spec => []RecordWhole
<1>1. Init => RecordWhole
  BY DEF Init, RecordWhole, Recorded
<1> QED
  BY <1>1, InitInv, NextInv, InitWhole, NextWhole, RecordNext, PTL DEF Spec

-----------------------------------------------------------------------------
(* TotalFollows.  As long as blocks come in ascending order they also lie  *)
(* in ascending order in the channel, behind the one in work, and what has *)
(* a record is behind them all: so no block is counted that is counted     *)
(* already, and none is stored that has a record.                          *)

Ascending(q) == \A i, j \in 1 .. Len(q) : i <= j => q[i][1] <= q[j][1]
UpTo(q, h) == \A i \in 1 .. Len(q) : q[i][1] <= h

Foremost == IF current # None THEN current.block ELSE inTransaction[1][1]

Rising ==
  /\ Ascending(inTransaction) /\ UpTo(inTransaction, highest)
  /\ current # None => current.block <= highest
  /\ current # None /\ inTransaction # <<>> => current.block <= inTransaction[1][1]
  /\ \A b \in Recorded : b <= highest
  /\ current # None \/ inTransaction # <<>> => \A b \in Recorded : b < Foremost

Counting ==
  /\ container # None => current # None /\ Recorded # {}
  /\ container # None /\ ordered =>
       /\ container.block <= current.block
       /\ step = "idle" => container.block < current.block
       /\ ~off => container.value = Total + IF step = "store" THEN Len(current.txs) ELSE 0

TotalInv == (ordered => Rising) /\ Counting

LEMMA TotalSame ==
  ASSUME UNCHANGED burns
  PROVE  Total' = Total /\ Recorded' = Recorded
BY DEF Total, Amount, Recorded

(* A first record of a block raises the total by its size, a second one    *)
(* changes nothing.                                                        *)
LEMMA TotalStored ==
  ASSUME BType, StoreBurn, burns[current.block] = None
  PROVE  Total' = Total + Len(current.txs) /\ Recorded' = Recorded \union {current.block}
<1> DEFINE b == current.block
           txs == current.txs
<1>1. b \in Block /\ txs \in Seq(Trx) /\ Len(txs) \in Nat /\ txs # None
  BY BurnAssumption DEF StoreBurn, BType, Sum
<1>2. burns' = [burns EXCEPT ![b] = txs] /\ burns \in [Block -> Seq(Trx) \union {None}]
  BY DEF StoreBurn, BType
<1> HIDE DEF b, txs
<1>3. Recorded' = Recorded \union {b}
  BY <1>1, <1>2 DEF Recorded
<1>4. Amount \in [Block -> Nat] /\ Amount[b] = 0
  BY <1>1, TotalOfRecords DEF Amount, BType, b
<1>5. Amount' = [Amount EXCEPT ![b] = Len(txs)]
  BY <1>1, <1>2 DEF Amount
<1>6. SumOver(Amount)' = SumOver(Amount) + Len(txs)
  BY <1>1, <1>4, <1>5, SumGrows
<1> QED
  BY <1>3, <1>6 DEF Total, b, txs

LEMMA TailAscending ==
  ASSUME NEW q \in Seq(Block \X Trx), q # <<>>, NEW h, Ascending(q), UpTo(q, h)
  PROVE  LET r == Tail(q)
         IN  /\ Ascending(r) /\ UpTo(r, h) /\ q[1][1] <= h
             /\ r # <<>> => q[1][1] <= r[1][1]
<1> DEFINE r == Tail(q)
<1>1. /\ Len(q) \in Nat /\ Len(r) \in Nat /\ Len(r) = Len(q) - 1
      /\ \A i \in 1 .. Len(r) : r[i] = q[i + 1]
      /\ r = <<>> <=> Len(r) = 0
  <2>1. r \in Seq(Block \X Trx) /\ Len(r) = Len(q) - 1 /\ \A i \in 1 .. Len(r) : r[i] = q[i + 1]
    BY HeadTailProperties
  <2>2. Len(q) \in Nat /\ Len(r) \in Nat /\ (r = <<>> <=> Len(r) = 0)
    BY <2>1, LenProperties, EmptySeq
  <2> HIDE DEF r
  <2> QED
    BY <2>1, <2>2
<1> HIDE DEF r
<1>2. ASSUME NEW i \in 1 .. Len(r), NEW j \in 1 .. Len(r), i <= j PROVE r[i][1] <= r[j][1]
  <2>1. i + 1 \in 1 .. Len(q) /\ j + 1 \in 1 .. Len(q) /\ i + 1 <= j + 1 /\ r[i] = q[i + 1] /\ r[j] = q[j + 1]
    BY <1>1, <1>2
  <2> QED
    BY <2>1 DEF Ascending
<1>3. ASSUME NEW i \in 1 .. Len(r) PROVE r[i][1] <= h
  <2>1. i + 1 \in 1 .. Len(q) /\ r[i] = q[i + 1]
    BY <1>1
  <2> QED
    BY <2>1 DEF UpTo
<1>4. 1 \in 1 .. Len(q)
  BY <1>1
<1>5. ASSUME r # <<>> PROVE q[1][1] <= r[1][1]
  <2>1. 2 \in 1 .. Len(q) /\ 1 <= 2 /\ r[1] = q[2]
    BY <1>1, <1>5
  <2> QED
    BY <1>4, <2>1 DEF Ascending
<1> QED
  BY <1>2, <1>3, <1>4, <1>5 DEF Ascending, UpTo, r

LEMMA LongerAscending ==
  ASSUME NEW q \in Seq(Block \X Trx), NEW h \in Nat, Ascending(q), UpTo(q, h),
         NEW b \in Block, b > h, NEW loaded \in Seq(Trx), loaded # <<>>,
         NEW s, Longer(s, q, b, loaded)
  PROVE  /\ Ascending(s) /\ UpTo(s, b) /\ s # <<>>
         /\ s[1] = IF q = <<>> THEN <<b, loaded[1]>> ELSE q[1]
<1> DEFINE m == Len(q)
           n == Len(loaded)
<1>1. /\ s \in Seq(Block \X Trx) /\ Len(s) = m + n /\ m \in Nat /\ n \in Nat
      /\ \A i \in 1 .. m : s[i] = q[i]
      /\ \A i \in m + 1 .. m + n : s[i] = <<b, loaded[i - m]>>
  BY LenProperties DEF Longer
<1>2. \A i \in 1 .. m : q[i] \in Block \X Trx /\ q[i][1] <= h
  <2>1. q \in [1 .. m -> Block \X Trx]
    BY LenProperties
  <2> QED
    BY <2>1 DEF UpTo
<1>3. \A i, j \in 1 .. m : i <= j => q[i][1] <= q[j][1]
  BY DEF Ascending
<1>4. n # 0 /\ (q = <<>> <=> m = 0)
  BY EmptySeq, LenProperties
<1> HIDE DEF m, n
<1>5. b \in Int /\ \A i \in 1 .. m : q[i][1] \in Int
  BY <1>2, BlockDef
<1>6. ASSUME NEW i \in 1 .. m + n, NEW j \in 1 .. m + n, i <= j PROVE s[i][1] <= s[j][1] /\ s[i][1] <= b
  <2>1. CASE j \in 1 .. m
    <3>1. i \in 1 .. m
      BY <1>1, <1>6, <2>1
    <3>2. s[i] = q[i] /\ s[j] = q[j] /\ q[i][1] <= q[j][1] /\ q[i][1] <= h /\ q[i][1] \in Int
      BY <1>1, <1>2, <1>3, <1>5, <1>6, <2>1, <3>1
    <3> QED
      BY <1>5, <3>2
  <2>2. CASE i \in 1 .. m /\ j \in m + 1 .. m + n
    <3>1. s[i] = q[i] /\ q[i][1] <= h /\ q[i][1] \in Int
      BY <1>1, <1>2, <1>5, <2>2
    <3>2. s[j][1] = b
      BY <1>1, <2>2
    <3> QED
      BY <1>5, <3>1, <3>2
  <2>3. CASE i \in m + 1 .. m + n /\ j \in m + 1 .. m + n
    <3>1. s[i][1] = b
      BY <1>1, <2>3
    <3>2. s[j][1] = b
      BY <1>1, <2>3
    <3> QED
      BY <1>5, <3>1, <3>2
  <2> QED
    BY <1>1, <1>6, <2>1, <2>2, <2>3
<1>7. UpTo(s, b)
  <2>1. ASSUME NEW i \in 1 .. m + n PROVE s[i][1] <= b
    <3>1. i <= i
      BY <1>1
    <3> QED
      BY <1>6, <3>1
  <2> QED
    BY <1>1, <2>1 DEF UpTo
<1>8. s # <<>>
  <2>1. m + n # 0
    BY <1>1, <1>4
  <2> QED
    BY <1>1, <2>1, EmptySeq
<1>9. s[1] = IF q = <<>> THEN <<b, loaded[1]>> ELSE q[1]
  <2>1. m = 0 => 1 \in m + 1 .. m + n /\ 1 - m = 1
    BY <1>1, <1>4
  <2>2. m # 0 => 1 \in 1 .. m
    BY <1>1
  <2> QED
    BY <1>1, <1>4, <2>1, <2>2
<1> QED
  BY <1>1, <1>6, <1>7, <1>8, <1>9 DEF Ascending

(* Without a transaction the channel stays as it was. *)
LEMMA NoneArrives ==
  ASSUME BType, NEW b \in Block, Arrive(b, <<>>)
  PROVE  inTransaction' = inTransaction
<1>1. 1 .. Len(<<>>) = {}
  BY EmptySeq
<1>2. [i \in 1 .. Len(<<>>) |-> <<b, <<>>[i]>>] = <<>>
  BY <1>1
<1>3. inTransaction' = inTransaction \o <<>>
  BY <1>2 DEF Arrive
<1> QED
  BY <1>3, ConcatEmptySeq DEF BType

LEMMA ArriveTotal ==
  ASSUME BType, SeenType, TotalInv, NEW b \in Block, NEW loaded \in Seq(Trx), Arrive(b, loaded),
         UNCHANGED <<burns, current, step, container, off>>
  PROVE  TotalInv'
<1>1. Total' = Total /\ Recorded' = Recorded
  BY TotalSame
<1>2. ordered' => ordered
  BY DEF Arrive, SeenType
<1>3. Counting'
  BY <1>1, <1>2 DEF TotalInv, Counting
<1>4. ASSUME ordered' PROVE Rising'
  <2> DEFINE q == inTransaction
             s == inTransaction'
  <2>1. Rising /\ highest \in Nat
    BY <1>2, <1>4 DEF TotalInv, SeenType
  <2>2. CASE loaded = <<>>
    <3>1. s = q /\ highest' = highest
      BY <2>2, NoneArrives DEF Arrive
    <3> QED
      BY <1>1, <2>1, <3>1 DEF Rising, Foremost
  <2>3. CASE loaded # <<>>
    <3>1. b > highest /\ highest' = b
      BY <1>4, <2>3 DEF Arrive
    <3>2. Longer(s, q, b, loaded) /\ q \in Seq(Block \X Trx)
      BY LoadedEntries DEF Longer, Arrive, BType
    <3>3. Ascending(q) /\ UpTo(q, highest)
      BY <2>1 DEF Rising
    <3> HIDE DEF q, s
    <3>4. /\ Ascending(s) /\ UpTo(s, b) /\ s # <<>>
          /\ s[1] = IF q = <<>> THEN <<b, loaded[1]>> ELSE q[1]
      BY <2>1, <2>3, <3>1, <3>2, <3>3, LongerAscending
    <3> USE DEF q, s
    <3>5. b \in Int /\ (current # None => current.block \in Int) /\ \A d \in Recorded : d \in Int
      BY BlockDef DEF BType, Sum, Recorded
    <3>6. /\ current # None => current.block <= highest /\ current.block <= b
          /\ \A d \in Recorded : d <= highest /\ d <= b /\ d < b
      BY <2>1, <3>1, <3>5 DEF Rising
    <3>7. current # None => current.block <= s[1][1]
      BY <2>1, <3>4, <3>6 DEF Rising
    <3>8. \A d \in Recorded : d < IF current # None THEN current.block ELSE s[1][1]
      BY <2>1, <3>4, <3>6 DEF Rising, Foremost
    <3> QED
      BY <1>1, <3>1, <3>4, <3>6, <3>7, <3>8 DEF Rising, Foremost
  <2> QED
    BY <2>2, <2>3
<1> QED
  BY <1>3, <1>4 DEF TotalInv

LEMMA LoadsTotal ==
  ASSUME BType, SeenType, TotalInv, NEW b \in Block, Loads(b),
         UNCHANGED <<burns, current, step, container, off>>
  PROVE  TotalInv'
<1>1. CASE Arrive(b, Body[b])
  BY <1>1, Bodies, ArriveTotal
<1>2. CASE \E i \in DOMAIN Body[b] : Arrive(b, RemoveAt(Body[b], i))
  BY <1>2, Bodies, ArriveTotal
<1> QED
  BY <1>1, <1>2 DEF Loads

(* The head of the channel leaves it; it is, or joins, the sum in work.    *)
LEMMA TakenRising ==
  ASSUME BType, Rising, inTransaction # <<>>, inTransaction' = Tail(inTransaction),
         current' # None, current'.block = inTransaction[1][1], highest' = highest,
         \A b \in Recorded' : b < inTransaction[1][1] /\ b <= highest
  PROVE  Rising'
<1> DEFINE q == inTransaction
           r == Tail(q)
<1>1. q \in Seq(Block \X Trx) /\ q # <<>> /\ Ascending(q) /\ UpTo(q, highest)
  BY DEF BType, Rising
<1>2. /\ Ascending(r) /\ UpTo(r, highest) /\ q[1][1] <= highest
      /\ r # <<>> => q[1][1] <= r[1][1]
  <2> HIDE DEF q
  <2> QED
    BY <1>1, TailAscending
<1> QED
  BY <1>2 DEF Rising, Foremost

(* The record of the sum in work is stored or refused, and the head of the *)
(* channel begins the next sum.                                            *)
LEMMA StoreTotal ==
  ASSUME BType, ContainerType, SeenType, WholeInv, TotalInv, StoreBurn \/ StoreFails
  PROVE  TotalInv'
<1> DEFINE e == inTransaction[1]
<1>1. /\ step = "store" /\ current # None /\ current \in Sum /\ inTransaction # <<>>
      /\ current' = Evt /\ inTransaction' = Tail(inTransaction) /\ step' = "idle"
      /\ container' = container /\ ordered' = ordered /\ highest' = highest
  BY DEF StoreBurn, StoreFails, NextSum, BType, seenVars
<1>2. /\ e[1] \in Block /\ Evt.block = e[1] /\ Evt # None /\ current.block # e[1]
      /\ current.block \in Block /\ Len(current.txs) \in Nat
  BY <1>1, TheHead, EvtType, LenProperties DEF WholeInv, Sum
<1>3. e[1] \in Int /\ current.block \in Int /\ highest \in Int
  BY <1>2, BlockDef DEF SeenType
<1>4. Recorded \subseteq Recorded' /\ Recorded' \subseteq Recorded \union {current.block}
  BY <1>2, BurnAssumption DEF StoreBurn, StoreFails, Recorded, BType
<1>5. ASSUME ordered
      PROVE  /\ current.block < e[1] /\ Rising' /\ burns[current.block] = None
             /\ \A b \in Recorded : b < current.block
  <2>1. /\ Rising /\ current.block <= e[1] /\ current.block <= highest
        /\ \A b \in Recorded : b < current.block /\ b <= highest
    BY <1>1, <1>5 DEF TotalInv, Rising, Foremost
  <2>2. current.block < e[1]
    BY <1>2, <1>3, <2>1
  <2>3. \A b \in Recorded : b \in Int
    BY BlockDef DEF Recorded
  <2>4. \A b \in Recorded' : b < e[1] /\ b <= highest
    BY <1>3, <1>4, <2>1, <2>2, <2>3
  <2>5. burns[current.block] = None
    <3>1. ~(current.block < current.block)
      BY <1>3
    <3> QED
      BY <1>2, <2>1, <3>1 DEF Recorded
  <2>6. Rising'
    BY <1>1, <1>2, <2>1, <2>4, TakenRising
  <2> QED
    BY <2>1, <2>2, <2>5, <2>6
<1>6. ASSUME container # None PROVE current' # None /\ Recorded' # {}
  BY <1>1, <1>2, <1>4, <1>6 DEF TotalInv, Counting
<1>7. ASSUME container # None, ordered
      PROVE  /\ container.block < e[1] /\ container.block <= e[1]
             /\ ~off' => container.value = Total'
  <2>1. container.block <= current.block /\ container.block \in Int
    BY <1>7 DEF TotalInv, Counting, ContainerType, Container
  <2>2. container.block < e[1] /\ container.block <= e[1]
    BY <1>3, <1>5, <1>7, <2>1
  <2>3. CASE StoreBurn
    <3>1. off' = off /\ Total' = Total + Len(current.txs)
      BY <1>5, <1>7, <2>3, TotalStored DEF StoreBurn
    <3> QED
      BY <1>1, <1>7, <2>2, <3>1 DEF TotalInv, Counting
  <2>4. CASE StoreFails
    BY <2>2, <2>4 DEF StoreFails
  <2> QED
    BY <2>3, <2>4
<1>8. container # None => container.value \in Nat
  BY DEF ContainerType, Container
<1>9. Counting'
  BY <1>1, <1>2, <1>6, <1>7, <1>8 DEF Counting
<1> QED
  BY <1>1, <1>5, <1>9 DEF TotalInv

LEMMA InitTotal == Init => TotalInv
<1> SUFFICES ASSUME Init PROVE TotalInv
  OBVIOUS
<1>1. inTransaction = <<>> /\ current = None /\ container = None /\ Recorded = {}
  BY DEF Init, Recorded
<1>2. Ascending(<<>>) /\ UpTo(<<>>, highest)
  BY DEF Ascending, UpTo
<1> QED
  BY <1>1, <1>2 DEF TotalInv, Rising, Counting

LEMMA TotalNext == TypeOK /\ WholeInv /\ TotalInv /\ [Next]_vars => TotalInv'
<1> SUFFICES ASSUME TypeOK, WholeInv, TotalInv, [Next]_vars PROVE TotalInv'
  OBVIOUS
<1> USE DEF seenVars, boundVars, burnVars
<1>1. BType /\ ContainerType /\ SeenType
  BY TypeParts
<1>2. CASE InTurn \/ OutOfTurn
  <2>1. UNCHANGED <<burns, current, step, container, off>> /\ \E b \in Block : Loads(b)
    BY <1>2 DEF InTurn, OutOfTurn
  <2> QED
    BY <1>1, <2>1, LoadsTotal
<1>3. CASE First
  <2>1. /\ current = None /\ inTransaction # <<>> /\ current' = Evt
        /\ inTransaction' = Tail(inTransaction)
        /\ UNCHANGED <<burns, container, ordered, highest>>
    BY <1>3 DEF First, Arrived
  <2>2. current' # None /\ current'.block = inTransaction[1][1]
    BY <1>1, <2>1, TheHead, EvtType
  <2>3. container = None
    BY <2>1 DEF TotalInv, Counting
  <2>4. Recorded' = Recorded
    BY <2>1, TotalSame
  <2>5. ordered => Rising'
    <3> SUFFICES ASSUME ordered PROVE Rising'
      OBVIOUS
    <3>1. Rising /\ \A b \in Recorded : b < inTransaction[1][1] /\ b <= highest
      BY <2>1 DEF TotalInv, Rising, Foremost
    <3> QED
      BY <1>1, <2>1, <2>2, <2>4, <3>1, TakenRising
  <2> QED
    BY <2>1, <2>3, <2>5 DEF TotalInv, Counting
<1>4. CASE Joins
  <2>1. /\ current # None /\ inTransaction # <<>> /\ current.block = Evt.block
        /\ step = "idle" /\ inTransaction' = Tail(inTransaction)
        /\ current' = [current EXCEPT !.txs = current.txs \o Evt.txs]
        /\ UNCHANGED <<burns, step, container, ordered, highest, off>>
    BY <1>4 DEF Joins, Arrived, Other
  <2>2. current'.block = inTransaction[1][1] /\ current.block = inTransaction[1][1]
        /\ current' # None
    <3>1. current \in Sum /\ Evt \in Sum /\ Evt.block = inTransaction[1][1]
      BY <1>1, <2>1, TheHead, EvtType DEF BType
    <3>2. current.txs \o Evt.txs \in Seq(Trx)
      BY <3>1 DEF Sum
    <3>3. current' \in Sum /\ current'.block = current.block
      BY <2>1, <3>1, <3>2 DEF Sum
    <3> QED
      BY <2>1, <3>1, <3>3, NoneAssumption
  <2>3. Recorded' = Recorded /\ Total' = Total
    BY <2>1, TotalSame
  <2>4. ordered => Rising'
    <3> SUFFICES ASSUME ordered PROVE Rising'
      OBVIOUS
    <3>1. Rising /\ \A b \in Recorded : b < inTransaction[1][1] /\ b <= highest
      BY <2>1, <2>2 DEF TotalInv, Rising, Foremost
    <3> QED
      BY <1>1, <2>1, <2>2, <2>3, <3>1, TakenRising
  <2>5. Counting'
    BY <2>1, <2>2, <2>3 DEF TotalInv, Counting
  <2> QED
    BY <2>1, <2>4, <2>5 DEF TotalInv
<1>5. CASE StoreBurn \/ StoreFails
  BY <1>1, <1>5, StoreTotal
<1>6. CASE Count \/ LoadAndCount \/ NothingToLoad \/ LoadFails
  <2>1. /\ step = "idle" /\ current # None /\ current \in Sum /\ step' = "store"
        /\ UNCHANGED <<burns, current, inTransaction, ordered, highest>>
    BY <1>1, <1>6 DEF Count, LoadAndCount, NothingToLoad, LoadFails, Complete, Arrived, BType
  <2>2. Recorded' = Recorded /\ Total' = Total
    BY <2>1, TotalSame
  <2>3. ordered' => Rising'
    BY <2>1, <2>2 DEF TotalInv, Rising, Foremost
  <2>4. current.block \in Int /\ Len(current.txs) \in Nat
    BY <2>1, BlockDef, LenProperties DEF Sum
  <2>5. Counting'
    <3>1. CASE Count
      <4>1. container # None /\ container' = Counted(container) /\ off' = off
            /\ container \in Container
        BY <1>1, <3>1 DEF Count, Fresh, ContainerType
      <4>2. ASSUME ordered
            PROVE  /\ Counted(container).block = current.block
                   /\ Counted(container).value = container.value + Len(current.txs)
        <5>1. container.block < current.block /\ container.block \in Int
          BY <2>1, <4>1, <4>2 DEF TotalInv, Counting, Container
        <5>2. ~(current.block <= container.block)
          BY <2>4, <5>1
        <5>3. Counted(container) = [container EXCEPT !.block = current.block,
                                                     !.value = container.value + Len(current.txs)]
          BY <5>2 DEF Counted
        <5> QED
          BY <4>1, <5>3 DEF Container
      <4>3. Total \in Nat
        BY <1>1, TotalOfRecords DEF BType
      <4>4. ordered /\ ~off => container.value + Len(current.txs) = Total + Len(current.txs)
        BY <2>1, <4>1, <4>3 DEF TotalInv, Counting
      <4>5. Recorded # {}
        BY <4>1 DEF TotalInv, Counting
      <4> QED
        BY <2>1, <2>2, <2>4, <4>1, <4>2, <4>4, <4>5 DEF Counting
    <3>2. CASE LoadAndCount
      <4>1. container' = Counted(Loaded(current.block)) /\ Recorded # {}
        BY <3>2 DEF LoadAndCount
      <4>2. container'.value = Total + Len(current.txs) /\ container'.block = current.block
        BY <1>1, <2>1, <4>1, LoadedType
      <4> QED
        BY <2>1, <2>2, <2>4, <4>1, <4>2 DEF Counting
    <3>3. CASE NothingToLoad
      <4>1. Recorded = {} /\ container' = container
        BY <3>3 DEF NothingToLoad
      <4>2. container = None
        BY <4>1 DEF TotalInv, Counting
      <4> QED
        BY <4>1, <4>2 DEF Counting
    <3>4. CASE LoadFails
      <4>1. container' = container /\ off' = TRUE
        BY <3>4 DEF LoadFails
      <4> QED
        BY <2>1, <2>2, <4>1 DEF TotalInv, Counting
    <3> QED
      BY <1>6, <3>1, <3>2, <3>3, <3>4
  <2> QED
    BY <2>3, <2>5 DEF TotalInv
<1>7. CASE Crash
  <2>1. /\ inTransaction' = <<>> /\ current' = None /\ container' = None
        /\ UNCHANGED <<burns, ordered, highest>>
    BY <1>7 DEF Crash
  <2>2. Ascending(<<>>) /\ UpTo(<<>>, highest)
    BY DEF Ascending, UpTo
  <2>3. Recorded' = Recorded
    BY <2>1, TotalSame
  <2> QED
    BY <2>1, <2>2, <2>3 DEF TotalInv, Rising, Counting
<1>8. CASE UNCHANGED vars
  <2>1. Recorded' = Recorded /\ Total' = Total
    BY <1>8, TotalSame DEF vars
  <2>2. Rising => Rising'
    BY <1>8, <2>1 DEF vars, Rising, Foremost
  <2>3. Counting'
    BY <1>8, <2>1 DEF vars, TotalInv, Counting
  <2> QED
    BY <1>8, <2>2, <2>3 DEF vars, TotalInv
<1> QED
  BY <1>2, <1>3, <1>4, <1>5, <1>6, <1>7, <1>8 DEF Next, Process

(* While blocks come in ascending order, the total in memory is that of    *)
(* the database after each record; after a failure from the next reload on.*)
THEOREM TotalIsKept == Spec => []TotalFollows
<1>1. TypeOK /\ TotalInv => TotalFollows
  <2> SUFFICES ASSUME TypeOK, TotalInv, step = "idle", container # None, ordered, ~off
               PROVE  container.value = Total
    BY DEF TotalFollows
  <2>1. container.value = Total + 0
    BY DEF TotalInv, Counting
  <2>2. Total \in Nat
    BY TypeParts, TotalOfRecords DEF BType
  <2> QED
    BY <2>1, <2>2
<1> QED
  BY <1>1, TypeCorrect, InitInv, NextInv, InitWhole, NextWhole, InitTotal, TotalNext, PTL DEF Spec

-----------------------------------------------------------------------------
(* No block that was passed is left without a record, for any chain, any   *)
(* order of delivery and any number of failures and stops.                 *)
THEOREM NothingUnrecorded == Spec => []PassedRecorded
<1>1. IInv => PassedRecorded
  <2>1. Blocks(<<>>) = {}
    BY DEF Blocks
  <2> QED
    BY <2>1 DEF IInv, Carried, InWork, BType, PassedRecorded
<1> QED
  BY <1>1, InitInv, NextInv, PTL DEF Spec

=============================================================================
