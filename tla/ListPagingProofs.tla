--------------------------- MODULE ListPagingProofs ---------------------------
(***************************************************************************)
(* Proofs about the lists of ListPaging, for every number of records and   *)
(* every page size: what a walk along the cursors shows.                   *)
(***************************************************************************)
EXTENDS ListPaging, FiniteSetTheorems, WellFoundedInduction, TLAPS

(* A set of natural numbers has a least element. *)
LEMMA Least ==
  ASSUME NEW S \in SUBSET Nat, S # {}
  PROVE  \E m \in S : \A s \in S : m <= s
<1>1. PICK m \in S : \A s \in S : <<s, m>> \notin OpToRel(<, Nat)
  BY WFMin, NatLessThanWellFounded, Zenon
<1>2. ASSUME NEW s \in S PROVE ~(s < m)
  BY <1>1, Zenon DEF OpToRel
<1>. QED BY <1>2

(* A bounded one has a greatest element. *)
LEMMA Greatest ==
  ASSUME NEW n \in Nat, NEW S \in SUBSET (0 .. n), S # {}
  PROVE  \E m \in S : \A s \in S : s <= m
<1>. DEFINE T == {n - s : s \in S}
<1>1. T \in SUBSET Nat /\ T # {}
  <2>1. ASSUME NEW s \in S PROVE n - s \in Nat OBVIOUS
  <2>. QED BY <2>1
<1>2. PICK t \in T : \A s \in T : t <= s BY <1>1, Least
<1>. QED BY <1>2

(* Records are finitely many, in either direction there is a first and a last. *)
LEMMA EdgesExist ==
  ASSUME NEW S \in SUBSET Ordinal, S # {}
  PROVE  Nearest(S) # {} /\ Farthest(S) # {}
<1>1. PICK m \in S : \A s \in S : s <= m
  <2>1. MaxOrdinal \in Nat /\ S \in SUBSET (0 .. MaxOrdinal)
    BY PagingAssumption DEF Ordinal
  <2>. QED BY <2>1, Greatest
<1>2. PICK l \in S : \A s \in S : l <= s
  BY Least DEF Ordinal
<1>3. \A s \in S : s \in Nat BY DEF Ordinal
<1>. QED BY <1>1, <1>2, <1>3 DEF Nearest, Farthest, Before

-------------------------------------------------------------------------------

(* A cut only removes. *)
LEMMA CutSubset ==
  ASSUME NEW p PROVE Cut(p) \subseteq p
BY DEF Cut

(* The flags, the page and the border have their types. *)
LEMMA TypeStep == TypeOK /\ [Next]_vars => TypeOK'
<1>. SUFFICES ASSUME TypeOK, [Next]_vars PROVE TypeOK' OBVIOUS
<1>1. ASSUME NEW r \in Ordinal, Insert(r) PROVE TypeOK'
  BY <1>1 DEF Insert, TypeOK, request, answer, walk
<1>9. ASSUME NEW r \in Ordinal, NEW s \in Ordinal, Move(r, s) PROVE TypeOK'
  BY <1>9 DEF Move, TypeOK
<1>2. CASE Begin
  BY <1>2 DEF Begin, TypeOK, request, answer, walk
<1>3. CASE CountRecords
  BY <1>3 DEF CountRecords, TypeOK, request, answer, walk
<1>4. CASE FindBorder
  <2>1. Border \subseteq Ordinal BY DEF Border, Nearest, TypeOK
  <2>. QED BY <2>1, <1>4 DEF FindBorder, TypeOK, request, answer, walk
<1>5. CASE LoadPage
  <2>1. page' \subseteq recs
    BY <1>5, CutSubset DEF LoadPage, Appended, Collected, Rows, Matching
  <2>2. isStart' \in BOOLEAN /\ isEnd' \in BOOLEAN
    BY <1>5 DEF LoadPage, StartFlag, EndFlag
  <2>3. near' \in recs \union {NoCursor} /\ far' \in recs \union {NoCursor}
    BY <2>1, <1>5 DEF LoadPage, Edge, Nearest, Farthest
  <2>. QED BY <2>1, <2>2, <2>3, <1>5 DEF LoadPage, TypeOK, request
<1>6. CASE NextPage
  BY <1>6 DEF NextPage, TypeOK, answer, walk
<1>7. CASE TurnRound
  <2>1. -count \in Count BY PagingAssumption DEF TypeOK, Count
  <2>. QED BY <2>1, <1>7 DEF TurnRound, TypeOK, answer
<1>8. CASE UNCHANGED vars
  BY <1>8 DEF vars, TypeOK, request, answer, walk
<1>. QED BY <1>1, <1>2, <1>3, <1>4, <1>5, <1>6, <1>7, <1>8, <1>9 DEF Next

(* Pages show stored records, and every page starts at a record, whatever  *)
(* is inserted between the three queries of a request.                     *)
THEOREM TypeCorrect == Spec => []TypeOK
<1>1. Init => TypeOK BY PagingAssumption DEF Init, TypeOK, Count
<1>. QED BY <1>1, TypeStep, PTL DEF Spec

-------------------------------------------------------------------------------

(* The order of a query is a strict total order of the records. *)
LEMMA BeforeOrder ==
  ASSUME count \in Count, NEW r \in Ordinal, NEW s \in Ordinal, NEW t \in Ordinal
  PROVE  /\ ~Before(r, r)
         /\ Before(r, s) => ~Before(s, r)
         /\ Before(r, s) /\ Before(s, t) => Before(r, t)
         /\ r = s \/ Before(r, s) \/ Before(s, r)
BY DEF Before, Ordinal

(* Every set of records is finite. *)
LEMMA RecordsFinite ==
  ASSUME NEW S \in SUBSET Ordinal
  PROVE  IsFiniteSet(S) /\ Cardinality(S) \in Nat
<1>1. IsFiniteSet(Ordinal) BY PagingAssumption, FS_Interval DEF Ordinal
<1>. QED BY <1>1, FS_Subset, FS_CardinalityType

(* The rows of a query are the first ones of those that match, by the      *)
(* limit at least one, and all of them if less than asked for are left     *)
(* when the last one is held back.                                         *)
LEMMA QueryRows ==
  ASSUME TypeOK
  PROVE  /\ Rows \subseteq Matching
         /\ \A r \in Rows, s \in Matching \ Rows : Before(r, s)
         /\ Reached => Rows = Matching
         /\ Rows = {} => Matching = {}
         /\ Cardinality(Rows) <= Cardinality(Collected) + 1
         /\ Cardinality(Collected) <= Size
<1>. DEFINE M == Matching
            Ahead(r) == {s \in M : Before(s, r)}
<1>1. M \subseteq Ordinal /\ Rows \subseteq M /\ Size \in Nat /\ Size >= 1
  BY PagingAssumption DEF TypeOK, Matching, Rows, Size, Count
<1>2. \A r \in M : Ahead(r) \subseteq Ordinal BY <1>1
<1>3. \A r \in M : IsFiniteSet(Ahead(r)) /\ Cardinality(Ahead(r)) \in Nat
  BY <1>2, RecordsFinite
<1>4. \A r \in M : r \in Rows <=> Cardinality(Ahead(r)) <= Size
  BY DEF Rows
<1>5. ASSUME NEW r \in Rows, NEW s \in M, Before(s, r) PROVE s \in Rows
  <2>1. Ahead(s) \subseteq Ahead(r) BY <1>1, <1>5, BeforeOrder DEF TypeOK
  <2>2. Cardinality(Ahead(s)) <= Cardinality(Ahead(r))
    BY <2>1, <1>1, <1>3, FS_Subset
  <2>3. Cardinality(Ahead(s)) \in Nat /\ Cardinality(Ahead(r)) \in Nat
    BY <1>1, <1>3
  <2>4. Cardinality(Ahead(r)) <= Size BY <1>1, <1>4
  <2>5. Cardinality(Ahead(s)) <= Size BY <2>2, <2>3, <2>4, <1>1
  <2>. QED BY <2>5, <1>4
<1>6. \A r \in Rows, s \in M \ Rows : Before(r, s)
  BY <1>1, <1>5, BeforeOrder DEF TypeOK
<1>7. IsFiniteSet(Rows) /\ IsFiniteSet(Collected) /\ IsFiniteSet(Held)
  BY <1>1, RecordsFinite DEF Collected, Held, Farthest
<1>8. Cardinality(Rows) <= Cardinality(Collected) + 1
  <2>1. CASE Held = {}
    <3>1. Collected = Rows BY <2>1 DEF Collected
    <3>. QED BY <3>1, <1>7, FS_CardinalityType
  <2>2. CASE Held # {}
    <3>1. PICK h \in Held : TRUE BY <2>2
    <3>2. Collected = Rows \ {h}
      BY <1>1, <3>1, BeforeOrder DEF Collected, Held, Farthest, TypeOK
    <3>. QED BY <3>2, <1>7, FS_RemoveElement, FS_CardinalityType
  <2>. QED BY <2>1, <2>2
<1>9. ASSUME Reached PROVE Rows = M
  <2>. SUFFICES ASSUME M \ Rows # {} PROVE FALSE BY <1>1
  <2>1. PICK m \in Nearest(M \ Rows) : TRUE
    BY <1>1, EdgesExist
  <2>2. m \in M \ Rows /\ Ahead(m) \subseteq Rows
    BY <2>1, <1>1, BeforeOrder DEF Nearest, TypeOK
  <2>3. Cardinality(Ahead(m)) <= Cardinality(Rows) BY <2>2, <1>7, FS_Subset
  <2>4. Cardinality(Collected) < Size BY <1>9 DEF Reached
  <2>. QED BY <2>2, <2>3, <2>4, <1>1, <1>3, <1>4, <1>7, <1>8, FS_CardinalityType
<1>10. ASSUME Rows = {} PROVE M = {}
  <2>. SUFFICES ASSUME M # {} PROVE FALSE OBVIOUS
  <2>1. PICK m \in Nearest(M) : TRUE BY <1>1, EdgesExist
  <2>2. m \in M /\ Ahead(m) = {}
    BY <2>1, <1>1, BeforeOrder DEF Nearest, TypeOK
  <2>. QED BY <2>2, <1>1, <1>4, <1>10, FS_EmptySet
<1>11. Cardinality(Collected) <= Size
  <2>1. CASE Rows = {}
    <3>1. Collected = {} BY <2>1 DEF Collected
    <3>. QED BY <3>1, <1>1, FS_EmptySet
  <2>2. CASE Rows # {}
    <3>1. PICK h \in Held : TRUE BY <2>2, <1>1, EdgesExist DEF Held
    <3>2. h \in M /\ Collected \subseteq Ahead(h)
      BY <3>1, <1>1 DEF Collected, Held, Farthest
    <3>3. Cardinality(Ahead(h)) <= Size
      BY <3>1, <1>1, <1>4 DEF Held, Farthest
    <3>4. Cardinality(Collected) <= Cardinality(Ahead(h))
      BY <3>2, <1>3, FS_Subset
    <3>5. Cardinality(Ahead(h)) \in Nat /\ Cardinality(Collected) \in Nat
      BY <3>2, <1>3, <1>7, FS_CardinalityType
    <3>. QED BY <3>3, <3>4, <3>5, <1>1
  <2>. QED BY <2>1, <2>2
<1>. QED BY <1>1, <1>6, <1>8, <1>9, <1>10, <1>11

(* What a page takes of the records that match: all of them when the flag  *)
(* of the far side is up, else the first of them, but where the list cuts  *)
(* off the first one of all.                                               *)
LEMMA PageTakes ==
  ASSUME TypeOK
  PROVE  LET p == Cut(Appended) IN
         /\ p \subseteq Matching
         /\ \A r \in p, s \in Matching \ p :
              Before(r, s) \/ (Cuts /\ cursor = NoCursor /\ s \in Nearest(Matching))
         /\ FarFlag => p = Matching
<1>. DEFINE p == Cut(Appended)
<1>1. Matching \subseteq Ordinal /\ Size \in Nat /\ Size >= 1
  BY PagingAssumption DEF TypeOK, Matching, Size, Count
<1>2. Appended \subseteq Rows /\ Collected \subseteq Appended
  BY DEF Appended, Collected
<1>3. Appended \subseteq Matching /\ p \subseteq Matching
  BY <1>2, CutSubset, QueryRows
<1>4. \A r \in Appended, s \in Matching \ Appended : Before(r, s)
  <2>1. \A r \in Collected, s \in Matching \ Collected : Before(r, s)
    BY QueryRows DEF Collected, Held, Farthest
  <2>. QED BY <2>1, QueryRows DEF Appended
<1>5. /\ Cardinality(Rows) \in Nat /\ Cardinality(Collected) \in Nat
      /\ IsFiniteSet(Appended) /\ Cardinality(Appended) \in Nat
  BY <1>1, <1>2, QueryRows, RecordsFinite DEF Collected
<1>6. ASSUME FarFlag PROVE p = Matching
  <2>1. Appended = Rows /\ Rows = Matching
    BY <1>6, QueryRows DEF Appended, FarFlag
  <2>2. Cardinality(Rows) <= Size
    BY <1>1, <1>5, <1>6, QueryRows DEF FarFlag, Reached
  <2>. QED BY <2>1, <2>2, <1>1, <1>5 DEF Cut
<1>7. ASSUME NEW r \in p, NEW s \in Matching \ p
      PROVE  Before(r, s) \/ (Cuts /\ cursor = NoCursor /\ s \in Nearest(Matching))
  <2>1. CASE ~(list.cut /\ Cardinality(Appended) > Size)
    BY <2>1, <1>4, <1>7 DEF Cut
  <2>2. CASE s \notin Appended
    BY <2>2, <1>2, <1>4, <1>7, CutSubset
  <2>3. CASE list.cut /\ Cardinality(Appended) > Size /\ s \in Appended
    <3>1. /\ r \in Appended /\ \E x \in Appended : x < r
          /\ \A x \in Appended : ~(x < s)
      BY <1>7, <2>3 DEF Cut
    <3>2. Appended \subseteq Int /\ s \in Int /\ r \in Int
      <4>1. \A x \in Matching : x \in Int BY <1>1 DEF Ordinal
      <4>2. r \in Matching /\ s \in Matching BY <1>3, <1>7
      <4>. QED BY <4>1, <4>2, <1>3
    <3>3. CASE count > 0
      <4>1. s # r BY <1>7
      <4>2. ~(r < s) \/ Before(s, r) BY <3>2, <3>3 DEF Before
      <4>. QED BY <4>1, <3>1, <3>2, <3>3 DEF Before
    <3>4. CASE ~(count > 0)
      <4>1. count < 0 BY <3>4 DEF TypeOK, Count
      <4>2. ASSUME NEW x \in Appended PROVE s = x \/ Before(s, x)
        <5>1. ~(x < s) /\ x \in Int /\ s \in Int BY <3>1, <3>2, <4>2
        <5>. QED BY <5>1, <3>4 DEF Before
      <4>3. s \in Nearest(Matching)
        BY <4>2, <1>4, <1>7, <2>3 DEF Nearest
      <4>4. Appended # Collected
        BY <2>3, <1>1, <1>5, QueryRows
      <4>5. ~FarFlag
        BY <2>3, <1>1, <1>2, <1>5, QueryRows DEF Appended, FarFlag, Reached
      <4>6. OwnFlag /\ list.append = "any"
        BY <4>1, <4>4, <4>5 DEF Appended, StartFlag, EndFlag
      <4>7. cursor = NoCursor /\ list.marks = "both"
        BY <4>6, <2>3 DEF OwnFlag, TypeOK, List, Transactions, Withdrawals, RewardClaims,
           Delegations, Epochs, Erc20Transactions, FMintTransactions, Contracts, UniswapActions
      <4>. QED BY <4>1, <4>3, <4>6, <4>7, <2>3 DEF Cuts
    <3>. QED BY <3>3, <3>4
  <2>. QED BY <2>1, <2>2, <2>3
<1>. QED BY <1>3, <1>6, <1>7

(* An empty page has nothing ahead of it, or a single record of the        *)
(* Uniswap list.                                                           *)
LEMMA EmptyPage ==
  ASSUME TypeOK, Cut(Appended) = {}
  PROVE  IF Lone THEN \A r, s \in Matching : r = s ELSE Matching = {}
<1>. DEFINE p == Cut(Appended)
<1>1. Matching \subseteq Ordinal /\ Size \in Nat /\ Size >= 1 /\ Rows \subseteq Matching
  BY PagingAssumption, QueryRows DEF TypeOK, Matching, Size, Count
<1>2. Appended \subseteq Rows /\ Collected \subseteq Appended
  BY DEF Appended, Collected
<1>3. ASSUME Collected # {} PROVE FALSE
  <2>1. PICK a \in Appended : TRUE BY <1>2, <1>3
  <2>2. Cardinality(Appended) > Size BY <2>1 DEF Cut
  <2>3. Appended # {a}
    <3>1. Cardinality({a}) = 1 BY FS_Singleton
    <3>. QED BY <3>1, <2>2, <1>1
  <2>4. PICK b \in Appended : b # a BY <2>1, <2>3
  <2>5. a \in Nat /\ b \in Nat BY <1>1, <1>2, <2>1, <2>4 DEF Ordinal
  <2>6. a < b \/ b < a BY <2>4, <2>5
  <2>. QED BY <2>1, <2>4, <2>6 DEF Cut
<1>4. Reached /\ Rows = Matching
  <2>1. Reached BY <1>1, <1>3, FS_EmptySet DEF Reached
  <2>. QED BY <2>1, QueryRows
<1>5. CASE Lone
  <2>1. Matching \subseteq Farthest(Matching) BY <1>3, <1>4 DEF Collected, Held
  <2>. QED BY <2>1, <1>1, <1>5, BeforeOrder DEF Farthest, TypeOK
<1>6. CASE ~Lone
  <2>1. FarFlag
    BY <1>4, <1>6 DEF FarFlag, Lone, TypeOK, List, Transactions, Withdrawals, RewardClaims,
       Delegations, Epochs, Erc20Transactions, FMintTransactions, Contracts, UniswapActions
  <2>. QED BY <2>1, <1>6, PageTakes
<1>. QED BY <1>5, <1>6

-------------------------------------------------------------------------------

(***************************************************************************)
(* Where a walk is.  Everything it showed is no further ahead than its     *)
(* cursor, and of what lay ahead when it began everything is shown or      *)
(* still ahead of the cursor, with a page just loaded, of the page; but    *)
(* for the oldest record, which a list that cuts may have lost.            *)
(***************************************************************************)
Asking == pc \in {"count", "border", "load"}

LostBy(S) == (S # {} => Loses) /\ OnlyOldest(S)
BehindCursor == {s \in since \ shown : ~Before(cursor, s)}
BehindPage == {s \in since \ shown : \E r \in page : ~Before(r, s)}

WalkStarts ==
  /\ pc = "idle" => cursor = NoCursor
  /\ pc = "idle" \/ (Asking /\ cursor = NoCursor) => shown = {}
  /\ Asking /\ cursor = NoCursor => ~turned

WalkAsks ==
  Asking /\ cursor # NoCursor =>
    /\ \A s \in shown : s = cursor \/ Before(s, cursor)
    /\ LostBy(BehindCursor)

WalkLoads ==
  pc = "load" =>
    /\ cursor # NoCursor => first = cursor
    /\ cursor = NoCursor => \A s \in since : s = first \/ Before(first, s)

WalkAnswered ==
  pc = "answered" =>
    /\ page \subseteq shown
    /\ page # {} => near \in Nearest(page) /\ far \in Farthest(page)
    /\ page = {} => near = NoCursor
    /\ \A s \in shown, r \in page : s \in page \/ Before(s, r)
    /\ LostBy(BehindPage)

WalkInv ==
  /\ TypeOK /\ WalkStarts /\ WalkAsks /\ WalkLoads /\ WalkAnswered
  /\ WalkComplete

(* A page shows nothing that was shown, and it shows what was left if the  *)
(* flag says so.                                                           *)
LEMMA LoadStep ==
  ASSUME WalkInv, LoadPage
  PROVE  /\ \A r \in page', s \in shown : Before(s, r)
         /\ WalkInv'
<1>1. TypeOK /\ TypeOK' BY TypeStep DEF WalkInv, Next
<1>2. /\ pc = "load" /\ page' = Cut(Appended) /\ shown' = shown \union page'
      /\ near' \in Edge(Nearest(page')) /\ far' \in Edge(Farthest(page'))
      /\ UNCHANGED <<recs, list, cursor, count, first, since, turned>>
  BY DEF LoadPage, request
<1>3. page' \subseteq Matching /\ Matching \subseteq Ordinal
  BY <1>1, <1>2, PageTakes DEF Matching, TypeOK
<1>4. ASSUME NEW r \in page', NEW s \in shown PROVE Before(s, r)
  <2>1. cursor # NoCursor /\ first = cursor
    BY <1>2, <1>4 DEF WalkInv, WalkStarts, WalkLoads, Asking
  <2>2. Before(cursor, r) BY <1>3, <2>1 DEF Matching
  <2>3. s = cursor \/ Before(s, cursor)
    BY <1>2, <2>1 DEF WalkInv, WalkAsks, Asking
  <2>4. cursor \in Ordinal /\ r \in Ordinal /\ s \in Ordinal
    BY <1>1, <1>3, <2>1 DEF TypeOK
  <2>. QED BY <2>2, <2>3, <2>4, <1>1, BeforeOrder DEF TypeOK
<1>5. /\ since \subseteq Ordinal /\ count \in Int /\ count # 0
      /\ page' \subseteq Ordinal /\ shown \subseteq Ordinal
  BY <1>1, <1>2, <1>3, PagingAssumption DEF TypeOK, Count
<1>6. \A r, s \in Ordinal : Before(r, s)' <=> Before(r, s)
  BY <1>2 DEF Before
<1>7. (Loses' <=> Loses) /\ (Lone' <=> Lone)
  BY <1>2 DEF Loses, Cuts, Lone
(* What the page leaves behind was left behind before, or is cut off. *)
<1>8. ASSUME NEW S \in SUBSET (since \ shown'),
             cursor # NoCursor => \A s \in S : ~Before(cursor, s),
             cursor = NoCursor => \A s \in S : \E r \in page' : ~Before(r, s)
      PROVE  /\ S # {} => Loses
             /\ \A r \in S : (\A s \in S : s = r) /\ (\A s \in shown' : r < s)
  <2>1. CASE cursor # NoCursor
    <3>1. LostBy(BehindCursor) /\ S \subseteq BehindCursor
      BY <1>2, <1>8, <2>1 DEF WalkInv, WalkAsks, Asking, BehindCursor
    <3>2. ASSUME NEW s \in S, NEW x \in page' PROVE s < x
      <4>. s \in S /\ x \in page' BY <3>2
      <4>1. count < 0 BY <3>1, <3>2 DEF LostBy, Loses, Cuts
      <4>2. Before(cursor, x) /\ ~Before(cursor, s)
        BY <1>2, <1>3, <1>8, <2>1 DEF WalkInv, WalkLoads, Matching
      <4>3. s \in Int /\ x \in Int /\ cursor \in Int
        <5>1. s \in Ordinal /\ x \in Ordinal /\ cursor \in Ordinal
          BY <1>1, <1>5, <1>8, <2>1 DEF TypeOK
        <5>. QED BY <5>1 DEF Ordinal
      <4>. QED BY <4>1, <4>2, <4>3, <1>5 DEF Before
    <3>. QED BY <3>1, <3>2, <1>2 DEF LostBy, OnlyOldest
  <2>2. CASE cursor = NoCursor
    <3>1. /\ shown = {} /\ ~turned
          /\ \A s \in since : s \in Matching
      BY <1>1, <1>2, <2>2 DEF WalkInv, WalkStarts, WalkLoads, Asking, Matching, TypeOK
    <3>2. ASSUME NEW s \in S PROVE Cuts /\ s \in Nearest(Matching)
      <4>1. s \in Matching \ page' BY <1>2, <1>8, <3>1
      <4>2. PICK r \in page' : ~Before(r, s) BY <1>8, <2>2
      <4>. QED BY <4>1, <4>2, <1>1, <1>2, PageTakes
    <3>3. ASSUME NEW s \in S, NEW x \in page' PROVE s < x
      <4>1. x \in Matching /\ x # s /\ count < 0 BY <1>2, <1>3, <1>8, <3>2 DEF Cuts
      <4>2. Before(s, x) BY <3>2, <4>1 DEF Nearest
      <4>3. s \in Int /\ x \in Int
        <5>1. s \in Ordinal /\ x \in Ordinal BY <1>5, <1>8, <3>3
        <5>. QED BY <5>1 DEF Ordinal
      <4>. QED BY <4>1, <4>2, <4>3, <1>5 DEF Before
    <3>4. ASSUME NEW r \in S, NEW s \in S PROVE r = s
      BY <3>2, <1>1, <1>5, BeforeOrder DEF Nearest, TypeOK
    <3>. QED BY <3>1, <3>2, <3>3, <3>4, <1>2 DEF Loses
  <2>. QED BY <2>1, <2>2
<1>9. WalkAnswered'
  <2>1. page' \subseteq shown' /\ since' \subseteq Ordinal /\ shown' \subseteq Ordinal
    BY <1>1, <1>2, <1>3 DEF TypeOK
  <2>2. ASSUME NEW s \in shown', NEW r \in page'
        PROVE  s \in page' \/ Before(s, r)'
    BY <2>1, <2>2, <1>2, <1>4, <1>5, <1>6
  <2>3. LostBy(BehindPage)'
    <3>. DEFINE S == {s \in since \ shown' : \E r \in page' : ~Before(r, s)}
    <3>1. BehindPage' = S BY <2>1, <1>2, <1>5, <1>6 DEF BehindPage
    <3>2. ASSUME cursor # NoCursor, NEW s \in S PROVE ~Before(cursor, s)
      <4>. SUFFICES ASSUME Before(cursor, s) PROVE FALSE OBVIOUS
      <4>1. s \in Matching \ page'
        BY <1>1, <1>2, <3>2 DEF WalkInv, WalkLoads, Matching, TypeOK
      <4>. QED BY <4>1, <3>2, <1>1, <1>2, PageTakes
    <3>3. /\ S # {} => Loses
          /\ \A r \in S : (\A s \in S : s = r) /\ (\A s \in shown' : r < s)
      <4>1. /\ S \in SUBSET (since \ shown')
            /\ \A s \in S : \E r \in page' : ~Before(r, s)
        OBVIOUS
      <4>2. cursor # NoCursor => \A s \in S : ~Before(cursor, s) BY <3>2
      <4>. HIDE DEF S
      <4>. QED BY <4>1, <4>2, <1>8
    <3>. HIDE DEF S
    <3>. QED BY <3>1, <3>3, <1>7 DEF LostBy, OnlyOldest
  <2>4. /\ page' # {} => Nearest(page') # {} /\ Farthest(page') # {}
        /\ page' = {} => Nearest(page') = {}
    BY <1>5, EdgesExist DEF Nearest
  <2>5. /\ page' # {} => near' \in Nearest(page') /\ far' \in Farthest(page')
        /\ page' = {} => near' = NoCursor
    BY <2>4, <1>2 DEF Edge
  <2>6. Nearest(page)' = Nearest(page') /\ Farthest(page)' = Farthest(page')
    BY <1>2 DEF Nearest, Farthest, Before
  <2>. QED BY <2>1, <2>2, <2>3, <2>5, <2>6 DEF WalkAnswered
<1>10. WalkComplete'
  <2>. SUFFICES ASSUME (pc = "answered")', Finished'
                PROVE  /\ since' \ shown' # {} => (Lone \/ Loses)'
                       /\ OnlyOldest(since \ shown)'
    BY DEF WalkComplete
  <2>1. page' = {} \/ FarFlag
    <3>1. ~(count > 0 /\ count < 0) BY <1>5
    <3>2. (count > 0)' <=> count > 0 BY <1>2
    <3>3. (count < 0)' <=> count < 0 BY <1>2
    <3>. QED BY <3>1, <3>2, <3>3, Zenon DEF Finished, LoadPage, StartFlag, EndFlag
  <2>2. CASE page' = {} /\ Lone
    <3>1. since \subseteq Matching /\ shown = {}
      BY <1>1, <1>2, <2>2 DEF WalkInv, WalkStarts, WalkLoads, Asking, Matching, TypeOK, Lone
    <3>2. \A r, s \in Matching : r = s BY <1>1, <1>2, <2>2, EmptyPage
    <3>. QED BY <3>1, <3>2, <2>2, <1>2, <1>7 DEF OnlyOldest
  <2>3. CASE ~(page' = {} /\ Lone)
    <3>1. page' = Matching
      BY <2>1, <2>3, <1>1, <1>2, PageTakes, EmptyPage
    <3>. DEFINE S == since \ shown'
    <3>2. ASSUME cursor # NoCursor, NEW s \in S PROVE ~Before(cursor, s)
      BY <3>1, <3>2, <1>1, <1>2 DEF WalkInv, WalkLoads, Matching, TypeOK
    <3>3. cursor = NoCursor => S = {}
      BY <3>1, <1>1, <1>2 DEF WalkInv, WalkLoads, Matching, TypeOK
    <3>4. /\ S # {} => Loses
          /\ \A r \in S : (\A s \in S : s = r) /\ (\A s \in shown' : r < s)
      BY <3>2, <3>3, <1>2, <1>8
    <3>5. (since \ shown)' = S BY <1>2
    <3>. HIDE DEF S
    <3>. QED BY <3>4, <3>5, <1>7 DEF OnlyOldest
  <2>. QED BY <2>2, <2>3
<1>11. WalkStarts' /\ WalkAsks' /\ WalkLoads'
  BY DEF LoadPage, WalkStarts, WalkAsks, WalkLoads, Asking
<1>. QED BY <1>1, <1>4, <1>9, <1>10, <1>11 DEF WalkInv

(* Every step keeps the place of the walk. *)
LEMMA WalkStep == WalkInv /\ ~list.moves /\ [Next]_vars => WalkInv'
<1>. SUFFICES ASSUME WalkInv, ~list.moves, [Next]_vars PROVE WalkInv' OBVIOUS
<1>1. TypeOK /\ TypeOK' BY TypeStep DEF WalkInv
<1>2. ASSUME NEW r \in Ordinal, Insert(r) PROVE WalkInv'
  <2>1. UNCHANGED <<pc, list, cursor, count, first, page, isStart, isEnd, near, far,
                    shown, since, turned>>
    BY <1>2 DEF Insert, request, answer, walk
  <2>. QED BY <2>1, <1>1 DEF WalkInv, WalkStarts, WalkAsks, WalkLoads, WalkAnswered,
              WalkComplete, Asking, LostBy, BehindCursor, BehindPage, OnlyOldest, Before,
              Finished, Cuts, Loses, Lone, Nearest, Farthest
<1>3. CASE Begin
  <2>1. pc' = "count" /\ UNCHANGED <<cursor, shown>>
    BY <1>3 DEF Begin, request
  <2>2. cursor' = NoCursor /\ shown' = {} /\ ~turned'
    BY <2>1, <1>3 DEF Begin, WalkInv, WalkStarts
  <2>. QED BY <2>1, <2>2, <1>1 DEF WalkInv, WalkStarts, WalkAsks, WalkLoads,
              WalkAnswered, WalkComplete, Asking
<1>4. CASE CountRecords
  <2>1. UNCHANGED <<recs, list, cursor, count, first, shown, since, turned>>
    BY <1>4 DEF CountRecords, request, walk
  <2>2. CASE pc' = "border"
    BY <1>4, <2>1, <2>2, <1>1 DEF CountRecords, WalkInv, WalkStarts, WalkAsks, WalkLoads,
       WalkAnswered, WalkComplete, Asking, LostBy, BehindCursor, OnlyOldest, Before,
       Cuts, Loses
  <2>3. CASE pc' # "border"
    <3>1. pc' = "answered" /\ page' = {} /\ recs = {} /\ near' = NoCursor
      BY <1>4, <2>3 DEF CountRecords
    <3>2. since' = {} BY <3>1, <2>1, <1>1 DEF TypeOK
    <3>3. BehindPage' = {} BY <3>2 DEF BehindPage
    <3>. QED BY <3>1, <3>2, <3>3, <1>1 DEF WalkInv, WalkStarts, WalkAsks, WalkLoads,
                WalkAnswered, WalkComplete, Asking, LostBy, OnlyOldest
  <2>. QED BY <2>2, <2>3
<1>5. CASE FindBorder
  <2>1. UNCHANGED <<recs, list, cursor, count, shown, since, turned>> /\ pc = "border"
    BY <1>5 DEF FindBorder, request, walk
  <2>2. pc' \in {"load", "failed"} BY <1>5 DEF FindBorder
  <2>3. ASSUME pc' = "load", cursor # NoCursor PROVE first' = cursor
    BY <1>5, <2>3 DEF FindBorder, Border
  <2>4. ASSUME pc' = "load", cursor = NoCursor, NEW s \in recs
        PROVE  s = first' \/ Before(first', s)
    BY <1>5, <2>4 DEF FindBorder, Border, Nearest
  <2>5. WalkLoads'
    BY <2>1, <2>3, <2>4, <1>1 DEF WalkLoads, TypeOK, Before
  <2>6. WalkStarts' /\ WalkAsks'
    BY <2>1, <2>2, <1>1 DEF WalkInv, WalkStarts, WalkAsks, Asking, LostBy, BehindCursor,
       OnlyOldest, Before, Cuts, Loses
  <2>. QED BY <2>2, <2>5, <2>6, <1>1 DEF WalkInv, WalkAnswered, WalkComplete
<1>6. CASE LoadPage
  BY <1>6, LoadStep
<1>7. CASE NextPage
  <2>1. pc = "answered" /\ pc' = "count" /\ ~Finished
        /\ UNCHANGED <<list, count, page, shown, since, turned>>
    BY <1>7 DEF NextPage, answer, walk
  <2>2. cursor' \in page /\ \A s \in page : s = cursor' \/ Before(s, cursor')
    <3>1. page # {} /\ cursor' = far BY <1>7 DEF NextPage, Finished
    <3>. QED BY <3>1, <2>1 DEF WalkInv, WalkAnswered, Farthest
  <2>3. cursor' # NoCursor BY <2>2, <1>1 DEF TypeOK, Ordinal, NoCursor
  <2>4. WalkAsks'
    <3>1. BehindCursor' \subseteq BehindPage
      BY <2>1, <2>2 DEF BehindCursor, BehindPage, Before
    <3>2. LostBy(BehindPage) /\ (Loses' <=> Loses)
      BY <2>1 DEF WalkInv, WalkAnswered, Loses, Cuts
    <3>3. LostBy(BehindCursor)' BY <3>1, <3>2, <2>1 DEF LostBy, OnlyOldest
    <3>4. \A s \in shown' : s = cursor' \/ Before(s, cursor)'
      BY <2>1, <2>2 DEF WalkInv, WalkAnswered, Before
    <3>. QED BY <3>3, <3>4 DEF WalkAsks
  <2>. QED BY <2>1, <2>3, <2>4, <1>1 DEF WalkInv, WalkStarts, WalkLoads, WalkAnswered,
              WalkComplete, Asking
<1>8. CASE TurnRound
  <2>1. pc' = "count" /\ count' = -count /\ shown' = {}
    BY <1>8 DEF TurnRound
  <2>2. cursor' \in page /\ since' = {s \in recs : Before(s, cursor')}
    BY <1>8 DEF TurnRound, WalkInv, WalkAnswered, Nearest
  <2>3. cursor' # NoCursor BY <2>2, <1>1 DEF TypeOK, Ordinal, NoCursor
  <2>4. ASSUME NEW s \in since' PROVE Before(cursor, s)'
    <3>1. Before(s, cursor') BY <2>2, <2>4
    <3>2. count \in Int /\ count # 0 BY <1>1, PagingAssumption DEF TypeOK, Count
    <3>3. s \in Int /\ cursor' \in Int BY <2>2, <2>4, <1>1 DEF TypeOK, Ordinal
    <3>. QED BY <3>1, <3>2, <3>3, <2>1 DEF Before
  <2>5. WalkAsks'
    <3>1. BehindCursor' = {} BY <2>4 DEF BehindCursor
    <3>. QED BY <3>1, <2>1 DEF WalkAsks, LostBy, OnlyOldest
  <2>. QED BY <2>1, <2>3, <2>5, <1>1 DEF WalkInv, WalkStarts, WalkLoads, WalkAnswered,
              WalkComplete, Asking
<1>9. CASE UNCHANGED vars
  <2>1. UNCHANGED <<pc, list, cursor, count, first, page, isStart, isEnd, near, far,
                    shown, since, turned>>
    BY <1>9 DEF vars, request, answer, walk
  <2>. QED BY <2>1, <1>1 DEF WalkInv, WalkStarts, WalkAsks, WalkLoads, WalkAnswered,
              WalkComplete, Asking, LostBy, BehindCursor, BehindPage, OnlyOldest, Before,
              Finished, Cuts, Loses, Lone, Nearest, Farthest
<1>10. ASSUME NEW r \in Ordinal, NEW s \in Ordinal, Move(r, s) PROVE WalkInv'
  BY <1>10 DEF Move
<1>. QED BY <1>2, <1>3, <1>4, <1>5, <1>6, <1>7, <1>8, <1>9, <1>10 DEF Next

LEMMA WalkInit == Init => WalkInv
<1>. SUFFICES ASSUME Init PROVE WalkInv OBVIOUS
<1>1. TypeOK BY PagingAssumption DEF Init, TypeOK, Count
<1>. QED BY <1>1 DEF Init, WalkInv, WalkStarts, WalkAsks, WalkLoads, WalkAnswered,
            WalkComplete, Asking

(* Of a list whose records move only the types are invariant.              *)
PlaceInv == TypeOK /\ (~list.moves => WalkInv)

LEMMA PlaceStep == PlaceInv /\ [Next]_vars => PlaceInv'
<1>. SUFFICES ASSUME PlaceInv, [Next]_vars PROVE PlaceInv' OBVIOUS
<1>1. list' = list
  BY DEF Next, vars, request, Insert, Move, Begin, CountRecords, FindBorder, LoadPage,
     NextPage, TurnRound
<1>. QED BY <1>1, TypeStep, WalkStep DEF PlaceInv

(* For every number of records, page size and order of inserts: a client   *)
(* that follows the cursors to the end of a list whose records keep their  *)
(* place was shown every record that lay ahead when it started, but for a  *)
(* single one, the oldest, which the lists of Loses and the lone record of *)
(* the Uniswap list can cost it.                                           *)
THEOREM WalkIsComplete == Spec => []WalkComplete
<1>1. PlaceInv => WalkComplete BY DEF PlaceInv, WalkInv, WalkComplete
<1>2. Init => PlaceInv BY WalkInit DEF PlaceInv, WalkInv
<1>. QED BY <1>1, <1>2, PlaceStep, PTL DEF Spec

(* For every number of records, page size and order of inserts: no page    *)
(* shows a record that an earlier page of the walk showed, or one that     *)
(* belongs before it, if records keep their place.                         *)
THEOREM NeverARepeat == Spec => NoRepeat
<1>. DEFINE Step == LoadPage /\ ~list.moves => \A r \in page', s \in shown : Before(s, r)
<1>1. PlaceInv /\ [Next]_vars => [Step]_vars BY LoadStep DEF PlaceInv
<1>2. Init => PlaceInv BY WalkInit DEF PlaceInv, WalkInv
<1>. QED BY <1>1, <1>2, PlaceStep, PTL DEF Spec, NoRepeat

-------------------------------------------------------------------------------

(* Where a list keeps the promise, its page without the far flag is what   *)
(* it collected before the row it held back.                               *)
LEMMA KeptPage ==
  ASSUME TypeOK, Kept, ~Reached
  PROVE  Cut(Appended) = Collected
<1>1. /\ Rows \subseteq Nat /\ Size \in Nat /\ IsFiniteSet(Rows)
      /\ Cardinality(Rows) \in Nat /\ Cardinality(Collected) \in Nat
      /\ Collected \subseteq Rows /\ Rows \subseteq Ordinal
  <2>1. Rows \subseteq Ordinal /\ Collected \subseteq Rows
    BY QueryRows DEF Matching, TypeOK, Collected
  <2>. QED BY <2>1, RecordsFinite, PagingAssumption DEF Ordinal, Size, TypeOK, Count
<1>2. Cardinality(Collected) = Size BY <1>1, QueryRows DEF Reached
<1>3. ~FarFlag BY DEF FarFlag
<1>4. Appended = Collected => Cut(Appended) = Collected
  BY <1>1, <1>2 DEF Cut
<1>5. CASE ~OwnFlag
  BY <1>3, <1>4, <1>5 DEF Appended, StartFlag, EndFlag
<1>6. CASE list = Erc20Transactions
  BY <1>3, <1>4, <1>6 DEF Appended, Erc20Transactions
<1>7. CASE OwnFlag /\ list # Erc20Transactions
  <2>1. cursor = NoCursor /\ count > 0 /\ list.append = "any" /\ list.cut
    BY <1>7 DEF OwnFlag, Kept, TypeOK, List, Transactions, Withdrawals, RewardClaims,
       Delegations, Epochs, Erc20Transactions, FMintTransactions, Contracts, UniswapActions
  <2>2. Appended = Rows /\ list.cut
    BY <1>7, <2>1 DEF Appended, StartFlag
  <2>3. Rows # {}
    <3>1. Size >= 1 BY PagingAssumption DEF TypeOK, Size, Count
    <3>2. Cardinality({}) = 0 BY FS_EmptySet
    <3>3. Collected # {} BY <3>1, <3>2, <1>2
    <3>. QED BY <3>3, <1>1
  <2>4. Held # {} /\ Held \subseteq Rows BY <1>1, <2>3, EdgesExist DEF Held, Farthest
  <2>5. Collected # Rows BY <2>4 DEF Collected
  <2>6. Cardinality(Rows) > Size
    <3>1. Collected \in SUBSET Rows BY <1>1
    <3>2. Cardinality(Collected) <= Cardinality(Rows)
          /\ Cardinality(Rows) # Cardinality(Collected)
      BY <3>1, <2>5, <1>1, FS_Subset
    <3>. QED BY <3>2, <1>1, <1>2
  <2>7. Cut(Rows) = {r \in Rows : \E s \in Rows : s < r} BY <2>2, <2>6 DEF Cut
  <2>8. \A r \in Rows : r \in Held <=> ~\E s \in Rows : s < r
    BY <1>1, <2>1 DEF Held, Farthest, Before
  <2>. QED BY <2>2, <2>7, <2>8 DEF Collected
<1>. QED BY <1>5, <1>6, <1>7

(* A page that keeps the promise is the exact one. *)
LEMMA KeptExact ==
  ASSUME TypeOK, Kept
  PROVE  Exact(Cut(Appended), FarFlag)
<1>. DEFINE p == Cut(Appended)
<1>1. /\ Size \in Nat /\ IsFiniteSet(Matching) /\ Cardinality(Matching) \in Nat
      /\ Cardinality(Collected) \in Nat /\ Size >= 1 /\ Matching \subseteq Ordinal
  <2>1. Matching \subseteq Ordinal /\ Collected \subseteq Ordinal
    BY QueryRows DEF Matching, TypeOK, Collected
  <2>. QED BY <2>1, RecordsFinite, PagingAssumption DEF Size, TypeOK, Count
<1>2. p \subseteq Matching BY PageTakes
<1>3. FarFlag <=> Reached
  BY DEF FarFlag, Kept, TypeOK, List, Transactions, Withdrawals, RewardClaims,
     Delegations, Epochs, Erc20Transactions, FMintTransactions, Contracts, UniswapActions
<1>4. CASE Reached
  <2>1. p = Matching /\ Rows = Matching BY <1>3, <1>4, PageTakes, QueryRows
  <2>2. Cardinality(Matching) <= Size
    BY <2>1, <1>1, <1>4, QueryRows DEF Reached
  <2>. QED BY <2>1, <2>2, <1>1, <1>3, <1>4 DEF Exact, Due
<1>5. CASE ~Reached
  <2>1. p = Collected BY <1>5, KeptPage
  <2>2. Cardinality(Collected) = Size BY <1>1, <1>5, QueryRows DEF Reached
  <2>3. Collected \subseteq Rows /\ Rows \subseteq Matching
    BY QueryRows DEF Collected
  <2>4. Rows # {} BY <1>1, <2>2, <2>3, FS_EmptySet
  <2>5. Held # {} /\ Held \subseteq Rows
    BY <1>1, <2>3, <2>4, EdgesExist DEF Held, Farthest
  <2>6. Collected # Matching BY <2>3, <2>5 DEF Collected
  <2>7. Cardinality(Matching) > Size BY <1>1, <2>2, <2>3, <2>6, FS_Subset
  <2>8. \A r \in p, s \in Matching \ p : Before(r, s)
    BY <2>1, QueryRows DEF Collected, Held, Farthest
  <2>. QED BY <1>1, <1>2, <1>3, <1>5, <2>1, <2>2, <2>6, <2>7, <2>8 DEF Exact, Due
<1>. QED BY <1>4, <1>5

(* A cut takes away one record at most. *)
LEMMA CutSize ==
  ASSUME NEW A \in SUBSET Ordinal
  PROVE  Cardinality(Cut(A)) \in {Cardinality(A), Cardinality(A) - 1}
<1>1. CASE Cut(A) = A BY <1>1
<1>2. CASE Cut(A) # A
  <2>1. Cut(A) = {r \in A : \E s \in A : s < r} BY <1>2 DEF Cut
  <2>2. \A r \in A : r \in Nat BY DEF Ordinal
  <2>3. A # {} BY <1>2, CutSubset
  <2>4. PICK m \in A : \A s \in A : m <= s BY <2>2, <2>3, Least
  <2>5. Cut(A) = A \ {m}
    <3>1. ASSUME NEW r \in A PROVE (\E s \in A : s < r) <=> r # m
      BY <2>2, <2>4, <3>1
    <3>. QED BY <2>1, <3>1
  <2>. QED BY <2>4, <2>5, RecordsFinite, FS_RemoveElement
<1>. QED BY <1>1, <1>2

(* Whatever list it is and whatever is asked for, a page is off by one     *)
(* record at most, and its flag does not hide records.                     *)
LEMMA NearlyKept ==
  ASSUME TypeOK
  PROVE  NearlyExact(Cut(Appended), FarFlag)
<1>1. /\ Matching \subseteq Ordinal /\ Rows \subseteq Matching
      /\ Collected \subseteq Rows /\ Collected \subseteq Appended /\ Appended \subseteq Rows
  BY QueryRows DEF Matching, TypeOK, Collected, Appended
<1>2. IsFiniteSet(Matching) /\ IsFiniteSet(Rows) /\ IsFiniteSet(Appended)
  BY <1>1, RecordsFinite
<1>3. /\ Cardinality(Matching) \in Nat /\ Cardinality(Rows) \in Nat
      /\ Cardinality(Collected) \in Nat /\ Cardinality(Appended) \in Nat
  BY <1>1, RecordsFinite
<1>4. Size \in Nat BY PagingAssumption DEF TypeOK, Size, Count
<1>5. /\ Cardinality(Collected) <= Cardinality(Appended)
      /\ Cardinality(Appended) <= Cardinality(Rows)
      /\ Cardinality(Rows) <= Cardinality(Matching)
  BY <1>1, <1>2, FS_Subset
<1>6. /\ Cardinality(Rows) <= Cardinality(Collected) + 1
      /\ Cardinality(Collected) <= Size
  BY QueryRows
<1>7. Cardinality(Cut(Appended)) \in {Cardinality(Appended), Cardinality(Appended) - 1}
  BY <1>1, CutSize
<1>8. Cardinality(Cut(Appended)) \in Due(Matching) - 1 .. Due(Matching) + 1
  <2>1. CASE Reached
    <3>1. Rows = Matching /\ Cardinality(Collected) < Size
      BY <2>1, QueryRows DEF Reached
    <3>2. Cardinality(Appended) <= Size BY <3>1, <1>3, <1>4, <1>5, <1>6
    <3>3. Cut(Appended) = Appended BY <3>2, <1>3, <1>4 DEF Cut
    <3>4. Due(Matching) = Cardinality(Matching)
      BY <3>1, <1>3, <1>4, <1>5, <1>6 DEF Due
    <3>. QED BY <3>1, <3>3, <3>4, <1>3, <1>4, <1>5, <1>6
  <2>2. CASE ~Reached
    <3>1. Cardinality(Collected) = Size BY <2>2, <1>3, <1>4, <1>6 DEF Reached
    <3>2. Due(Matching) = Size BY <3>1, <1>3, <1>4, <1>5 DEF Due
    <3>. QED BY <3>1, <3>2, <1>3, <1>4, <1>5, <1>6, <1>7
  <2>. QED BY <2>1, <2>2
<1>. QED BY <1>8, PageTakes DEF NearlyExact

(* For every number of records, page size and order of inserts: a page is  *)
(* off by one record at most and its flag is never raised in front of      *)
(* records; with a cursor, in the token and contract lists, and for the    *)
(* newest page of all but the fMint and Uniswap lists it is exact.         *)
THEOREM PagesAreExact == Spec => ExactPages
<1>. DEFINE Flag == IF count > 0 THEN isEnd' ELSE isStart'
            Step == LoadPage /\ pc' = "answered" =>
                      NearlyExact(page', Flag) /\ (Kept => Exact(page', Flag))
<1>1. ASSUME TypeOK, LoadPage
      PROVE  NearlyExact(page', Flag) /\ (Kept => Exact(page', Flag))
  <2>1. page' = Cut(Appended) BY <1>1 DEF LoadPage
  <2>2. count > 0 \/ count < 0 BY <1>1, PagingAssumption DEF TypeOK, Count
  <2>3. ~(count > 0 /\ count < 0) BY <1>1, PagingAssumption DEF TypeOK, Count
  <2>4. Flag <=> FarFlag
    BY <1>1, <2>2, <2>3, Zenon DEF LoadPage, StartFlag, EndFlag
  <2>5. NearlyExact(page', Flag) BY <1>1, <2>1, <2>4, NearlyKept DEF NearlyExact
  <2>6. Kept => Exact(page', Flag) BY <1>1, <2>1, <2>4, KeptExact DEF Exact
  <2>. QED BY <2>5, <2>6
<1>2. TypeOK /\ [Next]_vars => [Step]_vars BY <1>1
<1>3. Init => TypeOK BY PagingAssumption DEF Init, TypeOK, Count
<1>. QED BY <1>2, <1>3, TypeStep, PTL DEF Spec, ExactPages

===============================================================================
