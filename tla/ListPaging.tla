------------------------------ MODULE ListPaging ------------------------------
(***************************************************************************)
(* The lists of repository/db and the client that walks them.  A list      *)
(* answers a request with three queries of the database: it counts the     *)
(* records, finds the record the page starts at, and loads the page with   *)
(* one row more than asked for, the row that tells whether the end of the  *)
(* list was reached.  Other goroutines insert records meanwhile, older     *)
(* ones too.  The code has the algorithm nine times, with differences;     *)
(* the record of a list says how it differs.                               *)
(*                                                                         *)
(* A record is its ordinal index, by which the lists sort.                 *)
(***************************************************************************)
EXTENDS Integers, FiniteSets

CONSTANTS
  MaxOrdinal,
  MaxCount    \* the largest page a client asks for

ASSUME PagingAssumption == MaxOrdinal \in Nat \ {0} /\ MaxCount \in Nat \ {0}

Ordinal == 1 .. MaxOrdinal
NoCursor == 0
Count == (-MaxCount .. MaxCount) \ {0}

(***************************************************************************)
(* How the lists differ:                                                   *)
(*   marks   the start and end flags of a request without a cursor:        *)
(*           "both" its own side and the counted one, "counted", "own"     *)
(*   append  the row held back is added if "any" flag is up, or if the     *)
(*           flag of the "far" side is                                     *)
(*   cut     a page that is too long loses its last element                *)
(*   strict  an empty collection is an error, and so is an empty page of a *)
(*           request with a cursor                                         *)
(*   moves   a stored record may take another ordinal                      *)
(***************************************************************************)
Transactions ==
  [marks |-> "both", append |-> "any", cut |-> TRUE, strict |-> FALSE, moves |-> FALSE]
Withdrawals ==
  [marks |-> "both", append |-> "any", cut |-> TRUE, strict |-> FALSE, moves |-> FALSE]
RewardClaims ==
  [marks |-> "both", append |-> "any", cut |-> TRUE, strict |-> FALSE, moves |-> FALSE]
Delegations ==
  [marks |-> "both", append |-> "any", cut |-> TRUE, strict |-> FALSE, moves |-> TRUE]
Epochs ==
  [marks |-> "both", append |-> "any", cut |-> TRUE, strict |-> FALSE, moves |-> FALSE]
Erc20Transactions ==
  [marks |-> "both", append |-> "far", cut |-> FALSE, strict |-> FALSE, moves |-> FALSE]
FMintTransactions ==
  [marks |-> "both", append |-> "any", cut |-> FALSE, strict |-> FALSE, moves |-> FALSE]
Contracts ==
  [marks |-> "counted", append |-> "any", cut |-> TRUE, strict |-> TRUE, moves |-> FALSE]
UniswapActions ==
  [marks |-> "own", append |-> "far", cut |-> FALSE, strict |-> TRUE, moves |-> FALSE]

List == {Transactions, Withdrawals, RewardClaims, Delegations, Epochs,
         Erc20Transactions, FMintTransactions, Contracts, UniswapActions}

VARIABLES
  recs,       \* the records in the collection
  pc,         \* what the client and its request do next
  list,       \* the list the client reads
  cursor, count, first,   \* the request, and where its page starts
  page, isStart, isEnd,   \* the answer
  near, far,  \* the cursors of the edges of the page
  shown,      \* what the pages of this walk showed
  since,      \* the records that lay ahead when the walk began
  turned      \* it began where another one turned round

request == <<list, cursor, count>>
answer == <<page, isStart, isEnd, near, far>>
walk == <<shown, since, turned>>
vars == <<recs, pc, request, first, answer, walk>>

(* Pages show stored records, and every page starts at a record. *)
TypeOK ==
  /\ recs \subseteq Ordinal
  /\ pc \in {"idle", "count", "border", "load", "answered", "failed"}
  /\ list \in List /\ count \in Count
  /\ cursor \in Ordinal \union {NoCursor} /\ first \in Ordinal \union {0}
  /\ pc = "load" => first \in Ordinal
  /\ page \subseteq recs /\ shown \subseteq recs /\ since \subseteq recs
  /\ isStart \in BOOLEAN /\ isEnd \in BOOLEAN /\ turned \in BOOLEAN
  /\ near \in recs \union {NoCursor} /\ far \in recs \union {NoCursor}

Init ==
  /\ recs \in SUBSET Ordinal /\ list \in List
  /\ pc = "idle" /\ cursor = NoCursor /\ count \in Count /\ first = 0
  /\ page = {} /\ isStart = FALSE /\ isEnd = FALSE /\ near = NoCursor /\ far = NoCursor
  /\ shown = {} /\ since = {} /\ turned = FALSE

(* A block that was scanned, or is scanned again, stores a record. *)
Insert(r) ==
  /\ r \notin recs /\ recs' = recs \union {r}
  /\ UNCHANGED <<pc, request, first, answer, walk>>

(* A delegation that is delegated to again takes the ordinal of the log,   *)
(* also if that log is an old one, handled again.  Whoever holds its       *)
(* cursor finds it there.                                                  *)
Move(r, s) ==
  LET moved(S) == IF r \in S THEN (S \ {r}) \union {s} ELSE S
      at(x) == IF x = r THEN s ELSE x
  IN
  /\ list.moves /\ r \in recs /\ s \notin recs
  /\ recs' = moved(recs)
  /\ cursor' = at(cursor) /\ near' = at(near) /\ far' = at(far)
  /\ page' = moved(page) /\ shown' = moved(shown) /\ since' = moved(since)
  /\ UNCHANGED <<pc, list, count, first, isStart, isEnd, turned>>

-------------------------------------------------------------------------------

Size == IF count < 0 THEN -count ELSE count

(* The direction of the sort: from new to old, or from old to new. *)
Before(r, s) == IF count > 0 THEN r > s ELSE r < s
Nearest(S) == {r \in S : \A s \in S : s = r \/ Before(r, s)}
Farthest(S) == {r \in S : \A s \in S : s = r \/ Before(s, r)}

(* The client asks for the newest page, or for the oldest one. *)
Begin ==
  /\ pc = "idle" /\ pc' = "count"
  /\ since' = recs /\ turned' = FALSE
  /\ UNCHANGED <<recs, request, first, answer, shown>>

(* An empty collection makes an empty page, but not for the strict lists. *)
CountRecords ==
  /\ pc = "count"
  /\ IF recs # {} \/ list.strict
       THEN pc' = "border" /\ UNCHANGED answer
       ELSE /\ pc' = "answered"
            /\ page' = {} /\ isStart' = TRUE /\ isEnd' = TRUE
            /\ near' = NoCursor /\ far' = NoCursor
  /\ UNCHANGED <<recs, request, first, walk>>

(* A client's cursor is that of a record it was shown, and none is removed. *)
Border == IF cursor # NoCursor THEN {cursor} ELSE Nearest(recs)

FindBorderUnchecked ==
  /\ pc = "border" /\ pc' = "load"
  /\ \/ \E r \in Border : first' = r
     \/ Border = {} /\ first' = 0
  /\ UNCHANGED <<recs, request, answer, walk>>
FindBorder ==
  /\ pc = "border"
  /\ \/ \E r \in Border : first' = r /\ pc' = "load"
     \/ Border = {} /\ pc' = "failed" /\ UNCHANGED first
  /\ UNCHANGED <<recs, request, answer, walk>>

MatchingFirst ==
  {r \in recs : Before(first, r) \/ r = first}
Matching ==
  {r \in recs : Before(first, r) \/ (cursor = NoCursor /\ r = first)}

(* The rows of the query: one more than asked for. *)
RowsShort ==
  {r \in Matching : Cardinality({s \in Matching : Before(s, r)}) < Size}
Rows ==
  {r \in Matching : Cardinality({s \in Matching : Before(s, r)}) <= Size}

(* The last row is held back. *)
Held == Farthest(Rows)
Collected == Rows \ Held

Reached == Cardinality(Collected) < Size
OwnFlag == cursor = NoCursor /\ list.marks # "counted"
FarFlag == Reached /\ ~(cursor = NoCursor /\ list.marks = "own")

StartFlag == (OwnFlag /\ count > 0) \/ (count < 0 /\ FarFlag)
EndFlag == (OwnFlag /\ count < 0) \/ (count > 0 /\ FarFlag)

Appended ==
  IF FarFlag \/ (list.append = "any" /\ (StartFlag \/ EndFlag))
    THEN Rows ELSE Collected

(* A page is turned to newest first before it is cut at its end. *)
CutNothing(p) == p
Cut(p) ==
  IF list.cut /\ Cardinality(p) > Size
    THEN {r \in p : \E s \in p : s < r} ELSE p

Edge(S) == IF S = {} THEN {NoCursor} ELSE S

(* An empty page of a strict list has no first element to take a mark from. *)
LoadPage ==
  /\ pc = "load"
  /\ page' = Cut(Appended)
  /\ isStart' = StartFlag /\ isEnd' = EndFlag
  /\ near' \in Edge(Nearest(page')) /\ far' \in Edge(Farthest(page'))
  /\ pc' = IF list.strict /\ cursor # NoCursor /\ page' = {} THEN "failed" ELSE "answered"
  /\ shown' = shown \union page'
  /\ UNCHANGED <<recs, request, first, since, turned>>

-------------------------------------------------------------------------------

(* The page says that nothing lies beyond it. *)
Finished == page = {} \/ (count > 0 /\ isEnd) \/ (count < 0 /\ isStart)

(* The client goes on from the far edge of the page: the last element of a *)
(* page from new to old, the first of one from old to new; the Uniswap     *)
(* list, which is not turned round, has it last in both.                   *)
NextPage ==
  /\ pc = "answered" /\ ~Finished
  /\ pc' = "count" /\ cursor' = far
  /\ UNCHANGED <<recs, list, count, first, answer, walk>>

(* The client turns round at the near edge: a walk the other way. *)
TurnRound ==
  /\ pc = "answered" /\ near # NoCursor
  /\ IF count > 0 THEN ~isStart ELSE ~isEnd
  /\ pc' = "count" /\ count' = -count /\ cursor' = near
  /\ since' = {s \in recs : Before(s, near)}
  /\ shown' = {} /\ turned' = TRUE
  /\ UNCHANGED <<recs, list, first, answer>>

Next ==
  \/ \E r \in Ordinal : Insert(r)
  \/ \E r, s \in Ordinal : Move(r, s)
  \/ Begin \/ CountRecords \/ FindBorder \/ LoadPage
  \/ NextPage \/ TurnRound

Spec == Init /\ [][Next]_vars

-------------------------------------------------------------------------------

(* What a request should be answered with: of the records ahead of the     *)
(* cursor, the nearest as many as asked for, and the flag of that side up  *)
(* exactly if nothing remains.                                             *)
Due(ahead) == IF Cardinality(ahead) < Size THEN Cardinality(ahead) ELSE Size

Exact(p, flag) ==
  LET ahead == Matching IN
  /\ p \subseteq ahead
  /\ Cardinality(p) = Due(ahead)
  /\ \A r \in p, s \in ahead \ p : Before(r, s)
  /\ flag <=> p = ahead

(* What every request is answered with: one record at most too many or too *)
(* few, none left out but those behind the page and the first of all, and  *)
(* a flag that says that nothing remains only if nothing does.             *)
NearlyExact(p, flag) ==
  LET ahead == Matching IN
  /\ p \subseteq ahead
  /\ Cardinality(p) \in Due(ahead) - 1 .. Due(ahead) + 1
  /\ \A r \in p, s \in ahead \ p : Before(r, s) \/ s \in Nearest(ahead)
  /\ flag => p = ahead

(* The requests that are answered exactly: those with a cursor, those of   *)
(* the token and contract lists, and those for the newest page, but of the *)
(* fMint list, whose first page has one element too many, and of the       *)
(* Uniswap list, whose first page may have one too few.  The oldest page   *)
(* of the other lists may lack the first record of all.                    *)
Kept ==
  \/ cursor # NoCursor
  \/ list \in {Erc20Transactions, Contracts}
  \/ count > 0 /\ list \notin {FMintTransactions, UniswapActions}

(* Every page is the exact one (Transactions, Withdrawals, ... of          *)
(* repository/db) where the lists keep to it, and off by one record where  *)
(* they do not: what is inserted between the queries does not move it.     *)
ExactPages ==
  [][LoadPage /\ pc' = "answered" =>
       LET flag == IF count > 0 THEN isEnd' ELSE isStart'
       IN  NearlyExact(page', flag) /\ (Kept => Exact(page', flag))]_vars

(* The pages of a walk never show a record twice, nor one out of order,    *)
(* whatever is inserted between them.  A record that moves is shown where  *)
(* it was and where it is.                                                 *)
NoRepeat ==
  [][LoadPage /\ ~list.moves => \A r \in page', s \in shown : Before(s, r)]_vars

(* The lists whose oldest page may miss the oldest record, which is cut    *)
(* off in the place of the row held back, and a walk that began with it.   *)
Cuts == count < 0 /\ list.append = "any" /\ list.cut /\ list.marks = "both"
Loses == Cuts /\ ~turned

(* The Uniswap list without a cursor holds back a lone record for good.    *)
Lone == list = UniswapActions /\ cursor = NoCursor

(* A single record, older than all that was shown. *)
OnlyOldest(S) == \A r \in S : (\A s \in S : s = r) /\ (\A s \in shown : r < s)

(* A client that follows the cursors until the flag says there is no more  *)
(* was shown every record that lay ahead when it started, if none moves.   *)
(* Where the lists do lose a record it is but one, the oldest.             *)
WalkComplete ==
  pc = "answered" /\ Finished /\ ~list.moves =>
    LET missed == since \ shown
    IN  (missed # {} => Lone \/ Loses) /\ OnlyOldest(missed)

===============================================================================
