------------------------ MODULE ConversationPagesProofs ------------------------
(***************************************************************************)
(* Proofs about the conversation list.  ConversationPages: for any         *)
(* conversations, page size and order of writes between the pages, nothing *)
(* is listed twice, and nothing quiet is skipped; this rests on the order  *)
(* of the keys being total, and on a page being the top of what is below   *)
(* its cursor.  ConversationList: the side bar that loads those pages has  *)
(* no hole, however loads, retries and reloads overtake each other.        *)
(***************************************************************************)
EXTENDS ConversationPages, ConversationList, FiniteSetTheorems, TLAPS

(***************************************************************************)
(* The newest rows, whatever table they are of.                            *)
(***************************************************************************)
\* ORDER BY updated_at DESC, id DESC, and its LIMIT.
Older(at, i, j) == at[i] < at[j] \/ (at[i] = at[j] /\ i < j)
Newest(at, S, n) == {i \in S : Cardinality({j \in S : Older(at, i, j)}) < n}

\* A row that is not among the newest is older than all of them.
LEMMA NewestAreOnTop ==
    ASSUME NEW S, IsFiniteSet(S), S \subseteq Int, NEW at, \A i \in S : at[i] \in Int,
           NEW n \in Nat, NEW k \in Newest(at, S, n), NEW i \in S \ Newest(at, S, n)
    PROVE  Older(at, i, k)
<1> DEFINE Above(m) == {j \in S : Older(at, m, j)}
<1>1. SUFFICES ASSUME ~Older(at, i, k) PROVE FALSE
  OBVIOUS
<1>2. k \in S /\ Cardinality(Above(k)) < n
  BY DEF Newest
<1>3. ~(Cardinality(Above(i)) < n)
  BY DEF Newest
<1>4. i # k /\ Older(at, k, i)
  BY <1>1, <1>2 DEF Older
<1>5. Above(i) \subseteq Above(k)
  <2>1. ASSUME NEW j \in S, Older(at, i, j) PROVE Older(at, k, j)
    <3>1. i \in Int /\ k \in Int /\ j \in Int /\ at[i] \in Int /\ at[k] \in Int /\ at[j] \in Int
      BY <1>2
    <3> QED
      BY <1>4, <2>1, <3>1 DEF Older
  <2> QED
    BY <2>1
<1>6. IsFiniteSet(Above(k)) /\ IsFiniteSet(Above(i))
  <2>1. Above(k) \subseteq S /\ Above(i) \subseteq S
    OBVIOUS
  <2> QED
    BY <2>1, FS_Subset
<1>7. /\ Cardinality(Above(k)) \in Nat
      /\ Cardinality(Above(i)) \in Nat
      /\ Cardinality(Above(i)) <= Cardinality(Above(k))
  BY <1>5, <1>6, FS_Subset, FS_CardinalityType
<1> QED
  BY <1>2, <1>3, <1>7

\* Of no more rows than are asked for, all are among the newest.
LEMMA FewAreAllNewest ==
    ASSUME NEW S, IsFiniteSet(S), S \subseteq Int, NEW at, \A i \in S : at[i] \in Int,
           NEW n \in Nat, ~(Cardinality(S) > n)
    PROVE  Newest(at, S, n) = S
<1> SUFFICES ASSUME NEW i \in S
             PROVE  Cardinality({j \in S : Older(at, i, j)}) < n
  BY DEF Newest
<1> DEFINE Above == {j \in S : Older(at, i, j)}
<1>1. i \notin Above
  BY DEF Older
<1>2. Above \subseteq S /\ Above # S
  BY <1>1
<1>3. IsFiniteSet(Above) /\ Cardinality(Above) <= Cardinality(S)
      /\ (Cardinality(Above) = Cardinality(S) => Above = S)
  BY <1>2, FS_Subset
<1>4. Cardinality(Above) \in Nat /\ Cardinality(S) \in Nat
  BY <1>3, FS_CardinalityType
<1> HIDE DEF Above
<1>5. Cardinality(Above) < n
  BY <1>2, <1>3, <1>4
<1> QED
  BY <1>5 DEF Above
-----------------------------------------------------------------------------
(***************************************************************************)
(* The pages.                                                              *)
(***************************************************************************)
Cursors == [updatedAt : 0..LastTime + 1, id : ConversationIds \cup {0}]

\* Both parts of a key are numbers.
LEMMA CursorNumbers ==
    ASSUME NEW x \in Cursors
    PROVE  x.updatedAt \in Int /\ x.id \in Int
<1>1. x.updatedAt \in 0..LastTime + 1 /\ x.id \in ConversationIds \cup {0}
  BY DEF Cursors
<1>2. x.updatedAt \in Int
  BY <1>1
<1>3. ConversationIds \subseteq Int
  BY PagesAssumption DEF PagesAssumption
<1>4. x.id \in Int
  <2>1. CASE x.id \in ConversationIds
    BY <1>3, <2>1
  <2>2. CASE x.id = 0
    BY <2>2
  <2> QED
    BY <1>1, <2>1, <2>2
<1> QED
  BY <1>2, <1>4

\* The keys of different rows are ordered, and the order is transitive.
LEMMA BelowIsTransitive ==
    ASSUME NEW x \in Cursors, NEW y \in Cursors, NEW z \in Cursors,
           Below(x, y), Below(y, z)
    PROVE  Below(x, z)
<1>1. /\ x.updatedAt \in Int /\ y.updatedAt \in Int /\ z.updatedAt \in Int
      /\ x.id \in Int /\ y.id \in Int /\ z.id \in Int
  BY CursorNumbers
<1> QED
  BY <1>1 DEF Below

\* Every key can be a cursor, and conversely is ordered like one.
LEMMA KeyIsCursor ==
    ASSUME PagesTypeOK, NEW i \in ConversationIds
    PROVE  Key(i) \in Cursors
BY PagesAssumption DEF PagesAssumption, PagesTypeOK, Cursors, Key

\* A page is the newest of what is below its cursor.
LEMMA PageIsNewest ==
    ASSUME PagesTypeOK, NEW S \in SUBSET ConversationIds
    PROVE  /\ FirstOf(S) = Newest(updatedAt, S, ConversationPageSize)
           /\ IsFiniteSet(S) /\ S \subseteq Int /\ \A i \in S : updatedAt[i] \in Int
           /\ ConversationPageSize \in Nat
<1>1. \A i, j \in S : Below(Key(i), Key(j)) <=> Older(updatedAt, i, j)
  BY DEF Below, Key, Older
<1>2. FirstOf(S) = Newest(updatedAt, S, ConversationPageSize)
  <2>1. \A i \in S : {j \in S : Below(Key(i), Key(j))} = {j \in S : Older(updatedAt, i, j)}
    BY <1>1
  <2> QED
    BY <2>1 DEF FirstOf, Newest
<1>3. IsFiniteSet(S)
  BY PagesAssumption, FS_Subset DEF PagesAssumption
<1> QED
  BY <1>2, <1>3, PagesAssumption DEF PagesAssumption, PagesTypeOK

\* What is below a cursor without being on the page that follows it is below
\* the whole page.
LEMMA PageIsTop ==
    ASSUME PagesTypeOK, NEW S \in SUBSET ConversationIds, NEW k \in FirstOf(S),
           NEW i \in S \ FirstOf(S)
    PROVE  Below(Key(i), Key(k))
<1>1. Older(updatedAt, i, k)
  BY PageIsNewest, NewestAreOnTop
<1> QED
  BY <1>1 DEF Older, Below, Key

\* The last page holds all that is left.
LEMMA LastPageIsAll ==
    ASSUME PagesTypeOK, NEW S \in SUBSET ConversationIds, ~HasMore(S)
    PROVE  FirstOf(S) = S
BY PageIsNewest, FewAreAllNewest DEF HasMore
-----------------------------------------------------------------------------
\* What has been given is not below the cursor any more; what is quiet has
\* been given, or still is.
Given(c, seen) == \A i \in ConversationIds : seen[i] <= 1 /\ (seen[i] = 1 => ~Below(Key(i), c))
Reached(c, seen, Q) == \A i \in Q : seen[i] = 1 \/ Below(Key(i), c)

\* Nothing is written to in the future.
PagesInv ==
    /\ PagesTypeOK
    /\ \A i \in ConversationIds : updatedAt[i] <= currentTime
    /\ quiet \subseteq Rows
    /\ ListedOnce
    /\ phase = "paging" => Given(cursor, times)
    /\ QuietIsListed

\* One page more keeps both.
LEMMA ReceiveKeeps ==
    ASSUME PagesTypeOK, NEW c \in Cursors, NEW seen \in [ConversationIds -> Nat],
           NEW Q \in SUBSET Rows,
           Given(c, seen), Reached(c, seen, Q), Receive(c, seen)
    PROVE  /\ times' \in [ConversationIds -> Nat]
           /\ phase' \in {"paging", "done"}
           /\ cursor' \in [updatedAt : 1..LastTime + 1, id : ConversationIds \cup {0}]
           /\ ListedOnce'
           /\ phase' = "paging" => Given(cursor', times')
           /\ phase' = "paging" => Reached(cursor', times', Q)
           /\ phase' = "done" => \A i \in Q : times'[i] = 1
<1> DEFINE S == CursorRows(c)
           page == FirstOf(S)
<1>1. S \subseteq ConversationIds /\ page \subseteq S
  BY DEF CursorRows, Rows, FirstOf
<1>2. times' = [i \in ConversationIds |-> IF i \in page THEN seen[i] + 1 ELSE seen[i]]
  BY DEF Receive
<1>3. \A i \in page : seen[i] = 0
  BY <1>1 DEF Given, CursorRows
<1>4. times' \in [ConversationIds -> Nat] /\ \A i \in ConversationIds : times'[i] <= 1
  BY <1>2, <1>3 DEF Given
<1>5. \A i \in ConversationIds : times'[i] = 1 <=> i \in page \/ seen[i] = 1
  BY <1>2, <1>3
<1>6. \A i \in Q : seen[i] = 1 \/ i \in S
  BY DEF Reached, CursorRows
<1>7. ListedOnce'
  BY <1>4 DEF ListedOnce
<1>8. CASE HasMore(S)
  <2>1. PICK last \in page : /\ \A i \in page : ~Below(Key(i), Key(last))
                             /\ cursor' = Key(last)
    BY <1>8 DEF Receive
  <2>2. phase' = "paging"
    BY <1>8 DEF Receive
  <2>3. last \in Rows /\ last \in ConversationIds /\ Below(Key(last), c)
    BY <1>1 DEF CursorRows, Rows
  <2>4. cursor' \in [updatedAt : 1..LastTime + 1, id : ConversationIds \cup {0}]
    BY <2>1, <2>3, PagesAssumption DEF PagesAssumption, PagesTypeOK, Key, Rows
  <2>5. ASSUME NEW i \in ConversationIds, times'[i] = 1 PROVE ~Below(Key(i), cursor')
    <3>1. CASE i \in page
      BY <2>1, <3>1
    <3>2. CASE seen[i] = 1
      <4>1. ~Below(Key(i), c)
        BY <3>2 DEF Given
      <4>2. Key(i) \in Cursors /\ Key(last) \in Cursors
        BY <2>3, KeyIsCursor
      <4> QED
        BY <2>1, <2>3, <4>1, <4>2, BelowIsTransitive
    <3> QED
      BY <1>5, <2>5, <3>1, <3>2
  <2>6. Given(cursor', times')
    BY <1>4, <2>5 DEF Given
  <2>7. ASSUME NEW i \in Q, times'[i] # 1 PROVE Below(Key(i), cursor')
    <3>1. i \in S \ page
      BY <1>5, <1>6, <2>7 DEF Rows
    <3> QED
      BY <1>1, <2>1, <3>1, PageIsTop
  <2> QED
    BY <1>4, <1>7, <2>2, <2>4, <2>6, <2>7 DEF Reached
<1>9. CASE ~HasMore(S)
  <2>1. phase' = "done" /\ cursor' = Top
    BY <1>9 DEF Receive
  <2>2. cursor' \in [updatedAt : 1..LastTime + 1, id : ConversationIds \cup {0}]
    BY <2>1, PagesAssumption DEF PagesAssumption, Top
  <2>3. page = S
    BY <1>1, <1>9, LastPageIsAll
  <2>4. \A i \in Q : times'[i] = 1
    BY <1>5, <1>6, <2>3 DEF Rows
  <2> QED
    BY <1>4, <1>7, <2>1, <2>2, <2>4
<1> QED
  BY <1>8, <1>9

\* Nothing has been given before the first page.
THEOREM PagesInvInitially == PagesInit => PagesInv
<1> SUFFICES ASSUME PagesInit PROVE PagesInv
  OBVIOUS
<1>1. PagesTypeOK
  BY PagesAssumption DEF PagesAssumption, PagesInit, PagesTypeOK, Top
<1>2. \A i \in ConversationIds : updatedAt[i] <= currentTime
  BY DEF PagesInit
<1> QED
  BY <1>1, <1>2 DEF PagesInit, PagesInv, ListedOnce, QuietIsListed

\* Pages, writes and the clock keep it.
THEOREM PagesInvPreserved == PagesInv /\ [PagesNext]_pagesVars => PagesInv'
<1> SUFFICES ASSUME PagesInv, [PagesNext]_pagesVars PROVE PagesInv'
  OBVIOUS
<1>t. PagesTypeOK
  BY DEF PagesInv
<1>p. ASSUME NEW c \in Cursors, NEW seen \in [ConversationIds -> Nat], NEW Q \in SUBSET Rows,
             Given(c, seen), Reached(c, seen, Q), Receive(c, seen), quiet' = Q
      PROVE  PagesInv'
  <2>1. currentTime' = currentTime /\ updatedAt' = updatedAt
    BY <1>p DEF Receive
  <2>2. /\ times' \in [ConversationIds -> Nat]
        /\ phase' \in {"paging", "done"}
        /\ cursor' \in [updatedAt : 1..LastTime + 1, id : ConversationIds \cup {0}]
        /\ ListedOnce'
        /\ phase' = "paging" => Given(cursor', times')
        /\ phase' = "paging" => Reached(cursor', times', Q)
        /\ phase' = "done" => \A i \in Q : times'[i] = 1
    BY <1>t, <1>p, ReceiveKeeps
  <2>3. PagesTypeOK' /\ (quiet \subseteq Rows)' /\ (\A i \in ConversationIds : updatedAt[i] <= currentTime)'
    BY <1>p, <2>1, <2>2 DEF PagesInv, PagesTypeOK, Rows
  <2>4. (phase = "paging" => Given(cursor, times))'
    BY <2>1, <2>2 DEF Given, Key
  <2>5. QuietIsListed'
    BY <1>p, <2>1, <2>2 DEF QuietIsListed, Reached, Key
  <2> QED
    BY <2>2, <2>3, <2>4, <2>5 DEF PagesInv
<1>1. CASE FirstPage
  <2> DEFINE none == [i \in ConversationIds |-> 0]
  <2>1. Top \in Cursors /\ none \in [ConversationIds -> Nat]
    BY PagesAssumption DEF PagesAssumption, Top, Cursors
  <2>2. Given(Top, none)
    BY DEF Given
  <2>3. Reached(Top, none, Rows)
    BY <1>t, PagesAssumption DEF PagesAssumption, PagesTypeOK, Reached, Rows, Below, Key, Top
  <2>4. Receive(Top, none) /\ quiet' = Rows
    BY <1>1 DEF FirstPage
  <2> QED
    BY <1>p, <2>1, <2>2, <2>3, <2>4
<1>2. CASE NextPage
  <2>1. phase = "paging" /\ Receive(cursor, times) /\ quiet' = quiet
    BY <1>2 DEF NextPage
  <2>2. cursor \in Cursors /\ times \in [ConversationIds -> Nat] /\ quiet \in SUBSET Rows
    BY <1>t, PagesAssumption DEF PagesAssumption, PagesInv, PagesTypeOK, Cursors
  <2>3. Given(cursor, times) /\ Reached(cursor, times, quiet)
    BY <2>1 DEF PagesInv, QuietIsListed, Reached
  <2> QED
    BY <1>p, <2>1, <2>2, <2>3
<1>3. CASE TimePasses
  <2>1. UNCHANGED <<updatedAt, phase, cursor, times, quiet>> /\ currentTime' = currentTime + 1 /\ currentTime < LastTime
    BY <1>3 DEF TimePasses
  <2>2. PagesTypeOK' /\ (\A i \in ConversationIds : updatedAt[i] <= currentTime)' /\ (quiet \subseteq Rows)'
    BY <1>t, <2>1, PagesAssumption DEF PagesAssumption, PagesTypeOK, PagesInv, Rows
  <2>3. ListedOnce' /\ QuietIsListed' /\ (phase = "paging" => Given(cursor, times))'
    BY <2>1 DEF PagesInv, ListedOnce, QuietIsListed, Given, Key
  <2> QED
    BY <2>2, <2>3 DEF PagesInv
<1>4. ASSUME NEW w \in ConversationIds, Write(w) PROVE PagesInv'
  <2>1. /\ updatedAt' = [updatedAt EXCEPT ![w] = currentTime]
        /\ quiet' = quiet \ {w}
        /\ currentTime' = currentTime /\ phase' = phase /\ cursor' = cursor /\ times' = times
    BY <1>4 DEF Write
  <2>2. PagesTypeOK' /\ (\A i \in ConversationIds : updatedAt[i] <= currentTime)'
    BY <1>t, <2>1, PagesAssumption DEF PagesAssumption, PagesTypeOK, PagesInv
  <2>3. (quiet \subseteq Rows)'
    BY <1>t, <2>1 DEF PagesTypeOK, PagesInv, Rows
  \* What is written to only moves up.
  <2>4. ASSUME phase' = "paging" PROVE Given(cursor, times)'
    <3>1. ASSUME NEW i \in ConversationIds, Below(Key(i), cursor)' PROVE Below(Key(i), cursor)
      BY <1>t, <2>1, <3>1, PagesAssumption
         DEF PagesAssumption, PagesTypeOK, PagesInv, Below, Key
    <3> QED
      BY <2>1, <2>4, <3>1 DEF PagesInv, Given
  <2>5. QuietIsListed'
    BY <1>t, <2>1 DEF PagesTypeOK, PagesInv, QuietIsListed, Below, Key
  <2>6. ListedOnce'
    BY <2>1 DEF PagesInv, ListedOnce
  <2> QED
    BY <2>2, <2>3, <2>4, <2>5, <2>6 DEF PagesInv
<1>5. CASE UNCHANGED pagesVars
  BY <1>5 DEF pagesVars, PagesInv, PagesTypeOK, ListedOnce, QuietIsListed, Given, Rows, Key
<1> QED
  BY <1>1, <1>2, <1>3, <1>4, <1>5 DEF PagesNext

\* So it holds throughout every scroll.
THEOREM PagesInvariant == PagesSpec => []PagesInv
BY PagesInvInitially, PagesInvPreserved, PTL DEF PagesSpec
-----------------------------------------------------------------------------
\* PagesTypeOK: the state of client and list is well typed, and the cursor
\* nextCursor gives out is always one decodeCursor takes back.
THEOREM PagesTypeCorrect == PagesSpec => []PagesTypeOK
<1>1. PagesInv => PagesTypeOK
  BY DEF PagesInv
<1> QED
  BY <1>1, PagesInvariant, PTL

\* ListedOnce: getConversationPageByUserId gives no client a conversation
\* twice in one scroll, whatever is written between the pages.
THEOREM ConversationsListedOnce == PagesSpec => []ListedOnce
<1>1. PagesInv => ListedOnce
  BY DEF PagesInv
<1> QED
  BY <1>1, PagesInvariant, PTL

\* QuietIsListed: a conversation that stays where it is gets listed, however
\* many share its second and wherever the pages break.
THEOREM QuietConversationsListed == PagesSpec => []QuietIsListed
<1>1. PagesInv => QuietIsListed
  BY DEF PagesInv
<1> QED
  BY <1>1, PagesInvariant, PTL
-----------------------------------------------------------------------------
(***************************************************************************)
(* The list of the side bar, ConversationList.  What was there when the    *)
(* list was loaded is listed or is still reached: by its cursor, by the    *)
(* further page that is loaded, or by the one that can be tried again.     *)
(***************************************************************************)
ListCursors == [updatedAt : 0..LastSecond + 1, id : Chats \cup {0}]
NextPages == [at : ListCursors, more : BOOLEAN]

ListRequests == [stage : {"sent", "answered", "over"}, append : BOOLEAN, cursor : ListCursors,
                 stale : BOOLEAN, page : SUBSET Chats, next : NextPages, calm : SUBSET Chats]

Failures == [append : BOOLEAN, cursor : ListCursors, stale : BOOLEAN]

ListTypeOK ==
    /\ clock \in 1..LastSecond
    /\ rows \in [Chats -> 0..LastSecond]
    /\ loads \in Seq(ListRequests)
    /\ list \subseteq Chats
    /\ listCursor \in NextPages
    /\ failed \in Failures \cup {NoRetry}
    /\ calm \subseteq Table!Rows
    /\ patched \in BOOLEAN

\* Rows that are shown, or come after the page.
Whole(quietRows, shown, next) ==
    \A i \in quietRows : i \in shown \/ (next.more /\ Table!Below(Table!Key(i), next.at))

\* The page after this cursor is the one the list lacks.
Leads(c) == \A i \in calm : i \in list \/ Table!Below(Table!Key(i), c)

\* A load the list still waits for.
Live(load) == load.stage # "over" /\ ~load.stale

\* What a load brings, or asks for.
LoadIsTrue(load) ==
    /\ load.calm \subseteq Table!Rows
    /\ ~load.append => load.cursor = Table!Top
    /\ Live(load) /\ ~load.append /\ load.stage = "answered" =>
        Whole(load.calm, load.page, load.next)
    /\ ~patched /\ Live(load) /\ load.append =>
        /\ Leads(load.cursor)
        /\ load.stage = "answered" => Whole(calm, list \cup load.page, load.next)

LoadsAreTrue ==
    /\ \A n \in DOMAIN loads : LoadIsTrue(loads[n])
    /\ \A m, n \in DOMAIN loads : Live(loads[m]) /\ Live(loads[n]) => m = n

\* What can be tried again.
FailureIsTrue ==
    failed # NoRetry =>
        /\ ~failed.append => failed.cursor = Table!Top
        /\ ~patched /\ failed.append /\ ~failed.stale => Leads(failed.cursor)

ListInv ==
    /\ ListTypeOK
    /\ LoadsAreTrue
    /\ FailureIsTrue
    /\ ListIsWhole
-----------------------------------------------------------------------------
\* The number of rows is the same number in the table's module.
LEMMA TableCounts ==
    ASSUME NEW S
    PROVE  Table!Cardinality(S) = Cardinality(S)
BY DEF Table!Cardinality, Cardinality

\* A page of the list is the newest of what is found.
LEMMA ListPageIsNewest ==
    ASSUME ListTypeOK, NEW S \in SUBSET Chats
    PROVE  /\ Table!FirstOf(S) = Newest(rows, S, ListPage)
           /\ IsFiniteSet(S) /\ S \subseteq Int /\ \A i \in S : rows[i] \in Int
           /\ ListPage \in Nat
<1>1. \A i, j \in S : Table!Below(Table!Key(i), Table!Key(j)) <=> Older(rows, i, j)
  BY DEF Table!Below, Table!Key, Older
<1>2. Table!FirstOf(S) = Newest(rows, S, ListPage)
  <2>1. \A i \in S : {j \in S : Table!Below(Table!Key(i), Table!Key(j))} = {j \in S : Older(rows, i, j)}
    BY <1>1
  <2> QED
    BY <2>1, TableCounts DEF Table!FirstOf, Newest
<1>3. IsFiniteSet(S)
  BY ListAssumption, FS_Subset DEF ListAssumption
<1> QED
  BY <1>2, <1>3, ListAssumption DEF ListAssumption, ListTypeOK

\* What is found is on the page, or after its last row if there is more.
LEMMA PageIsWhole ==
    ASSUME ListTypeOK, NEW S \in SUBSET Chats,
           NEW last \in IF Table!HasMore(S)
                        THEN {Table!Key(i) : i \in {j \in Table!FirstOf(S) :
                                \A k \in Table!FirstOf(S) : ~Table!Below(Table!Key(k), Table!Key(j))}}
                        ELSE {Table!Top}
    PROVE  /\ last \in ListCursors
           /\ \A i \in S : i \in Table!FirstOf(S)
                            \/ (Table!HasMore(S) /\ Table!Below(Table!Key(i), last))
<1>1. CASE Table!HasMore(S)
  <2>1. PICK j \in Table!FirstOf(S) : last = Table!Key(j)
    BY <1>1
  <2>2. j \in S /\ j \in Chats /\ rows[j] \in 0..LastSecond
    BY <2>1, ListPageIsNewest DEF Newest, ListTypeOK
  <2>3. last \in ListCursors
    BY <2>1, <2>2, ListAssumption DEF ListAssumption, ListCursors, Table!Key
  <2>4. \A i \in S \ Table!FirstOf(S) : Older(rows, i, j)
    BY <2>1, ListPageIsNewest, NewestAreOnTop
  <2> QED
    BY <1>1, <2>1, <2>3, <2>4 DEF Older, Table!Below, Table!Key
<1>2. CASE ~Table!HasMore(S)
  <2>1. last = Table!Top
    BY <1>2
  <2>2. last \in ListCursors
    BY <2>1, ListAssumption DEF ListAssumption, ListCursors, Table!Top
  <2>3. Table!FirstOf(S) = S
    BY <1>2, ListPageIsNewest, FewAreAllNewest, TableCounts DEF Table!HasMore
  <2> QED
    BY <2>2, <2>3
<1> QED
  BY <1>1, <1>2

\* The side bar is empty, and nothing was loaded.
THEOREM ListInvInitially == ListInit => ListInv
<1> SUFFICES ASSUME ListInit PROVE ListInv
  OBVIOUS
<1>1. loads \in Seq(ListRequests) /\ DOMAIN loads = {}
  BY DEF ListInit
<1>2. NoPage \in NextPages
  BY ListAssumption DEF ListAssumption, NoPage, NextPages, ListCursors, Table!Top
<1>3. ListTypeOK
  <2>1. clock \in 1..LastSecond /\ rows \in [Chats -> 0..LastSecond]
    BY ListAssumption DEF ListAssumption, ListInit
  <2> QED
    BY <1>1, <1>2, <2>1 DEF ListInit, ListTypeOK
<1> QED
  BY <1>1, <1>3 DEF ListInit, ListInv, LoadsAreTrue, FailureIsTrue, ListIsWhole

\* A load that starts is the only one that is live.
LEMMA LoadStarts ==
    ASSUME ListInv, NEW append \in BOOLEAN, NEW at \in ListCursors, NEW stale \in BOOLEAN,
           Load(append, at, stale), UNCHANGED <<tableVars, shownVars>>,
           failed' \in {failed, NoRetry},
           ~append => at = Table!Top,
           ~patched /\ append /\ ~stale => Leads(at)
    PROVE  ListInv'
<1> DEFINE new == ListRequest("sent", append, at, stale)
<1>1. UNCHANGED <<clock, rows, list, listCursor, calm, patched>>
  BY DEF tableVars, shownVars
<1>2. NoPage \in NextPages /\ Table!Top \in ListCursors
  BY ListAssumption DEF ListAssumption, NoPage, NextPages, ListCursors, Table!Top
<1>3. /\ new \in ListRequests /\ new.stage = "sent" /\ new.append = append /\ new.cursor = at
      /\ new.stale = stale /\ new.calm = {}
  BY <1>2 DEF ListRequests, ListRequest
<1>4. ListOver \in ListRequests /\ ListOver.stage = "over" /\ ~ListOver.append /\ ListOver.calm = {}
      /\ ListOver.cursor = Table!Top
  BY <1>2 DEF ListRequests, ListRequest, ListOver
<1>5. /\ loads \in Seq(ListRequests) /\ Len(loads) \in Nat /\ DOMAIN loads = 1..Len(loads)
      /\ \A n \in 1..Len(loads) : loads[n] \in ListRequests
  BY DEF ListInv, ListTypeOK
<1> HIDE DEF new
<1>6. PICK older : older = AbortPrevious
  OBVIOUS
<1>7. ASSUME NEW n \in 1..Len(loads)
      PROVE  /\ older[n] \in ListRequests
             /\ older[n].stage = "over" \/ older[n].stale
             /\ older[n].calm \subseteq Table!Rows
             /\ ~older[n].append => older[n].cursor = Table!Top
  <2>1. /\ loads[n] \in ListRequests /\ loads[n].calm \subseteq Table!Rows
        /\ ~loads[n].append => loads[n].cursor = Table!Top
    BY <1>5 DEF ListInv, LoadsAreTrue, LoadIsTrue
  <2>2. older[n] = CASE loads[n].stage = "sent" -> ListOver
                     [] loads[n].stage = "answered" -> [loads[n] EXCEPT !.stale = TRUE]
                     [] OTHER -> loads[n]
    BY <1>5, <1>6 DEF AbortPrevious
  <2>3. CASE loads[n].stage = "sent"
    BY <1>4, <2>2, <2>3
  <2>4. CASE loads[n].stage = "answered"
    <3>1. older[n] = [loads[n] EXCEPT !.stale = TRUE]
      BY <2>2, <2>4
    <3> QED
      BY <2>1, <3>1 DEF ListRequests
  <2>5. CASE loads[n].stage = "over"
    <3>1. older[n] = loads[n]
      BY <2>2, <2>5
    <3> QED
      BY <2>1, <2>5, <3>1
  <2> QED
    BY <2>1, <2>3, <2>4, <2>5 DEF ListRequests
<1>8. DOMAIN older = 1..Len(loads) /\ older \in Seq(ListRequests) /\ Len(older) = Len(loads)
  <2>1. DOMAIN older = 1..Len(loads) /\ older = [n \in 1..Len(loads) |-> older[n]]
    BY <1>5, <1>6 DEF AbortPrevious
  <2> QED
    BY <1>5, <1>7, <2>1
<1>9. loads' = Append(older, new)
  BY <1>6 DEF Load, new
<1>10. /\ loads' \in Seq(ListRequests) /\ DOMAIN loads' = 1..(Len(loads) + 1)
       /\ \A n \in 1..Len(loads) : loads'[n] = older[n]
       /\ loads'[Len(loads) + 1] = new
  BY <1>3, <1>5, <1>8, <1>9
<1>11. ListTypeOK'
  BY <1>1, <1>10 DEF ListInv, ListTypeOK, Table!Rows
<1>12. \A c : Leads(c)' <=> Leads(c)
  BY <1>1 DEF Leads, Table!Below, Table!Key
<1>13. ASSUME NEW n \in 1..Len(loads)
       PROVE  LoadIsTrue(older[n])' /\ ~Live(older[n])
  BY <1>1, <1>7 DEF LoadIsTrue, Live, Table!Rows, Table!Top
<1>14. LoadIsTrue(new)'
  BY <1>1, <1>3, <1>12 DEF LoadIsTrue, Live, Table!Top
<1>15. LoadsAreTrue'
  <2>1. ASSUME NEW n \in DOMAIN loads' PROVE LoadIsTrue(loads[n])'
    <3>1. CASE n \in 1..Len(loads)
      BY <1>10, <1>13, <3>1
    <3>2. CASE n = Len(loads) + 1
      BY <1>10, <1>14, <3>2
    <3> QED
      BY <1>5, <1>10, <3>1, <3>2
  <2>2. \A n \in DOMAIN loads' : Live(loads'[n]) => n = Len(loads) + 1
    BY <1>5, <1>10, <1>13
  <2> QED
    BY <2>1, <2>2 DEF LoadsAreTrue, Live
<1>16. FailureIsTrue'
  BY <1>1, <1>12 DEF ListInv, FailureIsTrue, Table!Top
<1>17. ListIsWhole'
  BY <1>1 DEF ListInv, ListIsWhole, Table!Below, Table!Key
<1> QED
  BY <1>11, <1>15, <1>16, <1>17 DEF ListInv

\* One load goes on, from what was true of it.
LEMMA LoadGoesOn ==
    ASSUME ListInv, NEW n \in DOMAIN loads, NEW load \in ListRequests,
           loads' = [loads EXCEPT ![n] = load],
           UNCHANGED <<clock, rows, list, listCursor, calm, patched>>,
           LoadIsTrue(load), Live(load) => Live(loads[n]),
           failed' \in Failures \cup {NoRetry}, FailureIsTrue'
    PROVE  ListInv'
<1>1. /\ loads \in Seq(ListRequests) /\ DOMAIN loads = 1..Len(loads)
      /\ \A m \in DOMAIN loads : loads[m] \in ListRequests /\ LoadIsTrue(loads[m])
  BY DEF ListInv, ListTypeOK, LoadsAreTrue
<1>2. /\ loads' \in Seq(ListRequests) /\ DOMAIN loads' = DOMAIN loads /\ loads'[n] = load
      /\ \A m \in DOMAIN loads : m # n => loads'[m] = loads[m]
  BY <1>1
<1>3. ListTypeOK'
  BY <1>2 DEF ListInv, ListTypeOK, Table!Rows
<1>4. \A c : LoadIsTrue(c)' <=> LoadIsTrue(c)
  BY DEF LoadIsTrue, Live, Leads, Whole, Table!Below, Table!Key, Table!Rows, Table!Top
<1>5. LoadsAreTrue'
  <2>1. ASSUME NEW m \in DOMAIN loads' PROVE LoadIsTrue(loads[m])'
    BY <1>1, <1>2, <1>4
  <2>2. \A m \in DOMAIN loads' : Live(loads'[m]) => Live(loads[m])
    BY <1>2
  <2> QED
    BY <1>2, <2>1, <2>2 DEF ListInv, LoadsAreTrue, Live
<1>6. ListIsWhole'
  BY DEF ListInv, ListIsWhole, Table!Below, Table!Key
<1> QED
  BY <1>3, <1>5, <1>6 DEF ListInv

\* What the server answers has no hole between its page and its cursor.
LEMMA PageServed ==
    ASSUME ListInv, NEW n \in DOMAIN loads, ServePage(n)
    PROVE  ListInv'
<1> DEFINE found == Table!CursorRows(loads[n].cursor)
           page == Table!FirstOf(found)
<1>1. found \in SUBSET Table!Rows /\ found \in SUBSET Chats /\ page \in SUBSET Chats
  BY DEF Table!CursorRows, Table!Rows, Table!FirstOf
<1>2. PICK last \in IF Table!HasMore(found)
                    THEN {Table!Key(i) : i \in {j \in page :
                            \A k \in page : ~Table!Below(Table!Key(k), Table!Key(j))}}
                    ELSE {Table!Top} :
        loads' = [loads EXCEPT ![n].stage = "answered", ![n].page = page,
                               ![n].next = [at |-> last, more |-> Table!HasMore(found)],
                               ![n].calm = Table!Rows]
  BY ZenonT(30) DEF ServePage
<1>3. PICK next : next = [at |-> last, more |-> Table!HasMore(found)]
  OBVIOUS
<1>4. PICK load : load = [loads[n] EXCEPT !.stage = "answered", !.page = page,
                                          !.next = next, !.calm = Table!Rows]
  OBVIOUS
<1>5. /\ UNCHANGED <<clock, rows, list, listCursor, calm, patched, failed>>
      /\ loads[n].stage = "sent"
  BY DEF ServePage, tableVars, shownVars
<1>6. loads[n] \in ListRequests /\ LoadIsTrue(loads[n])
  BY DEF ListInv, ListTypeOK, LoadsAreTrue
<1>7. loads' = [loads EXCEPT ![n] = load]
  BY <1>2, <1>3, <1>4
<1>8. /\ last \in ListCursors
       /\ \A i \in found : i \in page \/ (next.more /\ Table!Below(Table!Key(i), next.at))
  BY <1>1, <1>2, <1>3, PageIsWhole DEF ListInv
<1>9. next \in NextPages
  BY <1>3, <1>8 DEF NextPages, Table!HasMore
<1>10. /\ load \in ListRequests /\ load.append = loads[n].append /\ load.cursor = loads[n].cursor
       /\ load.stale = loads[n].stale /\ load.page = page /\ load.next = next
       /\ load.calm = Table!Rows
  <2>1. Table!Rows \in SUBSET Chats
    BY DEF Table!Rows
  <2>2. load \in ListRequests
    BY <1>1, <1>4, <1>6, <1>9, <2>1 DEF ListRequests
  <2> QED
    BY <1>4, <1>6, <2>2 DEF ListRequests
<1>11. Live(load) => Live(loads[n])
  BY <1>5, <1>10 DEF Live
<1>12. loads[n].cursor = Table!Top => found = Table!Rows
  <2>1. ASSUME NEW i \in Table!Rows PROVE Table!Below(Table!Key(i), Table!Top)
    BY ListAssumption DEF ListAssumption, ListInv, ListTypeOK, Table!Rows, Table!Below, Table!Key, Table!Top
  <2>2. Table!CursorRows(Table!Top) = Table!Rows
    BY <2>1 DEF Table!CursorRows
  <2> QED
    BY <2>2
<1>13. ASSUME Leads(loads[n].cursor) PROVE Whole(calm, list \cup page, next)
  <2>1. \A i \in calm : i \in list \/ i \in found
    BY <1>13 DEF ListInv, ListTypeOK, Leads, Table!CursorRows
  <2> QED
    BY <1>8, <2>1 DEF Whole
<1>14. LoadIsTrue(load)
  BY <1>6, <1>8, <1>10, <1>11, <1>12, <1>13 DEF LoadIsTrue, Whole
<1>15. failed' \in Failures \cup {NoRetry} /\ FailureIsTrue'
  BY <1>5 DEF ListInv, ListTypeOK, FailureIsTrue, Leads, Table!Below, Table!Key, Table!Top
<1> QED
  BY <1>5, <1>7, <1>10, <1>11, <1>14, <1>15, LoadGoesOn

\* A load that fails can be tried again, and then leads to the same page.
LEMMA LoadFailed ==
    ASSUME ListInv, NEW n \in DOMAIN loads, ListFails(n)
    PROVE  ListInv'
<1>1. /\ UNCHANGED <<clock, rows, list, listCursor, calm, patched>>
      /\ loads' = [loads EXCEPT ![n] = ListOver]
      /\ loads[n].stage # "over"
      /\ failed' = [append |-> loads[n].append, cursor |-> loads[n].cursor,
                    stale |-> loads[n].append /\ loads[n].stale]
  BY DEF ListFails, tableVars, shownVars
<1>2. loads[n] \in ListRequests /\ LoadIsTrue(loads[n])
  BY DEF ListInv, ListTypeOK, LoadsAreTrue
<1>3. NoPage \in NextPages /\ Table!Top \in ListCursors
  BY ListAssumption DEF ListAssumption, NoPage, NextPages, ListCursors, Table!Top
<1>4. ListOver \in ListRequests /\ LoadIsTrue(ListOver) /\ ~Live(ListOver)
  BY <1>3 DEF ListRequests, ListRequest, ListOver, LoadIsTrue, Live
<1>5. failed' \in Failures
  BY <1>1, <1>2 DEF Failures, ListRequests
<1>6. FailureIsTrue'
  <2>1. \A c : Leads(c)' <=> Leads(c)
    BY <1>1 DEF Leads, Table!Below, Table!Key
  <2> QED
    BY <1>1, <1>2, <2>1 DEF FailureIsTrue, LoadIsTrue, Live, Table!Top
<1> QED
  BY <1>1, <1>4, <1>5, <1>6, LoadGoesOn

\* A further page comes after what is listed; a first page replaces it, and
\* what was to follow the old list is stale.
LEMMA LoadArrived ==
    ASSUME ListInv, NEW n \in DOMAIN loads, ListArrives(n)
    PROVE  ListInv'
<1>1. PICK load : load = loads[n]
  OBVIOUS
<1>2. /\ UNCHANGED <<clock, rows>>
      /\ loads' = [loads EXCEPT ![n] = ListOver]
      /\ load.stage = "answered"
      /\ listCursor' = load.next
  BY <1>1 DEF ListArrives, tableVars
<1>3. /\ loads \in Seq(ListRequests) /\ DOMAIN loads = 1..Len(loads)
      /\ \A m \in DOMAIN loads : loads[m] \in ListRequests /\ LoadIsTrue(loads[m])
      /\ \A m \in DOMAIN loads : Live(loads[m]) /\ Live(load) => m = n
  BY <1>1 DEF ListInv, ListTypeOK, LoadsAreTrue
<1>4. NoPage \in NextPages /\ Table!Top \in ListCursors
  BY ListAssumption DEF ListAssumption, NoPage, NextPages, ListCursors, Table!Top
<1>5. /\ ListOver \in ListRequests /\ ListOver.calm = {} /\ ~ListOver.append
      /\ ListOver.cursor = Table!Top /\ ListOver.stage = "over"
  BY <1>4 DEF ListRequests, ListRequest, ListOver
<1>6. /\ loads' \in Seq(ListRequests) /\ DOMAIN loads' = DOMAIN loads /\ loads'[n] = ListOver
      /\ \A m \in DOMAIN loads : m # n => loads'[m] = loads[m]
  BY <1>2, <1>3, <1>5
<1>7. \A m \in DOMAIN loads' : Live(loads'[m]) => Live(loads[m]) /\ m # n
  BY <1>5, <1>6 DEF Live
<1>8. load \in ListRequests /\ LoadIsTrue(load)
  BY <1>1, <1>3
<1>9. ASSUME ~patched' PROVE Live(load)
  BY <1>1, <1>2, <1>8, <1>9 DEF ListArrives, Live, ListRequests, ListInv, ListTypeOK
<1>10. LoadIsTrue(ListOver)'
  BY <1>5 DEF LoadIsTrue, Live, Table!Top
<1>11. ASSUME NEW m \in DOMAIN loads', m # n PROVE LoadIsTrue(loads[m])'
  <2>1. PICK other : other = loads[m]
    OBVIOUS
  <2>2. loads'[m] = other /\ LoadIsTrue(other) /\ (Live(other) => ~Live(load))
    BY <1>3, <1>6, <1>11, <2>1
  <2>3. LoadIsTrue(other)'
    BY <1>2, <1>9, <2>2 DEF LoadIsTrue, Live, Whole, Table!Rows, Table!Top, Table!Below, Table!Key
  <2> QED
    BY <2>2, <2>3
<1>12. LoadsAreTrue'
  <2>1. ASSUME NEW m \in DOMAIN loads' PROVE LoadIsTrue(loads[m])'
    BY <1>6, <1>10, <1>11
  <2> QED
    BY <1>6, <1>7, <2>1 DEF ListInv, LoadsAreTrue, Live
<1>13. CASE load.append
  <2>1. /\ list' = list \cup load.page /\ calm' = calm /\ failed' = failed
        /\ patched' = (patched \/ load.stale)
    BY <1>1, <1>13 DEF ListArrives
  <2>2. ListTypeOK'
    BY <1>2, <1>6, <1>8, <2>1 DEF ListInv, ListTypeOK, ListRequests, Table!Rows
  <2>3. \A c : Leads(c) => Leads(c)'
    BY <1>2, <2>1 DEF Leads, Table!Below, Table!Key
  <2>4. ~patched' => ~patched
    BY <1>8, <2>1 DEF ListRequests, ListInv, ListTypeOK
  <2>5. FailureIsTrue'
    BY <2>1, <2>3, <2>4 DEF ListInv, FailureIsTrue, Table!Top
  <2>6. ListIsWhole'
    BY <1>2, <1>8, <1>9, <1>13, <2>1, <2>4 DEF LoadIsTrue, Whole, ListIsWhole, Table!Below, Table!Key
  <2> QED
    BY <1>12, <2>2, <2>5, <2>6 DEF ListInv
<1>14. CASE ~load.append
  <2>1. /\ list' = load.page /\ calm' = load.calm /\ patched' = load.stale
        /\ failed' = IF failed = NoRetry THEN NoRetry ELSE [failed EXCEPT !.stale = failed.append]
    BY <1>1, <1>14 DEF ListArrives
  <2>2. /\ failed' \in Failures \cup {NoRetry}
        /\ failed' # NoRetry => /\ failed # NoRetry
                                /\ failed'.append = failed.append
                                /\ failed'.cursor = failed.cursor
                                /\ failed'.stale = failed.append
    BY <2>1 DEF ListInv, ListTypeOK, Failures
  <2>3. ListTypeOK'
    BY <1>2, <1>6, <1>8, <2>1, <2>2 DEF ListInv, ListTypeOK, LoadIsTrue, ListRequests, Table!Rows
  <2>4. FailureIsTrue'
    BY <2>2 DEF ListInv, FailureIsTrue, Table!Top
  <2>5. ListIsWhole'
    BY <1>2, <1>8, <1>9, <1>14, <2>1 DEF LoadIsTrue, Whole, ListIsWhole, Table!Below, Table!Key
  <2> QED
    BY <1>12, <2>3, <2>4, <2>5 DEF ListInv
<1> QED
  BY <1>13, <1>14

\* A row that is written to moves up and is not spoken of any more.
LEMMA RowWritten ==
    ASSUME ListInv, NEW w \in Chats, WriteRow(w)
    PROVE  ListInv'
<1>1. /\ UNCHANGED <<clock, list, listCursor, patched, failed>>
      /\ rows' = [rows EXCEPT ![w] = clock]
      /\ calm' = calm \ {w}
      /\ loads' = [n \in DOMAIN loads |-> [loads[n] EXCEPT !.calm = @ \ {w}]]
  BY DEF WriteRow, Table!Write
<1>2. /\ clock \in 1..LastSecond /\ rows \in [Chats -> 0..LastSecond]
      /\ loads \in Seq(ListRequests) /\ DOMAIN loads = 1..Len(loads) /\ Len(loads) \in Nat
      /\ \A n \in DOMAIN loads : loads[n] \in ListRequests /\ LoadIsTrue(loads[n])
  BY DEF ListInv, ListTypeOK, LoadsAreTrue
<1>3. /\ rows' \in [Chats -> 0..LastSecond] /\ Table!Rows \subseteq Table!Rows'
      /\ \A i \in Chats : i # w => rows'[i] = rows[i]
  BY <1>1, <1>2, ListAssumption DEF ListAssumption, Table!Rows
<1>4. \A c : \A i \in Chats : i # w => (Table!Below(Table!Key(i), c)' <=> Table!Below(Table!Key(i), c))
  BY <1>3 DEF Table!Below, Table!Key
<1>5. calm \subseteq Chats /\ Table!Rows \subseteq Chats
  BY DEF ListInv, ListTypeOK, Table!Rows
<1>6. \A c : Leads(c) => Leads(c)'
  BY <1>1, <1>4, <1>5 DEF Leads
<1>7. ASSUME NEW n \in DOMAIN loads
      PROVE  /\ n \in DOMAIN loads' /\ loads'[n] \in ListRequests
             /\ LoadIsTrue(loads[n])'
             /\ Live(loads'[n]) <=> Live(loads[n])
  <2>1. PICK old : old = loads[n]
    OBVIOUS
  <2>2. PICK load : load = [old EXCEPT !.calm = old.calm \ {w}]
    OBVIOUS
  <2>3. old \in ListRequests /\ LoadIsTrue(old)
    BY <1>2, <2>1
  <2>4. /\ load \in ListRequests /\ load.stage = old.stage /\ load.append = old.append
        /\ load.cursor = old.cursor /\ load.stale = old.stale /\ load.page = old.page
        /\ load.next = old.next /\ load.calm = old.calm \ {w}
    BY <2>2, <2>3 DEF ListRequests
  <2>5. n \in DOMAIN loads' /\ loads'[n] = load
    BY <1>1, <2>1, <2>2
  <2>6. \A shown, next : \A quietRows \in SUBSET Chats :
            Whole(quietRows, shown, next) => Whole(quietRows \ {w}, shown, next)'
    BY <1>4 DEF Whole
  <2>7. old.calm \in SUBSET Chats /\ calm \in SUBSET Chats
    BY <1>5, <2>3 DEF ListRequests
  <2>8. LoadIsTrue(load)'
    <3>1. load.calm \subseteq Table!Rows'
      BY <1>3, <2>3, <2>4 DEF LoadIsTrue
    <3>2. ~load.append => load.cursor = Table!Top'
      BY <2>3, <2>4 DEF LoadIsTrue, Table!Top
    <3>3. ASSUME Live(load), ~load.append, load.stage = "answered"
          PROVE  Whole(load.calm, load.page, load.next)'
      <4>1. Whole(old.calm, old.page, old.next)
        BY <2>3, <2>4, <3>3 DEF LoadIsTrue, Live
      <4> QED
        BY <2>4, <2>6, <2>7, <4>1
    <3>4. ASSUME ~patched', Live(load), load.append
          PROVE  /\ Leads(load.cursor)'
                 /\ load.stage = "answered" => Whole(calm, list \cup load.page, load.next)'
      <4>1. /\ Leads(old.cursor)
            /\ old.stage = "answered" => Whole(calm, list \cup old.page, old.next)
        BY <1>1, <2>3, <2>4, <3>4 DEF LoadIsTrue, Live
      <4>2. Leads(load.cursor)'
        BY <1>6, <2>4, <4>1
      <4>3. load.stage = "answered" => Whole(calm, list \cup load.page, load.next)'
        BY <1>1, <1>4, <1>5, <2>4, <4>1 DEF Whole
      <4> QED
        BY <4>2, <4>3
    <3> QED
      BY <3>1, <3>2, <3>3, <3>4 DEF LoadIsTrue, Live
  <2>9. Live(loads'[n]) <=> Live(loads[n])
    BY <2>1, <2>4, <2>5 DEF Live
  <2> QED
    BY <2>4, <2>5, <2>8, <2>9
<1>8. DOMAIN loads' = DOMAIN loads
  BY <1>1
<1>9. ListTypeOK'
  <2>1. loads' \in Seq(ListRequests)
    BY <1>1, <1>2, <1>7, <1>8
  <2> QED
    BY <1>1, <1>3, <2>1 DEF ListInv, ListTypeOK
<1>10. LoadsAreTrue'
  BY <1>7, <1>8 DEF ListInv, LoadsAreTrue, Live
<1>11. FailureIsTrue'
  BY <1>1, <1>6 DEF ListInv, FailureIsTrue, Table!Top
<1>12. ListIsWhole'
  BY <1>1, <1>4, <1>5 DEF ListInv, ListIsWhole
<1> QED
  BY <1>9, <1>10, <1>11, <1>12 DEF ListInv

\* Loads, pages, failures, writes and the clock keep it.
THEOREM ListInvPreserved == ListInv /\ [ListNext]_listVars => ListInv'
<1> SUFFICES ASSUME ListInv, [ListNext]_listVars PROVE ListInv'
  OBVIOUS
<1>t. ListTypeOK /\ Table!Top \in ListCursors
  BY ListAssumption DEF ListAssumption, ListInv, ListCursors, Table!Top
\* Neither the table nor a load is touched.
<1>q. ASSUME UNCHANGED <<rows, loads, list, listCursor, calm, patched>>,
             clock' \in 1..LastSecond, failed' \in {failed, NoRetry}
      PROVE  ListInv'
  <2>1. ListTypeOK'
    BY <1>q DEF ListInv, ListTypeOK, Table!Rows
  <2>2. LoadsAreTrue'
    BY <1>q DEF ListInv, LoadsAreTrue, LoadIsTrue, Live, Leads, Whole,
                Table!Rows, Table!Top, Table!Below, Table!Key
  <2>3. FailureIsTrue' /\ ListIsWhole'
    BY <1>q DEF ListInv, FailureIsTrue, ListIsWhole, Leads, Table!Top, Table!Below, Table!Key
  <2> QED
    BY <2>1, <2>2, <2>3 DEF ListInv
<1>1. CASE OpenList
  BY <1>1, <1>t, LoadStarts DEF OpenList
<1>2. CASE LoadMore
  <2>1. listCursor.at \in ListCursors /\ (~patched => Leads(listCursor.at))
    BY <1>2, <1>t DEF LoadMore, ListInv, ListTypeOK, NextPages, ListIsWhole, Leads
  <2> QED
    BY <1>2, <2>1, LoadStarts DEF LoadMore
<1>3. CASE RetryLoad
  <2>1. /\ failed.append \in BOOLEAN /\ failed.cursor \in ListCursors /\ failed.stale \in BOOLEAN
        /\ ~failed.append => failed.cursor = Table!Top
        /\ ~patched /\ failed.append /\ ~failed.stale => Leads(failed.cursor)
    BY <1>3, <1>t DEF RetryLoad, ListInv, ListTypeOK, FailureIsTrue, Failures
  <2> QED
    BY <1>3, <2>1, LoadStarts DEF RetryLoad
<1>4. CASE AskQuestion
  BY <1>4, <1>q, <1>t DEF AskQuestion, tableVars, shownVars, ListTypeOK
<1>5. CASE ReplyArrives
  BY <1>5, <1>t, LoadStarts DEF ReplyArrives
<1>6. CASE AskFails
  BY <1>6, <1>q, <1>t DEF AskFails, tableVars, shownVars, ListTypeOK
<1>7. ASSUME NEW n \in DOMAIN loads, ServePage(n) \/ ListArrives(n) \/ ListFails(n)
      PROVE  ListInv'
  BY <1>7, PageServed, LoadArrived, LoadFailed
<1>8. ASSUME NEW i \in Chats, WriteRow(i) PROVE ListInv'
  BY <1>8, RowWritten
<1>9. CASE ClockTicks
  <2>1. clock' \in 1..LastSecond
    BY <1>9, <1>t, ListAssumption DEF ListAssumption, ClockTicks, Table!TimePasses, ListTypeOK
  <2>2. UNCHANGED <<rows, loads, list, listCursor, calm, patched, failed>>
    BY <1>9 DEF ClockTicks, Table!TimePasses, shownVars
  <2> QED
    BY <1>q, <2>1, <2>2
<1>10. CASE UNCHANGED listVars
  BY <1>10, <1>q, <1>t DEF listVars, tableVars, shownVars, ListTypeOK
<1> QED
  BY <1>1, <1>2, <1>3, <1>4, <1>5, <1>6, <1>7, <1>8, <1>9, <1>10 DEF ListNext

\* So it holds however loads, retries and writes overtake each other.
THEOREM ListInvariant == ListSpec => []ListInv
BY ListInvInitially, ListInvPreserved, PTL DEF ListSpec

\* ListIsWhole: the side bar of App.jsx has no hole, whatever order the
\* answers of loadConversations come in, with its aborts, retries and failures.
THEOREM SideBarIsWhole == ListSpec => []ListIsWhole
<1>1. ListInv => ListIsWhole
  BY DEF ListInv
<1> QED
  BY <1>1, ListInvariant, PTL
=============================================================================
