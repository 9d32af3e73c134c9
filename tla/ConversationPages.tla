-------------------------- MODULE ConversationPages --------------------------
(***************************************************************************)
(* The conversation list, page by page: getConversationPageByUserId and    *)
(* the cursor of pagination.mjs, read by a client that asks for the next   *)
(* page as long as there is one, while messages are written to the         *)
(* conversations (which moves them up) and new ones are created.  The list *)
(* is ordered by updated_at, which counts seconds, then id.                *)
(***************************************************************************)
EXTENDS Integers, FiniteSets

CONSTANTS
    ConversationIds,        \* conversation ids of one user, as numbers in string order
    ConversationPageSize,   \* config.conversationPageSize
    LastTime                \* bound: last second of the clock

ASSUME PagesAssumption ==
    /\ ConversationIds \subseteq Nat
    /\ IsFiniteSet(ConversationIds)
    /\ ConversationPageSize \in 1..100
    /\ LastTime \in Nat \ {0}

VARIABLES
    currentTime, \* CURRENT_TIMESTAMP
    updatedAt,   \* conversations.updated_at; 0: no such row
    phase,       \* of the client
    cursor,      \* its nextCursor
    times,       \* how often it was given a conversation
    quiet        \* history: rows since its first page, not written to since

pagesVars == <<currentTime, updatedAt, phase, cursor, times, quiet>>

\* updated_at and id are compared together.
Key(i) == [updatedAt |-> updatedAt[i], id |-> i]
Below(x, y) ==
    \/ x.updatedAt < y.updatedAt
    \/ x.updatedAt = y.updatedAt /\ x.id < y.id

\* Above every row.
Top == [updatedAt |-> LastTime + 1, id |-> 0]

PagesTypeOK ==
    /\ currentTime \in 1..LastTime
    /\ updatedAt \in [ConversationIds -> 0..LastTime]
    /\ phase \in {"idle", "paging", "done"}
    /\ cursor \in [updatedAt : 1..LastTime + 1, id : ConversationIds \cup {0}]
    /\ times \in [ConversationIds -> Nat]
    /\ quiet \subseteq ConversationIds

PagesInit ==
    /\ currentTime = 1
    /\ updatedAt \in [ConversationIds -> {0, 1}]
    /\ phase = "idle"
    /\ cursor = Top
    /\ times = [i \in ConversationIds |-> 0]
    /\ quiet = {}
-----------------------------------------------------------------------------
Rows == {i \in ConversationIds : updatedAt[i] # 0}

\* Mutants: the row the cursor names is given again; rows of the same second
\* are taken for given.
FromCursor(c) == {i \in Rows : ~Below(c, Key(i))}
OlderThanCursor(c) == {i \in Rows : updatedAt[i] < c.updatedAt}

CursorRows(c) == {i \in Rows : Below(Key(i), c)}

\* Mutant: hasMore is decided before the cursor is applied.
HasMoreRows(S) == Cardinality(Rows) > ConversationPageSize

HasMore(S) == Cardinality(S) > ConversationPageSize

FirstOf(S) == {i \in S : Cardinality({j \in S : Below(Key(i), Key(j))}) < ConversationPageSize}

\* The page that follows cursor c, and the cursor that follows the page: its
\* last row.  The last page comes without one.
Receive(c, seen) ==
    LET page == FirstOf(CursorRows(c))
    IN  /\ times' = [i \in ConversationIds |-> IF i \in page THEN seen[i] + 1 ELSE seen[i]]
        /\ IF HasMore(CursorRows(c))
           THEN /\ phase' = "paging"
                /\ \E last \in page :
                    /\ \A i \in page : ~Below(Key(i), Key(last))
                    /\ cursor' = Key(last)
           ELSE /\ phase' = "done"
                /\ cursor' = Top
        /\ UNCHANGED <<currentTime, updatedAt>>

\* The list is opened, or reloaded.
FirstPage ==
    /\ phase # "paging"
    /\ Receive(Top, [i \in ConversationIds |-> 0])
    /\ quiet' = Rows

NextPage ==
    /\ phase = "paging"
    /\ Receive(cursor, times)
    /\ UNCHANGED quiet

\* createConversation, or createMessage with updateConversationTimestamp.
Write(i) ==
    /\ updatedAt' = [updatedAt EXCEPT ![i] = currentTime]
    /\ quiet' = quiet \ {i}
    /\ UNCHANGED <<currentTime, phase, cursor, times>>

TimePasses ==
    /\ currentTime < LastTime
    /\ currentTime' = currentTime + 1
    /\ UNCHANGED <<updatedAt, phase, cursor, times, quiet>>

PagesNext == FirstPage \/ NextPage \/ TimePasses \/ \E i \in ConversationIds : Write(i)

PagesSpec == PagesInit /\ [][PagesNext]_pagesVars

\* The client that keeps scrolling gets its pages.
PagesFairness == WF_pagesVars(NextPage)
-----------------------------------------------------------------------------
\* No conversation is given twice, however the list changes between pages:
\* what is written to moves up, out of the reach of the cursor.
ListedOnce == \A i \in ConversationIds : times[i] <= 1

\* A conversation that was there when the list was opened and has not been
\* written to since is not skipped, with as many rows in one second as there
\* may be: it has been given, or the cursor has not reached it.
QuietIsListed ==
    /\ phase = "done" => \A i \in quiet : times[i] = 1
    /\ phase = "paging" => \A i \in quiet : times[i] = 1 \/ Below(Key(i), cursor)

\* Scrolling ends, although conversations keep moving meanwhile.
ScrollingEnds == phase = "paging" ~> phase = "done"
=============================================================================
