--------------------------- MODULE ConversationList ---------------------------
(***************************************************************************)
(* The conversation list in the side bar: loadConversations of App.jsx     *)
(* over the pages of ConversationPages.  A load aborts the one before it;  *)
(* the list is loaded when the user is known and again after every reply,  *)
(* the button appends the page that follows, and an error on display       *)
(* offers to load again what failed.  Answers come late or not at all, and *)
(* once its headers are there no abort reaches a load (requestJson).       *)
(***************************************************************************)
EXTENDS Integers, Sequences, FiniteSets

CONSTANTS
    Chats,      \* conversations of the user, as numbers in string order
    ListPage,   \* config.conversationPageSize
    LastSecond, \* bound: last second of the clock
    MaxLoads,   \* bound: loads of the list
    NoRetry     \* no failed load is on display

ASSUME ListAssumption ==
    /\ Chats \subseteq Nat
    /\ IsFiniteSet(Chats)
    /\ ListPage \in 1..100
    /\ LastSecond \in Nat \ {0}
    /\ MaxLoads \in Nat

VARIABLES
    clock,      \* CURRENT_TIMESTAMP
    rows,       \* conversations.updated_at; 0: no such row
    loads,      \* the requests, in the order they were made
    list,       \* the conversations of the side bar
    listCursor, \* conversationCursor, and whether there is more after it
    loadingMore,
    failed,     \* what retryFailedAction would load, and (history) whether it
                \* is a page of another list than the one on display
    asking,     \* a question is under way
    calm,       \* history: rows of the last first page, not written to since
    patched     \* history: a page of another list, or a late one, has come

tableVars == <<clock, rows>>
shownVars == <<list, listCursor, calm, patched>>
listVars == <<tableVars, loads, shownVars, loadingMore, failed, asking>>

\* The table and its pages, without the client of that module.
Table == INSTANCE ConversationPages WITH
    ConversationIds <- Chats, ConversationPageSize <- ListPage, LastTime <- LastSecond,
    currentTime <- clock, updatedAt <- rows,
    phase <- "idle", cursor <- 0, times <- 0, quiet <- {}

NoPage == [at |-> Table!Top, more |-> FALSE]

ListInit ==
    /\ clock = 1
    /\ rows \in [Chats -> {0, 1}]
    /\ loads = <<>>
    /\ list = {}
    /\ listCursor = NoPage
    /\ loadingMore = FALSE
    /\ failed = NoRetry
    /\ asking = FALSE
    /\ calm = {}
    /\ patched = FALSE
-----------------------------------------------------------------------------
ListRequest(stage, append, cursor, stale) ==
    [stage |-> stage, append |-> append, cursor |-> cursor, stale |-> stale,
     page |-> {}, next |-> NoPage, calm |-> {}]

\* A load that is over, arrived or aborted.
ListOver == ListRequest("over", FALSE, Table!Top, FALSE)

\* Mutant: loads are not aborted.
KeepPrevious == loads

\* conversationListRequestRef.current?.abort(), which comes too late for a
\* load whose headers have arrived.
AbortPrevious ==
    [n \in DOMAIN loads |->
        CASE loads[n].stage = "sent" -> ListOver
          [] loads[n].stage = "answered" -> [loads[n] EXCEPT !.stale = TRUE]
          [] OTHER -> loads[n]]

\* An aborted load of a further page still resets loadingMore when it ends,
\* after the new one has set it.
Load(append, cursor, stale) ==
    LET resets == \E n \in DOMAIN loads : loads[n].stage = "sent" /\ loads[n].append
    IN  /\ Len(loads) < MaxLoads
        /\ loads' = Append(AbortPrevious, ListRequest("sent", append, cursor, stale))
        /\ loadingMore' = IF resets THEN FALSE ELSE append \/ loadingMore

\* The user is known.
OpenList ==
    /\ loads = <<>>
    /\ Load(FALSE, Table!Top, FALSE)
    /\ UNCHANGED <<tableVars, shownVars, failed, asking>>

LoadMore ==
    /\ listCursor.more
    /\ ~loadingMore
    /\ Load(TRUE, listCursor.at, FALSE)
    /\ UNCHANGED <<tableVars, shownVars, failed, asking>>

\* retryFailedAction: the cursor may be one of a list that has been replaced.
RetryLoad ==
    /\ failed # NoRetry
    /\ Load(failed.append, failed.cursor, failed.stale)
    /\ failed' = NoRetry
    /\ UNCHANGED <<tableVars, shownVars, asking>>

\* sendMessage clears the error; its reply reloads the list, its failure
\* replaces the error.
AskQuestion ==
    /\ ~asking
    /\ asking' = TRUE
    /\ failed' = NoRetry
    /\ UNCHANGED <<tableVars, loads, shownVars, loadingMore>>

ReplyArrives ==
    /\ asking
    /\ asking' = FALSE
    /\ Load(FALSE, Table!Top, FALSE)
    /\ UNCHANGED <<tableVars, shownVars, failed>>

AskFails ==
    /\ asking
    /\ asking' = FALSE
    /\ failed' = NoRetry
    /\ UNCHANGED <<tableVars, loads, shownVars, loadingMore>>

\* The server reads a page, and the headers of its answer arrive.
ServePage(n) ==
    LET found == Table!CursorRows(loads[n].cursor)
        page == Table!FirstOf(found)
    IN  /\ loads[n].stage = "sent"
        /\ \E last \in IF Table!HasMore(found)
                       THEN {Table!Key(i) : i \in {j \in page : \A k \in page : ~Table!Below(Table!Key(k), Table!Key(j))}}
                       ELSE {Table!Top} :
             loads' = [loads EXCEPT ![n].stage = "answered", ![n].page = page,
                                    ![n].next = [at |-> last, more |-> Table!HasMore(found)],
                                    ![n].calm = Table!Rows]
        /\ UNCHANGED <<tableVars, shownVars, loadingMore, failed, asking>>

\* The body arrives: a further page is merged by id, a first page replaces
\* the list.
ListArrives(n) ==
    /\ loads[n].stage = "answered"
    /\ loads' = [loads EXCEPT ![n] = ListOver]
    /\ listCursor' = loads[n].next
    /\ IF loads[n].append
       THEN /\ list' = list \cup loads[n].page
            /\ loadingMore' = FALSE
            /\ patched' = (patched \/ loads[n].stale)
            /\ UNCHANGED <<calm, failed>>
       ELSE /\ list' = loads[n].page
            /\ calm' = loads[n].calm
            /\ patched' = loads[n].stale
            /\ failed' = IF failed = NoRetry THEN NoRetry
                         ELSE [failed EXCEPT !.stale = failed.append]
            /\ UNCHANGED loadingMore
    /\ UNCHANGED <<tableVars, asking>>

\* The load fails or, before its headers, times out.
ListFails(n) ==
    /\ loads[n].stage \in {"sent", "answered"}
    /\ loads' = [loads EXCEPT ![n] = ListOver]
    /\ loadingMore' = (loadingMore /\ ~loads[n].append)
    /\ failed' = [append |-> loads[n].append, cursor |-> loads[n].cursor,
                  stale |-> loads[n].append /\ loads[n].stale]
    /\ UNCHANGED <<tableVars, shownVars, asking>>

\* A message is written, or a conversation created, by any tab of the user.
WriteRow(i) ==
    /\ Table!Write(i)
    /\ calm' = calm \ {i}
    /\ loads' = [n \in DOMAIN loads |-> [loads[n] EXCEPT !.calm = @ \ {i}]]
    /\ UNCHANGED <<list, listCursor, patched, loadingMore, failed, asking>>

ClockTicks ==
    /\ Table!TimePasses
    /\ UNCHANGED <<loads, shownVars, loadingMore, failed, asking>>

ListNext ==
    \/ OpenList
    \/ LoadMore
    \/ RetryLoad
    \/ AskQuestion
    \/ ReplyArrives
    \/ AskFails
    \/ \E n \in DOMAIN loads : ServePage(n) \/ ListArrives(n) \/ ListFails(n)
    \/ \E i \in Chats : WriteRow(i)
    \/ ClockTicks

ListSpec == ListInit /\ [][ListNext]_listVars
-----------------------------------------------------------------------------
\* The side bar has no hole: a conversation that was there when the list was
\* loaded and has not been written to since is listed, or is still to come
\* after the cursor, with reloads, further pages and failures overtaking each
\* other.  A retry of a further page after the list was reloaded does leave a
\* hole, and so does a load that was aborted too late, until the next reload;
\* those lists are not spoken of.
ListIsWhole ==
    ~patched => \A i \in calm :
        \/ i \in list
        \/ listCursor.more /\ Table!Below(Table!Key(i), listCursor.at)
=============================================================================
