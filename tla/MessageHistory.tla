---------------------------- MODULE MessageHistory ----------------------------
(***************************************************************************)
(* The messages of one conversation on the chat page: loadMessages and     *)
(* sendMessage of App.jsx over the pages of MessagePages, and the groups   *)
(* ChatPage.jsx shows them in.  A load aborts the one before it, older     *)
(* pages are put in front, an error on display offers to load again what   *)
(* failed; a question of this tab is appended under an id of its own, an   *)
(* answer under that of its row.  Once its headers are there no abort      *)
(* reaches a load (requestJson).                                           *)
(***************************************************************************)
EXTENDS Integers, Sequences, FiniteSets

CONSTANTS
    LastRow,        \* bound: rows of the table
    HistoryPage,    \* config.messagePageSize
    Questions,      \* the rows that hold questions; the others are answers
    MaxLoadings,    \* bound: loads of messages
    MaxAsked,       \* bound: questions of this tab
    NothingFailed   \* no failed load is on display

ASSUME HistoryAssumption ==
    /\ LastRow \in Nat
    /\ HistoryPage \in 1..200

VARIABLES
    table,          \* the rows, as in MessagePages
    loading,        \* the requests, in the order they were made
    pane,           \* messages
    messageCursor,  \* 0: none, and then there are no older messages
    loadingOlder,
    failure,        \* what retryFailedAction would load
    asked,          \* questions of this tab so far
    waiting,        \* one of them is under way
    earlier,        \* history: the rows there were when it was asked
    atLoad,         \* history: the rows there were when the newest page was read
    replied,        \* history: the rows appended by replies
    shuffled        \* history: a page came that is not the next, or too late

paneVars == <<pane, messageCursor, atLoad, replied, shuffled>>
askVars == <<failure, asked, waiting, earlier>>
historyVars == <<table, loading, paneVars, loadingOlder, askVars>>

\* The table and its pages, without the client of that module.
Store == INSTANCE MessagePages WITH
    MaxId <- LastRow, MessagePageSize <- HistoryPage, MetadataIsText <- TRUE,
    row <- table, scrolling <- "idle", before <- 0, givenTimes <- 0, atOpening <- {}

\* A set of numbers as a list, the least first.
InOrder(S) ==
    [k \in 1..Cardinality(S) |-> CHOOSE i \in S : Cardinality({j \in S : j < i}) = k - 1]

Message(i) == [id |-> i, role |-> IF i \in Questions THEN "user" ELSE "assistant"]

\* A question of this tab, and the message that welcomes.
Question(n) == [id |-> LastRow + n + 1, role |-> "user"]
InitialMessages == <<[id |-> LastRow + 1, role |-> "assistant"]>>

PageRequest(stage, prepend, cursor, stale) ==
    [stage |-> stage, prepend |-> prepend, cursor |-> cursor, stale |-> stale,
     page |-> <<>>, next |-> 0, seen |-> {}]
PageOver == PageRequest("over", FALSE, 0, FALSE)

HistoryInit ==
    /\ table \in [Store!MessageIds -> {"free", "visible", "elsewhere"}]
    /\ \A i, j \in Store!MessageIds : table[i] # "free" /\ j < i => table[j] # "free"
    /\ loading = <<>>
    /\ pane = InitialMessages
    /\ messageCursor = 0
    /\ loadingOlder = FALSE
    /\ failure = NothingFailed
    /\ asked = 0
    /\ waiting = FALSE
    /\ earlier = {}
    /\ atLoad = {}
    /\ replied = {}
    /\ shuffled = FALSE
-----------------------------------------------------------------------------
\* Mutant: loads are not aborted.
KeepLoads == loading

\* messageListRequestRef.current?.abort(), which comes too late for a load whose
\* headers have arrived.
AbortLoads ==
    [n \in DOMAIN loading |->
        CASE loading[n].stage = "sent" -> PageOver
          [] loading[n].stage = "answered" -> [loading[n] EXCEPT !.stale = TRUE]
          [] OTHER -> loading[n]]

\* An aborted load of older messages still resets loadingOlder when it ends.
LoadMessages(prepend, cursor, stale) ==
    LET resets == \E n \in DOMAIN loading : loading[n].stage = "sent" /\ loading[n].prepend
    IN  /\ Len(loading) < MaxLoadings
        /\ loading' = Append(AbortLoads, PageRequest("sent", prepend, cursor, stale))
        /\ loadingOlder' = IF resets THEN FALSE ELSE prepend \/ loadingOlder

\* The conversation is selected, from another one: the pane keeps what it
\* shows until the load is answered.
Select ==
    /\ LoadMessages(FALSE, 0, FALSE)
    /\ messageCursor' = 0
    /\ atLoad' = {}
    /\ UNCHANGED <<table, pane, replied, shuffled, askVars>>

LoadOlder ==
    /\ messageCursor # 0
    /\ ~loadingOlder
    /\ LoadMessages(TRUE, messageCursor, FALSE)
    /\ UNCHANGED <<table, paneVars, askVars>>

\* retryFailedAction: by now other pages may have been loaded.
RetryMessages ==
    /\ failure # NothingFailed
    /\ LoadMessages(failure.prepend, failure.cursor,
                    failure.prepend /\ failure.cursor # messageCursor)
    /\ failure' = NothingFailed
    /\ UNCHANGED <<table, paneVars, asked, waiting, earlier>>

\* The server reads a page, and the headers of its answer arrive.
ServeMessages(n) ==
    LET c == loading[n].cursor
        list == InOrder(Store!PageOf(c))
    IN  /\ loading[n].stage = "sent"
        /\ loading' = [loading EXCEPT ![n].stage = "answered",
             ![n].page = [k \in DOMAIN list |-> Message(list[k])],
             ![n].next = IF Cardinality(Store!Fetched(c)) > HistoryPage
                         THEN Store!NextCursor(c) ELSE 0,
             ![n].seen = Store!Visible]
        /\ UNCHANGED <<table, paneVars, loadingOlder, askVars>>

\* mergeUniqueMessages: the first of two messages with the same id stays.
MergeUnique(older, current) ==
    LET fresh == InOrder({k \in DOMAIN current : \A j \in DOMAIN older : older[j] # current[k]})
    IN  older \o [k \in DOMAIN fresh |-> current[fresh[k]]]

MessagesArrive(n) ==
    /\ loading[n].stage = "answered"
    /\ loading' = [loading EXCEPT ![n] = PageOver]
    /\ messageCursor' = loading[n].next
    /\ IF loading[n].prepend
       THEN /\ pane' = MergeUnique(loading[n].page, pane)
            /\ loadingOlder' = FALSE
            /\ shuffled' = (shuffled \/ loading[n].stale)
            /\ UNCHANGED <<atLoad, replied>>
       ELSE /\ pane' = IF loading[n].page = <<>> THEN InitialMessages ELSE loading[n].page
            /\ atLoad' = loading[n].seen
            /\ replied' = {}
            /\ shuffled' = loading[n].stale
            /\ UNCHANGED loadingOlder
    /\ UNCHANGED <<table, askVars>>

MessagesFail(n) ==
    /\ loading[n].stage \in {"sent", "answered"}
    /\ loading' = [loading EXCEPT ![n] = PageOver]
    /\ loadingOlder' = (loadingOlder /\ ~loading[n].prepend)
    /\ failure' = [prepend |-> loading[n].prepend, cursor |-> loading[n].cursor]
    /\ UNCHANGED <<table, paneVars, asked, waiting, earlier>>

\* sendMessage: the question is appended.
Send ==
    /\ ~waiting
    /\ asked < MaxAsked
    /\ waiting' = TRUE
    /\ failure' = NothingFailed
    /\ asked' = asked + 1
    /\ earlier' = Store!Visible
    /\ pane' = Append(pane, Question(asked'))
    /\ UNCHANGED <<table, loading, messageCursor, atLoad, replied, shuffled, loadingOlder>>

\* Its answer has been written, and is appended unless a load has shown it.
AnswersArrive ==
    /\ waiting
    /\ waiting' = FALSE
    /\ \E i \in Store!Visible \ (Questions \cup earlier) :
        /\ pane' = MergeUnique(pane, <<Message(i)>>)
        /\ replied' = replied \cup {i}
    /\ UNCHANGED <<table, loading, messageCursor, atLoad, shuffled, loadingOlder, failure, asked, earlier>>

\* It fails, which is the error on display from now on.
SendFails ==
    /\ waiting
    /\ waiting' = FALSE
    /\ failure' = NothingFailed
    /\ UNCHANGED <<table, loading, paneVars, loadingOlder, asked, earlier>>

\* Messages of any tab are written.
TableChanges ==
    /\ Store!Insert \/ Store!Finish
    /\ UNCHANGED <<loading, paneVars, loadingOlder, askVars>>

HistoryNext ==
    \/ Select
    \/ LoadOlder
    \/ RetryMessages
    \/ \E n \in DOMAIN loading : ServeMessages(n) \/ MessagesArrive(n) \/ MessagesFail(n)
    \/ Send
    \/ AnswersArrive
    \/ SendFails
    \/ TableChanges

HistorySpec == HistoryInit /\ [][HistoryNext]_historyVars
-----------------------------------------------------------------------------
\* groupMessages: a question opens a group, answers join the last one; those
\* before the first question are a group without a question.
GroupMessages(messages) ==
    LET first == InOrder({k \in DOMAIN messages : k = 1 \/ messages[k].role = "user"})
        last(g) == IF g = Len(first) THEN Len(messages) ELSE first[g + 1] - 1
    IN  [g \in DOMAIN first |-> SubSeq(messages, first[g], last(g))]

\* The messages by their places, a group and a place in it.
OnDisplay ==
    LET groups == GroupMessages(pane)
    IN  [p \in UNION {{g} \X DOMAIN groups[g] : g \in DOMAIN groups} |-> groups[p[1]][p[2]]]

Above(p, q) == p[1] < q[1] \/ (p[1] = q[1] /\ p[2] < q[2])

\* The page shows the conversation from the cursor on: its messages in their
\* order (but for answers as they arrive), each once, and none missing that was
\* there when it was loaded, with loads, failures and questions overtaking
\* each other.  A retry of a page that the button has loaded meanwhile, or a
\* load that was aborted too late, does shuffle the pane, until it is loaded
\* anew; those panes are not spoken of.
HistoryIsWhole ==
    LET shown == OnDisplay
    IN  ~shuffled =>
            /\ \A p, q \in DOMAIN shown : Above(p, q) =>
                  /\ shown[p].id # shown[q].id
                  /\ {shown[p].id, shown[q].id} \subseteq Store!MessageIds \ replied
                        => shown[p].id < shown[q].id
            /\ \A i \in atLoad : i < messageCursor \/ \E p \in DOMAIN shown : shown[p] = Message(i)
=============================================================================
