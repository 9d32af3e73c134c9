---------------------------- MODULE MessagePages ----------------------------
(***************************************************************************)
(* The messages of a conversation, the newest page first and older ones on *)
(* request: GET /conversations/:id/messages, its cursor and                *)
(* getMessagePageByConversationId.  Other requests insert rows meanwhile.  *)
(* An AUTO_INCREMENT id is taken when an INSERT starts and seen when it    *)
(* has committed, so ids can become visible out of order, and the ids of a *)
(* conversation have gaps.                                                 *)
(***************************************************************************)
EXTENDS Integers, FiniteSets

CONSTANTS
    MessagePageSize, \* config.messagePageSize
    MetadataIsText, \* whether the driver hands metadata_json over as text
    MaxId           \* bound: rows of the table

ASSUME MessagePagesAssumption ==
    /\ MessagePageSize \in 1..200
    /\ MetadataIsText \in BOOLEAN
    /\ MaxId \in Nat

VARIABLES
    row,        \* the rows of the table, by id
    scrolling,  \* of the client
    before,     \* its nextCursor; 0: none
    givenTimes, \* how often it was given a row: never, once, or more (2)
    atOpening   \* history: the rows that were visible when it began

messagePagesVars == <<row, scrolling, before, givenTimes, atOpening>>

MessageIds == 1..MaxId

MessagePagesTypeOK ==
    /\ row \in [MessageIds -> {"free", "inserting", "visible", "elsewhere"}]
    /\ scrolling \in {"idle", "paging", "done", "error"}
    /\ before \in 0..MaxId
    /\ before # 0 <=> scrolling = "paging"
    /\ givenTimes \in [MessageIds -> 0..2]
    /\ atOpening \subseteq MessageIds

MessagePagesInit ==
    /\ row \in [MessageIds -> {"free", "visible", "elsewhere"}]
    /\ \A i, j \in MessageIds : row[i] # "free" /\ j < i => row[j] # "free"
    /\ scrolling = "idle"
    /\ before = 0
    /\ givenTimes = [i \in MessageIds |-> 0]
    /\ atOpening = {}
-----------------------------------------------------------------------------
Visible == {i \in MessageIds : row[i] = "visible"}

\* ORDER BY id DESC LIMIT n
Newest(S, n) == {i \in S : Cardinality({j \in S : j > i}) < n}

\* Mutant: WHERE id <= ?
UpToCursor(b) == {i \in Visible : b = 0 \/ i <= b}

Older(b) == {i \in Visible : b = 0 \/ i < b}

Fetched(b) == Newest(Older(b), MessagePageSize + 1)

\* What is shown: all but the row that only tells whether there are more.
PageOf(b) == Newest(Fetched(b), MessagePageSize)

SmallestOf(S) == CHOOSE i \in S : \A j \in S : i <= j

\* Mutant: the last row that was fetched, which the page leaves out.
LastFetched(b) == SmallestOf(Fetched(b))

NextCursor(b) == SmallestOf(PageOf(b))

OnceMore(n) == IF n = 0 THEN 1 ELSE 2

\* normalizeMessage reads message.metadata.status: metadata that mapMessage
\* could not parse is null, and the request ends with a TypeError, a 500.
ReceiveMessages(b, seen) ==
    IF PageOf(b) # {} /\ ~MetadataIsText
    THEN scrolling' = "error" /\ before' = 0 /\ UNCHANGED givenTimes
    ELSE /\ givenTimes' = [i \in MessageIds |->
                IF i \in PageOf(b) THEN OnceMore(seen[i]) ELSE seen[i]]
         /\ IF Cardinality(Fetched(b)) > MessagePageSize
            THEN scrolling' = "paging" /\ before' = NextCursor(b)
            ELSE scrolling' = "done" /\ before' = 0

\* The conversation is opened.
NewestPage ==
    /\ scrolling # "paging"
    /\ ReceiveMessages(0, [i \in MessageIds |-> 0])
    /\ atOpening' = Visible
    /\ UNCHANGED row

\* The client asks for older messages.
OlderPage ==
    /\ scrolling = "paging"
    /\ ReceiveMessages(before, givenTimes)
    /\ UNCHANGED <<row, atOpening>>

\* createMessage begins, for this conversation or another one.
Insert ==
    /\ \E i \in MessageIds, s \in {"inserting", "elsewhere"} :
        /\ row[i] = "free"
        /\ \A j \in MessageIds : j < i => row[j] # "free"
        /\ row' = [row EXCEPT ![i] = s]
    /\ UNCHANGED <<scrolling, before, givenTimes, atOpening>>

\* It commits, or is rolled back and its id lost.
Finish ==
    /\ \E i \in MessageIds, s \in {"visible", "elsewhere"} :
        /\ row[i] = "inserting"
        /\ row' = [row EXCEPT ![i] = s]
    /\ UNCHANGED <<scrolling, before, givenTimes, atOpening>>

MessagePagesNext == NewestPage \/ OlderPage \/ Insert \/ Finish

MessagePagesSpec == MessagePagesInit /\ [][MessagePagesNext]_messagePagesVars
-----------------------------------------------------------------------------
\* No message is given twice.
GivenOnce == \A i \in MessageIds : givenTimes[i] <= 1

\* No message that was there when the conversation was opened is left out: it
\* has been given, or is older than the cursor.
NothingLeftOut ==
    /\ scrolling = "done" => \A i \in atOpening : givenTimes[i] = 1
    /\ scrolling = "paging" => \A i \in atOpening : givenTimes[i] = 1 \/ i < before

\* A page of messages is served: tests/conversation-routes.test.mjs:77
\* expects 200 for a page that holds a message without metadata.
PageIsServed == scrolling # "error"
=============================================================================
