------------------------------ MODULE ChatStore ------------------------------
(***************************************************************************)
(* The conversation repository of toy-chat: the MySQL tables conversations *)
(* and messages, and the queries of repositories/chat-repository.mjs that  *)
(* POST /chat issues.  Every query is its own transaction (autocommit), so *)
(* createMessage, which is INSERT, then UPDATE, then SELECT, can fail      *)
(* after the row is stored.  Row ids are AUTO_INCREMENT: a row's id is its *)
(* position in messages, and a result ordered by id is given as the set of *)
(* its ids.                                                                *)
(***************************************************************************)
EXTENDS Naturals, Sequences, FiniteSets

CONSTANTS
    Users,          \* accounts
    Conversations,  \* the ids generateId("conv") can produce
    Requests,       \* POST /chat requests; also stands for their contents
    Providers,      \* the AI providers that can be configured
    HistoryLimit    \* config.llmHistoryMessageLimit

\* Nobody owns an id that is not a row of conversations; a question and a
\* row without metadata.status carry NoProvider and "none".
Nobody == "nobody"
NoProvider == "no provider"

ASSUME StoreAssumption ==
    /\ HistoryLimit \in 1..200
    /\ Nobody \notin Users
    /\ NoProvider \notin Providers

VARIABLES
    owner,      \* conversations.user_id
    updatedAt,  \* conversations.updated_at, in number of rows stored so far
    messages    \* the rows of messages, by id

storeVars == <<owner, updatedAt, messages>>

Row == [conv : Conversations, role : {"user", "assistant", "tool"},
        provider : Providers \cup {NoProvider},
        status : {"none", "success", "failed"},
        user : Users, req : Requests]

StoreTypeOK ==
    /\ owner \in [Conversations -> Users \cup {Nobody}]
    /\ updatedAt \in [Conversations -> Nat]
    /\ messages \in Seq(Row)

StoreInit ==
    /\ owner = [c \in Conversations |-> Nobody]
    /\ updatedAt = [c \in Conversations |-> 0]
    /\ messages = <<>>
-----------------------------------------------------------------------------
Ids == 1..Len(messages)

\* The n largest ids of S: ORDER BY id DESC LIMIT n, or a slice of the last n.
NewestOff(S, n) == {i \in S : Cardinality({j \in S : j < i}) < n}
Newest(S, n) == {i \in S : Cardinality({j \in S : j > i}) < n}

\* Mutant: the WHERE clause without its user.
AnyConversation(c, u) == c \in Conversations /\ owner[c] # Nobody

\* SELECT ... FROM conversations WHERE id = ? AND user_id = ?
GetConversationByIdForUser(c, u) == c \in Conversations /\ owner[c] = u

\* What getRecentMessagesByConversationId keeps of the rows it fetched.
ForLlm(m) ==
    \/ m.role = "user"
    \/ m.role = "assistant" /\ m.status # "failed"

AtMost(n, bound) == IF n < bound THEN n ELSE bound

\* Mutant: ORDER BY id, without DESC.
OldestMessages(c, limit) ==
    LET fetched == NewestOff({i \in Ids : messages[i].conv = c},
                             AtMost(2 * limit, 400))
    IN  Newest({i \in fetched : ForLlm(messages[i])}, limit)

\* The newest 2 * limit rows (at most 400) of the conversation are fetched;
\* the filter and the limit are applied to what was fetched.
RecentMessages(c, limit) ==
    LET fetched == Newest({i \in Ids : messages[i].conv = c},
                          AtMost(2 * limit, 400))
    IN  Newest({i \in fetched : ForLlm(messages[i])}, limit)
-----------------------------------------------------------------------------
(***************************************************************************)
(* How a query sequence that writes can end for its caller.  A new         *)
(* conversation is "stored", "unread" (the SELECT that follows fails) or   *)
(* "lost"; a new message can also be "untouched": its UPDATE fails.  A     *)
(* commit whose acknowledgement is lost looks the same to the caller as    *)
(* the failure of the next query.                                          *)
(***************************************************************************)
Outcome == {"stored", "unread", "untouched", "lost"}

CreateConversation(c, u, outcome) ==
    /\ owner[c] = Nobody
    /\ outcome # "untouched"
    /\ IF outcome = "lost"
       THEN UNCHANGED storeVars
       ELSE /\ owner' = [owner EXCEPT ![c] = u]
            /\ updatedAt' = [updatedAt EXCEPT ![c] = Len(messages)]
            /\ UNCHANGED messages

\* Mutant: a retried INSERT that had already been committed.
TwiceCreateMessage(row, outcome) ==
    /\ messages' = IF outcome = "lost" THEN messages
                   ELSE Append(Append(messages, row), row)
    /\ updatedAt' = [updatedAt EXCEPT ![row.conv] = Len(messages) + 2]
    /\ UNCHANGED owner

CreateMessage(row, outcome) ==
    /\ messages' = IF outcome = "lost" THEN messages ELSE Append(messages, row)
    /\ updatedAt' = IF outcome \in {"stored", "unread"}
                    THEN [updatedAt EXCEPT ![row.conv] = Len(messages) + 1]
                    ELSE updatedAt
    /\ UNCHANGED owner
=============================================================================
