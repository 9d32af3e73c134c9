----------------------------- MODULE ChatClient -----------------------------
(***************************************************************************)
(* One browser tab, App.jsx: the selected conversation, the pane that      *)
(* shows its messages, the question that waits for its answer, the loads   *)
(* of messages under way, and the users that log in and out of the tab.    *)
(* A callback of React (an event handler, the code after an await, and the *)
(* effect it triggers) is one step.  The server is as much of Chat and of  *)
(* the message route as the tab can tell: it stores a question, then its   *)
(* answer, then replies, and goes on when the tab has given up.            *)
(***************************************************************************)
EXTENDS Naturals, Sequences, FiniteSets, SequencesExt

CONSTANTS
    Users,
    Conversations,
    MaxQuestions,   \* bound: questions asked in the tab
    MaxLoads        \* bound: loads under way at the same time

NoUser == "no user"
NoConversation == "no conversation"

ASSUME ChatClientAssumption ==
    /\ NoUser \notin Users
    /\ NoConversation \notin Conversations
    /\ MaxQuestions \in Nat
    /\ MaxLoads \in Nat

VARIABLES
    user,           \* token and user
    conversationId, \* conversationId, in the state and in localStorage
    messages,       \* the pane
    skip,           \* skipNextConversationLoadRef
    error,          \* errorState: the conversation whose load can be retried
    chat,           \* chatRequestRef and loading: the question under way, or 0
    reply,          \* of its reply: nothing, or the headers of an answer or an error
    loads,          \* loadMessages under way
    question,       \* the POST /chat requests, by number
    owner,          \* conversations.user_id
    store,          \* the messages table
    clean           \* history: nothing was interrupted, nothing has failed

clientVars == <<user, conversationId, messages, skip, error, chat, reply, loads>>
serverVars == <<question, owner, store>>
vars == <<clientVars, serverVars, clean>>

NoneOr(S) == S \cup {NoConversation}

\* What a row of the pane or of the table says: the question or the answer
\* number q.  "local" is the question the tab adds itself, with its own id.
Row == [q : 1..MaxQuestions, kind : {"local", "question", "answer"}]

\* A POST /chat: whose, from which conversation, and where it was stored.
Question == [user : Users, from : NoneOr(Conversations), to : NoneOr(Conversations),
             at : {"sent", "stored", "answered"}]

Load == [user : Users, of : Conversations, at : {"asked", "headers"}, rows : Seq(Row)]

ChatClientTypeOK ==
    /\ user \in Users \cup {NoUser}
    /\ conversationId \in NoneOr(Conversations)
    /\ messages \in Seq(Row)
    /\ skip \in BOOLEAN
    /\ error \in NoneOr(Conversations)
    /\ question \in Seq(Question)
    /\ Len(question) <= MaxQuestions
    /\ chat \in 0..Len(question)
    /\ reply \in {"none", "error", "answer"}
    /\ loads \subseteq Load
    /\ \A l, m \in loads : l.at = "asked" /\ m.at = "asked" => l = m
    /\ owner \in [Conversations -> Users \cup {NoUser}]
    /\ store \in [Conversations -> Seq(Row)]
    /\ clean \in BOOLEAN

Init ==
    /\ user = NoUser
    /\ conversationId = NoConversation
    /\ messages = <<>>
    /\ skip = FALSE
    /\ error = NoConversation
    /\ chat = 0
    /\ reply = "none"
    /\ loads = {}
    /\ question = <<>>
    /\ owner = [c \in Conversations |-> NoUser]
    /\ store = [c \in Conversations |-> <<>>]
    /\ clean = TRUE

Waiting == chat # 0 \/ loads # {}
\* A step of the user: it interrupts whatever is under way.
Interrupts == clean' = (clean /\ ~Waiting)
-----------------------------------------------------------------------------
\* loadMessages: aborts the load before, unless its headers have arrived.
LoadMessages(u, c) ==
    /\ Cardinality(loads) < MaxLoads
    /\ loads' = {l \in loads : l.at = "headers"}
                  \cup {[user |-> u, of |-> c, at |-> "asked", rows |-> <<>>]}

\* The effect of a change of the conversation or of the token; pane is what
\* the callback itself has made of the messages.
ConversationEffect(u, c, skipping, pane) ==
    IF c = NoConversation
    THEN /\ messages' = <<>>
         /\ skip' = skipping
         /\ UNCHANGED loads
    ELSE /\ messages' = pane
         /\ skip' = FALSE
         /\ IF skipping \/ u = NoUser THEN UNCHANGED loads ELSE LoadMessages(u, c)

Login(u) ==
    /\ user = NoUser
    /\ user' = u
    /\ ConversationEffect(u, conversationId, skip, messages)
    /\ Interrupts
    /\ UNCHANGED <<conversationId, error, chat, reply, serverVars>>

\* clearSession: aborts nothing.
Logout ==
    /\ user # NoUser
    /\ user' = NoUser
    /\ conversationId' = NoConversation
    /\ error' = NoConversation
    /\ ConversationEffect(NoUser, NoConversation, skip, <<>>)
    /\ Interrupts
    /\ UNCHANGED <<chat, reply, serverVars>>

StartNewChat ==
    /\ user # NoUser
    /\ conversationId' = NoConversation
    /\ messages' = <<>>
    /\ error' = NoConversation
    /\ Interrupts
    /\ UNCHANGED <<user, skip, chat, reply, loads, serverVars>>

\* One of the list of the user.
SelectConversation(c) ==
    /\ user # NoUser
    /\ owner[c] = user
    /\ c # conversationId
    /\ conversationId' = c
    /\ ConversationEffect(user, c, skip, messages)
    /\ Interrupts
    /\ UNCHANGED <<user, error, chat, reply, serverVars>>

\* retryFailedAction, for a load: of the conversation that failed to load.
RetryLoad ==
    /\ user # NoUser
    /\ error # NoConversation
    /\ error' = NoConversation
    /\ LoadMessages(user, error)
    /\ Interrupts
    /\ UNCHANGED <<user, conversationId, messages, skip, chat, reply, serverVars>>

\* The page is loaded again, and the session found to be valid.
Reload ==
    /\ user # NoUser
    /\ skip' = FALSE
    /\ error' = NoConversation
    /\ chat' = 0
    /\ reply' = "none"
    /\ messages' = <<>>
    /\ loads' = IF conversationId = NoConversation THEN {}
                ELSE {[user |-> user, of |-> conversationId, at |-> "asked", rows |-> <<>>]}
    /\ clean' = \A q \in DOMAIN question : question[q].at = "answered"
    /\ UNCHANGED <<user, conversationId, serverVars>>
-----------------------------------------------------------------------------
(***************************************************************************)
(* Loads.                                                                  *)
(***************************************************************************)
Answered(l, rows) ==
    loads' = (loads \ {l}) \cup {[l EXCEPT !.at = "headers", !.rows = rows]}

\* The server has read the page; from its headers on, no abort reaches it.
LoadAnswered(l) ==
    /\ l \in loads
    /\ l.at = "asked"
    /\ owner[l.of] = l.user
    /\ Answered(l, store[l.of])
    /\ UNCHANGED <<user, conversationId, messages, skip, error, chat, reply, serverVars, clean>>

LoadArrives(l) ==
    /\ l \in loads
    /\ l.at = "headers"
    /\ loads' = loads \ {l}
    /\ messages' = l.rows
    /\ UNCHANGED <<user, conversationId, skip, error, chat, reply, serverVars, clean>>

\* The network, the timeout, a 404 for the conversation of another user.
LoadFails(l) ==
    /\ l \in loads
    /\ loads' = loads \ {l}
    /\ error' = l.of
    /\ clean' = FALSE
    /\ UNCHANGED <<user, conversationId, messages, skip, chat, reply, serverVars>>
-----------------------------------------------------------------------------
(***************************************************************************)
(* Questions.                                                              *)
(***************************************************************************)
\* sendMessage, up to its await; it remembers the conversation it was sent
\* from.
SendMessage ==
    LET q == Len(question) + 1
    IN  /\ user # NoUser
        /\ chat = 0
        /\ q <= MaxQuestions
        /\ question' = Append(question, [user |-> user, from |-> conversationId,
                                         to |-> NoConversation, at |-> "sent"])
        /\ messages' = Append(messages, [q |-> q, kind |-> "local"])
        /\ chat' = q
        /\ error' = NoConversation
        /\ Interrupts
        /\ UNCHANGED <<user, conversationId, skip, reply, loads, owner, store>>

\* POST /chat stores the question, in a new conversation when it names none,
\* or one that is not of its user.
ServerStores(q) ==
    /\ q \in DOMAIN question
    /\ question[q].at = "sent"
    /\ \E c \in Conversations :
        /\ IF /\ question[q].from # NoConversation
              /\ owner[question[q].from] = question[q].user
           THEN c = question[q].from
           ELSE owner[c] = NoUser
        /\ owner' = [owner EXCEPT ![c] = question[q].user]
        /\ store' = [store EXCEPT ![c] = Append(@, [q |-> q, kind |-> "question"])]
        /\ question' = [question EXCEPT ![q].to = c, ![q].at = "stored"]
    /\ UNCHANGED <<clientVars, clean>>

ServerAnswers(q) ==
    /\ q \in DOMAIN question
    /\ question[q].at = "stored"
    /\ store' = [store EXCEPT ![question[q].to] = Append(@, [q |-> q, kind |-> "answer"])]
    /\ question' = [question EXCEPT ![q].at = "answered"]
    /\ UNCHANGED <<clientVars, owner, clean>>

\* Mutant: an answer is appended as it comes.
AppendMessages(older, message) == Append(older, message)

\* A message is appended unless it is there already.
MergeUniqueMessages(older, message) ==
    IF Contains(older, message) THEN older ELSE Append(older, message)

\* Mutant: the load is skipped after every reply.
SkipAlways(from, to) == TRUE

\* Whether the reply moves the tab to a conversation it was not sent from;
\* otherwise the reference is left as it is.
SkipNext(from, to) == skip \/ from # to

\* The headers of the reply come: from here on requestJson has no timeout.
ReplyBegins ==
    /\ chat # 0
    /\ reply = "none"
    /\ reply' \in IF question[chat].at = "answered" THEN {"answer", "error"} ELSE {"error"}
    /\ UNCHANGED <<user, conversationId, messages, skip, error, chat, loads, serverVars, clean>>

\* The body: to its conversation the tab goes, with its answer in the pane.
ReplyArrives ==
    LET asked == question[chat]
        pane  == MergeUniqueMessages(messages, [q |-> chat, kind |-> "answer"])
    IN  /\ reply = "answer"
        /\ reply' = "none"
        /\ chat' = 0
        /\ conversationId' = asked.to
        /\ IF asked.to # conversationId
           THEN ConversationEffect(user, asked.to, SkipNext(asked.from, asked.to), pane)
           ELSE /\ messages' = pane
                /\ skip' = SkipNext(asked.from, asked.to)
                /\ UNCHANGED loads
        /\ UNCHANGED <<user, error, serverVars, clean>>

\* Mutant: only a reply ends the waiting.
KeepLoading ==
    /\ chat # 0
    /\ error' = NoConversation
    /\ clean' = FALSE
    /\ UNCHANGED <<user, conversationId, messages, skip, chat, reply, loads, serverVars>>

\* The timeout, no network, an error status, a body that breaks off or does
\* not parse; the server may go on.
ChatFails ==
    /\ chat # 0
    /\ chat' = 0
    /\ reply' = "none"
    /\ error' = NoConversation
    /\ clean' = FALSE
    /\ UNCHANGED <<user, conversationId, messages, skip, loads, serverVars>>
-----------------------------------------------------------------------------
Next ==
    \/ \E u \in Users : Login(u)
    \/ Logout \/ StartNewChat \/ RetryLoad \/ Reload
    \/ \E c \in Conversations : SelectConversation(c)
    \/ \E l \in loads : LoadAnswered(l) \/ LoadArrives(l) \/ LoadFails(l)
    \/ \E q \in DOMAIN question : ServerStores(q) \/ ServerAnswers(q)
    \/ SendMessage \/ ReplyBegins \/ ReplyArrives \/ ChatFails

Spec == Init /\ [][Next]_vars

\* Until the headers come, the timer of requestJson runs; it is taken away
\* with them, so of the body nothing is assumed.
FairSpec == Spec /\ WF_vars(reply = "none" /\ ChatFails)
-----------------------------------------------------------------------------
\* No message is shown twice, though its reply and a load of messages can
\* both bring it, in either order (RELEASE-NOTES-v0.2.4.md:39).
ShownOnce == \A i, j \in DOMAIN messages : messages[i] = messages[j] => i = j

AsStored(r) == IF r.kind = "local" THEN [r EXCEPT !.kind = "question"] ELSE r

\* The pane shows the conversation that is selected, all of it and in its
\* order, whenever nothing is under way: as long as no step of the user fell
\* between a request and its answer, and no request has failed.
PaneShowsConversation ==
    clean /\ ~Waiting /\ user # NoUser =>
        [i \in DOMAIN messages |-> AsStored(messages[i])] =
            (IF conversationId = NoConversation THEN <<>> ELSE store[conversationId])

\* The tab does not wait for ever, and the next question can be asked, unless
\* a reply has begun whose body never ends: nothing in the tab bounds that.
LoadingEnds == chat # 0 ~> (chat = 0 \/ [](reply # "none"))

\* Conversations are separated by user (docs/toy-chat-architecture.txt:9):
\* who is logged in sees no message of another user's conversation.
PaneIsOwn ==
    user # NoUser =>
        \A i \in DOMAIN messages : question[messages[i].q].user = user
=============================================================================
