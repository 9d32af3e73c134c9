--------------------------- MODULE ChatClientProofs ---------------------------
(***************************************************************************)
(* Proofs about ChatClient, for any users, conversations, questions and    *)
(* loads: nothing is shown twice, and what an undisturbed tab shows is the *)
(* conversation that is selected.                                          *)
(***************************************************************************)
EXTENDS ChatClient, TLAPS

\* The server has stored all these rows, and each once.
FromServer(rows, asked) ==
    /\ \A i, j \in DOMAIN rows : rows[i] = rows[j] => i = j
    /\ \A i \in DOMAIN rows :
        /\ rows[i].q \in DOMAIN asked
        /\ rows[i].kind # "local"
        /\ asked[rows[i].q].at # "sent"
        /\ rows[i].kind = "answer" => asked[rows[i].q].at = "answered"

\* Questions that are stored are in a conversation with an owner; a
\* conversation without one is empty.
QuestionsArePlaced ==
    /\ \A q \in DOMAIN question : question[q].at # "sent" =>
        question[q].to \in Conversations /\ owner[question[q].to] # NoUser
    /\ \A c \in Conversations : owner[c] = NoUser => store[c] = <<>>

\* The pane holds rows of questions that were asked, each row once.
PaneIsTrue(pane, asked) ==
    /\ pane \in Seq(Row)
    /\ \A i, j \in DOMAIN pane : pane[i] = pane[j] => i = j
    /\ \A i \in DOMAIN pane : pane[i].q <= Len(asked)

LoadsAreTrue(ls, asked) ==
    /\ ls \subseteq Load
    /\ \A l, m \in ls : l.at = "asked" /\ m.at = "asked" => l = m
    /\ \A l \in ls : FromServer(l.rows, asked)

\* A reply that has begun is that of the question under way; an answer is
\* stored before it is sent.
ReplyIsTrue ==
    /\ reply # "none" => chat # 0
    /\ reply = "answer" => question[chat].at = "answered"

RowsInv ==
    /\ ChatClientTypeOK
    /\ ReplyIsTrue
    /\ PaneIsTrue(messages, question)
    /\ LoadsAreTrue(loads, question)
    /\ \A c \in Conversations : FromServer(store[c], question)
    /\ QuestionsArePlaced

\* What the pane says, in the terms of the table.
AsKept(pane) == [i \in DOMAIN pane |-> AsStored(pane[i])]

Kept(c) == IF c = NoConversation THEN <<>> ELSE store[c]

\* The selected conversation is one of the user.
IsOwn == conversationId # NoConversation => owner[conversationId] = user

\* Nothing is under way.
QuietIsTrue ==
    chat = 0 /\ loads = {} /\ user # NoUser =>
        AsKept(messages) = Kept(conversationId) /\ IsOwn

\* The messages of the selected conversation are loaded, by its owner or in vain.
LoadIsTrue ==
    loads # {} =>
        /\ chat = 0
        /\ conversationId # NoConversation
        /\ \A l \in loads :
            /\ loads = {l}
            /\ l.of = conversationId /\ l.user = user
            /\ l.at = "headers" => IsOwn /\ l.rows = store[conversationId]

\* A question is under way: what the pane is ahead of the table, or behind it.
QuestionIsTrue ==
    chat # 0 =>
        /\ loads = {}
        /\ question[chat].user = user
        /\ question[chat].from = conversationId
        /\ IsOwn
        /\ question[chat].at = "sent" =>
            AsKept(messages) = Append(Kept(conversationId), [q |-> chat, kind |-> "question"])
        /\ question[chat].at # "sent" =>
            /\ owner[question[chat].to] = user
            /\ conversationId # NoConversation => question[chat].to = conversationId
        /\ question[chat].at = "stored" =>
            AsKept(messages) = store[question[chat].to]
        /\ question[chat].at = "answered" =>
            Append(AsKept(messages), [q |-> chat, kind |-> "answer"]) = store[question[chat].to]

\* In an undisturbed tab.
CleanIsTrue ==
    /\ skip = FALSE
    /\ error = NoConversation
    /\ user = NoUser => ~Waiting /\ conversationId = NoConversation
    /\ \A q \in DOMAIN question : q # chat => question[q].at = "answered"
    /\ QuietIsTrue
    /\ LoadIsTrue
    /\ QuestionIsTrue

TabInv == RowsInv /\ (clean => CleanIsTrue)
-----------------------------------------------------------------------------
\* Nobody is logged in, and nothing was asked.
THEOREM TabInvInitially == Init => TabInv
<1> SUFFICES ASSUME Init PROVE TabInv
  OBVIOUS
<1>1. \A S : <<>> \in Seq(S)
  OBVIOUS
<1>2. Len(<<>>) = 0 /\ DOMAIN <<>> = {}
  OBVIOUS
<1>3. ChatClientTypeOK
  <2>1. /\ messages \in Seq(Row) /\ loads = {} /\ chat \in 0..Len(question) /\ Len(question) <= MaxQuestions
        /\ question \in Seq(Question) /\ reply = "none"
    BY <1>1, <1>2, ChatClientAssumption DEF Init, ChatClientAssumption
  <2>2. /\ owner \in [Conversations -> Users \cup {NoUser}] /\ store \in [Conversations -> Seq(Row)]
        /\ user \in Users \cup {NoUser} /\ skip \in BOOLEAN /\ clean \in BOOLEAN
        /\ conversationId \in NoneOr(Conversations) /\ error \in NoneOr(Conversations)
    BY <1>1 DEF Init, NoneOr
  <2> QED
    BY <2>1, <2>2 DEF ChatClientTypeOK
<1>4. /\ PaneIsTrue(messages, question) /\ LoadsAreTrue(loads, question)
      /\ \A c \in Conversations : FromServer(store[c], question)
  BY <1>1, <1>2 DEF Init, PaneIsTrue, LoadsAreTrue, FromServer
<1>5. QuestionsArePlaced /\ ReplyIsTrue
  BY <1>2 DEF Init, QuestionsArePlaced, ReplyIsTrue
<1>6. CleanIsTrue
  BY <1>2 DEF Init, CleanIsTrue, Waiting, QuietIsTrue, LoadIsTrue, QuestionIsTrue
<1> QED
  BY <1>3, <1>4, <1>5, <1>6 DEF TabInv, RowsInv

\* Rows stay stored, and questions never go back.
LEMMA FromServerStays ==
    ASSUME NEW asked, NEW later, DOMAIN asked \subseteq DOMAIN later,
           \A q \in DOMAIN asked :
              \/ later[q].at = asked[q].at
              \/ asked[q].at = "sent" /\ later[q].at = "stored"
              \/ asked[q].at = "stored" /\ later[q].at = "answered",
           NEW rows, FromServer(rows, asked)
    PROVE  FromServer(rows, later)
BY DEF FromServer

\* A row that is stored is one more.
LEMMA RowStored ==
    ASSUME NEW asked, NEW rows \in Seq(Row), FromServer(rows, asked), NEW r \in Row,
           \A i \in DOMAIN rows : rows[i] # r,
           r.q \in DOMAIN asked, r.kind # "local", asked[r.q].at # "sent",
           r.kind = "answer" => asked[r.q].at = "answered"
    PROVE  FromServer(Append(rows, r), asked) /\ Append(rows, r) \in Seq(Row)
<1>1. DOMAIN rows = 1..Len(rows) /\ Len(rows) \in Nat
  OBVIOUS
<1>2. DOMAIN Append(rows, r) = 1..(Len(rows) + 1) /\ Append(rows, r) \in Seq(Row)
  OBVIOUS
<1>3. \A i \in 1..Len(rows) : Append(rows, r)[i] = rows[i]
  OBVIOUS
<1>4. Append(rows, r)[Len(rows) + 1] = r
  OBVIOUS
<1> QED
  BY <1>1, <1>2, <1>3, <1>4 DEF FromServer

\* A row that is not in the pane may be appended.
LEMMA RowShown ==
    ASSUME NEW asked, NEW pane, PaneIsTrue(pane, asked), NEW r \in Row, r.q <= Len(asked),
           \A i \in DOMAIN pane : pane[i] # r
    PROVE  PaneIsTrue(Append(pane, r), asked)
<1>1. DOMAIN pane = 1..Len(pane) /\ Len(pane) \in Nat /\ pane \in Seq(Row)
  BY DEF PaneIsTrue
<1>2. DOMAIN Append(pane, r) = 1..(Len(pane) + 1) /\ Append(pane, r) \in Seq(Row)
  BY <1>1
<1>3. \A i \in 1..Len(pane) : Append(pane, r)[i] = pane[i]
  BY <1>1
<1>4. Append(pane, r)[Len(pane) + 1] = r
  BY <1>1
<1> QED
  BY <1>1, <1>2, <1>3, <1>4 DEF PaneIsTrue

\* The reply brings its answer, unless a load has brought it.
LEMMA AnswerShown ==
    ASSUME NEW asked, NEW pane, PaneIsTrue(pane, asked), NEW r \in Row, r.q <= Len(asked)
    PROVE  PaneIsTrue(MergeUniqueMessages(pane, r), asked)
<1>1. DOMAIN pane = 1..Len(pane)
  BY DEF PaneIsTrue
<1>2. CASE \E i \in 1..Len(pane) : pane[i] = r
  BY <1>2 DEF MergeUniqueMessages, Contains
<1>3. CASE ~\E i \in 1..Len(pane) : pane[i] = r
  <2>1. MergeUniqueMessages(pane, r) = Append(pane, r)
    BY <1>3 DEF MergeUniqueMessages, Contains
  <2> QED
    BY <1>1, <1>3, <2>1, RowShown
<1> QED
  BY <1>2, <1>3

\* A load that starts has no rows yet, and is the only one without headers.
LEMMA LoadStarts ==
    ASSUME RowsInv, NEW u \in Users, NEW c \in Conversations, LoadMessages(u, c)
    PROVE  LoadsAreTrue(loads', question)
<1> DEFINE new == [user |-> u, of |-> c, at |-> "asked", rows |-> <<>>]
<1>1. loads' = {l \in loads : l.at = "headers"} \cup {new}
  BY DEF LoadMessages
<1>2. /\ new \in Load
      /\ new.at = "asked" /\ new.rows = <<>>
  BY DEF Load
<1>3. FromServer(<<>>, question)
  BY DEF FromServer
<1> HIDE DEF new
<1> QED
  BY <1>1, <1>2, <1>3 DEF RowsInv, LoadsAreTrue

\* What the effect makes of the pane and the loads.
LEMMA EffectIsTrue ==
    ASSUME RowsInv, NEW u \in Users \cup {NoUser}, NEW c \in NoneOr(Conversations),
           NEW skipping \in BOOLEAN, NEW pane, PaneIsTrue(pane, question),
           ConversationEffect(u, c, skipping, pane)
    PROVE  PaneIsTrue(messages', question) /\ LoadsAreTrue(loads', question) /\ skip' \in BOOLEAN
<1>1. PaneIsTrue(<<>>, question)
  BY DEF PaneIsTrue
<1>2. LoadsAreTrue(loads, question)
  BY DEF RowsInv
<1>3. CASE c = NoConversation
  BY <1>1, <1>2, <1>3 DEF ConversationEffect
<1>4. CASE c # NoConversation
  <2>1. c \in Conversations /\ messages' = pane /\ skip' = FALSE
    BY <1>4 DEF ConversationEffect, NoneOr
  <2>2. CASE skipping \/ u = NoUser
    BY <1>2, <1>4, <2>1, <2>2 DEF ConversationEffect
  <2>3. CASE ~(skipping \/ u = NoUser)
    <3>1. LoadMessages(u, c) /\ u \in Users
      BY <1>4, <2>3 DEF ConversationEffect
    <3> QED
      BY <2>1, <3>1, LoadStarts
  <2> QED
    BY <2>2, <2>3
<1> QED
  BY <1>3, <1>4

\* A step of the tab alone.
LEMMA TabSteps ==
    ASSUME RowsInv, UNCHANGED serverVars,
           user' \in Users \cup {NoUser}, conversationId' \in NoneOr(Conversations),
           skip' \in BOOLEAN, error' \in NoneOr(Conversations), clean' \in BOOLEAN,
           \/ UNCHANGED <<chat, reply>>
           \/ chat' = 0 /\ reply' = "none"
           \/ /\ UNCHANGED chat /\ chat # 0
              /\ reply' = "error" \/ (reply' = "answer" /\ question[chat].at = "answered"),
           PaneIsTrue(messages', question), LoadsAreTrue(loads', question)
    PROVE  RowsInv'
<1>1. question' = question /\ owner' = owner /\ store' = store
  BY DEF serverVars
<1>2. ChatClientTypeOK'
  <2>1. Len(question) \in Nat
    BY DEF RowsInv, ChatClientTypeOK
  <2> QED
    BY <1>1, <2>1 DEF RowsInv, ChatClientTypeOK, PaneIsTrue, LoadsAreTrue
<1>3. ReplyIsTrue'
  BY <1>1 DEF RowsInv, ReplyIsTrue
<1> QED
  BY <1>1, <1>2, <1>3 DEF RowsInv, QuestionsArePlaced

\* A step of the server alone.
LEMMA ServerSteps ==
    ASSUME RowsInv, UNCHANGED <<clientVars, clean>>,
           Len(question') = Len(question), DOMAIN question' = DOMAIN question,
           question' \in Seq(Question),
           \A q \in DOMAIN question :
              \/ question'[q].at = question[q].at
              \/ question[q].at = "sent" /\ question'[q].at = "stored"
              \/ question[q].at = "stored" /\ question'[q].at = "answered",
           owner' \in [Conversations -> Users \cup {NoUser}],
           store' \in [Conversations -> Seq(Row)],
           \A c \in Conversations : FromServer(store'[c], question'),
           QuestionsArePlaced'
    PROVE  RowsInv'
<1>1. UNCHANGED <<user, conversationId, messages, skip, error, chat, reply, loads, clean>>
  BY DEF clientVars
<1>2. ChatClientTypeOK'
  BY <1>1 DEF RowsInv, ChatClientTypeOK
<1>3. PaneIsTrue(messages', question')
  BY <1>1 DEF RowsInv, PaneIsTrue
<1>4. LoadsAreTrue(loads', question')
  <2>1. \A l \in loads : FromServer(l.rows, question)
    BY DEF RowsInv, LoadsAreTrue
  <2>2. \A l \in loads : FromServer(l.rows, question')
    BY <2>1, FromServerStays
  <2> QED
    BY <1>1, <2>2 DEF RowsInv, LoadsAreTrue
<1>5. ReplyIsTrue'
  <2>1. chat # 0 => chat \in DOMAIN question
    BY DEF RowsInv, ChatClientTypeOK
  <2> QED
    BY <1>1, <2>1 DEF RowsInv, ReplyIsTrue
<1> QED
  BY <1>2, <1>3, <1>4, <1>5 DEF RowsInv

\* The question q is stored, in a conversation that is its user's then.
LEMMA StoresEffect ==
    ASSUME RowsInv, NEW q \in DOMAIN question, ServerStores(q)
    PROVE  \E c \in Conversations :
             /\ IF question[q].from # NoConversation /\ owner[question[q].from] = question[q].user
                THEN c = question[q].from ELSE owner[c] = NoUser
             /\ owner' = [owner EXCEPT ![c] = question[q].user]
             /\ store' = [store EXCEPT ![c] = Append(store[c], [q |-> q, kind |-> "question"])]
             /\ question[q].at = "sent"
             /\ question'[q] = [question[q] EXCEPT !.to = c, !.at = "stored"]
             /\ \A p \in DOMAIN question : p # q => question'[p] = question[p]
             /\ DOMAIN question' = DOMAIN question /\ Len(question') = Len(question)
             /\ question' \in Seq(Question)
<1>1. question \in Seq(Question) /\ question[q] \in Question /\ question[q].at = "sent"
  BY DEF RowsInv, ChatClientTypeOK, ServerStores
<1>2. PICK c \in Conversations :
        /\ IF question[q].from # NoConversation /\ owner[question[q].from] = question[q].user
           THEN c = question[q].from ELSE owner[c] = NoUser
        /\ owner' = [owner EXCEPT ![c] = question[q].user]
        /\ store' = [store EXCEPT ![c] = Append(store[c], [q |-> q, kind |-> "question"])]
        /\ question' = [question EXCEPT ![q].to = c, ![q].at = "stored"]
  BY DEF ServerStores
<1> DEFINE rec == [question[q] EXCEPT !.to = c, !.at = "stored"]
<1>3. rec \in Question
  BY <1>1 DEF NoneOr, Question
<1>4. question' = [question EXCEPT ![q] = rec]
  BY <1>1, <1>2 DEF Question
<1> HIDE DEF rec
<1>5. /\ question' \in Seq(Question) /\ Len(question') = Len(question) /\ DOMAIN question' = DOMAIN question
      /\ question'[q] = rec /\ \A p \in DOMAIN question : p # q => question'[p] = question[p]
  BY <1>1, <1>3, <1>4
<1> QED
  BY <1>1, <1>2, <1>5 DEF rec

\* The answer to question q is stored, beside the question.
LEMMA AnswersEffect ==
    ASSUME RowsInv, NEW q \in DOMAIN question, ServerAnswers(q)
    PROVE  /\ question[q].at = "stored" /\ question[q].to \in Conversations /\ owner' = owner
           /\ store' = [store EXCEPT ![question[q].to] =
                           Append(store[question[q].to], [q |-> q, kind |-> "answer"])]
           /\ question'[q] = [question[q] EXCEPT !.at = "answered"]
           /\ \A p \in DOMAIN question : p # q => question'[p] = question[p]
           /\ DOMAIN question' = DOMAIN question /\ Len(question') = Len(question)
           /\ question' \in Seq(Question)
<1> DEFINE rec == [question[q] EXCEPT !.at = "answered"]
<1>1. question \in Seq(Question) /\ question[q] \in Question /\ question[q].at = "stored"
  BY DEF RowsInv, ChatClientTypeOK, ServerAnswers
<1>2. question[q].to \in Conversations
  BY <1>1 DEF RowsInv, QuestionsArePlaced
<1>3. PICK r : r = rec
  OBVIOUS
<1>4. r \in Question
  BY <1>1, <1>3 DEF Question
<1>5. question' = [question EXCEPT ![q] = r]
  BY <1>1, <1>3 DEF ServerAnswers
<1>6. /\ question' \in Seq(Question) /\ Len(question') = Len(question) /\ DOMAIN question' = DOMAIN question
      /\ question'[q] = r /\ \A p \in DOMAIN question : p # q => question'[p] = question[p]
  BY <1>1, <1>4, <1>5
<1> QED
  BY <1>1, <1>2, <1>3, <1>6 DEF ServerAnswers

\* A step that is neither the tab's nor the server's alone: a question is sent.
LEMMA SendIsTrue ==
    ASSUME RowsInv, SendMessage, clean' \in BOOLEAN
    PROVE  /\ RowsInv'
           /\ chat' = Len(question) + 1 /\ chat' # 0
           /\ messages' = Append(messages, [q |-> chat', kind |-> "local"])
           /\ DOMAIN question' = 1..chat'
           /\ \A q \in DOMAIN question : q # chat' /\ question'[q] = question[q]
           /\ question'[chat'] = [user |-> user, from |-> conversationId,
                                  to |-> NoConversation, at |-> "sent"]
<1> DEFINE q == Len(question) + 1
           row == [q |-> q, kind |-> "local"]
           new == [user |-> user, from |-> conversationId, to |-> NoConversation, at |-> "sent"]
<1>1. /\ Len(question) \in Nat /\ DOMAIN question = 1..Len(question) /\ question \in Seq(Question)
      /\ user \in Users \cup {NoUser} /\ conversationId \in NoneOr(Conversations)
  BY DEF RowsInv, ChatClientTypeOK
<1>2. /\ user # NoUser /\ chat = 0 /\ q <= MaxQuestions /\ chat' = q /\ error' = NoConversation
      /\ question' = Append(question, new) /\ messages' = Append(messages, row)
      /\ UNCHANGED <<user, conversationId, skip, reply, loads, owner, store>>
  BY DEF SendMessage
<1>3. row \in Row /\ new \in Question /\ row.q = q
  BY <1>1, <1>2, ChatClientAssumption DEF Row, Question, NoneOr, ChatClientAssumption
<1>4. PICK r : r = row
  OBVIOUS
<1>5. PICK n : n = new
  OBVIOUS
<1> HIDE DEF row, new
<1>6. /\ question' \in Seq(Question) /\ Len(question') = q /\ DOMAIN question' = 1..q
      /\ question'[q] = n /\ \A p \in DOMAIN question : p # q /\ question'[p] = question[p]
  <2>1. question' = Append(question, n) /\ n \in Question
    BY <1>2, <1>3, <1>5
  <2> QED
    BY <1>1, <2>1
<1>7. PaneIsTrue(messages, question') /\ \A i \in DOMAIN messages : messages[i] # r
  <2>1. PaneIsTrue(messages, question) /\ DOMAIN messages = 1..Len(messages)
    BY DEF RowsInv, PaneIsTrue
  <2>2. \A i \in DOMAIN messages : messages[i].q \in Int /\ messages[i].q < q
    <3>1. \A i \in DOMAIN messages : messages[i] \in Row
      BY DEF RowsInv, PaneIsTrue
    <3>2. \A r0 \in Row : r0.q \in Int
      BY ChatClientAssumption DEF Row, ChatClientAssumption
    <3> QED
      BY <1>1, <2>1, <3>1, <3>2 DEF PaneIsTrue
  <2> QED
    BY <1>1, <1>3, <1>4, <1>6, <2>1, <2>2 DEF PaneIsTrue
<1>8. PaneIsTrue(messages', question')
  <2>1. messages' = Append(messages, r) /\ r \in Row /\ r.q <= Len(question')
    BY <1>1, <1>2, <1>3, <1>4, <1>6
  <2> QED
    BY <1>7, <2>1, RowShown
<1>9. \A rows : FromServer(rows, question) => FromServer(rows, question')
  BY <1>1, <1>6, FromServerStays
<1>10. LoadsAreTrue(loads', question') /\ \A c \in Conversations : FromServer(store'[c], question')
  BY <1>2, <1>9 DEF RowsInv, LoadsAreTrue
<1>11. n.at = "sent"
  BY <1>5 DEF new
<1>12. QuestionsArePlaced'
  BY <1>1, <1>2, <1>6, <1>11 DEF RowsInv, QuestionsArePlaced
<1>13. ChatClientTypeOK'
  BY <1>1, <1>2, <1>6, <1>8 DEF RowsInv, ChatClientTypeOK, PaneIsTrue, NoneOr
<1>14. ReplyIsTrue'
  BY <1>2 DEF RowsInv, ReplyIsTrue
<1> QED
  BY <1>1, <1>2, <1>4, <1>5, <1>6, <1>8, <1>10, <1>12, <1>13, <1>14 DEF RowsInv, row, new

\* Rows stay what they are, whatever the user and the network do.
THEOREM RowsInvPreserved == RowsInv /\ [Next]_vars => RowsInv'
<1> SUFFICES ASSUME RowsInv, [Next]_vars PROVE RowsInv'
  OBVIOUS
<1>1. /\ user \in Users \cup {NoUser} /\ conversationId \in NoneOr(Conversations) /\ skip \in BOOLEAN
      /\ error \in NoneOr(Conversations) /\ clean \in BOOLEAN
      /\ PaneIsTrue(messages, question) /\ LoadsAreTrue(loads, question)
      /\ owner \in [Conversations -> Users \cup {NoUser}] /\ store \in [Conversations -> Seq(Row)]
      /\ chat \in 0..Len(question)
  BY DEF RowsInv, ChatClientTypeOK
<1>2. NoConversation \in NoneOr(Conversations) /\ PaneIsTrue(<<>>, question) /\ LoadsAreTrue({}, question)
  BY DEF NoneOr, PaneIsTrue, LoadsAreTrue
<1>3. Interrupts => clean' \in BOOLEAN
  BY DEF Interrupts
<1>4. ASSUME NEW u \in Users, Login(u) PROVE RowsInv'
  BY <1>1, <1>3, <1>4, EffectIsTrue, TabSteps DEF Login
<1>5. CASE Logout
  BY <1>1, <1>2, <1>3, <1>5, EffectIsTrue, TabSteps DEF Logout
<1>6. CASE StartNewChat
  BY <1>1, <1>2, <1>3, <1>6, TabSteps DEF StartNewChat
<1>7. CASE RetryLoad
  <2>1. user \in Users /\ error \in Conversations /\ LoadMessages(user, error)
    BY <1>1, <1>7 DEF RetryLoad, NoneOr
  <2>2. LoadsAreTrue(loads', question)
    BY <2>1, LoadStarts
  <2> QED
    BY <1>1, <1>2, <1>3, <1>7, <2>2, TabSteps DEF RetryLoad
<1>8. CASE Reload
  <2>1. LoadsAreTrue(loads', question)
    <3>1. CASE conversationId = NoConversation
      BY <1>2, <1>8, <3>1 DEF Reload
    <3>2. CASE conversationId # NoConversation
      <4>1. PICK l : l = [user |-> user, of |-> conversationId, at |-> "asked", rows |-> <<>>]
        OBVIOUS
      <4>2. loads' = {l} /\ l \in Load /\ l.rows = <<>>
        BY <1>1, <1>8, <3>2, <4>1 DEF Reload, NoneOr, Load
      <4>3. FromServer(<<>>, question)
        BY DEF FromServer
      <4> QED
        BY <4>2, <4>3 DEF LoadsAreTrue
    <3> QED
      BY <3>1, <3>2
  <2>2. clean' \in BOOLEAN
    BY <1>8 DEF Reload
  <2> QED
    BY <1>1, <1>2, <1>8, <2>1, <2>2, TabSteps DEF Reload
<1>9. ASSUME NEW c \in Conversations, SelectConversation(c) PROVE RowsInv'
  <2>1. c \in NoneOr(Conversations)
    BY DEF NoneOr
  <2> QED
    BY <1>1, <1>3, <1>9, <2>1, EffectIsTrue, TabSteps DEF SelectConversation
<1>10. ASSUME NEW l \in loads, LoadAnswered(l) PROVE RowsInv'
  <2>1. PICK m : m = [l EXCEPT !.at = "headers", !.rows = store[l.of]]
    OBVIOUS
  <2>2. l \in Load /\ store[l.of] \in Seq(Row) /\ FromServer(store[l.of], question)
    BY <1>1 DEF RowsInv, LoadsAreTrue, Load
  <2>3. m \in Load /\ m.at = "headers" /\ m.rows = store[l.of]
    BY <2>1, <2>2 DEF Load
  <2>4. loads' = (loads \ {l}) \cup {m}
    BY <1>10, <2>1 DEF LoadAnswered, Answered
  <2>5. LoadsAreTrue(loads', question)
    BY <1>1, <2>2, <2>3, <2>4 DEF LoadsAreTrue
  <2> QED
    BY <1>1, <1>10, <2>5, TabSteps DEF LoadAnswered
<1>11. ASSUME NEW l \in loads, LoadArrives(l) PROVE RowsInv'
  <2>1. l \in Load /\ FromServer(l.rows, question)
    BY <1>1 DEF LoadsAreTrue
  <2>2. l.rows \in Seq(Row) /\ Len(question) \in Nat /\ DOMAIN question = 1..Len(question)
    BY <2>1 DEF Load, RowsInv, ChatClientTypeOK
  <2>3. PaneIsTrue(l.rows, question)
    BY <2>1, <2>2 DEF FromServer, PaneIsTrue
  <2>4. LoadsAreTrue(loads \ {l}, question)
    BY <1>1 DEF LoadsAreTrue
  <2> QED
    BY <1>1, <1>11, <2>3, <2>4, TabSteps DEF LoadArrives
<1>12. ASSUME NEW l \in loads, LoadFails(l) PROVE RowsInv'
  <2>1. LoadsAreTrue(loads \ {l}, question)
    BY <1>1 DEF LoadsAreTrue
  <2>2. l.of \in NoneOr(Conversations)
    BY <1>1 DEF LoadsAreTrue, Load, NoneOr
  <2> QED
    BY <1>1, <1>12, <2>1, <2>2, TabSteps DEF LoadFails
<1>13. ASSUME NEW q \in DOMAIN question, ServerStores(q) PROVE RowsInv'
  <2>1. PICK c \in Conversations :
          /\ IF question[q].from # NoConversation /\ owner[question[q].from] = question[q].user
             THEN c = question[q].from ELSE owner[c] = NoUser
          /\ owner' = [owner EXCEPT ![c] = question[q].user]
          /\ store' = [store EXCEPT ![c] = Append(store[c], [q |-> q, kind |-> "question"])]
          /\ question[q].at = "sent"
          /\ question'[q] = [question[q] EXCEPT !.to = c, !.at = "stored"]
          /\ \A p \in DOMAIN question : p # q => question'[p] = question[p]
          /\ DOMAIN question' = DOMAIN question /\ Len(question') = Len(question)
          /\ question' \in Seq(Question)
    BY <1>13, StoresEffect
  <2>2. PICK r : r = [q |-> q, kind |-> "question"]
    OBVIOUS
  <2>3. question[q] \in Question /\ question[q].user \in Users /\ question[q].user # NoUser
        /\ q \in 1..MaxQuestions /\ r \in Row /\ r.q = q /\ r.kind = "question"
    <3>1. /\ question \in Seq(Question) /\ DOMAIN question = 1..Len(question) /\ Len(question) \in Nat
          /\ Len(question) <= MaxQuestions /\ MaxQuestions \in Nat
      BY ChatClientAssumption DEF RowsInv, ChatClientTypeOK, ChatClientAssumption
    <3>2. question[q] \in Question /\ q \in 1..MaxQuestions
      BY <3>1
    <3> QED
      BY <2>2, <3>2, ChatClientAssumption DEF Question, Row, ChatClientAssumption
  <2>4. question'[q].at = "stored" /\ question'[q].to = c
    BY <2>1, <2>3 DEF Question
  <2>5. \A rows : FromServer(rows, question) => FromServer(rows, question')
    BY <2>1, <2>4, FromServerStays
  <2>6. FromServer(store[c], question) /\ store[c] \in Seq(Row)
    BY <1>1 DEF RowsInv
  <2>7. \A i \in DOMAIN store[c] : store[c][i] # r
    BY <2>1, <2>3, <2>6 DEF FromServer
  <2>8. FromServer(Append(store[c], r), question') /\ Append(store[c], r) \in Seq(Row)
    BY <2>1, <2>3, <2>4, <2>5, <2>6, <2>7, RowStored
  <2>9. store' \in [Conversations -> Seq(Row)] /\ \A d \in Conversations : FromServer(store'[d], question')
    BY <1>1, <2>1, <2>2, <2>5, <2>8 DEF RowsInv
  <2>10. owner' \in [Conversations -> Users \cup {NoUser}] /\ owner'[c] # NoUser
         /\ \A d \in Conversations : owner[d] # NoUser => owner'[d] # NoUser
    BY <1>1, <2>1, <2>3
  <2>11. QuestionsArePlaced'
    <3>1. ASSUME NEW p \in DOMAIN question', question'[p].at # "sent"
          PROVE  question'[p].to \in Conversations /\ owner'[question'[p].to] # NoUser
      <4>1. CASE p = q
        BY <2>4, <2>10, <4>1
      <4>2. CASE p # q
        BY <2>1, <2>10, <3>1, <4>2 DEF RowsInv, QuestionsArePlaced
      <4> QED
        BY <4>1, <4>2
    <3>2. ASSUME NEW d \in Conversations, owner'[d] = NoUser PROVE store'[d] = <<>>
      BY <1>1, <2>1, <2>10, <3>2 DEF RowsInv, QuestionsArePlaced
    <3> QED
      BY <3>1, <3>2 DEF QuestionsArePlaced
  <2>12. UNCHANGED <<clientVars, clean>>
    BY <1>13 DEF ServerStores
  <2> QED
    BY <2>1, <2>4, <2>9, <2>10, <2>11, <2>12, ServerSteps
<1>14. ASSUME NEW q \in DOMAIN question, ServerAnswers(q) PROVE RowsInv'
  <2>1. /\ question[q].at = "stored" /\ question[q].to \in Conversations /\ owner' = owner
        /\ store' = [store EXCEPT ![question[q].to] =
                        Append(store[question[q].to], [q |-> q, kind |-> "answer"])]
        /\ question'[q] = [question[q] EXCEPT !.at = "answered"]
        /\ \A p \in DOMAIN question : p # q => question'[p] = question[p]
        /\ DOMAIN question' = DOMAIN question /\ Len(question') = Len(question)
        /\ question' \in Seq(Question)
    BY <1>14, AnswersEffect
  <2>2. PICK r : r = [q |-> q, kind |-> "answer"]
    OBVIOUS
  <2>3. PICK c \in Conversations : c = question[q].to
    BY <2>1
  <2>4. question[q] \in Question /\ q \in 1..MaxQuestions /\ r \in Row /\ r.q = q /\ r.kind = "answer"
    BY <2>2, ChatClientAssumption DEF RowsInv, ChatClientTypeOK, Row, ChatClientAssumption
  <2>5. question'[q].at = "answered" /\ question'[q].to = c
    BY <2>1, <2>3, <2>4 DEF Question
  <2>6. \A rows : FromServer(rows, question) => FromServer(rows, question')
    BY <2>1, <2>5, FromServerStays
  <2>7. FromServer(store[c], question) /\ store[c] \in Seq(Row)
    BY <1>1 DEF RowsInv
  <2>8. \A i \in DOMAIN store[c] : store[c][i] # r
    BY <2>1, <2>4, <2>7 DEF FromServer
  <2>9. FromServer(Append(store[c], r), question') /\ Append(store[c], r) \in Seq(Row)
    BY <2>1, <2>4, <2>5, <2>6, <2>7, <2>8, RowStored
  <2>10. store' \in [Conversations -> Seq(Row)] /\ \A d \in Conversations : FromServer(store'[d], question')
    BY <1>1, <2>1, <2>2, <2>3, <2>6, <2>9 DEF RowsInv
  <2>11. QuestionsArePlaced'
    <3>1. owner[c] # NoUser
      BY <2>1, <2>3 DEF RowsInv, QuestionsArePlaced
    <3>2. ASSUME NEW p \in DOMAIN question', question'[p].at # "sent"
          PROVE  question'[p].to \in Conversations /\ owner'[question'[p].to] # NoUser
      <4>1. CASE p = q
        BY <2>1, <2>5, <3>1, <4>1
      <4>2. CASE p # q
        BY <2>1, <3>2, <4>2 DEF RowsInv, QuestionsArePlaced
      <4> QED
        BY <4>1, <4>2
    <3>3. \A d \in Conversations : owner'[d] = NoUser => store'[d] = <<>>
      BY <1>1, <2>1, <2>3, <3>1 DEF RowsInv, QuestionsArePlaced
    <3> QED
      BY <3>2, <3>3 DEF QuestionsArePlaced
  <2>12. UNCHANGED <<clientVars, clean>>
    BY <1>14 DEF ServerAnswers
  <2> QED
    BY <1>1, <2>1, <2>5, <2>10, <2>11, <2>12, ServerSteps
<1>15. CASE SendMessage
  BY <1>3, <1>15, SendIsTrue DEF SendMessage
<1>16. CASE ReplyArrives
  <2> DEFINE asked == question[chat]
             answer == [q |-> chat, kind |-> "answer"]
             pane == MergeUniqueMessages(messages, answer)
  <2>1. /\ chat # 0 /\ chat' = 0 /\ reply' = "none" /\ conversationId' = asked.to
        /\ IF asked.to # conversationId
           THEN ConversationEffect(user, asked.to, SkipNext(asked.from, asked.to), pane)
           ELSE /\ messages' = pane
                /\ skip' = SkipNext(asked.from, asked.to)
                /\ UNCHANGED loads
        /\ UNCHANGED <<user, error, serverVars, clean>>
    BY <1>16 DEF ReplyArrives, RowsInv, ReplyIsTrue
  <2>2. /\ chat \in 1..Len(question) /\ DOMAIN question = 1..Len(question)
        /\ Len(question) \in Nat /\ Len(question) <= MaxQuestions
    BY <1>1, <2>1 DEF RowsInv, ChatClientTypeOK
  <2>3. answer \in Row /\ answer.q <= Len(question) /\ asked.to \in NoneOr(Conversations)
    <3>1. asked \in Question
      BY <2>2 DEF RowsInv, ChatClientTypeOK
    <3> QED
      BY <2>2, <3>1, ChatClientAssumption DEF Row, ChatClientAssumption, Question
  <2> HIDE DEF asked, answer
  <2>4. PaneIsTrue(pane, question)
    BY <1>1, <2>3, AnswerShown
  <2> HIDE DEF pane
  <2>5. SkipNext(asked.from, asked.to) \in BOOLEAN
    BY <1>1 DEF SkipNext
  <2>6. PaneIsTrue(messages', question) /\ LoadsAreTrue(loads', question) /\ skip' \in BOOLEAN
    <3>1. CASE asked.to # conversationId
      BY <1>1, <2>1, <2>3, <2>4, <2>5, <3>1, EffectIsTrue
    <3>2. CASE asked.to = conversationId
      BY <1>1, <2>1, <2>4, <2>5, <3>2
    <3> QED
      BY <3>1, <3>2
  <2> QED
    BY <1>1, <2>1, <2>3, <2>6, TabSteps
<1>17. CASE ChatFails
  BY <1>1, <1>2, <1>17, TabSteps DEF ChatFails
<1>18. CASE ReplyBegins
  BY <1>1, <1>18, TabSteps DEF ReplyBegins
<1>19. CASE UNCHANGED vars
  BY <1>1, <1>19, TabSteps DEF vars, clientVars
<1> QED
  BY <1>4, <1>5, <1>6, <1>7, <1>8, <1>9, <1>10, <1>11, <1>12, <1>13, <1>14, <1>15, <1>16, <1>17, <1>18,
     <1>19
     DEF Next

\* What the pane says grows with the pane.
LEMMA KeptGrows ==
    ASSUME NEW pane \in Seq(Row), NEW r \in Row
    PROVE  /\ AsKept(pane) \in Seq(Row) /\ Len(AsKept(pane)) = Len(pane)
           /\ AsKept(Append(pane, r)) = Append(AsKept(pane), AsStored(r))
<1>1. /\ Len(pane) \in Nat /\ DOMAIN pane = 1..Len(pane) /\ Append(pane, r) \in Seq(Row)
      /\ DOMAIN Append(pane, r) = 1..(Len(pane) + 1)
      /\ \A i \in 1..Len(pane) : Append(pane, r)[i] = pane[i]
      /\ Append(pane, r)[Len(pane) + 1] = r
  OBVIOUS
<1>2. \A x \in Row : AsStored(x) \in Row
  BY DEF AsStored, Row
<1>3. /\ DOMAIN AsKept(pane) = 1..Len(pane) /\ \A i \in 1..Len(pane) : AsKept(pane)[i] = AsStored(pane[i])
      /\ AsKept(pane) = [i \in 1..Len(pane) |-> AsKept(pane)[i]]
  BY <1>1 DEF AsKept
<1>4. AsKept(pane) \in Seq(Row) /\ Len(AsKept(pane)) = Len(pane)
  <2>1. \A i \in 1..Len(pane) : pane[i] \in Row
    BY <1>1
  <2>2. \A i \in 1..Len(pane) : AsKept(pane)[i] \in Row
    BY <1>2, <1>3, <2>1
  <2> QED
    BY <1>1, <1>3, <2>2
<1> DEFINE longer == Append(AsKept(pane), AsStored(r))
<1>5. /\ longer \in Seq(Row) /\ DOMAIN longer = 1..(Len(pane) + 1)
      /\ \A i \in 1..Len(pane) : longer[i] = AsStored(pane[i])
      /\ longer[Len(pane) + 1] = AsStored(r)
      /\ longer = [i \in 1..(Len(pane) + 1) |-> longer[i]]
  BY <1>1, <1>2, <1>3, <1>4
<1> HIDE DEF longer
<1>6. AsKept(Append(pane, r)) = [i \in 1..(Len(pane) + 1) |-> AsStored(Append(pane, r)[i])]
  BY <1>1 DEF AsKept
<1>7. ASSUME NEW i \in 1..(Len(pane) + 1) PROVE AsStored(Append(pane, r)[i]) = longer[i]
  <2>1. CASE i \in 1..Len(pane)
    BY <1>1, <1>5, <2>1
  <2>2. CASE i = Len(pane) + 1
    BY <1>1, <1>5, <2>2
  <2> QED
    BY <1>1, <2>1, <2>2
<1>8. AsKept(Append(pane, r)) = longer
  BY <1>5, <1>6, <1>7
<1> QED
  BY <1>4, <1>8 DEF longer

\* What comes from the server says just what is stored.
LEMMA KeptIsStored ==
    ASSUME NEW asked, NEW rows \in Seq(Row), FromServer(rows, asked)
    PROVE  AsKept(rows) = rows
<1>1. rows = [i \in DOMAIN rows |-> rows[i]]
  OBVIOUS
<1>2. \A i \in DOMAIN rows : AsStored(rows[i]) = rows[i]
  BY DEF FromServer, AsStored
<1> QED
  BY <1>1, <1>2 DEF AsKept

\* The invariant is inductive: a tab that nobody disturbs shows what is stored.
THEOREM TabInvPreserved == TabInv /\ [Next]_vars => TabInv'
<1> SUFFICES ASSUME TabInv, [Next]_vars, clean' PROVE CleanIsTrue'
  BY RowsInvPreserved DEF TabInv
<1>1. RowsInv /\ RowsInv' /\ (clean => CleanIsTrue)
  BY RowsInvPreserved DEF TabInv
<1>2. /\ user \in Users \cup {NoUser} /\ conversationId \in NoneOr(Conversations)
      /\ messages \in Seq(Row) /\ chat \in 0..Len(question) /\ Len(question) \in Nat
      /\ DOMAIN question = 1..Len(question) /\ question \in Seq(Question)
      /\ owner \in [Conversations -> Users \cup {NoUser}] /\ store \in [Conversations -> Seq(Row)]
      /\ \A c \in Conversations : FromServer(store[c], question)
      /\ \A c \in Conversations : owner[c] = NoUser => store[c] = <<>>
      /\ NoConversation \notin Conversations /\ NoUser \notin Users
  BY <1>1, ChatClientAssumption DEF RowsInv, ChatClientTypeOK, QuestionsArePlaced, ChatClientAssumption
<1>3. AsKept(<<>>) = <<>>
  BY DEF AsKept
<1>4. ASSUME Interrupts PROVE clean /\ CleanIsTrue /\ chat = 0 /\ loads = {}
  BY <1>1, <1>4 DEF Interrupts, Waiting
<1>5. \A q \in DOMAIN question : q # 0
  BY <1>2
<1>6. ASSUME NEW u \in Users, Login(u) PROVE CleanIsTrue'
  <2>1. /\ clean /\ CleanIsTrue /\ chat = 0 /\ loads = {} /\ user = NoUser /\ user' = u
        /\ conversationId = NoConversation /\ UNCHANGED <<conversationId, error, chat, question, owner, store>>
        /\ messages' = <<>> /\ skip' = skip /\ UNCHANGED loads
    BY <1>4, <1>6 DEF Login, ConversationEffect, CleanIsTrue, serverVars
  <2> QED
    BY <1>2, <1>3, <2>1 DEF CleanIsTrue, Waiting, QuietIsTrue, LoadIsTrue, QuestionIsTrue, IsOwn, Kept
<1>7. CASE Logout
  <2>1. /\ clean /\ CleanIsTrue /\ chat = 0 /\ loads = {} /\ user' = NoUser
        /\ conversationId' = NoConversation /\ error' = NoConversation
        /\ UNCHANGED <<chat, question, owner, store>>
        /\ messages' = <<>> /\ skip' = skip /\ UNCHANGED loads
    BY <1>4, <1>7 DEF Logout, ConversationEffect, serverVars
  <2> QED
    BY <2>1 DEF CleanIsTrue, Waiting, QuietIsTrue, LoadIsTrue, QuestionIsTrue
<1>8. CASE StartNewChat
  <2>1. /\ clean /\ CleanIsTrue /\ chat = 0 /\ loads = {} /\ user # NoUser
        /\ conversationId' = NoConversation /\ error' = NoConversation /\ messages' = <<>>
        /\ UNCHANGED <<user, skip, chat, loads, question, owner, store>>
    BY <1>4, <1>8 DEF StartNewChat, serverVars
  <2> QED
    BY <1>3, <2>1 DEF CleanIsTrue, Waiting, QuietIsTrue, LoadIsTrue, QuestionIsTrue, IsOwn, Kept
<1>9. CASE RetryLoad
  BY <1>4, <1>9 DEF RetryLoad, CleanIsTrue
<1>10. CASE Reload
  <2>1. /\ user # NoUser /\ skip' = FALSE /\ error' = NoConversation /\ chat' = 0 /\ messages' = <<>>
        /\ \A q \in DOMAIN question : question[q].at = "answered"
        /\ UNCHANGED <<user, conversationId, question, owner, store>>
    BY <1>10 DEF Reload, serverVars
  <2>2. loads' = IF conversationId = NoConversation THEN {}
                 ELSE {[user |-> user, of |-> conversationId, at |-> "asked", rows |-> <<>>]}
    BY <1>10 DEF Reload
  <2>3. QuietIsTrue' /\ LoadIsTrue'
    <3>1. CASE conversationId = NoConversation
      BY <1>3, <2>1, <2>2, <3>1 DEF QuietIsTrue, LoadIsTrue, IsOwn, Kept
    <3>2. CASE conversationId # NoConversation
      <4>1. PICK l : l = [user |-> user, of |-> conversationId, at |-> "asked", rows |-> <<>>]
        OBVIOUS
      <4>2. loads' = {l} /\ l.user = user /\ l.of = conversationId /\ l.at = "asked"
        BY <2>2, <3>2, <4>1
      <4> QED
        BY <2>1, <3>2, <4>2 DEF QuietIsTrue, LoadIsTrue
    <3> QED
      BY <3>1, <3>2
  <2> QED
    BY <2>1, <2>3 DEF CleanIsTrue, QuestionIsTrue
<1>11. ASSUME NEW c \in Conversations, SelectConversation(c) PROVE CleanIsTrue'
  <2>1. /\ clean /\ CleanIsTrue /\ chat = 0 /\ loads = {} /\ skip = FALSE /\ user # NoUser
        /\ owner[c] = user /\ conversationId' = c /\ c # NoConversation
        /\ UNCHANGED <<user, error, chat, question, owner, store>>
    BY <1>2, <1>4, <1>11 DEF SelectConversation, serverVars, CleanIsTrue
  <2>2. PICK l : l = [user |-> user, of |-> c, at |-> "asked", rows |-> <<>>]
    OBVIOUS
  <2>3. skip' = FALSE /\ LoadMessages(user, c)
    BY <1>11, <2>1 DEF SelectConversation, ConversationEffect
  <2>4. loads' = {l} /\ l.user = user /\ l.of = c /\ l.at = "asked"
    BY <2>1, <2>2, <2>3 DEF LoadMessages
  <2>5. QuietIsTrue' /\ LoadIsTrue' /\ QuestionIsTrue'
    BY <2>1, <2>4 DEF QuietIsTrue, LoadIsTrue, QuestionIsTrue
  <2> QED
    BY <2>1, <2>3, <2>5 DEF CleanIsTrue
<1>12. ASSUME NEW l \in loads, LoadAnswered(l) PROVE CleanIsTrue'
  <2>1. PICK m : m = [l EXCEPT !.at = "headers", !.rows = store[l.of]]
    OBVIOUS
  <2>2. /\ CleanIsTrue /\ loads' = (loads \ {l}) \cup {m} /\ owner[l.of] = l.user /\ l \in Load
        /\ UNCHANGED <<user, conversationId, messages, skip, error, chat, question, owner, store>>
    BY <1>1, <1>12, <2>1 DEF LoadAnswered, Answered, serverVars, RowsInv, LoadsAreTrue
  <2>3. chat = 0 /\ conversationId # NoConversation /\ loads = {l} /\ l.of = conversationId /\ l.user = user
    BY <2>2 DEF CleanIsTrue, LoadIsTrue
  <2>4. m.user = user /\ m.of = conversationId /\ m.rows = store[conversationId]
    BY <2>1, <2>2, <2>3 DEF Load
  <2>5. loads' = {m} /\ owner[conversationId] = user
    BY <2>2, <2>3
  <2>6. user # NoUser
    BY <2>2, <2>3 DEF CleanIsTrue
  <2>7. QuietIsTrue' /\ LoadIsTrue' /\ QuestionIsTrue'
    BY <2>2, <2>3, <2>4, <2>5 DEF QuietIsTrue, LoadIsTrue, QuestionIsTrue, IsOwn
  <2> QED
    BY <2>2, <2>6, <2>7 DEF CleanIsTrue
<1>13. ASSUME NEW l \in loads, LoadArrives(l) PROVE CleanIsTrue'
  <2>1. /\ CleanIsTrue /\ l.at = "headers" /\ loads' = loads \ {l} /\ messages' = l.rows
        /\ UNCHANGED <<user, conversationId, skip, error, chat, question, owner, store>>
    BY <1>1, <1>13 DEF LoadArrives, serverVars
  <2>2. /\ chat = 0 /\ conversationId # NoConversation /\ loads = {l} /\ IsOwn
        /\ l.rows = store[conversationId]
    BY <2>1 DEF CleanIsTrue, LoadIsTrue
  <2>3. conversationId \in Conversations
    BY <1>2, <2>2 DEF NoneOr
  <2>4. AsKept(messages') = store[conversationId]
    BY <1>2, <2>1, <2>2, <2>3, KeptIsStored
  <2>5. loads' = {}
    BY <2>1, <2>2
  <2> QED
    BY <2>1, <2>2, <2>4, <2>5 DEF CleanIsTrue, Waiting, QuietIsTrue, LoadIsTrue, QuestionIsTrue, IsOwn, Kept
<1>14. ASSUME NEW l \in loads, LoadFails(l) PROVE CleanIsTrue'
  BY <1>14 DEF LoadFails
<1>15. CASE SendMessage
  <2>1. clean /\ CleanIsTrue /\ chat = 0 /\ loads = {} /\ user # NoUser /\ user \in Users
    BY <1>2, <1>4, <1>15 DEF SendMessage
  <2>2. /\ chat' = Len(question) + 1 /\ chat' # 0
        /\ messages' = Append(messages, [q |-> chat', kind |-> "local"])
        /\ DOMAIN question' = 1..chat'
        /\ \A q \in DOMAIN question : q # chat' /\ question'[q] = question[q]
        /\ question'[chat'] = [user |-> user, from |-> conversationId,
                               to |-> NoConversation, at |-> "sent"]
    BY <1>1, <1>15, SendIsTrue
  <2>3. /\ error' = NoConversation /\ UNCHANGED <<user, conversationId, skip, loads, owner, store>>
    BY <1>15 DEF SendMessage
  <2>4. PICK r : r = [q |-> chat', kind |-> "local"]
    OBVIOUS
  <2>5. r \in Row
    <3>1. chat' \in 1..MaxQuestions
      BY <1>2, <1>15, <2>2, ChatClientAssumption DEF SendMessage, ChatClientAssumption
    <3> QED
      BY <2>4, <3>1 DEF Row
  <2>6. AsKept(messages) = Kept(conversationId) /\ IsOwn
    BY <2>1 DEF CleanIsTrue, QuietIsTrue
  <2>7. AsStored(r) = [q |-> chat', kind |-> "question"]
    BY <2>4 DEF AsStored
  <2>8. AsKept(messages') = Append(Kept(conversationId), [q |-> chat', kind |-> "question"])
    BY <1>2, <2>2, <2>4, <2>5, <2>6, <2>7, KeptGrows
  <2>9. \A q \in DOMAIN question' : q # chat' => question'[q].at = "answered"
    <3>1. \A q \in 1..chat' : q # chat' => q \in DOMAIN question
      BY <1>2, <2>2
    <3>2. \A q \in DOMAIN question : question[q].at = "answered"
      BY <1>5, <2>1 DEF CleanIsTrue
    <3> QED
      BY <2>2, <3>1, <3>2
  <2>10. /\ question'[chat'].user = user /\ question'[chat'].from = conversationId
         /\ question'[chat'].at = "sent"
    BY <2>2
  <2>11. Kept(conversationId)' = Kept(conversationId) /\ IsOwn'
    BY <2>3, <2>6 DEF Kept, IsOwn
  <2>12. QuestionIsTrue'
    BY <2>1, <2>3, <2>8, <2>10, <2>11 DEF QuestionIsTrue
  <2> QED
    BY <2>1, <2>2, <2>3, <2>9, <2>12 DEF CleanIsTrue, QuietIsTrue, LoadIsTrue
<1>16. ASSUME NEW q \in DOMAIN question, ServerStores(q) PROVE CleanIsTrue'
  <2>1. PICK c \in Conversations :
          /\ IF question[q].from # NoConversation /\ owner[question[q].from] = question[q].user
             THEN c = question[q].from ELSE owner[c] = NoUser
          /\ owner' = [owner EXCEPT ![c] = question[q].user]
          /\ store' = [store EXCEPT ![c] = Append(store[c], [q |-> q, kind |-> "question"])]
          /\ question[q].at = "sent"
          /\ question'[q] = [question[q] EXCEPT !.to = c, !.at = "stored"]
          /\ \A p \in DOMAIN question : p # q => question'[p] = question[p]
          /\ DOMAIN question' = DOMAIN question /\ Len(question') = Len(question)
          /\ question' \in Seq(Question)
    BY <1>1, <1>16, StoresEffect
  <2>2. /\ CleanIsTrue /\ UNCHANGED <<user, conversationId, messages, skip, error, chat, loads>>
    BY <1>1, <1>16 DEF ServerStores, clientVars
  <2>3. q = chat /\ chat # 0
    BY <1>5, <2>1, <2>2 DEF CleanIsTrue
  <2>4. /\ loads = {} /\ question[q].user = user /\ question[q].from = conversationId /\ IsOwn
        /\ AsKept(messages) = Append(Kept(conversationId), [q |-> q, kind |-> "question"])
    BY <2>1, <2>2, <2>3 DEF CleanIsTrue, QuestionIsTrue
  <2>5. question[q] \in Question
    BY <1>2
  <2>6. /\ question'[q].user = user /\ question'[q].from = conversationId
        /\ question'[q].to = c /\ question'[q].at = "stored"
    BY <2>1, <2>4, <2>5 DEF Question
  <2>7. conversationId # NoConversation => c = conversationId
    BY <2>1, <2>4 DEF IsOwn
  <2>8. store[c] = Kept(conversationId)
    BY <1>2, <2>1, <2>4, <2>7 DEF Kept
  <2>9. store'[c] = AsKept(messages) /\ owner'[c] = user
    BY <1>2, <2>1, <2>4, <2>8
  <2>10. QuestionIsTrue'
    BY <2>2, <2>3, <2>4, <2>6, <2>7, <2>9 DEF QuestionIsTrue, IsOwn
  <2>11. \A p \in DOMAIN question' : p # chat => question'[p].at = "answered"
    BY <2>1, <2>2, <2>3 DEF CleanIsTrue
  <2> QED
    BY <2>2, <2>3, <2>4, <2>10, <2>11 DEF CleanIsTrue, Waiting, QuietIsTrue, LoadIsTrue
<1>17. ASSUME NEW q \in DOMAIN question, ServerAnswers(q) PROVE CleanIsTrue'
  <2>1. /\ question[q].at = "stored" /\ question[q].to \in Conversations /\ owner' = owner
        /\ store' = [store EXCEPT ![question[q].to] =
                        Append(store[question[q].to], [q |-> q, kind |-> "answer"])]
        /\ question'[q] = [question[q] EXCEPT !.at = "answered"]
        /\ \A p \in DOMAIN question : p # q => question'[p] = question[p]
        /\ DOMAIN question' = DOMAIN question /\ Len(question') = Len(question)
        /\ question' \in Seq(Question)
    BY <1>1, <1>17, AnswersEffect
  <2>2. /\ CleanIsTrue /\ UNCHANGED <<user, conversationId, messages, skip, error, chat, loads>>
    BY <1>1, <1>17 DEF ServerAnswers, clientVars
  <2>3. q = chat /\ chat # 0
    BY <1>5, <2>1, <2>2 DEF CleanIsTrue
  <2>4. /\ loads = {} /\ question[q].user = user /\ question[q].from = conversationId /\ IsOwn
        /\ owner[question[q].to] = user
        /\ conversationId # NoConversation => question[q].to = conversationId
        /\ AsKept(messages) = store[question[q].to]
    BY <2>1, <2>2, <2>3 DEF CleanIsTrue, QuestionIsTrue
  <2>5. question[q] \in Question
    BY <1>2
  <2>6. /\ question'[q].user = user /\ question'[q].from = conversationId
        /\ question'[q].to = question[q].to /\ question'[q].at = "answered"
    BY <2>1, <2>4, <2>5 DEF Question
  <2>7. store'[question[q].to] = Append(AsKept(messages), [q |-> q, kind |-> "answer"])
    BY <1>2, <2>1, <2>4
  <2>8. QuestionIsTrue'
    BY <2>1, <2>2, <2>3, <2>4, <2>6, <2>7 DEF QuestionIsTrue, IsOwn
  <2>9. \A p \in DOMAIN question' : p # chat => question'[p].at = "answered"
    BY <2>1, <2>2, <2>3 DEF CleanIsTrue
  <2> QED
    BY <2>2, <2>3, <2>4, <2>8, <2>9 DEF CleanIsTrue, Waiting, QuietIsTrue, LoadIsTrue
<1>18. CASE ReplyArrives
  <2> DEFINE to == question[chat].to
  <2>1. /\ chat # 0 /\ question[chat].at = "answered" /\ chat' = 0 /\ conversationId' = to
        /\ UNCHANGED <<user, error, question, owner, store>> /\ CleanIsTrue
    BY <1>1, <1>18 DEF ReplyArrives, serverVars, RowsInv, ReplyIsTrue
  <2>2. /\ loads = {} /\ question[chat].user = user /\ question[chat].from = conversationId
        /\ owner[to] = user
        /\ conversationId # NoConversation => to = conversationId
        /\ skip = FALSE /\ user # NoUser /\ error = NoConversation
    BY <2>1 DEF CleanIsTrue, QuestionIsTrue, Waiting
  <2>3. PICK r : r = [q |-> chat, kind |-> "answer"]
    OBVIOUS
  <2>4. store[to] = Append(AsKept(messages), r)
    BY <2>1, <2>3 DEF CleanIsTrue, QuestionIsTrue
  <2>5. chat \in DOMAIN question /\ r \in Row /\ AsStored(r) = r
    <3>1. chat \in 1..Len(question) /\ chat \in 1..MaxQuestions
      BY <1>1, <1>2, <2>1, ChatClientAssumption DEF RowsInv, ChatClientTypeOK, ChatClientAssumption
    <3> QED
      BY <1>2, <2>3, <3>1 DEF Row, AsStored
  <2>6. to \in Conversations /\ to # NoConversation
    BY <1>1, <1>2, <2>1, <2>5 DEF RowsInv, QuestionsArePlaced
  <2>7. /\ AsKept(messages) \in Seq(Row) /\ Len(AsKept(messages)) = Len(messages)
        /\ AsKept(Append(messages, r)) = store[to]
    BY <1>2, <2>4, <2>5, KeptGrows
  <2>8. \A i \in 1..Len(messages) : messages[i] # r
    <3> SUFFICES ASSUME NEW i \in 1..Len(messages), messages[i] = r PROVE FALSE
      OBVIOUS
    <3>1. Len(messages) \in Nat /\ DOMAIN messages = 1..Len(messages)
      BY <1>2
    <3>2. AsKept(messages)[i] = r
      BY <2>5, <3>1 DEF AsKept
    <3>3. /\ store[to][i] = r /\ store[to][Len(messages) + 1] = r
          /\ i \in DOMAIN store[to] /\ Len(messages) + 1 \in DOMAIN store[to]
      BY <2>4, <2>5, <2>7, <3>1, <3>2
    <3> QED
      BY <1>2, <2>6, <3>1, <3>3 DEF FromServer
  <2>9. MergeUniqueMessages(messages, r) = Append(messages, r)
    BY <2>8 DEF MergeUniqueMessages, Contains
  <2>10. /\ messages' = Append(messages, r) /\ skip' = FALSE /\ loads' = {}
    <3>1. CASE to # conversationId
      <4>1. SkipNext(question[chat].from, to)
        BY <2>2, <3>1 DEF SkipNext
      <4>2. ConversationEffect(user, to, SkipNext(question[chat].from, to), MergeUniqueMessages(messages, r))
        BY <1>18, <2>3, <3>1 DEF ReplyArrives
      <4> QED
        BY <2>2, <2>6, <2>9, <4>1, <4>2 DEF ConversationEffect
    <3>2. CASE to = conversationId
      <4>1. ~SkipNext(question[chat].from, to) /\ SkipNext(question[chat].from, to) \in BOOLEAN
        BY <2>2, <3>2 DEF SkipNext
      <4>2. /\ messages' = MergeUniqueMessages(messages, r) /\ UNCHANGED loads
            /\ skip' = SkipNext(question[chat].from, to)
        BY <1>18, <2>3, <3>2 DEF ReplyArrives
      <4> QED
        BY <2>2, <2>9, <4>1, <4>2
    <3> QED
      BY <3>1, <3>2
  <2>11. QuietIsTrue'
    <3>1. PICK c \in Conversations : c = to
      BY <2>6
    <3>2. owner'[c] = user' /\ conversationId' = c /\ c # NoConversation /\ store' = store
      BY <2>1, <2>2, <2>6, <3>1
    <3>3. AsKept(messages') = store[c]
      <4>1. AsKept(messages') = AsKept(Append(messages, r))
        BY <2>10
      <4> QED
        BY <2>7, <3>1, <4>1
    <3> QED
      BY <3>2, <3>3 DEF QuietIsTrue, IsOwn, Kept
  <2>12. \A q \in DOMAIN question : question[q].at = "answered"
    BY <2>1 DEF CleanIsTrue
  <2> QED
    BY <2>1, <2>2, <2>10, <2>11, <2>12 DEF CleanIsTrue, LoadIsTrue, QuestionIsTrue
<1>19. CASE ChatFails
  BY <1>19 DEF ChatFails
<1>20. CASE ReplyBegins
  <2>1. /\ CleanIsTrue /\ UNCHANGED <<user, conversationId, messages, skip, error, chat, loads>>
        /\ UNCHANGED <<question, owner, store>>
    BY <1>1, <1>20 DEF ReplyBegins, serverVars
  <2> QED
    BY <2>1 DEF CleanIsTrue, Waiting, QuietIsTrue, LoadIsTrue, QuestionIsTrue, IsOwn, Kept
<1>21. CASE UNCHANGED vars
  <2>1. /\ UNCHANGED <<user, conversationId, messages, skip, error, chat, loads, question, owner, store, clean>>
    BY <1>21 DEF vars, clientVars, serverVars
  <2>2. CleanIsTrue
    BY <1>1, <2>1
  <2> QED
    BY <2>1, <2>2 DEF CleanIsTrue, Waiting, QuietIsTrue, LoadIsTrue, QuestionIsTrue, IsOwn, Kept
<1> QED
  BY <1>6, <1>7, <1>8, <1>9, <1>10, <1>11, <1>12, <1>13, <1>14, <1>15, <1>16, <1>17, <1>18, <1>19, <1>20,
     <1>21
     DEF Next

\* So it holds in every reachable state.
THEOREM TabInvariant == Spec => []TabInv
BY TabInvInitially, TabInvPreserved, PTL DEF Spec
-----------------------------------------------------------------------------
\* ChatClientTypeOK: loads under way are of conversations and for users, and
\* at most one of them can still be aborted.
THEOREM ChatClientTypeCorrect == Spec => []ChatClientTypeOK
<1>1. TabInv => ChatClientTypeOK
  BY DEF TabInv, RowsInv
<1> QED
  BY TabInvariant, <1>1, PTL

\* ShownOnce: neither a reply and a load nor two loads show a message twice,
\* for any number of questions, loads, users and interruptions.
THEOREM MessagesShownOnce == Spec => []ShownOnce
<1>1. TabInv => ShownOnce
  BY DEF TabInv, RowsInv, PaneIsTrue, ShownOnce
<1> QED
  BY TabInvariant, <1>1, PTL

\* PaneShowsConversation: the pane of a tab that was not disturbed is the
\* conversation that is selected, also of one that has just been opened by
\* its first question, and after a reload.
THEOREM PaneIsConversation == Spec => []PaneShowsConversation
<1>1. TabInv => PaneShowsConversation
  BY DEF TabInv, CleanIsTrue, Waiting, QuietIsTrue, AsKept, Kept, PaneShowsConversation
<1> QED
  BY TabInvariant, <1>1, PTL
=============================================================================
