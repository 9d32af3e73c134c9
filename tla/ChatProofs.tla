----------------------------- MODULE ChatProofs -----------------------------
(***************************************************************************)
(* Proofs about Chat, for any number of users, conversations, requests,    *)
(* providers, faults and crashes.                                          *)
(***************************************************************************)
EXTENDS Chat, FiniteSetTheorems, TLAPS
-----------------------------------------------------------------------------
(***************************************************************************)
(* The store.                                                              *)
(***************************************************************************)

\* A window of ids (ORDER BY id DESC LIMIT n, slice) only drops ids.
LEMMA NewestIsSubset ==
    ASSUME NEW S, NEW n
    PROVE  Newest(S, n) \subseteq S
BY DEF Newest

\* The history of a conversation holds rows of that conversation only.
LEMMA RecentMessagesOfConversation ==
    ASSUME NEW c, NEW limit, NEW i \in RecentMessages(c, limit)
    PROVE  i \in Ids /\ messages[i].conv = c
<1> DEFINE rows == {j \in Ids : messages[j].conv = c}
           fetched == Newest(rows, AtMost(2 * limit, 400))
           kept == {j \in fetched : ForLlm(messages[j])}
<1>1. i \in Newest(kept, limit)
  BY DEF RecentMessages
<1>2. i \in fetched
  BY <1>1, NewestIsSubset
<1>3. i \in rows
  BY <1>2, NewestIsSubset
<1> QED
  BY <1>3

\* What createMessage does to the rows: nothing, or one row more.
LEMMA CreateMessageRows ==
    ASSUME StoreTypeOK, NEW row \in Row, NEW o \in Outcome, CreateMessage(row, o)
    PROVE  /\ messages' \in Seq(Row)
           /\ owner' = owner
           /\ updatedAt' \in [Conversations -> Nat]
           /\ Len(messages') \in {Len(messages), Len(messages) + 1}
           /\ \A i \in 1..Len(messages) : messages'[i] = messages[i]
           /\ Len(messages') = Len(messages) + 1 =>
                messages'[Len(messages) + 1] = row
           /\ o # "lost" => Len(messages') = Len(messages) + 1
<1>1. CASE o = "lost"
  BY <1>1 DEF CreateMessage, StoreTypeOK
<1>2. CASE o # "lost"
  <2>1. messages' = Append(messages, row) /\ owner' = owner
    BY <1>2 DEF CreateMessage
  <2>2. row.conv \in Conversations
    BY DEF Row
  <2>3. updatedAt' \in [Conversations -> Nat]
    BY <2>2 DEF CreateMessage, StoreTypeOK
  <2> QED
    BY <1>2, <2>1, <2>3 DEF StoreTypeOK
<1> QED
  BY <1>1, <1>2

\* What createConversation does: nothing, or one free id gets its owner.
LEMMA CreateConversationOwner ==
    ASSUME StoreTypeOK, NEW c \in Conversations, NEW u \in Users, NEW o \in Outcome,
           CreateConversation(c, u, o)
    PROVE  /\ messages' = messages
           /\ owner' \in [Conversations -> Users \cup {Nobody}]
           /\ updatedAt' \in [Conversations -> Nat]
           /\ \A d \in Conversations : owner[d] # Nobody => owner'[d] = owner[d]
           /\ o = "stored" => owner'[c] = u
           /\ \A d \in Conversations : updatedAt'[d] \in {updatedAt[d], Len(messages)}
<1>1. CASE o = "lost"
  BY <1>1 DEF CreateConversation, storeVars, StoreTypeOK
<1>2. CASE o # "lost"
  <2>1. /\ owner[c] = Nobody
        /\ owner' = [owner EXCEPT ![c] = u]
        /\ updatedAt' = [updatedAt EXCEPT ![c] = Len(messages)]
        /\ messages' = messages
    BY <1>2 DEF CreateConversation
  <2>2. Len(messages) \in Nat
    BY DEF StoreTypeOK
  <2> QED
    BY <2>1, <2>2 DEF StoreTypeOK
<1> QED
  BY <1>1, <1>2
-----------------------------------------------------------------------------
(***************************************************************************)
(* Type correctness.                                                       *)
(***************************************************************************)

\* The rows a request in flight writes are rows of the table.
LEMMA RowTypes ==
    ASSUME ChatTypeOK, ChatAssumption, NEW r \in Requests, conv[r] \in Conversations
    PROVE  /\ UserRow(r) \in Row
           /\ \A p \in Providers : ToolRow(r, p) \in Row
           /\ \A p \in Providers, s \in {"success", "failed"} : AnswerRow(r, p, s) \in Row
BY DEF ChatAssumption, UserRow, ToolRow, AnswerRow, Row

\* Where a request in flight stands: it has its conversation, and the
\* conversation is its user's.
Located == \A r \in Requests : pc[r] \in Active =>
                conv[r] \in Conversations /\ owner[conv[r]] = UserOf[r]

\* Only configured providers have jobs, and only a request in flight has one
\* that is not over; a job in its tool loop has a call left.
JobsStarted == \A r \in Requests, p \in Providers :
    /\ job[r][p] # "none" => pc[r] \notin {"idle", "resolved", "recorded"}
    /\ job[r][p] \notin Settled \cup {"none"} =>
        pc[r] \in {"asking", "crashed"} /\ p \in Configured
    /\ job[r][p] = "tools" => toolCalls[r][p] >= 1

TypeInv == ChatTypeOK /\ Located /\ JobsStarted

\* An error reply ends the request, with a reply of the right type.
LEMMA FailEffect ==
    ASSUME ChatTypeOK, NEW r \in Requests, Fail(r)
    PROVE  /\ pc' = [pc EXCEPT ![r] = "done"]
           /\ reply' \in [Requests -> Reply]
<1>1. [status |-> "error", provider |-> NoProvider] \in Reply
  BY DEF Reply
<1>2. /\ pc' = [pc EXCEPT ![r] = "done"]
      /\ reply' = [reply EXCEPT ![r] = [status |-> "error", provider |-> NoProvider]]
  BY DEF Fail, ReplyWith, Goto
<1>3. reply \in [Requests -> Reply]
  BY DEF ChatTypeOK
<1> QED
  BY <1>1, <1>2, <1>3

\* The conversation of a request in flight stays its user's as long as no
\* conversation changes hands.
LEMMA LocatedIsKept ==
    ASSUME TypeInv,
           \A q \in Requests : pc'[q] \in Active =>
                \/ pc[q] \in Active /\ conv'[q] = conv[q]
                \/ conv'[q] \in Conversations /\ owner'[conv'[q]] = UserOf[q],
           \A d \in Conversations : owner[d] # Nobody => owner'[d] = owner[d]
    PROVE  Located'
<1> SUFFICES ASSUME NEW q \in Requests, pc'[q] \in Active
             PROVE  conv'[q] \in Conversations /\ owner'[conv'[q]] = UserOf[q]
  BY DEF Located, Active
<1>1. CASE pc[q] \in Active /\ conv'[q] = conv[q]
  <2>1. conv[q] \in Conversations /\ owner[conv[q]] = UserOf[q]
    BY <1>1 DEF TypeInv, Located
  <2>2. owner[conv[q]] # Nobody
    BY <2>1, ChatAssumption, StoreAssumption DEF ChatAssumption, StoreAssumption
  <2> QED
    BY <1>1, <2>1, <2>2
<1> QED
  BY <1>1

\* Nothing is under way and nothing is stored.
THEOREM TypeInvInitially == ChatInit => TypeInv
<1> SUFFICES ASSUME ChatInit PROVE TypeInv
  OBVIOUS
<1> USE ChatAssumption, StoreAssumption
        DEF ChatInit, StoreInit, ChatAssumption, StoreAssumption
<1>1. StoreTypeOK
  BY DEF StoreTypeOK
<1>2. ChatTypeOK
  BY <1>1 DEF ChatTypeOK, JobState, Reply, NoReply
<1>3. Located /\ JobsStarted
  BY DEF Located, JobsStarted, Active, Settled
<1> QED
  BY <1>2, <1>3 DEF TypeInv

\* The compatibility message names a provider, or none.
LEMMA CompatibilityType ==
    ASSUME NEW rs \in Seq(Response)
    PROVE  SelectCompatibilityResponse(rs) \in Providers \cup {NoProvider}
<1> DEFINE first == {k \in Successes(rs) : \A j \in Successes(rs) : k <= j}
           n == CHOOSE k \in first : TRUE
<1>1. CASE first = {}
  BY <1>1 DEF SelectCompatibilityResponse
<1>2. CASE first # {}
  <2>1. n \in first
    BY <1>2
  <2>2. n \in 1..Len(rs)
    BY <2>1 DEF Successes
  <2>3. rs[n] \in Response
    BY <2>2
  <2>4. rs[n].provider \in Providers
    BY <2>3 DEF Response
  <2> QED
    BY <1>2, <2>4 DEF SelectCompatibilityResponse
<1> QED
  BY <1>1, <1>2

SetToolCalls(r, p, t) == toolCalls' = [toolCalls EXCEPT ![r][p] = t]

\* A job in flight takes a step, and its request, still in flight, none.
LEMMA JobStep ==
    ASSUME ChatTypeOK, JobsStarted, NEW r \in Requests, NEW p \in Configured,
           NEW s \in {"body", "tools", "second", "fulfilled", "rejected"}, NEW t \in Nat,
           job[r][p] \notin Settled \cup {"none"},
           SetJob(r, p, s),
           SetToolCalls(r, p, t),
           s = "tools" => t >= 1,
           pc' = pc
    PROVE  /\ job' \in [Requests -> [Providers -> JobState]]
           /\ toolCalls' \in [Requests -> [Providers -> Nat]]
           /\ JobsStarted'
<1>1. p \in Providers
  BY ChatAssumption DEF ChatAssumption, Configured
<1>2. /\ job \in [Requests -> [Providers -> JobState]]
      /\ toolCalls \in [Requests -> [Providers -> Nat]]
  BY DEF ChatTypeOK
<1>3. job' = [job EXCEPT ![r][p] = s]
  BY DEF SetJob
<1>4. job' \in [Requests -> [Providers -> JobState]]
  BY <1>1, <1>2, <1>3 DEF JobState
<1>5. /\ toolCalls' = [toolCalls EXCEPT ![r][p] = t]
      /\ toolCalls' \in [Requests -> [Providers -> Nat]]
  BY <1>1, <1>2 DEF SetToolCalls
<1>6. pc[r] \in {"asking", "crashed"}
  BY <1>1 DEF JobsStarted
<1>7. ASSUME NEW q \in Requests, NEW o \in Providers
      PROVE  /\ job'[q][o] # "none" => pc'[q] \notin {"idle", "resolved", "recorded"}
             /\ job'[q][o] \notin Settled \cup {"none"} =>
                    pc'[q] \in {"asking", "crashed"} /\ o \in Configured
             /\ job'[q][o] = "tools" => toolCalls'[q][o] >= 1
  <2>1. CASE q = r /\ o = p
    <3>1. job'[q][o] = s /\ toolCalls'[q][o] = t
      BY <1>1, <1>2, <1>3, <1>5, <2>1
    <3> QED
      BY <1>6, <2>1, <3>1
  <2>2. CASE q # r \/ o # p
    <3>1. job'[q][o] = job[q][o] /\ toolCalls'[q][o] = toolCalls[q][o]
      BY <1>2, <1>3, <1>5, <2>2
    <3> QED
      BY <3>1 DEF JobsStarted
  <2> QED
    BY <2>1, <2>2
<1>8. JobsStarted'
  BY <1>7 DEF JobsStarted, Settled
<1> QED
  BY <1>4, <1>5, <1>8

\* Every step of a request, its jobs and the process keeps it.
THEOREM TypeInvPreserved == TypeInv /\ [Next]_vars => TypeInv'
<1> SUFFICES ASSUME TypeInv, [Next]_vars PROVE TypeInv'
  OBVIOUS
<1> USE ChatAssumption, StoreAssumption
        DEF ChatAssumption, StoreAssumption, TypeInv, ChatTypeOK, Active
<1>1. ASSUME NEW r \in Requests, Refuse(r) PROVE TypeInv'
  <2>1. ChatTypeOK'
    BY <1>1 DEF Refuse, ReplyWith, Goto, Reply, StoreTypeOK, storeVars
  <2>2. Located' /\ JobsStarted'
    BY <1>1 DEF Refuse, ReplyWith, Goto, Located, JobsStarted, Settled, storeVars
  <2> QED
    BY <2>1, <2>2
<1>2. ASSUME NEW r \in Requests, ReuseConversation(r) PROVE TypeInv'
  <2>1. ChatTypeOK'
    BY <1>2 DEF ReuseConversation, Goto, StoreTypeOK, storeVars
  <2>2. Located' /\ JobsStarted'
    BY <1>2 DEF ReuseConversation, Goto, GetConversationByIdForUser, Located, JobsStarted,
                Settled, storeVars
  <2> QED
    BY <2>1, <2>2
<1>3. ASSUME NEW r \in Requests, StartConversation(r) PROVE TypeInv'
  <2>1. PICK c \in Conversations, o \in Outcome :
            /\ CreateConversation(c, UserOf[r], o)
            /\ Fault(o)
            /\ IF o = "stored"
               THEN /\ conv' = [conv EXCEPT ![r] = c]
                    /\ Goto(r, "resolved")
                    /\ UNCHANGED reply
               ELSE Fail(r) /\ UNCHANGED conv
    BY <1>3 DEF StartConversation
  <2>2. /\ UNCHANGED <<history, job, toolCalls, responses, crashes>>
        /\ pc[r] = "idle"
    BY <1>3 DEF StartConversation
  <2>3. /\ messages' = messages
        /\ owner' \in [Conversations -> Users \cup {Nobody}]
        /\ updatedAt' \in [Conversations -> Nat]
        /\ \A d \in Conversations : owner[d] # Nobody => owner'[d] = owner[d]
        /\ o = "stored" => owner'[c] = UserOf[r]
    BY <2>1, CreateConversationOwner
  <2>4. faults' \in 0..MaxFaults
    BY <2>1 DEF Fault
  <2>5. StoreTypeOK'
    BY <2>3 DEF StoreTypeOK
  <2>6. CASE o = "stored"
    <3>1. conv' = [conv EXCEPT ![r] = c] /\ pc' = [pc EXCEPT ![r] = "resolved"] /\ reply' = reply
      BY <2>1, <2>6 DEF Goto
    <3>2. ChatTypeOK'
      BY <3>1, <2>2, <2>4, <2>5
    <3>3. Located'
      <4>1. \A q \in Requests : pc'[q] \in Active =>
                \/ pc[q] \in Active /\ conv'[q] = conv[q]
                \/ conv'[q] \in Conversations /\ owner'[conv'[q]] = UserOf[q]
        BY <3>1, <2>3, <2>6
      <4> QED
        BY <4>1, <2>3, LocatedIsKept
    <3>4. JobsStarted'
      BY <3>1, <2>2 DEF JobsStarted, Settled
    <3> QED
      BY <3>2, <3>3, <3>4
  <2>7. CASE o # "stored"
    <3>1. /\ conv' = conv
          /\ pc' = [pc EXCEPT ![r] = "done"]
          /\ reply' \in [Requests -> Reply]
      BY <2>1, <2>7, FailEffect
    <3>2. ChatTypeOK'
      BY <3>1, <2>2, <2>4, <2>5
    <3>3. Located'
      <4>1. \A q \in Requests : pc'[q] \in Active => pc[q] \in Active /\ conv'[q] = conv[q]
        BY <3>1
      <4> QED
        BY <4>1, <2>3, LocatedIsKept
    <3>4. JobsStarted'
      BY <3>1, <2>2 DEF JobsStarted, Settled
    <3> QED
      BY <3>2, <3>3, <3>4
  <2> QED
    BY <2>6, <2>7
<1>4. ASSUME NEW r \in Requests, ReadFails(r) PROVE TypeInv'
  <2>1. ChatTypeOK'
    BY <1>4 DEF ReadFails, Fault, Fail, ReplyWith, Goto, Reply, StoreTypeOK, storeVars
  <2>2. Located' /\ JobsStarted'
    BY <1>4 DEF ReadFails, Fail, ReplyWith, Goto, Located, JobsStarted, Settled, storeVars
  <2> QED
    BY <2>1, <2>2
<1>5. ASSUME NEW r \in Requests, RecordQuestion(r) PROVE TypeInv'
  <2>1. PICK o \in Outcome :
            /\ CreateMessage(UserRow(r), o)
            /\ Fault(o)
            /\ IF o = "stored" THEN Goto(r, "recorded") /\ UNCHANGED reply ELSE Fail(r)
    BY <1>5 DEF RecordQuestion
  <2>2. pc[r] = "resolved" /\ UNCHANGED <<conv, history, job, toolCalls, responses, crashes>>
    BY <1>5 DEF RecordQuestion
  <2>3. UserRow(r) \in Row
    BY <2>2, RowTypes DEF Located
  <2>4. StoreTypeOK' /\ owner' = owner
    BY <2>1, <2>3, CreateMessageRows DEF StoreTypeOK
  <2>5. faults' \in 0..MaxFaults
    BY <2>1 DEF Fault
  <2>6. /\ reply' \in [Requests -> Reply]
        /\ pc' \in {[pc EXCEPT ![r] = "recorded"], [pc EXCEPT ![r] = "done"]}
    BY <2>1, FailEffect DEF Goto
  <2>7. ChatTypeOK'
    BY <2>2, <2>4, <2>5, <2>6
  <2>8. Located' /\ JobsStarted'
    BY <2>2, <2>4, <2>6 DEF Located, JobsStarted, Settled
  <2> QED
    BY <2>7, <2>8
<1>6. ASSUME NEW r \in Requests, AskProviders(r) PROVE TypeInv'
  <2>1. RecentMessages(conv[r], HistoryLimit) \in SUBSET Nat
    BY RecentMessagesOfConversation DEF Ids, StoreTypeOK
  <2>2. ChatTypeOK'
    BY <1>6, <2>1 DEF AskProviders, Goto, StoreTypeOK, JobState, storeVars
  <2>3. Located' /\ JobsStarted'
    BY <1>6 DEF AskProviders, Goto, Located, JobsStarted, Settled, storeVars
  <2> QED
    BY <2>2, <2>3
<1>a. ASSUME NEW r \in Requests, NEW p \in Configured,
             NEW s \in {"body", "tools", "second", "fulfilled", "rejected"}, NEW t \in Nat,
             job[r][p] \notin Settled \cup {"none"},
             SetJob(r, p, s),
             SetToolCalls(r, p, t),
             s = "tools" => t >= 1,
             UNCHANGED <<storeVars, pc, conv, history, responses, reply, faults, crashes>>
      PROVE  TypeInv'
  <2>1. /\ job' \in [Requests -> [Providers -> JobState]]
        /\ toolCalls' \in [Requests -> [Providers -> Nat]]
        /\ JobsStarted'
    <3>1. ChatTypeOK /\ JobsStarted /\ pc' = pc
      BY <1>a
    <3> HIDE DEF TypeInv, ChatTypeOK
    <3> QED
      BY <1>a, <3>1, JobStep
  <2>2. ChatTypeOK'
    BY <1>a, <2>1 DEF StoreTypeOK, storeVars
  <2>3. Located'
    BY <1>a DEF Located, storeVars
  <2> QED
    BY <2>1, <2>2, <2>3
<1>b. \A r \in Requests, p \in Configured :
        /\ toolCalls[r][p] \in Nat
        /\ toolCalls' = toolCalls => SetToolCalls(r, p, toolCalls[r][p])
  BY DEF Configured, SetToolCalls
<1>7. ASSUME NEW r \in Requests, NEW p \in Configured, JobFails(r, p) PROVE TypeInv'
  <2>1. /\ job[r][p] \notin Settled \cup {"none"} /\ SetJob(r, p, "rejected")
        /\ toolCalls' = toolCalls
        /\ UNCHANGED <<storeVars, pc, conv, history, responses, reply, faults, crashes>>
    BY <1>7 DEF JobFails, Settled
  <2> QED
    BY <1>a, <1>b, <2>1
<1>8. ASSUME NEW r \in Requests, NEW p \in Configured, ReceiveHeaders(r, p) PROVE TypeInv'
  <2>1. /\ job[r][p] \notin Settled \cup {"none"} /\ SetJob(r, p, "body")
        /\ toolCalls' = toolCalls
        /\ UNCHANGED <<storeVars, pc, conv, history, responses, reply, faults, crashes>>
    BY <1>8 DEF ReceiveHeaders, Settled
  <2> QED
    BY <1>a, <1>b, <2>1
<1>9. ASSUME NEW r \in Requests, NEW p \in Configured, JobAnswers(r, p) PROVE TypeInv'
  <2>1. /\ job[r][p] \notin Settled \cup {"none"} /\ SetJob(r, p, "fulfilled")
        /\ toolCalls' = toolCalls
        /\ UNCHANGED <<storeVars, pc, conv, history, responses, reply, faults, crashes>>
    BY <1>9 DEF JobAnswers, Settled
  <2> QED
    BY <1>a, <1>b, <2>1
<1>10. ASSUME NEW r \in Requests, NEW p \in Configured, RequestTools(r, p) PROVE TypeInv'
  <2>1. PICK n \in 1..MaxToolCalls : SetToolCalls(r, p, n)
    BY <1>10 DEF RequestTools, SetToolCalls
  <2>2. n \in Nat /\ n >= 1
    OBVIOUS
  <2>3. /\ job[r][p] \notin Settled \cup {"none"} /\ SetJob(r, p, "tools")
        /\ UNCHANGED <<storeVars, pc, conv, history, responses, reply, faults, crashes>>
    BY <1>10 DEF RequestTools, Settled
  <2> QED
    BY <1>a, <2>1, <2>2, <2>3
<1>11. ASSUME NEW r \in Requests, NEW p \in Configured, ExecuteToolCall(r, p) PROVE TypeInv'
  <2>1. PICK o \in Outcome :
            /\ CreateMessage(ToolRow(r, p), o)
            /\ Fault(o)
            /\ SetJob(r, p, CASE o # "stored" -> "rejected"
                              [] o = "stored" /\ toolCalls[r][p] > 1 -> "tools"
                              [] OTHER -> "second")
    BY <1>11 DEF ExecuteToolCall
  <2>2. /\ job[r][p] = "tools"
        /\ toolCalls' = [toolCalls EXCEPT ![r][p] = @ - 1]
        /\ UNCHANGED <<pc, conv, history, responses, reply, crashes>>
    BY <1>11 DEF ExecuteToolCall
  <2>3. p \in Providers
    BY DEF Configured
  <2>4. pc[r] = "asking"
    BY <1>11, <2>2, <2>3 DEF ExecuteToolCall, Alive, JobsStarted, Settled
  <2>5. ToolRow(r, p) \in Row
    BY <2>3, <2>4, RowTypes DEF Located
  <2>6. StoreTypeOK' /\ owner' = owner
    BY <2>1, <2>5, CreateMessageRows DEF StoreTypeOK
  <2>7. faults' \in 0..MaxFaults
    BY <2>1 DEF Fault
  <2>8. PICK s \in {"rejected", "tools", "second"} :
            /\ job' = [job EXCEPT ![r][p] = s]
            /\ s = "tools" => toolCalls[r][p] > 1
    BY <2>1 DEF SetJob
  <2>9. /\ job' \in [Requests -> [Providers -> JobState]]
        /\ toolCalls' \in [Requests -> [Providers -> Nat]]
        /\ JobsStarted'
    <3> DEFINE t == toolCalls[r][p] - 1
    <3>1. t \in Nat /\ (s = "tools" => t >= 1)
      BY <2>2, <2>3, <2>8 DEF JobsStarted
    <3>2. ChatTypeOK /\ JobsStarted /\ pc' = pc
      BY <2>2
    <3>3. SetToolCalls(r, p, t)
      BY <2>2 DEF SetToolCalls
    <3>4. SetJob(r, p, s) /\ job[r][p] \notin Settled \cup {"none"}
      BY <2>2, <2>8 DEF SetJob, Settled
    <3> HIDE DEF TypeInv, ChatTypeOK, t
    <3> QED
      BY <2>8, <3>1, <3>2, <3>3, <3>4, JobStep
  <2>10. ChatTypeOK'
    BY <2>2, <2>6, <2>7, <2>9
  <2>11. Located'
    BY <2>2, <2>6 DEF Located
  <2> QED
    BY <2>9, <2>10, <2>11
<1>12. ASSUME NEW r \in Requests, AllSettled(r) PROVE TypeInv'
  <2>1. ChatTypeOK'
    BY <1>12 DEF AllSettled, Goto, StoreTypeOK, storeVars
  <2>2. Located'
    BY <1>12 DEF AllSettled, Goto, Located, storeVars
  <2>3. JobsStarted'
    BY <1>12 DEF AllSettled, Goto, JobsStarted, Settled
  <2> QED
    BY <2>1, <2>2, <2>3
<1>13. ASSUME NEW r \in Requests, PersistAssistantMessageSafely(r) PROVE TypeInv'
  <2> DEFINE k == Len(responses[r]) + 1
             p == Registry[k]
             st == JobStatus(r, p)
             entry(o) == [provider |-> p, status |-> st,
                          persistence |-> IF o = "stored" THEN "persisted" ELSE "failed",
                          row |-> IF o = "stored" THEN Len(messages) + 1 ELSE 0]
  <2>1. PICK o \in Outcome :
            /\ CreateMessage(AnswerRow(r, p, st), o)
            /\ Fault(o)
            /\ responses' = [responses EXCEPT ![r] = Append(@, entry(o))]
    BY <1>13 DEF PersistAssistantMessageSafely
  <2>2. /\ pc[r] = "saving"
        /\ k <= Len(Registry)
        /\ UNCHANGED <<pc, conv, history, job, toolCalls, reply, crashes>>
    BY <1>13 DEF PersistAssistantMessageSafely
  <2>3. p \in Providers /\ st \in {"success", "failed"}
    BY <2>2 DEF JobStatus
  <2>4. AnswerRow(r, p, st) \in Row
    BY <2>2, <2>3, RowTypes DEF Located
  <2>5. StoreTypeOK' /\ owner' = owner
    BY <2>1, <2>4, CreateMessageRows DEF StoreTypeOK
  <2>6. faults' \in 0..MaxFaults
    BY <2>1 DEF Fault
  <2>7. entry(o) \in Response
    BY <2>3 DEF Response, StoreTypeOK
  <2>8. responses' \in [Requests -> Seq(Response)]
    BY <2>1, <2>7
  <2>9. Located' /\ JobsStarted'
    BY <2>2, <2>5 DEF Located, JobsStarted, Settled
  <2> QED
    BY <2>2, <2>5, <2>6, <2>8, <2>9
<1>14. ASSUME NEW r \in Requests, SendReply(r) PROVE TypeInv'
  <2> DEFINE st == SummarizeProviderResponses(responses[r])
             p == SelectCompatibilityResponse(responses[r])
  <2>1. st \in {"success", "partial_success", "failed"}
    BY DEF SummarizeProviderResponses
  <2>2. p \in Providers \cup {NoProvider}
    BY CompatibilityType
  <2>3. /\ pc' = [pc EXCEPT ![r] = "done"]
        /\ reply' = [reply EXCEPT ![r] = [status |-> st, provider |-> p]]
        /\ UNCHANGED <<storeVars, conv, history, job, toolCalls, responses, faults, crashes>>
        /\ pc[r] = "saving"
    BY <1>14 DEF SendReply, ReplyWith, Goto
  <2>4. [status |-> st, provider |-> p] \in Reply
    BY <2>1, <2>2 DEF Reply
  <2>5. ChatTypeOK'
    BY <2>3, <2>4 DEF StoreTypeOK, storeVars
  <2>6. Located' /\ JobsStarted'
    BY <2>3 DEF Located, JobsStarted, Settled, storeVars
  <2> QED
    BY <2>5, <2>6
<1>15. ASSUME Crash PROVE TypeInv'
  <2>1. ChatTypeOK'
    BY <1>15 DEF Crash, StoreTypeOK, storeVars
  <2>2. Located' /\ JobsStarted'
    BY <1>15 DEF Crash, Located, JobsStarted, Settled, storeVars
  <2> QED
    BY <2>1, <2>2
<1>16. CASE UNCHANGED vars
  BY <1>16 DEF vars, storeVars, requestVars, Located, JobsStarted, StoreTypeOK, Settled
<1> QED
  BY <1>1, <1>2, <1>3, <1>4, <1>5, <1>6, <1>7, <1>8, <1>9, <1>10, <1>11, <1>12, <1>13,
     <1>14, <1>15, <1>16 DEF Next, Work

\* Every state of POST /chat has the types of ChatTypeOK, and a request in
\* flight has a conversation of its own user.
THEOREM TypeCorrect == Spec => []ChatTypeOK
<1>1. TypeInv => ChatTypeOK
  BY DEF TypeInv
<1> QED
  BY <1>1, TypeInvInitially, TypeInvPreserved, PTL DEF Spec
-----------------------------------------------------------------------------
(***************************************************************************)
(* What a step does to the rows: the one place where the actions are       *)
(* looked at; every invariant about rows follows from these three lemmas.  *)
(***************************************************************************)

\* The row a request writes, and where in its handler it writes it.
WrittenBy(r, row) ==
    /\ row \in Row
    /\ row.req = r
    /\ row.user = UserOf[r]
    /\ row.conv = conv[r]
    /\ \/ /\ row.role = "user"
          /\ row.provider = NoProvider
          /\ pc[r] = "resolved" /\ pc'[r] \in {"recorded", "done"}
       \/ row.role = "tool" /\ pc[r] = "asking"
       \/ /\ row.role = "assistant"
          /\ pc[r] = "saving"
          /\ row.provider \in Providers
          /\ row.provider = Registry[Len(responses[r]) + 1]
          /\ row.status = JobStatus(r, row.provider)
          /\ Len(responses'[r]) = Len(responses[r]) + 1
          /\ row.status = "success" => job[r][row.provider] = "fulfilled"

RowStep ==
    \/ messages' = messages
    \/ \E r \in Requests : \E row \in Row :
        WrittenBy(r, row) /\ messages' = Append(messages, row)

\* Who writes rows, and what is in them.
LEMMA StepWritesRows == TypeInv /\ [Next]_vars => RowStep
<1> SUFFICES ASSUME TypeInv, [Next]_vars PROVE RowStep
  OBVIOUS
<1>1. ASSUME NEW r \in Requests, RecordQuestion(r) PROVE RowStep
  <2>1. PICK o \in Outcome : CreateMessage(UserRow(r), o)
    BY <1>1 DEF RecordQuestion
  <2>2. pc[r] = "resolved"
    BY <1>1 DEF RecordQuestion
  <2>3. UserRow(r) \in Row
    BY <2>2, RowTypes, ChatAssumption DEF TypeInv, Located, Active
  <2>4. pc'[r] \in {"recorded", "done"}
    BY <1>1 DEF RecordQuestion, Fail, ReplyWith, Goto, TypeInv, ChatTypeOK
  <2>5. WrittenBy(r, UserRow(r))
    BY <2>2, <2>3, <2>4 DEF WrittenBy, UserRow
  <2> QED
    BY <2>1, <2>3, <2>5 DEF CreateMessage, RowStep
<1>2. ASSUME NEW r \in Requests, NEW p \in Configured, ExecuteToolCall(r, p) PROVE RowStep
  <2>1. PICK o \in Outcome : CreateMessage(ToolRow(r, p), o)
    BY <1>2 DEF ExecuteToolCall
  <2>2. p \in Providers
    BY ChatAssumption DEF Configured, ChatAssumption
  <2>3. pc[r] = "asking"
    BY <1>2, <2>2 DEF ExecuteToolCall, Alive, TypeInv, JobsStarted, Settled
  <2>4. ToolRow(r, p) \in Row
    BY <2>2, <2>3, RowTypes, ChatAssumption DEF TypeInv, Located, Active
  <2>5. WrittenBy(r, ToolRow(r, p))
    BY <2>3, <2>4 DEF WrittenBy, ToolRow
  <2> QED
    BY <2>1, <2>4, <2>5 DEF CreateMessage, RowStep
<1>3. ASSUME NEW r \in Requests, PersistAssistantMessageSafely(r) PROVE RowStep
  <2> DEFINE k == Len(responses[r]) + 1
             p == Registry[k]
             st == JobStatus(r, p)
  <2>1. PICK o \in Outcome : CreateMessage(AnswerRow(r, p, st), o)
    BY <1>3 DEF PersistAssistantMessageSafely
  <2>2. pc[r] = "saving" /\ k <= Len(Registry)
    BY <1>3 DEF PersistAssistantMessageSafely
  <2>3. k \in 1..Len(Registry)
    BY <2>2, ChatAssumption DEF TypeInv, ChatTypeOK, ChatAssumption
  <2>4. p \in Providers /\ st \in {"success", "failed"}
    BY <2>3, ChatAssumption DEF JobStatus, ChatAssumption
  <2>5. AnswerRow(r, p, st) \in Row
    BY <2>2, <2>4, RowTypes, ChatAssumption DEF TypeInv, Located, Active
  <2>6. Len(responses'[r]) = k
    <3>1. \E e : responses' = [responses EXCEPT ![r] = Append(@, e)]
      BY <1>3 DEF PersistAssistantMessageSafely
    <3> QED
      BY <3>1 DEF TypeInv, ChatTypeOK
  <2>7. WrittenBy(r, AnswerRow(r, p, st))
    BY <2>2, <2>4, <2>5, <2>6 DEF WrittenBy, AnswerRow, JobStatus
  <2> QED
    BY <2>1, <2>5, <2>7 DEF CreateMessage, RowStep
<1>4. ASSUME NEW r \in Requests, StartConversation(r) PROVE RowStep
  BY <1>4 DEF StartConversation, CreateConversation, storeVars, RowStep
<1>5. ASSUME NEW r \in Requests,
             \/ Refuse(r) \/ ReuseConversation(r) \/ ReadFails(r) \/ AskProviders(r)
             \/ AllSettled(r) \/ SendReply(r)
      PROVE  RowStep
  BY <1>5 DEF Refuse, ReuseConversation, ReadFails, AskProviders, AllSettled, SendReply,
              storeVars, RowStep
<1>6. ASSUME NEW r \in Requests, NEW p \in Configured,
             JobFails(r, p) \/ ReceiveHeaders(r, p) \/ JobAnswers(r, p) \/ RequestTools(r, p)
      PROVE  RowStep
  BY <1>6 DEF JobFails, ReceiveHeaders, JobAnswers, RequestTools, storeVars, RowStep
<1>7. CASE Crash \/ UNCHANGED vars
  BY <1>7 DEF Crash, vars, storeVars, RowStep
<1> QED
  BY <1>1, <1>2, <1>3, <1>4, <1>5, <1>6, <1>7 DEF Next, Work

\* No conversation changes hands.
OwnersKept == \A c \in Conversations : owner[c] # Nobody => owner'[c] = owner[c]

\* A conversation never changes hands.
LEMMA StepKeepsOwners == TypeInv /\ [Next]_vars => OwnersKept
<1> SUFFICES ASSUME TypeInv, [Next]_vars PROVE OwnersKept
  OBVIOUS
<1>1. ASSUME NEW r \in Requests, StartConversation(r) PROVE OwnersKept
  <2>1. PICK c \in Conversations, o \in Outcome : CreateConversation(c, UserOf[r], o)
    BY <1>1 DEF StartConversation
  <2> QED
    BY <2>1, CreateConversationOwner, ChatAssumption
       DEF OwnersKept, TypeInv, ChatTypeOK, ChatAssumption
<1>2. ASSUME NEW r \in Requests,
             \/ Refuse(r) \/ ReuseConversation(r) \/ ReadFails(r) \/ AskProviders(r)
             \/ AllSettled(r) \/ SendReply(r) \/ RecordQuestion(r)
             \/ PersistAssistantMessageSafely(r)
      PROVE  owner' = owner
  BY <1>2 DEF Refuse, ReuseConversation, ReadFails, AskProviders, AllSettled, SendReply,
              RecordQuestion, PersistAssistantMessageSafely, CreateMessage, storeVars
<1>3. ASSUME NEW r \in Requests, NEW p \in Configured,
             \/ JobFails(r, p) \/ ReceiveHeaders(r, p) \/ JobAnswers(r, p)
             \/ RequestTools(r, p) \/ ExecuteToolCall(r, p)
      PROVE  owner' = owner
  BY <1>3 DEF JobFails, ReceiveHeaders, JobAnswers, RequestTools, ExecuteToolCall,
              CreateMessage, storeVars
<1>4. CASE Crash \/ UNCHANGED vars
  BY <1>4 DEF Crash, vars, storeVars, OwnersKept
<1> QED
  BY <1>1, <1>2, <1>3, <1>4 DEF Next, Work, OwnersKept

\* A request past its provider jobs.
Late == {"saving", "done", "crashed"}

\* A request never goes back before its providers, an answer given stays
\* given, and the history is read in one step and then kept.
Progress ==
    /\ \A r \in Requests : pc[r] \in Late => pc'[r] \in Late
    /\ \A r \in Requests, p \in Providers :
            job[r][p] = "fulfilled" => job'[r][p] = "fulfilled"
    /\ \A r \in Requests : pc'[r] = "asking" =>
            \/ pc[r] = "asking" /\ history'[r] = history[r] /\ conv'[r] = conv[r]
            \/ /\ pc[r] = "recorded"
               /\ history'[r] = RecentMessages(conv[r], HistoryLimit)
               /\ conv'[r] = conv[r]
               /\ messages' = messages

\* What a request has reached, it does not lose.
LEMMA StepProgresses == TypeInv /\ [Next]_vars => Progress
<1> SUFFICES ASSUME TypeInv, [Next]_vars PROVE Progress
  OBVIOUS
<1> USE DEF TypeInv, ChatTypeOK, Late, Progress
<1>1. ASSUME NEW r \in Requests,
             \/ Refuse(r) \/ ReuseConversation(r) \/ StartConversation(r) \/ ReadFails(r)
             \/ RecordQuestion(r) \/ AllSettled(r) \/ PersistAssistantMessageSafely(r)
             \/ SendReply(r)
      PROVE  Progress
  <2>1. /\ \/ pc' = pc
           \/ \E place \in {"resolved", "recorded", "saving", "done"} :
                /\ pc' = [pc EXCEPT ![r] = place]
                /\ pc[r] \in Late => place \in Late
        /\ job' = job
        /\ history' = history
    BY <1>1 DEF Refuse, ReuseConversation, StartConversation, ReadFails, RecordQuestion,
                AllSettled, PersistAssistantMessageSafely, SendReply, Fail, ReplyWith, Goto
  <2>2. pc[r] = "asking" /\ pc'[r] = "asking" => FALSE
    BY <1>1 DEF Refuse, ReuseConversation, StartConversation, ReadFails, RecordQuestion,
                AllSettled, PersistAssistantMessageSafely, SendReply, Fail, ReplyWith, Goto
  <2>3. conv' = conv \/ \E c : conv' = [conv EXCEPT ![r] = c]
    BY <1>1 DEF Refuse, ReuseConversation, StartConversation, ReadFails, RecordQuestion,
                AllSettled, PersistAssistantMessageSafely, SendReply
  <2> QED
    BY <2>1, <2>2, <2>3
<1>2. ASSUME NEW r \in Requests, AskProviders(r) PROVE Progress
  <2>1. \A p \in Providers : job[r][p] = "none"
    BY <1>2 DEF AskProviders, JobsStarted
  <2> QED
    BY <1>2, <2>1 DEF AskProviders, Goto, storeVars
<1>3. ASSUME NEW r \in Requests, NEW p \in Configured,
             \/ JobFails(r, p) \/ ReceiveHeaders(r, p) \/ JobAnswers(r, p)
             \/ RequestTools(r, p) \/ ExecuteToolCall(r, p)
      PROVE  Progress
  <2>1. /\ UNCHANGED <<pc, history, conv>>
        /\ job[r][p] # "fulfilled"
        /\ \E s : job' = [job EXCEPT ![r][p] = s]
    BY <1>3 DEF JobFails, ReceiveHeaders, JobAnswers, RequestTools, ExecuteToolCall, SetJob
  <2> QED
    BY <2>1
<1>4. CASE Crash
  BY <1>4 DEF Crash, Active
<1>5. CASE UNCHANGED vars
  BY <1>5 DEF vars, requestVars
<1> QED
  BY <1>1, <1>2, <1>3, <1>4, <1>5 DEF Next, Work
-----------------------------------------------------------------------------
(***************************************************************************)
(* Separation of users, and what the providers are told.                   *)
(***************************************************************************)

\* A row belongs to the owner of its conversation; an answer was stored by a
\* request past its providers, as a success only if the provider answered.
RowsOwned == \A i \in Ids :
    /\ messages[i].user = owner[messages[i].conv]
    /\ messages[i].role = "assistant" =>
        /\ pc[messages[i].req] \in Late
        /\ messages[i].provider \in Providers
        /\ messages[i].status = "success" =>
                job[messages[i].req][messages[i].provider] = "fulfilled"

\* A history holds rows of the conversation it was read for.
HistoryLocated == \A r \in Requests : pc[r] = "asking" =>
    \A i \in history[r] : i \in Ids /\ messages[i].conv = conv[r]

SeparationInv == TypeInv /\ RowsOwned /\ HistoryLocated

\* There is no row yet.
LEMMA SeparationInvInitially == ChatInit => SeparationInv
<1> SUFFICES ASSUME ChatInit PROVE SeparationInv
  OBVIOUS
<1>1. TypeInv
  BY TypeInvInitially
<1>2. Ids = {}
  BY DEF ChatInit, StoreInit, Ids
<1> QED
  BY <1>1, <1>2 DEF SeparationInv, RowsOwned, HistoryLocated, ChatInit

\* A step adds a row of the right owner, or none.
LEMMA SeparationInvPreserved == SeparationInv /\ [Next]_vars => SeparationInv'
<1> SUFFICES ASSUME SeparationInv, [Next]_vars PROVE SeparationInv'
  OBVIOUS
<1>1. TypeInv /\ TypeInv'
  BY TypeInvPreserved DEF SeparationInv
<1>2. RowStep /\ OwnersKept /\ Progress
  BY <1>1, StepWritesRows, StepKeepsOwners, StepProgresses
<1>3. messages \in Seq(Row) /\ messages' \in Seq(Row)
  BY <1>1 DEF TypeInv, ChatTypeOK, StoreTypeOK
<1>4. /\ Ids \subseteq Ids'
      /\ \A i \in Ids : messages'[i] = messages[i]
      /\ \A i \in Ids' : i \in Ids \/ \E r \in Requests : WrittenBy(r, messages'[i])
  BY <1>2, <1>3 DEF RowStep, Ids
<1>5. RowsOwned'
  <2> SUFFICES ASSUME NEW i \in Ids'
               PROVE  /\ messages'[i].user = owner'[messages'[i].conv]
                      /\ messages'[i].role = "assistant" =>
                            /\ pc'[messages'[i].req] \in Late
                            /\ messages'[i].provider \in Providers
                            /\ messages'[i].status = "success" =>
                                job'[messages'[i].req][messages'[i].provider] = "fulfilled"
    BY DEF RowsOwned
  <2>1. messages'[i] \in Row
    BY <1>3 DEF Ids
  <2>2. CASE i \in Ids
    <3>1. messages'[i] = messages[i] /\ messages[i] \in Row
      BY <1>4, <2>1, <2>2
    <3>2. messages[i].user = owner[messages[i].conv] /\ messages[i].user # Nobody
      BY <2>2, <3>1, StoreAssumption DEF SeparationInv, RowsOwned, StoreAssumption, Row
    <3>3. owner'[messages[i].conv] = owner[messages[i].conv]
      BY <1>2, <3>1, <3>2 DEF OwnersKept, Row
    <3> QED
      BY <1>2, <2>2, <3>1, <3>2, <3>3 DEF SeparationInv, RowsOwned, Progress, Row
  <2>3. CASE i \notin Ids
    <3>1. PICK r \in Requests : WrittenBy(r, messages'[i])
      BY <1>4, <2>3
    <3>2. pc[r] \in Active
      BY <3>1 DEF WrittenBy, Active
    <3>3. conv[r] \in Conversations /\ owner[conv[r]] = UserOf[r] /\ UserOf[r] # Nobody
      BY <1>1, <3>2, StoreAssumption, ChatAssumption
         DEF TypeInv, Located, StoreAssumption, ChatAssumption
    <3>4. owner'[conv[r]] = owner[conv[r]]
      BY <1>2, <3>3 DEF OwnersKept
    <3> QED
      BY <1>2, <3>1, <3>3, <3>4 DEF WrittenBy, Progress, Late
  <2> QED
    BY <2>2, <2>3
<1>6. HistoryLocated'
  <2> SUFFICES ASSUME NEW r \in Requests, pc'[r] = "asking", NEW i \in history'[r]
               PROVE  i \in Ids' /\ messages'[i].conv = conv'[r]
    BY DEF HistoryLocated
  <2>1. CASE pc[r] = "asking" /\ history'[r] = history[r] /\ conv'[r] = conv[r]
    BY <1>4, <2>1 DEF SeparationInv, HistoryLocated
  <2>2. CASE /\ history'[r] = RecentMessages(conv[r], HistoryLimit)
             /\ conv'[r] = conv[r]
             /\ messages' = messages
    <3>1. i \in Ids /\ messages[i].conv = conv[r]
      BY <2>2, RecentMessagesOfConversation
    <3> QED
      BY <1>4, <2>2, <3>1
  <2> QED
    BY <1>2, <2>1, <2>2 DEF Progress
<1> QED
  BY <1>1, <1>5, <1>6 DEF SeparationInv

\* Conversations are kept apart by user, for any number of users, requests
\* and conversation ids, and whatever id a request names.
THEOREM Separation == Spec => []ConversationsAreSeparate
<1>1. SeparationInv => ConversationsAreSeparate
  BY DEF SeparationInv, TypeInv, Located, RowsOwned, ConversationsAreSeparate
<1> QED
  BY <1>1, SeparationInvInitially, SeparationInvPreserved, PTL DEF Spec

\* A provider is told only what the user of the request said in that
\* conversation, and only answers it gave itself and gave successfully.
THEOREM PromptIsolation == Spec => []PromptIsOwnAndSuccessful
<1>1. SeparationInv => PromptIsOwnAndSuccessful
  <2> SUFFICES ASSUME SeparationInv,
                      NEW r \in Requests, pc[r] = "asking",
                      NEW p \in Configured, NEW i \in Prompt(r, p)
               PROVE  /\ messages[i].conv = conv[r]
                      /\ messages[i].user = UserOf[r]
                      /\ \/ messages[i].role = "user"
                         \/ /\ messages[i].role = "assistant"
                            /\ messages[i].provider = p
                            /\ job[messages[i].req][p] = "fulfilled"
    BY DEF PromptIsOwnAndSuccessful
  <2>1. i \in history[r] /\ ForProvider(messages[i], p)
    BY NewestIsSubset DEF Prompt, BuildProviderHistory
  <2>2. i \in Ids /\ messages[i].conv = conv[r]
    BY <2>1 DEF SeparationInv, HistoryLocated
  <2>3. messages[i].user = owner[conv[r]]
    BY <2>2 DEF SeparationInv, RowsOwned
  <2>4. owner[conv[r]] = UserOf[r]
    BY DEF SeparationInv, TypeInv, Located, Active
  <2> QED
    BY <2>1, <2>2, <2>3, <2>4 DEF ForProvider, SeparationInv, RowsOwned
<1> QED
  BY <1>1, SeparationInvInitially, SeparationInvPreserved, PTL DEF Spec
-----------------------------------------------------------------------------
(***************************************************************************)
(* How a request moves: the second place where the actions are looked at.  *)
(* What follows about questions, answers and replies rests on StepMoves    *)
(* and StepWritesRows alone.                                               *)
(***************************************************************************)

Verdicts == {"success", "partial_success", "failed"}
Errors == {"refused", "error"}
Before == {"idle", "resolved", "recorded"}

\* What a step leaves to a request that does not move: a job that is over
\* stays as it is.
Rests(q) ==
    /\ pc'[q] = pc[q]
    /\ conv'[q] = conv[q]
    /\ responses'[q] = responses[q]
    /\ reply'[q] = reply[q]
    /\ \A p \in Providers : job[q][p] \in Settled => job'[q][p] = job[q][p]

\* Its conversation is found, or its question kept, or its providers asked,
\* or their answers are all there.
Advances(q) ==
    /\ responses'[q] = responses[q]
    /\ reply'[q] = reply[q]
    /\ \/ pc[q] = "idle" /\ pc'[q] = "resolved"
       \/ /\ pc[q] = "resolved" /\ pc'[q] = "recorded"
          /\ conv'[q] = conv[q]
          /\ messages' = Append(messages, UserRow(q))
       \/ /\ pc[q] = "recorded" /\ pc'[q] = "asking"
          /\ conv'[q] = conv[q]
          /\ messages' = messages
       \/ /\ pc[q] = "asking" /\ pc'[q] = "saving"
          /\ conv'[q] = conv[q]
          /\ job'[q] = job[q]
          /\ \A p \in Configured : job[q][p] \in Settled

\* It is over before its providers were asked.
EndsEarly(q) ==
    /\ pc[q] \in Before /\ pc'[q] = "done"
    /\ conv'[q] = conv[q]
    /\ responses'[q] = responses[q]
    /\ reply'[q].status \in Errors

\* The next answer is kept, or reported as not kept.
KeepsAnswer(q) ==
    LET k == Len(responses[q]) + 1
        s == JobStatus(q, Registry[k])
    IN  /\ pc[q] = "saving" /\ pc'[q] = "saving"
        /\ conv'[q] = conv[q]
        /\ job'[q] = job[q]
        /\ reply'[q] = reply[q]
        /\ k <= Len(Registry)
        /\ \E e \in Response :
            /\ responses'[q] = Append(responses[q], e)
            /\ e.provider = Registry[k]
            /\ e.status = s
            /\ e.persistence = "persisted" =>
                /\ e.row = Len(messages) + 1
                /\ messages' = Append(messages, AnswerRow(q, Registry[k], s))

Concludes(q) ==
    /\ pc[q] = "saving" /\ pc'[q] = "done"
    /\ conv'[q] = conv[q]
    /\ job'[q] = job[q]
    /\ responses'[q] = responses[q]
    /\ Len(responses[q]) = Len(Registry)
    /\ reply'[q] = [status |-> SummarizeProviderResponses(responses[q]),
                    provider |-> SelectCompatibilityResponse(responses[q])]

Dies(q) ==
    /\ pc[q] \in Active /\ pc'[q] = "crashed"
    /\ conv'[q] = conv[q]
    /\ job'[q] = job[q]
    /\ responses'[q] = responses[q]
    /\ reply'[q] = reply[q]

Moves(q) == Rests(q) \/ Advances(q) \/ EndsEarly(q) \/ KeepsAnswer(q) \/ Concludes(q) \/ Dies(q)

\* Every step moves every request in one of these ways.
LEMMA StepMoves == TypeInv /\ [Next]_vars => \A q \in Requests : Moves(q)
<1> SUFFICES ASSUME TypeInv, [Next]_vars, NEW q \in Requests PROVE Moves(q)
  OBVIOUS
<1> USE DEF TypeInv, ChatTypeOK
<1>1. ASSUME NEW r \in Requests,
             \/ Refuse(r) \/ ReuseConversation(r) \/ StartConversation(r) \/ ReadFails(r)
             \/ RecordQuestion(r) \/ AskProviders(r) \/ AllSettled(r)
             \/ PersistAssistantMessageSafely(r) \/ SendReply(r),
             q # r
      PROVE  Rests(q)
  <2>1. /\ \/ pc' = pc
           \/ \E place : pc' = [pc EXCEPT ![r] = place]
        /\ conv' = conv \/ \E c : conv' = [conv EXCEPT ![r] = c]
        /\ responses' = responses \/ \E rs : responses' = [responses EXCEPT ![r] = rs]
        /\ reply' = reply \/ \E a : reply' = [reply EXCEPT ![r] = a]
        /\ job' = job \/ \E js : job' = [job EXCEPT ![r] = js]
    BY <1>1 DEF Refuse, ReuseConversation, StartConversation, ReadFails, RecordQuestion,
                AskProviders, AllSettled, PersistAssistantMessageSafely, SendReply, Fail,
                ReplyWith, Goto
  <2> QED
    BY <1>1, <2>1 DEF Rests
<1>2. CASE Refuse(q) \/ ReadFails(q)
  <2>1. EndsEarly(q)
    BY <1>2 DEF Refuse, ReadFails, Fail, ReplyWith, Goto, EndsEarly, Before, Errors
  <2> QED
    BY <2>1 DEF Moves
<1>3. CASE ReuseConversation(q)
  <2>1. Advances(q)
    BY <1>3 DEF ReuseConversation, Goto, Advances
  <2> QED
    BY <2>1 DEF Moves
<1>4. CASE StartConversation(q)
  <2>1. Advances(q) \/ EndsEarly(q)
    BY <1>4 DEF StartConversation, Fail, ReplyWith, Goto, Advances, EndsEarly, Before, Errors
  <2> QED
    BY <2>1 DEF Moves
<1>5. CASE RecordQuestion(q)
  <2>1. Advances(q) \/ EndsEarly(q)
    BY <1>5 DEF RecordQuestion, CreateMessage, Fail, ReplyWith, Goto, Advances, EndsEarly,
                Before, Errors
  <2> QED
    BY <2>1 DEF Moves
<1>6. CASE AskProviders(q)
  <2>1. Advances(q)
    BY <1>6 DEF AskProviders, Goto, storeVars, Advances
  <2> QED
    BY <2>1 DEF Moves
<1>7. CASE AllSettled(q)
  <2>1. Advances(q)
    BY <1>7 DEF AllSettled, Goto, Advances
  <2> QED
    BY <2>1 DEF Moves
<1>8. CASE PersistAssistantMessageSafely(q)
  <2> DEFINE k == Len(responses[q]) + 1
             p == Registry[k]
             st == JobStatus(q, p)
             entry(o) == [provider |-> p, status |-> st,
                          persistence |-> IF o = "stored" THEN "persisted" ELSE "failed",
                          row |-> IF o = "stored" THEN Len(messages) + 1 ELSE 0]
  <2>1. PICK o \in Outcome :
            /\ CreateMessage(AnswerRow(q, p, st), o)
            /\ responses' = [responses EXCEPT ![q] = Append(@, entry(o))]
    BY <1>8 DEF PersistAssistantMessageSafely
  <2>2. /\ pc[q] = "saving"
        /\ k <= Len(Registry)
        /\ UNCHANGED <<pc, conv, history, job, toolCalls, reply, crashes>>
    BY <1>8 DEF PersistAssistantMessageSafely
  <2>3. k \in 1..Len(Registry)
    BY <2>2, ChatAssumption DEF ChatAssumption
  <2>4. p \in Providers /\ st \in {"success", "failed"}
    BY <2>3, ChatAssumption DEF JobStatus, ChatAssumption
  <2>5. entry(o) \in Response
    BY <2>4 DEF Response, StoreTypeOK
  <2>6. responses'[q] = Append(responses[q], entry(o))
    BY <2>1
  <2>7. o = "stored" => messages' = Append(messages, AnswerRow(q, p, st))
    BY <2>1 DEF CreateMessage
  <2>8. entry(o).persistence = "persisted" => o = "stored"
    OBVIOUS
  <2>9. KeepsAnswer(q)
    <3> HIDE DEF st
    <3> QED
      BY <2>2, <2>5, <2>6, <2>7, <2>8 DEF KeepsAnswer, st
  <2> QED
    BY <2>9 DEF Moves
<1>9. CASE SendReply(q)
  <2>1. Concludes(q)
    BY <1>9 DEF SendReply, ReplyWith, Goto, Concludes
  <2> QED
    BY <2>1 DEF Moves
<1>10. ASSUME NEW r \in Requests, NEW p \in Configured,
              \/ JobFails(r, p) \/ ReceiveHeaders(r, p) \/ JobAnswers(r, p)
              \/ RequestTools(r, p) \/ ExecuteToolCall(r, p)
       PROVE  Moves(q)
  <2>1. /\ UNCHANGED <<pc, conv, responses, reply>>
        /\ job[r][p] \notin Settled
        /\ \E s : job' = [job EXCEPT ![r][p] = s]
    BY <1>10 DEF JobFails, ReceiveHeaders, JobAnswers, RequestTools, ExecuteToolCall, SetJob,
                 Settled
  <2>2. Rests(q)
    BY <2>1 DEF Rests
  <2> QED
    BY <2>2 DEF Moves
<1>11. CASE Crash
  <2>1. Rests(q) \/ Dies(q)
    BY <1>11 DEF Crash, Rests, Dies
  <2> QED
    BY <2>1 DEF Moves
<1>12. CASE UNCHANGED vars
  <2>1. Rests(q)
    BY <1>12 DEF vars, requestVars, Rests
  <2> QED
    BY <2>1 DEF Moves
<1> QED
  BY <1>1, <1>2, <1>3, <1>4, <1>5, <1>6, <1>7, <1>8, <1>9, <1>10, <1>11, <1>12
     DEF Next, Work, Moves
-----------------------------------------------------------------------------
(***************************************************************************)
(* Questions, answers and replies.                                         *)
(***************************************************************************)

\* A request whose question is kept and whose reply is not out.
Asked == {"recorded", "asking", "saving"}

\* A request has its question in its conversation as long as it is at work.
QuestionsKept ==
    /\ \A i \in Ids : messages[i].role = "user" =>
        /\ messages[i].provider = NoProvider
        /\ pc[messages[i].req] \notin {"idle", "resolved"}
        /\ pc[messages[i].req] \in Asked => messages[i].conv = conv[messages[i].req]
    /\ \A r \in Requests : pc[r] \in Asked =>
        \E j \in Ids : /\ messages[j].role = "user"
                       /\ messages[j].req = r
                       /\ messages[j].conv = conv[r]

\* No tool before the providers are asked, and no answer before its turn; it
\* tells what became of the provider.
RowsInTurn ==
    \A i \in Ids :
        /\ messages[i].role = "tool" => pc[messages[i].req] \notin Before
        /\ messages[i].role = "assistant" =>
            /\ \E k \in 1..Len(responses[messages[i].req]) : messages[i].provider = Registry[k]
            /\ messages[i].status = JobStatus(messages[i].req, messages[i].provider)

\* The entries are those of the first providers, in their order, and tell
\* what became of them.
EntriesTrue ==
    \A r \in Requests :
        /\ Len(responses[r]) <= Len(Registry)
        /\ pc[r] \in Before \cup {"asking"} => responses[r] = <<>>
        /\ \A k \in 1..Len(responses[r]) :
            /\ responses[r][k].provider = Registry[k]
            /\ responses[r][k].status = JobStatus(r, Registry[k])
            /\ responses[r][k].persistence = "persisted" =>
                /\ responses[r][k].row \in Ids
                /\ messages[responses[r][k].row] =
                        AnswerRow(r, Registry[k], JobStatus(r, Registry[k]))

\* Answers are stored and replies sent when no job is under way any more.
RepliesTrue ==
    \A r \in Requests :
        /\ pc[r] = "saving" \/ responses[r] # <<>> =>
            \A p \in Configured : job[r][p] \in Settled
        /\ reply[r].status \in Verdicts =>
            /\ pc[r] = "done"
            /\ Len(responses[r]) = Len(Registry)
            /\ reply[r].status = SummarizeProviderResponses(responses[r])
            /\ reply[r].provider = SelectCompatibilityResponse(responses[r])

AnswerInv ==
    /\ TypeInv
    /\ QuestionsKept
    /\ RowsInTurn
    /\ AnswersFollowTheirQuestion
    /\ OneRowPerAnswer
    /\ EntriesTrue
    /\ RepliesTrue

\* There is no row, no entry and no reply yet.
LEMMA AnswerInvInitially == ChatInit => AnswerInv
<1> SUFFICES ASSUME ChatInit PROVE AnswerInv
  OBVIOUS
<1>1. TypeInv
  BY TypeInvInitially
<1>2. Ids = {}
  BY DEF ChatInit, StoreInit, Ids
<1>3. QuestionsKept /\ RowsInTurn /\ AnswersFollowTheirQuestion /\ OneRowPerAnswer
  BY <1>2 DEF ChatInit, QuestionsKept, RowsInTurn, AnswersFollowTheirQuestion,
              OneRowPerAnswer, Asked
<1>4. EntriesTrue /\ RepliesTrue
  BY ChatAssumption DEF ChatInit, EntriesTrue, RepliesTrue, NoReply, Verdicts, ChatAssumption
<1> QED
  BY <1>1, <1>3, <1>4 DEF AnswerInv

\* Rows are only added, at the end and one at a time, by a request at work.
LEMMA RowsGrow ==
    ASSUME TypeInv, [Next]_vars
    PROVE  /\ messages \in Seq(Row) /\ messages' \in Seq(Row)
           /\ Ids \subseteq Ids'
           /\ \A i \in Ids : messages'[i] = messages[i]
           /\ \A i \in Ids' \ Ids :
                /\ i = Len(messages) + 1
                /\ \E r \in Requests : WrittenBy(r, messages'[i])
<1>1. messages \in Seq(Row) /\ messages' \in Seq(Row)
  BY TypeInvPreserved DEF TypeInv, ChatTypeOK, StoreTypeOK
<1>2. RowStep
  BY StepWritesRows
<1> QED
  BY <1>1, <1>2 DEF RowStep, Ids

\* The types of a row and of the request it is of.
LEMMA RowFields ==
    ASSUME messages \in Seq(Row), NEW i \in Ids
    PROVE  /\ messages[i] \in Row
           /\ messages[i].req \in Requests
           /\ messages[i].role \in {"user", "assistant", "tool"}
<1>1. messages[i] \in Row
  BY DEF Ids
<1> QED
  BY <1>1 DEF Row

\* A question stays where its request is, and a request at work has one.
LEMMA QuestionsKeptPreserved == AnswerInv /\ [Next]_vars => QuestionsKept'
<1> SUFFICES ASSUME AnswerInv, [Next]_vars PROVE QuestionsKept'
  OBVIOUS
<1>1. TypeInv
  BY DEF AnswerInv
<1>2. \A q \in Requests : Moves(q)
  BY <1>1, StepMoves
<1>3. /\ messages \in Seq(Row) /\ messages' \in Seq(Row)
      /\ Ids \subseteq Ids'
      /\ \A i \in Ids : messages'[i] = messages[i]
      /\ \A i \in Ids' \ Ids : \E r \in Requests : WrittenBy(r, messages'[i])
  BY <1>1, RowsGrow
<1>4. ASSUME NEW q \in Requests
      PROVE  /\ pc[q] \notin {"idle", "resolved"} => pc'[q] \notin {"idle", "resolved"}
             /\ pc'[q] \in Asked =>
                    \/ pc[q] \in Asked /\ conv'[q] = conv[q]
                    \/ /\ pc[q] = "resolved" /\ pc'[q] = "recorded" /\ conv'[q] = conv[q]
                       /\ messages' = Append(messages, UserRow(q))
  <2>1. Moves(q)
    BY <1>2
  <2> QED
    BY <2>1 DEF Moves, Rests, Advances, EndsEarly, KeepsAnswer, Concludes, Dies, Asked, Before
<1>5. ASSUME NEW i \in Ids', messages'[i].role = "user"
      PROVE  /\ messages'[i].provider = NoProvider
             /\ pc'[messages'[i].req] \notin {"idle", "resolved"}
             /\ pc'[messages'[i].req] \in Asked => messages'[i].conv = conv'[messages'[i].req]
  <2>1. CASE i \in Ids
    <3> DEFINE q == messages[i].req
    <3>1. messages'[i] = messages[i] /\ q \in Requests
      BY <1>3, <2>1, RowFields
    <3>2. /\ messages[i].provider = NoProvider
          /\ pc[q] \notin {"idle", "resolved"}
          /\ pc[q] \in Asked => messages[i].conv = conv[q]
      BY <1>5, <2>1, <3>1 DEF AnswerInv, QuestionsKept
    <3> QED
      BY <1>4, <3>1, <3>2
  <2>2. CASE i \notin Ids
    <3>1. PICK r \in Requests : WrittenBy(r, messages'[i])
      BY <1>3, <2>2
    <3>2. /\ pc[r] = "resolved" /\ pc'[r] \in {"recorded", "done"}
          /\ messages'[i].req = r /\ messages'[i].conv = conv[r]
          /\ messages'[i].provider = NoProvider
      BY <1>5, <3>1 DEF WrittenBy
    <3> QED
      BY <1>4, <3>2 DEF Asked
  <2> QED
    BY <2>1, <2>2
<1>6. ASSUME NEW q \in Requests, pc'[q] \in Asked
      PROVE  \E j \in Ids' : /\ messages'[j].role = "user"
                             /\ messages'[j].req = q
                             /\ messages'[j].conv = conv'[q]
  <2>1. CASE pc[q] \in Asked /\ conv'[q] = conv[q]
    <3>1. PICK j \in Ids : /\ messages[j].role = "user"
                           /\ messages[j].req = q
                           /\ messages[j].conv = conv[q]
      BY <2>1 DEF AnswerInv, QuestionsKept
    <3> QED
      BY <1>3, <2>1, <3>1
  <2>2. CASE conv'[q] = conv[q] /\ messages' = Append(messages, UserRow(q))
    <3>1. Len(messages) + 1 \in Ids' /\ messages'[Len(messages) + 1] = UserRow(q)
      BY <1>3, <2>2 DEF Ids
    <3> QED
      BY <2>2, <3>1 DEF UserRow
  <2> QED
    BY <1>4, <1>6, <2>1, <2>2
<1> QED
  BY <1>5, <1>6 DEF QuestionsKept

\* The jobs of the answers that have been kept, or reported as not kept, are
\* over, and the conversation of their request is settled.
EntryJobs(q) ==
    responses[q] # <<>> =>
        /\ pc[q] \notin Before \cup {"asking"}
        /\ \A k \in 1..Len(responses[q]) :
            /\ k \in 1..Len(Registry)
            /\ Registry[k] \in Providers
            /\ job[q][Registry[k]] \in Settled

\* The providers a request is through with have settled their jobs.
LEMMA EntryJobsOver ==
    ASSUME AnswerInv, NEW q \in Requests
    PROVE  EntryJobs(q)
<1>1. responses[q] \in Seq(Response) /\ Len(Registry) \in Nat
  BY ChatAssumption DEF AnswerInv, TypeInv, ChatTypeOK, ChatAssumption
<1>2. /\ Len(responses[q]) <= Len(Registry)
      /\ pc[q] \in Before \cup {"asking"} => responses[q] = <<>>
  BY DEF AnswerInv, EntriesTrue
<1>3. \A k \in 1..Len(Registry) : Registry[k] \in Providers /\ Registry[k] \in Configured
  BY ChatAssumption DEF ChatAssumption, Configured
<1>4. responses[q] # <<>> => \A p \in Configured : job[q][p] \in Settled
  BY DEF AnswerInv, RepliesTrue
<1>5. \A k \in 1..Len(responses[q]) : k \in 1..Len(Registry)
  BY <1>1, <1>2
<1> SUFFICES ASSUME responses[q] # <<>>
             PROVE  /\ pc[q] \notin Before \cup {"asking"}
                    /\ \A k \in 1..Len(responses[q]) :
                        /\ k \in 1..Len(Registry)
                        /\ Registry[k] \in Providers
                        /\ job[q][Registry[k]] \in Settled
  BY DEF EntryJobs
<1>6. ASSUME NEW k \in 1..Len(responses[q])
      PROVE  /\ k \in 1..Len(Registry)
             /\ Registry[k] \in Providers
             /\ job[q][Registry[k]] \in Settled
  <2>1. k \in 1..Len(Registry)
    BY <1>5
  <2>2. Registry[k] \in Providers /\ Registry[k] \in Configured
    BY <1>3, <2>1
  <2> QED
    BY <1>4, <2>1, <2>2
<1> QED
  BY <1>2, <1>6

\* A tool row comes after the providers were asked, an answer in its turn.
LEMMA RowsInTurnPreserved == AnswerInv /\ [Next]_vars => RowsInTurn'
<1> SUFFICES ASSUME AnswerInv, [Next]_vars, NEW i \in Ids'
             PROVE  /\ messages'[i].role = "tool" => pc'[messages'[i].req] \notin Before
                    /\ messages'[i].role = "assistant" =>
                        /\ \E k \in 1..Len(responses'[messages'[i].req]) :
                                messages'[i].provider = Registry[k]
                        /\ messages'[i].status =
                                JobStatus(messages[i].req, messages[i].provider)'
  BY DEF RowsInTurn
<1>1. TypeInv
  BY DEF AnswerInv
<1>2. \A q \in Requests : responses[q] \in Seq(Response)
  BY <1>1 DEF TypeInv, ChatTypeOK
<1>3. ASSUME NEW q \in Requests
      PROVE  /\ pc[q] \notin Before => pc'[q] \notin Before
             /\ Len(responses'[q]) \in Nat /\ Len(responses[q]) <= Len(responses'[q])
  <2>1. Moves(q)
    BY <1>1, StepMoves
  <2> QED
    BY <1>2, <2>1 DEF Moves, Rests, Advances, EndsEarly, KeepsAnswer, Concludes, Dies, Before
<1>4. /\ messages \in Seq(Row) /\ messages' \in Seq(Row)
      /\ \A j \in Ids : messages'[j] = messages[j]
      /\ \A j \in Ids' \ Ids : \E r \in Requests : WrittenBy(r, messages'[j])
  BY <1>1, RowsGrow
<1>5. ASSUME NEW q \in Requests, NEW k \in 1..Len(responses'[q])
      PROVE  job'[q][Registry[k]] = job[q][Registry[k]]
  <2>1. Moves(q) /\ EntryJobs(q)
    BY <1>1, StepMoves, EntryJobsOver
  <2>2. CASE responses'[q] = responses[q]
    <3>1. responses[q] # <<>>
      BY <2>2
    <3>2. /\ pc[q] \notin Before \cup {"asking"}
          /\ Registry[k] \in Providers
          /\ job[q][Registry[k]] \in Settled
      BY <2>1, <2>2, <3>1 DEF EntryJobs
    <3> QED
      BY <2>1, <3>2 DEF Moves, Rests, Advances, EndsEarly, KeepsAnswer, Concludes, Dies, Before
  <2> QED
    BY <2>1, <2>2 DEF Moves, Rests, Advances, EndsEarly, KeepsAnswer, Concludes, Dies
<1>6. CASE i \in Ids
  <2> DEFINE q == messages[i].req
  <2>1. messages'[i] = messages[i] /\ q \in Requests
    BY <1>4, <1>6, RowFields
  <2>2. messages[i].role = "tool" => pc[q] \notin Before
    BY <1>6 DEF AnswerInv, RowsInTurn
  <2>3. ASSUME messages[i].role = "assistant"
        PROVE  /\ \E k \in 1..Len(responses'[q]) : messages[i].provider = Registry[k]
               /\ messages[i].status = IF job'[q][messages[i].provider] = "fulfilled"
                                        THEN "success" ELSE "failed"
    <3>1. PICK k \in 1..Len(responses[q]) : messages[i].provider = Registry[k]
      BY <1>6, <2>3 DEF AnswerInv, RowsInTurn
    <3>2. messages[i].status = JobStatus(q, Registry[k])
      BY <1>6, <2>3, <3>1 DEF AnswerInv, RowsInTurn
    <3>3. k \in 1..Len(responses'[q])
      BY <1>2, <1>3, <2>1
    <3>4. job'[q][Registry[k]] = job[q][Registry[k]]
      BY <1>5, <2>1, <3>3
    <3> QED
      BY <3>1, <3>2, <3>3, <3>4 DEF JobStatus
  <2> QED
    BY <1>3, <2>1, <2>2, <2>3 DEF JobStatus
<1>7. CASE i \notin Ids
  <2>1. PICK r \in Requests : WrittenBy(r, messages'[i])
    BY <1>4, <1>7
  <2>2. CASE messages'[i].role = "tool"
    BY <1>3, <2>1, <2>2 DEF WrittenBy, Before
  <2>3. CASE messages'[i].role = "assistant"
    <3> DEFINE n == Len(responses[r]) + 1
    <3>1. /\ messages'[i].provider = Registry[n]
          /\ Len(responses'[r]) = n
          /\ messages'[i].req = r
          /\ messages'[i].status = JobStatus(r, Registry[n])
      BY <2>1, <2>3 DEF WrittenBy
    <3>2. n \in 1..Len(responses'[r])
      BY <1>2, <3>1
    <3>3. job'[r][Registry[n]] = job[r][Registry[n]]
      BY <1>5, <3>2
    <3> QED
      BY <2>3, <3>1, <3>2, <3>3 DEF JobStatus
  <2> QED
    BY <2>2, <2>3
<1> QED
  BY <1>6, <1>7

\* A tool result or an answer finds its question before it.
LEMMA AnswersFollowPreserved ==
    AnswerInv /\ [Next]_vars => AnswersFollowTheirQuestion'
<1> SUFFICES ASSUME AnswerInv, [Next]_vars,
                    NEW i \in Ids', messages'[i].role # "user"
             PROVE  \E j \in 1..i - 1 : /\ messages'[j].role = "user"
                                        /\ messages'[j].req = messages'[i].req
                                        /\ messages'[j].conv = messages'[i].conv
  BY DEF AnswersFollowTheirQuestion
<1>1. /\ messages \in Seq(Row) /\ messages' \in Seq(Row)
      /\ \A j \in Ids : messages'[j] = messages[j]
      /\ \A j \in Ids' \ Ids :
            /\ j = Len(messages) + 1
            /\ \E r \in Requests : WrittenBy(r, messages'[j])
  BY RowsGrow DEF AnswerInv
<1>2. CASE i \in Ids
  <2>1. PICK j \in 1..i - 1 : /\ messages[j].role = "user"
                              /\ messages[j].req = messages[i].req
                              /\ messages[j].conv = messages[i].conv
    BY <1>1, <1>2 DEF AnswerInv, AnswersFollowTheirQuestion
  <2>2. j \in Ids
    BY <1>1, <1>2 DEF Ids
  <2> QED
    BY <1>1, <1>2, <2>1, <2>2
<1>3. CASE i \notin Ids
  <2>1. PICK r \in Requests : WrittenBy(r, messages'[i])
    BY <1>1, <1>3
  <2>2. pc[r] \in Asked /\ messages'[i].req = r /\ messages'[i].conv = conv[r]
    BY <2>1 DEF WrittenBy, Asked
  <2>3. PICK j \in Ids : /\ messages[j].role = "user"
                         /\ messages[j].req = r
                         /\ messages[j].conv = conv[r]
    BY <2>2 DEF AnswerInv, QuestionsKept
  <2>4. j \in 1..i - 1
    BY <1>1, <1>3 DEF Ids
  <2> QED
    BY <1>1, <2>2, <2>3, <2>4
<1> QED
  BY <1>2, <1>3

\* A request that writes a question has none, and one that writes an answer
\* has none of that provider.
LEMMA OneRowPreserved == AnswerInv /\ [Next]_vars => OneRowPerAnswer'
<1> SUFFICES ASSUME AnswerInv, [Next]_vars PROVE OneRowPerAnswer'
  OBVIOUS
<1>1. /\ messages \in Seq(Row) /\ messages' \in Seq(Row)
      /\ \A j \in Ids : messages'[j] = messages[j]
      /\ \A j \in Ids' \ Ids :
            /\ j = Len(messages) + 1
            /\ \E r \in Requests : WrittenBy(r, messages'[j])
  BY RowsGrow DEF AnswerInv
<1>2. ASSUME NEW i \in Ids, NEW j \in Ids' \ Ids,
             messages'[i].req = messages'[j].req,
             messages'[i].role = messages'[j].role,
             messages'[i].role # "tool",
             messages'[i].provider = messages'[j].provider
      PROVE  FALSE
  <2>1. PICK r \in Requests : WrittenBy(r, messages'[j])
    BY <1>1
  <2>2. messages'[i] = messages[i] /\ messages[i].req = r
    BY <1>1, <1>2, <2>1 DEF WrittenBy
  <2>3. CASE messages[i].role = "user"
    <3>1. pc[r] = "resolved"
      BY <1>2, <2>1, <2>2, <2>3 DEF WrittenBy
    <3> QED
      BY <2>2, <2>3, <3>1 DEF AnswerInv, QuestionsKept
  <2>4. CASE messages[i].role = "assistant"
    <3> DEFINE n == Len(responses[r]) + 1
    <3>1. messages[i].provider = Registry[n]
      BY <1>2, <2>1, <2>2, <2>4 DEF WrittenBy
    <3>2. PICK k \in 1..Len(responses[r]) : messages[i].provider = Registry[k]
      BY <2>2, <2>4 DEF AnswerInv, RowsInTurn
    <3>3. n \in 1..Len(Registry)
      <4>1. Moves(r) /\ Len(responses'[r]) = n
        BY <1>2, <2>1, <2>2, <2>4, StepMoves DEF WrittenBy, AnswerInv
      <4>2. responses[r] \in Seq(Response)
        BY DEF AnswerInv, TypeInv, ChatTypeOK
      <4>3. responses'[r] # responses[r]
        BY <4>1, <4>2
      <4>4. KeepsAnswer(r)
        BY <4>1, <4>3 DEF Moves, Rests, Advances, EndsEarly, Concludes, Dies
      <4> QED
        BY <4>2, <4>4, ChatAssumption DEF KeepsAnswer, ChatAssumption
    <3>4. responses[r] \in Seq(Response)
      BY DEF AnswerInv, TypeInv, ChatTypeOK
    <3>5. k \in 1..Len(Registry) /\ k # n
      BY <3>3, <3>4
    <3> QED
      BY <3>1, <3>2, <3>3, <3>5, ChatAssumption DEF ChatAssumption
  <2> QED
    BY <1>1, <1>2, <2>2, <2>3, <2>4, RowFields
<1> SUFFICES ASSUME NEW i \in Ids', NEW j \in Ids',
                    messages'[i].req = messages'[j].req,
                    messages'[i].role = messages'[j].role,
                    messages'[i].role # "tool",
                    messages'[i].provider = messages'[j].provider
             PROVE  i = j
  BY DEF OneRowPerAnswer
<1>3. CASE i \in Ids /\ j \in Ids
  BY <1>1, <1>3 DEF AnswerInv, OneRowPerAnswer
<1>4. CASE i \notin Ids /\ j \notin Ids
  BY <1>1, <1>4
<1>5. CASE i \in Ids /\ j \notin Ids
  BY <1>2, <1>5
<1>6. CASE i \notin Ids /\ j \in Ids
  BY <1>2, <1>6
<1> QED
  BY <1>3, <1>4, <1>5, <1>6

\* An entry, once made, is not changed, nor is anything it tells.
LEMMA EntriesTruePreserved == AnswerInv /\ [Next]_vars => EntriesTrue'
<1> SUFFICES ASSUME AnswerInv, [Next]_vars, NEW q \in Requests
             PROVE  /\ Len(responses'[q]) <= Len(Registry)
                    /\ pc'[q] \in Before \cup {"asking"} => responses'[q] = <<>>
                    /\ \A k \in 1..Len(responses'[q]) :
                        /\ responses'[q][k].provider = Registry[k]
                        /\ responses'[q][k].status = JobStatus(q, Registry[k])'
                        /\ responses'[q][k].persistence = "persisted" =>
                            /\ responses'[q][k].row \in Ids'
                            /\ messages'[responses'[q][k].row] =
                                    AnswerRow(q, Registry[k], JobStatus(q, Registry[k]))'
  BY DEF EntriesTrue
<1>1. TypeInv /\ responses[q] \in Seq(Response) /\ Len(Registry) \in Nat
  BY ChatAssumption DEF AnswerInv, TypeInv, ChatTypeOK, ChatAssumption
<1>2. Moves(q)
  BY <1>1, StepMoves
<1>3. /\ messages \in Seq(Row) /\ messages' \in Seq(Row)
      /\ Ids \subseteq Ids'
      /\ \A j \in Ids : messages'[j] = messages[j]
  BY <1>1, RowsGrow
<1>4. /\ Len(responses[q]) <= Len(Registry)
      /\ pc[q] \in Before \cup {"asking"} => responses[q] = <<>>
      /\ \A k \in 1..Len(responses[q]) :
            /\ responses[q][k].provider = Registry[k]
            /\ responses[q][k].status = JobStatus(q, Registry[k])
            /\ responses[q][k].persistence = "persisted" =>
                /\ responses[q][k].row \in Ids
                /\ messages[responses[q][k].row] =
                        AnswerRow(q, Registry[k], JobStatus(q, Registry[k]))
  BY DEF AnswerInv, EntriesTrue
\* What the entries so far tell still holds after a step that leaves the
\* conversation and the jobs that are over.
<1>5. ASSUME responses[q] # <<>>, NEW k \in 1..Len(responses[q])
      PROVE  /\ Registry[k] \in Configured
             /\ conv'[q] = conv[q]
             /\ JobStatus(q, Registry[k])' = JobStatus(q, Registry[k])
  <2>1. k \in 1..Len(Registry) /\ Registry[k] \in Configured /\ Registry[k] \in Providers
    BY <1>1, <1>4, ChatAssumption DEF Configured, ChatAssumption
  <2>2. job[q][Registry[k]] \in Settled
    BY <1>5, <2>1 DEF AnswerInv, RepliesTrue
  <2>3. pc[q] \notin Before \cup {"asking"}
    BY <1>4, <1>5
  <2>4. conv'[q] = conv[q] /\ job'[q][Registry[k]] = job[q][Registry[k]]
    BY <1>2, <2>1, <2>2, <2>3
       DEF Moves, Rests, Advances, EndsEarly, KeepsAnswer, Concludes, Dies, Before
  <2> QED
    BY <2>1, <2>4 DEF JobStatus
<1>6. ASSUME responses'[q] = responses[q], NEW k \in 1..Len(responses'[q])
      PROVE  /\ responses'[q][k].provider = Registry[k]
             /\ responses'[q][k].status = JobStatus(q, Registry[k])'
             /\ responses'[q][k].persistence = "persisted" =>
                  /\ responses'[q][k].row \in Ids'
                  /\ messages'[responses'[q][k].row] =
                        AnswerRow(q, Registry[k], JobStatus(q, Registry[k]))'
  <2>1. responses[q] # <<>>
    BY <1>6
  <2>2. /\ conv'[q] = conv[q]
        /\ JobStatus(q, Registry[k])' = JobStatus(q, Registry[k])
    BY <1>5, <1>6, <2>1
  <2> QED
    BY <1>3, <1>4, <1>6, <2>2 DEF AnswerRow
<1>7. CASE responses'[q] = responses[q]
  <2>1. pc'[q] \in Before \cup {"asking"} => pc[q] \in Before \cup {"asking"}
    BY <1>2 DEF Moves, Rests, Advances, EndsEarly, KeepsAnswer, Concludes, Dies, Before
  <2> QED
    BY <1>4, <1>6, <1>7, <2>1
<1>8. CASE KeepsAnswer(q)
  <2> DEFINE n == Len(responses[q]) + 1
  <2>1. PICK e \in Response :
            /\ responses'[q] = Append(responses[q], e)
            /\ e.provider = Registry[n]
            /\ e.status = JobStatus(q, Registry[n])
            /\ e.persistence = "persisted" =>
                /\ e.row = Len(messages) + 1
                /\ messages' = Append(messages,
                                AnswerRow(q, Registry[n], JobStatus(q, Registry[n])))
    BY <1>8 DEF KeepsAnswer
  <2>2. /\ pc'[q] = "saving" /\ conv'[q] = conv[q] /\ job'[q] = job[q]
        /\ n <= Len(Registry)
    BY <1>8 DEF KeepsAnswer
  <2>3. \A k \in 1..n : /\ JobStatus(q, Registry[k])' = JobStatus(q, Registry[k])
                        /\ AnswerRow(q, Registry[k], JobStatus(q, Registry[k]))'
                            = AnswerRow(q, Registry[k], JobStatus(q, Registry[k]))
    BY <2>2 DEF JobStatus, AnswerRow
  <2>4. /\ Len(responses'[q]) = n
        /\ responses'[q][n] = e
        /\ \A k \in 1..n - 1 : k \in 1..Len(responses[q]) /\ responses'[q][k] = responses[q][k]
    BY <1>1, <2>1
  <2>5. e.persistence = "persisted" =>
            /\ e.row \in Ids'
            /\ messages'[e.row] = AnswerRow(q, Registry[n], JobStatus(q, Registry[n]))
    BY <1>3, <2>1 DEF Ids
  <2>6. ASSUME NEW k \in 1..n
        PROVE  /\ responses'[q][k].provider = Registry[k]
               /\ responses'[q][k].status = JobStatus(q, Registry[k])
               /\ responses'[q][k].persistence = "persisted" =>
                    /\ responses'[q][k].row \in Ids'
                    /\ messages'[responses'[q][k].row] =
                            AnswerRow(q, Registry[k], JobStatus(q, Registry[k]))
    <3>1. CASE k = n
      BY <2>1, <2>4, <2>5, <3>1
    <3>2. CASE k # n
      <4>1. k \in 1..n - 1
        BY <1>1, <3>2
      <4> QED
        BY <1>3, <1>4, <2>4, <4>1
    <3> QED
      BY <3>1, <3>2
  <2> QED
    BY <2>2, <2>3, <2>4, <2>6 DEF Before
<1> QED
  BY <1>2, <1>7, <1>8 DEF Moves, Rests, Advances, EndsEarly, Concludes, Dies

\* What a reply says was said when all jobs were over, and is not changed.
LEMMA RepliesTruePreserved == AnswerInv /\ [Next]_vars => RepliesTrue'
<1> SUFFICES ASSUME AnswerInv, [Next]_vars, NEW q \in Requests
             PROVE  /\ pc'[q] = "saving" \/ responses'[q] # <<>> =>
                        \A p \in Configured : job'[q][p] \in Settled
                    /\ reply'[q].status \in Verdicts =>
                        /\ pc'[q] = "done"
                        /\ Len(responses'[q]) = Len(Registry)
                        /\ reply'[q].status = SummarizeProviderResponses(responses'[q])
                        /\ reply'[q].provider = SelectCompatibilityResponse(responses'[q])
  BY DEF RepliesTrue
<1>1. TypeInv /\ Configured \subseteq Providers
  BY ChatAssumption DEF AnswerInv, ChatAssumption, Configured
<1>2. Moves(q)
  BY <1>1, StepMoves
<1>3. /\ pc[q] = "saving" \/ responses[q] # <<>> =>
            \A p \in Configured : job[q][p] \in Settled
      /\ reply[q].status \in Verdicts =>
            /\ pc[q] = "done"
            /\ Len(responses[q]) = Len(Registry)
            /\ reply[q].status = SummarizeProviderResponses(responses[q])
            /\ reply[q].provider = SelectCompatibilityResponse(responses[q])
      /\ pc[q] \in Before \cup {"asking"} => responses[q] = <<>>
  BY DEF AnswerInv, RepliesTrue, EntriesTrue
<1>4. ASSUME pc'[q] = "saving" \/ responses'[q] # <<>>
      PROVE  \A p \in Configured : job'[q][p] \in Settled
  <2>1. CASE Rests(q)
    BY <1>1, <1>3, <1>4, <2>1 DEF Rests
  <2>2. CASE ~Rests(q)
    BY <1>2, <1>3, <1>4, <2>2
       DEF Moves, Advances, EndsEarly, KeepsAnswer, Concludes, Dies, Before
  <2> QED
    BY <2>1, <2>2
<1>5. ASSUME reply'[q].status \in Verdicts
      PROVE  /\ pc'[q] = "done"
             /\ Len(responses'[q]) = Len(Registry)
             /\ reply'[q].status = SummarizeProviderResponses(responses'[q])
             /\ reply'[q].provider = SelectCompatibilityResponse(responses'[q])
  <2>1. CASE Concludes(q)
    BY <2>1 DEF Concludes
  <2>2. CASE reply'[q] = reply[q]
    BY <1>2, <1>3, <1>5, <2>2
       DEF Moves, Rests, Advances, EndsEarly, KeepsAnswer, Concludes, Dies, Before, Active
  <2>3. CASE EndsEarly(q)
    BY <1>5, <2>3 DEF EndsEarly, Errors, Verdicts
  <2> QED
    BY <1>2, <2>1, <2>2, <2>3 DEF Moves, Rests, Advances, KeepsAnswer, Dies
<1> QED
  BY <1>4, <1>5

\* The parts together: the invariant is inductive.
LEMMA AnswerInvPreserved == AnswerInv /\ [Next]_vars => AnswerInv'
BY TypeInvPreserved, QuestionsKeptPreserved, RowsInTurnPreserved, AnswersFollowPreserved,
   OneRowPreserved, EntriesTruePreserved, RepliesTruePreserved DEF AnswerInv

\* A tool result or an answer is stored after its question and in the same
\* conversation, whatever the other requests do in between.
THEOREM AnswersFollow == Spec => []AnswersFollowTheirQuestion
<1>1. AnswerInv => AnswersFollowTheirQuestion
  BY DEF AnswerInv
<1> QED
  BY <1>1, AnswerInvInitially, AnswerInvPreserved, PTL DEF Spec

\* One question and one answer per provider, even when a save was reported
\* as failed.
THEOREM OneRow == Spec => []OneRowPerAnswer
<1>1. AnswerInv => OneRowPerAnswer
  BY DEF AnswerInv
<1> QED
  BY <1>1, AnswerInvInitially, AnswerInvPreserved, PTL DEF Spec

\* Nothing is written for a request that is over.
THEOREM OverIsOver == Spec => NothingAfterTheReply
<1>1. TypeInv /\ [Next]_vars =>
        [\A i \in Len(messages) + 1..Len(messages') :
            pc[messages'[i].req] \notin {"done", "crashed"}]_vars
  <2> SUFFICES ASSUME TypeInv, [Next]_vars,
                      NEW i \in Len(messages) + 1..Len(messages')
               PROVE  pc[messages'[i].req] \notin {"done", "crashed"}
    OBVIOUS
  <2>1. /\ messages \in Seq(Row) /\ messages' \in Seq(Row)
        /\ \A j \in Ids' \ Ids : \E r \in Requests : WrittenBy(r, messages'[j])
    BY RowsGrow
  <2>2. i \in Ids' \ Ids
    BY <2>1 DEF Ids
  <2> QED
    BY <2>1, <2>2 DEF WrittenBy
<1> QED
  BY <1>1, TypeInvInitially, TypeInvPreserved, PTL DEF Spec, NothingAfterTheReply
-----------------------------------------------------------------------------
(***************************************************************************)
(* The reply.                                                              *)
(***************************************************************************)

\* From the library's well-founded order of the natural numbers.
LEMMA LeastNatural ==
    ASSUME NEW S \in SUBSET Nat, S # {}
    PROVE  \E x \in S : \A y \in S : x <= y
<1> DEFINE R == {ss \in Nat \X Nat : ss[1] < ss[2]}
<1>1. IsWellFoundedOn(R, Nat)
  BY NatLessThanWellFounded DEF OpToRel
<1>2. PICK x \in S : \A y \in S : <<y, x>> \notin R
  <2> HIDE DEF R
  <2> QED
    BY <1>1, WFMin
<1>3. ASSUME NEW y \in S, y < x PROVE FALSE
  <2>1. <<y, x>> \in R
    BY <1>3
  <2> QED
    BY <1>2, <2>1
<1> QED
  BY <1>3

\* The compatibility response is the first success, if there is one.
LEMMA CompatibilityIsFirst ==
    ASSUME NEW rs \in Seq(Response), Successes(rs) # {}
    PROVE  \E k \in Successes(rs) :
                /\ SelectCompatibilityResponse(rs) = rs[k].provider
                /\ \A n \in 1..k - 1 : n \notin Successes(rs)
<1> DEFINE first == {k \in Successes(rs) : \A j \in Successes(rs) : k <= j}
           n == CHOOSE k \in first : TRUE
<1>1. Successes(rs) \in SUBSET Nat
  BY DEF Successes
<1>2. first # {}
  BY <1>1, LeastNatural
<1>3. n \in first
  BY <1>2
<1>4. SelectCompatibilityResponse(rs) = rs[n].provider
  BY <1>2 DEF SelectCompatibilityResponse
<1>5. n \in Successes(rs) /\ \A j \in Successes(rs) : n <= j
  BY <1>3
<1>6. \A m \in 1..n - 1 : m \notin Successes(rs)
  BY <1>1, <1>5
<1> QED
  BY <1>4, <1>5, <1>6

\* What the summary of all entries says of the providers.
LEMMA SummaryTellsOutcome ==
    ASSUME AnswerInv, NEW r \in Requests, Len(responses[r]) = Len(Registry)
    PROVE  /\ SummarizeProviderResponses(responses[r]) \in Verdicts
           /\ SummarizeProviderResponses(responses[r]) = "success"
                <=> \A p \in Configured : job[r][p] = "fulfilled"
           /\ SummarizeProviderResponses(responses[r]) = "failed"
                <=> \A p \in Configured : job[r][p] = "rejected"
           /\ SummarizeProviderResponses(responses[r]) # "failed" =>
                \E k \in 1..Len(Registry) :
                    /\ SelectCompatibilityResponse(responses[r]) = Registry[k]
                    /\ job[r][Registry[k]] = "fulfilled"
                    /\ \A n \in 1..k - 1 : job[r][Registry[n]] = "rejected"
<1> DEFINE rs == responses[r]
           N == Len(Registry)
           summary == SummarizeProviderResponses(rs)
<1>1. /\ rs \in Seq(Response) /\ N \in Nat \ {0}
      /\ \A k \in 1..N : Registry[k] \in Providers
  BY ChatAssumption DEF AnswerInv, TypeInv, ChatTypeOK, ChatAssumption
<1>2. Len(rs) = N
  OBVIOUS
<1>3. \A k \in 1..N : /\ rs[k].provider = Registry[k]
                      /\ rs[k].status = JobStatus(r, Registry[k])
  BY <1>2 DEF AnswerInv, EntriesTrue
<1>4. rs # <<>>
  BY <1>1, <1>2
<1>5. \A k \in 1..N : job[r][Registry[k]] \in {"fulfilled", "rejected"}
  BY <1>4 DEF AnswerInv, RepliesTrue, Configured, Settled
<1>6. \A k \in 1..N : k \in Successes(rs) <=> job[r][Registry[k]] = "fulfilled"
  BY <1>2, <1>3, <1>5 DEF Successes, JobStatus
<1>7. Successes(rs) \subseteq 1..N
  BY <1>2 DEF Successes
<1>8. summary = IF Successes(rs) = {} THEN "failed"
                ELSE IF Successes(rs) = 1..N THEN "success" ELSE "partial_success"
  BY <1>2 DEF SummarizeProviderResponses
<1> HIDE DEF rs, N, summary
<1>9. summary = "success" <=> \A k \in 1..N : job[r][Registry[k]] = "fulfilled"
  <2>1. 1 \in 1..N
    BY <1>1
  <2> QED
    BY <1>6, <1>7, <1>8, <2>1
<1>10. summary = "failed" <=> \A k \in 1..N : job[r][Registry[k]] = "rejected"
  BY <1>5, <1>6, <1>7, <1>8
<1>11. ASSUME summary # "failed"
       PROVE  \E k \in 1..N :
                /\ SelectCompatibilityResponse(rs) = Registry[k]
                /\ job[r][Registry[k]] = "fulfilled"
                /\ \A n \in 1..k - 1 : job[r][Registry[n]] = "rejected"
  <2>1. Successes(rs) # {}
    BY <1>8, <1>11
  <2>2. PICK k \in Successes(rs) :
            /\ SelectCompatibilityResponse(rs) = rs[k].provider
            /\ \A n \in 1..k - 1 : n \notin Successes(rs)
    BY <1>1, <2>1, CompatibilityIsFirst
  <2>3. k \in 1..N /\ \A n \in 1..k - 1 : n \in 1..N
    BY <1>1, <1>7, <2>2
  <2> QED
    BY <1>3, <1>5, <1>6, <2>2, <2>3
<1>12. summary \in Verdicts
  BY <1>8 DEF Verdicts
<1> QED
  BY <1>9, <1>10, <1>11, <1>12 DEF Configured, N, rs, summary

\* The reply agrees with the store and with what the providers did.
THEOREM ReplyAgrees == Spec => []ReplyAgreesWithStore
<1>1. AnswerInv => ReplyAgreesWithStore
  <2> SUFFICES ASSUME AnswerInv, NEW r \in Requests
               PROVE  /\ \A k \in 1..Len(responses[r]) :
                            responses[r][k].persistence = "persisted" =>
                                /\ responses[r][k].row \in Ids
                                /\ messages[responses[r][k].row] =
                                    AnswerRow(r, responses[r][k].provider, responses[r][k].status)
                      /\ reply[r].status \in Verdicts =>
                            /\ (reply[r].status = "success") <=>
                                    \A p \in Configured : job[r][p] = "fulfilled"
                            /\ (reply[r].status = "failed") <=>
                                    \A p \in Configured : job[r][p] = "rejected"
                            /\ reply[r].status # "failed" =>
                                \E k \in 1..Len(Registry) :
                                    /\ reply[r].provider = Registry[k]
                                    /\ job[r][Registry[k]] = "fulfilled"
                                    /\ \A n \in 1..k - 1 : job[r][Registry[n]] = "rejected"
    BY DEF ReplyAgreesWithStore, Verdicts
  <2>1. \A k \in 1..Len(responses[r]) :
            responses[r][k].persistence = "persisted" =>
                /\ responses[r][k].row \in Ids
                /\ messages[responses[r][k].row] =
                        AnswerRow(r, responses[r][k].provider, responses[r][k].status)
    BY DEF AnswerInv, EntriesTrue
  <2>2. reply[r].status \in Verdicts =>
            /\ Len(responses[r]) = Len(Registry)
            /\ reply[r].status = SummarizeProviderResponses(responses[r])
            /\ reply[r].provider = SelectCompatibilityResponse(responses[r])
    BY DEF AnswerInv, RepliesTrue
  <2> QED
    BY <2>1, <2>2, SummaryTellsOutcome
<1> QED
  BY <1>1, AnswerInvInitially, AnswerInvPreserved, PTL DEF Spec
-----------------------------------------------------------------------------
(***************************************************************************)
(* The question reaches the providers.                                     *)
(***************************************************************************)

\* What other requests stored in the conversation after a question.
Later(i, r) == {j \in i + 1..Len(messages) :
                    messages[j].conv = conv[r] /\ messages[j].req # r}

\* The window the history is read through holds the question, unless others
\* have filled it.
QuestionInHistory ==
    \A r \in Requests : pc[r] = "asking" =>
        \A i \in Ids :
            /\ messages[i].req = r
            /\ messages[i].role = "user"
            /\ Cardinality(Later(i, r)) < HistoryLimit
            => i \in history[r]

PromptInv == AnswerInv /\ SeparationInv /\ QuestionInHistory

\* Sets of ids are finite.
LEMMA IdSets ==
    ASSUME messages \in Seq(Row), NEW S \in SUBSET Ids
    PROVE  IsFiniteSet(S) /\ Cardinality(S) \in Nat
<1>1. IsFiniteSet(Ids)
  BY FS_Interval DEF Ids
<1>2. IsFiniteSet(S)
  BY <1>1, FS_Subset
<1> QED
  BY <1>2, FS_CardinalityType

\* A smaller set of ids has not more of them.
LEMMA FewerIds ==
    ASSUME messages \in Seq(Row), NEW S \in SUBSET Ids, NEW T \in SUBSET S
    PROVE  Cardinality(T) <= Cardinality(S) /\ Cardinality(T) \in Nat /\ Cardinality(S) \in Nat
<1>1. T \in SUBSET Ids
  OBVIOUS
<1> QED
  BY <1>1, IdSets, FS_Subset

\* Before the answers are stored, the question is the only row of its
\* request that a provider may be given.
LEMMA OwnRowIsTheQuestion ==
    ASSUME AnswerInv, NEW r \in Requests, pc[r] \in {"recorded", "asking"},
           NEW i \in Ids, messages[i].req = r, messages[i].role = "user",
           NEW j \in Ids, messages[j].req = r, messages[j].role # "tool"
    PROVE  j = i
<1>1. messages \in Seq(Row)
  BY DEF AnswerInv, TypeInv, ChatTypeOK, StoreTypeOK
<1>2. messages[j].role # "assistant"
  <2>1. responses[r] = <<>>
    BY DEF AnswerInv, EntriesTrue, Before
  <2>2. Len(responses[r]) = 0
    BY <2>1
  <2> QED
    BY <2>2 DEF AnswerInv, RowsInTurn
<1>3. messages[j].role = "user"
  BY <1>1, <1>2, RowFields
<1>4. messages[i].provider = NoProvider /\ messages[j].provider = NoProvider
  BY <1>3 DEF AnswerInv, QuestionsKept
<1> QED
  BY <1>3, <1>4 DEF AnswerInv, OneRowPerAnswer

\* The history read for a request holds its question.
LEMMA QuestionIsRead ==
    ASSUME AnswerInv, NEW r \in Requests, pc[r] = "recorded",
           NEW i \in Ids, messages[i].req = r, messages[i].role = "user",
           Cardinality(Later(i, r)) < HistoryLimit
    PROVE  i \in RecentMessages(conv[r], HistoryLimit)
<1> DEFINE rows == {j \in Ids : messages[j].conv = conv[r]}
           fetched == Newest(rows, AtMost(2 * HistoryLimit, 400))
           kept == {j \in fetched : ForLlm(messages[j])}
           after(S) == {j \in S : j > i}
<1>1. messages \in Seq(Row) /\ HistoryLimit \in 1..200
  BY StoreAssumption DEF AnswerInv, TypeInv, ChatTypeOK, StoreTypeOK, StoreAssumption
<1>2. i \in rows
  BY DEF AnswerInv, QuestionsKept, Asked
<1>3. after(rows) \subseteq Later(i, r)
  <2> SUFFICES ASSUME NEW j \in Ids, messages[j].conv = conv[r], j > i
               PROVE  j \in Later(i, r)
    OBVIOUS
  <2>1. messages[j].req # r
    <3>1. SUFFICES ASSUME messages[j].req = r PROVE FALSE
      OBVIOUS
    <3>2. messages[j].role # "tool"
      BY <3>1 DEF AnswerInv, RowsInTurn, Before
    <3>3. j = i
      BY <3>1, <3>2, OwnRowIsTheQuestion
    <3> QED
      BY <1>1, <3>3 DEF Ids
  <2> QED
    BY <1>1, <2>1 DEF Later, Ids
<1>4. Later(i, r) \in SUBSET Ids
  BY <1>1 DEF Later, Ids
<1>5. /\ Cardinality(after(rows)) < HistoryLimit
      /\ Cardinality(after(rows)) \in Nat
  <2>1. Cardinality(after(rows)) <= Cardinality(Later(i, r)) /\ Cardinality(after(rows)) \in Nat
        /\ Cardinality(Later(i, r)) \in Nat
    <3> HIDE DEF after
    <3> QED
      BY <1>1, <1>3, <1>4, FewerIds
  <2> QED
    BY <1>1, <2>1
<1>6. i \in fetched
  <2>1. Cardinality(after(rows)) < AtMost(2 * HistoryLimit, 400)
    BY <1>1, <1>5 DEF AtMost
  <2> QED
    BY <1>2, <2>1 DEF Newest
<1>7. i \in kept
  BY <1>6 DEF ForLlm
<1>8. Cardinality(after(kept)) < HistoryLimit
  <2>1. after(kept) \subseteq after(rows) /\ after(rows) \in SUBSET Ids
    BY NewestIsSubset
  <2>2. Cardinality(after(kept)) <= Cardinality(after(rows)) /\ Cardinality(after(kept)) \in Nat
    <3> HIDE DEF after
    <3> QED
      BY <1>1, <2>1, FewerIds
  <2> QED
    BY <1>1, <1>5, <2>2
<1>9. i \in Newest(kept, HistoryLimit)
  BY <1>7, <1>8 DEF Newest
<1> QED
  BY <1>9 DEF RecentMessages

\* There is no row yet.
LEMMA PromptInvInitially == ChatInit => PromptInv
<1> SUFFICES ASSUME ChatInit PROVE PromptInv
  OBVIOUS
<1>1. QuestionInHistory
  BY DEF ChatInit, QuestionInHistory
<1> QED
  BY <1>1, AnswerInvInitially, SeparationInvInitially DEF PromptInv

\* The rows that come after a question only become more.
LEMMA PromptInvPreserved == PromptInv /\ [Next]_vars => PromptInv'
<1> SUFFICES ASSUME PromptInv, [Next]_vars PROVE PromptInv'
  OBVIOUS
<1>1. AnswerInv /\ TypeInv
  BY DEF PromptInv, AnswerInv
<1>2. AnswerInv' /\ SeparationInv'
  BY AnswerInvPreserved, SeparationInvPreserved DEF PromptInv
<1>3. /\ messages \in Seq(Row) /\ messages' \in Seq(Row)
      /\ Ids \subseteq Ids'
      /\ \A j \in Ids : messages'[j] = messages[j]
      /\ \A j \in Ids' \ Ids : \E r \in Requests : WrittenBy(r, messages'[j])
  BY <1>1, RowsGrow
<1>4. QuestionInHistory'
  <2> SUFFICES ASSUME NEW r \in Requests, pc'[r] = "asking", NEW i \in Ids',
                      messages'[i].req = r, messages'[i].role = "user",
                      Cardinality(Later(i, r)') < HistoryLimit
               PROVE  i \in history'[r]
    BY DEF QuestionInHistory
  <2>1. CASE pc[r] = "asking" /\ history'[r] = history[r] /\ conv'[r] = conv[r]
    <3>1. i \in Ids
      <4>1. SUFFICES ASSUME i \notin Ids PROVE FALSE
        OBVIOUS
      <4>2. PICK q \in Requests : WrittenBy(q, messages'[i])
        BY <1>3, <4>1
      <4> QED
        BY <2>1, <4>2 DEF WrittenBy
    <3>2. Later(i, r) \subseteq Later(i, r)' /\ Later(i, r)' \in SUBSET Ids'
      BY <1>3, <2>1, <3>1 DEF Later, Ids
    <3>3. /\ Cardinality(Later(i, r)) <= Cardinality(Later(i, r)')
          /\ Cardinality(Later(i, r)) \in Nat /\ Cardinality(Later(i, r)') \in Nat
      <4>1. IsFiniteSet(Later(i, r)')
        <5>1. IsFiniteSet(Ids')
          BY <1>3, FS_Interval DEF Ids
        <5> QED
          BY <3>2, <5>1, FS_Subset
      <4> QED
        BY <3>2, <4>1, FS_Subset, FS_CardinalityType
    <3>4. Cardinality(Later(i, r)) < HistoryLimit
      BY <3>3, StoreAssumption DEF StoreAssumption
    <3> QED
      BY <1>3, <2>1, <3>1, <3>4 DEF PromptInv, QuestionInHistory
  <2>2. CASE /\ history'[r] = RecentMessages(conv[r], HistoryLimit)
             /\ conv'[r] = conv[r]
             /\ messages' = messages
             /\ pc[r] = "recorded"
    <3>1. i \in Ids /\ messages[i] = messages'[i] /\ Later(i, r)' = Later(i, r)
      BY <2>2 DEF Ids, Later
    <3> QED
      BY <1>1, <2>2, <3>1, QuestionIsRead
  <2>3. Progress
    BY <1>1, StepProgresses
  <2> QED
    BY <2>1, <2>2, <2>3 DEF Progress
<1> QED
  BY <1>2, <1>4 DEF PromptInv

\* Every provider is told the question, unless rows of other requests came
\* after it and fill the prompt or the window of the history.
THEOREM QuestionReaches == Spec => []QuestionReachesProviders
<1>1. PromptInv => QuestionReachesProviders
  <2> SUFFICES ASSUME PromptInv, NEW r \in Requests, pc[r] = "asking",
                      NEW p \in Configured, NEW i \in Ids,
                      messages[i].req = r, messages[i].role = "user",
                      Cardinality(Later(i, r)) < AtMost(PromptLimit, HistoryLimit)
               PROVE  i \in Prompt(r, p)
    BY DEF QuestionReachesProviders, Later
  <2> DEFINE S == {j \in history[r] : ForProvider(messages[j], p)}
             after == {j \in S : j > i}
  <2>1. messages \in Seq(Row) /\ HistoryLimit \in Nat /\ PromptLimit \in Nat
    BY StoreAssumption, ChatAssumption
       DEF PromptInv, AnswerInv, TypeInv, ChatTypeOK, StoreTypeOK, StoreAssumption, ChatAssumption
  <2>2. Later(i, r) \in SUBSET Ids
    BY <2>1 DEF Later, Ids
  <2>3. Cardinality(Later(i, r)) \in Nat
    BY <2>1, <2>2, IdSets
  <2>4. i \in S
    <3>1. Cardinality(Later(i, r)) < HistoryLimit
      BY <2>1, <2>3 DEF AtMost
    <3> QED
      BY <3>1 DEF PromptInv, QuestionInHistory, ForProvider
  <2>5. after \subseteq Later(i, r)
    <3> SUFFICES ASSUME NEW j \in history[r], ForProvider(messages[j], p), j > i
                 PROVE  j \in Later(i, r)
      OBVIOUS
    <3>1. j \in Ids /\ messages[j].conv = conv[r]
      BY DEF PromptInv, SeparationInv, HistoryLocated
    <3>2. messages[j].req # r
      <4>1. SUFFICES ASSUME messages[j].req = r PROVE FALSE
        OBVIOUS
      <4>2. j = i
        BY <3>1, <4>1, OwnRowIsTheQuestion DEF PromptInv, ForProvider
      <4> QED
        BY <2>1, <4>2 DEF Ids
    <3> QED
      BY <2>1, <3>1, <3>2 DEF Later, Ids
  <2>6. Cardinality(after) <= Cardinality(Later(i, r)) /\ Cardinality(after) \in Nat
    <3> HIDE DEF after
    <3> QED
      BY <2>1, <2>2, <2>5, FewerIds
  <2>7. Cardinality(after) < PromptLimit
    BY <2>1, <2>3, <2>6 DEF AtMost
  <2>8. i \in Newest(S, PromptLimit)
    BY <2>4, <2>7 DEF Newest
  <2> QED
    BY <2>8 DEF Prompt, BuildProviderHistory
<1> QED
  BY <1>1, PromptInvInitially, PromptInvPreserved, PTL DEF Spec
-----------------------------------------------------------------------------
(***************************************************************************)
(* POST /chat implements its contract: every step is one of the contract,  *)
(* or changes nothing the contract sees.                                   *)
(***************************************************************************)

Question(row) == [req |-> row.req, conv |-> row.conv]
Answer(row) == [req |-> row.req, conv |-> row.conv,
                provider |-> row.provider, status |-> row.status]

\* A new row is a new question, a new answer, or nothing to the contract.
LEMMA KeptByRow ==
    ASSUME messages \in Seq(Row), NEW row \in Row, messages' = Append(messages, row)
    PROVE  /\ KeptQuestions' = IF row.role = "user" THEN KeptQuestions \cup {Question(row)}
                               ELSE KeptQuestions
           /\ KeptAnswers' = IF row.role = "assistant" THEN KeptAnswers \cup {Answer(row)}
                             ELSE KeptAnswers
<1> DEFINE n == Len(messages) + 1
<1>1. /\ Ids' = Ids \cup {n} /\ n \notin Ids
      /\ messages'[n] = row
      /\ \A i \in Ids : messages'[i] = messages[i]
  BY DEF Ids
<1> HIDE DEF n
<1>2. KeptQuestions' = {Question(messages'[i]) : i \in {j \in Ids' : messages'[j].role = "user"}}
  BY DEF KeptQuestions, Question
<1>3. KeptQuestions = {Question(messages[i]) : i \in {j \in Ids : messages[j].role = "user"}}
  BY DEF KeptQuestions, Question
<1>4. KeptAnswers' = {Answer(messages'[i]) : i \in {j \in Ids' : messages'[j].role = "assistant"}}
  BY DEF KeptAnswers, Answer
<1>5. KeptAnswers = {Answer(messages[i]) : i \in {j \in Ids : messages[j].role = "assistant"}}
  BY DEF KeptAnswers, Answer
<1>6. KeptQuestions' = IF row.role = "user" THEN KeptQuestions \cup {Question(row)}
                       ELSE KeptQuestions
  BY <1>1, <1>2, <1>3
<1>7. KeptAnswers' = IF row.role = "assistant" THEN KeptAnswers \cup {Answer(row)}
                     ELSE KeptAnswers
  BY <1>1, <1>4, <1>5
<1> QED
  BY <1>6, <1>7

\* Rows that stay as they are stay questions and answers.
LEMMA KeptBySame ==
    ASSUME messages' = messages
    PROVE  KeptQuestions' = KeptQuestions /\ KeptAnswers' = KeptAnswers
BY DEF KeptQuestions, KeptAnswers, Ids

\* A request that does not move keeps its verdict.
LEMMA VerdictKept ==
    ASSUME NEW q, pc'[q] = pc[q], reply'[q] = reply[q]
    PROVE  Verdict(q)' = Verdict(q)
BY DEF Verdict

\* Only a request whose handler is running waits for a verdict.
LEMMA VerdictWaits ==
    ASSUME ChatTypeOK, NEW q \in Requests
    PROVE  pc[q] \in {"idle"} \cup Active => Verdict(q) = "waiting"
BY DEF Verdict, Active

\* A request that ends with an error gives up.
LEMMA EndMapsToGiveUp ==
    ASSUME TypeInv, NEW r \in Requests, pc[r] \in {"idle"} \cup Active,
           EndsEarly(r),
           UNCHANGED <<owner, messages>>,
           \A q \in Requests \ {r} : pc'[q] = pc[q] /\ reply'[q] = reply[q]
    PROVE  Contract!Next
<1>1. KeptQuestions' = KeptQuestions /\ KeptAnswers' = KeptAnswers
  BY KeptBySame
<1>2. Verdict(r) = "waiting"
  BY VerdictWaits DEF TypeInv
<1>3. Verdict(r)' = "none"
  BY DEF EndsEarly, Errors, Verdict
<1>4. \A q \in Requests \ {r} : Verdict(q)' = Verdict(q)
  BY VerdictKept
<1>5. [q \in Requests |-> Verdict(q)]' =
        [q \in Requests |-> IF q \in {r} THEN "none" ELSE [p \in Requests |-> Verdict(p)][q]]
  BY <1>3, <1>4
<1>6. Contract!GiveUp({r})
  BY <1>1, <1>2, <1>5 DEF Contract!GiveUp
<1> QED
  BY <1>6 DEF Contract!Next

\* What a step of the contract leaves of its verdicts when only r moves.
LEMMA OneVerdict ==
    ASSUME NEW r \in Requests,
           \A q \in Requests \ {r} : pc'[q] = pc[q] /\ reply'[q] = reply[q]
    PROVE  [q \in Requests |-> Verdict(q)]' =
                [[q \in Requests |-> Verdict(q)] EXCEPT ![r] = Verdict(r)']
<1>1. \A q \in Requests \ {r} : Verdict(q)' = Verdict(q)
  BY VerdictKept
<1> QED
  BY <1>1

\* A new conversation opens one, whatever becomes of the request.
LEMMA StartMapsToOpen ==
    ASSUME TypeInv, NEW r \in Requests, StartConversation(r)
    PROVE  Contract!Next
<1>1. PICK c \in Conversations, o \in Outcome :
        /\ CreateConversation(c, UserOf[r], o)
        /\ IF o = "stored"
           THEN /\ conv' = [conv EXCEPT ![r] = c]
                /\ Goto(r, "resolved")
                /\ UNCHANGED reply
           ELSE Fail(r) /\ UNCHANGED conv
  BY DEF StartConversation
<1>2. pc[r] = "idle" /\ UNCHANGED <<history, job, toolCalls, responses, crashes>>
  BY DEF StartConversation
<1>3. \A q \in Requests \ {r} : pc'[q] = pc[q] /\ reply'[q] = reply[q]
  BY <1>1 DEF Fail, ReplyWith, Goto, TypeInv, ChatTypeOK
<1>4. o # "stored" => EndsEarly(r)
  BY <1>1, <1>2 DEF Fail, ReplyWith, Goto, TypeInv, ChatTypeOK, EndsEarly, Before, Errors
<1>5. CASE o = "lost"
  <2>1. UNCHANGED <<owner, messages>>
    BY <1>1, <1>5 DEF CreateConversation, storeVars
  <2> QED
    BY <1>2, <1>3, <1>4, <1>5, <2>1, EndMapsToGiveUp
<1>6. CASE o # "lost"
  <2>1. /\ owner[c] = Nobody
        /\ owner' = [owner EXCEPT ![c] = UserOf[r]]
        /\ messages' = messages
    BY <1>1, <1>6 DEF CreateConversation
  <2>2. KeptQuestions' = KeptQuestions /\ KeptAnswers' = KeptAnswers
    BY <2>1, KeptBySame
  <2>3. Verdict(r) = "waiting"
    BY <1>2, VerdictWaits DEF TypeInv
  <2>4. Verdict(r)' \in {"waiting", "none"}
    <3>1. CASE o = "stored"
      <4>1. pc'[r] = "resolved"
        BY <1>1, <3>1 DEF Goto, TypeInv, ChatTypeOK
      <4> QED
        BY <4>1 DEF Verdict
    <3>2. CASE o # "stored"
      BY <1>4, <3>2 DEF EndsEarly, Errors, Verdict
    <3> QED
      BY <3>1, <3>2
  <2> DEFINE verdicts == [q \in Requests |-> Verdict(q)]
  <2>5. verdicts' = [verdicts EXCEPT ![r] = Verdict(r)']
    BY <1>3, OneVerdict
  <2>6. verdicts[r] = "waiting" /\ (verdicts' = verdicts \/ verdicts' = [verdicts EXCEPT ![r] = "none"])
    BY <2>3, <2>4, <2>5
  <2>7. Contract!Open(r, c)
    BY <2>1, <2>2, <2>6 DEF Contract!Open
  <2> QED
    BY <2>7 DEF Contract!Next
<1> QED
  BY <1>5, <1>6

\* A stored question is asked, whatever becomes of the request.
LEMMA RecordMapsToAsk ==
    ASSUME AnswerInv, NEW r \in Requests, RecordQuestion(r)
    PROVE  Contract!Next
<1> DEFINE row == UserRow(r)
<1>1. PICK o \in Outcome :
        /\ CreateMessage(row, o)
        /\ IF o = "stored" THEN Goto(r, "recorded") /\ UNCHANGED reply ELSE Fail(r)
  BY DEF RecordQuestion
<1>2. pc[r] = "resolved" /\ UNCHANGED <<conv, history, job, toolCalls, responses, crashes>>
  BY DEF RecordQuestion
<1>3. TypeInv /\ messages \in Seq(Row)
  BY DEF AnswerInv, TypeInv, ChatTypeOK, StoreTypeOK
<1>4. \A q \in Requests \ {r} : pc'[q] = pc[q] /\ reply'[q] = reply[q]
  BY <1>1, <1>3 DEF Fail, ReplyWith, Goto, TypeInv, ChatTypeOK
<1>5. o # "stored" => EndsEarly(r)
  BY <1>1, <1>2, <1>3 DEF Fail, ReplyWith, Goto, TypeInv, ChatTypeOK, EndsEarly, Before, Errors
<1>6. owner' = owner
  BY <1>1 DEF CreateMessage
<1>7. CASE o = "lost"
  <2>1. messages' = messages
    BY <1>1, <1>7 DEF CreateMessage
  <2> QED
    BY <1>2, <1>3, <1>4, <1>5, <1>6, <1>7, <2>1, EndMapsToGiveUp DEF Active
<1>8. CASE o # "lost"
  <2>1. messages' = Append(messages, row)
    BY <1>1, <1>8 DEF CreateMessage
  <2>2. conv[r] \in Conversations /\ owner[conv[r]] = UserOf[r] /\ row \in Row
    BY <1>2, <1>3, RowTypes, ChatAssumption DEF TypeInv, Located, Active
  <2>3. /\ KeptQuestions' = KeptQuestions \cup {[req |-> r, conv |-> conv[r]]}
        /\ KeptAnswers' = KeptAnswers
    <3>1. row.role = "user" /\ row.req = r /\ row.conv = conv[r]
      BY DEF UserRow
    <3> HIDE DEF row
    <3> QED
      BY <1>3, <2>1, <2>2, <3>1, KeptByRow DEF Question
  <2>4. \A question \in KeptQuestions : question.req # r
    BY <1>2 DEF KeptQuestions, AnswerInv, QuestionsKept
  <2>5. Verdict(r) = "waiting"
    BY <1>2, <1>3, VerdictWaits DEF TypeInv, Active
  <2>6. Verdict(r)' \in {"waiting", "none"}
    <3>1. CASE o = "stored"
      <4>1. pc'[r] = "recorded"
        BY <1>1, <1>3, <3>1 DEF Goto, TypeInv, ChatTypeOK
      <4> QED
        BY <4>1 DEF Verdict
    <3>2. CASE o # "stored"
      BY <1>5, <3>2 DEF EndsEarly, Errors, Verdict
    <3> QED
      BY <3>1, <3>2
  <2> DEFINE verdicts == [q \in Requests |-> Verdict(q)]
  <2>7. verdicts' = [verdicts EXCEPT ![r] = Verdict(r)']
    BY <1>4, OneVerdict
  <2>8. verdicts[r] = "waiting" /\ (verdicts' = verdicts \/ verdicts' = [verdicts EXCEPT ![r] = "none"])
    BY <2>5, <2>6, <2>7
  <2>9. Contract!Ask(r, conv[r])
    BY <1>6, <2>2, <2>3, <2>4, <2>8 DEF Contract!Ask
  <2> QED
    BY <2>2, <2>9 DEF Contract!Next
<1> QED
  BY <1>7, <1>8

\* What the contract sees.
contractVars == <<owner, KeptQuestions, KeptAnswers, [q \in Requests |-> Verdict(q)]>>

\* A step that touches no question, no answer, no reply and no owner.
LEMMA QuietStep ==
    ASSUME UNCHANGED owner,
           KeptQuestions' = KeptQuestions /\ KeptAnswers' = KeptAnswers,
           \A q \in Requests : Verdict(q)' = Verdict(q)
    PROVE  UNCHANGED contractVars
BY DEF contractVars

\* A stored answer is the first of its provider to its question.
LEMMA PersistMapsToAnswer ==
    ASSUME AnswerInv, NEW r \in Requests, PersistAssistantMessageSafely(r)
    PROVE  Contract!Next \/ UNCHANGED contractVars
<1> DEFINE k == Len(responses[r]) + 1
           p == Registry[k]
           st == JobStatus(r, p)
           row == AnswerRow(r, p, st)
<1>1. PICK o \in Outcome : CreateMessage(row, o)
  BY DEF PersistAssistantMessageSafely
<1>2. /\ pc[r] = "saving"
      /\ k <= Len(Registry)
      /\ UNCHANGED <<pc, conv, history, job, toolCalls, reply, crashes>>
  BY DEF PersistAssistantMessageSafely
<1>3. TypeInv /\ messages \in Seq(Row) /\ responses[r] \in Seq(Response)
  BY DEF AnswerInv, TypeInv, ChatTypeOK, StoreTypeOK
<1>4. k \in 1..Len(Registry)
  BY <1>2, <1>3, ChatAssumption DEF ChatAssumption
<1>5. p \in Providers /\ st \in {"success", "failed"}
  BY <1>4, ChatAssumption DEF JobStatus, ChatAssumption
<1>6. conv[r] \in Conversations /\ row \in Row
  BY <1>2, <1>3, <1>5, RowTypes, ChatAssumption DEF TypeInv, Located, Active
<1>7. owner' = owner /\ \A q \in Requests : Verdict(q)' = Verdict(q)
  BY <1>1, <1>2 DEF CreateMessage, Verdict
<1>8. CASE o = "lost"
  <2>1. messages' = messages
    BY <1>1, <1>8 DEF CreateMessage
  <2> QED
    BY <1>7, <2>1, KeptBySame, QuietStep
<1>9. CASE o # "lost"
  <2>1. messages' = Append(messages, row)
    BY <1>1, <1>9 DEF CreateMessage
  <2>2. /\ KeptQuestions' = KeptQuestions
        /\ KeptAnswers' = KeptAnswers \cup
                {[req |-> r, conv |-> conv[r], provider |-> p, status |-> st]}
    <3>1. /\ row.role = "assistant" /\ row.req = r /\ row.conv = conv[r]
          /\ row.provider = p /\ row.status = st
      BY DEF AnswerRow
    <3> HIDE DEF row, p, st
    <3> QED
      BY <1>3, <1>6, <2>1, <3>1, KeptByRow DEF Answer
  <2>3. [req |-> r, conv |-> conv[r]] \in KeptQuestions
    <3>1. PICK j \in Ids : /\ messages[j].role = "user"
                           /\ messages[j].req = r
                           /\ messages[j].conv = conv[r]
      BY <1>2 DEF AnswerInv, QuestionsKept, Asked
    <3> QED
      BY <3>1 DEF KeptQuestions
  <2>4. ASSUME NEW i \in Ids, messages[i].role = "assistant", messages[i].req = r,
               messages[i].provider = p
        PROVE  FALSE
    <3>1. PICK n \in 1..Len(responses[r]) : messages[i].provider = Registry[n]
      BY <2>4 DEF AnswerInv, RowsInTurn
    <3>2. n \in 1..Len(Registry) /\ n # k
      BY <1>3, <1>4
    <3> QED
      BY <1>4, <2>4, <3>1, <3>2, ChatAssumption DEF ChatAssumption
  <2>5. \A answer \in KeptAnswers : ~(answer.req = r /\ answer.provider = p)
    BY <2>4 DEF KeptAnswers
  <2>6. Verdict(r) = "waiting"
    BY <1>2, <1>3, VerdictWaits DEF TypeInv, Active
  <2> HIDE DEF p, st
  <2>7. Contract!Answer(r, conv[r], p, st)
    BY <1>7, <2>2, <2>3, <2>5, <2>6 DEF Contract!Answer
  <2> QED
    BY <1>5, <1>6, <2>7 DEF Contract!Next
<1> QED
  BY <1>8, <1>9

\* A reply concludes, and contradicts no answer that is kept.
LEMMA ReplyMapsToConclude ==
    ASSUME AnswerInv, NEW r \in Requests, SendReply(r)
    PROVE  Contract!Next
<1> DEFINE v == SummarizeProviderResponses(responses[r])
<1>1. /\ pc[r] = "saving"
      /\ Len(responses[r]) = Len(Registry)
      /\ ReplyWith(r, v, SelectCompatibilityResponse(responses[r]))
      /\ UNCHANGED <<storeVars, conv, history, job, toolCalls, responses, faults, crashes>>
  BY DEF SendReply
<1>2. TypeInv
  BY DEF AnswerInv
<1>3. /\ pc'[r] = "done" /\ reply'[r].status = v
      /\ \A q \in Requests \ {r} : pc'[q] = pc[q] /\ reply'[q] = reply[q]
  BY <1>1, <1>2 DEF ReplyWith, Goto, TypeInv, ChatTypeOK
<1>4. /\ v \in Verdicts
      /\ v = "success" => \A p \in Configured : job[r][p] = "fulfilled"
      /\ v = "failed" => \A p \in Configured : job[r][p] = "rejected"
  BY <1>1, SummaryTellsOutcome
<1>5. UNCHANGED owner /\ KeptQuestions' = KeptQuestions /\ KeptAnswers' = KeptAnswers
  BY <1>1, KeptBySame DEF storeVars
<1>6. Verdict(r) = "waiting" /\ Verdict(r)' = v
  <2>1. Verdict(r) = "waiting"
    BY <1>1, <1>2, VerdictWaits DEF TypeInv, Active
  <2>2. Verdict(r)' = v
    BY <1>3, <1>4 DEF Verdict, Verdicts
  <2> QED
    BY <2>1, <2>2
<1>7. [q \in Requests |-> Verdict(q)]' = [[q \in Requests |-> Verdict(q)] EXCEPT ![r] = v]
  BY <1>3, <1>6, OneVerdict
<1>8. \E question \in KeptQuestions : question.req = r
  <2>1. PICK j \in Ids : messages[j].role = "user" /\ messages[j].req = r
    BY <1>1 DEF AnswerInv, QuestionsKept, Asked
  <2>2. [req |-> r, conv |-> messages[j].conv] \in KeptQuestions
    BY <2>1 DEF KeptQuestions
  <2> QED
    BY <2>2
<1>9. ASSUME NEW i \in Ids, messages[i].role = "assistant", messages[i].req = r
      PROVE  \E p \in Configured : messages[i].status = JobStatus(r, p)
  <2>1. PICK k \in 1..Len(responses[r]) : messages[i].provider = Registry[k]
    BY <1>9 DEF AnswerInv, RowsInTurn
  <2>2. Registry[k] \in Configured
    BY <1>1, <2>1 DEF Configured
  <2> QED
    BY <1>9, <2>1, <2>2 DEF AnswerInv, RowsInTurn
<1>10. \A answer \in KeptAnswers : answer.req = r =>
            \E p \in Configured : answer.status = JobStatus(r, p)
  BY <1>9 DEF KeptAnswers
<1>11. /\ v = "success" => \A answer \in KeptAnswers : answer.req = r => answer.status = "success"
       /\ v = "failed" => \A answer \in KeptAnswers : answer.req = r => answer.status = "failed"
  BY <1>4, <1>10 DEF JobStatus
<1>12. Contract!Conclude(r, v)
  BY <1>5, <1>6, <1>7, <1>8, <1>11 DEF Contract!Conclude
<1> QED
  BY <1>4, <1>12 DEF Contract!Next, Verdicts

\* The death of the process gives up every request at work.
LEMMA CrashMapsToGiveUp ==
    ASSUME TypeInv, Crash
    PROVE  Contract!Next
<1> DEFINE S == {q \in Requests : pc[q] \in Active}
<1>1. S # {} /\ S \in SUBSET Requests
  BY DEF Crash
<1>2. UNCHANGED owner /\ KeptQuestions' = KeptQuestions /\ KeptAnswers' = KeptAnswers
  BY KeptBySame DEF Crash, storeVars
<1>3. \A q \in S : Verdict(q) = "waiting"
  BY VerdictWaits DEF TypeInv
<1>4. \A q \in S : Verdict(q)' = "none"
  BY DEF Crash, Verdict
<1>5. \A q \in Requests \ S : Verdict(q)' = Verdict(q)
  BY VerdictKept DEF Crash
<1>6. [q \in Requests |-> Verdict(q)]' =
        [q \in Requests |-> IF q \in S THEN "none" ELSE [p \in Requests |-> Verdict(p)][q]]
  BY <1>4, <1>5
<1>7. Contract!GiveUp(S)
  <2> HIDE DEF S
  <2>1. \A q \in S : q \in Requests
    BY <1>1
  <2> QED
    BY <1>1, <1>2, <1>3, <1>6, <2>1 DEF Contract!GiveUp
<1> QED
  BY <1>1, <1>7 DEF Contract!Next

\* Steps of the providers, tools and lookups are not seen.
LEMMA OthersAreQuiet ==
    ASSUME TypeInv, NEW r \in Requests,
           \/ ReuseConversation(r) \/ AskProviders(r) \/ AllSettled(r)
           \/ \E p \in Configured :
                \/ JobFails(r, p) \/ ReceiveHeaders(r, p) \/ JobAnswers(r, p)
                \/ RequestTools(r, p) \/ ExecuteToolCall(r, p)
    PROVE  UNCHANGED contractVars
<1>1. CASE ReuseConversation(r) \/ AskProviders(r) \/ AllSettled(r)
  <2>1. UNCHANGED <<owner, messages, reply>>
    BY <1>1 DEF ReuseConversation, AskProviders, AllSettled, storeVars
  <2>2. \E place \in {"resolved", "asking", "saving"} : pc' = [pc EXCEPT ![r] = place]
    BY <1>1 DEF ReuseConversation, AskProviders, AllSettled, Goto
  <2>3. pc[r] \in {"idle", "recorded", "asking"}
    BY <1>1 DEF ReuseConversation, AskProviders, AllSettled
  <2>4. ASSUME NEW q \in Requests PROVE Verdict(q)' = Verdict(q)
    BY <2>1, <2>2, <2>3 DEF Verdict, TypeInv, ChatTypeOK
  <2> QED
    BY <2>1, <2>4, KeptBySame, QuietStep
<1>2. ASSUME NEW p \in Configured,
             JobFails(r, p) \/ ReceiveHeaders(r, p) \/ JobAnswers(r, p) \/ RequestTools(r, p)
      PROVE  UNCHANGED contractVars
  <2>1. UNCHANGED <<owner, messages, pc, reply>>
    BY <1>2 DEF JobFails, ReceiveHeaders, JobAnswers, RequestTools, storeVars
  <2> QED
    BY <2>1, KeptBySame, VerdictKept, QuietStep
<1>3. ASSUME NEW p \in Configured, ExecuteToolCall(r, p)
      PROVE  UNCHANGED contractVars
  <2>1. PICK o \in Outcome : CreateMessage(ToolRow(r, p), o)
    BY <1>3 DEF ExecuteToolCall
  <2>2. UNCHANGED <<owner, pc, reply>>
    BY <1>3, <2>1 DEF ExecuteToolCall, CreateMessage
  <2>3. KeptQuestions' = KeptQuestions /\ KeptAnswers' = KeptAnswers
    <3>1. CASE o = "lost"
      BY <2>1, <3>1, KeptBySame DEF CreateMessage
    <3>2. CASE o # "lost"
      <4>1. messages' = Append(messages, ToolRow(r, p)) /\ messages \in Seq(Row)
        BY <2>1, <3>2 DEF CreateMessage, TypeInv, ChatTypeOK, StoreTypeOK
      <4>2. p \in Providers
        BY ChatAssumption DEF Configured, ChatAssumption
      <4>3. pc[r] = "asking"
        BY <1>3, <4>2 DEF ExecuteToolCall, Alive, TypeInv, JobsStarted, Settled
      <4>4. ToolRow(r, p) \in Row
        BY <4>2, <4>3, RowTypes, ChatAssumption DEF TypeInv, Located, Active
      <4>5. ToolRow(r, p).role = "tool"
        BY DEF ToolRow
      <4> QED
        BY <4>1, <4>4, <4>5, KeptByRow
    <3> QED
      BY <3>1, <3>2
  <2> QED
    BY <2>2, <2>3, VerdictKept, QuietStep
<1> QED
  BY <1>1, <1>2, <1>3

\* POST /chat implements its contract, for any number of requests, users,
\* conversations, providers, failing queries and crashes.
THEOREM ChatImplementsContract == Spec => ImplementsContract
<1>1. ChatInit => Contract!Init
  <2> SUFFICES ASSUME ChatInit PROVE Contract!Init
    OBVIOUS
  <2>1. Ids = {}
    BY DEF ChatInit, StoreInit, Ids
  <2>2. KeptQuestions = {} /\ KeptAnswers = {}
    BY <2>1 DEF KeptQuestions, KeptAnswers
  <2>3. \A q \in Requests : Verdict(q) = "waiting"
    BY DEF ChatInit, Verdict
  <2> QED
    BY <2>2, <2>3 DEF Contract!Init, ChatInit, StoreInit
<1>2. AnswerInv /\ [Next]_vars => [Contract!Next]_(Contract!vars)
  <2> SUFFICES ASSUME AnswerInv, [Next]_vars
               PROVE  Contract!Next \/ UNCHANGED contractVars
    BY DEF Contract!vars, contractVars
  <2>1. TypeInv
    BY DEF AnswerInv
  <2>2. ASSUME NEW r \in Requests, Refuse(r) \/ ReadFails(r) PROVE Contract!Next
    <3>1. /\ pc[r] \in {"idle", "recorded"}
          /\ UNCHANGED <<owner, messages, conv, responses>>
          /\ \E s \in Errors : ReplyWith(r, s, NoProvider)
      BY <2>2 DEF Refuse, ReadFails, Fail, Errors, storeVars
    <3>2. EndsEarly(r) /\ \A q \in Requests \ {r} : pc'[q] = pc[q] /\ reply'[q] = reply[q]
      BY <2>1, <3>1 DEF EndsEarly, ReplyWith, Goto, TypeInv, ChatTypeOK, Before
    <3> QED
      BY <2>1, <3>1, <3>2, EndMapsToGiveUp DEF Active
  <2>3. CASE UNCHANGED vars
    <3>1. UNCHANGED <<owner, messages, pc, reply>>
      BY <2>3 DEF vars, storeVars, requestVars
    <3> QED
      BY <3>1, KeptBySame, VerdictKept, QuietStep
  <2> QED
    BY <2>1, <2>2, <2>3, StartMapsToOpen, RecordMapsToAsk, PersistMapsToAnswer,
       ReplyMapsToConclude, CrashMapsToGiveUp, OthersAreQuiet DEF Next, Work
<1> QED
  BY <1>1, <1>2, AnswerInvInitially, AnswerInvPreserved, PTL
     DEF Spec, ImplementsContract, Contract!Spec
=============================================================================
