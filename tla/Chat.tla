-------------------------------- MODULE Chat --------------------------------
(***************************************************************************)
(* POST /chat (index.mjs): concurrent requests over the shared store.  A   *)
(* request resolves its conversation, stores the question, reads the       *)
(* history, asks every configured provider in parallel, stores the answers *)
(* one after the other and replies.  Node runs one handler at a time and   *)
(* switches only at an await, so a step of a request is what it does from  *)
(* one await to the next.  A query can fail, a provider can fail or time   *)
(* out, a tool call writes to the conversation while the other provider is *)
(* still answering, and the process can die with requests in flight.       *)
(*                                                                         *)
(* Retrieval (RAG) runs between the history and the providers; it changes  *)
(* no state and all its failures are caught, so it is no step here.        *)
(***************************************************************************)
EXTENDS ChatStore

CONSTANTS
    UserOf,         \* the authenticated user of a request (req.user.userId)
    Registry,       \* the configured providers, in registry order
    ToolProviders,  \* those asked through runModelWithTools
    PromptLimit,    \* the limit buildProviderHistory falls back to
    MaxToolCalls,   \* bound: distinct tool calls in one completion
    MaxFaults,      \* bound: failing queries in a behaviour
    MaxCrashes      \* bound: deaths of the server process

NoConversation == "new"

\* The configuration is refused without a provider (config.mjs:252).
ASSUME ChatAssumption ==
    /\ UserOf \in [Requests -> Users]
    /\ Registry \in Seq(Providers) \ {<<>>}
    /\ \A i, j \in 1..Len(Registry) : Registry[i] = Registry[j] => i = j
    /\ ToolProviders \subseteq Providers
    /\ PromptLimit \in Nat \ {0}
    /\ MaxToolCalls \in Nat
    /\ MaxFaults \in Nat
    /\ MaxCrashes \in Nat
    /\ NoConversation \notin Conversations

VARIABLES
    pc,         \* where a request is
    conv,       \* the conversation it resolved
    history,    \* ids of the rows getMessagesForLlm returned to it
    job,        \* what its provider jobs are doing
    toolCalls,  \* tool calls a job still has to execute
    responses,  \* the entries of the responses array, in order
    reply,      \* its HTTP reply
    faults,     \* failing queries so far
    crashes     \* deaths of the process so far

requestVars == <<pc, conv, history, job, toolCalls, responses, reply>>
vars == <<storeVars, requestVars, faults, crashes>>

Configured == {Registry[k] : k \in 1..Len(Registry)}

JobState == {"none", "first", "body", "tools", "second", "fulfilled", "rejected"}
Settled == {"fulfilled", "rejected"}
Active == {"resolved", "recorded", "asking", "saving"}

Response == [provider : Providers, status : {"success", "failed"},
             persistence : {"persisted", "failed"}, row : Nat]
Reply == [status : {"none", "refused", "error", "failed", "partial_success", "success"},
          provider : Providers \cup {NoProvider}]
NoReply == [status |-> "none", provider |-> NoProvider]

ChatInit ==
    /\ StoreInit
    /\ pc = [r \in Requests |-> "idle"]
    /\ conv = [r \in Requests |-> NoConversation]
    /\ history = [r \in Requests |-> {}]
    /\ job = [r \in Requests |-> [p \in Providers |-> "none"]]
    /\ toolCalls = [r \in Requests |-> [p \in Providers |-> 0]]
    /\ responses = [r \in Requests |-> <<>>]
    /\ reply = [r \in Requests |-> NoReply]
    /\ faults = 0
    /\ crashes = 0
-----------------------------------------------------------------------------
Goto(r, place) == pc' = [pc EXCEPT ![r] = place]

ReplyWith(r, status, provider) ==
    /\ Goto(r, "done")
    /\ reply' = [reply EXCEPT ![r] = [status |-> status, provider |-> provider]]

\* A query or query sequence that ended with outcome o.
Fault(o) ==
    /\ o # "stored" => faults < MaxFaults
    /\ faults' = IF o = "stored" THEN faults ELSE faults + 1

\* The catch block of the handler: an error reply, whatever has been stored.
Fail(r) == ReplyWith(r, "error", NoProvider)

UserRow(r) ==
    [conv |-> conv[r], role |-> "user", provider |-> NoProvider,
     status |-> "none", user |-> UserOf[r], req |-> r]
ToolRow(r, p) ==
    [conv |-> conv[r], role |-> "tool", provider |-> p,
     status |-> "none", user |-> UserOf[r], req |-> r]
AnswerRow(r, p, s) ==
    [conv |-> conv[r], role |-> "assistant", provider |-> p,
     status |-> s, user |-> UserOf[r], req |-> r]

\* Mutant: the answers of the other providers are let through.
MixedProviders(m, p) ==
    \/ m.role = "user"
    \/ m.role = "assistant" /\ m.status = "success"

\* The part of the history a provider is given: the questions, and the
\* answers it gave itself and gave successfully.
ForProvider(m, p) ==
    \/ m.role = "user"
    \/ m.role = "assistant" /\ m.status = "success" /\ m.provider = p

BuildProviderHistory(ids, p) ==
    Newest({i \in ids : ForProvider(messages[i], p)}, PromptLimit)

Prompt(r, p) == BuildProviderHistory(history[r], p)
-----------------------------------------------------------------------------
(***************************************************************************)
(* Summary of a responses array.                                           *)
(***************************************************************************)
Successes(rs) == {k \in 1..Len(rs) : rs[k].status = "success"}

\* Mutant: one success is taken for success of all.
AnySuccess(rs) == IF Successes(rs) # {} THEN "success" ELSE "failed"

SummarizeProviderResponses(rs) ==
    IF Successes(rs) = {} THEN "failed"
    ELSE IF Successes(rs) = 1..Len(rs) THEN "success" ELSE "partial_success"

\* The first successful response, for clients that show one answer.
SelectCompatibilityResponse(rs) ==
    LET first == {k \in Successes(rs) : \A j \in Successes(rs) : k <= j}
    IN  IF first = {} THEN NoProvider ELSE rs[CHOOSE k \in first : TRUE].provider
-----------------------------------------------------------------------------
(***************************************************************************)
(* The steps of a request.                                                 *)
(***************************************************************************)

\* No valid token, forceError, or a blank message: nothing is touched.
Refuse(r) ==
    /\ pc[r] = "idle"
    /\ ReplyWith(r, "refused", NoProvider)
    /\ UNCHANGED <<storeVars, conv, history, job, toolCalls, responses, faults, crashes>>

\* The body names a conversation of the caller: it is used.
ReuseConversation(r) ==
    /\ pc[r] = "idle"
    /\ \E c \in Conversations :
        /\ GetConversationByIdForUser(c, UserOf[r])
        /\ conv' = [conv EXCEPT ![r] = c]
    /\ Goto(r, "resolved")
    /\ UNCHANGED <<storeVars, history, job, toolCalls, responses, reply, faults, crashes>>

\* No id, or one that is not a conversation of the caller (never existed, or
\* is somebody else's): a conversation is created.
StartConversation(r) ==
    /\ pc[r] = "idle"
    /\ \E c \in Conversations, o \in Outcome :
        /\ CreateConversation(c, UserOf[r], o)
        /\ Fault(o)
        /\ IF o = "stored"
           THEN /\ conv' = [conv EXCEPT ![r] = c]
                /\ Goto(r, "resolved")
                /\ UNCHANGED reply
           ELSE Fail(r) /\ UNCHANGED conv
    /\ UNCHANGED <<history, job, toolCalls, responses, crashes>>

\* The query that looks the conversation up, or the one that reads the
\* history, fails.
ReadFails(r) ==
    /\ pc[r] \in {"idle", "recorded"}
    /\ Fault("lost")
    /\ Fail(r)
    /\ UNCHANGED <<storeVars, conv, history, job, toolCalls, responses, crashes>>

\* Mutant: a question that could not be stored is asked all the same.
RecordQuestionSafely(r) ==
    /\ pc[r] = "resolved"
    /\ \E o \in Outcome : CreateMessage(UserRow(r), o) /\ Fault(o)
    /\ Goto(r, "recorded")
    /\ UNCHANGED <<conv, history, job, toolCalls, responses, reply, crashes>>

\* The question is stored; if it cannot be, the request is over.
RecordQuestion(r) ==
    /\ pc[r] = "resolved"
    /\ \E o \in Outcome :
        /\ CreateMessage(UserRow(r), o)
        /\ Fault(o)
        /\ IF o = "stored" THEN Goto(r, "recorded") /\ UNCHANGED reply ELSE Fail(r)
    /\ UNCHANGED <<conv, history, job, toolCalls, responses, crashes>>

\* The history is read and every provider job is started.
AskProviders(r) ==
    /\ pc[r] = "recorded"
    /\ history' = [history EXCEPT ![r] = RecentMessages(conv[r], HistoryLimit)]
    /\ job' = [job EXCEPT ![r] = [p \in Providers |->
                    IF p \in Configured THEN "first" ELSE "none"]]
    /\ Goto(r, "asking")
    /\ UNCHANGED <<storeVars, conv, toolCalls, responses, reply, faults, crashes>>
-----------------------------------------------------------------------------
(***************************************************************************)
(* The provider jobs of a request, which interleave with each other and    *)
(* with everything else.                                                   *)
(***************************************************************************)
Alive(r) == pc[r] # "crashed"

SetJob(r, p, s) == job' = [job EXCEPT ![r][p] = s]

\* The completion fails or its timeout fires (first and second completion,
\* HTTP call to Azure), or the body Azure sent is an error.
JobFails(r, p) ==
    /\ Alive(r)
    /\ job[r][p] \in {"first", "body", "second"}
    /\ SetJob(r, p, "rejected")
    /\ UNCHANGED <<storeVars, pc, conv, history, toolCalls, responses, reply, faults, crashes>>

\* runAzureFoundryModel got the headers, inside its timeout; the body is
\* read outside of it.
ReceiveHeaders(r, p) ==
    /\ Alive(r)
    /\ p \notin ToolProviders
    /\ job[r][p] = "first"
    /\ SetJob(r, p, "body")
    /\ UNCHANGED <<storeVars, pc, conv, history, toolCalls, responses, reply, faults, crashes>>

\* The answer is complete: no tool call was asked for, or the body of the
\* response or the second completion has arrived.
JobAnswers(r, p) ==
    /\ Alive(r)
    /\ job[r][p] \in (IF p \in ToolProviders THEN {"first", "second"} ELSE {"body"})
    /\ SetJob(r, p, "fulfilled")
    /\ UNCHANGED <<storeVars, pc, conv, history, toolCalls, responses, reply, faults, crashes>>

\* The first completion asks for tools; a call it repeats counts once.
RequestTools(r, p) ==
    /\ Alive(r)
    /\ p \in ToolProviders
    /\ job[r][p] = "first"
    /\ \E n \in 1..MaxToolCalls : toolCalls' = [toolCalls EXCEPT ![r][p] = n]
    /\ SetJob(r, p, "tools")
    /\ UNCHANGED <<storeVars, pc, conv, history, responses, reply, faults, crashes>>

\* One tool is run and its result stored; a query that fails rejects the job.
ExecuteToolCall(r, p) ==
    /\ Alive(r)
    /\ job[r][p] = "tools"
    /\ \E o \in Outcome :
        /\ CreateMessage(ToolRow(r, p), o)
        /\ Fault(o)
        /\ SetJob(r, p, CASE o # "stored" -> "rejected"
                          [] o = "stored" /\ toolCalls[r][p] > 1 -> "tools"
                          [] OTHER -> "second")
    /\ toolCalls' = [toolCalls EXCEPT ![r][p] = @ - 1]
    /\ UNCHANGED <<pc, conv, history, responses, reply, crashes>>

\* Mutant: the answers are stored as soon as one provider has settled.
FirstSettled(r) ==
    /\ pc[r] = "asking"
    /\ \E p \in Configured : job[r][p] \in Settled
    /\ Goto(r, "saving")
    /\ UNCHANGED <<storeVars, conv, history, job, toolCalls, responses, reply, faults, crashes>>

\* Mutant: Promise.all, with nobody waiting for the rejection.
AllFulfilled(r) ==
    /\ pc[r] = "asking"
    /\ \A p \in Configured : job[r][p] = "fulfilled"
    /\ Goto(r, "saving")
    /\ UNCHANGED <<storeVars, conv, history, job, toolCalls, responses, reply, faults, crashes>>

\* Promise.allSettled: all jobs are over, whatever their results.
AllSettled(r) ==
    /\ pc[r] = "asking"
    /\ \A p \in Configured : job[r][p] \in Settled
    /\ Goto(r, "saving")
    /\ UNCHANGED <<storeVars, conv, history, job, toolCalls, responses, reply, faults, crashes>>
-----------------------------------------------------------------------------
JobStatus(r, p) == IF job[r][p] = "fulfilled" THEN "success" ELSE "failed"

\* The next answer, in registry order, is stored and added to the reply.  A
\* query that fails is logged and reported in the entry, nothing more.
PersistAssistantMessageSafely(r) ==
    LET k == Len(responses[r]) + 1
        p == Registry[k]
        s == JobStatus(r, p)
    IN  /\ pc[r] = "saving"
        /\ k <= Len(Registry)
        /\ \E o \in Outcome :
            /\ CreateMessage(AnswerRow(r, p, s), o)
            /\ Fault(o)
            /\ responses' = [responses EXCEPT ![r] = Append(@,
                    [provider |-> p, status |-> s,
                     persistence |-> IF o = "stored" THEN "persisted" ELSE "failed",
                     row |-> IF o = "stored" THEN Len(messages) + 1 ELSE 0])]
        /\ UNCHANGED <<pc, conv, history, job, toolCalls, reply, crashes>>

\* 200 with the summary, or 503 when no provider succeeded.
SendReply(r) ==
    /\ pc[r] = "saving"
    /\ Len(responses[r]) = Len(Registry)
    /\ ReplyWith(r, SummarizeProviderResponses(responses[r]),
                    SelectCompatibilityResponse(responses[r]))
    /\ UNCHANGED <<storeVars, conv, history, job, toolCalls, responses, faults, crashes>>

\* The process dies; what has been stored stays, the rest is gone.
Crash ==
    /\ crashes < MaxCrashes
    /\ \E r \in Requests : pc[r] \in Active
    /\ crashes' = crashes + 1
    /\ pc' = [r \in Requests |-> IF pc[r] \in Active THEN "crashed" ELSE pc[r]]
    /\ UNCHANGED <<storeVars, conv, history, job, toolCalls, responses, reply, faults>>

\* What the server does for an accepted request.
Work(r) ==
    \/ RecordQuestion(r)
    \/ AskProviders(r)
    \/ AllSettled(r)
    \/ PersistAssistantMessageSafely(r)
    \/ SendReply(r)
    \/ \E p \in Configured :
        \/ JobFails(r, p)
        \/ ReceiveHeaders(r, p)
        \/ JobAnswers(r, p)
        \/ RequestTools(r, p)
        \/ ExecuteToolCall(r, p)

Next ==
    \/ \E r \in Requests :
        \/ Refuse(r)
        \/ ReuseConversation(r)
        \/ StartConversation(r)
        \/ ReadFails(r)
        \/ Work(r)
    \/ Crash

Spec == ChatInit /\ [][Next]_vars

\* Continuations of settled promises run, every query and every provider call
\* ends: a completion has its timeout, and the runtime bounds the reading of a
\* response body.
FairSpec == Spec /\ \A r \in Requests : WF_vars(Work(r))
-----------------------------------------------------------------------------
ChatTypeOK ==
    /\ StoreTypeOK
    /\ pc \in [Requests -> {"idle", "done", "crashed"} \cup Active]
    /\ conv \in [Requests -> Conversations \cup {NoConversation}]
    /\ history \in [Requests -> SUBSET Nat]
    /\ job \in [Requests -> [Providers -> JobState]]
    /\ toolCalls \in [Requests -> [Providers -> Nat]]
    /\ responses \in [Requests -> Seq(Response)]
    /\ reply \in [Requests -> Reply]
    /\ faults \in 0..MaxFaults
    /\ crashes \in 0..MaxCrashes

\* Conversations are kept apart by user (docs/toy-chat-architecture.txt:9):
\* every row of a conversation was written for its owner, and so will be
\* every row a request in flight is going to write.
ConversationsAreSeparate ==
    /\ \A i \in Ids : messages[i].user = owner[messages[i].conv]
    /\ \A r \in Requests : pc[r] \in Active =>
        conv[r] \in Conversations /\ owner[conv[r]] = UserOf[r]

\* What a provider is told: only rows of the conversation of the request and
\* of its user, only questions and answers the same provider really gave
\* (docs/toy-chat-architecture.txt:11), whatever other requests, tools and
\* failed saves are writing at the same time.
PromptIsOwnAndSuccessful ==
    \A r \in Requests : pc[r] = "asking" =>
        \A p \in Configured : \A i \in Prompt(r, p) :
            /\ messages[i].conv = conv[r]
            /\ messages[i].user = UserOf[r]
            /\ \/ messages[i].role = "user"
               \/ /\ messages[i].role = "assistant"
                  /\ messages[i].provider = p
                  /\ job[messages[i].req][p] = "fulfilled"

\* The question reaches every provider, unless so many rows of other
\* requests came after it, before the history was read, that they fill the
\* prompt or the window the history is read through.
QuestionReachesProviders ==
    \A r \in Requests : pc[r] = "asking" =>
        \A p \in Configured : \A i \in Ids :
            /\ messages[i].req = r
            /\ messages[i].role = "user"
            /\ Cardinality({j \in i + 1..Len(messages) :
                    /\ messages[j].conv = conv[r]
                    /\ messages[j].req # r})
                 < AtMost(PromptLimit, HistoryLimit)
            => i \in Prompt(r, p)

\* A tool result or an answer is stored after the question it belongs to, in
\* the same conversation.
AnswersFollowTheirQuestion ==
    \A i \in Ids : messages[i].role # "user" =>
        \E j \in 1..i - 1 :
            /\ messages[j].role = "user"
            /\ messages[j].req = messages[i].req
            /\ messages[j].conv = messages[i].conv

\* A request stores one question and one answer per provider, even when the
\* save was reported as failed.
OneRowPerAnswer ==
    \A i, j \in Ids :
        /\ messages[i].req = messages[j].req
        /\ messages[i].role = messages[j].role
        /\ messages[i].role # "tool"
        /\ messages[i].provider = messages[j].provider
        => i = j

\* What the reply says agrees with the store: an entry reported as persisted
\* is the row it names, with the outcome it reports; a success hides no
\* failed provider, a failure no successful one; the compatibility message is
\* an answer, and the first one.
ReplyAgreesWithStore ==
    \A r \in Requests :
        /\ \A k \in 1..Len(responses[r]) :
            LET e == responses[r][k]
            IN  e.persistence = "persisted" =>
                    /\ e.row \in Ids
                    /\ messages[e.row] = AnswerRow(r, e.provider, e.status)
        /\ reply[r].status \in {"success", "partial_success", "failed"} =>
            /\ (reply[r].status = "success") <=>
                    \A p \in Configured : job[r][p] = "fulfilled"
            /\ (reply[r].status = "failed") <=>
                    \A p \in Configured : job[r][p] = "rejected"
            /\ reply[r].status # "failed" =>
                \E k \in 1..Len(Registry) :
                    /\ reply[r].provider = Registry[k]
                    /\ job[r][Registry[k]] = "fulfilled"
                    /\ \A n \in 1..k - 1 : job[r][Registry[n]] = "rejected"

\* Every accepted request gets a reply, unless the process dies: a provider
\* that fails, a tool that fails or a save that fails never leaves it
\* hanging.
EveryRequestEnds ==
    \A r \in Requests : pc[r] \in Active ~> pc[r] \in {"done", "crashed"}

\* A request that has been replied to is over: no late provider, tool or save
\* writes for it any more.
NothingAfterTheReply ==
    [][\A i \in Len(messages) + 1..Len(messages') :
            pc[messages'[i].req] \notin {"done", "crashed"}]_vars

\* The operator chooses how much context the model gets:
\* docs/toy-chat-operations.txt:8 says the LLM context is 80 messages by
\* default and LLM_HISTORY_MESSAGE_LIMIT changes it.
ContextIsConfigured ==
    \A r \in Requests : pc[r] = "asking" =>
        \A p \in Configured :
            Prompt(r, p) =
                Newest({i \in history[r] : ForProvider(messages[i], p)}, HistoryLimit)

\* What the contract sees: the questions and answers that are kept, and the
\* verdict on the providers a request was given.
KeptQuestions ==
    {[req |-> messages[i].req, conv |-> messages[i].conv] :
        i \in {j \in Ids : messages[j].role = "user"}}
KeptAnswers ==
    {[req |-> messages[i].req, conv |-> messages[i].conv,
      provider |-> messages[i].provider, status |-> messages[i].status] :
        i \in {j \in Ids : messages[j].role = "assistant"}}
Verdict(r) ==
    CASE pc[r] = "crashed" -> "none"
      [] pc[r] = "done" /\ reply[r].status \in {"refused", "error"} -> "none"
      [] pc[r] = "done" /\ reply[r].status \notin {"refused", "error"} -> reply[r].status
      [] OTHER -> "waiting"

\* The contract POST /chat implements.
Contract == INSTANCE ChatContract WITH
    questions <- KeptQuestions,
    answers <- KeptAnswers,
    verdict <- [r \in Requests |-> Verdict(r)]

\* POST /chat implements its contract.
ImplementsContract == Contract!Spec
=============================================================================
