---------------------------- MODULE ChatContract ----------------------------
(***************************************************************************)
(* What POST /chat promises, whatever the order of its queries: a question *)
(* is kept once, in a conversation of the user who asked it; answers are   *)
(* kept only after their question, at most one per provider and in the     *)
(* same conversation; and the verdict a client reads never contradicts     *)
(* what has been kept.                                                     *)
(***************************************************************************)
CONSTANTS Users, Conversations, Requests, Providers, UserOf, Nobody

VARIABLES
    owner,      \* whose a conversation is
    questions,  \* [req, conv]
    answers,    \* [req, conv, provider, status]
    verdict     \* per request: waiting, success, partial_success, failed, none

vars == <<owner, questions, answers, verdict>>

Init ==
    /\ owner = [c \in Conversations |-> Nobody]
    /\ questions = {}
    /\ answers = {}
    /\ verdict = [r \in Requests |-> "waiting"]

Open(r, c) ==
    /\ verdict[r] = "waiting"
    /\ owner[c] = Nobody
    /\ owner' = [owner EXCEPT ![c] = UserOf[r]]
    /\ \/ UNCHANGED verdict
       \/ verdict' = [verdict EXCEPT ![r] = "none"]
    /\ UNCHANGED <<questions, answers>>

Ask(r, c) ==
    /\ verdict[r] = "waiting"
    /\ owner[c] = UserOf[r]
    /\ \A q \in questions : q.req # r
    /\ questions' = questions \cup {[req |-> r, conv |-> c]}
    /\ \/ UNCHANGED verdict
       \/ verdict' = [verdict EXCEPT ![r] = "none"]
    /\ UNCHANGED <<owner, answers>>

Answer(r, c, p, s) ==
    /\ verdict[r] = "waiting"
    /\ [req |-> r, conv |-> c] \in questions
    /\ \A a \in answers : ~(a.req = r /\ a.provider = p)
    /\ answers' = answers \cup
                    {[req |-> r, conv |-> c, provider |-> p, status |-> s]}
    /\ UNCHANGED <<owner, questions, verdict>>

\* A verdict over providers needs the question, and no kept answer may
\* contradict it.
Conclude(r, v) ==
    /\ verdict[r] = "waiting"
    /\ \E q \in questions : q.req = r
    /\ v = "success" => \A a \in answers : a.req = r => a.status = "success"
    /\ v = "failed" => \A a \in answers : a.req = r => a.status = "failed"
    /\ verdict' = [verdict EXCEPT ![r] = v]
    /\ UNCHANGED <<owner, questions, answers>>

\* Refused, ended by an error, or lost with the process: no verdict.
GiveUp(S) ==
    /\ S # {}
    /\ \A r \in S : verdict[r] = "waiting"
    /\ verdict' = [r \in Requests |-> IF r \in S THEN "none" ELSE verdict[r]]
    /\ UNCHANGED <<owner, questions, answers>>

Next ==
    \/ \E r \in Requests, c \in Conversations :
        \/ Open(r, c)
        \/ Ask(r, c)
        \/ \E p \in Providers, s \in {"success", "failed"} : Answer(r, c, p, s)
    \/ \E r \in Requests, v \in {"success", "partial_success", "failed"} :
        Conclude(r, v)
    \/ \E S \in SUBSET Requests : GiveUp(S)

Spec == Init /\ [][Next]_vars
=============================================================================
