---------------------------- MODULE Notifications ----------------------------
(***************************************************************************)
(* POST /sms from the button in the browser to the gateway: the tab waits  *)
(* for the headers with a timer of its own, the server checks the token,   *)
(* counts the call (RateLimit) and passes it on to the gateway under       *)
(* withRequestTimeout.  Both timers race the answer of the other side, and *)
(* a call whose answer is lost may have been carried out.                  *)
(*                                                                         *)
(* The button is not disabled while a call is under way, so the calls of a *)
(* user overlap.                                                           *)
(***************************************************************************)
EXTENDS RateLimit, ApiErrors

CONSTANTS
    Calls,      \* bound: clicks on the button, retries included
    NoCall      \* no call

ASSUME NotificationsAssumption == NoCall \notin Calls

VARIABLES
    configured, \* SMS_API_URL is set
    call,       \* the calls
    notice      \* per user: the call whose error the tab shows, or NoCall

smsVars == <<configured, call, notice>>
notificationVars == <<vars, smsVars>>

TabStages == {"idle", "waiting", "reading", "completed", "failed"}
ServerStages == {"none", "sending", "answered"}
GatewayStages == {"none", "received", "accepted", "refused"}

NoAnswer == [status |-> 0, error |-> "", retryable |-> "unset"]
NoError == [code |-> "", retryable |-> FALSE]
Nobody == [user |-> NoCall, tab |-> "idle", server |-> "none", gateway |-> "none",
           answer |-> NoAnswer, told |-> NoError, sentAt |-> 0]

NotificationsTypeOK ==
    /\ RateLimitTypeOK
    /\ configured \in BOOLEAN
    /\ \A c \in Calls :
        /\ call[c].user \in Users \cup {NoCall}
        /\ call[c].tab \in TabStages
        /\ call[c].server \in ServerStages
        /\ call[c].gateway \in GatewayStages
        /\ call[c].answer \in Answer
        /\ call[c].sentAt \in Nat
    /\ notice \in [Users -> Calls \cup {NoCall}]

NotificationsInit ==
    /\ Init
    /\ configured \in BOOLEAN
    /\ call = [c \in Calls |-> Nobody]
    /\ notice = [u \in Users |-> NoCall]

-----------------------------------------------------------------------------
(***************************************************************************)
(* The tab.                                                                *)
(***************************************************************************)
Dial(u, c) ==
    /\ call[c].tab = "idle"
    /\ call' = [call EXCEPT ![c].user = u, ![c].tab = "waiting"]

\* sendSmsToManager, from the button.
Click(u, c) ==
    /\ Dial(u, c)
    /\ UNCHANGED <<vars, configured, notice>>

\* retryFailedAction: offered for the error on display, if it is retryable.
RetrySms(u, c) ==
    /\ notice[u] # NoCall
    /\ call[notice[u]].told.retryable
    /\ Dial(u, c)
    /\ notice' = [notice EXCEPT ![u] = NoCall]
    /\ UNCHANGED <<vars, configured>>

\* The catch of sendSmsToManager: the error and what to retry are shown.
ShowError(c, error) ==
    /\ call' = [call EXCEPT ![c].tab = "failed", ![c].told = error]
    /\ notice' = [notice EXCEPT ![call[c].user] = c]
    /\ UNCHANGED <<vars, configured>>

\* The headers are there: the timer of requestJson is cleared.
HeadersArrive(c) ==
    /\ call[c].tab = "waiting"
    /\ call[c].server = "answered"
    /\ call' = [call EXCEPT ![c].tab = "reading"]
    /\ UNCHANGED <<vars, configured, notice>>

\* The body is there: the tab tells of a success, or of the error.
BodyArrives(c) ==
    /\ call[c].tab = "reading"
    /\ IF Ok(call[c].answer)
       THEN /\ call' = [call EXCEPT ![c].tab = "completed"]
            /\ UNCHANGED <<vars, configured, notice>>
       ELSE ShowError(c, ApiError(call[c].answer))

\* The connection breaks in the body, or what arrived is not JSON.
BodyBreaks(c) ==
    /\ call[c].tab = "reading"
    /\ \E error \in {Unexpected, Malformed} : ShowError(c, error)

\* The 15 seconds of sendManagerSms are over before there are headers.
TabTimesOut(c) ==
    /\ call[c].tab = "waiting"
    /\ ShowError(c, TimedOut)

\* The connection fails before there are headers; or the proxy in between
\* answers in the place of the server, with an empty body.
NetworkFails(c) ==
    /\ call[c].tab = "waiting"
    /\ \E error \in {NoNetwork, ApiError(EmptyAnswer)} : ShowError(c, error)
-----------------------------------------------------------------------------
(***************************************************************************)
(* The server.  A call that is on its way may arrive after the tab gave    *)
(* up.                                                                     *)
(***************************************************************************)
Arrived(c) == call[c].tab # "idle" /\ call[c].server = "none"

Reply(c, answer) == call' = [call EXCEPT ![c].server = "answered", ![c].answer = answer]

\* The server is going down (lifecycle gate), the origin is not allowed, or
\* authRequired refuses.
Turned(c) ==
    /\ Arrived(c)
    /\ \/ \E code \in {"service_shutting_down", "auth_required", "invalid_token"} :
            Reply(c, SendApiError(code))
       \/ Reply(c, HandleError("not allowed by CORS"))
    /\ UNCHANGED <<vars, configured, notice>>

\* sendManagerNotification: the gateway is called, if there is one.
SendManagerNotification(c) ==
    IF configured
    THEN call' = [call EXCEPT ![c].server = "sending", ![c].gateway = "received",
                              ![c].sentAt = now]
    ELSE Reply(c, SendApiError("sms_not_configured"))

\* Mutant: a call counts, but is refused only after it has been passed on.
SendFirst(c) ==
    /\ Arrived(c)
    /\ Consume(call[c].user)
    /\ SendManagerNotification(c)
    /\ UNCHANGED <<configured, notice>>

\* Mutant: it is answered as refused, and passed on all the same.
RefuseAndSend(c) ==
    /\ Arrived(c)
    /\ Consume(call[c].user)
    /\ IF admitted'[call[c].user] # admitted[call[c].user] \/ ~configured
       THEN SendManagerNotification(c)
       ELSE call' = [call EXCEPT ![c].server = "answered", ![c].gateway = "received",
                                 ![c].sentAt = now,
                                 ![c].answer = SendApiError("sms_rate_limited")]
    /\ UNCHANGED <<configured, notice>>

\* The limiter counts the call and either answers it or lets it through.
Admit(c) ==
    /\ Arrived(c)
    /\ Consume(call[c].user)
    /\ IF admitted'[call[c].user] # admitted[call[c].user]
       THEN SendManagerNotification(c)
       ELSE Reply(c, SendApiError("sms_rate_limited"))
    /\ UNCHANGED <<configured, notice>>

\* withRequestTimeout is settled once, by whichever is first: the headers of
\* the gateway, the failure of the connection, or the timer, which also
\* aborts the call.
GatewayAnswers(c) ==
    /\ call[c].server = "sending"
    /\ call[c].gateway \in {"accepted", "refused"}
    /\ Reply(c, IF call[c].gateway = "accepted"
                THEN Success(202) ELSE SendApiError("sms_unavailable"))
    /\ UNCHANGED <<vars, configured, notice>>

\* Mutant: a call that timed out is taken for a call that went through.
TimeoutAsAccepted(c) ==
    /\ call[c].server = "sending"
    /\ Reply(c, Success(202))
    /\ UNCHANGED <<vars, configured, notice>>

GatewayTimesOut(c) ==
    /\ call[c].server = "sending"
    /\ Reply(c, SendApiError("sms_unavailable"))
    /\ UNCHANGED <<vars, configured, notice>>

\* The gateway deals with what it received, be it aborted meanwhile or not.
GatewayDecides(c) ==
    /\ call[c].gateway = "received"
    /\ \E g \in {"accepted", "refused"} : call' = [call EXCEPT ![c].gateway = g]
    /\ UNCHANGED <<vars, configured, notice>>

Passes == Tick /\ UNCHANGED smsVars

TabStep(c) ==
    \/ HeadersArrive(c)
    \/ BodyArrives(c)
    \/ BodyBreaks(c)
    \/ TabTimesOut(c)
    \/ NetworkFails(c)

NotificationsNext ==
    \/ Passes
    \/ \E c \in Calls :
        \/ \E u \in Users : Click(u, c) \/ RetrySms(u, c)
        \/ TabStep(c)
        \/ Turned(c)
        \/ Admit(c)
        \/ GatewayAnswers(c)
        \/ GatewayTimesOut(c)
        \/ GatewayDecides(c)

NotificationsSpec == NotificationsInit /\ [][NotificationsNext]_notificationVars
-----------------------------------------------------------------------------
\* Refusals that come before the gateway is called.
Early == {"sms_rate_limited", "sms_not_configured", "auth_required",
          "invalid_token", "cors_not_allowed", "service_shutting_down"}

\* The tab tells the truth, whatever timed out, was lost or was retried:
\* "accepted" is only shown for a call the gateway has accepted
\* (notification-routes.mjs:32, App.jsx:1185); and a call shown as refused
\* never reached the gateway and never will, so that trying again cannot send
\* it twice.  After a timeout or an unavailable gateway nothing is known.
TabTellsTheTruth ==
    \A c \in Calls :
        /\ call[c].tab = "completed" => call[c].gateway = "accepted"
        /\ call[c].told.code \in Early => call[c].gateway = "none"

Sent(u, from, to) ==
    {c \in Calls : /\ call[c].user = u
                   /\ call[c].gateway # "none"
                   /\ from <= call[c].sentAt
                   /\ call[c].sentAt < to}

\* The gateway is spared: within any window a user makes it work at most
\* 2 * Max - 1 times, however many calls overlap and however often calls whose
\* fate is unknown are retried.
GatewayIsSpared ==
    \A u \in Users : \A t \in 0..now :
        Cardinality(Sent(u, t, t + Window)) <= 2 * Max - 1
=============================================================================
