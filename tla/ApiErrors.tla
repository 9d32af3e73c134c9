------------------------------ MODULE ApiErrors ------------------------------
(***************************************************************************)
(* The errors of the API: what the server sends for an error code          *)
(* (app-errors.mjs) and what the browser makes of an answer                *)
(* (lib/api-client.js).  A code is a string, an answer the fields of it    *)
(* that decide something: the status and, in the body, error and           *)
(* retryable.  Wording is left out.                                        *)
(***************************************************************************)
EXTENDS Integers

Bad == {"name_required", "email_required", "password_required",
        "invalid_conversation_id", "invalid_pagination_cursor",
        "message_required", "invalid_json"}
Unauthorized == {"auth_required", "invalid_token", "invalid_password"}
Missing == {"user_not_found", "conversation_not_found", "route_not_found"}
Unavailable == {"monitoring_unavailable", "sms_not_configured", "sms_unavailable",
                "database_unavailable", "chat_unavailable", "service_shutting_down"}
Passing == {"monitoring_unavailable", "sms_rate_limited", "sms_unavailable",
            "database_unavailable", "chat_unavailable", "service_shutting_down",
            "internal_server_error"}

\* The codes of ERROR_DEFINITIONS; any other is treated as an internal error.
DefinedCodes == Bad \cup Unauthorized \cup Missing \cup Unavailable \cup Passing
                \cup {"cors_not_allowed", "email_already_exists", "forced_demo_error"}

StatusOf(code) ==
    CASE code \in Bad -> 400
      [] code \in Unauthorized -> 401
      [] code = "cors_not_allowed" -> 403
      [] code \in Missing -> 404
      [] code = "email_already_exists" -> 409
      [] code = "sms_rate_limited" -> 429
      [] code \in Unavailable -> 503
      [] OTHER -> 500

Retryable(code) == code \in Passing \/ code \notin DefinedCodes

\* The field retryable of a body, "unset" where there is none.
Answer == [status : Nat, error : STRING, retryable : {"yes", "no", "unset"}]

SendApiError(code) ==
    [status |-> StatusOf(code), error |-> code,
     retryable |-> IF Retryable(code) THEN "yes" ELSE "no"]

Success(status) == [status |-> status, error |-> "", retryable |-> "unset"]

\* What the development proxy answers when the server is down: no body.
EmptyAnswer == [status |-> 500, error |-> "", retryable |-> "unset"]

DatabaseErrors == {"ECONNREFUSED", "ECONNRESET", "ETIMEDOUT",
                   "PROTOCOL_CONNECTION_LOST", "ER_ACCESS_DENIED_ERROR",
                   "ER_BAD_DB_ERROR"}

\* The code of an error a query or a handler threw.
ClassifyServerError(error, fallback) ==
    IF error \in DatabaseErrors THEN "database_unavailable" ELSE fallback

\* What the last handler sends for an error nobody caught: error names the
\* kind, the code of the exception otherwise.
HandleError(error) ==
    SendApiError(CASE error = "invalid json" -> "invalid_json"
                   [] error = "not allowed by CORS" -> "cors_not_allowed"
                   [] OTHER -> ClassifyServerError(error, "internal_server_error"))
-----------------------------------------------------------------------------
(***************************************************************************)
(* The browser.                                                            *)
(***************************************************************************)
\* Codes the browser has a text of its own for.
KnownCodes == (DefinedCodes
                 \ {"invalid_conversation_id", "invalid_pagination_cursor",
                    "cors_not_allowed"})
              \cup {"network_unavailable", "request_timeout", "malformed_response"}

RetryableCodes == Passing
                  \cup {"network_unavailable", "request_timeout", "malformed_response",
                        "provider_rate_limited", "provider_timeout",
                        "provider_unavailable", "provider_request_failed"}

Ok(answer) == answer.status \in 200..299

CodeOfStatus(status) ==
    CASE status = 401 -> "invalid_token"
      [] status = 404 -> "route_not_found"
      [] status \in {408, 504} -> "request_timeout"
      [] status >= 500 /\ status # 504 -> "internal_server_error"
      [] OTHER -> "request_failed"

\* getResponseCode: the code in the body, or one that follows from the status.
ResponseCode(answer) == IF answer.error # "" THEN answer.error ELSE CodeOfStatus(answer.status)

\* The ApiError requestJson throws for an answer that is not a success.
ApiError(answer) ==
    LET code == ResponseCode(answer)
    IN  [code |-> code,
         retryable |-> IF answer.retryable # "unset" THEN answer.retryable = "yes"
                       ELSE \/ code \in RetryableCodes
                            \/ code \notin KnownCodes /\ answer.status >= 500]

\* The ApiErrors of a call that got no answer, or one that cannot be parsed.
TimedOut == [code |-> "request_timeout", retryable |-> TRUE]
NoNetwork == [code |-> "network_unavailable", retryable |-> TRUE]
Malformed == [code |-> "malformed_response", retryable |-> TRUE]

\* toUserError of anything else, as of a connection that breaks in the body.
Unexpected == [code |-> "internal_server_error", retryable |-> TRUE]
=============================================================================
