---------------------------- MODULE Configuration ----------------------------
(***************************************************************************)
(* The environment a process starts with and what it makes of it           *)
(* (config.mjs, the secret of auth.mjs), and the CORS and timing headers   *)
(* that follow from it (http-observability.mjs).                           *)
(*                                                                         *)
(* A variable of the environment is Unset, a number, Blank (the empty      *)
(* string, which the code takes for the number 0), Word (no number), or a  *)
(* string that stands for a kind of value; lists are sequences of origins. *)
(***************************************************************************)
EXTENDS Integers, Sequences, FiniteSets

CONSTANTS
    Unset, Blank, Word,
    Origins,    \* what a list of origins may hold
    AnyOrigin,  \* the entry "*"
    NoOrigin    \* a request without Origin, or no header

ASSUME ConfigurationAssumption == Unset # Blank

VARIABLES
    env,        \* the environment
    process,    \* "down", "started" or "refused"
    config,     \* what the process runs with
    served      \* the headers of the last answer

configurationVars == <<env, process, config, served>>
-----------------------------------------------------------------------------
\* The numbers, with what is used when they are unset and their range;
\* RAG_MIN_SCORE is in hundredths.
Limits ==
    [PORT |-> <<3001, 1, 65535>>,
     RAG_CHUNK_SIZE |-> <<1000, 100, 20000>>,
     RAG_CHUNK_OVERLAP |-> <<150, 0, 19999>>,
     RAG_TOP_K |-> <<3, 1, 20>>,
     RAG_MIN_SCORE |-> <<18, 0, 100>>,
     RAG_MAX_CHUNKS_PER_DOCUMENT |-> <<2, 1, 10>>,
     RAG_EMBEDDING_BATCH_SIZE |-> <<32, 1, 100>>,
     SPAN_BODY_TAG_MAX |-> <<8192, 512, 65536>>,
     LLM_REQUEST_TIMEOUT_MS |-> <<60000, 1000, 300000>>,
     READINESS_TIMEOUT_MS |-> <<2000, 250, 10000>>,
     SHUTDOWN_TIMEOUT_MS |-> <<10000, 1000, 60000>>,
     SMS_REQUEST_TIMEOUT_MS |-> <<15000, 1000, 60000>>,
     SMS_RATE_LIMIT_WINDOW_MS |-> <<60000, 1000, 3600000>>,
     SMS_RATE_LIMIT_MAX |-> <<3, 1, 100>>,
     CONVERSATION_PAGE_SIZE |-> <<20, 1, 100>>,
     MESSAGE_PAGE_SIZE |-> <<50, 1, 200>>,
     LLM_HISTORY_MESSAGE_LIMIT |-> <<80, 1, 200>>,
     MYSQL_PORT |-> <<3306, 1, 65535>>]

Required == {"JWT_SECRET", "MYSQL_HOST", "MYSQL_USER", "MYSQL_DATABASE", "DD_VERSION"}
Optional == {"OPENAI_API_KEY", "AZURE_OPENAI_API_KEY", "AZURE_OPENAI_ENDPOINT",
             "DD_API_KEY", "DD_APP_KEY", "SMS_API_URL"}
Lists == {"CORS_ORIGIN", "RUM_TIMING_ALLOW_ORIGIN"}
Texts == Required \cup Optional \cup {"NODE_ENV", "DD_ENV", "SPAN_BODY_CAPTURE_MODE"}
Names == DOMAIN Limits \cup Texts \cup Lists

\* The values of a variable that are told apart.
Values(name) ==
    CASE name \in DOMAIN Limits ->
           {Unset, Blank, Word} \cup UNION {{b - 1, b, b + 1} : b \in {Limits[name][2], Limits[name][3]}}
      [] name = "NODE_ENV" -> {"", "development", "production"}
      [] name = "DD_ENV" -> {"", "dev", "production"}
      [] name = "SPAN_BODY_CAPTURE_MODE" -> {"", "off", "metadata", "full", "other"}
      [] name = "JWT_SECRET" -> {"", "short", "demo", "short demo", "random"}
      [] name = "SMS_API_URL" -> {"", "https", "http", "ftp", "malformed"}
      [] name \in Lists -> {<<>>} \cup {<<o>> : o \in Origins}
      [] OTHER -> {"", "set"}

\* .env.example, with the secrets filled in.
Example ==
    [name \in Names |->
        CASE name \in DOMAIN Limits -> Unset
          [] name \in Lists -> <<>>
          [] name = "JWT_SECRET" -> "random"
          [] name \in (Required \ {"JWT_SECRET"}) \cup {"OPENAI_API_KEY"} -> "set"
          [] OTHER -> ""]

\* text(env.NODE_ENV, "development") and its like.
Text(name, fallback) == IF env[name] = "" THEN fallback ELSE env[name]

Fallback(name) == Limits[name][1]
InRange(name, n) == Limits[name][2] <= n /\ n <= Limits[name][3]

\* integer() and decimal(): Number("") is 0, so only an unset variable gets
\* the fallback without an issue.
Given(name) ==
    CASE env[name] = Unset -> Fallback(name)
      [] env[name] = Blank -> 0
      [] OTHER -> env[name]
Fits(name) == Given(name) # Word /\ InRange(name, Given(name))
Number(name) == IF Fits(name) THEN Given(name) ELSE Fallback(name)

\* csv(): an empty list is replaced by the fallback; the two local addresses
\* stand for themselves as one origin.
Csv(name, fallback) == IF env[name] = <<>> THEN fallback ELSE env[name]
CorsOrigins == Csv("CORS_ORIGIN", <<"local">>)
TimingAllowOrigins == Csv("RUM_TIMING_ALLOW_ORIGIN", CorsOrigins)

Includes(list, origin) == \E i \in DOMAIN list : list[i] = origin

CaptureMode == Text("SPAN_BODY_CAPTURE_MODE", "metadata")
IsProduction == Text("NODE_ENV", "development") = "production"
OpenaiEnabled == env["OPENAI_API_KEY"] # ""
AzureEnabled == env["AZURE_OPENAI_API_KEY"] # "" /\ env["AZURE_OPENAI_ENDPOINT"] # ""

\* What production refuses and development lets pass.
ProductionIssue ==
    \/ Includes(CorsOrigins, AnyOrigin)
    \/ Includes(TimingAllowOrigins, AnyOrigin)
    \/ CaptureMode = "full"
    \/ env["JWT_SECRET"] \in {"demo", "short demo"}
    \/ env["SMS_API_URL"] = "http"

\* Mutant: the overlap may be as long as the chunk.
OverlapMayEqualSize == Number("RAG_CHUNK_OVERLAP") > Number("RAG_CHUNK_SIZE")

OverlapIssue == Number("RAG_CHUNK_OVERLAP") >= Number("RAG_CHUNK_SIZE")

\* validateEnvironment found an issue.
HasIssue ==
    \/ \E name \in DOMAIN Limits : ~Fits(name)
    \/ OverlapIssue
    \/ CaptureMode \notin {"off", "metadata", "full"}
    \/ \E name \in Required : env[name] = ""
    \/ ~OpenaiEnabled /\ ~AzureEnabled
    \/ (env["AZURE_OPENAI_API_KEY"] = "") # (env["AZURE_OPENAI_ENDPOINT"] = "")
    \/ env["SMS_API_URL"] \in {"ftp", "malformed"}
    \/ IsProduction /\ ProductionIssue

\* auth.mjs: a secret of less than 16 characters.
WeakSecret == env["JWT_SECRET"] \in {"", "short", "short demo"}

\* Mutant: one definition for both.
AuthLikeConfig == IsProduction

\* Its isProd looks at DD_ENV when NODE_ENV is unset, that of config.mjs does not.
AuthIsProduction == Text("NODE_ENV", env["DD_ENV"]) = "production"

NoConfig == [production |-> FALSE, number |-> [name \in DOMAIN Limits |-> 0],
             cors |-> <<>>, timing |-> <<>>, secret |-> "", capture |-> "",
             openai |-> FALSE, azure |-> FALSE, sms |-> FALSE, datadog |-> FALSE]

\* The frozen config of config.mjs.
LoadConfig ==
    [production |-> IsProduction,
     number |-> [name \in DOMAIN Limits |-> Number(name)],
     cors |-> CorsOrigins,
     timing |-> TimingAllowOrigins,
     secret |-> IF WeakSecret THEN "generated" ELSE env["JWT_SECRET"],
     capture |-> CaptureMode,
     openai |-> OpenaiEnabled,
     azure |-> AzureEnabled,
     sms |-> env["SMS_API_URL"] # "",
     datadog |-> env["DD_API_KEY"] # "" /\ env["DD_APP_KEY"] # ""]

NoHeaders == [origin |-> NoOrigin, refused |-> FALSE, timing |-> NoOrigin]

\* bound: two variables, and NODE_ENV, are not those of the example.
ConfigurationInit ==
    /\ \E a, b \in Names : \E x \in Values(a), y \in Values(b), mode \in Values("NODE_ENV") :
          env = [Example EXCEPT !["NODE_ENV"] = mode, ![a] = x, ![b] = y]
    /\ process = "down"
    /\ config = NoConfig
    /\ served = NoHeaders
-----------------------------------------------------------------------------
\* The modules are loaded: config.mjs throws on an issue, auth.mjs on a weak
\* secret in production.
Boot ==
    /\ process = "down"
    /\ IF HasIssue \/ (WeakSecret /\ AuthIsProduction)
       THEN process' = "refused" /\ UNCHANGED config
       ELSE process' = "started" /\ config' = LoadConfig
    /\ UNCHANGED <<env, served>>

IsAllowed(origin, allowed) ==
    origin = NoOrigin \/ Includes(allowed, AnyOrigin) \/ Includes(allowed, origin)

TimingAllowOrigin(origin) ==
    IF origin # NoOrigin /\ IsAllowed(origin, config.timing) THEN origin
    ELSE IF Includes(config.timing, AnyOrigin) THEN AnyOrigin
    ELSE config.timing[1]

\* A request passes corsMiddleware, which answers it with an error or goes
\* on to timingMiddleware.
Serve(origin) ==
    /\ process = "started"
    /\ served' = IF IsAllowed(origin, config.cors)
                 THEN [origin |-> origin, refused |-> FALSE, timing |-> TimingAllowOrigin(origin)]
                 ELSE [origin |-> origin, refused |-> TRUE, timing |-> NoOrigin]
    /\ UNCHANGED <<env, process, config>>

ConfigurationNext == Boot \/ \E o \in (Origins \ {AnyOrigin}) \cup {NoOrigin} : Serve(o)

ConfigurationSpec == ConfigurationInit /\ [][ConfigurationNext]_configurationVars
-----------------------------------------------------------------------------
\* A process that starts can do what the other modules take for granted: a
\* chunk is longer than the overlap, limits and page sizes are positive, one
\* provider is there; and in production its secret survives a restart, no
\* body is captured and an origin that is not listed is neither served nor
\* shown timings.  Where DD_ENV alone says production, only the secret is
\* looked at.  Documented rule by rule in tests/config.test.mjs, never for the
\* combination.
StartedIsSound ==
    process = "started" =>
        /\ config.number["RAG_CHUNK_OVERLAP"] < config.number["RAG_CHUNK_SIZE"]
        /\ \A name \in DOMAIN Limits : InRange(name, config.number[name])
        /\ config.openai \/ config.azure
        /\ env["NODE_ENV"] = "" /\ env["DD_ENV"] = "production" => config.secret # "generated"
        /\ config.production =>
            /\ config.secret = "random"
            /\ config.capture # "full"
            /\ served.origin \notin {NoOrigin, "local"} /\ ~Includes(env["CORS_ORIGIN"], served.origin)
                  => served.refused
            /\ served.timing \notin {NoOrigin, "local"}
                  => Includes(env["CORS_ORIGIN"] \o env["RUM_TIMING_ALLOW_ORIGIN"], served.timing)
=============================================================================
