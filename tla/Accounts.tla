------------------------------- MODULE Accounts -------------------------------
(***************************************************************************)
(* Accounts and sessions: the routes of auth-routes.mjs over the users     *)
(* table, tokens signed with the secret of the running process (auth.mjs), *)
(* and the tabs of one browser that share its localStorage                 *)
(* (AuthScreen.jsx, validateSession in App.jsx).                           *)
(*                                                                         *)
(* A handler is several steps, one for each query or hash it awaits; those *)
(* of different requests interleave, and the process may be restarted in   *)
(* between.  A tab reads its session from localStorage when it opens, asks *)
(* the server about it, and another tab may have signed in meanwhile.      *)
(***************************************************************************)
EXTENDS Integers, Sequences, ApiErrors

CONSTANTS
    Tabs,
    Emails,
    Passwords,
    MaxSubmits, \* bound: forms submitted
    MaxBoots,   \* bound: restarts of the process
    MaxLost     \* bound: queries that fail

VARIABLES
    users,      \* rows of the table, the id is the index
    fixed,      \* JWT_SECRET has its 16 characters, so every boot has the same
    boots,      \* restarts so far
    form,       \* per tab: the request of AuthScreen
    check,      \* per tab: the request of validateSession
    storage,    \* localStorage: the token and the user it was stored with
    tab,        \* per tab: what it shows and holds
    submits,    \* forms submitted so far
    lost        \* queries that failed so far

serverVars == <<users, fixed, boots>>
counters == <<submits, lost>>
accountVars == <<serverVars, form, check, storage, tab, counters>>

\* A token names a user and the secret it is signed with; 0 is no user.
NoToken == [user |-> 0, secret |-> 0]
Secret == IF fixed THEN 0 ELSE boots
SignToken(id) == [user |-> id, secret |-> Secret]

NoForm == [stage |-> "idle", mode |-> "", email |-> "", password |-> "", found |-> 0,
           code |-> "", token |-> NoToken, heard |-> FALSE]
NoCheck == [stage |-> "idle", token |-> NoToken, code |-> "", user |-> 0]
Opening == [screen |-> "checking", token |-> NoToken, user |-> 0]
SignedOut == [screen |-> "auth", token |-> NoToken, user |-> 0]

AccountsInit ==
    /\ users = <<>>
    /\ fixed \in BOOLEAN
    /\ boots = 0
    /\ form = [t \in Tabs |-> NoForm]
    /\ check = [t \in Tabs |-> NoCheck]
    /\ storage = [token |-> NoToken, user |-> 0]
    /\ tab = [t \in Tabs |-> Opening]
    /\ submits = 0
    /\ lost = 0
-----------------------------------------------------------------------------
(***************************************************************************)
(* The server.                                                             *)
(***************************************************************************)
\* The form of the tab t is answered.
Accept(t, id) ==
    form' = [form EXCEPT ![t].stage = "answered", ![t].code = "", ![t].token = SignToken(id)]
Reject(t, code) ==
    form' = [form EXCEPT ![t].stage = "answered", ![t].token = NoToken,
                         ![t].code = ApiError(SendApiError(code)).code]

Ids(email) == {i \in DOMAIN users : users[i].email = email}

\* getUserByEmail: LIMIT 1.
GetUserByEmail(email) == IF Ids(email) = {} THEN 0 ELSE CHOOSE i \in Ids(email) : TRUE

\* The look-up of register, then that of login.
LookUpEmail(t) ==
    LET id == GetUserByEmail(form[t].email)
    IN  /\ form[t].stage = "sent"
        /\ CASE form[t].mode = "register" /\ id # 0 -> Reject(t, "email_already_exists")
             [] form[t].mode = "register" /\ id = 0 ->
                    form' = [form EXCEPT ![t].stage = "hashing"]
             [] form[t].mode = "login" /\ id = 0 -> Reject(t, "user_not_found")
             [] OTHER -> form' = [form EXCEPT ![t].stage = "comparing", ![t].found = id]
        /\ UNCHANGED <<serverVars, check, storage, tab, counters>>

NewUser(t) == [email |-> form[t].email, password |-> form[t].password]

\* Mutant: the look-up was enough.
InsertAnyway(t) ==
    /\ form[t].stage = "hashing"
    /\ users' = Append(users, NewUser(t))
    /\ form' = [form EXCEPT ![t].stage = "inserted", ![t].found = Len(users) + 1]
    /\ UNCHANGED <<fixed, boots, check, storage, tab, counters>>

\* createUser, after hashPassword: the address may be taken by now, which the
\* unique key of the table finds; ER_DUP_ENTRY is no database error.
InsertUser(t) ==
    /\ form[t].stage = "hashing"
    /\ IF Ids(form[t].email) = {}
       THEN /\ users' = Append(users, NewUser(t))
            /\ form' = [form EXCEPT ![t].stage = "inserted", ![t].found = Len(users) + 1]
       ELSE /\ Reject(t, ClassifyServerError("ER_DUP_ENTRY", "internal_server_error"))
            /\ UNCHANGED users
    /\ UNCHANGED <<fixed, boots, check, storage, tab, counters>>

\* The row is read back and a token signed.
ReadNewUser(t) ==
    /\ form[t].stage = "inserted"
    /\ Accept(t, form[t].found)
    /\ UNCHANGED <<serverVars, check, storage, tab, counters>>

\* comparePassword.
ComparePassword(t) ==
    /\ form[t].stage = "comparing"
    /\ IF users[form[t].found].password = form[t].password
       THEN Accept(t, form[t].found)
       ELSE Reject(t, "invalid_password")
    /\ UNCHANGED <<serverVars, check, storage, tab, counters>>

\* GET /me: authRequired, then getUserById.  A token may have expired.
Authorize(t) ==
    /\ check[t].stage = "sent"
    /\ \E expired \in BOOLEAN :
        check' = IF /\ ~expired
                    /\ check[t].token.secret = Secret
                    /\ check[t].token.user \in DOMAIN users
                 THEN [check EXCEPT ![t].stage = "answered", ![t].user = check[t].token.user]
                 ELSE [check EXCEPT ![t].stage = "answered", ![t].code = "invalid_token"]
    /\ UNCHANGED <<serverVars, form, storage, tab, counters>>

\* A query of a handler fails.  The INSERT may have been carried out.
QueryLost(t) ==
    /\ lost < MaxLost
    /\ lost' = lost + 1
    /\ \/ /\ form[t].stage \in {"sent", "hashing", "inserted"}
          /\ Reject(t, ClassifyServerError("ECONNRESET", "internal_server_error"))
          /\ \/ UNCHANGED users
             \/ /\ form[t].stage = "hashing"
                /\ Ids(form[t].email) = {}
                /\ users' = Append(users, NewUser(t))
          /\ UNCHANGED check
       \/ /\ check[t].stage = "sent"
          /\ check' = [check EXCEPT ![t].stage = "answered", ![t].code = "database_unavailable"]
          /\ UNCHANGED <<users, form>>
    /\ UNCHANGED <<fixed, boots, storage, tab, submits>>

OnServer(stage) == stage \in {"sent", "hashing", "inserted", "comparing"}

\* The process is restarted: what it was doing is lost, and so is a secret it
\* made up itself.
Reboot ==
    /\ boots < MaxBoots
    /\ boots' = boots + 1
    /\ form' = [t \in Tabs |-> IF OnServer(form[t].stage)
                               THEN [form[t] EXCEPT !.stage = "lost"] ELSE form[t]]
    /\ check' = [t \in Tabs |-> IF OnServer(check[t].stage)
                                THEN [check[t] EXCEPT !.stage = "lost"] ELSE check[t]]
    /\ UNCHANGED <<users, fixed, storage, tab, counters>>
-----------------------------------------------------------------------------
(***************************************************************************)
(* The browser.                                                            *)
(***************************************************************************)
ClearSession(t) ==
    /\ storage' = [token |-> NoToken, user |-> 0]
    /\ tab' = [tab EXCEPT ![t] = SignedOut]

\* validateSession: without a stored session the tab is signed out at once,
\* with one the server is asked about the token that was read.
ValidateSession(t) ==
    /\ tab[t].screen = "checking"
    /\ check[t].stage = "idle"
    /\ IF storage.token = NoToken
       THEN ClearSession(t) /\ UNCHANGED check
       ELSE /\ check' = [check EXCEPT ![t].stage = "sent", ![t].token = storage.token]
            /\ UNCHANGED <<storage, tab>>
    /\ UNCHANGED <<serverVars, form, counters>>

\* Mutant: the token is read again when the answer is there.
RereadToken(t) ==
    /\ tab[t].screen = "checking"
    /\ check[t].stage = "answered"
    /\ IF check[t].code = ""
       THEN /\ tab' = [tab EXCEPT ![t] =
                    [screen |-> "app", token |-> storage.token, user |-> check[t].user]]
            /\ storage' = [storage EXCEPT !.user = check[t].user]
       ELSE ClearSession(t)
    /\ check' = [check EXCEPT ![t] = NoCheck]
    /\ UNCHANGED <<serverVars, form, counters>>

\* Its answer: signed in with that token, or the session is dropped, whatever
\* the error was.
SessionAnswered(t) ==
    /\ tab[t].screen = "checking"
    /\ check[t].stage = "answered"
    /\ IF check[t].code = ""
       THEN /\ tab' = [tab EXCEPT ![t] =
                    [screen |-> "app", token |-> check[t].token, user |-> check[t].user]]
            /\ storage' = [storage EXCEPT !.user = check[t].user]
       ELSE ClearSession(t)
    /\ check' = [check EXCEPT ![t] = NoCheck]
    /\ UNCHANGED <<serverVars, form, counters>>

\* No answer within 10 seconds, or none at all.
SessionTimesOut(t) ==
    /\ tab[t].screen = "checking"
    /\ check[t].stage \in {"sent", "lost"}
    /\ ClearSession(t)
    /\ check' = [check EXCEPT ![t] = NoCheck]
    /\ UNCHANGED <<serverVars, form, counters>>

\* AuthScreen, submit: the button is disabled while a request is under way.
Submit(t) ==
    /\ tab[t].screen = "auth"
    /\ form[t].stage = "idle"
    /\ submits < MaxSubmits
    /\ submits' = submits + 1
    /\ \E mode \in {"login", "register"}, e \in Emails, p \in Passwords :
        form' = [form EXCEPT ![t].stage = "sent", ![t].mode = mode, ![t].email = e,
                             ![t].password = p, ![t].heard = TRUE]
    /\ UNCHANGED <<serverVars, check, storage, tab, lost>>

\* The answer, if the tab still waits for it: on success it is stored and the
\* tab is signed in.
FormAnswered(t) ==
    /\ form[t].stage = "answered"
    /\ IF form[t].heard /\ form[t].code = ""
       THEN /\ storage' = [token |-> form[t].token, user |-> form[t].token.user]
            /\ tab' = [tab EXCEPT ![t] = [screen |-> "app", token |-> form[t].token,
                                          user |-> form[t].token.user]]
       ELSE UNCHANGED <<storage, tab>>
    /\ form' = [form EXCEPT ![t] = NoForm]
    /\ UNCHANGED <<serverVars, check, counters>>

\* The tab gives up after 15 seconds; the server goes on.
FormTimesOut(t) ==
    /\ form[t].heard
    /\ OnServer(form[t].stage)
    /\ form' = [form EXCEPT ![t].heard = FALSE]
    /\ UNCHANGED <<serverVars, check, storage, tab, counters>>

\* The connection of the form was cut by the restart.
FormLost(t) ==
    /\ form[t].stage = "lost"
    /\ form' = [form EXCEPT ![t] = NoForm]
    /\ UNCHANGED <<serverVars, check, storage, tab, counters>>

Leave(t) ==
    /\ tab[t].screen = "app"
    /\ ClearSession(t)
    /\ UNCHANGED <<serverVars, form, check, counters>>

\* The tab is opened again; what it waited for answers to nobody.
Reopen(t) ==
    /\ tab[t].screen # "checking"
    /\ tab' = [tab EXCEPT ![t] = Opening]
    /\ form' = [form EXCEPT ![t].heard = FALSE]
    /\ check' = [check EXCEPT ![t] = NoCheck]
    /\ UNCHANGED <<serverVars, storage, counters>>

AccountsNext ==
    \/ Reboot
    \/ \E t \in Tabs :
        \/ LookUpEmail(t) \/ InsertUser(t) \/ ReadNewUser(t) \/ ComparePassword(t)
        \/ Authorize(t) \/ QueryLost(t)
        \/ ValidateSession(t) \/ SessionAnswered(t) \/ SessionTimesOut(t)
        \/ Submit(t) \/ FormAnswered(t) \/ FormTimesOut(t) \/ FormLost(t)
        \/ Leave(t) \/ Reopen(t)

AccountsSpec == AccountsInit /\ [][AccountsNext]_accountVars
-----------------------------------------------------------------------------
\* Two registrations of one address that pass the look-up together do not make
\* two accounts, be it that one is retried after an error that hid a success
\* (auth-routes.mjs:64-72).
OneAccountPerAddress ==
    \A i, j \in DOMAIN users : users[i].email = users[j].email => i = j

\* A tab acts as the user it shows: its token is that user's, however the tabs
\* of the browser sign in and out over the storage they share.
ActsAsShownUser ==
    \A t \in Tabs : tab[t].screen = "app" =>
        /\ tab[t].token.user = tab[t].user
        /\ tab[t].user \in DOMAIN users
=============================================================================
