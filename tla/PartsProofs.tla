----------------------------- MODULE PartsProofs -----------------------------
(***************************************************************************)
(* Proofs about the parts of the system that share no state with the chat: *)
(* the tabs of the browser and their versions, the schema, accounts,       *)
(* configuration, versions, chunks of text and the monitoring page, each   *)
(* for any number of processes, tabs, users and runs, any series a metric  *)
(* may have, and without the bounds of MCParts.                            *)
(***************************************************************************)
EXTENDS BrowserSession, Schema, Accounts, Versions, Configuration, Chunking,
        Monitoring, FiniteSetTheorems, TLAPS

(***************************************************************************)
(* BrowserSession.  A tab that has reloaded itself remembers the version   *)
(* it did so for, and every further reload is for a later one.             *)
(***************************************************************************)
Tab == [stage : {"closed", "loading", "fetched", "rendered"}, version : Nat,
        reloadKey : Nat, reloads : Nat, since : Nat]

\* The reloads of the tab w are for versions from the one it was opened with
\* up to the one it remembers, which is no later than what it runs, or what
\* is served.
ReloadsAreRemembered(w) ==
    LET t == win[w]
    IN  /\ t.since <= live /\ t.version <= live
        /\ t.stage = "fetched" => t.since <= t.version
        /\ t.stage \in {"loading", "fetched"} =>
            /\ t.reloadKey <= IF t.stage = "fetched" THEN t.version ELSE live
            /\ t.reloads = 0 \/ t.reloads <= 1 + t.reloadKey - t.since
        /\ t.stage \in {"closed", "rendered"} => t.reloadKey = 0

BrowserInv ==
    /\ live \in Nat
    /\ stored \in Nat
    /\ win \in [Windows -> Tab]
    /\ \A w \in Windows : ReloadsAreRemembered(w)
    /\ ReloadsOncePerVersion

\* All tabs are closed.
THEOREM BrowserInvInitially == BrowserInit => BrowserInv
BY DEF BrowserInit, BrowserInv, Closed, Tab, ReloadsAreRemembered, ReloadsOncePerVersion

\* The invariant is inductive: opening a tab, its bundle, its initialization
\* and a release keep it.
THEOREM BrowserInvPreserved == BrowserInv /\ [BrowserNext]_browserVars => BrowserInv'
<1> SUFFICES ASSUME BrowserInv, [BrowserNext]_browserVars PROVE BrowserInv'
  OBVIOUS
<1> USE DEF BrowserInv
<1>1. ASSUME NEW w \in Windows, Open(w) PROVE BrowserInv'
  <2>1. win[w] \in Tab /\ ReloadsAreRemembered(w)
    OBVIOUS
  <2>2. live' \in Nat /\ stored' \in Nat /\ win' \in [Windows -> Tab]
    BY <1>1 DEF Open, Tab
  <2>3. ReloadsAreRemembered(w)'
    BY <1>1, <2>1, <2>2 DEF Open, ReloadsAreRemembered, Tab
  <2>4. \A v \in Windows \ {w} : ReloadsAreRemembered(v)'
    BY <1>1 DEF Open, ReloadsAreRemembered
  <2>5. ReloadsOncePerVersion'
    BY <1>1, <2>1, <2>3 DEF Open, ReloadsAreRemembered, ReloadsOncePerVersion, Tab
  <2> QED  BY <2>2, <2>3, <2>4, <2>5
<1>2. ASSUME NEW w \in Windows, Fetch(w) PROVE BrowserInv'
  <2>1. win[w] \in Tab /\ ReloadsAreRemembered(w)
    OBVIOUS
  <2>2. live' \in Nat /\ stored' \in Nat /\ win' \in [Windows -> Tab]
    BY <1>2 DEF Fetch, Tab
  <2>3. ReloadsAreRemembered(w)'
    BY <1>2, <2>1, <2>2 DEF Fetch, ReloadsAreRemembered, Tab
  <2>4. \A v \in Windows \ {w} : ReloadsAreRemembered(v)'
    BY <1>2 DEF Fetch, ReloadsAreRemembered
  <2>5. ReloadsOncePerVersion'
    BY <1>2, <2>1, <2>3 DEF Fetch, ReloadsAreRemembered, ReloadsOncePerVersion, Tab
  <2> QED  BY <2>2, <2>3, <2>4, <2>5
<1>3. ASSUME NEW w \in Windows, Initialize(w) PROVE BrowserInv'
  <2>1. CASE ReloadRequired(w)
    BY <1>3, <2>1 DEF Initialize, ReloadRequired, Tab, ReloadsAreRemembered, ReloadsOncePerVersion
  <2>2. CASE ~ReloadRequired(w)
    BY <1>3, <2>2 DEF Initialize, Tab, ReloadsAreRemembered, ReloadsOncePerVersion
  <2> QED  BY <2>1, <2>2
<1>4. CASE Deploy
  BY <1>4 DEF Deploy, Tab, ReloadsAreRemembered, ReloadsOncePerVersion
<1>5. CASE UNCHANGED browserVars
  BY <1>5 DEF browserVars, ReloadsAreRemembered, ReloadsOncePerVersion
<1> QED
  BY <1>1, <1>2, <1>3, <1>4, <1>5 DEF BrowserNext

\* ReloadsOncePerVersion: a tab reloads itself at most once for the version it
\* was opened with and once for each released since, however many tabs share
\* the localStorage and in whatever order they initialize.
THEOREM ReloadsAreBounded == BrowserSpec => []ReloadsOncePerVersion
<1>1. BrowserInv => ReloadsOncePerVersion
  BY DEF BrowserInv
<1> QED
  BY BrowserInvInitially, BrowserInvPreserved, <1>1, PTL DEF BrowserSpec
-----------------------------------------------------------------------------
(***************************************************************************)
(* Schema.  What a process has passed is there, and nothing that is there  *)
(* is ever dropped.                                                        *)
(***************************************************************************)
Places ==
    {At("table", i) : i \in 1..3} \cup {At(s, i) : s \in {"look", "add"}, i \in 1..2}
        \cup {At("up", 0), At("failed", 0)}

\* Every table that CREATE TABLE of process p has passed, and every index it
\* has looked up or added.
PassedIsThere(p) ==
    LET b == boot[p]
    IN  /\ \A i \in 1..3 : b.stage = "table" /\ i < b.step => Tables[i] \in schema
        /\ b.stage \in {"look", "add", "up"} => \A i \in 1..3 : Tables[i] \in schema
        /\ \A i \in 1..2 : b.stage \in {"look", "add"} /\ i < b.step => Indexes[i] \in schema
        /\ b.stage = "up" => \A i \in 1..2 : Indexes[i] \in schema

SchemaInv ==
    /\ losses \in Nat
    /\ boot \in [Processes -> Places]
    /\ \A p \in Processes : boot[p].stage = "failed" => losses > 0
    /\ \A p \in Processes : PassedIsThere(p)

\* No process has passed anything.
THEOREM SchemaInvInitially == SchemaInit => SchemaInv
BY DEF SchemaInit, SchemaInv, Places, At, PassedIsThere

\* The invariant is inductive, whichever processes take their steps between a
\* look-up and its ALTER TABLE.
THEOREM SchemaInvPreserved == SchemaInv /\ [SchemaNext]_schemaVars => SchemaInv'
<1> SUFFICES ASSUME SchemaInv, [SchemaNext]_schemaVars PROVE SchemaInv'
  OBVIOUS
<1> USE DEF SchemaInv
<1>0. Len(Tables) = 3 /\ Len(Indexes) = 2
  BY DEF Tables, Indexes
<1>1. ASSUME NEW p \in Processes, CreateTable(p) PROVE SchemaInv'
  BY <1>0, <1>1 DEF CreateTable, MoveTo, Places, At, PassedIsThere
<1>2. ASSUME NEW p \in Processes, LookUpIndex(p) PROVE SchemaInv'
  BY <1>0, <1>2 DEF LookUpIndex, AfterIndex, MoveTo, Places, At, PassedIsThere
<1>3. ASSUME NEW p \in Processes, AddIndex(p) PROVE SchemaInv'
  BY <1>0, <1>3 DEF AddIndex, AfterIndex, MoveTo, Places, At, PassedIsThere
<1>4. ASSUME NEW p \in Processes, QueryFails(p) PROVE SchemaInv'
  BY <1>4 DEF QueryFails, MoveTo, Places, At, PassedIsThere
<1>5. ASSUME NEW p \in Processes, StartAgain(p) PROVE SchemaInv'
  BY <1>5 DEF StartAgain, MoveTo, Places, At, PassedIsThere
<1>6. CASE UNCHANGED schemaVars
  BY <1>6 DEF schemaVars, PassedIsThere
<1> QED
  BY <1>1, <1>2, <1>3, <1>4, <1>5, <1>6 DEF SchemaNext

\* StartsDoNotClash: of any number of processes that start together over any
\* schema of an earlier version, none fails another, and one that is up has
\* all it relies on.
THEOREM StartsAreSafe == SchemaSpec => []StartsDoNotClash
<1>1. SchemaInv => StartsDoNotClash
  BY DEF SchemaInv, StartsDoNotClash, PassedIsThere, Objects
<1> QED
  BY SchemaInvInitially, SchemaInvPreserved, <1>1, PTL DEF SchemaSpec
-----------------------------------------------------------------------------
(***************************************************************************)
(* Accounts.  What a request has found or inserted stays in the table, and *)
(* an answer without an error names the user its token is of.              *)
(***************************************************************************)
Tokens == [user : Nat, secret : Nat]
AccountRows == [email : Emails, password : Passwords]

FormRecord ==
    [stage : {"idle", "sent", "hashing", "inserted", "comparing", "answered", "lost"},
     mode : {"", "login", "register"}, email : Emails \cup {""},
     password : Passwords \cup {""}, found : Nat, code : DefinedCodes \cup {""},
     token : Tokens, heard : BOOLEAN]
CheckRecord ==
    [stage : {"idle", "sent", "answered", "lost"}, token : Tokens,
     code : DefinedCodes \cup {""}, user : Nat]

TabRecord == [screen : {"checking", "auth", "app"}, token : Tokens, user : Nat]

FormIsTrue(f) ==
    /\ f.stage # "idle" => f.mode # "" /\ f.email \in Emails /\ f.password \in Passwords
    /\ f.stage \in {"comparing", "inserted"} => f.found \in DOMAIN users
    /\ f.stage = "answered" /\ f.code = "" => f.token.user \in DOMAIN users

FormsAreTrue(forms) ==
    forms \in [Tabs -> FormRecord] /\ \A t \in Tabs : FormIsTrue(forms[t])

ChecksAreTrue(checks) ==
    /\ checks \in [Tabs -> CheckRecord]
    /\ \A t \in Tabs : checks[t].stage = "answered" /\ checks[t].code = "" =>
            checks[t].user = checks[t].token.user /\ checks[t].user \in DOMAIN users

TabsAreTrue(tabs) ==
    /\ tabs \in [Tabs -> TabRecord]
    /\ \A t \in Tabs : tabs[t].screen = "app" =>
            tabs[t].token.user = tabs[t].user /\ tabs[t].user \in DOMAIN users

AccountsInv ==
    /\ users \in Seq(AccountRows)
    /\ fixed \in BOOLEAN /\ boots \in Nat
    /\ storage \in [token : Tokens, user : Nat]
    /\ FormsAreTrue(form)
    /\ ChecksAreTrue(check)
    /\ TabsAreTrue(tab)
    /\ OneAccountPerAddress

\* A refusal is an answer with an error in it.
LEMMA RefusalsHaveACode ==
    ASSUME NEW code, code # ""
    PROVE  ApiError(SendApiError(code)).code = code
<1>1. SendApiError(code).error = code
  BY DEF SendApiError
<1>2. ResponseCode(SendApiError(code)) = code
  BY <1>1 DEF ResponseCode
<1> QED
  BY <1>2 DEF ApiError

\* createUser adds a row under an address that no row has yet.
LEMMA RowAdded ==
    ASSUME AccountsInv, NEW t \in Tabs, form[t].stage = "hashing",
           Ids(form[t].email) = {}, users' = Append(users, NewUser(t))
    PROVE  /\ users' \in Seq(AccountRows)
           /\ Len(users) + 1 \in DOMAIN users'
           /\ DOMAIN users \subseteq DOMAIN users'
           /\ OneAccountPerAddress'
<1>1. form[t].email \in Emails /\ form[t].password \in Passwords
  BY DEF AccountsInv, FormsAreTrue, FormIsTrue
<1>2. users \in Seq(AccountRows) /\ NewUser(t) \in AccountRows
  BY <1>1 DEF AccountsInv, NewUser, AccountRows
<1>3. /\ users' \in Seq(AccountRows)
      /\ DOMAIN users = 1..Len(users)
      /\ DOMAIN users' = 1..Len(users) + 1
      /\ \A i \in 1..Len(users) : users'[i] = users[i]
      /\ users'[Len(users) + 1] = NewUser(t)
  BY <1>2
<1>4. \A i \in 1..Len(users) : users[i].email # form[t].email
  BY <1>3 DEF Ids
<1>5. OneAccountPerAddress'
  BY <1>2, <1>3, <1>4 DEF AccountsInv, OneAccountPerAddress, NewUser
<1> QED
  BY <1>2, <1>3, <1>5

\* An accepted form names a user there is.
LEMMA AcceptIsTrue ==
    ASSUME AccountsInv, NEW t \in Tabs, NEW id \in DOMAIN users,
           form[t].stage # "idle", Accept(t, id)
    PROVE  FormsAreTrue(form')
<1>1. id \in Nat /\ SignToken(id) \in Tokens
  BY DEF AccountsInv, SignToken, Secret, Tokens
<1>2. form \in [Tabs -> FormRecord] /\ form[t] \in FormRecord /\ FormIsTrue(form[t])
  BY DEF AccountsInv, FormsAreTrue
<1>3. form' \in [Tabs -> FormRecord]
  BY <1>1, <1>2 DEF Accept, FormRecord
<1>4. FormIsTrue(form'[t])
  BY <1>1, <1>2 DEF Accept, FormRecord, FormIsTrue, SignToken
<1>5. \A s \in Tabs \ {t} : form'[s] = form[s]
  BY <1>2 DEF Accept
<1> QED
  BY <1>3, <1>4, <1>5 DEF AccountsInv, FormsAreTrue

\* A refused form names nobody.
LEMMA RejectIsTrue ==
    ASSUME AccountsInv, NEW t \in Tabs, NEW code \in DefinedCodes,
           form[t].stage # "idle", Reject(t, code)
    PROVE  FormsAreTrue(form')
<1>1. code # ""
  BY DEF DefinedCodes, Bad, Unauthorized, Missing, Unavailable, Passing
<1>2. form' = [form EXCEPT ![t].stage = "answered", ![t].token = NoToken, ![t].code = code]
  BY <1>1, RefusalsHaveACode DEF Reject
<1>3. form \in [Tabs -> FormRecord] /\ form[t] \in FormRecord /\ FormIsTrue(form[t])
  BY DEF AccountsInv, FormsAreTrue
<1>4. form' \in [Tabs -> FormRecord]
  BY <1>2, <1>3 DEF FormRecord, NoToken, Tokens
<1>5. FormIsTrue(form'[t])
  BY <1>1, <1>2, <1>3 DEF FormRecord, FormIsTrue
<1>6. \A s \in Tabs \ {t} : form'[s] = form[s]
  BY <1>2, <1>3
<1> QED
  BY <1>4, <1>5, <1>6 DEF AccountsInv, FormsAreTrue

\* No account and no request.
THEOREM AccountsInvInitially == AccountsInit => AccountsInv
<1> SUFFICES ASSUME AccountsInit PROVE AccountsInv
  OBVIOUS
<1> USE DEF AccountsInit
<1>1. NoToken \in Tokens
  BY DEF NoToken, Tokens
<1>2. NoForm \in FormRecord
  BY <1>1 DEF NoForm, FormRecord
<1>3. NoCheck \in CheckRecord
  BY <1>1 DEF NoCheck, CheckRecord
<1>4. FormsAreTrue(form)
  BY <1>2 DEF FormsAreTrue, FormIsTrue, NoForm
<1>5. ChecksAreTrue(check)
  BY <1>3 DEF ChecksAreTrue, NoCheck
<1>6. TabsAreTrue(tab)
  BY <1>1 DEF TabsAreTrue, TabRecord, Opening
<1>7. OneAccountPerAddress
  BY DEF OneAccountPerAddress
<1> QED
  BY <1>1, <1>4, <1>5, <1>6, <1>7 DEF AccountsInv

\* Users are only added, so that what was true of them before stays true.
LEMMA AccountsKept ==
    ASSUME users' \in Seq(AccountRows), DOMAIN users \subseteq DOMAIN users',
           fixed' \in BOOLEAN, boots' \in Nat, storage' \in [token : Tokens, user : Nat],
           FormsAreTrue(form'), ChecksAreTrue(check'), TabsAreTrue(tab'),
           OneAccountPerAddress'
    PROVE  AccountsInv'
<1>1. FormsAreTrue(form)'
  BY DEF FormsAreTrue, FormIsTrue
<1>2. ChecksAreTrue(check)'
  BY DEF ChecksAreTrue
<1>3. TabsAreTrue(tab)'
  BY DEF TabsAreTrue
<1> QED
  BY <1>1, <1>2, <1>3 DEF AccountsInv

\* The form of one tab is replaced.
LEMMA FormReplaced ==
    ASSUME AccountsInv, NEW t \in Tabs, NEW f \in FormRecord, FormIsTrue(f),
           form' = [form EXCEPT ![t] = f]
    PROVE  FormsAreTrue(form')
BY DEF AccountsInv, FormsAreTrue

\* The check of the session in one tab.
LEMMA CheckReplaced ==
    ASSUME AccountsInv, NEW t \in Tabs, NEW c \in CheckRecord,
           check' = [check EXCEPT ![t] = c],
           c.stage = "answered" /\ c.code = "" => c.user = c.token.user /\ c.user \in DOMAIN users
    PROVE  ChecksAreTrue(check')
BY DEF AccountsInv, ChecksAreTrue

\* What one tab shows.
LEMMA TabReplaced ==
    ASSUME AccountsInv, NEW t \in Tabs, NEW b \in TabRecord,
           tab' = [tab EXCEPT ![t] = b],
           b.screen = "app" => b.token.user = b.user /\ b.user \in DOMAIN users
    PROVE  TabsAreTrue(tab')
BY DEF AccountsInv, TabsAreTrue

\* The invariant is inductive: no order of look-ups, hashes, INSERTs, lost
\* queries, restarts and tabs breaks it.
THEOREM AccountsInvPreserved == AccountsInv /\ [AccountsNext]_accountVars => AccountsInv'
<1> SUFFICES ASSUME AccountsInv, [AccountsNext]_accountVars PROVE AccountsInv'
  OBVIOUS
<1> USE DEF AccountsInv
<1>1. /\ NoToken \in Tokens /\ NoForm \in FormRecord /\ NoCheck \in CheckRecord
      /\ {"email_already_exists", "user_not_found", "invalid_password",
          "internal_server_error", "database_unavailable", "invalid_token"} \subseteq DefinedCodes
  <2>1. NoToken \in Tokens
    BY DEF NoToken, Tokens
  <2>2. NoForm \in FormRecord
    BY <2>1 DEF NoForm, FormRecord
  <2>3. NoCheck \in CheckRecord
    BY <2>1 DEF NoCheck, CheckRecord
  <2> QED
    BY <2>1, <2>2, <2>3 DEF DefinedCodes, Bad, Unauthorized, Missing, Unavailable, Passing
<1>2. \A t \in Tabs : /\ form[t] \in FormRecord /\ FormIsTrue(form[t])
                      /\ check[t] \in CheckRecord /\ check[t].token \in Tokens
  BY DEF FormsAreTrue, ChecksAreTrue, CheckRecord
<1>3. ASSUME UNCHANGED <<serverVars, check, storage, tab>>, FormsAreTrue(form')
      PROVE  AccountsInv'
  BY <1>3, AccountsKept DEF serverVars, OneAccountPerAddress
<1>4. ASSUME UNCHANGED <<serverVars, form>>, ChecksAreTrue(check'), TabsAreTrue(tab'),
             storage' \in [token : Tokens, user : Nat]
      PROVE  AccountsInv'
  BY <1>4, AccountsKept DEF serverVars, OneAccountPerAddress
<1>5. ASSUME NEW t \in Tabs, LookUpEmail(t) PROVE AccountsInv'
  <2> DEFINE id == GetUserByEmail(form[t].email)
  <2>1. id = 0 \/ id \in DOMAIN users
    BY DEF GetUserByEmail, Ids
  <2>2. UNCHANGED <<serverVars, check, storage, tab>> /\ form[t].stage = "sent"
    BY <1>5 DEF LookUpEmail
  <2>3. form[t].mode \in {"login", "register"} /\ form[t].stage # "idle"
    BY <1>2, <2>2 DEF FormIsTrue, FormRecord
  <2>4. CASE Reject(t, "email_already_exists") \/ Reject(t, "user_not_found")
    BY <1>1, <1>3, <2>2, <2>3, <2>4, RejectIsTrue
  <2>5. CASE form' = [form EXCEPT ![t].stage = "hashing"]
    <3> DEFINE f == [form[t] EXCEPT !.stage = "hashing"]
    <3>1. f \in FormRecord /\ FormIsTrue(f)
      BY <1>2, <2>2 DEF FormIsTrue, FormRecord
    <3> QED
      BY <1>3, <2>2, <2>5, <3>1, FormReplaced
  <2>6. CASE id # 0 /\ form' = [form EXCEPT ![t].stage = "comparing", ![t].found = id]
    <3> DEFINE f == [form[t] EXCEPT !.stage = "comparing", !.found = id]
    <3>1. id \in DOMAIN users /\ id \in Nat
      BY <2>1, <2>6
    <3>2. f \in FormRecord /\ FormIsTrue(f)
      BY <1>2, <2>2, <3>1 DEF FormIsTrue, FormRecord
    <3> QED
      BY <1>3, <2>2, <2>6, <3>2, FormReplaced
  <2> QED
    BY <1>5, <2>3, <2>4, <2>5, <2>6 DEF LookUpEmail
<1>6. ASSUME NEW t \in Tabs, InsertUser(t) PROVE AccountsInv'
  <2>1. UNCHANGED <<fixed, boots, check, storage, tab>> /\ form[t].stage = "hashing"
    BY <1>6 DEF InsertUser
  <2>2. CASE Ids(form[t].email) = {}
    <3> DEFINE f == [form[t] EXCEPT !.stage = "inserted", !.found = Len(users) + 1]
    <3>1. /\ users' \in Seq(AccountRows) /\ Len(users) + 1 \in DOMAIN users'
          /\ DOMAIN users \subseteq DOMAIN users' /\ OneAccountPerAddress'
      BY <1>6, <2>1, <2>2, RowAdded DEF InsertUser
    <3>2. form' = [form EXCEPT ![t] = f]
      BY <1>6, <2>2 DEF InsertUser
    <3>3. f \in FormRecord
      <4>1. Len(users) + 1 \in Nat
        OBVIOUS
      <4> QED
        BY <1>2, <4>1 DEF FormRecord
    <3>4. FormIsTrue(form[t])'
      BY <1>2, <2>1, <3>1, <3>2 DEF FormsAreTrue, FormIsTrue, FormRecord
    <3>5. FormsAreTrue(form)'
      BY <3>1, <3>2, <3>3, <3>4 DEF FormsAreTrue, FormIsTrue
    <3>6. ChecksAreTrue(check)' /\ TabsAreTrue(tab)'
      BY <2>1, <3>1 DEF ChecksAreTrue, TabsAreTrue
    <3> QED
      BY <2>1, <3>1, <3>5, <3>6
  <2>3. CASE Ids(form[t].email) # {}
    <3>1. Reject(t, "internal_server_error") /\ UNCHANGED users
      BY <1>6, <2>3 DEF InsertUser, ClassifyServerError, DatabaseErrors
    <3> QED
      BY <1>1, <1>3, <2>1, <3>1, RejectIsTrue DEF serverVars
  <2> QED  BY <2>2, <2>3
<1>7. ASSUME NEW t \in Tabs, ReadNewUser(t) PROVE AccountsInv'
  BY <1>2, <1>3, <1>7, AcceptIsTrue DEF ReadNewUser, FormIsTrue
<1>8. ASSUME NEW t \in Tabs, ComparePassword(t) PROVE AccountsInv'
  BY <1>1, <1>2, <1>3, <1>8, AcceptIsTrue, RejectIsTrue DEF ComparePassword, FormIsTrue
<1>9. ASSUME NEW t \in Tabs, Authorize(t) PROVE AccountsInv'
  <2> DEFINE c == [check[t] EXCEPT !.stage = "answered", !.user = check[t].token.user]
             d == [check[t] EXCEPT !.stage = "answered", !.code = "invalid_token"]
  <2>1. c \in CheckRecord /\ d \in CheckRecord /\ d.code # "" /\ c.user = c.token.user
    BY <1>1, <1>2 DEF CheckRecord, Tokens
  <2>2. \/ check' = [check EXCEPT ![t] = c] /\ check[t].token.user \in DOMAIN users
        \/ check' = [check EXCEPT ![t] = d]
    BY <1>9 DEF Authorize
  <2>3. c.user = check[t].token.user
    BY <1>2 DEF CheckRecord
  <2>4. ChecksAreTrue(check')
    <3>1. CASE check' = [check EXCEPT ![t] = c] /\ check[t].token.user \in DOMAIN users
      BY <2>1, <2>3, <3>1, CheckReplaced
    <3>2. CASE check' = [check EXCEPT ![t] = d]
      BY <2>1, <3>2, CheckReplaced
    <3> QED  BY <2>2, <3>1, <3>2
  <2> QED
    BY <1>4, <1>9, <2>4 DEF Authorize
<1>10. ASSUME NEW t \in Tabs, QueryLost(t) PROVE AccountsInv'
  <2>1. UNCHANGED <<fixed, boots, storage, tab>>
    BY <1>10 DEF QueryLost
  <2>2. CASE /\ form[t].stage \in {"sent", "hashing", "inserted"} /\ UNCHANGED check
             /\ Reject(t, "database_unavailable")
             /\ \/ UNCHANGED users
                \/ /\ form[t].stage = "hashing" /\ Ids(form[t].email) = {}
                   /\ users' = Append(users, NewUser(t))
    <3>1. FormsAreTrue(form')
      BY <1>1, <2>2, RejectIsTrue
    <3>2. users' \in Seq(AccountRows) /\ DOMAIN users \subseteq DOMAIN users' /\ OneAccountPerAddress'
      <4>1. CASE UNCHANGED users
        BY <4>1 DEF OneAccountPerAddress
      <4>2. CASE form[t].stage = "hashing" /\ Ids(form[t].email) = {}
                    /\ users' = Append(users, NewUser(t))
        BY <4>2, RowAdded
      <4> QED  BY <2>2, <4>1, <4>2
    <3> QED
      BY <2>1, <2>2, <3>1, <3>2, AccountsKept
  <2>3. CASE check[t].stage = "sent" /\ UNCHANGED <<users, form>> /\
             check' = [check EXCEPT ![t].stage = "answered", ![t].code = "database_unavailable"]
    <3> DEFINE c == [check[t] EXCEPT !.stage = "answered", !.code = "database_unavailable"]
    <3>1. c \in CheckRecord /\ c.code # ""
      BY <1>1, <1>2 DEF CheckRecord
    <3>2. ChecksAreTrue(check')
      BY <2>3, <3>1, CheckReplaced
    <3> QED
      BY <1>4, <2>1, <2>3, <3>2 DEF serverVars
  <2> QED
    BY <1>10, <2>2, <2>3 DEF QueryLost, ClassifyServerError, DatabaseErrors
<1>11. CASE Reboot
  <2>1. \A t \in Tabs : [form[t] EXCEPT !.stage = "lost"] \in FormRecord
                        /\ (form[t].stage # "idle" => FormIsTrue([form[t] EXCEPT !.stage = "lost"]))
    BY <1>2 DEF FormRecord, FormIsTrue
  <2>2. FormsAreTrue(form')
    BY <1>11, <2>1 DEF Reboot, FormsAreTrue, OnServer
  <2>3. \A t \in Tabs : [check[t] EXCEPT !.stage = "lost"] \in CheckRecord
                        /\ [check[t] EXCEPT !.stage = "lost"].stage = "lost"
    BY <1>2 DEF CheckRecord
  <2>4. ChecksAreTrue(check')
    BY <1>11, <2>3 DEF Reboot, ChecksAreTrue
  <2> QED
    BY <1>11, <2>2, <2>4, AccountsKept DEF Reboot, OneAccountPerAddress
<1>12. NoCheck.stage = "idle" /\ NoForm.stage = "idle" /\ FormIsTrue(NoForm)
  BY DEF NoCheck, NoForm, FormIsTrue
<1>13. ASSUME NEW t \in Tabs, ClearSession(t)
       PROVE  TabsAreTrue(tab') /\ storage' \in [token : Tokens, user : Nat]
  <2>1. SignedOut \in TabRecord /\ SignedOut.screen = "auth"
    BY <1>1 DEF SignedOut, TabRecord
  <2> QED
    BY <1>1, <1>13, <2>1, TabReplaced DEF ClearSession
<1>14. ASSUME NEW t \in Tabs, ValidateSession(t) PROVE AccountsInv'
  <2>1. UNCHANGED <<serverVars, form>>
    BY <1>14 DEF ValidateSession
  <2>2. CASE ClearSession(t) /\ UNCHANGED check
    BY <1>4, <1>13, <2>1, <2>2
  <2>3. CASE check' = [check EXCEPT ![t].stage = "sent", ![t].token = storage.token]
                /\ UNCHANGED <<storage, tab>>
    <3> DEFINE c == [check[t] EXCEPT !.stage = "sent", !.token = storage.token]
    <3>1. c \in CheckRecord /\ c.stage = "sent"
      BY <1>2 DEF CheckRecord
    <3> QED
      BY <1>4, <2>1, <2>3, <3>1, CheckReplaced
  <2> QED
    BY <1>14, <2>2, <2>3 DEF ValidateSession
<1>15. ASSUME NEW t \in Tabs, SessionAnswered(t) PROVE AccountsInv'
  <2>1. UNCHANGED <<serverVars, form>> /\ ChecksAreTrue(check')
    BY <1>1, <1>12, <1>15, CheckReplaced DEF SessionAnswered
  <2>2. CASE check[t].code = ""
    <3> DEFINE b == [screen |-> "app", token |-> check[t].token, user |-> check[t].user]
    <3>1. b \in TabRecord /\ b.token.user = b.user /\ b.user \in DOMAIN users
      BY <1>2, <1>15, <2>2 DEF SessionAnswered, ChecksAreTrue, TabRecord, CheckRecord
    <3>2. tab' = [tab EXCEPT ![t] = b] /\ storage' = [storage EXCEPT !.user = check[t].user]
      BY <1>15, <2>2 DEF SessionAnswered
    <3>3. check[t].user \in Nat
      BY <1>2 DEF CheckRecord
    <3> QED
      BY <1>4, <2>1, <3>1, <3>2, <3>3, TabReplaced
  <2>3. CASE check[t].code # ""
    BY <1>4, <1>13, <1>15, <2>1, <2>3 DEF SessionAnswered
  <2> QED  BY <2>2, <2>3
<1>16. ASSUME NEW t \in Tabs, SessionTimesOut(t) \/ Leave(t) PROVE AccountsInv'
  <2>1. UNCHANGED <<serverVars, form>> /\ ClearSession(t)
    BY <1>16 DEF SessionTimesOut, Leave
  <2>2. ChecksAreTrue(check')
    BY <1>1, <1>12, <1>16, CheckReplaced DEF SessionTimesOut, Leave
  <2> QED
    BY <1>4, <1>13, <2>1, <2>2
<1>17. ASSUME NEW t \in Tabs, Submit(t) PROVE AccountsInv'
  <2>1. PICK mode \in {"login", "register"}, e \in Emails, p \in Passwords :
            form' = [form EXCEPT ![t].stage = "sent", ![t].mode = mode, ![t].email = e,
                                 ![t].password = p, ![t].heard = TRUE]
    BY <1>17 DEF Submit
  <2> DEFINE f == [form[t] EXCEPT !.stage = "sent", !.mode = mode, !.email = e,
                                  !.password = p, !.heard = TRUE]
  <2>2. f \in FormRecord /\ FormIsTrue(f) /\ form' = [form EXCEPT ![t] = f]
    BY <1>2, <2>1 DEF FormRecord, FormIsTrue
  <2>3. FormsAreTrue(form')
    BY <2>2, FormReplaced
  <2> QED
    BY <1>3, <1>17, <2>2, <2>3 DEF Submit
<1>18. ASSUME NEW t \in Tabs, FormTimesOut(t) PROVE AccountsInv'
  <2> DEFINE f == [form[t] EXCEPT !.heard = FALSE]
  <2>1. f \in FormRecord /\ FormIsTrue(f)
    BY <1>2 DEF FormRecord, FormIsTrue
  <2> QED
    BY <1>3, <1>18, <2>1, FormReplaced DEF FormTimesOut
<1>19. ASSUME NEW t \in Tabs, FormLost(t) PROVE AccountsInv'
  BY <1>1, <1>3, <1>12, <1>19, FormReplaced DEF FormLost
<1>20. ASSUME NEW t \in Tabs, FormAnswered(t) PROVE AccountsInv'
  <2>1. FormsAreTrue(form')
    BY <1>1, <1>12, <1>20, FormReplaced DEF FormAnswered
  <2>2. UNCHANGED <<serverVars, check>>
    BY <1>20 DEF FormAnswered
  <2>3. CASE form[t].heard /\ form[t].code = ""
    <3> DEFINE b == [screen |-> "app", token |-> form[t].token, user |-> form[t].token.user]
    <3>1. b \in TabRecord /\ b.token.user = b.user /\ b.user \in DOMAIN users
      BY <1>2, <1>20, <2>3 DEF FormAnswered, FormIsTrue, FormRecord, TabRecord, Tokens
    <3>2. /\ tab' = [tab EXCEPT ![t] = b]
          /\ storage' = [token |-> form[t].token, user |-> form[t].token.user]
      BY <1>20, <2>3 DEF FormAnswered
    <3>3. storage' \in [token : Tokens, user : Nat]
      BY <1>2, <3>2 DEF FormRecord, Tokens
    <3> QED
      BY <2>1, <2>2, <3>1, <3>2, <3>3, TabReplaced, AccountsKept DEF serverVars, OneAccountPerAddress
  <2>4. CASE ~(form[t].heard /\ form[t].code = "")
    BY <1>3, <1>20, <2>1, <2>2, <2>4 DEF FormAnswered
  <2> QED  BY <2>3, <2>4
<1>21. ASSUME NEW t \in Tabs, Reopen(t) PROVE AccountsInv'
  <2>1. Opening \in TabRecord /\ Opening.screen = "checking"
    BY <1>1 DEF Opening, TabRecord
  <2>2. TabsAreTrue(tab') /\ ChecksAreTrue(check')
    BY <1>1, <1>12, <1>21, <2>1, TabReplaced, CheckReplaced DEF Reopen
  <2> DEFINE f == [form[t] EXCEPT !.heard = FALSE]
  <2>3. f \in FormRecord /\ FormIsTrue(f)
    BY <1>2 DEF FormRecord, FormIsTrue
  <2>4. FormsAreTrue(form')
    BY <1>21, <2>3, FormReplaced DEF Reopen
  <2> QED
    BY <1>21, <2>2, <2>4, AccountsKept DEF Reopen, serverVars, OneAccountPerAddress
<1>22. CASE UNCHANGED accountVars
  BY <1>22, AccountsKept DEF accountVars, serverVars, OneAccountPerAddress
<1> QED
  BY <1>5, <1>6, <1>7, <1>8, <1>9, <1>10, <1>11, <1>14, <1>15, <1>16, <1>17, <1>18, <1>19, <1>20,
     <1>21, <1>22 DEF AccountsNext

\* So it holds in every reachable state.
THEOREM AccountsInvariant == AccountsSpec => []AccountsInv
BY AccountsInvInitially, AccountsInvPreserved, PTL DEF AccountsSpec

\* OneAccountPerAddress: two registrations of one address never make two
\* accounts, for any tabs, lost queries and restarts.
THEOREM AddressesAreUnique == AccountsSpec => []OneAccountPerAddress
<1>1. AccountsInv => OneAccountPerAddress
  BY DEF AccountsInv
<1> QED
  BY AccountsInvariant, <1>1, PTL

\* ActsAsShownUser: the token of a tab is that of the user it shows, in
\* whatever order the tabs sign in and out over the storage they share.
THEOREM TabsActAsShown == AccountsSpec => []ActsAsShownUser
<1>1. AccountsInv => ActsAsShownUser
  BY DEF AccountsInv, TabsAreTrue, ActsAsShownUser
<1> QED
  BY AccountsInvariant, <1>1, PTL
-----------------------------------------------------------------------------
(***************************************************************************)
(* Versions.  The runs that hold the lock follow each other, so that what  *)
(* one has read stays as it was until it has written it; and as long as    *)
(* nobody edits the sources, a version that was given is that of all files.*)
(***************************************************************************)
RunRecord == [stage : Stages, attempts : Nat, source : Contents \cup {0}, version : Nat,
              epoch : Nat]
GivenRecord == [version : Nat, source : Contents \cup {0}, epoch : Nat]
ReleaseRecord ==
    [stage : {"sync", "building", "built", "verified", "uploaded", "cleaned", "failed"},
     version : Nat, source : Contents \cup {0}, epoch : Nat, maps : BOOLEAN,
     uploadedAs : Nat]

VersionsTypeOK ==
    /\ source \in Contents
    /\ edits \in Nat /\ backend \in Nat /\ frontend \in Nat
    /\ state \in [version : Nat, source : Contents \cup {0}]
    /\ lock \in Runs \cup {NoRun}
    /\ run \in [Runs -> RunRecord]
    /\ release \in ReleaseRecord
    /\ given \subseteq GivenRecord

HasRead == Holding \ {"locked"}
HasWritten == HasRead \ {"read"}

RunGave(r) == [version |-> run[r].version, source |-> run[r].source, epoch |-> run[r].epoch]

\* What a run that holds the lock knows is so.
HolderKnows(r) ==
    LET x == run[r]
    IN  /\ x.stage \in Holding => lock = r
        /\ x.stage \in {"idle", "waiting", "locked"} => x.epoch = 0
        /\ x.epoch <= edits
        /\ x.stage \in HasRead =>
            /\ x.epoch = edits => x.source = source
            /\ \A g \in given : g.epoch <= x.epoch
            /\ \A g \in given : g.epoch = x.epoch =>
                    g.version = x.version /\ g.source = x.source
        /\ x.stage = "read" => x.version = (IF x.source = state.source THEN backend ELSE backend + 1)
        /\ x.stage \in HasWritten =>
            /\ x.version = backend
            /\ \A g \in given : g.version = backend => g.source = x.source
        /\ x.stage \in {"wroteFrontend", "wroteState"} => frontend = x.version
        /\ x.stage = "wroteState" => state.source = x.source
        /\ x.stage = "done" => RunGave(r) \in given

\* No version but the last can be given again, and it is of the sources in the
\* state file; a version that was given since the last edit is in all files.
GivenIsTrue(g) ==
    /\ g.version <= backend
    /\ g.version = backend => g.source = state.source
    /\ g.epoch <= edits
    /\ g.epoch = edits =>
        /\ g.source = source /\ g.version = backend /\ frontend = backend
        /\ state.source = source

\* Until a start of edited sources comes, the files are as the sync of the
\* release has left them.
FilesAreReleased ==
    run[Release].stage = "done" =>
        \/ Overtaken
        \/ /\ backend = run[Release].version /\ frontend = run[Release].version
           /\ state.source = run[Release].source

\* The release is of the version its sync has given.
ReleaseIsTrue ==
    release.stage # "sync" =>
        /\ run[Release].stage = "done"
        /\ release.version = run[Release].version \/ Overtaken
        /\ release.stage \in {"built", "verified", "uploaded", "cleaned"}
            /\ release.epoch = run[Release].epoch =>
                release.version = run[Release].version /\ release.source = run[Release].source
        /\ release.stage \in {"uploaded", "cleaned"} =>
                release.uploadedAs = release.version \/ Overtaken

VersionsInv ==
    /\ VersionsTypeOK
    /\ \A r \in Runs : HolderKnows(r)
    /\ \A g \in given : GivenIsTrue(g)
    /\ VersionsTellSourcesApart
    /\ FilesAreReleased
    /\ ReleaseIsTrue

\* The first state: nothing has been read, written or given.
THEOREM VersionsInvInitially == VersionsInit => VersionsInv
<1> SUFFICES ASSUME VersionsInit PROVE VersionsInv
  OBVIOUS
<1>1. VersionsTypeOK
  BY DEF VersionsInit, VersionsTypeOK, NewRun, NoRelease, RunRecord, ReleaseRecord, GivenRecord, Stages
<1>2. \A r \in Runs : HolderKnows(r)
  BY DEF VersionsInit, HolderKnows, NewRun, Holding, HasRead, HasWritten
<1> QED
  BY <1>1, <1>2 DEF VersionsInit, VersionsInv, NoRelease, NewRun, VersionsTellSourcesApart,
     FilesAreReleased, ReleaseIsTrue, Runs

\* The stages in which a run holds the lock.
LEMMA HoldingStages ==
    /\ Holding = {"locked", "read", "wroteBackend", "wroteFrontend", "wroteState"}
    /\ HasRead = {"read", "wroteBackend", "wroteFrontend", "wroteState"}
    /\ HasWritten = {"wroteBackend", "wroteFrontend", "wroteState"}
    /\ Holding \subseteq Stages /\ {"idle", "waiting", "done", "failed", "killed"} \subseteq Stages
BY DEF Holding, HasRead, HasWritten, Stages

\* A step of one run leaves the records of the others as they are.
LEMMA RunReplaced ==
    ASSUME NEW r \in Runs, NEW x \in RunRecord, run \in [Runs -> RunRecord],
           run' = [run EXCEPT ![r] = x]
    PROVE  run' \in [Runs -> RunRecord] /\ run'[r] = x /\ \A q \in Runs \ {r} : run'[q] = run[q]
OBVIOUS

\* A step of a run leaves the release what it is: the one of its sync has
\* ended, and a start that has overtaken it stays what it has read.
LEMMA ReleaseStays ==
    ASSUME VersionsInv, NEW r \in Runs, NEW x \in RunRecord, run' = [run EXCEPT ![r] = x],
           run[r].stage # "done", UNCHANGED release,
           run[r].epoch = 0 \/ (x.epoch = run[r].epoch /\ x.source = run[r].source)
    PROVE  /\ ReleaseIsTrue'
           /\ run[Release].stage = "done" =>
                r # Release /\ run'[Release] = run[Release] /\ (Overtaken => Overtaken')
<1>1. run \in [Runs -> RunRecord] /\ ReleaseIsTrue
  BY DEF VersionsInv, VersionsTypeOK
<1>2. run'[r] = x /\ \A q \in Runs \ {r} : run'[q] = run[q]
  BY <1>1, RunReplaced
<1>3. ASSUME run[Release].stage = "done"
      PROVE  r # Release /\ run'[Release] = run[Release] /\ (Overtaken => Overtaken')
  <2>1. r # Release /\ run'[Release] = run[Release] /\ run[Release].epoch \in Nat
    BY <1>1, <1>2, <1>3 DEF Runs, RunRecord
  <2>2. ASSUME NEW s \in Starts, run[s].epoch > run[Release].epoch,
               run[s].source # run[Release].source
        PROVE  run'[s].epoch > run[Release].epoch /\ run'[s].source # run[Release].source
    BY <1>1, <1>2, <2>1, <2>2 DEF Runs, RunRecord
  <2> QED
    BY <2>1, <2>2 DEF Overtaken
<1> QED
  BY <1>1, <1>3 DEF ReleaseIsTrue

\* A run that knows nothing moves to a stage in which it still knows nothing:
\* the lock is its own, free or unchanged.
LEMMA RunMoves ==
    ASSUME VersionsInv, NEW r \in Runs, NEW x \in RunRecord, run' = [run EXCEPT ![r] = x],
           run[r].stage # "done", x.stage \notin HasRead \cup {"done"}, x.stage \in Holding => lock' = r,
           x.epoch = run[r].epoch, x.source = run[r].source,
           x.stage \in {"idle", "waiting", "locked"} => run[r].stage \in {"idle", "waiting"},
           \A q \in Runs \ {r} : run[q].stage \in Holding => lock' = q,
           lock' \in Runs \cup {NoRun},
           UNCHANGED <<source, edits, files, release, given>>
    PROVE  VersionsInv'
<1> USE DEF VersionsInv
<1>1. run' \in [Runs -> RunRecord] /\ run'[r] = x /\ \A q \in Runs \ {r} : run'[q] = run[q]
  BY RunReplaced DEF VersionsTypeOK
<1>2. VersionsTypeOK'
  BY <1>1 DEF VersionsTypeOK, files
<1>3. HolderKnows(r)'
  BY <1>1, HoldingStages DEF HolderKnows
<1>4. \A q \in Runs \ {r} : HolderKnows(q)'
  BY <1>1, HoldingStages DEF HolderKnows, RunGave, files
<1>5. \A g \in given' : GivenIsTrue(g)'
  BY DEF GivenIsTrue, files
<1>6. VersionsTellSourcesApart'
  BY DEF VersionsTellSourcesApart
<1>7. ReleaseIsTrue'
  BY ReleaseStays
<1>8. FilesAreReleased'
  <2>1. r = Release => run'[Release].stage # "done"
    BY <1>1
  <2>2. r # Release => run'[Release] = run[Release]
    BY <1>1 DEF Runs
  <2> QED
    BY <2>1, <2>2, ReleaseStays DEF FilesAreReleased, files
<1> QED
  BY <1>2, <1>3, <1>4, <1>5, <1>6, <1>7, <1>8

\* A run that holds the lock after the release's sync, when no edited sources
\* have been read since, has read the sources of the release and found their
\* version.
LEMMA HolderFollows ==
    ASSUME VersionsInv, NEW r \in Runs, run[r].stage \in HasRead, run[Release].stage = "done",
           ~Overtaken
    PROVE  /\ run[r].source = run[Release].source /\ run[r].version = run[Release].version
           /\ backend = run[Release].version /\ frontend = run[Release].version
           /\ state.source = run[Release].source
<1>1. /\ run[r] \in RunRecord /\ run[Release] \in RunRecord
      /\ HolderKnows(r) /\ HolderKnows(Release) /\ FilesAreReleased
  BY DEF VersionsInv, VersionsTypeOK, Runs
<1>2. r \in Starts /\ run[r].epoch \in Nat /\ run[Release].epoch \in Nat
  BY <1>1, HoldingStages DEF Runs, RunRecord
<1>3. RunGave(Release) \in given
  BY <1>1 DEF HolderKnows
<1>4. /\ RunGave(Release).epoch = run[Release].epoch
      /\ RunGave(Release).source = run[Release].source
  BY DEF RunGave
<1>5. /\ run[Release].epoch <= run[r].epoch
      /\ run[Release].epoch = run[r].epoch => run[Release].source = run[r].source
  BY <1>1, <1>3, <1>4 DEF HolderKnows
<1>6. run[r].source = run[Release].source
  BY <1>2, <1>5 DEF Overtaken
<1>7. /\ backend = run[Release].version /\ frontend = run[Release].version
      /\ state.source = run[Release].source
  BY <1>1 DEF FilesAreReleased
<1>8. run[r].version = backend
  BY <1>1, <1>6, <1>7, HoldingStages DEF HolderKnows
<1> QED
  BY <1>6, <1>7, <1>8

\* The invariant is inductive, whatever runs are killed or fail between two
\* writes and whenever the sources are edited.
THEOREM VersionsInvPreserved == VersionsInv /\ [VersionsNext]_versionVars => VersionsInv'
<1> SUFFICES ASSUME VersionsInv, [VersionsNext]_versionVars PROVE VersionsInv'
  OBVIOUS
<1> USE DEF VersionsInv
<1>1. \A r \in Runs : run[r] \in RunRecord /\ run[r].stage \in Stages /\ HolderKnows(r)
  BY DEF VersionsTypeOK, RunRecord
<1>2. \A r, q \in Runs : run[r].stage \in Holding /\ run[q].stage \in Holding => r = q
  BY DEF HolderKnows
<1>3. ASSUME NEW r \in Runs, Start(r) PROVE VersionsInv'
  <2> DEFINE x == [run[r] EXCEPT !.stage = "waiting"]
  <2>1. /\ x \in RunRecord /\ x.stage = "waiting" /\ run' = [run EXCEPT ![r] = x]
        /\ x.epoch = run[r].epoch /\ x.source = run[r].source
    BY <1>1, <1>3, HoldingStages DEF Start, RunRecord
  <2>2. \A q \in Runs : run[q].stage \in Holding => lock' = q
    BY <1>1, <1>3 DEF Start, HolderKnows
  <2> HIDE DEF x
  <2> QED
    BY <1>3, <2>1, <2>2, RunMoves, HoldingStages DEF Start, VersionsTypeOK
<1>4. ASSUME NEW r \in Runs, AcquireLock(r) PROVE VersionsInv'
  <2>1. CASE lock = NoRun
    <3> DEFINE x == [run[r] EXCEPT !.stage = "locked"]
    <3>1. /\ x \in RunRecord /\ x.stage = "locked" /\ run' = [run EXCEPT ![r] = x]
          /\ x.epoch = run[r].epoch /\ x.source = run[r].source
      BY <1>1, <1>4, <2>1, HoldingStages DEF AcquireLock, RunRecord
    <3>2. \A q \in Runs : run[q].stage \notin Holding
      BY <1>1, <2>1, VersionsAssumption DEF HolderKnows
    <3> HIDE DEF x
    <3> QED
      BY <1>4, <2>1, <3>1, <3>2, RunMoves, HoldingStages DEF AcquireLock, VersionsTypeOK
  <2>2. CASE lock # NoRun
    <3> DEFINE x == IF run[r].attempts + 1 = Attempts THEN [run[r] EXCEPT !.stage = "failed"]
                                                      ELSE [run[r] EXCEPT !.attempts = @ + 1]
    <3>1. run[r].attempts + 1 \in Nat
      BY <1>1 DEF RunRecord
    <3>2. /\ x \in RunRecord /\ x.stage \in {"failed", "waiting"} /\ run' = [run EXCEPT ![r] = x]
          /\ x.epoch = run[r].epoch /\ x.source = run[r].source
      BY <1>1, <1>4, <2>2, <3>1, HoldingStages DEF AcquireLock, RunRecord
    <3>3. \A q \in Runs : run[q].stage \in Holding => lock' = q
      BY <1>1, <1>4, <2>2 DEF AcquireLock, HolderKnows
    <3> HIDE DEF x
    <3> QED
      BY <1>4, <2>2, <3>2, <3>3, RunMoves, HoldingStages DEF AcquireLock, VersionsTypeOK
  <2> QED  BY <2>1, <2>2
<1>5. ASSUME NEW r \in Runs, SyncFails(r) PROVE VersionsInv'
  <2> DEFINE x == [run[r] EXCEPT !.stage = "failed"]
  <2>1. /\ x \in RunRecord /\ x.stage = "failed" /\ run' = [run EXCEPT ![r] = x]
        /\ x.epoch = run[r].epoch /\ x.source = run[r].source
    BY <1>1, <1>5, HoldingStages DEF SyncFails, RunRecord
  <2>2. \A q \in Runs \ {r} : run[q].stage \notin Holding
    BY <1>2, <1>5 DEF SyncFails
  <2> HIDE DEF x
  <2> QED
    BY <1>5, <2>1, <2>2, RunMoves, HoldingStages DEF SyncFails, VersionsTypeOK
<1>6. ASSUME NEW r \in Runs, Kill(r) PROVE VersionsInv'
  <2> DEFINE x == [run[r] EXCEPT !.stage = "killed"]
  <2>1. /\ x \in RunRecord /\ x.stage = "killed" /\ run' = [run EXCEPT ![r] = x]
        /\ x.epoch = run[r].epoch /\ x.source = run[r].source
    BY <1>1, <1>6, HoldingStages DEF Kill, RunRecord
  <2>2. \A q \in Runs \ {r} : run[q].stage \notin Holding
    BY <1>2, <1>6 DEF Kill
  <2> HIDE DEF x
  <2> QED
    BY <1>6, <2>1, <2>2, RunMoves, HoldingStages DEF Kill, VersionsTypeOK
<1>7. CASE RemoveStaleLock
  <2>1. lock \in Runs /\ \A q \in Runs : run[q].stage \notin Holding
    BY <1>1, <1>7, HoldingStages DEF RemoveStaleLock, VersionsTypeOK, HolderKnows
  <2>2. \A q \in Runs : HolderKnows(q)'
    BY <1>7, <2>1, HoldingStages DEF RemoveStaleLock, HolderKnows, RunGave, files
  <2> QED
    BY <1>7, <2>2 DEF RemoveStaleLock, VersionsTypeOK, GivenIsTrue, VersionsTellSourcesApart,
       FilesAreReleased, ReleaseIsTrue, Overtaken, files
<1>8. ASSUME NEW s \in Contents, Edit(s) PROVE VersionsInv'
  <2>1. edits \in Nat /\ edits' = edits + 1 /\ source' \in Contents
    BY <1>8 DEF Edit, VersionsTypeOK
  <2>2. VersionsTypeOK'
    BY <1>8, <2>1 DEF Edit, VersionsTypeOK, files
  <2>3. \A q \in Runs : HolderKnows(q)'
    BY <1>1, <1>8, <2>1, HoldingStages DEF Edit, HolderKnows, RunGave, files, RunRecord
  <2>4. \A g \in given' : GivenIsTrue(g)'
    BY <1>8, <2>1 DEF Edit, GivenIsTrue, files, VersionsTypeOK, GivenRecord
  <2>5. ReleaseIsTrue' /\ FilesAreReleased'
    BY <1>8 DEF Edit, ReleaseIsTrue, FilesAreReleased, Overtaken, files
  <2> QED
    BY <1>8, <2>2, <2>3, <2>4, <2>5 DEF Edit, VersionsTellSourcesApart
<1>9. ASSUME NEW r \in Runs, ReadSources(r) PROVE VersionsInv'
  <2> DEFINE v == IF state.source # source THEN backend + 1 ELSE backend
             x == [run[r] EXCEPT !.stage = "read", !.source = source, !.epoch = edits, !.version = v]
  <2>1. v \in Nat /\ edits \in Nat /\ source \in Contents \cup {0}
    BY DEF VersionsTypeOK
  <2>2. /\ x \in RunRecord /\ run' = [run EXCEPT ![r] = x]
        /\ x.stage = "read" /\ x.source = source /\ x.epoch = edits /\ x.version = v
    BY <1>1, <1>9, <2>1, HoldingStages DEF ReadSources, RunRecord
  <2> HIDE DEF x
  <2>3. run' \in [Runs -> RunRecord] /\ run'[r] = x /\ \A q \in Runs \ {r} : run'[q] = run[q]
    BY <2>2, RunReplaced DEF VersionsTypeOK
  <2>4. VersionsTypeOK'
    BY <1>9, <2>3 DEF ReadSources, VersionsTypeOK, files
  <2>5. HolderKnows(r)'
    BY <1>1, <1>9, <2>1, <2>2, <2>3, HoldingStages DEF ReadSources, HolderKnows, files, GivenIsTrue
  <2>6. \A q \in Runs \ {r} : HolderKnows(q)'
    BY <1>1, <1>2, <1>9, <2>3, HoldingStages DEF ReadSources, HolderKnows, RunGave, files
  <2>7. (\A g \in given : GivenIsTrue(g))'
    BY <1>9 DEF ReadSources, GivenIsTrue, files
  <2>8. ReleaseIsTrue' /\ FilesAreReleased'
    <3>1. run[r].epoch = 0 /\ run[r].stage # "done" /\ UNCHANGED release
      BY <1>1, <1>9 DEF ReadSources, HolderKnows
    <3>2. run'[Release].stage = "done" => run[Release].stage = "done"
      BY <2>2, <2>3 DEF Runs
    <3> QED
      BY <1>9, <2>2, <3>1, <3>2, ReleaseStays DEF ReadSources, FilesAreReleased, files
  <2> QED
    BY <1>9, <2>4, <2>5, <2>6, <2>7, <2>8 DEF ReadSources, VersionsTellSourcesApart
<1>10. ASSUME NEW r \in Runs, WriteBackend(r) PROVE VersionsInv'
  <2> DEFINE x == [run[r] EXCEPT !.stage = "wroteBackend"]
  <2>1. /\ x \in RunRecord /\ run' = [run EXCEPT ![r] = x] /\ x.stage = "wroteBackend"
        /\ x.source = run[r].source /\ x.epoch = run[r].epoch /\ x.version = run[r].version
    BY <1>1, <1>10, HoldingStages DEF WriteBackend, RunRecord
  <2> HIDE DEF x
  <2>2. run' \in [Runs -> RunRecord] /\ run'[r] = x /\ \A q \in Runs \ {r} : run'[q] = run[q]
    BY <2>1, RunReplaced DEF VersionsTypeOK
  <2>3. /\ run[r].version = (IF run[r].source = state.source THEN backend ELSE backend + 1)
        /\ backend' = run[r].version /\ backend \in Nat /\ edits \in Nat /\ run[r].epoch \in Nat
        /\ backend' \in Nat
    BY <1>1, <1>10 DEF WriteBackend, HolderKnows, VersionsTypeOK, RunRecord
  <2>4. \A g \in given : /\ GivenIsTrue(g) /\ g.epoch \in Nat /\ g.version \in Nat
                         /\ g.epoch <= run[r].epoch /\ run[r].epoch <= edits
                         /\ g.epoch = run[r].epoch => g.version = run[r].version
    BY <1>1, <1>10, HoldingStages DEF WriteBackend, HolderKnows, VersionsTypeOK, GivenRecord
  <2>5. VersionsTypeOK'
    BY <1>10, <2>2, <2>3 DEF WriteBackend, VersionsTypeOK
  <2>6. HolderKnows(r)'
    BY <1>1, <1>10, <2>1, <2>2, <2>3, <2>4, HoldingStages
    DEF WriteBackend, HolderKnows, GivenIsTrue
  <2>7. \A q \in Runs \ {r} : HolderKnows(q)'
    BY <1>1, <1>2, <1>10, <2>2, HoldingStages DEF WriteBackend, HolderKnows, RunGave
  <2>8. (\A g \in given : GivenIsTrue(g))'
    BY <1>10, <2>3, <2>4 DEF WriteBackend, GivenIsTrue
  <2>9. ReleaseIsTrue' /\ FilesAreReleased'
    <3>1. run[r].stage \in HasRead /\ UNCHANGED release
      BY <1>10, HoldingStages DEF WriteBackend
    <3>2. run'[Release].stage = "done" => run[Release].stage = "done"
      BY <2>1, <2>2 DEF Runs
    <3> QED
      BY <1>10, <2>1, <2>3, <3>1, <3>2, HoldingStages, HolderFollows, ReleaseStays
      DEF WriteBackend, FilesAreReleased
  <2> QED
    BY <1>10, <2>5, <2>6, <2>7, <2>8, <2>9 DEF WriteBackend, VersionsTellSourcesApart
<1>11. ASSUME NEW r \in Runs, WriteFrontend(r) PROVE VersionsInv'
  <2> DEFINE x == [run[r] EXCEPT !.stage = "wroteFrontend"]
  <2>1. /\ x \in RunRecord /\ run' = [run EXCEPT ![r] = x] /\ x.stage = "wroteFrontend"
        /\ x.source = run[r].source /\ x.epoch = run[r].epoch /\ x.version = run[r].version
    BY <1>1, <1>11, HoldingStages DEF WriteFrontend, RunRecord
  <2> HIDE DEF x
  <2>2. run' \in [Runs -> RunRecord] /\ run'[r] = x /\ \A q \in Runs \ {r} : run'[q] = run[q]
    BY <2>1, RunReplaced DEF VersionsTypeOK
  <2>3. run[r].version = backend /\ frontend' = backend /\ backend \in Nat
    BY <1>1, <1>11, HoldingStages DEF WriteFrontend, HolderKnows, VersionsTypeOK
  <2>4. VersionsTypeOK'
    BY <1>11, <2>2, <2>3 DEF WriteFrontend, VersionsTypeOK
  <2>5. HolderKnows(r)'
    BY <1>1, <1>11, <2>1, <2>2, <2>3, HoldingStages DEF WriteFrontend, HolderKnows
  <2>6. \A q \in Runs \ {r} : HolderKnows(q)'
    BY <1>1, <1>2, <1>11, <2>2, HoldingStages DEF WriteFrontend, HolderKnows, RunGave
  <2>7. (\A g \in given : GivenIsTrue(g))'
    BY <1>11, <2>3 DEF WriteFrontend, GivenIsTrue
  <2>8. ReleaseIsTrue' /\ FilesAreReleased'
    <3>1. run[r].stage \in HasRead /\ UNCHANGED release
      BY <1>11, HoldingStages DEF WriteFrontend
    <3>2. run'[Release].stage = "done" => run[Release].stage = "done"
      BY <2>1, <2>2 DEF Runs
    <3> QED
      BY <1>11, <2>1, <2>3, <3>1, <3>2, HoldingStages, HolderFollows, ReleaseStays
      DEF WriteFrontend, FilesAreReleased
  <2> QED
    BY <1>11, <2>4, <2>5, <2>6, <2>7, <2>8 DEF WriteFrontend, VersionsTellSourcesApart
<1>12. ASSUME NEW r \in Runs, WriteState(r) PROVE VersionsInv'
  <2> DEFINE x == [run[r] EXCEPT !.stage = "wroteState"]
  <2>1. /\ x \in RunRecord /\ run' = [run EXCEPT ![r] = x] /\ x.stage = "wroteState"
        /\ x.source = run[r].source /\ x.epoch = run[r].epoch /\ x.version = run[r].version
    BY <1>1, <1>12, HoldingStages DEF WriteState, RunRecord
  <2> HIDE DEF x
  <2>2. run' \in [Runs -> RunRecord] /\ run'[r] = x /\ \A q \in Runs \ {r} : run'[q] = run[q]
    BY <2>1, RunReplaced DEF VersionsTypeOK
  <2>3. state' = [version |-> run[r].version, source |-> run[r].source]
    BY <1>12 DEF WriteState
  <2>4. VersionsTypeOK'
    BY <1>1, <1>12, <2>2, <2>3 DEF WriteState, VersionsTypeOK, RunRecord
  <2>5. HolderKnows(r)'
    BY <1>1, <1>12, <2>1, <2>2, <2>3, HoldingStages DEF WriteState, HolderKnows
  <2>6. \A q \in Runs \ {r} : HolderKnows(q)'
    BY <1>1, <1>2, <1>12, <2>2, HoldingStages DEF WriteState, HolderKnows, RunGave
  <2>7. /\ \A g \in given : g.version = backend => g.source = run[r].source
        /\ \A g \in given : g.epoch <= run[r].epoch
        /\ run[r].epoch <= edits /\ (run[r].epoch = edits => run[r].source = source)
    BY <1>1, <1>12, HoldingStages DEF WriteState, HolderKnows
  <2>8. \A g \in given : g.epoch \in Nat /\ run[r].epoch \in Nat /\ edits \in Nat
    BY <1>1 DEF VersionsTypeOK, GivenRecord, RunRecord
  <2>9. (\A g \in given : GivenIsTrue(g))'
    BY <1>12, <2>3, <2>7, <2>8 DEF WriteState, GivenIsTrue
  <2>10. ReleaseIsTrue' /\ FilesAreReleased'
    <3>1. run[r].stage \in HasRead /\ UNCHANGED release
      BY <1>12, HoldingStages DEF WriteState
    <3>2. run'[Release].stage = "done" => run[Release].stage = "done"
      BY <2>1, <2>2 DEF Runs
    <3> QED
      <4>1. ReleaseIsTrue' /\ (run[Release].stage = "done" =>
                run'[Release] = run[Release] /\ (Overtaken => Overtaken'))
        BY <2>1, <3>1, HoldingStages, ReleaseStays
      <4>2. run[Release].stage = "done" /\ ~Overtaken =>
                /\ state'.source = run[Release].source
                /\ backend' = run[Release].version /\ frontend' = run[Release].version
        BY <1>12, <2>3, <3>1, HolderFollows DEF WriteState
      <4> QED
        BY <3>2, <4>1, <4>2 DEF FilesAreReleased
  <2> QED
    BY <1>12, <2>4, <2>5, <2>6, <2>9, <2>10 DEF WriteState, VersionsTellSourcesApart
<1>13. ASSUME NEW r \in Runs, Unlock(r) PROVE VersionsInv'
  <2> DEFINE x == [run[r] EXCEPT !.stage = "done"]
  <2>1. /\ x \in RunRecord /\ run' = [run EXCEPT ![r] = x] /\ x.stage = "done"
        /\ x.source = run[r].source /\ x.epoch = run[r].epoch /\ x.version = run[r].version
    BY <1>1, <1>13, HoldingStages DEF Unlock, RunRecord
  <2> HIDE DEF x
  <2>2. run' \in [Runs -> RunRecord] /\ run'[r] = x /\ \A q \in Runs \ {r} : run'[q] = run[q]
    BY <2>1, RunReplaced DEF VersionsTypeOK
  <2>3. given' = given \cup {RunGave(r)} /\ RunGave(r) \in GivenRecord
    BY <1>1, <1>13 DEF Unlock, RunGave, RunRecord, GivenRecord
  <2>4. VersionsTypeOK'
    BY <1>13, <2>2, <2>3 DEF Unlock, VersionsTypeOK, files
  <2>5. HolderKnows(r)' /\ \A q \in Runs \ {r} : HolderKnows(q)'
    BY <1>1, <1>2, <1>13, <2>1, <2>2, <2>3, HoldingStages DEF Unlock, HolderKnows, RunGave, files
  <2>6. GivenIsTrue(RunGave(r))
    <3>1. /\ run[r].version = backend /\ frontend = backend /\ state.source = run[r].source
          /\ run[r].epoch <= edits /\ (run[r].epoch = edits => run[r].source = source)
          /\ backend <= backend
      BY <1>1, <1>13, HoldingStages DEF Unlock, HolderKnows, VersionsTypeOK
    <3> QED
      BY <3>1 DEF RunGave, GivenIsTrue
  <2>7. (\A g \in given : GivenIsTrue(g))'
    BY <1>13, <2>3, <2>6 DEF Unlock, GivenIsTrue, files
  <2>8. \A g \in given : /\ g.version = RunGave(r).version => g.source = RunGave(r).source
                         /\ g.epoch = RunGave(r).epoch => g.version = RunGave(r).version
    BY <1>1, <1>13, HoldingStages DEF Unlock, HolderKnows, RunGave
  <2>9. VersionsTellSourcesApart'
    BY <2>3, <2>8 DEF VersionsTellSourcesApart
  <2>10. ReleaseIsTrue' /\ FilesAreReleased'
    <3>1. run[r].stage = "wroteState" /\ UNCHANGED <<release, files>>
      BY <1>13 DEF Unlock
    <3>2. CASE r = Release
      <4>1. /\ run[r].version = backend /\ frontend = run[r].version
            /\ state.source = run[r].source
        BY <1>1, <3>1, HoldingStages DEF HolderKnows
      <4> QED
        BY <2>1, <2>2, <3>1, <3>2, <4>1, ReleaseStays DEF FilesAreReleased, files
    <3>3. CASE r # Release
      <4>1. run'[Release] = run[Release]
        BY <2>2, <3>3 DEF Runs
      <4> QED
        BY <2>1, <3>1, <4>1, ReleaseStays DEF FilesAreReleased, files
    <3> QED
      BY <3>2, <3>3
  <2> QED
    BY <2>4, <2>5, <2>7, <2>9, <2>10
<1>14. ASSUME UNCHANGED <<source, edits, files, lock, run, given>>, release' \in ReleaseRecord,
              ReleaseIsTrue'
       PROVE  VersionsInv'
  <2>1. UNCHANGED FilesAreReleased
    BY <1>14 DEF FilesAreReleased, Overtaken, files
  <2> QED
    BY <1>14, <2>1 DEF VersionsTypeOK, HolderKnows, RunGave, GivenIsTrue, VersionsTellSourcesApart,
       files
<1>15. release \in ReleaseRecord /\ source \in Contents /\ frontend \in Nat /\ edits \in Nat
  BY DEF VersionsTypeOK
<1>16. ASSUME run[Release].stage = "done", edits = run[Release].epoch
       PROVE  ~Overtaken /\ run[Release].source = source
  <2>1. RunGave(Release) \in given /\ GivenIsTrue(RunGave(Release))
    BY <1>1, <1>16 DEF Runs, HolderKnows
  <2>2. \A s \in Starts : run[s].epoch <= edits /\ run[s].epoch \in Nat
    BY <1>1 DEF Runs, HolderKnows, RunRecord
  <2> QED
    BY <1>15, <1>16, <2>1, <2>2 DEF RunGave, GivenIsTrue, Overtaken
<1>17. CASE LoadBuildEnv
  <2>1. ReleaseIsTrue'
    BY <1>15, <1>17 DEF LoadBuildEnv, FilesAreReleased, ReleaseIsTrue, ReleaseRecord, Overtaken
  <2> QED
    BY <1>14, <1>15, <1>17, <2>1 DEF LoadBuildEnv, ReleaseRecord
<1>18. CASE Build
  <2>1. ReleaseIsTrue'
    BY <1>15, <1>16, <1>18 DEF Build, ReleaseIsTrue, ReleaseRecord, Overtaken
  <2> QED
    BY <1>14, <1>15, <1>18, <2>1 DEF Build, ReleaseRecord
<1>19. CASE VerifySourceMaps
  BY <1>14, <1>15, <1>19 DEF VerifySourceMaps, ReleaseIsTrue, ReleaseRecord, Overtaken
<1>20. CASE UploadSourceMaps
  <2>1. ReleaseIsTrue'
    BY <1>15, <1>20 DEF UploadSourceMaps, FilesAreReleased, ReleaseIsTrue, ReleaseRecord, Overtaken
  <2> QED
    BY <1>14, <1>15, <1>20, <2>1 DEF UploadSourceMaps, ReleaseRecord
<1>21. CASE CleanSourceMaps
  BY <1>14, <1>15, <1>21 DEF CleanSourceMaps, ReleaseIsTrue, ReleaseRecord, Overtaken
<1>22. CASE ReleaseFails
  BY <1>14, <1>15, <1>22 DEF ReleaseFails, ReleaseIsTrue, ReleaseRecord, Overtaken
<1>23. CASE UNCHANGED versionVars
  BY <1>14, <1>15, <1>23 DEF versionVars, ReleaseIsTrue, Overtaken
<1> QED
  BY <1>3, <1>4, <1>5, <1>6, <1>7, <1>8, <1>9, <1>10, <1>11, <1>12, <1>13, <1>17, <1>18, <1>19,
     <1>20, <1>21, <1>22, <1>23 DEF VersionsNext, RunStep

\* So it holds in every reachable state.
THEOREM VersionsInvariant == VersionsSpec => []VersionsInv
BY VersionsInvInitially, VersionsInvPreserved, PTL DEF VersionsSpec

\* VersionsTellSourcesApart: no version is ever given to two states of the
\* sources, and all runs since an edit give the same one, for any number of
\* runs, edits, kills and failed writes.
THEOREM VersionsIdentifySources == VersionsSpec => []VersionsTellSourcesApart
<1>1. VersionsInv => VersionsTellSourcesApart
  BY DEF VersionsInv
<1> QED
  BY VersionsInvariant, <1>1, PTL

\* MapsAreFound: the maps are uploaded under the version of their bundle unless
\* a start of edited sources has overtaken the release; and the version of a
\* bundle of the sources the sync has seen is of no other sources.
THEOREM UploadedMapsAreFound == VersionsSpec => []MapsAreFound
<1>1. ASSUME VersionsInv, release.stage \in {"uploaded", "cleaned"},
             release.epoch = run[Release].epoch,
             NEW g \in given, g.version = release.version
      PROVE  g.source = release.source
  <2>1. RunGave(Release) \in given
    BY <1>1 DEF VersionsInv, ReleaseIsTrue, HolderKnows, Runs
  <2>2. release.version = run[Release].version /\ release.source = run[Release].source
    BY <1>1 DEF VersionsInv, ReleaseIsTrue
  <2> QED
    BY <1>1, <2>1, <2>2 DEF VersionsInv, VersionsTellSourcesApart, RunGave
<1>2. VersionsInv => MapsAreFound
  BY <1>1 DEF VersionsInv, ReleaseIsTrue, MapsAreFound
<1> QED
  BY VersionsInvariant, <1>2, PTL
-----------------------------------------------------------------------------
(***************************************************************************)
(* Configuration.  Of any environment, not only those TLC starts with.     *)
(***************************************************************************)
EnvTypeOK == DOMAIN env = Names /\ \A n \in Names : env[n] \in Values(n)

\* What a process that runs has found in its environment, and what it has
\* answered last follows from that.
ConfigurationInv ==
    /\ EnvTypeOK
    /\ process = "started" =>
        /\ ~HasIssue /\ ~(WeakSecret /\ AuthIsProduction)
        /\ config = LoadConfig
    /\ served # NoHeaders =>
        /\ process = "started"
        /\ IF IsAllowed(served.origin, config.cors)
           THEN served.timing = TimingAllowOrigin(served.origin)
           ELSE served.refused /\ served.timing = NoOrigin

\* A process of any environment that has not been started yet.
AnyEnvironment == EnvTypeOK /\ process = "down" /\ config = NoConfig /\ served = NoHeaders

\* The invariant is inductive: a process starts only without an issue, and the
\* environment and the configuration do not change after that.
THEOREM ConfigurationInvPreserved ==
    ConfigurationInv /\ [ConfigurationNext]_configurationVars => ConfigurationInv'
<1> SUFFICES ASSUME ConfigurationInv, [ConfigurationNext]_configurationVars
             PROVE  ConfigurationInv'
  OBVIOUS
<1>1. env' = env
  BY DEF ConfigurationNext, Boot, Serve, configurationVars
<1>2. /\ EnvTypeOK' = EnvTypeOK /\ HasIssue' = HasIssue /\ LoadConfig' = LoadConfig
      /\ (WeakSecret /\ AuthIsProduction)' = (WeakSecret /\ AuthIsProduction)
  <2>1. ASSUME NEW n PROVE Given(n)' = Given(n) /\ Fits(n)' = Fits(n) /\ Number(n)' = Number(n)
    <3>1. Given(n)' = Given(n)
      BY <1>1 DEF Given
    <3>2. Fits(n)' = Fits(n)
      BY <3>1 DEF Fits, InRange
    <3> QED
      BY <3>1, <3>2 DEF Number
  <2>2. CorsOrigins' = CorsOrigins /\ TimingAllowOrigins' = TimingAllowOrigins
    BY <1>1 DEF CorsOrigins, TimingAllowOrigins, Csv
  <2>3. /\ CaptureMode' = CaptureMode /\ IsProduction' = IsProduction
        /\ OpenaiEnabled' = OpenaiEnabled /\ AzureEnabled' = AzureEnabled
    BY <1>1 DEF CaptureMode, IsProduction, Text, OpenaiEnabled, AzureEnabled
  <2>4. EnvTypeOK' = EnvTypeOK
    BY <1>1 DEF EnvTypeOK
  <2>5. WeakSecret' = WeakSecret /\ AuthIsProduction' = AuthIsProduction
    BY <1>1, Zenon DEF WeakSecret, AuthIsProduction, Text
  <2>6. ProductionIssue' = ProductionIssue /\ OverlapIssue' = OverlapIssue
    BY <1>1, <2>1, <2>2, <2>3 DEF ProductionIssue, OverlapIssue
  <2>7. LoadConfig' = LoadConfig
    BY <1>1, <2>1, <2>2, <2>3, <2>5, Zenon DEF LoadConfig
  <2>8. HasIssue' = HasIssue
    BY <1>1, <2>1, <2>3, <2>6, Zenon DEF HasIssue
  <2> QED
    BY <2>4, <2>5, <2>7, <2>8
<1>3. CASE Boot
  BY <1>1, <1>2, <1>3 DEF Boot, ConfigurationInv
<1>4. ASSUME NEW o \in (Origins \ {AnyOrigin}) \cup {NoOrigin}, Serve(o) PROVE ConfigurationInv'
  BY <1>1, <1>2, <1>4 DEF Serve, ConfigurationInv, TimingAllowOrigin
<1>5. CASE UNCHANGED configurationVars
  BY <1>1, <1>2, <1>5 DEF configurationVars, ConfigurationInv, TimingAllowOrigin
<1> QED
  BY <1>3, <1>4, <1>5 DEF ConfigurationNext

\* The values of the numbers, of the lists and of the secret.
LEMMA ValuesOfKinds ==
    /\ \A n \in DOMAIN Limits : Unset \in Values(n) /\ Values(n) \subseteq {Unset, Blank, Word} \cup Int
    /\ \A n \in Lists : Values(n) = {<<>>} \cup {<<o>> : o \in Origins}
    /\ Values("JWT_SECRET") = {"", "short", "demo", "short demo", "random"}
<1>1. /\ \A n \in DOMAIN Limits : n \notin Lists \cup {"NODE_ENV", "DD_ENV", "SPAN_BODY_CAPTURE_MODE",
                                                      "JWT_SECRET", "SMS_API_URL"}
      /\ \A n \in DOMAIN Limits : Limits[n][2] \in Int /\ Limits[n][3] \in Int
  BY DEF Limits, Lists
<1>2. \A n \in DOMAIN Limits : Values(n) =
          {Unset, Blank, Word} \cup UNION {{b - 1, b, b + 1} : b \in {Limits[n][2], Limits[n][3]}}
  BY <1>1, Zenon DEF Values
<1>3. ASSUME NEW n \in Lists PROVE Values(n) = {<<>>} \cup {<<o>> : o \in Origins}
  BY <1>1, <1>3, Zenon DEF Values, Lists
<1>4. Values("JWT_SECRET") = {"", "short", "demo", "short demo", "random"}
  BY <1>1, Zenon DEF Values, Lists
<1>5. \A n \in DOMAIN Limits : Unset \in Values(n) /\ Values(n) \subseteq {Unset, Blank, Word} \cup Int
  BY <1>1, <1>2
<1> QED
  BY <1>3, <1>4, <1>5, Zenon

\* What can be in the environment for them.
LEMMA EnvValues ==
    ASSUME EnvTypeOK
    PROVE  /\ \A n \in DOMAIN Limits : env[n] \in {Unset, Blank, Word} \cup Int
           /\ \A n \in Lists : env[n] = <<>> \/ \E o \in Origins : env[n] = <<o>>
           /\ env["JWT_SECRET"] \in {"", "short", "demo", "short demo", "random"}
<1>1. DOMAIN Limits \cup Lists \cup {"JWT_SECRET"} \subseteq Names
  BY Zenon DEF Names, Texts, Required
<1> QED
  BY <1>1, ValuesOfKinds, Zenon DEF EnvTypeOK

\* A list of origins is never empty, and holds what the environment lists or
\* the local addresses.
LEMMA ListsOfOrigins ==
    ASSUME EnvTypeOK, NEW l, l \in {CorsOrigins, TimingAllowOrigins}
    PROVE  /\ Includes(l, l[1])
           /\ \A o : Includes(l, o) /\ o # "local" =>
                  Includes(env["CORS_ORIGIN"] \o env["RUM_TIMING_ALLOW_ORIGIN"], o)
           /\ \A o : Includes(CorsOrigins, o) /\ o # "local" => Includes(env["CORS_ORIGIN"], o)
<1> DEFINE a == env["CORS_ORIGIN"]
           b == env["RUM_TIMING_ALLOW_ORIGIN"]
           local == <<"local">>
<1>1. (a = <<>> \/ \E o \in Origins : a = <<o>>) /\ (b = <<>> \/ \E o \in Origins : b = <<o>>)
  BY EnvValues DEF Lists
<1>2. CorsOrigins = (IF a = <<>> THEN local ELSE a)
  BY DEF CorsOrigins, Csv
<1>3. TimingAllowOrigins = IF b = <<>> THEN CorsOrigins ELSE b
  BY DEF TimingAllowOrigins, Csv
<1>4. l \in {a, b, local} /\ CorsOrigins \in {a, local}
  BY <1>2, <1>3
<1>5. l # <<>>
  <2>1. local # <<>>
    OBVIOUS
  <2> HIDE DEF a, b, local
  <2> QED
    BY <1>2, <1>3, <2>1
<1>6. DOMAIN l = {1} /\ Includes(l, l[1])
  <2>1. PICK o : l = <<o>>
    BY <1>1, <1>4, <1>5
  <2> QED
    BY <2>1 DEF Includes
<1>7. ASSUME NEW o, Includes(local, o) PROVE o = "local"
  BY <1>7 DEF Includes
<1>8. ASSUME NEW o, Includes(a, o) \/ Includes(b, o) PROVE Includes(a \o b, o)
  <2>1. a \in Seq(Origins) /\ b \in Seq(Origins)
    <3>1. <<>> \in Seq(Origins) /\ \A x \in Origins : <<x>> \in Seq(Origins)
      OBVIOUS
    <3> HIDE DEF a, b
    <3> QED  BY <1>1, <3>1
  <2> HIDE DEF a, b
  <2>2. CASE Includes(a, o)
    <3>1. PICK i \in DOMAIN a : a[i] = o
      BY <2>2 DEF Includes
    <3>2. i \in DOMAIN (a \o b) /\ (a \o b)[i] = o
      BY <2>1, <3>1
    <3> QED  BY <3>2 DEF Includes
  <2>3. CASE Includes(b, o)
    <3>1. PICK i \in DOMAIN b : b[i] = o
      BY <2>3 DEF Includes
    <3>2. Len(a) + i \in DOMAIN (a \o b) /\ (a \o b)[Len(a) + i] = o
      BY <2>1, <3>1
    <3> QED  BY <3>2 DEF Includes
  <2> QED  BY <1>8, <2>2, <2>3
<1> HIDE DEF a, b, local
<1> QED
  BY <1>4, <1>6, <1>7, <1>8 DEF a, b

\* A process that has started without an issue is sound.
LEMMA NoIssueIsSound == ConfigurationInv => StartedIsSound
<1> SUFFICES ASSUME ConfigurationInv, process = "started" PROVE StartedIsSound
  BY DEF StartedIsSound
<1>1. EnvTypeOK /\ ~HasIssue /\ ~(WeakSecret /\ AuthIsProduction) /\ config = LoadConfig
  BY DEF ConfigurationInv
<1>2. /\ config.production = IsProduction /\ config.capture = CaptureMode
      /\ config.openai = OpenaiEnabled /\ config.azure = AzureEnabled
      /\ config.cors = CorsOrigins /\ config.timing = TimingAllowOrigins
      /\ config.number = [n \in DOMAIN Limits |-> Number(n)]
      /\ config.secret = IF WeakSecret THEN "generated" ELSE env["JWT_SECRET"]
  BY <1>1, Zenon DEF LoadConfig
<1>3. /\ \A n \in DOMAIN Limits : Fits(n)
      /\ ~OverlapIssue /\ (OpenaiEnabled \/ AzureEnabled) /\ env["JWT_SECRET"] # ""
      /\ ~(IsProduction /\ ProductionIssue)
  BY <1>1, Zenon DEF HasIssue, Required
<1>4. \A n \in DOMAIN Limits : InRange(n, config.number[n]) /\ config.number[n] = Given(n)
  BY <1>2, <1>3 DEF Fits, Number
<1>5. config.number["RAG_CHUNK_OVERLAP"] < config.number["RAG_CHUNK_SIZE"]
  <2>1. "RAG_CHUNK_OVERLAP" \in DOMAIN Limits /\ "RAG_CHUNK_SIZE" \in DOMAIN Limits
    BY DEF Limits
  <2>2. \A n \in DOMAIN Limits : Given(n) \in Int
    <3>1. ASSUME NEW n \in DOMAIN Limits PROVE Given(n) \in Int
      <4>1. Fallback(n) \in Int
        BY DEF Limits, Fallback
      <4>2. env[n] \in {Unset, Blank, Word} \cup Int /\ Given(n) # Word
        BY <1>1, <1>3, EnvValues DEF Fits
      <4> QED
        BY <4>1, <4>2, ConfigurationAssumption DEF Given, ConfigurationAssumption
    <3> QED  BY <3>1
  <2>3. ~(Number("RAG_CHUNK_OVERLAP") >= Number("RAG_CHUNK_SIZE"))
    BY <1>3 DEF OverlapIssue
  <2>4. \A n \in DOMAIN Limits : Number(n) = Given(n) /\ config.number[n] = Given(n)
    BY <1>2, <1>3 DEF Number
  <2> QED
    BY <2>1, <2>2, <2>3, <2>4
<1>6. ASSUME IsProduction
      PROVE  /\ config.secret = "random" /\ config.capture # "full"
             /\ ~Includes(config.cors, AnyOrigin) /\ ~Includes(config.timing, AnyOrigin)
  <2>1. env["JWT_SECRET"] \in {"short", "random"}
    BY <1>1, <1>3, <1>6, EnvValues, Zenon DEF ProductionIssue
  <2>2. AuthIsProduction
    BY <1>6, Zenon DEF IsProduction, AuthIsProduction, Text
  <2>3. env["JWT_SECRET"] = "random" /\ ~WeakSecret
    BY <1>1, <2>1, <2>2, Zenon DEF WeakSecret
  <2> QED
    BY <1>2, <1>3, <1>6, <2>3 DEF ProductionIssue
<1>7. ASSUME IsProduction, served.origin \notin {NoOrigin, "local"}, ~served.refused
      PROVE  Includes(env["CORS_ORIGIN"], served.origin)
  <2>1. served # NoHeaders
    BY <1>7 DEF NoHeaders
  <2>2. IsAllowed(served.origin, config.cors)
    BY <1>7, <2>1 DEF ConfigurationInv
  <2>3. Includes(CorsOrigins, served.origin)
    BY <1>2, <1>6, <1>7, <2>2 DEF IsAllowed
  <2> QED
    BY <1>1, <1>7, <2>3, ListsOfOrigins
<1>8. ASSUME IsProduction, served.timing \notin {NoOrigin, "local"}
      PROVE  Includes(env["CORS_ORIGIN"] \o env["RUM_TIMING_ALLOW_ORIGIN"], served.timing)
  <2>1. served # NoHeaders
    BY <1>8 DEF NoHeaders
  <2>2. served.timing = TimingAllowOrigin(served.origin)
    BY <1>8, <2>1 DEF ConfigurationInv
  <2>3. Includes(TimingAllowOrigins, TimingAllowOrigins[1])
    BY <1>1, ListsOfOrigins
  <2>4. Includes(TimingAllowOrigins, served.timing)
    BY <1>2, <1>6, <1>8, <2>2, <2>3 DEF TimingAllowOrigin, IsAllowed
  <2> QED
    BY <1>1, <1>8, <2>4, ListsOfOrigins
<1>9. ASSUME env["NODE_ENV"] = "", env["DD_ENV"] = "production"
      PROVE  config.secret # "generated"
  <2>1. AuthIsProduction
    BY <1>9, Zenon DEF AuthIsProduction, Text
  <2>2. ~WeakSecret
    BY <1>1, <2>1
  <2>3. env["JWT_SECRET"] \in {"", "short", "demo", "short demo", "random"}
    BY <1>1, EnvValues
  <2> QED
    BY <1>2, <2>2, <2>3
<1> QED
  BY <1>2, <1>3, <1>4, <1>5, <1>6, <1>7, <1>8, <1>9 DEF StartedIsSound

\* StartedIsSound, for every environment: a process that starts has limits
\* that fit together, a provider, and in production a secret of its own and no
\* origin but those it lists.
THEOREM EveryStartIsSound ==
    AnyEnvironment /\ [][ConfigurationNext]_configurationVars => []StartedIsSound
<1>1. AnyEnvironment => ConfigurationInv
  BY DEF AnyEnvironment, ConfigurationInv
<1> QED
  BY <1>1, ConfigurationInvPreserved, NoIssueIsSound, PTL

\* The environments TLC starts with are among them.
LEMMA ExampleIsAnEnvironment == ConfigurationInit => AnyEnvironment
<1> SUFFICES ASSUME ConfigurationInit PROVE EnvTypeOK
  BY DEF ConfigurationInit, AnyEnvironment
<1>1. ASSUME NEW n \in Names PROVE Example[n] \in Values(n)
  <2>1. /\ DOMAIN Limits \cap (Lists \cup {"NODE_ENV", "DD_ENV", "SPAN_BODY_CAPTURE_MODE",
                                          "JWT_SECRET", "SMS_API_URL"}) = {}
        /\ Required \cap (DOMAIN Limits \cup Lists) = {}
        /\ "OPENAI_API_KEY" \notin DOMAIN Limits \cup Lists /\ "JWT_SECRET" \notin Lists
    BY DEF Limits, Lists, Required
  <2>2. CASE n \in DOMAIN Limits
    <3>1. Example[n] = Unset
      BY <2>2, <2>1, Zenon DEF Example
    <3> QED
      BY <2>2, <3>1, ValuesOfKinds
  <2>3. CASE n \in Lists
    <3>1. Example[n] = <<>>
      BY <2>1, <2>3, Zenon DEF Example
    <3> QED
      BY <2>3, <3>1, ValuesOfKinds, Zenon
  <2>4. CASE n = "JWT_SECRET"
    BY <2>1, <2>4, Zenon DEF Example, Values, Lists
  <2>5. CASE n \in (Required \ {"JWT_SECRET"}) \cup {"OPENAI_API_KEY"}
    <3>1. /\ n \notin DOMAIN Limits \cup Lists
          /\ n \notin {"NODE_ENV", "DD_ENV", "SPAN_BODY_CAPTURE_MODE", "JWT_SECRET", "SMS_API_URL"}
      BY <2>1, <2>5 DEF Required, Lists
    <3> QED
      BY <2>5, <3>1, Zenon DEF Example, Values
  <2>6. CASE n \notin DOMAIN Limits \cup Lists \cup Required \cup {"OPENAI_API_KEY"}
    <3>1. n # "JWT_SECRET"
      BY <2>6 DEF Required
    <3>2. Example[n] = ""
      BY <2>6, <3>1, Zenon DEF Example
    <3> QED
      BY <2>6, <3>1, <3>2, Zenon DEF Values
  <2> QED
    BY <2>2, <2>3, <2>4, <2>5, <2>6
<1>2. "NODE_ENV" \in Names /\ DOMAIN Example = Names
  BY Zenon DEF Names, Texts, Example
<1> QED
  BY <1>1, <1>2 DEF ConfigurationInit, EnvTypeOK

\* So StartedIsSound holds in the specification TLC checks.
THEOREM StartsAreSound == ConfigurationSpec => []StartedIsSound
BY EveryStartIsSound, ExampleIsAnEnvironment, PTL DEF ConfigurationSpec
-----------------------------------------------------------------------------
(***************************************************************************)
(* Chunking.  What is before the start of the next chunk is in one, unless *)
(* it is blank.                                                            *)
(***************************************************************************)
USE ChunkingAssumption DEF ChunkingAssumption

\* The text before the next start is covered, while the loop runs.
CoveredSoFar ==
    ~split => \A p \in 0..(start - 1) : text[p] \in Blanks \/ Covered(p)

ChunkingInv == ChunkingTypeOK /\ CoveredSoFar /\ TextIsCovered

\* What one turn chooses: an end behind the start, within the chunk and the text.
LEMMA EndIsWithin ==
    ASSUME ChunkingTypeOK, NEW end \in (start + 1)..size, ChunkEnd(end)
    PROVE  /\ end \in 1..size
           /\ end - start <= chunkSize
           /\ end < size => NextStart(end) \in (start + 1)..end
<1>1. HardEnd <= start + chunkSize /\ HardEnd \in Int
  BY DEF ChunkingTypeOK, HardEnd, Lower
<1>2. end <= HardEnd
  <2>1. CASE HardEnd < size /\ PreferredEnds # {}
    <3>1. end \in ParagraphEnds \/ end \in SentenceEnds
      BY <2>1 DEF ChunkEnd, PreferredEnds, LastOf
    <3>2. \A a, b : \A p \in PairsOf(a, b) : p \in Int /\ p + 2 <= HardEnd
      BY <1>1 DEF PairsOf, ChunkingTypeOK
    <3> QED  BY <1>1, <3>1, <3>2 DEF ParagraphEnds, SentenceEnds
  <2>2. CASE ~(HardEnd < size /\ PreferredEnds # {})
    BY <1>1, <2>2 DEF ChunkEnd
  <2> QED  BY <2>1, <2>2
<1>3. end \in 1..size /\ end - start <= chunkSize
  BY <1>1, <1>2 DEF ChunkingTypeOK
<1>4. NextStart(end) \in (start + 1)..end
  BY DEF ChunkingTypeOK, NextStart, Higher
<1> QED  BY <1>3, <1>4

\* Nothing is cut off yet, and nothing is before the start.
LEMMA InitHolds == ChunkingInit => ChunkingInv
<1> SUFFICES ASSUME ChunkingInit PROVE ChunkingInv
  OBVIOUS
<1>1. ChunkingTypeOK
  <2>1. size \in 1..MaxLength /\ start \in 0..(size - 1)
    BY DEF ChunkingInit
  <2>2. chunks \subseteq Intervals /\ split \in BOOLEAN
    BY DEF ChunkingInit
  <2> QED  BY <2>1, <2>2 DEF ChunkingInit, ChunkingTypeOK
<1>2. CoveredSoFar /\ TextIsCovered
  BY DEF ChunkingInit, CoveredSoFar, TextIsCovered
<1> QED  BY <1>1, <1>2 DEF ChunkingInv

\* A turn covers the text up to its end, and the next starts no later.
LEMMA TurnKeepsIt == ChunkingInv /\ SplitOne => ChunkingInv' /\ (~split' => start' > start)
<1> SUFFICES ASSUME ChunkingInv, SplitOne PROVE ChunkingInv' /\ (~split' => start' > start)
  OBVIOUS
<1> USE DEF ChunkingInv
<1>1. PICK end \in (start + 1)..size :
        /\ ChunkEnd(end)
        /\ chunks' = IF \E p \in start..(end - 1) : text[p] \notin Blanks
                     THEN chunks \cup {[from |-> start, to |-> end]} ELSE chunks
        /\ split' = (end >= size)
        /\ start' = IF end >= size THEN start ELSE NextStart(end)
  BY DEF SplitOne
<1>2. UNCHANGED givenVars /\ ~split
  BY DEF SplitOne
<1>3. /\ end \in 1..size
      /\ end - start <= chunkSize
      /\ end < size => NextStart(end) \in (start + 1)..end
  BY <1>1, EndIsWithin
<1>4. start \in 0..(size - 1) /\ size \in 1..MaxLength
  BY DEF ChunkingTypeOK
<1>5. IF end < size THEN ~split' ELSE split' /\ end = size
  <2>1. end >= size <=> end = size
    BY <1>3, <1>4
  <2>2. end >= size <=> ~(end < size)
    BY <1>3, <1>4
  <2>3. split' = (end >= size)
    BY <1>1
  <2> QED  BY <2>1, <2>2, <2>3, Zenon
<1>6. [from |-> start, to |-> end] \in Intervals
  BY <1>3, <1>4 DEF Intervals
<1>7. ChunkingTypeOK'
  <2>1. start' \in 0..(size - 1)
    BY <1>1, <1>3, <1>4
  <2>2. chunks' \subseteq Intervals
    BY <1>1, <1>6 DEF ChunkingTypeOK
  <2>3. split' \in BOOLEAN
    BY <1>1
  <2> QED  BY <1>2, <2>1, <2>2, <2>3 DEF ChunkingTypeOK, givenVars
\* What was covered stays so, and the new chunk covers up to its end.
<1>8. \A p \in 0..(end - 1) : text[p] \in Blanks \/ Covered(p)'
  <2> SUFFICES ASSUME NEW p \in 0..(end - 1), text[p] \notin Blanks PROVE Covered(p)'
    OBVIOUS
  <2>1. chunks \subseteq chunks'
    BY <1>1
  <2>2. CASE p < start
    BY <1>2, <1>4, <2>1, <2>2 DEF CoveredSoFar, Covered
  <2>3. CASE p >= start
    <3>1. [from |-> start, to |-> end] \in chunks'
      BY <1>1, <1>3, <1>4, <2>3
    <3> QED  BY <1>3, <1>4, <2>3, <3>1 DEF Covered
  <2> QED  BY <1>4, <2>2, <2>3
<1>9. CoveredSoFar'
  <2>1. ~split' => start' \in 0..end
    BY <1>1, <1>3, <1>4
  <2> QED  BY <1>2, <1>3, <1>8, <2>1 DEF CoveredSoFar, givenVars
<1>10. TextIsCovered'
  <2>1. split' => end = size
    BY <1>5
  <2>2. (split => \A p \in 0..(size - 1) : text[p] \in Blanks \/ Covered(p))'
    BY <1>2, <1>8, <2>1 DEF givenVars
  <2>3. \A c \in chunks' : c.to - c.from <= chunkSize'
    BY <1>1, <1>2, <1>3 DEF TextIsCovered, givenVars
  <2> QED  BY <2>2, <2>3 DEF TextIsCovered
<1>11. ~split' => start' > start
  <2> SUFFICES ASSUME ~split' PROVE start' > start
    OBVIOUS
  <2>1. end < size
    BY <1>5
  <2>2. start' = NextStart(end)
    BY <1>1, <1>3, <1>4, <2>1
  <2> QED  BY <1>3, <1>4, <2>1, <2>2
<1> QED  BY <1>7, <1>9, <1>10, <1>11

\* So it holds in every reachable state.
LEMMA InvariantHolds == ChunkingSpec => []ChunkingInv
<1>1. ChunkingInv /\ UNCHANGED chunkVars => ChunkingInv'
  BY DEF ChunkingInv, ChunkingTypeOK, CoveredSoFar, TextIsCovered, Covered, chunkVars
<1>2. ChunkingInv /\ [ChunkingNext]_chunkVars => ChunkingInv'
  BY <1>1, TurnKeepsIt DEF ChunkingNext
<1> QED  BY <1>2, InitHolds, PTL DEF ChunkingSpec

\* The values of splitChunks stay within the text, whatever its length.
THEOREM ChunkingTypeCorrect == ChunkingSpec => []ChunkingTypeOK
<1>1. ChunkingInv => ChunkingTypeOK
  BY DEF ChunkingInv
<1> QED  BY <1>1, InvariantHolds, PTL

\* No character of any text is lost between two chunks, for every chunk size
\* and overlap that the configuration accepts.
THEOREM NoTextIsLost == ChunkingSpec => []TextIsCovered
<1>1. ChunkingInv => TextIsCovered
  BY DEF ChunkingInv
<1> QED  BY <1>1, InvariantHolds, PTL

\* Every turn of the loop of splitChunks starts further on, so it ends.
THEOREM LoopAdvances == ChunkingSpec => SplittingAdvances
<1>1. ChunkingInv /\ [ChunkingNext]_chunkVars => [~split' => start' > start]_chunkVars
  BY TurnKeepsIt DEF ChunkingNext
<1> QED  BY <1>1, InvariantHolds, PTL DEF ChunkingSpec, SplittingAdvances

-----------------------------------------------------------------------------
(***************************************************************************)
(* Monitoring.  The page shows nothing for a query that failed: the page   *)
(* stays a record through every load, and a query without series makes an  *)
(* empty list, which has no best row.                                      *)
(***************************************************************************)
PageIsWhole == DOMAIN page = {"loading", "data", "error"}

\* A query that failed has no rows.
LEMMA NoSeriesNoRows ==
    ASSUME NEW m PROVE Top(m, <<>>) = <<>>
<1>1. DOMAIN <<>> = {}
  OBVIOUS
<1>2. Rows(m, <<>>) = {}
  BY <1>1, Zenon DEF Rows
<1>3. PICK rows : rows = Rows(m, <<>>)
  OBVIOUS
<1> DEFINE value(i) == Value(m, <<>>[i])
           ahead(i) == {j \in rows :
                          value(j) > value(i) \/ (value(j) = value(i) /\ j < i)}
           kept == {i \in rows : Cardinality(ahead(i)) < Limit}
           nth(k) == CHOOSE i \in kept : Cardinality(ahead(i)) = k - 1
           row(k) == [scope |-> <<>>[nth(k)].scope, value |-> value(nth(k))]
<1>4. Top(m, <<>>) = [k \in 1..Cardinality(kept) |-> row(k)]
  BY <1>3, ZenonT(30) DEF Top
<1>5. kept = {}
  BY <1>2, <1>3, Zenon
<1> HIDE DEF row, kept
<1>6. 1..Cardinality(kept) = {}
  BY <1>5, FS_EmptySet
<1>7. PICK list : list = [k \in 1..Cardinality(kept) |-> row(k)]
  OBVIOUS
<1>8. list \in [1..0 -> {}] /\ 0 \in Nat
  BY <1>6, <1>7
<1>9. list \in Seq({}) /\ Len(list) = 0
  BY <1>8
<1>10. list = <<>>
  BY <1>9
<1> QED  BY <1>4, <1>7, <1>10

\* An error on the page has a code.
LEMMA ErrorsHaveCodes ==
    /\ \A error \in {TimedOut, NoNetwork, Unexpected} : error.code # ""
    /\ ApiError(SendApiError("monitoring_unavailable")).code # ""
<1>1. "request_timeout" # "" /\ "network_unavailable" # "" /\ "internal_server_error" # ""
      /\ "monitoring_unavailable" # ""
  BY Zenon
<1>2. /\ TimedOut.code = "request_timeout" /\ NoNetwork.code = "network_unavailable"
      /\ Unexpected.code = "internal_server_error"
  BY DEF TimedOut, NoNetwork, Unexpected
<1>3. \A error \in {TimedOut, NoNetwork, Unexpected} : error.code # ""
  BY <1>1, <1>2, Zenon
<1>4. SendApiError("monitoring_unavailable").error = "monitoring_unavailable"
  BY DEF SendApiError
<1>5. ResponseCode(SendApiError("monitoring_unavailable")) = "monitoring_unavailable"
  BY <1>1, <1>4, Zenon DEF ResponseCode
<1>6. ASSUME NEW answer PROVE ApiError(answer).code = ResponseCode(answer)
  <2>1. PICK retryable :
           ApiError(answer) = [code |-> ResponseCode(answer), retryable |-> retryable]
    BY Zenon DEF ApiError
  <2> QED  BY <2>1
<1> QED  BY <1>1, <1>3, <1>5, <1>6, Zenon

\* What a step does to the page: it is loaded, or filled, or stays.
LEMMA PageSteps ==
    ASSUME [MonitoringNext]_monitoringVars
    PROVE  \/ \E code : page' = [page EXCEPT !.loading = TRUE, !.error = code]
           \/ \E code : page' = [page EXCEPT !.loading = FALSE, !.error = code] /\ code # ""
           \/ AnswerSummary /\ page' = [page EXCEPT !.loading = FALSE, !.data = Summary]
              /\ \E m \in Metrics : Available(m)
           \/ page' = page
<1>1. CASE LoadSummary
  BY <1>1, Zenon DEF LoadSummary
<1>2. ASSUME NEW m \in Metrics, QuerySettles(m) PROVE page' = page
  BY <1>2, Zenon DEF QuerySettles
<1>3. CASE SummaryFails
  BY <1>3, ErrorsHaveCodes, Zenon DEF SummaryFails, ShowSummaryError
<1>4. CASE AnswerSummary
  BY <1>4, ErrorsHaveCodes, Zenon DEF AnswerSummary, ShowSummaryError
<1>5. CASE UNCHANGED monitoringVars
  BY <1>5 DEF monitoringVars
<1> QED  BY <1>1, <1>2, <1>3, <1>4, <1>5, Zenon DEF MonitoringNext

\* The page is a record, from the beginning and with every step.
THEOREM PageStaysWhole == MonitoringSpec => []PageIsWhole
<1>1. MonitoringInit => PageIsWhole
  <2> SUFFICES ASSUME MonitoringInit PROVE PageIsWhole
    OBVIOUS
  <2>1. PICK blank : page = [loading |-> TRUE, data |-> Empty, error |-> blank]
    BY Zenon DEF MonitoringInit
  <2> QED  BY <2>1 DEF PageIsWhole
<1>2. ASSUME PageIsWhole, [MonitoringNext]_monitoringVars PROVE PageIsWhole'
  <2>1. PICK summary : summary = Summary
    OBVIOUS
  <2>2. \/ \E code : page' = [page EXCEPT !.loading = TRUE, !.error = code]
        \/ \E code : page' = [page EXCEPT !.loading = FALSE, !.error = code]
        \/ page' = [page EXCEPT !.loading = FALSE, !.data = summary]
        \/ page' = page
    BY <1>2, <2>1, PageSteps, Zenon
  <2>3. DOMAIN page' = DOMAIN page
    BY <2>2, Zenon
  <2> QED  BY <1>2, <2>3 DEF PageIsWhole
<1> QED  BY <1>1, <1>2, PTL DEF MonitoringSpec

\* A metric whose query failed is shown as "-" and has no rows, and a page
\* that arrives has at least one metric that answered.
THEOREM FailuresShowNoNumber == MonitoringSpec => FailedIsNotANumber
<1>1. ASSUME PageIsWhole, [MonitoringNext]_monitoringVars, Arrives
      PROVE  /\ \E m \in Metrics : Available(m)
             /\ \A m \in Metrics : ~Available(m) =>
                   page'.data.value[m] = Null /\ page'.data.rows[m] = <<>>
  <2>1. PICK blank : blank = ""
    BY Zenon
  <2>2. page.loading /\ ~page'.loading /\ page'.error = blank
    BY <1>1, <2>1, Zenon DEF Arrives
  <2>3. \/ \E code : page' = [page EXCEPT !.loading = TRUE, !.error = code]
        \/ \E code : page' = [page EXCEPT !.loading = FALSE, !.error = code] /\ code # blank
        \/ /\ page' = [page EXCEPT !.loading = FALSE, !.data = Summary]
           /\ \E m \in Metrics : Available(m)
        \/ page' = page
    BY <1>1, <2>1, PageSteps, Zenon
  <2>4. /\ page'.data = Summary
        /\ \E m \in Metrics : Available(m)
    <3>1. CASE \E code : page' = [page EXCEPT !.loading = TRUE, !.error = code]
      BY <1>1, <2>2, <3>1 DEF PageIsWhole
    <3>2. CASE \E code : page' = [page EXCEPT !.loading = FALSE, !.error = code] /\ code # blank
      BY <1>1, <2>2, <3>2 DEF PageIsWhole
    <3>3. CASE page' = page
      BY <2>2, <3>3
    <3>4. CASE /\ page' = [page EXCEPT !.loading = FALSE, !.data = Summary]
               /\ \E m \in Metrics : Available(m)
      <4>1. PICK summary : summary = Summary
        OBVIOUS
      <4>2. page' = [page EXCEPT !.loading = FALSE, !.data = summary]
        BY <3>4, <4>1
      <4>3. page'.data = summary
        BY <1>1, <4>2 DEF PageIsWhole
      <4> QED  BY <3>4, <4>1, <4>3
    <3> QED  BY <2>3, <3>1, <3>2, <3>3, <3>4, Zenon
  <2>5. ASSUME NEW m \in Metrics, ~Available(m)
        PROVE  Summary.value[m] = Null /\ Summary.rows[m] = <<>>
    <3>1. Top(m, Result(m)) = <<>>
      BY <2>5, NoSeriesNoRows, Zenon DEF Result
    <3>2. Headline(m) = Null
      BY <2>5, <3>1, Zenon DEF Headline
    <3> QED  BY <3>1, <3>2 DEF Summary
  <2> QED  BY <2>4, <2>5
<1> QED  BY <1>1, PageStaysWhole, PTL DEF MonitoringSpec, FailedIsNotANumber
=============================================================================
