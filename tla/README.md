# toy-chat: a TLA+ verification project

toy-chat is a chat application: a React front end (`src/llm-chat`), an Express
back end (`src/llm-chat-back`) that asks up to two AI providers the same
question, and MySQL, which keeps users, conversations and messages. Documents
of the back end are indexed for retrieval (RAG), and Datadog watches everything.

This directory holds TLA+ modules of the parts with behaviour worth checking,
TLC configurations that check them on small instances, and proofs, checked by
TLAPS, of what must hold for every instance. `PROJECT.json` maps every
definition that stands for code to its lines, and lists runs, mutants, hazards,
findings and theorems. Where a comment cites `docs/`, it is `src/llm-chat-back/docs/`;
`README.md:` with a line is the README of the repository.

    tlc -workers 2 -config ChatUsers.cfg MCChat     # one run
    tlapm ChatProofs.tla                            # the proofs

## 1. Inventory

| Component (source) | State | Operations | Talks to | What makes it correct |
|---|---|---|---|---|
| **POST /chat** (`index.mjs`, `repositories/chat-repository.mjs`, `conversation-history.mjs`, `provider-*.mjs`) | rows in MySQL; per request: conversation, history, provider jobs, responses | resolve or create the conversation, store the question, read the history, ask the providers in parallel (tool calls write rows), store the answers one by one, reply | MySQL, OpenAI, Azure, RAG | nothing crosses users, conversations or providers; the reply agrees with what is stored; every request ends |
| **Process lifecycle** (`lifecycle.mjs`, `runtime-state.mjs`, `http-observability.mjs`, `routes/health-routes.mjs`, end of `index.mjs`) | `runtimeState`, handlers, server, pool, `process.exitCode` | start, listen, gate, probes, signals, graceful shutdown with timeout | Node's http server, MySQL pool, signals | no request loses its pool; one shutdown, with a true exit code; the process ends |
| **Rate limiter** (`rate-limit.mjs`) | Map of buckets | consume, prune | `POST /sms` | bursts bounded, refusals justified, Retry-After honest |
| **Conversation list** (`getConversationPageByUserId`, `pagination.mjs`) | none; the client keeps a cursor | page of the list | writes of other requests move the rows | nothing twice, nothing quiet skipped, scrolling ends |
| **Message pages** (`getMessagePageByConversationId`, `routes/conversation-routes.mjs`) | none; the client keeps a cursor | page of messages | inserts of other requests | the same, with ids that become visible late |
| **Retrieval index** (`initRAG`, `embedDocumentBatch`, `rag.mjs`) | `VECTOR_STORE`, `RAG_INDEX_STATE`, `data/rag-cache.json` | load, reuse, embed in batches, save; start without it | OpenAI embeddings, the disk, restarts | embeddings belong to their chunks, the state reported is true, nothing is paid for twice |
| **Browser tab** (`App.jsx`, `lib/api-client.js`) | session, selected conversation, pane, requests under way | login, logout, select, new chat, send, load, retry | the routes above | the pane shows the selected conversation |
| **Retrieval and splitting** (`rag.mjs`, `embedUserQuery` and the retrieval of POST /chat in `index.mjs`) | none | embed the question, score and rank chunks; split a section | index, POST /chat | the best chunks within the limits; no text lost |
| **List and history of the tab** (`App.jsx`, `lib/api-client.js`, `pages/ChatPage.jsx`) | list, pane, cursors, requests under way, error on display | load, load more, reload after a reply, retry, abort | conversation routes | no hole in the list or the history |
| **SMS** (`notification-routes.mjs`, `sms-service.mjs`, `request-timeout.mjs`, `App.jsx`) | two timers, the error on display | click, count, forward, time out, retry | limiter, gateway | the tab tells the truth, the gateway is spared |
| **Accounts** (`auth-routes.mjs`, `auth.mjs`, `AuthScreen.jsx`, `App.jsx`) | users table, secret, localStorage, session of each tab | register, login, check the session, sign out, restart | MySQL | one account per address; a tab acts as the user it shows |
| **Schema** (`db.mjs`) | tables and indexes | create and add what is missing | other processes starting | concurrent starts succeed |
| **Monitoring** (`monitoring-service.mjs`, `monitoring-routes.mjs`, `MonitoringPage.jsx`) | the summary on display | four parallel queries, refresh | Datadog | a failed metric is not a number |
| **Versions** (`sync-dd-version.mjs`, `sourcemap-release.mjs`) | two env files, a state file, a lock file, `dist` | raise and propagate a version; build, verify, upload, clean | other runs, the editor | a version is of one state of the sources; maps belong to their bundle |
| **Browser session** (`lib/observability.js`, `main.jsx`) | keys in localStorage and sessionStorage | reload once for a new version | other tabs, releases | no endless reload |
| **Configuration, CORS** (`config.mjs`, `auth.mjs`, `http-observability.mjs`) | the frozen configuration | validate, start or refuse, allow an origin | all parts | what starts is sound |
| **Error codes** (`app-errors.mjs`, `lib/api-client.js`) | none | status and retryable of a code, on both sides | all routes | used by the modules above |
| Logging, spans, sanitizing, telemetry, other pages | - | output, presentation | - | not a matter of behaviour |

Hard behaviours: requests of one user interleave at every `await`, over a
repository without transactions; provider jobs run in parallel and one of them
writes rows meanwhile; queries fail halfway; the process dies or is told to
stop; the list changes between pages; embeddings arrive out of order and the
cache outlives the run that wrote it; the tab switches conversation, or even
user, while a reply is on its way; loads, reloads and retries of the tab overtake
each other; timers on both sides of a call race its answer; several processes,
tabs or scripts share a database, a localStorage or a lock file. The `hazards` of PROJECT.json name each at its
line, with the properties that watch it, or with the reason why none does.

## 2. Modules

| Module | Models | Composition |
|---|---|---|
| `ChatStore` | the tables and the repository functions that POST /chat uses, with every way a query sequence can fail | base of `Chat` |
| `Chat` | the handler of POST /chat | EXTENDS `ChatStore`; implements `ChatContract` |
| `ChatContract` | what POST /chat promises: open, ask, answer, conclude, give up | abstract |
| `MCChat` | instances for TLC | EXTENDS `Chat` |
| `ChatProofs` | theorems about `Chat` | EXTENDS `Chat`, `TLAPS` |
| `Lifecycle`, `LifecycleProofs` | the process from start to end; theorems | |
| `RateLimit`, `RateLimitProofs` | the limiter; theorems, also about `Notifications` | |
| `ConversationPages`, `ConversationPagesProofs` | the conversation list; theorems, also about `ConversationList` | |
| `MessagePages`, `MessagePagesProofs` | the messages of a conversation; theorems, also about `MessageHistory` | |
| `RagIndex`, `RagProofs` | the index over restarts; theorems, also about `Retrieval` | |
| `Retrieval`, `MCRagIndex` | questions asked of the index; the instance of both | EXTENDS `RagIndex` |
| `Chunking` | `splitChunks` | |
| `ChatClient`, `ChatClientProofs` | one browser tab: session, selection, questions, loads; theorems | |
| `ConversationList` | the list in the side bar | INSTANCE `ConversationPages` as its table |
| `MessageHistory` | older messages, replies and groups | INSTANCE `MessagePages` as its store |
| `ApiErrors` | codes, statuses and what is retryable | operators of the four that follow |
| `Notifications` | POST /sms from the button to the gateway | EXTENDS `RateLimit`, `ApiErrors` |
| `Accounts` | accounts, tokens and the tabs of a browser | EXTENDS `ApiErrors` |
| `Monitoring` | the summary and its page | EXTENDS `ApiErrors` |
| `Schema` | `initDatabase` in several processes | |
| `Configuration` | environment, start, CORS | |
| `Versions` | version script and release of source maps | |
| `BrowserSession` | reload for a new version | |
| `MCServer` | one instance of process, limiter, conversation list and message pages | EXTENDS `Lifecycle`, `RateLimit`, `ConversationPages`, `MessagePages` |
| `MCParts` | one instance of ten further parts that share no state | EXTENDS them all |
| `PartsProofs` | theorems about seven of them: sessions, schema, accounts, versions, configuration, splitting, monitoring | EXTENDS those seven, `TLAPS` |

A definition whose comment begins with "Mutant" is not part of the
specification: it is the plausible mistake the `mutants` of PROJECT.json put in
the place of the definition that follows, to see that a property notices.

### POST /chat

Node runs one handler at a time and switches only at an `await`, so an action
of `Chat` is what a request does from one await to the next. `pc[r]`:

    idle -> resolved        ReuseConversation, StartConversation (index.mjs 1112-1152)
         -> recorded        RecordQuestion                        (1183)
         -> asking          AskProviders: history, all jobs       (1193-1361)
         -> saving          AllSettled (Promise.allSettled)
         -> done            PersistAssistantMessageSafely, one per provider
                            (1365-1521), then SendReply

`Refuse`, `ReadFails` and the failing outcomes of queries lead to `done` with an
error; `Crash` ends every request in flight. The jobs of a request
(`JobFails`, `ReceiveHeaders`, `JobAnswers`, `RequestTools`, `ExecuteToolCall`)
interleave with everything. `createMessage` is INSERT, UPDATE, SELECT without a
transaction: `CreateMessage` has the outcomes "stored", "unread" (the SELECT
fails), "untouched" (the UPDATE fails) and "lost". Its three statements are one
step, because no other statement can tell where between them it came: other requests read rows
by id, and `updated_at` only moves forward. A message carries, besides its columns, the user
and the request that wrote it: history the properties speak about.

Retrieval is left out of `Chat`, because it changes no row and its failures are
caught; it has the module `Retrieval`.
`updated_at` is counted in rows stored, not in seconds. `metadata_json` is
assumed to reach `mapMessage` as text; `MessagePages` models what happens
otherwise.

### Process

`Lifecycle` has the stages of `startApplication`, the state of server, pool and
connections, `gracefulWork`, the race with the timeout, and the exit code. The
controller only sets `process.exitCode`, so `ProcessEnds` waits until server,
pool, timer and connections are gone. Node's http server, its pool and signals
are external actions, modelled from the calls `lifecycle.mjs` makes.

### Rate limiter

`consume` is synchronous: `Consume(u)` is one call and the middleware's answer.
`Tick` is the time between calls. `admitted` and `promise` are history.

### Pages

Both modules model a client that asks for one page after the other while rows
are written. `updated_at` counts seconds (`dateStrings`), so ties are normal.
In `MessagePages` an AUTO_INCREMENT id is taken by `Insert` and seen after
`Finish`; ids that go to other conversations, or are rolled back, are gaps.

### Retrieval index

`Start` takes whatever documents, model and key there are; `LoadCache`,
`EmbedBatch`/`BatchFails`, `BeginSave`, `Save`/`SaveFails` are `initRAG`; `Degrade`
is the catch of `startApplication`; `Stop` may leave a broken cache file. A chunk
is a value, its hash is itself; an embedding is the pair of chunk and model.
The first start finds no file or one of the earlier format (`EarlierCache`), which names no
model: `Mismatch` is false for it, as `cacheModelMismatch` is in the code, so its embeddings
are reused under any model, and saved again under the name of that one.

### Browser tab

A callback of React, with the effect it triggers, is one step. `loads` are the
calls of `loadMessages` under way: an abort removes one only before its headers
have arrived, because `requestJson` then gives up its listener. `chat` is
the question under way and `reply` what there is of its answer: `ReplyBegins` are the
headers, with which `requestJson` removes its timer, `ReplyArrives` the whole body.
`skip` is `skipNextConversationLoadRef`. The server
stores, answers and goes on if the tab has given up. Left out: demo error modes,
and other tabs writing to the same conversation (see `MessageHistory` for these).

### List and history of the tab

Both modules keep the requests in the order they were made, as `sent` (an abort
still reaches them), `answered` (the headers are there: `requestJson` has removed
timer and abort listener, so nothing stops the page any more) or `over`. The
server reads the page in the step to `answered`, from the table of the
pagination module, which other tabs write to. An aborted load of a further page
still runs its `finally` and resets the "loading more" flag, after the new load
has set it: `resets`. The code does leave a hole in two cases, a retry of a page that
is not the next any more and a page that came after it was aborted; both are
steps of the models, and `patched` and `shuffled` remember them, so that the
properties speak of all other lists and panes. Both are in the hazards.

### Retrieval and splitting

`Retrieve` is one question: embedded if there is a key and an embedded chunk,
ranked, and recorded with its strategy and the reason why it had to do without
embeddings. The two similarities are functions given as constants, that of the
embeddings of the question, the embedding of the chunk and the model in use (which need not
be the one the embedding is by), so the ranking is checked for what it does with scores. A sort is written by ranks: the
place of an element in the sorted list is the number of elements ahead of it, by
score and then, as JavaScript's sort is stable, by place. `Monitoring` sorts its rows,
and `MessageHistory` reverses its pages (`InOrder`), in the same way. `Chunking` is the loop of
`splitChunks`, one turn per step; a text is a sequence of letters, periods,
blanks and newlines, which is all the search for a break looks at.

### SMS

A call has three sides: `tab`, `server` and `gateway`. `Admit` is the limiter
(`Consume` of `RateLimit`) and the call of the gateway in one step, there is no
`await` in between. `GatewayTimesOut` and `GatewayAnswers` are
`withRequestTimeout`, which is settled once; `TabTimesOut` is the timer of
`requestJson`. `GatewayDecides` is the gateway, which may accept what the server
has given up.

### Accounts

A handler is one step per awaited query or hash. `users` is the table with its
unique key; `boots` tells generated secrets apart. `storage` is shared by the
tabs, `tab` is what each shows; `check` is `validateSession`, `form` the request
of `AuthScreen`.

### Schema, monitoring, configuration, versions, browser session

`Schema` has one step per query of `initDatabase`, for every database an earlier
version can have left behind. In `Monitoring` the four queries settle in any
order and the page may have given up. `Configuration` starts from the example
environment with two variables, and NODE_ENV, set to any of the values the
validation tells apart, among them the limits of every range and one beyond;
`Serve` is a request after the start. What production is, `config.mjs` and `auth.mjs`
decide differently: with DD_ENV=production and NODE_ENV unset only the secret is
guarded, and only that is claimed for it. `Versions` has one step per file written,
with kills and failed writes in between, beside an editor and the release, each of whose
commands reads `.env.local` for itself: a start of edited sources (`Overtaken`) can change the
version between them. An edit between the sync and the build makes a bundle of other
sources than the version is of; `MapsAreFound` speaks of the versions there, and of the
sources only where the bundle is built of those the sync has seen.
`BrowserSession` has tabs opened before and after a release.

## 3. Runs

| Run | Instance | Shows |
|---|---|---|
| `chat_concurrent` | 2 requests of one user, 1 conversation, 2 providers, one with tools, 1 failing query, 1 crash, fairness | the question reaches the providers, answers follow it once each, the reply agrees with the store, nothing is written after the reply, every request ends, and `Chat` implements `ChatContract` |
| `chat_users` | 3 requests of 2 users naming any of 2 conversations | separation of users, conversations and providers |
| `chat_context` (violation) | prompt limit below the history limit | the prompt is not as long as configured |
| `server` | each of four parts on its own: `Lifecycle` with 3 connections, 4 reasons and fairness; `RateLimit` with 2 users, 2 requests in 3 ticks, 6 ticks; `ConversationPages` with 4 conversations, pages of 2, 3 seconds and fairness; `MessagePages` with 6 ids, pages of 2 | pool, probes, exit code and end of the process; bursts and Retry-After; no conversation twice, quiet ones always, scrolling ends; the same for messages |
| `message_pages_no_metadata` (violation) | metadata that is not read | a page is not served |
| `rag_index` | 3 starts, 2 models, 3 chunks in 4 sets of documents, batches of 2, no cache or one of the earlier format; 2 questions, best 2 chunks, one per document | true embeddings and state, reuse, the best chunks are listed |
| `rag_earlier_cache` (violation) | the same | a cache that names no model is reused by any |
| `rag_unavailable` (violation) | the same | a finished index is reported as unavailable |
| `chat_client` | 2 users, 2 conversations, 2 questions, 2 loads | no message twice, the pane is the conversation, waiting ends unless a body never does |
| `chat_client_users` (violation) | the same, 1 question | a late reply is shown to the next user |
| `parts` | each of ten parts on its own, bounds in `Parts.cfg` | the thirteen properties of `Notifications`, `Monitoring`, `Schema`, `Accounts`, `Configuration`, `Versions`, `BrowserSession`, `ConversationList`, `MessageHistory` and `Chunking` |
| `versions_release` (violation) | `Versions` with the bounds of `Parts.cfg` | maps are uploaded under another version than that of their bundle |

`server` and `parts` are sums, not products: `part` is chosen in the initial state and the
other parts rest in one initial state of theirs. In `server` that is one in which nothing
has been started, so that neither their fairness nor their liveness asks for anything; in
`parts`, which states safety only, `PartsView` leaves the resting
variables out of the fingerprint. That is sound because they never change: two
states of the same part with the same view are equal in every variable that
steps and properties of that part read.

Why the bounds are enough. Two requests are the least that interleave; three
are used where a third party matters (a user's own history next to another
user's). Two providers are all the registry has. One fault and one crash reach
every single failure; what they leave behind stays, so a second one meets no
state of a new kind. History and prompt limits of 2 make messages fall out of the window.
The limiter's two windows contain a boundary and a burst over it. Pages of two
among four or six rows give a first, a middle and a last page, and ties. Three
starts are: write a cache, change something, read it; the earlier cache has two of the three
chunks, by one of the two models, so it is reused in part, rightly and wrongly. In `parts`: two SMS calls are
a call and its retry, with one allowed per window; three processes start; two
tabs and two addresses, with one restart and one lost query; two runs of the
version script, the release being one of them; two browser windows over two
releases; three loads of a list or a history: one abandoned, one current, one
retried (four were tried once and show nothing new); texts of up to five
characters with chunks of up to four, where paragraph, sentence and hard ends,
overlaps and single-character advances all occur. Symmetry (of conversations)
is used only in runs without liveness properties. Deadlock checking is off
because all these systems may rest: requests are answered, bounds are used up.
`MaxFaults`, `MaxCrashes`, `MaxToolCalls`, `MaxTime`, `LastTime`, `MaxCount`, `MaxId`, `MaxStarts`,
`MaxQuestions` and `MaxLoads`, and in `parts` `MaxRefreshes`, `MaxLosses`, `MaxSubmits`, `MaxBoots`,
`MaxLost`, `MaxEdits`, `MaxReleases`, `MaxOpens`, `LastSecond`, `LastRow`, `MaxLoadings`, `MaxAsked`,
`MaxLength` and `MaxChunkSize`, are the bounds, in the guards of the actions they bound
or in the initial states.

Fairness. `chat_concurrent`: weak fairness of the work of each request: continuations
of settled promises run, and provider calls, tool calls and queries end. A completion has
its timeout; the body of Azure's response and the Datadog queries of the tool
`query_datadog` have none in this code, so `EveryRequestEnds` assumes that their
HTTP clients end them.
`server`: `LifecycleFairness` is of timers, promises, handlers and the pool, never of clients;
`PagesFairness` is of the client that scrolls, which gets its page.
`chat_client`: as long as no headers have come, the 90 s timer ends the wait. Nothing is
assumed of the body: `requestJson` has removed its timer by then, and
`LoadingEnds` says that this is the only way the tab waits for ever.
The other runs state safety only and assume no fairness.

Findings. (1) `buildProviderHistory` applies its own limit of 8, so the
configured 80 never reaches a provider (`chat_context`). (2) `normalizeMessage`
dereferences metadata that may be null and fails the page
(`message_pages_no_metadata`). (3) Logging out aborts nothing, so a late answer
enters the next session of the tab (`chat_client_users`). (4) A cache file without
`embeddingModel` is reused whatever the model, against "same content and same model" in the
repository's README (`rag_earlier_cache`). (5) If the cache cannot be written, `initRAG`
throws a finished index away and reports "unavailable", which the documentation
reserves for documents that could not be loaded (`rag_unavailable`). (6) The upload of
source maps reads the version again and does not compare it with that of the bundle; an
edit and a start in between make them differ (`versions_release`). What is true in these
three places is stated by the properties of the passing runs: `EmbeddingsAreTrue` (an embedding by
another model goes back to such a file), `IndexStateIsTrue` ("unavailable" means no context) and
`MapsAreFound` (the versions agree unless a start of edited sources has come in between).

## 4. Proofs

The theorems hold for every value of the constants that satisfies the `ASSUME` of
the module: any number of users, requests, conversations, providers, tool calls,
faults, crashes, connections and signals. TLC evaluates these assumptions in the runs.

**`ChatProofs`.** `ChatTypeOK` is not inductive: that a response belongs to a
conversation that exists depends on how far its request has come. `TypeInv` adds
`Located` (from `resolved` on, a request has a conversation of the table) and
`JobsStarted` (jobs run only while it asks). `CreateMessageRows`,
`CreateConversationOwner` and `FailEffect` say once what the operators of
`ChatStore` do with each outcome; `TypeInvPreserved` goes through `Next` action by
action. Separation rests on three facts about one step: rows are only added, and
carry the conversation of their request (`StepWritesRows`); owners never change
(`StepKeepsOwners`); a request never changes its conversation
(`StepProgresses`). `SeparationInv` adds `RowsOwned` (the user of a row owns its
conversation) and `HistoryLocated` (what a request has read is from its own
conversation). `Separation` and `PromptIsolation` follow.

The order of the rows and the truth of the reply share `AnswerInv`: a request at
work has its question in its conversation (`QuestionsKept`); no tool result comes before the
providers are asked, and no answer before the entry of its provider, whose job it tells
the outcome of (`RowsInTurn`); the entries are those of the first providers of the
registry, and one that says "persisted" names its row (`EntriesTrue`); answers are
stored and replies sent when no job is under way any more (`RepliesTrue`). `StepMoves` sums up the
`Next` relation once more, as the six ways a request moves (`Rests`, `Advances`,
`EndsEarly`, `KeepsAnswer`, `Concludes`, `Dies`), so that each part is one argument
over six cases instead of over every action. `AnswersFollow`, `OneRow` and
`OverIsOver` follow, and with `SummaryTellsOutcome` (what `Promise.allSettled` and
the summary make of the jobs) `ReplyAgrees`. `QuestionReaches` needs `PromptInv`:
`QuestionInHistory` counts the rows that came after a question before the history
was read, and `QuestionIsRead` follows one row through the two limits. The
assumption these proofs add is a registry that is not empty, which
`config.mjs:252` sees to.

`ChatImplementsContract` is the refinement. Each kind of step maps to one action of
`ChatContract` or to none: `StartMapsToOpen`, `RecordMapsToAsk`,
`PersistMapsToAnswer`, `ReplyMapsToConclude`, `EndMapsToGiveUp` and
`CrashMapsToGiveUp`; `QuietStep` and `OthersAreQuiet` say that everything else leaves the
contract's state as it is. `KeptByRow` and `KeptBySame` say what one row more, or
none, does to the rows the contract sees, and `OneVerdict` that a request is given one.

**`LifecycleProofs`.** `LifecycleInv` is the type invariant with what ties the
promises of a shutdown to the resources: `Started` (what there is at each stage of
the start), `Stopping` (a shutdown has a reason and its promises), `Resources`
(how far the graceful work has come is what server and pool are), `NoStrangers`
(handlers belong to connections, and none is left once the server is closed) and
`Decision` (the exit code agrees with the race). `PoolIsKept` needs `Resources` and
`NoStrangers`: the pool closes only after the server, and the server only after
the last handler. `ExitCodeTells`, `ReadyMeansReady` and `ShutdownIsOne` are
action properties or invariants from the same `LifecycleInv`.

**`ConversationPagesProofs`.** `PagesInv` adds to the two properties that no row
is from the future (so that a write only moves its row up) and that what has been
given is not below the cursor. `PageIsTop` and `LastPageIsAll` say what
`ORDER BY ... LIMIT` gives: all that is below a cursor without being on the page that
follows is below the whole page, and the last page is all that is left. Both follow
from what is true of the newest rows of any table (`NewestAreOnTop`, `FewAreAllNewest`),
which counts the rows above a row and needs the order of the keys to be total:
the id is there for that. `ReceiveKeeps` is the step of both kinds of page.

The side bar (`ConversationList`) is another client of the same pages. `ListIsWhole`
speaks of what is shown; `ListInv` adds what is under way. `Leads` says of a cursor that
the page after it is the one the list lacks: it holds of the cursor of every live
further page and of the one that can be tried again, as long as the list has not
been patched. `LoadIsTrue` adds that an answer whose body is still to come has no hole
between its page and its next cursor, and at most one load is live (`LoadsAreTrue`),
which is what the abort is for: a first page can only replace the list when no
further page is still expected. `PageIsWhole` is the page it gets, from the same two facts
about the newest rows.

**`MessagePagesProofs`.** The same argument with ids for keys: `NewestIsTop`,
`NewestOfFew` and `NewestOfAtMost` say what `ORDER BY id DESC LIMIT` takes,
`PageFacts` what becomes of it when one row more than the page is fetched.
`MessagePagesInv` adds that what has been given is not older than the cursor, and
that rows once visible stay visible; that is why ids that become visible late do
no harm to what was there at the opening.

The chat page (`MessageHistory`) is another client of them. Its lists come first:
`InOrderLists` (a finite set laid out by rank), `Merged` (any two messages of
`mergeUniqueMessages` come from one of its lists in their order, or from the first and
then from the second) and `Grouped` with `Displayed` (the groups cut the pane
without a gap or an overlap, so what is above on the page is before in the pane).
None needs induction: each relates two places at a time. `PageOfSet` is the page of any
table; `StorePages` and `PageListed` carry it to what a load brings.
`HistoryIsWhole` speaks of the pane only, and is not inductive: what keeps
it true is under way. `HistoryInv` adds of every load that its page ascends from its next
cursor on and ends before the cursor it was asked for, and, as long as the pane is not
shuffled, that the live load asked for the page before the cursor of the pane and
leaves out nothing between (`LoadIsTrue`); at most one load is live (`LoadsAreTrue`,
again what the abort is for); no message of the pane that came with a page is
older than the cursor (`PaneIsWhole`), which is why a page in front keeps the order;
and a message with an id of the table is that row (`PaneIsKnown`), which is why
merging by equality is merging by id. Only the assumptions on the two numbers are
used: any number of loads and questions, and any of the rows may be questions.

**`RateLimitProofs`.** `RateLimitInv` says what a bucket tells about the past: the
requests it counted, up to `Max`, are the latest that were admitted, all in its
window, and no promise ends before it. Refusals, Retry-After and pruning follow.
`BurstsAreBounded` speaks of buckets the Map may have forgotten, so `HistoryInv`
claims that there are places in a user's history where buckets were opened
(`Windows`): one in every `Max` requests, any two at least a window apart.
`WindowsGrow` keeps this over a call, `WindowsSpread` turns it into the bound.
`RetryAfterCovers` is the rounding, for any number of ticks in a second.

`NotificationsInv` carries this to the SMS calls: `HistoryInv` of the limiter, and for
every call `CallIsTrue` (tab, server and gateway agree on how far it has come, and
an answer on its way is one the server gave). `Places` numbers the calls that were
admitted by their place in the limiter's history, so that the calls the gateway got
are among the admitted ones and its bound is that of `BurstsAreBounded`, whatever the
tab repeats after a timeout (`GatewayIsAlwaysSpared`). `TabsTellTheTruth` rests on `CodesArrive` and
`ErrorsAreNotOk`: no error code of the API is read as a success by the tab.

**`RagProofs`.** `RagInv` is about the four places an embedding can be: in the store
(`StoreIsTrue`), in an intact file (`FileIsTrue`), missing and to be sent
(`PendingIsTrue`: without a failed batch whatever the store lacks is pending, and
nothing pending has been saved), and saved last (`SavedIsInFile`). `ReusableIsTrue` is the cache as the next start reads it,
`ByIndexRestores` the sort of a batch's answers by their index, whatever order
they come in, `BatchIsTrue` the batch that is written back. "True" is `IsOf`: of the
chunk, and by the model in use (or, in the file, the one it names) or else a pair of the cache that named none.
The chunks still to be
embedded are kept as a set of positions, sent lowest first as the code does.

`RetrievalKeepsIndex` says that every behaviour of `Retrieval` is one of `RagIndex`, so
all of that holds while questions are asked. `RetrievalInv` adds that the store has a place
for every chunk of the documents (`StoreFits`) and that what was found last is the
ranking of the index as it is (`FoundIsRank`). `BestAreListed` then is about `Rank`
alone, and about counting: `RankGrows` and `RankIsTaken` (the ranks in a finite
order are each taken once), `ByRank` (the list by rank holds every element once) and
`TopOfAll` (the first n are n, or all, and come before the others), for any order. They are
used twice, for the chunks of one document and for those that were spread
(`SpreadIsTop`, `ListedIsRank`); `ScoresOrder` says that scores and places are such an order.

**`ChatClientProofs`.** `RowsInv` says of the store, of every load under way and of the
pane that each has a row at most once, and only rows of questions that were asked
(`FromServer`, `PaneIsTrue`), and that a question is where it was asked
(`QuestionsArePlaced`); a reply whose body is on its way is to a question that has been
answered (`ReplyIsTrue`). That is enough for `MessagesShownOnce`, because a load replaces the pane and
an answer is merged by id. `PaneIsConversation` needs more, while the tab is undisturbed:
with nothing under way the pane is what is stored (`QuietIsTrue`), a live load brings
what is stored (`LoadIsTrue`), and while a question is under way the pane is ahead of
the table by the question, or behind it by the answer (`QuestionIsTrue`).

**`PartsProofs`.** One section per part, each for any number of tabs, processes, runs
or users, and without the bounds of `Parts.cfg`.
`BrowserInv`: the reloads of a tab are for versions from the one it was opened with up to
the one it remembers, so there are no more reloads than such versions.
`SchemaInv`: what a start has passed is in the schema (`PassedIsThere`), since nothing is ever
dropped, and it fails only if a query was lost.
`AccountsInv`: an answer without an error names the user its token is of
(`FormIsTrue`, `ChecksAreTrue`), and so does a tab that shows the chat (`TabsAreTrue`);
addresses are unique in the table because the
INSERT decides, not the SELECT before it.
`VersionsInv`: who holds the lock knows what is in the files (`HolderKnows`); of the versions
given only the last can be given again, and it is of the sources in the state file
(`GivenIsTrue`); unless a start of edited sources has come in between, the files stay those
of the release once its sync is over (`FilesAreReleased`), because who holds the lock then
gives the same version again (`HolderFollows`), and whatever comes in between stays known
(`ReleaseStays`). `ReleaseIsTrue` is the bundle from the build to the upload.
`ConfigurationInv`: `StartsAreSound` is about the specification TLC checks, which starts from
examples; `EveryStartIsSound` drops those and starts from any environment whatever
(`AnyEnvironment`), so that no combination of variables slips through the
validation. That a variable can be absent or blank, and that the two differ, is its assumption.
`ChunkingInv` is the type invariant with: the chunks so far cover every character
before `start` that is not blank, and when the loop is over, the whole text.
`EndIsWithin` bounds the end of a chunk, whichever break is taken: beyond its
start, within the text and the chunk size. `TurnKeepsIt` is one turn: the next
start is not beyond the end, because an overlap is not negative, so nothing lies
between. `LoopAdvances` is the progress of every turn.
`FailuresShowNoNumber` needs that the page stays a record through every load (`PageStaysWhole`)
and that a query without series has no rows (`NoSeriesNoRows`); the sums of what did answer are
never looked into.

The type invariants of the modules with proofs, and three invariants that follow
from little more (`OneShutdown`, `RefusedOnlyAfterMax` and `MemoryIsBounded`),
are proved and not checked by runs any more.

Only model-checked: the liveness properties (`EveryRequestEnds`, `ShutdownEnds`,
`ScrollingEnds`, `LoadingEnds`), because liveness under fairness is out of the prover's
reach. Every safety property of the passing runs is a theorem. What a fold over data
returns is not proved (the averages and sums of `Monitoring`): that is an induction over the
data, and no theorem depends on it.

## 5. Not modelled, and why

Logging, spans, telemetry and sanitizing are output; dashboard, analytics and
settings are presentation of numbers, with no state the rest depends on.
Tokenising, the two similarities and the splitting of a document by its headings
are computations on text that no property here tells apart. The text of messages,
prompts, documents and errors is never looked at: the properties are about whose it
is, where it is stored and in what order. The demo error modes of the tab make up
errors on purpose. `cors-config.mjs`, `middleware/http-observability.mjs`,
`database-indexes.mjs`, `lib/version-session.js`, `lib/datadog-version.js` and
`src/scripts/sync-dd-version.mjs` are copies or earlier versions that the running
system does not use. `verify-browser-sdk-v7.mjs` reads files and reports. The SQL
server is taken to run one statement at a time. What the providers, the gateway
and Datadog answer is arbitrary. Retries of the OpenAI client are part of a call.

## 6. Plan

Done in this order, because everything else leans on it: POST /chat with its store
and contract; the process; limiter; both paginations; index; browser tab; the
proofs about store and handler, process, limiter and paginations; then SMS with the
request timeout, schema, accounts, monitoring, versions, browser session,
configuration, ranking, splitting with its proof, and the list and the history of
the tab.

Then the theorems: that `Chat` implements `ChatContract`, and its order of answers,
reply and prompt; index; SMS; sessions, schema, accounts, versions and configuration; the
tab and its side bar.

Last: the history of the tab, the ranking and the monitoring page, whose sorted and
merged lists were first written with folds of the library and are now given by the place of each
element, which is what the proofs reason about.

Left: the retry of a failed load, which still has no property of its own; the
demo error modes; the pages with no state the rest depends on.
