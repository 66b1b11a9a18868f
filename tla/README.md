# Verification of the Gemini AIP-136 gateway

The gateway (`src/`, Go, one flat package `main`) lets OpenAI clients talk to Gemini. A client
sends a request to `/v1/responses` or `/v1/chat/completions`; the gateway finds out which local
program it is, picks an account, converts the request, streams the answer of Google back as OpenAI
events, and remembers what a later request of the conversation needs. This directory holds TLA+
models of the parts where order, failure and concurrency decide whether that works, the TLC
configurations that check them, and proofs that TLAPS checks.

Contents: 1 [the system](#1-the-system) - 2 [the modules](#2-the-modules) -
3 [the runs](#3-the-runs) - 4 [fairness](#4-fairness) - 5 [the proofs](#5-the-proofs) -
6 [where code and documents disagree](#6-where-code-and-documents-disagree) -
7 [what is not modelled](#7-what-is-not-modelled) - 8 [plan](#8-plan).

Running it: `tlc -config X.cfg M` for a row of the table in section 3, `tlapm M.tla` for a module
named `...Proofs`.

## 1 The system

### One request

```
client --> handleResponses / handleChatCompletions                        main.go
             | ResolveClientProcess: port -> process                      process_inspector.go
             | RouteAccount: process -> account                           program_router.go, accounts.go
             | ConvertOpenAiRequestToGemini                               protocol.go
             |     session id of the process  <- getStealthSessionID      protocol.go, session_persist.go
             |     signature of a call        <- GlobalThoughtStore.Get   thought_store.go
             |     previous_response_id       <- GlobalResponseStore.Get  response_store.go
             | token and HTTP client                                      gemini_client.go, auth.go, proxy_manager.go
             v
           Google --parts--> StreamTranslator --events--> client          stream_translator.go
             |     signatures -> GlobalThoughtStore.Store
             v
           FinishStream, saveResponseState -> GlobalResponseStore.Save    main.go
           BroadcastRequestEvent -> live pages                            ws_hub.go, ui.html
           request log                                                    request_logger.go
```

Each request runs in a goroutine of its own. The stores are shared by all of them and by a few
goroutines that live as long as the process: the two persisters, the log writer, the page
connections.

### The components

| component | state | operations | what is hard | what makes it correct |
|---|---|---|---|---|
| thought-signature store `thought_store.go` | map from (call id, tool) to signature and time; a one-slot channel; a JSON file | `Store`, `Get`, the persister's save, the load at start | `Store` wakes the persister after the unlock; the save is five steps, each can fail or be cut by a crash; expiry, size cap, corrupt files | an answer never changes, never belongs to another call, and reaches the disk |
| stream translator `stream_translator.go`, handlers in `main.go` | 17 flags, counters and texts per stream | `HandleGeminiChunk`, `FinishStream`, the error branch; a second implementation for `stream:false` | parts arrive in any order, the stream may be blocked, cut, or broken | the events of every stream form a well-formed response that carries what the model said |
| credential manager `auth.go` | cached token, its date, one RWMutex | `GetValidToken`, `refreshOAuthToken` | double use of the mutex, a token and a date assigned separately, an owner that replaces the credential | no expired token from the cache, every call returns |
| session ids `protocol.go`, `session_persist.go` | map pid to session id; one-slot channel; JSON file | `getStealthSessionID`, the persister, the load | as the thought store | one id per process, across restarts once on disk |
| live request hub `ws_hub.go`, `ui.html` | list of 50 rows, connected pages, each page's table | `BroadcastRequestEvent`, `AddRecentRequest`, `Broadcast`, snapshot on connect | the two announcements of a request are goroutines that overtake each other; snapshots race with casts | list and pages end up telling what happened |
| response store `response_store.go` | LRU list of 300 responses, map into it | `Save`, `Get`, `Delete` | two structures kept in step; reads are uses | only the least recently used is forgotten |
| request conversion `protocol.go` | none of its own | `ConvertOpenAiRequestToGemini`, `saveResponseState` | the same conversation arrives in two forms, signatures may be lost, stored and new turns are merged | turns alternate, a named answer is extended unchanged, both forms ask the same |
| account store `accounts.go` | list of accounts, active mark, JSON file | import, login, token; delete, activate, assign a proxy, charge; refresh token and quota | refreshes run outside the lock and write through a pointer that may be long out of the list; the file is written in place and its failures are ignored; ids are seconds | one account per user, one mark, tokens of their own user, a restart loads the same |
| proxy manager `proxy_manager.go` | map of proxies, JSON file | add, delete, test, client for a proxy | a delete saves two files; an unknown proxy means a direct request without an error; the manager starts after its users | what is sent for an account goes through its proxy |
| program router `program_router.go` | ordered rules, JSON file | add or replace, delete, route | a rule is replaced by id or by pid; pages post rules they read long ago; the rules are copied and looked up later | one rule per process, an assigned program keeps its account |
| process inspector `process_inspector.go`, hook in `main.go` | port table | register at connect and at each request, background scan, resolve | every scan runs outside the lock and is written later; ports are used again | no request is attributed to a program that never had its port |
| Gemini client `gemini_client.go` | none | choice of token and client, HTTP stream | two silent fallbacks to other tokens | the assigned account pays, and who pays is charged |
| request logger `request_logger.go` | channel of 1000, drop counter, daily file | `Log`, `LogEvent`, the loop | a full channel, a file that fails, midnight, and a mutex that the loop holds while it writes | each line is written, counted or lost with its file; nobody waits for good |
| diagnostic logger, cache probe, settings manager | a ring, a counter, one record | append, hash, set | little | left out |
| pages, scripts, tests | - | - | - | presentation; the page's request table is in `WSHub` |

How they interact: the handlers call everything else directly; the two persisters and the log
writer are reached through channels; the hub is called in new goroutines. Nothing is shared between
two processes but the Windows credential, which another program owns and replaces.

## 2 The modules

| module | models | kind |
|---|---|---|
| `WriteOnceMap` | what a debounced write-once store promises | abstract specification |
| `ThoughtStore` | `thought_store.go` | detailed, implements `WriteOnceMap` |
| `SessionIds` | `getStealthSessionID`, `session_persist.go` | detailed, implements `WriteOnceMap` |
| `StreamTranslator` | `stream_translator.go` and the end of the two handlers | detailed |
| `AuthManager` | `auth.go` | detailed |
| `WSHub` | the request list of `ws_hub.go` and `ui.html` | detailed |
| `ResponseStore` | `response_store.go` | component, with `StoreSpec` |
| `Conversation` | `protocol.go` and the handlers, over `ResponseStore` | composition, implements `StoreSpec` |
| `ProxyManager` | `proxy_manager.go` | component |
| `AccountStore` | `accounts.go`, over `ProxyManager` | composition |
| `ProcessInspector` | `process_inspector.go` and the ConnState hook | detailed |
| `ProgramRouter` | `program_router.go`, its handler and page | component |
| `Routing` | from pid to rule, account, token and charge, over `ProgramRouter` | composition |
| `RequestLogger` | `request_logger.go` | detailed |
| `XMC` | small instances of `X` | for TLC |
| `XProofs` | theorems about `X` (`ConversationProofs` also of `ResponseStore`, `RoutingProofs` of `ProgramRouter`) | for TLAPS |
| `IdentityProofs` | theorems about `AuthManager` and `SessionIds` | for TLAPS |
| `MonitoringProofs` | theorems about `ProcessInspector`, `RequestLogger` and `WSHub` | for TLAPS |
| `FoldLemmas` | lemmas about loops over sequences: `FoldLeft`, `FlattenSeq` | for TLAPS |

`ThoughtStore` and `SessionIds` instantiate `WriteOnceMap` with a refinement mapping (`mem` is the
map in memory, `stable` is what the next start would load from the file). `Conversation` extends
`ResponseStore` and uses its operations as the handlers use them; that every one of its steps is a
step of the store is a theorem. `AccountStore` extends `ProxyManager` because `DeleteProxy` edits the
accounts and a request for an account asks the manager for a client; `Routing` extends
`ProgramRouter`. Some modules contain definitions with a comment "Mutant:"; each is
the definition that follows it with a plausible mistake in it. They are in no specification and
show that a property would notice the mistake.

### ThoughtStore

`cache` is `s.cache`, `dirty` whether the one-slot channel is full, `file` the JSON file with its
status, `snap` the copy a save is working on, `persister` and `caller` where the goroutines stand.

| action | code |
|---|---|
| `StoreInsert`, `StoreNoCallId` | `Store` up to the unlock: the exact key and the twin (call id without tool) keep the first value |
| `MarkDirty` | the non-blocking send after the unlock |
| `Receive`, `Drain`, `Copy`, `WriteTmp`, `Rename` | the persister: receive, sleep, drain; `saveAsync`: copy under the read lock and cap, temporary file, rename. The last two may fail, which is logged and otherwise ignored |
| `Restart`, `Init` | `NewThoughtStore`: entries that have expired or have no signature are skipped, a file that cannot be decoded is renamed |
| `Tick` | the clock, for the TTL |

`Get` is an operator. `lastSignature` and `GetFallback` are left out: nothing calls the latter.

### SessionIds

As above, but the channel is marked while the lock is held, nothing expires, there is no cap, and a
file that cannot be decoded stays where it is. All clients without a known process share one key,
`NoPid`.

### StreamTranslator

`st` is the translator's own record (fields named as in Go), `sse` the events sent, `received`,
`stored`, `saved` and `status` what came in and what was handed on. A part is numbered by its place
in the stream and its text and signature are that number, so a text is the sequence of the parts it
consists of. One action per kind of part (`Thought`, `Text`, `FunctionCall`, `EmptyPart`), per reason
(`PromptFeedback`, `FinishReason`), and per end (`FinishStream`, `StreamError`). `JsonMessage` is what
the chat handler collects for `stream:false`. Which notice the shield of an empty answer chooses is
modelled (`FallbackText`, `FallbackOfJson`), not its words; two of the stream's three and one of the other
implementation's two are its own. A chunk with several parts is several steps: the code
handles them in a loop and nothing that handles a part reads what comes after it.

### AuthManager

`holder` is the writer of `a.mu`; `pc` follows a call through the fast path under the read lock, the
write lock, the Windows credential, the refresh, the second lock inside `refreshOAuthToken`, and
the files. The credential is changed by its owner at any time. Minutes are the unit of the clock.

### WSHub

`Begin` and `End` are the two announcements of a handler, each a goroutine in `sending` that first
adds the row to the list (`Add`) and then writes it to the pages (`Cast`). A page connects in three
steps (`Register`, `TakeSnapshot`, `SendInitState`), as `handleWebSocket` does. `shown` and `guarded`
are the table of the page and its `liveReqTerminal`. All final statuses are one, since every guard
treats them alike.

### ResponseStore and Conversation

`order` is the list, front first, `items` the keys of the map. Two ghost variables say what a user
may rely on: `kept` (saved and not deleted) and `since` (what others were used since a response was
used last).

In `Conversation` a request is named by the id of its response. What is said is abstracted to who
says it: `<<r, i>>` is piece `i` of the answer to `r` (also the output of the tool it calls),
`<<r, 0>>` is what the client says with `r`.

| action | code |
|---|---|
| `First`, `Replay`, `Chain` | a request without history, with its whole transcript, or with `previous_response_id`; conversion of its items, merge of turns, fail-safe guards |
| `Finish` | the end of the stream: signatures of text and calls stored, `response.completed` sent |
| `SaveResponseState` | the save that follows it; nothing is saved for an answer without parts |
| `Fail` | the stream breaks; the payload of the request is of no further use and forgotten |
| `Read`, `Forget` | `GET` and `DELETE` of `/v1/responses/{id}` |
| `Restart` | the response store is gone; of the signatures some subset survives, as `ThoughtStore` allows |

`ItemsOf` and `OutputItems` are the response object a client is given, `TurnsOf` the turns made of an
item it sends back, `Joined` one step of the loop that merges turns. An answer is any sequence of
pieces (`AnswersAssumption`); the cfg picks four.

Without `stream` the client gets its answer after the save: in the model it does nothing between
`Finish` and `SaveResponseState`. Media, system prompt, model choice and tool schemas are left out.

### AccountStore and ProxyManager

An account is a Go pointer; `list` is the list of pointers, `acc` what is behind each, `file` what a
start would load from `accounts.json`, `job` what each goroutine that refreshes an account or serves a generation is doing
and which pointer it holds. A token is abstracted to the user it belongs to. `proxies`, `proxyFile`, `ready` and
`deleting` are the manager's map, its file, whether it exists yet, and the delete that is between its
two saves.

| action | code |
|---|---|
| `ImportCurrentWindowsAccount`, `ExchangeOAuthCode`, `TokenAccepted` + `AddRefreshToken` | the three ways to add an account, each from the moment Google has answered: new tokens for a known email, else a new account |
| `SetActiveAccount`, `SetAccountProxy`, `DeleteAccount`, `RecordTokenUsage` | the handlers of the page and the end of an answer, each with its save |
| `RefreshAccountQuota`, `TokenExpired`, `TokenValid` | a quota is asked for and the account found under the lock, which is then released; or a generation is to be served by an account, whose token has expired, or not |
| `RefreshAccountToken`, `SendRefresh`, `NoRefreshToken`, `Refreshed`, `RefreshFailed` | `RefreshAccountToken`: the account's refresh token and proxy id are read by no lock; the proxy is looked up under `m.mu` and the request goes out; the answer is written through the pointer and saved |
| `MakeRequest`, `SendRequest`, `QuotaDone`, `RequestOver` | the rest of `RefreshAccountQuota` and of `StreamGenerateContentWithAccount`: again the proxy id is read, then looked up |
| `AddProxy`, `TestsDone`, `DeleteProxy` + `DeleteProxySaved`, `InitProxyManager` | the manager; `m.mu` is held from `DeleteProxy` to `DeleteProxySaved`, `s.mu` is not |
| `Restart` | the process dies, perhaps in the middle of a write, and `InitAccountStore` runs: a file with accounts is loaded, any other is taken for missing and, with a Windows credential, written over |

A save (`Save`, `SaveProxies`) works, or fails and leaves the old file or one that loads nothing; at
most `MaxFaults` writes fail. `unsaved`, `cleared` and `excused` are ghosts that say what a failure has
excused: the last save failed, an unknown id was activated, a proxy's record was lost, the proxy was
assigned without one, or a start found it named after a failed save. `overtaken` in a job says that the
proxy it has read was deleted before it was looked up.

### ProcessInspector

`owner` is the open connection of each port, `conn` where each connection's goroutine stands and what it
has read (`seen`), `portToPID` the table, `scanned` what the background scan has read and not yet
installed. Every handler is two steps, the look and the write, since the scan between them runs outside
the lock: `RegisterNew`/`RegisterNewWrite` in the accept loop, `RegisterActive`/`RegisterActiveWrite` and
`ResolveClientProcess`/`ResolveWrite` in the connection's goroutine, `RefreshScan`/`RefreshInstall` in
the background. A scan sees the table as it is or, when the table grows between the two Windows calls,
nothing. A port is free as soon as its client closes, while its old goroutine may still be at work.

### ProgramRouter and Routing

`rules` is the list; a pattern is the set of pids whose program names contain it. `NewRule` and
`ToggleProgramRule` are what the page posts, the second with a rule the page may have read long ago;
both end in `AddOrUpdateRule`. A request copies the rules (`CopyRules`), looks the accounts up
(`RouteAccount`), gets a token (`SendWithToken`) and charges an account (`RecordTokenUsage`), with all
edits, logins, deletes, activations and restarts in between. Two ghosts: `steady` is the account that the
rules kept assigning to the program from their copy to the lookup, and `tokenless` says that the account's
own token was not to be had.

### RequestLogger

`ch` is the channel, `loop` and `taken` the writer and the line it has taken, `open` the day of the open
file, `torn` the days whose files end in a piece of a line, `at` where each handler stands and `stamp`
the days of the lines it has stamped and not sent. `Log` stamps the line; a miss may dump its payload
first and announce it in a line of its own, stamped (`AnnounceDump`) and sent (`SendEvent`); a full channel
sends the handler to `incDropped`, which needs the mutex that the loop holds from `Lock` to `WriteLine`. The
file may fail to open, and a write may fail unnoticed, with nothing or a piece of the line written; the
next line then follows the piece.

## 3 The runs

| run | module, cfg | size | shows |
|---|---|---|---|
| ThoughtStore | `ThoughtStoreMC`, `ThoughtStore.cfg` | 81k states | two calls of one tool stored by two goroutines, crashes, failing writes, expiry, a corrupt file: no call gets another's signature (`NoForeignSignature`), no saved signature changes (`DurableFirstWins`), nothing stays unsaved at rest (`QuiescentMeansSaved`), the file is never torn (`NeverTorn`), every entry reaches the disk (`EventuallyDurable`), the inductive invariant, and the refinement (`ImplementsWriteOnceMap`) |
| StreamTranslator | `StreamTranslatorMC`, `StreamTranslator.cfg` | 225k | every order of up to four parts, every block, finish reason and break, both endpoints: the types, items announced and closed once and consecutive tool indexes (`WellFormed`), the terminal event lists what was announced (`StreamClosed`), no empty answer (`NeverEmpty`), the saved turn is the model's (`TurnFaithful`), `stream:false` agrees but for some notices and late refusals (`JsonAgrees`) |
| AuthManager | `AuthManagerMC`, `AuthManager.cfg` | 241k | two callers: token and date belong together, the fast path never answers with an expired token (`CacheAnswersFresh`), every call returns unless one has refreshed with success (`CallsReturn`) |
| AuthManagerRefresh | `AuthManagerMC`, `AuthManagerRefresh.cfg` | violation | see section 6 |
| SessionIds | `SessionIdsMC`, `SessionIds.cfg` | 2.3k | ids never change, survive restarts once saved, reach the disk |
| WSHub | `WSHubMC`, `WSHub.cfg` | 785k | three requests, two rows, a page that comes and goes: one row each (`WellFormed`), list and followers end up right (`ListTells`, `FollowerSeesEnd`), the list never goes back (`ListNeverGoesBack`) |
| Conversation | `ConversationMC`, `Conversation.cfg` | 366k | three requests in every relation to each other, two places in the store: list and map agree (`ListMatchesMap`), the least recently used goes (`RecentIsKept`), turns alternate (`TurnsAlternate`), a named answer is extended part for part (`PrefixKept`), naming and replaying ask the same (`ReplayAgrees`), results go with their calls (`ResultsMatchCalls`) |
| ConversationLost | `ConversationMC`, `ConversationLost.cfg` | violation | see section 6 |
| AccountStore | `AccountStoreMC`, `AccountStore.cfg` | 418k | two users, two accounts, a proxy, a goroutine that refreshes or serves a generation, one failing or torn write, restarts: one account per user and one mark (`ListInv`), late answers give nobody another user's token (`TokensMatch`), a restart loads what memory held (`RestartAgrees`), a crash leaves no account on disk with a proxy the disk does not know (`DiskConsistent`), requests go through the proxy read from the account (`SentThroughProxy`) |
| ProcessInspector | `ProcessInspectorMC`, `ProcessInspector.cfg` | 937k | three connections of two programs from one port, one after another: a request is attributed to a program that has had its port (`NeverAnotherProgram`), and to its own once a scan that saw it is installed (`KnownIsExact`) |
| Routing | `RoutingMC`, `Routing.cfg` | 774k | rules, accounts and the mark change while a request is routed, sent and charged: one rule per pid (`OneRulePerPid`), a steady assignment is served, and pays while it has a token (`AssignmentHolds`), who paid is charged (`ChargedIsPayer`) |
| RequestLogger | `RequestLoggerMC`, `RequestLogger.cfg` | 439k | two handlers, a channel of one line, failing files and writes, a midnight: every line is accounted for, in order, in a file of its day or a later one, and by itself unless a write before it failed midway (`LinesKept`), no handler waits for good (`LogReturns`) |

### Bounds, and why they are enough

- `ThoughtStore`: the store treats keys alike and only the exact key and its twin are ever looked at
  together, so two calls of one tool have every mix-up and, the first file holding another signature
  for the first of them, every conflict. Two callers are the fewest with one between unlock and send
  while the other inserts. `TTL = 0` and `MaxTime = 2` let an entry expire before and after a restart.
  `MaxKeys = 3` is all the keys, so the cap is not reached (section 6).
- `StreamTranslator`: four parts are one more than the kinds of part, so that each kind can follow
  itself and return after any other (thought, text, thought, call). The flags are set once each and
  the counters only grow. Of the reasons, one of each class is enough.
- `AuthManager`: the code compares with two, one, thirty and forty-five minutes; the instance keeps
  two and one and shortens the others (`FileLife = 3`, `DatelessLife = 4`), so that a token becomes old
  on each path. Two callers are enough for one to hold the lock while another arrives.
- `SessionIds`: two processes and the unresolved key, two ids, one file of each kind.
- `WSHub`: two rows and three requests make the oldest row fall out, and its late announcement bring
  it back. Pages do not influence each other, so one is enough.
- `Conversation`: with three requests the third save pushes one of two out; a chain of three answers
  has a first, a middle and a last; two can fork from one. The answers are the empty one, an unsigned
  one, one with a signed thought, text and call, and parallel calls of which the first is signed.
- `AccountStore`: two users are the fewest that can get each other's tokens; with two pointers a
  goroutine can hold one that is out of the list while the other is in it. All accounts are made in one
  second, so two of them share an id, except that the one a start imports is "acc-1": sharing and not
  sharing both occur, and the proofs cover any seconds. One worker has a refresh under way while everything else happens; two workers
  only ever meet in the list, where each is a user to the other. `MaxFaults = 1`: each property excuses
  what one failure has lost, and the proofs cover any number. The `VIEW` leaves out accounts that
  nobody can reach and what a job no longer uses: the proxy of a request under way, which only the step
  that sends it (and `SentThroughProxy`, which looks at that step) reads, and the refresh token once
  it is answered.
- `ProcessInspector`: three connections of two programs on one port are a stale entry, a goroutine of
  the former connection that writes late, and a scan that is older than both. Ports are entries of a
  map that no step looks at together.
- `Routing`: one request under way; requests meet only in rules and accounts, which change in every way
  meanwhile. Two pids and an unrecognised program, two rules (an own and a pattern's, or two that
  compete), three accounts, of which the third is the first's user, who has logged in again, and the
  second has the placeholder email.
- `RequestLogger`: a channel of one line is full as soon as the loop has not taken it; three calls by two
  handlers, each with up to two lines, have one written, one in the channel and two that wait for the
  mutex. Two days make one midnight between stamp, send, open and write.
- Symmetry is used where no action and no property tells the permuted values apart and no liveness
  property is checked: requests in `WSHub`, response ids in `Conversation`, users in `AccountStore`,
  connections in `ProcessInspector`.
- Deadlock is checked everywhere but in `StreamTranslator`, where a stream ends, and in
  `RequestLogger`, where the bounded calls end.

### What the models assume

- `AccountStore`: an import reads the Windows credential twice; it is not replaced in between and has a
  refresh token. Emails are compared without folding of letters. The Go data races on single fields
  of an account (a refresh writes while another goroutine reads) are taken as atomic. The refresh token
  and the proxy id that `RefreshAccountToken` reads one after the other are read in one step, and the id,
  which the code reads once to see whether there is one and once to look it up, is read once.
- `AccountStore`: a generation that no account is found for, and so needs no account's proxy, is left out.
  Whether a job is for a quota or a generation is not remembered once it has found its account: a quota may
  also go unasked where a generation may fail, and a generation end with a save of the list, as the
  `RecordTokenUsage` after it is.
- `AccountStore`: the clock is left out; an account is made in any second, which may be that of another one.
- `ProxyManager`: ids, made from the clock in milliseconds, are not given twice.
- `ProcessInspector`: addresses parse, and Windows reports a connection from the moment the client has it.
- `ProgramRouter`: writing the rules does not fail short of a crash; the email in a rule is that of its
  account's id, and no client gives a rule another pid, as the page does not.
- `Routing`: the two lookups of one `RouteAccount` are one step.
- `RequestLogger`: the clock does not go back over midnight, and the loop never ends.
- `StreamTranslator`: a thought has a character that is not white space (the shield trims it).

### What the properties leave out

`ListTells` and `FollowerSeesEnd` speak of at most as many requests as there are rows: a late
"running" copy of a row that was pushed out does come back as a row that never ends (`ws_hub.go:79`).
`ReplayAgrees` speaks of conversations that both ways can carry: every answer lists thought, text and
calls in this order, with thoughts and calls signed, the client says something each time, and every
named ancestor was found; and it leaves the names of results aside, which differ (section 6).
`WellFormed` says nothing of `response.created`, `StreamClosed` nothing of deltas that an item is sent after
its done event, nor of a broken stream, where the error branch closes nothing; none speaks of the index of
the shield's message. `JsonAgrees` excepts two things. For an empty answer without thoughts `stream:false` has
one notice where the stream has two others (`main.go:1065`, `stream_translator.go:626`, 628); and when a block
follows text or calls it adds a refusal to them (`main.go:1080`), which the stream does not: the stream
refuses exactly when `stream:false` does and has no text and no calls. `CallsReturn` excepts
the blocked refresh. `QuiescentMeansSaved` and `EventuallyDurable` except a failed save, after which
the code waits for the next `Store`. `RestartAgrees` excepts a save that failed and the marks that a
failed activation cleared. `DiskConsistent` excepts the time in which the last save of the accounts has failed,
so a failing write inside `DeleteProxy` is not judged before the next save, nor the proxies that a restart then
finds named. `SentThroughProxy` excepts a proxy that was deleted between the read of its id and its lookup
(the request goes out directly), the excused ones, the time before the manager exists, and accounts no longer
in the list. `AssignmentHolds` speaks of assignments that nothing changed between the copy of the rules and the
lookup of the account, and of the global credential as payer only when the account's token was not to be had;
`FollowerSeesEnd` of requests that begin once the page is open, not of rows that a stale snapshot
replaces; `KnownIsExact` a late write by a goroutine of the port's former connection;
`ChargedIsPayer` the global credential, a payer that was deleted, and the placeholder email.

## 4 Fairness

- `ThoughtStore`: weak fairness of the persister and of each caller's send after the unlock. Both are
  goroutines that never block there: a goroutine that can run is run. Callers need not call, the
  clock need not tick, and a crash may come at any time; the properties allow for them.
- `SessionIds`: weak fairness of the persister. There is no send outside the lock.
- `AuthManager`: strong fairness of the steps of each call. The mutex is free again and again and Go's
  mutex hands itself over to a goroutine that has waited for a millisecond; the answer of Google
  arrives or the HTTP client's timeout makes it fail.
- `RequestLogger`: weak fairness of each handler and of the loop, which are goroutines that can run, and
  strong fairness of `incDropped`: the loop lets the mutex go after every line, and Go's mutex hands
  itself to a goroutine that has waited for a millisecond. `Log` need not be called again and the day
  need not end.
- The others state safety only.

## 5 The proofs

All theorems hold for every value of the constants under the named assumptions
(`ConstantsAssumption`, `SessionAssumption`, `AuthAssumption`, `CapacityAssumption`, `AnswersAssumption`,
`ProxyAssumption`, `AccountAssumption`, `InspectorAssumption`, `LoggerAssumption`, `HubAssumption`,
`RouterAssumption`, `RoutingAssumption`, `StreamAssumption`), which only say that "nothing" is not a value, that
bounds, pids and pointers are numbers, that there is a port, that the handlers are finitely many, that answers are
sequences of pieces, that endpoints and finish reasons are those the code tells apart ("OTHER" is any it does not
know), and that the files found at the first start are files.

**ThoughtStoreProofs.** `IInv` is the type invariant and three facts: what a restart would load is in
the memory (`RestartAgrees`); the copy a save is working on is part of the memory and, unless the map
is over its cap, contains what the file holds (`CopyAgrees`); and one of these holds: a copy is still to come, the copy under
way is complete, or the file is (`NoLostWakeup`). The first alone is not inductive: the rename puts
the copy into the file. The third says why the one-slot channel is enough: draining happens before the
copy, so what is drained is copied. From it: `TypeCorrect`, `RestartCannotChangeAnswers`,
`NothingLeftUnsaved`, `DurableEntriesStay`, `FileNeverTorn`, and `ThoughtStoreRefines`, whose steps
map to `Learn` (insert), `Checkpoint` (rename), `Expire` (tick), `Restart` or a stutter.

`OnlyOwnSignatures` has an invariant of its own, `NothingForeign`: whatever is in memory, in the copy or in the
file under a call is a signature that was offered for that call or was in the first file. It is inductive as
every save and load hands entries on and none makes one up.

**IdentityProofs, session ids.** The same argument without expiry and cap, with the same abstract specification:
`SessionInvariance`, `SessionIdsRefine`.

**IdentityProofs, credential.** `IInv` is: one goroutine at a time is past the lock (`OneWriter`), and the date
belongs to the cached token except while a refresh is under way, when it belongs to the credential
that was read (`DateBelongsToToken`). The exception is needed, as the code assigns the date before it
asks Google. From it `NoExpiredAnswer`. `RefreshBlocksForever` shows that a call at the second lock
stays there in every behaviour.

**ConversationProofs.** Four layers, each over the one before.

1. *The store* (`StoreInv`): list and map hold the same ids once each, and what stands in front of an
   element was used after it; a saved id that is no longer in the list has at least `Capacity` others used
   since. For the element that is dropped the places in front of it give an injection from
   `1..Capacity` into the ids used since. `StoreInvariance` and its consequences hold for anything that
   implements `StoreSpec`.
2. *Its user*: each step of `Conversation` is a store operation or leaves the store alone
   (`ConversationUsesStore`), hence `ConversationListAgrees` and `ConversationForgetsLeastRecent`.
3. *What is sent* (`ConversationInv`): the state stored under an id is the payload of that request and its
   answer, every payload alternates from user to user, and every output in a transcript has its call.
   The lemmas say what a merge does (`MergedFacts`: the same parts, roles alternating, the same ends), that a
   guard adds one of two turns at an end or nothing (`GuardedFacts`), and which parts an item becomes
   (`ItemFacts`). `PrefixKept` needs the invariant because the stored state is what relates two requests;
   that an answered request never changes again (`AnswersStay`) carries it over evictions and deletes. From
   it `TurnsAlwaysAlternate`, `PrefixAlwaysKept`, `ResultsAlwaysMatch`.
4. *Two ways to say the same* (`ReplayInv`): `Spoken(known, sent)` is what a transcript says, item for item,
   when the signatures in `known` are. A replay sends `Spoken` of the whole transcript (`ReplayedSays`); a
   named answer sends the parent's parts, the answer's, and `Spoken` of the new items (`ContinuedSays`); and
   the output items of a plain answer say its parts (`PlainSays`, by induction over an answer that is sorted
   by kind), provided the thought store holds exactly the answer's signatures (`Told`). It does for every
   answer that is saved or about to be: only the answer's own `Finish` adds signatures under its id, and a restart that
   loses some empties the response store too. From it `ReplayAlwaysAgrees`.

**AccountStoreProofs.** `IInv` is the type invariant, what both lists must be like (in memory and in the
file: one mark, one account per user, tokens of their own), that a refresh under way carries a token of
the user whose account it will write to, that a proxy whose id a job has read is known, excused, or was
deleted since (`ReadKnown`), that the accounts in memory and on disk name only proxies the
map and the file know or that are excused, and that the file holds what memory holds unless the last
save failed. The facts about jobs are needed because an answer is written through a pointer, and those
about the file because a restart makes it the list. From it `OneAccountOneMark`, `TokensStayTheirs`,
`RestartLoadsTheSame`, `NoDanglingProxy`, and the action property `SentRightly`: a lookup finds the proxy
that was read, as `ReadKnown` holds before it.

**RoutingProofs.** Rules: an id stands for one pid for ever, no two rules share an id, and pages hold rules
of that kind only; so a stale rule that is posted replaces the rule of its pid or is appended when there
is none (`RulesStayUnique`). Requests: while the accounts that the rules ask for and the one they get do
not change for a pid (`steady`), the rules that were copied and the rules of now have the same candidates and
the same first existing account. Once that is looked up nothing can take it from the request any more; it lends
its token or, without one, the credential pays (`AssignedAccountServes`). The payer's email, which no other
account has, finds it again when it is charged (`PayerIsCharged`).

**MonitoringProofs.** Three invariants that share no variable.

- `InspectorInv`: whatever is in the table, in a scan not yet installed, or in a goroutine's hands is a program
  that has had that port, since `used` only grows (`NoStrangerIsCharged`); and the entry of a known connection is
  exact because the scan that made it known was read while the connection had its port and every later write removes
  from `known` whom it contradicts (`OneScanIsEnough`).
- `LoggerInv`: the loop holds one line exactly when it is not at the channel; numbers and days only go up from
  the files through the loop to the channel, and no day is later than today. `Accounted` is the sum that each
  step moves one unit of; the handlers at the mutex are counted as a finite set, and so are the spoiled lines
  and the files that end in a piece, of which a failed write makes one and the next line turns one into the
  other (`NoLineUncounted`).
- `HubInv`: a request has one row in the list and one in a page; a row says what its handler announced; a final row
  in the list is not undone; and what the handler said last is shown or still in a goroutine. The last is what
  `ListTells` and `FollowerSeesEnd` say when the goroutines are through. Both also need that no row is pushed
  out while there are no more requests than rows, which is a count of a finite set of rows.

**StreamTranslatorProofs.** The properties are about everything that was sent, so the proof first says what one more
event does to a reader: a client of the responses endpoint has read which items are announced and done, whether the
message is over, and what each item says (`Reads`; `ReadAdded`, `ReadDelta`, `ReadDone`, ... give the step); a chat
client has read a text, thoughts, calls and their number (`ChatReads`). Then `StreamInv`:

- *collected* is *received* (`Collected`): the thoughts and calls of the translator are the pieces Gemini sent, and
  the turn is those pieces part by part (`TurnOK`). A part keeps its last signature because pieces are numbered in
  order, so the newest is the largest;
- *told* is *collected* while the stream runs (`Told`): `hasStartedReasoning`, `hasStartedItem` and the calls are what
  was announced, `hasEndedReasoning` and the calls what was done, and the texts are what the deltas said
  (`Followed`). That a flag agrees with its text (the message is announced exactly when it has text) is part of it: without
  it `FinishStream` might close a message it never opened. The error event may come at any moment, so what
  holds of broken streams (`Kept`) is kept apart;
- the end (`Complete`): `LateAnswers` and `LateChat` say what a refusal or the shield adds to an answer nobody gave, and
  `TerminalCloses` that with all items done the response object lists them.

From it `StreamsAreWellFormed`, `NoFinishedStreamIsEmpty`, `ResponsesAreClosed`, `TurnsAreFaithful`, `JsonAndStreamAgree`.

**FoldLemmas.** The loops of the models are `FoldLeft` and `FlattenSeq`, which the community modules define by a
`CHOOSE` of a recursive function. The module shows that there is such a function and unrolls it step by step
(`FoldExists`, `FlattenSteps`), so a loop has a first value, a rule for appending one element, and for `FlatMap` a rule for
concatenation. Induction is stated over sets (`InductiveSet`, `SequenceInduction`): a set that has zero and with each
number the next one has every number. That form needs no operator as a parameter, so the provers can use it.

Only model-checked:

- `EventuallyDurable`, `CallsReturn`, `LogReturns`: liveness under fairness is beyond the prover.

Every other property of a passing run is stated by a theorem.

## 6 Where code and documents disagree

Two are runs that TLC ends with a counterexample.

1. **A refresh that works blocks for good** (`AuthManagerRefresh`, `auth.go:169`). `refreshOAuthToken`
   locks the mutex that `GetValidToken` holds. README.md:28 promises a silent refresh.
2. **An answer can be named before it is known** (`ConversationLost`, `main.go:669`).
   `response.completed` is sent before the state is saved. The comments of the store say that a request
   with `previous_response_id` reuses the stored content (`response_store.go:9`) and name two ways to lose it,
   the limit and a restart (21-23); the log of `protocol.go:1282` adds expiry and deletion. In the trace
   the answer has a thought and a text, which will be saved, and nothing was evicted, deleted or restarted.

The models have these as the code has them, and the properties are stated so that they do not claim
the opposite:

- The cap of the thought store drops the newest: the save sorts oldest first and deletes from the end
  (`thought_store.go:156`); the comments (29-30, 145) say the oldest.
- A page's row can go back to "running": a snapshot replaces rows without the guard of live messages
  (`ui.html:2929`); the comment at 2940 says a row cannot.
- Results of a named answer are called "tool": names are looked up in the request's own items
  (`protocol.go:1219`); `plans/02_GEMINI_AIP136_PROTOCOL.md:431` wants the full name.
- Two rules for one pid: `program_router.go:86-88` wants one, and the page keeps it so
  (`OneRulePerPid`); a client that posts a rule's id with another rule's pid gets two, since the first
  match of either is replaced (97-103).
- The pid that a request is resolved to is called certain (`process_inspector.go:308`), but it may be that of
  the port's former owner until the next scan, as a registered port is left as it is (218).
- `Log` never blocks, says the comment (`request_logger.go:219`); on a full channel it waits for the mutex
  that the loop holds while it opens and writes (`LogReturns` shows that the wait ends).
- A file that cannot be opened is announced "once" (`request_logger.go:268`), but for each line.
- An answer whose payer was deleted meanwhile is charged to the active account, and one of an account with
  the placeholder email to the first such account (`accounts.go:369`).
- The request of an account whose proxy is deleted between the unlocked read of its id (`accounts.go:438`, 525,
  `gemini_client.go:171`) and the lookup (`proxy_manager.go:345`) goes out directly, even if the account has been
  given another proxy by then (`SentThroughProxy` says when).
- A request whose account has no token to lend is paid by the global credential in silence
  (`gemini_client.go:128`), and charged to the account all the same.
- The quota goroutine starts before the proxy manager (`main.go:1234`, 1248): its first requests go out
  directly whatever proxy an account has.

Also kept as the code has it: the two implementations of chat choose different notices for an answer without
thoughts, text or calls (`stream_translator.go:623-629`, `main.go:1062-1066`), and only `stream:false` refuses after
text was given (`main.go:1080`); a response that begins with a call has no `response.created`
(`stream_translator.go:412`); the message of the empty-answer shield carries no index of its own (663); a
thought after the text is sent to an item that is closed (313); a call without an id gets one for the
client only (440); an answer without parts is not saved, so naming it finds nothing (`main.go:1158`); two
requests of one millisecond share a row id (`main.go:510`); a call without signature stays a call in the
stored turn while its result is sent as text (`protocol.go:1223`).

## 7 What is not modelled

- Diagnostic logger, cache probe, settings manager: one lock around one record, ring or counter, with
  no second step that could come in between.
- Of the hub: SSE clients and the account, proxy and settings messages.
- Of the conversion: media, system prompt, models, effort, tool schemas, the shapes of chat messages.
- Of the accounts: the numbers of quotas and usage, and the sessions of a login before Google has
  answered. Of the proxies: what a test finds out, and the pool of transports.
- Of the inspector: the names of programs, and the list of detected programs. Of the router:
  `ToggleRule`, which nothing calls, and labels. Of the logger: what lines and dumps say.
- The Windows calls, HTTP, JSON, and the scripts and pages, except the page's table of requests and
  its rules.

## 8 Plan

Done, in the order of importance: the stores that a conversation depends on (`ThoughtStore`,
`SessionIds`, `ResponseStore`), the stream, the credential, the live list, the composition of
conversion and stores, and the way of a request from port to program, account, proxy and charge, with
its log.

Next:

1. The inspector composed with the router, so that `AssignmentHolds` speaks of connections.
2. The login sessions of `accounts.go`, and the state of the diagnostic ring.
