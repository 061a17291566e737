# Verification of the WorkBuddy gateway

The gateway (`src/`) gives OpenAI- and Anthropic-compatible clients access to a
pool of WorkBuddy accounts. It is one Node process: an HTTP server that admits a
request (API key, rate limit), maps it to the upstream's format, borrows an
account from a pool, relays the upstream's event stream, and records what
happened; beside that an admin panel, a device-login flow, and persistence to
files or Postgres.

This directory holds TLA+ models of its parts, TLC configurations that check
them on small instances, and TLAPS proofs that hold for every instance.
`PROJECT.json` is the index: for every definition the lines it models, for every
property a mutation of the model that it catches, and the hazards the properties
are for.

Paths below are relative to `src/src/`.

## 1. Inventory

What concurrency means here: Node runs one callback at a time. Code races only
across an `await`, a timer or a request, so a model step is a callback with its
microtasks, and every `await` on I/O is a point where other steps come between.

| Part | State | Operations | Talks to | What is hard |
|---|---|---|---|---|
| Credential pool `workbuddy/credential-pool.ts` | `states` (account, failures, cooldown, reauth, refresh promise), `cursor`, `nextLabel`, `strategy` | add, remove, setStrategy, getCredential, refreshRejectedCredential, reportFailure, health, restore | broker (refresher), event sink / store, client, admin | an answer of the refresher after the account was removed or replaced; two requests on one expiring credential; rollback of one operation under another; the cursor under removals |
| Account store `workbuddy/credential-store.ts` | one encrypted file, a chain of writes | load, save | pool, main | crash or power failure between write, flush and rename; failures in the chain |
| Login broker `workbuddy/oauth-broker.ts`, `routes/oauth.ts` | `transactions`: sessions with status, deadline, timer, abort controller | start, status, cancel, poll (coroutine), finish, close, refresh | upstream, pool (`onComplete`) | cancel, deadline, late answer and shutdown racing; the session limit |
| Upstream client `workbuddy/client.ts` | attempts of a request | streamChatCompletion, attempt, parseStream, verifyCredential | pool, upstream | which errors rotate, refresh or end; nothing may be retried after the first delta |
| SSE parser `workbuddy/stream-parser.ts` | text buffer | push, finish | client | events cut anywhere by chunk boundaries |
| Credential formats `workbuddy/auth.ts`, `workbuddy/local-account-import.ts` | none | parse, validate, decrypt | admin, broker | formats only |
| Request mappers `workbuddy/request-mapper.ts`, `openai/responses-request-mapper.ts`, `anthropic/request-mapper.ts` | none | map a request | routes | pairing of tool calls and results |
| Model catalog `workbuddy/model-catalog.ts`, `routes/models.ts` | a table | load, resolve | routes | none |
| Response builders `openai/*-builder.ts`, `anthropic/response-builder.ts`, `openai/tool-calls.ts` | open blocks, indices, partial tool markup | start, delta, finish | routes | order and nesting of the events a client sees, markup cut by deltas |
| Routes `routes/chat-completions.ts`, `messages.ts`, `responses.ts`, `request-context.ts` | a request | handle, record, stream, error | all | one record per request on every path, disconnects, errors after headers |
| Rate limiter `security/rate-limit.ts` | per key: request times, token entries | check, recordTokens, describe, sweep | app hook, main | rolling windows and their boundaries; the sweep |
| API keys `security/api-keys.ts`, `downstream-auth.ts` | registry of records | create, update, remove, verify, touch, restore | app hook, admin, key store | revocation against persistence |
| Key stores `storage/index.ts`, `storage/postgres.ts` | a JSON file, or rows | load, save | main, admin | saves in flight together, crash during a save |
| Telemetry `observability/telemetry.ts`, `metrics.ts`, `storage/postgres.ts` | queue, rotated file, batch buffers, counters | request, pool, flush, read, rotate | routes, main | flush against an in-flight batch, rotation, shutdown |
| Migrations `storage/postgres.ts` | schema version | migrate | main | two instances at once |
| Wiring `main.ts`, `app.ts`, `config.ts` | none of its own | boot, event sink, key seeding, shutdown | all | what is saved when; the order of shutdown |
| Admin panel `routes/admin.ts`, `admin-html.ts` | none | CRUD over pool, keys, logins | pool, keys, broker | none of its own |
| Logging, redaction `observability/logger.ts`, `security/redact.ts` | none | text substitution | all | none |

What makes each part correct, in a sentence each: the pool never damages a newer
login with an older answer, spends a refresh token once, answers every waiting
request, serves accounts in turn, and what it stores catches up with what it
serves; the store is whole after any crash and never goes back; a login has one
outcome, inserts its account only while it is live, and ends; the client retries
only what the user has not seen; the limiter admits what the rolling window allows
and charges each request once; a revoked key stays revoked; a request leaves one
record; the client of a stream sees well-nested events; telemetry handed over
before shutdown is not lost.

## 2. Modules

| Module | Models | Status |
|---|---|---|
| `CredentialPool` | `workbuddy/credential-pool.ts`, the event sink and the boot load of `main.ts` | checked, safety proved |
| `OAuthBroker` | `workbuddy/oauth-broker.ts`, `routes/oauth.ts` | checked, safety proved |
| `DurableRegister` | the promise of `AccountStateStore` (`storage/types.ts`), abstract | used |
| `AccountStore` | `workbuddy/credential-store.ts` | checked, proved, implements `DurableRegister` |
| `ApiKeys` | `security/api-keys.ts`, the key handlers of `routes/admin.ts`, key seeding and `persistKeys` of `main.ts`, `FileApiKeyStore`, `PostgresApiKeyStore` | checked, proved where saves do not overlap |
| `Relay` | the hook of `app.ts`, `routes/chat-completions.ts`, `messages.ts`, `responses.ts`, `request-context.ts`, `workbuddy/client.ts` | checked, proved |
| `RateLimiter` | `security/rate-limit.ts` | checked, proved |
| `Telemetry` | `observability/telemetry.ts`, `PostgresTelemetryStore`, `shutdown` of `main.ts` | checked, safety proved |
| `Accounting` | composes `RateLimiter` and `Telemetry` as `app.ts` and `main.ts` do | checked, safety proved |
| `SseParser` | `workbuddy/stream-parser.ts` | checked, proved |
| `Builders` | `openai/response-builder.ts`, `tool-calls.ts`, `responses-builder.ts`, `emitChunk` of `routes/responses.ts`, `anthropic/response-builder.ts` | checked, proved |
| `Mappers` | `workbuddy/request-mapper.ts`, `openai/responses-request-mapper.ts`, `anthropic/request-mapper.ts` | checked, proved |
| `Exchange` | composes `SseParser`, `Builders` and `Mappers`: several turns of a conversation | checked, proved |
| `CredentialPoolProofs`, `OAuthBrokerProofs`, `AccountStoreProofs`, `ApiKeysProofs`, `RelayProofs`, `AccountingProofs`, `SseParserProofs`, `ExchangeProofs` | theorems | proved |
| `MC*` | constants of the runs | |

### CredentialPool

One account is one element of `states`. A step is one drained callback. A
refresh is a task in `tasks`: `RefreshAccount` is `refreshAccount` up to its
`await`, `RefreshAnswered` what follows it, with one action per way the code
after the `await` can go (removed meanwhile, replaced meanwhile, success, refused,
failed). Requests are `callers`; joining the shared promise is a caller that
waits for the task's identity, `Settle` resolves it for all.

The code compares object identities (`states.includes(state)`,
`credential === before`). The model names a state object `<<epoch, label>>`, the
epoch being the generation made by `restore()`, and a credential by its number;
`CredentialPoolProofs` proves what makes that sound, that a label names one
account.

`Wiring` selects who saves. `"sink"` is `main.ts:245-255`: every event hands a
snapshot to the account store, nobody waits. `"store"` is a pool that was given a
`CredentialStore` (the tests' wiring): add, remove, setStrategy and a successful
refresh wait for their save and undo themselves when it fails. `"memory"` is a
pool with neither. `InOrder` says whether saves are applied in the order they
were handed over: yes for the file store, whose queue `AccountStore` models, no
for Postgres, where each save takes a connection of its own; the runs take the
file store. The pool's `writes`
and `disk` are the `DurableRegister` that `AccountStore` implements, with Take and
Acknowledge in one step.

A credential is an import or a pasted token (no expiry, no refresh token), a web
session, or a renewable one. Time is `Tick`, which shortens every cooldown by
one, and `NearsExpiry`, which may let a credential come within a minute of its
expiry at any time. Abstracted: label text, notes, listings, token contents. The
refresher may answer with a credential of any user. `random` picks any available
account.

### OAuthBroker

One session is one element of `sessions`; the coroutine `poll` is its program
counter `at`, one value per `await` (state request, timer, token request, timer,
account request, account verification, insertion). `late` says the deadline has
passed, which the code reads from the clock in `ensureActive`; the expiry timer
may run any time after that. `waits` is TRUE when `onComplete` awaits a store
of the pool, FALSE in `main.ts`'s wiring.

### AccountStore, DurableRegister

`write()` is a program counter over its system calls. A file is named by the save
it came from and by how much of it is sure to be there: `partial`, `written`,
`synced`. `file` is what the process sees, `onDisk` what the directory on disk
says: the code flushes the file but never the directory, so a power failure may
undo a rename. `DurableRegister` is what the callers rely on, without files.

### ApiKeys

`records` and `admin` are the registry, `saves` the saves under way, each with a
program counter. `store.save(keys.list())` copies the list when it is called but
shares the record objects, so a save has its membership (`keys`) from the call and
reads the flags (`data`) when it writes. The file store's calls are one action
each (`OpenTemp`, `WriteTemp`, `RenameTemp`), and all saves share one temporary
name; two saves that hold the same file open overwrite each other, and a write
over another one may leave its tail (`Mixed`). The table store is its transaction:
`DELETE` waits for rows that others have locked, does not see rows inserted after
it began (READ COMMITTED), and `INSERT` fails on a committed row with the same key.
A row remembers the transaction that inserted it and the keys of its list.

`told` is what an administrator was last told of a key; it is "unsure" while a
change of that key is under way and after one that failed. `Limits` bounds how many
saves are under way at once. The code has no such limit: the properties about
answers are stated for deployments where saves do not overlap (`limit = 1`),
and those about the table for all.
A boot that cannot read the store continues with an empty registry (`blind`).
Only process crashes are modelled: the key file is never flushed, so after a
power failure nothing about it holds. The database server ends a dead process's
transactions before the next boot.

### Relay

One request. `at` is what its handler awaits: a credential, the headers of an
attempt, the pause before a retry, a refresh, the text of an error, a frame, its
client (`drain`, `closing`, `farewell`, the `writeEvent` of `messages.ts`). Each
way the code goes on from an `await` is an action; `Throw` is the catch block of
the route with the `finally` of `parseStream`. `try` is the reason of the last
attempt, from which the code decides what the next answer means. The three routes
differ in what they commit and when: a chat stream sends its status first, and
charges and records when the counts arrive; the others wait for a frame, require
`[DONE]`, and charge and record at the end. An answer of the upstream is a
sequence of frames, of which at most one has the token counts ("the usage-bearing
frame is the finish frame", `chat-completions.ts:204`), cut off anywhere by an end,
an error, silence or garbage. After the client has left, the flush of the SSE
parser may still hand over one frame (`Flushed`) or one that is cut (`protocol`).
Validation is one outcome, `Reject`. A body that is not JSON is refused by the
framework before the route, recorded nowhere, and not part of the model. Requests meet only in the pool, which
`CredentialPool` models, so one request is checked.

### RateLimiter, Telemetry, Accounting

One key, since keys share no state in the limiter. The clock is a number that
does not go backwards, and a second, a minute, an hour and a day are constants,
so that TLC can take days of six units. `times` is `requestTimes`, `hourly` the
token buckets; `log` and `spent` are the histories the properties compare them
with. `Admit` and the two refusals are the three ways through `check`, `End` is
`recordTokens` when an answer's counts arrive. The program has two limiters: the one
of `app.ts` is asked and never swept, `main.ts` sweeps another that only records;
`Sweep` is possible in every state, which covers both.

A record of the request log is named by its kind and the order of emission. The
file sink writes one record at a time (`RotateIfNeeded`, `Appended`,
`AppendFails`), the tables take batches, each of two inserts that may be under way
with others. `phase` is how far `shutdown` has come; a crash is possible
anywhere, tears the line being appended, and makes a query wholly or not at all.
`Accounting` is the hook and the recorder: an admission, a refusal (recorded at
once), an end (charged and recorded), a pool event, restart (limits forgotten,
history kept).

### SseParser, Builders, Mappers, Exchange

A text is a sequence of tokens, one per thing the parser looks for, so that a
chunk may end between any two of them, within a line end too. A builder is a record
holding what the code's builder holds and what a client has seen of the stream
(`view`, `items`). A chunk is any text with any frames of tool calls, as
`UpstreamChunk` says; in the run it has at most one piece of text or one frame.
Frames carry any part of a call: the id, the name, a piece of the arguments, or
none of these. A conversation is a sequence of messages as the schemas let them
pass, and `Mappers` says what the upstream gets and what is refused. `Exchange` puts
them together: `Ask` maps the conversation, `Chunk` feeds the builder, `End` makes
the answer, and `Return` appends that answer and the results of its calls to the
conversation, as a client with tools does. Messages and chat take the answer as it was
given; the strict schema of responses refuses the items it has sent (`ReturnAsGiven`,
a 400), so there `Return` is of a client that makes the items anew. What a streaming
client of chat has is what the upstream sent: a stream makes up neither a stop reason
nor arguments, as the answer in one piece does. The parser's texts are beside that: what
a frame says is abstract, so its chunks need not be parsed again.

The loops over tokens and frames are folds; nothing is `RECURSIVE`.

## 3. Runs

Each run asks one question of one instance. Bounds are constants named in the
modules; each is large enough that what the property is about happens, which the
mutants show: each property is violated, in the same instance, by a small
mistake in the code it is about (the definitions marked "slip").

| Run | Instance | Shows |
|---|---|---|
| `pool_served` | 2 users, 2 requests, 1 operator, 3 credentials, no store | identities stay distinct, a refresh token is in flight once, promises are set exactly while a refresh runs, every pick brings the others closer to their turn, a late answer touches nothing newer, waiters get the current credential |
| `pool_roster` | 3 users, 1 request, 3 credentials, main.ts's wiring, 2 pending saves | types and the cursor's range; a removal costs nobody their turn; the roster on disk equals the pool's once the saves have ended |
| `pool_live` | 1 user, 2 requests, store wiring, a failing save, a rollback, a restart, the whole API | with fairness every waiting request is answered; disk equals pool when idle |
| `login` | 2 browsers, 2 sessions, a pool that waits for its store or not | one login per browser, first outcome counts, no insertion after cancel, deadline or shutdown; pooled exactly if completed, completed only when stored; coroutines end |
| `store_file` | 4 saves, 2 faults, 2 crashes | never torn, acknowledged saves survive a crash, implements the register |
| `keys` | 2 keys, 4 saves, both stores, 1 failing call, 1 crash, at most 1 or 2 saves at once | without overlap what administrators were told survives crashes; with overlap the table never has a part of a list, never lists that share a key, and no save waits for ever |
| `relay` | all routes, streamed or not, 3 frames | every request is recorded and truthfully, charged once, never replayed, lets go of every answer, tells its client, and ends |
| `accounting` | a request limit of 2, a token quota of 3 with a request limit of 1, or none; 8 moments, 3 requests; 3 records to the file or the tables, 1 failing write, 1 restart | no window of a minute admits too many, the Retry-After of a refusal for requests is exact as far as that limit goes, the quota is rolling between 23 and 24 hours; every record is in one place, a drain writes what it promises, and ends once the traffic has stopped |
| `stream` | texts of up to 9 tokens; answers of up to 5 chunks in every order; conversations of up to 4 messages with 2 call ids | the parser's frames do not depend on the cuts; streamed and aggregated answers agree, of chat where the aggregate makes nothing up; accepted requests are led by a system message, and of messages and responses are ones the upstream takes; answers come back as acceptable history |
| `pool_refresh_not_saved` | violation | finding 1 |
| `keys_overlap` | violation | finding 2 |
| `relay_budget` | violation | finding 3 |

In `accounting` the limits and the log are varied apart (`SmallDeployments`),
because neither reads the other. `MaxLines` is 0: the file is rotated before
every append to a file that has something in it, so three records see two rotations.
A batch has two records of a kind, so three records make a full batch and a
partial one, and two batches under way at once. `MaxRecords` also says that the
traffic stops at some time, which `DrainEnds` needs. In `stream` `SmallBounds` lists the
shapes: a long text, a long answer, a long conversation, and one with two exchanges.
Five chunks are a call in three pieces, another call, and the end. Two call ids
are enough for a result to be missing, doubled, of the wrong call or out of order.

Two requests are enough for the pool's races: an interaction there is between the
request that started a refresh and one that joined it or found the account
changed. Three accounts are the smallest list in which an account can be before,
at and behind the cursor at once. Symmetry over users, requests and
operators is used where no liveness is checked. Three frames are one before the
counts, the counts and one after.

`CHECK_DEADLOCK FALSE` in every run: the bounds on credentials, saves and
sessions are guards, so a bounded instance may come to rest; the programs
themselves wait for requests.

**Fairness.** `pool_live`: each refresh is answered (`AbortSignal.timeout` bounds
each upstream request, `oauth-broker.ts:203-213`), saves end (finite I/O), and the
clock advances. Fairness is stated per refresh: with one condition for all of
them, a request that keeps refreshing one account could starve another.
Requests and operators are never fair. `login`: coroutine steps (bounded
requests and timers), deadlines, timers. Browsers and shutdown are not fair.
`relay`: the gateway
takes its next step when it can (each wait for the upstream has a timer, the pool
answers); the client need neither read nor leave, so `RequestsEnd` allows a request
to wait for it. `keys`: each save takes its next step when it can (a file or database call
returns, the server grants a free lock); administrators are not fair.
`accounting`: calls to the file system and the database return, with success or
not, and the flush timer fires; requests, the clock and shutdown are not fair, and
after `MaxRecords` records there are no more. Without that bound the code does not
keep the promise: see "Request log" below.

### Findings

1. A refreshed credential is not persisted under `main.ts`'s wiring.
   `refreshAccount` calls `persist()`, which does nothing without a store, and
   emits no event, so nothing is saved until another event. After a restart the
   pool serves the credential whose refresh token was spent.
2. Two saves of the key registry to a file that overlap share the temporary name:
   one may rename a file that the other has just truncated, and a crash then leaves
   a registry that reads as empty.
3. The signal that limits the time to the first byte (60 s) stays on the request and
   ends its stream: an answer that takes longer is cut off, and the idle limit
   (300 s) is out of reach.

Met while modelling, without a run of their own.

* Accounts: with Postgres, two saves of the event sink take a connection each and
  may be applied in either order, so an older roster can stay (`InOrder = FALSE`).
  `health().ready` counts an account whose credential has expired and cannot be
  refreshed, until a request finds out. Under `main.ts`'s wiring an addition is
  answered before it is stored (a crash then loses it); a boot that cannot load the
  accounts goes on with none and its next event saves that. In a pool with its own
  store, a rollback forgets refreshes in flight, so that the same refresh token
  may be sent twice (`TokenInFlightOnce` is checked and proved where no rollback happens); a
  login cancelled while that store is saving its account stays cancelled although
  the account is in the pool. When the upstream rotates a refresh token and the
  account check that follows fails, the rotated token is dropped
  (`oauth-broker.ts:125`).
* Keys: a gateway that could not read its keys at boot saves the empty registry
  over the stored one at the first use of a key; administrators' answers may be
  undone when saves overlap (`AnswersHold` of `ApiKeys` states what would hold
  otherwise).
* Requests: an HTML edge page that answers the attempt after a refresh quarantines
  the account, which the comment at `client.ts:123-126` excludes
  (`HtmlNeverBlames`); the recorded number of attempts is one too high
  (`AttemptsAreCounted`); a chat stream that fails after its token counts is
  recorded as a success, one whose body ends without `[DONE]` is completed, and one
  whose client left in the middle of a frame may be recorded as an upstream failure;
  `describe()` of the pool names the pool, so the account column of the request log
  never names an account.
* Limits: the token window is 23 to 24 hours long, because its buckets are hours
  (`QuotaIsRolling` says exactly that); the Retry-After of a spent quota is always
  one second (`rate-limit.ts:81-85` subtracts the clock from the number of an hour);
  a client that waited the Retry-After of the limit of requests may be refused for
  tokens that were reported meanwhile; the sweep never deletes a key that made a request, since only `check` filters
  `requestTimes`, although the comment at `rate-limit.ts:116` says otherwise; limits
  are forgotten at a restart.
* Request log: `flush()` of the file goes on while records come
  (`telemetry.ts:150-154`), and the app takes requests until the flush has ended
  (`main.ts:351` comes before 354), so under traffic that never pauses the drain, and
  the shutdown with it, has no end; records of requests that end after the drain
  (`main.ts:348-351`) are lost, and so are pool events of a batch whose requests are being inserted when the
  database closes; once the tables are `degraded`, what is in the buffers stays
  there; the first record after a crash is glued to a torn line and skipped by
  `read()`; the tables have no column for `key_prefix`, a field of
  `TelemetryRecord`, although `postgres.ts:36-38` says a missing column cannot
  happen.
* Streams: `tool-calls.ts:3-5` calls itself the single implementation for every
  route, but messages and responses have their own, and they differ: responses
  refuses empty arguments and accepts JSON that is not an object, the others take
  no arguments as `{}` and require an object. A chat answer streamed and the same
  answer in one piece differ where the upstream left something out, which
  `tool-calls.ts:18-20` calls impossible (`ToolCallsNeverDrift`, false): the one in
  one piece gives a call without arguments `{}` (`tool-calls.ts:127`) and makes up a
  stop reason (`response-builder.ts:180`), a streaming client is left with empty
  arguments, which are no JSON, and no stop reason. `StreamsAgree` says what the stream
  has instead, and that the two agree otherwise. A chat stream passes on arguments cut
  short and drops a name that comes in a frame without an id, and `StreamsAgree`
  therefore assumes of chat what `response-builder.ts:97` says of the upstream. A
  name that comes late is dropped where `tool-calls.ts:69-71` says it replaces. A frame
  with nothing but an index makes the aggregated chat answer fail and the streamed
  one ignore it. In responses, output indices collide when text begins after a
  call or indices have gaps, item ids of the events and of `response.completed`
  differ, two calls may have one id though the next request must not, and the strict
  schema refuses the items it has sent unless the client strips `id`, `status`,
  `annotations` and `logprobs`. An empty answer of messages cannot be returned. The
  parser does not take two carriage returns as a boundary, and does not flush its
  text decoder.

## 4. Proofs

All for every value of the constants (any number of users, requests, operators,
browsers, keys and overlapping saves, any bounds, any wiring), from the named
assumptions on the constants; where a theorem needs more, it says so.

* `CredentialPoolProofs!TypeCorrect`: `Spec => []TypeOK`, including that the
  cursor points into the list. `TypeOK` is inductive; the proof has one lemma per
  action, over lemmas about `Without` (splice), `Roster` (snapshot), `Restored`
  (restore) and `Cooldown` (positive, capped, never shrinking). `NobodyIsStarved`
  (`PicksAdvanceTheTurn`) and `RemovalKeepsTheTurn` (`RemoveKeepsTheTurn`) are
  action properties that follow from it: a pick takes the first available account
  from the cursor on and puts the cursor behind it.
* `CredentialPoolProofs!AccountsAreDistinct`: `Spec => []DistinctAccounts`.
  Not inductive: a refresh writes a credential of the task's user into the
  account it finds by identity. The strengthening `IInv` adds that a task's
  identity is of the past (`Known`: epoch not in the future, label below
  `nextLabel`) and that the account it finds, if any, has the task's user. Most
  actions keep every account in its place (`SameMembers`); only addition,
  removal, rollback and restart do not, and a rollback opens a new epoch in which
  no running task finds an account. From `IInv` also `RosterReachesTheDisk`
  (`RosterStored`, assuming `Wiring # "memory"` and `InOrder`: there is a store and
  it is the file) and `CredentialsReachTheDisk` (`CredentialsStored`, for a pool with
  its own file store; under `main.ts`'s wiring it is false, section 3). Every step
  hands over a save, changes no member, applies the first save, fails one or
  restarts (`Orderly`), so the last save under way always has the pool's members.
* `CredentialPoolProofs`, second part: `RefreshesAreOwned` (`RefreshOwned`),
  `OneRefreshPerAccount`, `LateAnswersAreHarmless` (`LateRefreshIsHarmless`),
  `AnswersAreCurrent` (`WaitersGetTheCurrentCredential`) and `TokensAreSentOnce`
  (`TokenInFlightOnce`). `RefreshOwned` is inductive only with "two tasks never
  have one identity" (`RInv`), since a flag is cleared by identity.
  `AnswersAreCurrent` assumes `Wiring # "store"`, as `main.ts` has it: in a pool
  with its own store a refresh is answered after a save, and what happens to the
  account during the save comes in between. `TokensAreSentOnce` assumes
  `MaxEpochs = 0`, that is no rollback, without which it is false (section 3). Its
  invariant `TInv` says that a credential belongs to one account, or to the refresh
  that took it and found its account gone or changed, and that what waits to be
  saved has every credential once.
* `OAuthBrokerProofs`: `OneLogin` (`OneLoginPerOwner`), `PoolAgreesWithBrowsers`
  (`PooledIffCompleted`), `FirstOutcomeStands` (`OutcomeIsFinal`) and
  `InsertionInTime` (`NoLateInsertion`). The invariant adds `Savings`: a login that
  is shown as completed has no coroutine left, one whose insertion is being saved
  is in a pool with a store, and the account list is awaited only after the
  account was received. Every step but `Start` and `Close` moves one session
  (`Advance`); the moves that do not touch the pool (`Ordinary`) are dealt with
  together, insertion, its save and its undoing one by one.
* `AccountStoreProofs`: `StoreIsWhole` (`NeverTorn`), `ResolvedSurvives`
  (`AcknowledgedSurvives`), `StoreOnlyAdvances` (`NeverGoesBack`) and
  `StoreIsARegister` (`ImplementsRegister`, step by step). The invariant says
  that the queue is ascending and behind the file (`Chained`) and what `write()`
  has in its temporary file at each step (`WriterAt`).
* `ApiKeysProofs`: `KeysTypeCorrect` (`TypeOK`, for any number of overlapping saves),
  `RevocationsAreKept` (`RevocationsHold`) and `IssuedKeysKeepWorking`
  (`IssuedKeysWork`). The primary key of the table holds because transactions that
  have inserted have no key in common with each other or with rows they leave
  (`Apart`). What operators were told holds where `limit` is 1, because the
  save under way then carries the registry as it is (`Current`): the store changes
  only when a save lands, and then to what `verify()` says. Registry, store and the
  answer of each operator are tied by `Promised`. `TableIsNeverHalfApplied`
  (`NeverHalfApplied`) holds for any number of overlapping transactions: a
  transaction deletes all rows it can see or none, so rows of one list come and go
  together, and one that inserts a key of a list it did not see fails.
* `RelayProofs`: `RecordIsTrue`, `ConnectionsReleased`, `OneCharge`, `NoReplay`,
  `LeavingNoFailure`, `ClientIsTold`, for any routes and any number of frames, from
  `RoutesAreKnown` and `FramesAreCounted`. The invariant `IInv` says how many
  attempts each reason for one leaves (`Counting`), what can have been read at
  each point (`Progress`) and when a request is recorded and charged (`Outcome`:
  before its end only a chat stream whose counts have arrived). `ThrowKeeps` deals
  with every error at once.
* `AccountingProofs!RateIsLimited`: `Spec => []WindowRespected`. The list that the
  limiter keeps is the end of the history of admissions, that history is in order of
  time, and what was dropped from the list is a minute old; so of two requests
  that are `limit` apart the earlier was dropped when the later was admitted.
  `RetryAfterIsExact` (`RetryIsExact`, which is about the limit of requests alone): the
  list is never longer than the limit, so
  a refusal finds it full and nothing in it to drop, and its first element decides;
  `RoundsUp` is `Math.ceil` over `\div`.

  `QuotaIsKept` (`QuotaIsRolling`): a bucket that is kept has what was spent in its
  hour, and one that was dropped is of an hour that began a day ago or earlier
  (`Booked`), so the limiter's total lies between the sums of the last 23 and the last
  24 hours. The rest is about sums: the fold of the community modules is shown to
  agree with a table of partial sums (`SumByTable`), sets are taken apart one
  element at a time (`SetInduction`, the library's finite-set induction for a set of
  sets, which needs no operator as a parameter), and from that sums split
  (`SumUnion`), grow (`SumMonotone`) and may be taken by parts (`SumByParts`).
* `AccountingProofs`, second part: `RecordsAreAccountedFor` (`AccountedFor`) and
  `DrainLosesNothing` (`DrainIsComplete`), for every backend, any sizes and any
  number of flushes under way. The invariant `TInv` says that all records have
  numbers up to `emitted` (`Counted`), that no list has a record twice (`Once`),
  that queue, files, buffers, batches and losses are pairwise apart (`FileApart`,
  `TablesApart`) and that rotated file, file and queue ascend (`Ordered`). For the
  drain, `DInv` adds whose loss this process has caused as long as no write failed:
  the one record that a torn line takes (`FileDrained`), and, of the tables, events
  and what was emitted after the shutdown began (`TablesDrained`).
* `ExchangeProofs`: `StreamedOrNot` (`StreamsAgree`), `AcceptedIsSound`
  (`RequestsAreSound`), `AnswersAreHistory` (`AnswersCanBeReturned`) and
  `TextBecomesEvents` (`FramesAreTheEvents`, below), for any
  ids, any chunks of `UpstreamChunk`, so any number of frames in one, and any bounds,
  from `IdsAreIds` ("" is no id), `ChunksAreChunks` and `BoundsAreKnown`. The model
  is made of folds, and the library has no induction for them that needs no operator
  as a parameter: the first part of `SseParserProofs`, which `ExchangeProofs` extends,
  shows that a fold is computed by a table and hence in steps (`FoldSteps`,
  `FoldOfConcat`), and gives induction over sequences for a set of sequences
  (`SeqInduction`).

  The mappers: after each message that is not refused, what the upstream's rule
  (`Taken`) has seen of the mapped messages is what the mapper remembers, the calls
  made and the calls pending (`Agrees`), so what the mapper checks of the client's
  messages holds of the upstream's.

  The builders: of chat, a streaming client has the builder's calls as soon as all of
  them have ids (`Mirrors`), if only first frames tell id and name, and the answer in
  one piece is the same if that has nothing to add (`ChatAgree`). Of messages every
  block is the text or belongs to one call; until the end the block of a call
  has its id and name, and the client's block its arguments so far too (`Shown`).
  The loop of `finish()` then fills one block after the other (`Concluding`), and as
  the ids differ no two blocks have one (`OwnBlocks`). Of responses, if frames come in
  order, call `k` has index `k - 1` and the item after the text (`Ordered`), so
  sorting by index changes nothing (`SortedNumbered`); otherwise ranks differ because
  indices do (`RanksDiffer`).

  An answer is history: it consists of words and calls, whose ids are new and
  differ, so `MessagesReturned` and `ItemsAreReturned` take it and the results step by
  step. The mapper of chat refuses nothing, so there the theorem is about what it
  passes on: the ids differ because the builder insists on it (`CallsAreSaid`), so each
  result closes one call and at the end none is open (`ChatTurnTaken`).
  `ExchangeInv` says this of a state: the builder is as its
  lemma says, an answer that is given has succeeded, and a request under way was
  accepted.
* `SseParserProofs`, second part, to `TextBecomesEvents`: for a text of any tokens
  (any strings, so any lines, with data or without) and any length, handed over in
  chunks of any size. `FrameBoundary` is the first of the boundaries
  (`FirstBoundary`), so a block has none (`InThree`), hence no line feed followed by a
  line end (`Calm`). The standard, reading such a text from an idle state, dispatches
  nothing, and its lines and data lines are those that `parseBlock` splits off
  (`ReadCalm`, by induction over the text; `ReadBlock`). Each of the five blanks then
  ends the event and leaves an idle state again (`BlankEnds`), so a turn of the loop
  of `push` reads up to an event (`NextReads`, `LoopTurns`) and the loop, every
  turn of which takes a token or more, leaves no boundary (`LoopEnds`). The
  invariant `ParserInv` says that what has been handed over is a text ending in an
  idle state, which the frames have said, and the buffer, which has no boundary;
  `flush` says the rest (`RestIsRead`). What the upstream must not send, two carriage
  returns in a row (the guard of `Send`), is where it is needed: their blank line
  ends an event that the parser would hold back (`NoTwoReturns`).

Only model-checked:

* Liveness (`WaitersAreAnswered`, `LoginsEnd`, `RequestsAreAnswered`, `RequestsEnd`,
  `DrainEnds`): the prover has no rule for fairness and `ENABLED`.
* Properties for which a theorem needs more than the run: see the assumptions
  named above (`AnswersAreCurrent`, `TokensAreSentOnce`, `RevocationsAreKept`,
  `IssuedKeysKeepWorking`).

## 5. Plan

Done: the pool, the broker, the account store, the keys with their stores, a
request from admission to its record, limits and request log, the exchange of a
client with the upstream.

Next, in this order: the upstream's rotation of refresh tokens beside `OAuthBroker`
and `CredentialPool`, and Postgres with a bounded number of connections.

The runs stay few: a new property joins the run whose instance it needs.

## 6. Not modelled, and why

* The admin page is static text and its handlers only call operations modelled
  elsewhere; comparing the admin token is comparing strings.
* Credential formats, local import, key derivation and encryption are functions of
  text without state.
* Logging, redaction and the tool trace do not feed back.
* The model catalog is a table read once.
* `metrics.ts` counts and reports, the queries over the request log only read.
  (The p95 of a few samples is their maximum.)
* Migrations are serialised by the database's advisory lock and made whole by its
  transactions: a model would state what the database promises.
* Waiting for one of the five Postgres connections delays a statement, as a slow
  database does.
* Scalar parameters of requests, prompts, reasoning text, random ids and the wording
  of errors are copied or invented, never decided upon.
* Packaging files hold no logic.
