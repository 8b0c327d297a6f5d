# A TLA+ verification of DazeAPI

DazeAPI is a gateway in front of LLM providers, written in Go (`src/`, about
72 000 lines of Go, a React console and a few helpers). A client's request is
authenticated, pre-charged, sent to one of several upstream *channels*, retried on
others when it fails, and settled or refunded. What can really go wrong is in the
bookkeeping around that: money that is kept in two databases, a memory batch and a
cache; tasks that end minutes later on another path; channels that are disabled and
enabled by many goroutines at once. That is the first half of what is modelled here.
The second half is the React console and the desktop shell: pages that show what the
server had a moment ago, while answers come late, out of order or not at all, and whose
next save writes back what is on screen.

## The system

Layers: `router` → `middleware` → `controller` → `service` → `model`, with `relay/`
for the provider adapters, `setting/` and `common/` below. State is in PostgreSQL,
in Redis, and in the memory of each node.

| Component | State | Operations | Hard because | Correct when |
|---|---|---|---|---|
| Billing session (`service/billing_session.go`, `controller/relay.go`) | estimate, amounts taken, settled / refunded flags | open, pre-consume, settle, refund | wallet and token are charged by separate statements; a panic or a failure in between; refund in a goroutine | never both settled and refunded, never overcharged, exact books |
| User quota (`model/user.go`, `user_cache.go`, `utils.go`) | row, batch stores per node, Redis hash | increase, decrease, flush, rebuild, top-up, edit | check-then-act between database, memory and Redis; several nodes; crashes | each change is counted once, the cache converges |
| Top-up orders (`controller/topup*.go`, `model/topup.go`) | order row, mutex per order | insert, notify, query, complete by hand | redelivered notifications, an ineffective row lock, mutexes that come and go | credited once, locks exclude and are dropped |
| Asynchronous tasks (`service/task_polling.go`, `task_billing.go`, `relay/relay_task.go`) | task row, amounts charged | submit, poll, sweep, real-time fetch | results applied to rows read earlier; two pollers; crash between refund and save | billed for the outcome, refunded at most once, every task ends |
| Channel status (`model/channel.go`, `channel_cache.go`, `ability.go`) | row, abilities, memory cache, mutex per channel | disable, enable, test, edit, sync | three copies written by separate statements; a mutex locked twice | copies agree at rest, calls return, manual decisions stay |
| Channel selection (`service/channel_select.go`, `middleware/distributor.go`) | retry counter, group index, reset flag | distribute, select, retry | state carried across calls in the request's context | bounded attempts, every priority tried, no going back |
| Stream scanner (`relay/helper/stream_scanner.go`) | data buffer, stop tokens, wait group | scan, handle, ping, time out, return | four goroutines that end through one channel; a client that leaves, an upstream that is silent | the stream is read and handled to its end, nobody stays behind |
| Rate limits (`common/rate-limit.go`, `middleware/rate-limit.go`, `model-rate-limit.go`, `rate_limit.lua`) | queue, Redis list, token bucket | check, record, expire | check and record are separate commands | a window has a bound, nobody is refused early |
| Provider updates (`controller/channel_upstream_update.go`, its hook and dialog) | detected, removed and ignored models in the settings, abilities | check, apply, auto-sync, edit | settings are read, the provider is asked, and the settings are written back whole | decisions stay, redirects are left alone, routes follow |
| Keys of a channel (`ManageMultiKeys`, `MultiKeyManageModal.jsx`) | key list, statuses by index | list, add, replace, enable, disable, delete | indices shift under requests in flight | a status stays with its key |
| Console tables (six hooks, `helpers/api.js`) | rows, page, query, spinner | search, turn pages, act on rows | requests overlap, GETs are shared | the rows are what was asked for last |
| Settings forms, price editors, edit dialogs, override rules (`pages/Setting`, `table/*/modals`, `ParamOverrideEditor.jsx`) | what was loaded, what was typed | load, edit, save, reload | a form keeps a copy; a save writes it back | saved means stored; nothing else changes |
| Sessions in tabs (`LoginForm.jsx`, `NavBar.jsx`, `PageLayout.jsx`, `middleware/auth.go`) | cookie, localStorage, header and context of each tab | sign in, sign out, reload, refresh | four copies of "who am I" | a tab acts as the user it shows |
| Test dialog, Alipay dialog, Clawd chat (`useChannelTest.js`, `AlipayQRModal.jsx`, `ClawdChatPanel.jsx`, `controller/clawd.go`) | loops of awaits, timers, a stream | start, stop, close, reopen | what was closed still has an answer coming | the screen is true, nothing waits for ever |
| Desktop shell (`electron/main.js`) | child process, window, timers | start, probe, crash, quit | callbacks in any order | no server is left behind, start and quit end |

How they meet: `Relay` opens a billing session, asks channel selection for a channel
on every attempt, reports a failed channel to channel status
(`processChannelError`), and settles or refunds. The session's charges are calls of
`DecreaseUserQuota` / `IncreaseUserQuota`, so they go through the batch stores and
Redis. `RelayTask` settles like any request and leaves a task row; the poller of the
master node takes it from there and refunds through the same user-quota functions. A
completed top-up credits the row directly and then Redis. Task polling looks channels
up in the channel cache: an empty cache fails all its tasks.

The console talks to the same handlers by HTTP. Its pages share a cookie, localStorage
and the API instance of `helpers/api.js`, which lets equal GETs in flight share one
request; otherwise a page keeps its own copies of what it loaded.

`PROJECT.json` lists all components, those left out too, with the reasons, and every
hazard at its line.

## Modules

Each `X.tla` is a component's specification; `MCX.tla` holds the constants of its
small instances; `X_run.cfg` is a run; `XProofs.tla` holds the theorems. `MCPages` and
`MCWaiting` put several small components into one run (below), `PagesProofs` and
`WaitingProofs` are about these. A definition
with a suffix after an underscore (`SaveRow_UnlocksFirst`) is a seeded bug: the form
that the definition of the same name is replaced by to see a property fail.

### BillingSession

One action per step of `Relay` and `BillingSession` for each request: `Accept`,
`OpenSession` (balance check), `CheckToken`, `TakeToken`, `TakeWallet`,
`RollbackToken`, `AttemptSucceeds` / `AttemptRetried` / `AttemptFails`,
`SettleNothing` / `SettleWallet` / `SettleToken`, `Answer`, `HandlerPanics`,
`Refund` and the goroutine's `RefundWallet` and `RefundToken`. `par` are the
request's properties (estimate, playground, free, trusted), `consumed`,
`tokenConsumed`, `settled`, `fundingSettled` and `refunded` the fields of the
session. `walletNet` and `tokenNet` are history variables: what the request has cost
each balance. A statement that fails sets `faulty`.

### UserQuota

One user. An adjustment (`Op`) is a name, not an amount: `db` and `cached` are
functions that say how often each adjustment is counted in the row and in the Redis
hash, so that "counted twice" and "lost" can be told from coincidences of sums.
`pending` and `flight` are a node's batch store and the store that `batchUpdate` has
swapped out. `GetCache`, `LoadRow`, `FoldPending`, `FillCache` are the steps of a
rebuild; the Lua script of `RedisHIncrByIfComplete` is one step. `applied` and `lost`
are history: what was recorded somewhere, and what is in no store any more.
`Start`/`IncrCache`/`Record` are a charge; `CommitTopUp`, `ReadRow`/`SaveRow`
(`TransferAffQuotaToQuota`), `ReloadRow` (`Edit`) the other writers.

### TopUp

`InsertOrder`, `GatewayAccepts`, `GatewayRefuses`, `SaveOrder` are a buyer's call;
`Notify`, `AlipayTopUpStatus`, `AdminCompleteTopUp` start the calls that complete an
order, `GetTopUp`, `AskGateway`, `ReadOrder`, `CommitTopUp` are their database and
gateway steps, and `ReferMutex`, `AcquireMutex`, `LoadMutex`, `ReleaseMutex`,
`UnrefMutex` are `LockOrder` and `UnlockOrder`. What happens under `createLock` is one
step. A mutex object is named after the call that allocated it. The two updates and
the commit of the completing transaction are one step (the first locks the row), its
read is a step of its own, because gorm v2 ignores `gorm:query_option`. A crash loses a
node's calls (`at` is `lost`) and its mutexes.

`OrderMutex` is the abstract specification of `LockOrder` and `UnlockOrder`: a call asks,
enters alone, leaves, or dies with its node. `TopUp` implements it (`ImplementsMutex`,
with the refinement mapping at the end of `TopUp`), liveness included: who waits gets in.

### TaskBilling

The master's loop as `ListTimedOut`, `SweepTask`, `ListUnfinished`, `BulkFail`,
`FetchTask` / `FetchFails`, `ApplyVideo`, `RefundSuno`, `SaveSuno`, `EndRound`; a
client's look at a task as `ReadTask`, `ApplyRealtime`; submission as `Submit`,
`InsertTask`; the money as `AdjustFunding` then `AdjustToken`. `seen` is what a
process read, and the database is compared with it where the code uses the CAS
(`UpdateWithStatus`) and not where it uses `Update`. `CacheGetChannel` may fail for any
channel (`MayMiss`): it was deleted, is not in this node's cache yet, or cannot be read.
Then `BulkFail` ends the tasks of the round. `faulty` and `dropped` are history: an
adjustment for the task failed or died half-way; the task was given up by `BulkFail`. A provider's answer is its
status and whether it names a failure reason. Progress percentages are left out: they
follow the status, except for an upstream that reports 100 % before it is done.

### ChannelStatus

`row`, `ability`, `cache` and `routable` are the three copies; `lock` the mutexes of
`GetChannelPollingLock`. `LockChannel`, `CheckCache`, `MarkCache`, `LoadRow`,
`RelockChannel`, `SaveRow`, `UpdateAbility` are `UpdateChannelStatus`; `RequestFailed`,
`ListChannel`/`TestChannel`, `ManageKey`.., `TagRows`, `EditChannel`.. its callers and
the administrators; `FindRows`, `SwapCache` are `InitChannelCache`; `PickChannel`,
`TakeKey` a request, with the key list that polling mode writes back when there is no
memory cache.

### ChannelSelect

One request: `Distribute`, `DistributePreferred` (affinity), `DistributeNone`, then
`Select` / `SelectNone` per retry and the outcomes `Answered`, `FailsForGood`,
`Fails`. `retry`, `idx` and `reset` are `RetryParam` and the context's group index.
`mapRetryToPriorityIndex` is translated as an operator. `avail` says which priorities
have a channel; `Change` lets it vary. `token` is the kind of token: one named group,
"auto", or "auto" with cross-group retry. `log` records the attempts for as long as
nothing interfered (`steady`). Which channel of a priority is drawn does not matter and
is left out.

### StreamScanner

`StreamScannerHandler` with its goroutines: `Main` (the loop that waits for a token, the
timeout or the client, then the deferred shutdown), the scanner (`ScanLine`, `Check`,
`Send`, `ScanEnds`, `ScannerExits`), `Handler`, and the pinger with its short-lived
writers. `tokens` is the channel of three stop tokens, `buffer` the data channel,
`received` and `handled` count lines. A timer may fire at any moment.

### RateLimit

One key and several requests at once. `MemoryRequest` is the in-memory limiter under its
mutex, `ClearExpiredItems` its sweep. `ReadLength`, `ReadOldest`, `Compare`, `Push`,
`Trim`, `Expire` are the Redis commands of the limiters on a list, each a step; for the
limit on successful model requests `Serve` lies between check and record. `Allow` is the
Lua script of the token bucket. Time is in units of the seconds that are compared, and
the commands of one check take less than a unit. `passed` is history.

### UpstreamUpdates, MultiKeys

The server's operations over a channel row, each as its read, its wait and its write, and
the dialog in front of them. In UpstreamUpdates an operation is a check by hand, an
apply, the same for all channels, the periodic task, or the edit dialog (`Kind`). The write
of the row and the transaction of the routes may fail (`StatementFails`; `behind` are the
channels whose last change of routes did), and the browser may lose a request at any moment
while the server goes on with it (`RequestFails`); what is left out is a second request of
the same kind beside the lost one. In MultiKeys a key is found by its index at the time of
the write, and most indices are checked against `MultiKeySize`, which the status of a failed
key saves as it was read (`size`). The page and the filter of the dialog only hide rows, each
of which keeps its index, and are left out.

### ConsoleTable

Six hooks as one machine: `table` says which, and small operators (`Applies`,
`TurnsOff`, `PageTasks`...) say how they differ: whether requests are numbered, who
clears a spinner, what a refused answer does. Rows are represented by the query that
fetched them and the version of the data that was read. `wire` holds the requests, which
equal GETs share.

### SettingsCatalog, SettingsForm

The catalogue describes each form by what tells it apart (does it check answers, have a
secret, validate, send all fields). SettingsForm runs one or two of them on a page with
the shared load: `Edit`, `OnSubmit`, one PUT per changed field (`updateArray`, `UpdateOption`,
`PutAnswered`, `PutFails`, `LateAnswer`), the reload (`GetOptions`, `OptionsArrive`). The
server has the table (`database`) and `OptionMap` (`option`), which is what it works with and
answers with. `UpdateOption` ignores the errors of the table, and refuses a value that does
not parse only after it has stored it. `SyncReads` and `SyncWrites` are the loop that puts
the rows it read into `OptionMap`, one by one. Failed requests, failed statements and rounds
of the loop are counted together (`MaxFaults`).

### EditDialog

The token, user, tag and channel dialogs: `Open`, `LoadArrives`, `Submit` with its
confirmations, `ServerStores`, `Saved`, `FetchModels`, `Close` and the timer behind it.
A form is one value that remembers the record it came from.

### ModelPricing, PricingEditor

ModelPricing is the data: an entry of the option `ModelPrice`, with missing fields told
from zero, the cache prices, which a tier has too, told from the image and audio prices,
which only the entry has, and what the relay charges for it (`Charge`). The audio prices that
the server adds to an entry without any (`setting/pricing/pricing.go:110`) are left out. PricingEditor has the conversions between an entry, a row of the visual
editor and what the server charges, both editors' operations, merges whose conflicts are
asked about in the order of the names (`Sorted`), and saving and reloading.

### ParamOverride, RuleEditor

ParamOverride has the conversions between stored override, rules and lines; RuleEditor
the dialog with its two views. Each operation carries where it came from (`origin`), so
that "nobody touched it" can be said.

### BrowserTabs

Cookie, localStorage, and per tab the header and the shown user; requests are answered
with the cookie of the moment they arrive (`AuthHelper`), and every answer may come after
a sign-in or sign-out.

### DesktopShell, ChannelTest, AlipayQR, ClawdChat

One step is one callback of an event loop. DesktopShell has the server process and the
dialogs, and a probe is answered by whatever has the port (`Connected`); ChannelTest the
batch loop with its waves; AlipayQR the dialog's orders and timers (its server side is
TopUp), where a QR code is on screen whenever there is an order (`Shown`), whatever `step`
says, and is polled only at step "qrcode"; ClawdChat the stream reader, the mascot, the relay in
`controller/clawd.go` and, as external, the agent.

### MCPages and MCWaiting

The small components share no state. A run per component would be more runs than anyone
waits for, so two modules hold them side by side: `part` is chosen in the initial state,
only that component steps, the others stay in one fixed initial state. `Of...(A)` is a
step of a part, `On(p, P)` a property of a part. A property of these runs is the
conjunction of the same kind of property of each part; each of the larger ones has
several seeded bugs, one per component and kind.

The server's components are not composed into one module: their interfaces are narrow (a
charge, a status change), each module contains the other side's effect as its
environment, and a product would be out of TLC's reach.

## Runs

Eight runs pass:

| Run | Shows | Bounds |
|---|---|---|
| `BillingSession_session` | `SettledOrRefunded`, `NeverOvercharged`, `AccountedExactly`, `OverdraftBounded`, `RefundArrives`, types | two requests on one wallet and one token of 3; estimates 2 and 4, charges 0 and 3, one retry; failing statements, panics, a crash |
| `UserQuota_quota` | `AppliedOnce`, `CacheCountsOnce`, `CacheConverges`, types | two nodes; four workloads of four goroutines each, out of two batched and one direct charge, a top-up, a transfer, a reader, an editor, a whole-row writer; failures, crashes |
| `TaskBilling_tasks` | `NeverOverRefunded`, `FinalBill`, `FinalStays`, `TasksEnd` | one video task of quota 2 with completion charges 0, 1, 3, two pollers, a `CacheGetChannel` that may fail, failures, crashes; or a song of quota 2 and a free Gemini video, one poller, one fetching client |
| `ChannelStatus_sites` | `RoutableEnabled`, `AbilitiesMatch`, `CallsReturn`, `CacheFollows` | a single-key channel with the memory cache: a failure, a test and a key manager, or a failure and a tag edit with failing statements and a test; a channel with two keys in polling mode without it: a failure, a request, and a key manager or an editor; the ticker |
| `ChannelSelect_retries` | `AttemptsBounded`, `NeverClimbs`, `GivesUpLast`, `ExhaustsBeforeMoving` | the three kinds of token, three groups, three priority levels, `RetryTimes` = 2, channels that come and go, a preferred channel |
| `TopUp_orders` | `MutualExclusion`, `EntryInUse`, `CreditedOnce`, `PaidCredited`, `ImplementsMutex`, types | one node; an epay order with two notices and an administrator, an Alipay order with a query; failing calls, crashes |
| `Waiting_parts` | `ScreensTrue`, `StreamComplete`, `LimitsHold`, `WaitsEnd`, types | the parts of MCWaiting: three probes; three models in waves of two, two batches; three orders; two questions, two sessions, two pieces; three lines with a buffer of one; two requests, a limit of 2 in 2 units, 4 instants |
| `Pages_forms` | `RowsCurrent`, `SpinnersEnd`, `FormsMatchServer`, `KeysListed`, `SavesFaithful`, `StatusFollowsKey`, types | the parts of MCPages: two pages and sizes, three calls, one row action; seven settings forms that between them have each behaviour of the catalogue, and one pair in a section, two edits, two saves and one fault; two keys and a new one, three operations, one failure; two records, three uses of a dialog; two models and four price catalogues (an input price only, per second, tiers, tiers with image prices); two channels, two operations (the dialogs of the keys and of the updates are left alone once nothing more can be sent); two tabs, two users, four clicks; eight stored overrides, two changes |

What the properties mean, beside their comments in the modules:

- `FinalBill` and `RefundArrives` are conditional on no failed statement (`faulty`) and
  no crash of the process that owes the money: the code does not write down what it
  owes, so nothing can be promised there. `FinalBill` says nothing of a task that was given
  up because its channel was not found (`dropped`), and `FinalStays` lets that overwrite a
  success by a failure, for the code does both, also when the channel exists. The same runs contain those failures, and
  `NeverOvercharged`, `NeverOverRefunded` and `SettledOrRefunded` hold in spite of them.
- `AbilitiesMatch` is about the writers that take the channel's lock, which they do only
  with the memory cache on: it says nothing once a tag edit, a channel edit or a failing
  statement has been under way.
- `ExhaustsBeforeMoving` and `GivesUpLast` hold for groups that have no more priorities
  than tries (`EnoughTries`) and channels that stay as they are (`steady`);
  `GivesUpLast` also needs retries to be switched on. `AttemptsBounded` needs none of it.
- `PaidCredited` is about notices whose own statements succeed.
- The properties of the console hold for what the code does guarantee. Where it knowingly
  or unknowingly gives a guarantee up, a history variable remembers the event (`crossed`,
  `stale`, `lost`, `ghost`, `blind`...) and the property excuses exactly that; "Other
  observations" lists the events.
- `LimitsHold`: the in-memory limiter lets exactly its limit through in any window. The
  limiters on a Redis list check and record in separate commands: the other requests served
  at the same time may all pass before the first is in the list, and once more while the
  list is too long, so the bound is the limit and twice their number. The token bucket may
  be full when a
  window begins and is refilled meanwhile: twice the limit less one. And no limiter
  refuses while fewer than the limit have passed in the window that ends now.
- `StreamComplete` says that without a refusal or a timeout the whole upstream is read and
  handled before the call returns, with the client or without it; the second half of
  `WaitsEnd` says that the call returns and leaves no goroutine, also with an upstream
  that is silent for ever.

Why the bounds are enough: every hazard named for these components is a race of two
actors, at most three for a mutex whose entry is deleted under a third caller, so two
or three processes of each kind, one channel or task (two where they interact through
one poller) and amounts on both sides of the balance reach it. `Workload` chooses in the
initial state which goroutines exist, so that one run covers several combinations
without their product; `Flaky` names those whose statements may fail. Three groups are
the least in which a group can be skipped between two others. Every property of a
passing run is also seen to fail for a seeded bug under the same bounds. For the console
two records, tabs or keys are the least for a mix-up, and three calls the least for two
answers to overtake each other and a third to repair it. Larger bounds were checked one
part at a time: five clicks in the tabs, three changes of the rules, six instants of the
rate limits.

Four runs show a violation. Each checks one statement that a comment or a test of the
repository makes about the program:

| Run | Says | What TLC shows |
|---|---|---|
| `UserQuota_rebuild` | `model/user_cache.go:119`: pending deltas are folded in so that a cache miss does not "drop an in-flight pre-consume" | a charge increments the hash, which expires; a reader loads row and deltas before the charge is recorded and fills the hash after it; the cached balance misses the charge |
| `TaskBilling_reopened` | `service/task_billing_test.go:459`: "no double refund" | a real-time fetch turns a task that the sweep failed and refunded back to IN_PROGRESS; its next failure is refunded again |
| `ChannelStatus_relock` | `model/channel.go:628`: "Protect map writes with the same per-channel lock used by readers" | `UpdateChannelStatus` already holds that lock when the memory cache is on, waits for itself, and requests for the channel wait behind it |
| `TopUp_alipay` | `controller/topup_alipay.go:125`: crediting is idempotent (幂等) | the Alipay notice and the buyer's query both read a pending order and both credit it |

Deadlock checking is off for `TopUp`, whose calls simply end, and for `MCPages` and
`MCWaiting`, where a user may stop clicking and the counts are bounded; the other models
say themselves when they are done, or have a loop that goes on for ever.

### Other observations

These follow from the same models when their constants or conditions are changed. They
are why some properties carry the conditions above.

- `TransferAffQuotaToQuota` asks for a row lock with `gorm:query_option`, which gorm v2
  ignores, and saves the whole row: a batch flushed in between is overwritten. In
  `UserQuota_quota` such adjustments end up in `lost`.
- A rebuild of the hash between the commit of a top-up and its mirror in Redis counts
  the top-up twice until the hash expires. `CacheCountsOnce` excepts top-ups for it.
- `BulkFail`: when `CacheGetChannel` fails, the tasks of the channel are failed without a
  refund and without the status guard. With the memory cache on, a channel that this node
  has not synced yet is enough: a task of an existing channel is `FAILURE` and paid for, and
  one that another node has just ended as `SUCCESS` is turned into a failure.
- A real-time fetch that sees the failure first writes it without a refund. With a
  price above 0 for the Gemini video of `TaskBilling_tasks`, `FinalBill` fails.
- Songs are refunded before their row is saved: with crashes for the
  song of `TaskBilling_tasks`, `NeverOverRefunded` fails. With two pollers it fails without a
  crash. A song reported with a reason for its failure but no final status is refunded
  and left with progress 100% and a status that is not final.
- A test that listed a channel before an administrator disabled it can enable it again
  (`TestChannel` judges by the listed status).
- A group with more priorities than `RetryTimes + 1` is left with priorities untried,
  although the comment of `CacheGetRandomSatisfiedChannel` says that each group exhausts
  all of them; and the worked example there (try 1 goes to priority 1 when
  `RetryTimes` = 3) is not what `mapRetryToPriorityIndex` computes, which spends the
  extra tries on the first priority.
- With `RetryTimes` = 0 a token with cross-group retry gives up after the first group that
  has a channel: the loop ends before the next group is looked at.
- Without the memory cache `UpdateChannelStatus` takes no lock: of a disable and an enable
  at the same time, one may leave its status in the row and the other its abilities.
- `LockOrder` is a mutex of one node. With two nodes in `TopUp_orders` an epay order is
  credited twice, since the row lock of the transaction is ignored.

Streams, limits and updates on the server:

- Stream scanner: the goroutine that writes a ping is not waited for and may write to the
  response after the handler has returned. A pinger that takes the token of a handler that
  refused leaves the loop waiting for the streaming timeout. After 5 seconds the function
  returns while the data handler still works, and the usage is read too early. A bare
  `[DONE]` line reaches the handler as `]`.
- Rate limits: see `LimitsHold` above; the message of the token bucket promises the limit
  itself. In `memoryRateLimitHandler`, not modelled, the check records failed requests
  too, although the comment (`middleware/model-rate-limit.go:148`) says it avoids
  recording, and a limit of 0 on successful requests means one per window there, none with
  Redis.
- Provider updates: the queries of the periodic task and of "all channels" do not select
  `model_mapping`, so redirect sources are offered for removal, against the comment at
  `controller/channel_upstream_update.go:205`. A check writes back settings it read before
  the provider answered: an "ignore" or "add" decided meanwhile is undone, and an
  automatic sync overwrites an edit. Submitting with nothing selected ignores all. When
  `UpdateAbilities` fails after the models were written, the channel is not routed for them,
  and no later check sees a difference that would make it try again
  (`controller/channel_upstream_update.go:384`, `:805`).
- Keys of a channel: `ManageMultiKeys` reads the row before it takes the lock and saves it
  whole; an index that has gone stale hits another key; a failed key that is no longer in
  the list disables the first one; deleting all disabled keys, when all are disabled,
  reports success and enables them all. `SaveWithoutKey` after a failure in traffic writes
  back the `MultiKeySize` it read: when it is too large, an index beyond the list is answered
  with success and changes nothing that lasts; when it is too small, the last key is refused and
  `disable_all_keys` leaves it enabled. In the dialog, the reload after an operation uses the
  filter and page of the render in which it was clicked.
- Task polling panics on an answer that names a task id nobody asked for
  (`service/task_polling.go:224`); `testAllChannels` returns on a failed query without
  clearing its running flag (`controller/channel-test.go:861`); two first set-ups at once
  both see no root user (`controller/setup.go:56`).
- Disk cache, not modelled: the clean-up removes and discounts files in use, and closing
  them discounts them again (`common/disk_cache.go:114`).

The console:

- Tables: the channel table's refresh and paging call the search with shifted arguments
  and without a number; a rejected load leaves the spinner of channels, tokens, users and
  tasks on; the token table's page size triggers its own effect; a refresh after a row
  action may join a GET that was answered before it.
- Settings forms: forms that do not check answers say saved after a refusal; one form's
  save reloads the section and wipes its sibling's unsaved edits and what was typed during
  the save; `Promise.all` rejects at the first failure while the other PUTs go on; after a
  refused save, changing a field back is not sent although the new value is stored. A
  database error in `UpdateOption` (`model/option.go:186`, `:191`) is ignored: the answer is
  success, the node works with the value, and the sync loop or a restart brings the old one
  back. A round of the loop that read the table before a save puts the older value over it
  until the next round. A value that does not parse is refused after it has been stored. The
  placeholder of the universal password says that blank means disabled
  (`SettingsGeneral.jsx:160`), but the password is loaded blank and a blank is never sent, so
  that once set it cannot be disabled in the form (`SecretKept` is about the forms that say
  blank keeps the secret). A failed first load followed by a save of the Epay form sends blank address and merchant.
- Price editors: both write the whole option back, so a save elsewhere is undone; a failed
  first load followed by a save stores an almost empty option; an entry without an output
  price changes from free output to output at the input price; the visual editor writes a
  tiered model without its image and audio prices, also one that nobody touched, although
  the relay charges them (`useModelPricingEditorState.js:643`, `service/text_quota.go:258`);
  a refused entry is stored
  all the same (`model/option.go:199` comes before the parsing); the arrival of the
  candidate list wipes unsaved rows; text edited while a merge is open is overwritten.
- Edit dialogs: a late answer for A fills B's form, and Save stores A's values under B; the
  token dialog's close timer turns the next edit into "new"; a rejected load or save leaves
  the spinner on; the success of an older save closes whatever is shown.
- Override rules: overrides that only copy are shown as lines without their conditions and
  without the other keys beside `operations`, and saving the channel drops both; a visual edit drops `keep_origin` and turns a string that
  reads as a number into one; after deleting every rule, switching views brings them back;
  broken JSON is silently not saved.
- Tabs: NavBar's sign-out never calls the server, so the session stays; a
  `/api/user/self` in flight across a sign-in or sign-out brings the earlier user back; a
  401 in one tab signs the other out of localStorage; after a sign-in a tab's 401s no longer
  lead to the login page until it is reloaded.
- Test dialog: a batch started after a stop revives the stopped one, and the first to end
  clears the flag of both; in a batch with a key chosen the summary counts every model as
  failed. Alipay dialog: a refresh answered after success replaces the success screen; an
  order that was refreshed away is no longer asked about; a refresh answered after the dialog
  was reset or reopened shows its QR code while `step` is "loading", so nothing polls it and
  a payment is not seen (`AlipayQRModal.jsx:159`). Chat: stopping drops the partial
  answer; the relay notices a client that left only at the agent's next event, so two runs
  of one session overlap.
- Desktop shell: a probe that times out leaves two chains of retries; on macOS a window may
  open before the server answers; any program on the port passes for the server; a server that exits with code 0 only hides the window.

## Fairness

- A goroutine that has started takes its next step (weak fairness per process): the Go
  scheduler is preemptive and fair.
- A waiter for a mutex gets it if it is released again and again (strong fairness of
  the acquiring step, `ChannelStatus` and `TopUp`): `sync.Mutex` switches to starvation
  mode after a millisecond and hands over in order.
- Tickers tick: the batch updater, the task poller, the channel sync, the expiry of
  the Redis hash.
- A payment notification is delivered (`TopUp_orders`), as both gateways promise.
- The event loop of the browser and of Electron runs the callbacks and timers that are
  due; the server answers a model test and accepts a message to the agent; the relay ends
  the agent's stream at its timeout; not every status request of an Alipay order fails.
- The goroutines of a stream run, its timers fire, and the data handler and the writes of
  a ping return.
- Never assumed: that an upstream sends anything, that a provider ends a task, that a database statement succeeds, that
  a client comes back.

## Proofs

TLAPS checks these for every value of the constants.

- **BillingSessionProofs**: `TypeCorrect`, `Exclusion` (`SettledOrRefunded`),
  `NoOvercharge` (`NeverOvercharged`), `ExactBooks` (`AccountedExactly`), from one
  inductive invariant. The properties speak of flags and net amounts; what makes them
  inductive is, per program location, which flags are set and what the request has
  cost so far (`LocationInv`), and the same for the refund goroutine (`JobInv`). `Overdraft`
  (`OverdraftBounded`) adds that the wallet is what it was less what all requests took
  (`Books`), and that no request takes more than was there at the start (`Covered`). What
  the proof needs of such a sum (one summand changes, one sum is at most another) comes
  from well-founded induction over a finite set.
- **UserQuotaProofs**: `RecordedOnce` (`AppliedOnce`) and `CachedOnce`
  (`CacheCountsOnce`). The invariant relates each process's position to where its
  adjustment may be, and each rebuild's snapshot to row, batch and hash: a snapshot is
  written only into a hash that is still missing the quota field, so whatever was
  incremented since is not counted again.
- **ChannelSelectProofs**: `Bounded` (`AttemptsBounded`) from an invariant that
  charges every attempt to the group index or the retry counter, with the pending
  reset as the delicate case; and `MapInRange`, `MapDescends`, `MapCovers` about
  `mapRetryToPriorityIndex`. `Descends` (`NeverClimbs`), `ExhaustsFirst`
  (`ExhaustsBeforeMoving`) and `TriesAll` (`GivesUpLast`) come from `OrderInv`: while the
  channels are steady, no attempt was made past the current group and the tries it has had
  (`Behind`), each of those tries is in the log (`Current`), and the groups that were passed
  have had all of theirs (`Passed`). That a schedule over indices goes down and covers the
  levels themselves needs the rank of a level in its set to be a bijection, which is proved
  from the cardinality theorems.
- **ChannelStatusProofs**: `AbilitiesAgree` (`AbilitiesMatch`), `RoutesEnabledOnly`
  (`RoutableEnabled`) and `TypeCorrect`, for any channels, keys and processes. The match of
  two tables breaks between the two writes, so `MatchInv` says for each channel that either
  it matches or somebody stands between its writes (`Between`), and that this process has
  written the row the way it is about to write the abilities (`RowWritten`); `LockInv`
  says that whoever stands there owns the channel's mutex, so there is only one.
- **TaskBillingProofs**: `RefundedOnce` (`NeverOverRefunded`), `BillFollowsStatus`
  (`FinalBill`) and `FinalForGood` (`FinalStays`), for any tasks, nodes, clients and channels
  with `SoundSites`: each task is a video, in which case everything may fail and crash; or a
  song polled by one node whose statements do not fail and that does not crash; or a free
  real-time task. The rest is false: `TaskBilling_reopened` has a paid real-time task, and
  songs are refunded without a guard (see "Other observations"). The sites of
  `TaskBilling_tasks` meet the hypothesis. The invariant keeps, per process, what it has in
  hand and why (`HandInv`) and, per task, what it has cost in each status (`VideoInv`,
  `SunoInv`, `FreeInv`): a task that has not ended is paid in full and nobody adjusts it,
  and of one that has ended at most one poller does (`Ending`), because only the winner of
  `UpdateWithStatus` goes on to the money. A task that `BulkFail` ended without a refund is
  kept apart (`dropped`): it stays failed, and whoever had won it before goes on to adjust it.
- **TopUpProofs**: `Exclusion` (`MutualExclusion`), `NothingLeft` (`EntryInUse`) and
  `TypeCorrect` from `LockInv`: a caller with a reference points to the mutex that the
  map holds, `refCount` is the number of such callers (a cardinality), and a mutex is
  owned by the caller in its critical section. `SingleCredit` (`CreditedOnce`) holds
  under two stated assumptions, one node and epay only: `TopUp_alipay` drops the
  second, and without the first it is false too. `MutexImplemented`: every step of `TopUp`
  is a step of `OrderMutex` or leaves its state alone (the safety part of
  `ImplementsMutex`), from the same `LockInv`.
- **WaitingProofs**: `Typed` (`TypeOK`), `Screens` (`ScreensTrue`), `Complete`
  (`StreamComplete`), `Bounded` (`LimitsHold`) and `Quiet` (`NoWaveAfterStop`, the part of
  `WaitsEnd` that is a safety property), for any number of models, orders, questions, lines
  and requests. The parts share no variable, so there is an invariant for each:
  - the stream scanner's counts: every line received is handled, buffered or in somebody's
    hands (`Lines`); every stop token was put there by a goroutine that will put no other,
    so three places are enough (`Tokens`); and whoever stopped has a reason (`Signals`,
    `Reasons`);
  - the rate limits': a list holds the last that passed, and while it is short all of the
    running window (`Kept`); it is too long only by those that found it short together or
    have not cut it yet (`Short`); whoever is about to compare has read a time at least
    `MaxNum` passes ago (`Checks`); and what passed in a running window together with those
    that may still pass in it is within the bound (`Running`). For the bucket, what it holds
    and what it has given away since any instant are bounded from both sides (`Filled`).
    Counting within a window is by cardinalities, and the least index of a window by
    well-founded induction;
  - the chat's says that an agent works for the question that runs or for one that was
    given up, and that the pieces read, arrived and still to come make one answer; the test
    dialog's that without an overlap one batch is live; the shell's that a failed probe
    leaves at most two timers; the Alipay dialog's that it polls exactly for a pending order
    at step "qrcode", and that one on screen at another step is a refresh's (`strayed`).
- **PagesProofs**: `Listed` (`KeysListed`), `StatusGoesWithKey` (`StatusFollowsKey`),
  `Current` (`RowsCurrent`), `AllSpinnersEnd` (`SpinnersEnd`), `SavesAreFaithful`
  (`SavesFaithful`), and of `FormsMatchServer` the conjuncts of the edit dialogs
  (`DialogsOwn`), the provider updates (`UpdatesDecided`), the settings forms
  (`FormsSendTheRest`), the price editors' display (`PricesShown`) and the tabs (`TabsAct`).
  What they leave out is in their comments: `StatusGoesWithKey` an operation that another
  one overtook between its read and its save; `DialogsOwn` a form that was filled by the late
  answer of another record; `UpdatesDecided` a channel that was written from an outdated row,
  for redirects the checks that do not read the mapping, and for routes a last change that
  failed; `FormsSendTheRest` and `SavesAreFaithful` what follows a failed request or a value put
  back by the sync loop, and for the table an ignored error. Again one invariant per part:
  - keys: operations read the row and save it whole later, so it is about every copy in
    flight: its keys are all different (`RowsOK`), and a key that has not been placed yet is
    in none of them and is brought by one operation only (`NewOK`); statuses beyond the list,
    which a wrong `MultiKeySize` may write, are cut off by `Update`. That `Keep` moves each
    status with its key needs the rank of an index among those kept to be a bijection;
  - tables: only the call with the highest number counts. It asks for what was asked last
    (`LatestInv`), nothing it is going to get was read before the last row action
    (`FreshInv`), and the page goes with the rows (`PageInv`);
  - settings forms: without a failed request every field that was sent is on its way, was
    refused or is stored (`PutsInv`), a secret counts as blank and is never sent blank
    (`SecretInv`), and what counts as loaded is what the server has, or a PUT, a refusal or
    a load to come is the reason why not (`RestInv`);
  - edit dialogs: what is on screen, kept by a submission or stored comes from its record or
    was typed, unless the model has recorded a mix-up (`FormOwn`, `SentOwn`);
  - provider updates: what an operation found differs from the row that it read (`FoundInv`),
    what the user decided is in every row that nobody has overwritten (`DecidedInv`), and a
    channel whose routes are behind has an operation that will write them, or one whose
    statement failed (`RoutesInv`);
  - price editors: a pending merge has on its left the text that it started from, until the
    text is changed (`MergeInv`); what is loaded is the option, or a request is the reason
    why not, and an editor in which nothing was typed shows what is loaded (`ShowInv`);
  - tabs: one that nothing has mixed up shows the user of its header or nobody (`TabsInv`);
  - all: a spinner that turns has a request in flight that will stop it (`TurnInv`,
    `FormTurns`, `EditTurns`, `FlagsInv`, `PriceTurns`).

Assumptions on constants are the named `ASSUME`s of the modules, which TLC evaluates for
the instances: finite sets of calls and requests, distinct process names, non-negative
amounts, unique trade numbers; limits and windows of at least one, and an expiry no shorter
than the window (`LimitAssumption`, as `common/constants.go` demands); a channel that starts
with a key, all its keys different and added ones new (`KeysAssumption`); records not named
as the dialog's own values (`RecordAssumption`); whole rows, prices and orders of channels
and names (`ChannelsAssumption`, `PricesAssumption`); and of the forms what `SettingsCatalog`
says of each, which is needed for the one that may be enabled only with its key
(`FormsAssumption`). `SoundSites`, one node and epay only are hypotheses of the theorems that
need them.

Attempts at these proofs changed statements and definitions:

- `AbilitiesMatch` had no condition on the memory cache and `GivesUpLast` none on
  `RetryTimes`: both held in their runs and are false in general (see "Other observations").
- `OverdraftBounded` was false for a wallet that begins with a debt.
- `SavedIsStored` went by what counts as loaded when the answers are in, which another load
  may have changed by then: false with four edits and three saves on the page of Alipay and
  Epay, beyond the bounds of the run. It now goes by what was sent (`updateArray`, the
  code's own variable).
- The bound of `LimitsHold` for lists was the limit times the requests at a time. It is now
  the limit plus twice the others, which the proof needs and TLC agrees with.
- `NewsStayPending` left out an apply that changes no model of the channel and goes on with
  the next one.
- `MultiKeys`, `RateLimit` and `ParamOverride` had `CASE`s whose arms overlapped; TLC takes
  the first, the language any.

Only model-checked:

- everything under fairness, for liveness and `ENABLED` are beyond the prover; so of
  `ImplementsMutex` and `WaitsEnd` only safety parts are proved;
- of `FormsMatchServer` the conversions: what a price means after the editors have read and
  written it (`BadgeTrue`, `OthersKeepPrice`), and the override rules. These are
  about what `SelectSeq` and recursive conversions compute for every input, which takes
  induction over data with an operator as its parameter;
- the types of `MCPages`: those of the override rules depend on the same conversions, for
  `SwitchToVisual` finds the origins of its rules by a `SelectSeq`.

## Not modelled

Provider adapters (translation without state), the arithmetic of prices, statistics and
logs, roles, permissions and registration, what the options mean to the rest of the program,
the disk cache, Clawd's auto-tuning. See `PROJECT.json`. Within the modelled parts:
billing of realtime WebSocket sessions, legacy tasks without billing data, a task timeout
set to zero, several groups and models per channel, panics of a stream's data handler,
rate limits that change while in use.

Of the console, what keeps no state worth checking: most of its lines are markup, column
definitions, styles and texts, which no module here stands for, so the map covers about
an eighth of the repository's JavaScript. Nearly half of those lines are not reached from
`App.jsx` at all: the model deployment dialogs, the task log page, `SystemSetting`,
`ParamOverrideEditorModal`, the affinity settings, the dashboard's lists. Some modelled
hooks and forms are among them (deployments, task logs, a few settings forms); they are
kept because they differ from their mounted siblings in exactly what the tables and forms
get wrong. The key-value editor `JSONEditor.jsx`, registration and the set-up wizard were
read and left out: one user, one dialog, nothing in flight.

## Plan

1. Done: BillingSession, UserQuota, TopUp with its abstract mutex, TaskBilling,
   ChannelStatus, ChannelSelect, StreamScanner, RateLimit, UpstreamUpdates, the console and
   the desktop shell; proofs for all of these but the override rules.
2. Models: a ledger as abstract specification of BillingSession and TaskBilling
   (refinement); the routing table with groups and models; token cache; channel affinity;
   auto-tuning (Clawd); the body and disk cache.
3. Proofs: that the locks of `ChannelStatus` exclude each other as an abstract mutex does;
   that `StreamScanner` leaves no goroutine with a token to put; the refinement of the
   ledger.

New modules join an existing run: the twelve there are take about twenty minutes
together, and that is as much as is worth waiting for.
