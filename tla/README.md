# A verification of the gateway's billing, accounts and routing

This directory holds TLA+ models of the parts of the server that keep state:
what moves users' quota, the accounts and their second factors, the channels a
request is routed to, the settings and prices, the limiters, and the way the
adaptors read an upstream's answer. TLC checks them on small instances, and
TLAPS proofs show the properties that matter most, of the billing core, the rows of
users and their second factors, the channels and the guards of a request, for every
value of the parameters.

The program is a Go gateway in front of AI providers. It is run as one or
several instances behind a load balancer, all sharing one SQL database (SQLite,
MySQL or PostgreSQL) and, optionally, one Redis. Users buy, redeem and earn
quota; requests to `/v1/...` and video tasks spend it. There is no message bus
and no distributed lock: whatever several instances or goroutines must agree on,
they agree on through single SQL statements, row locks and unique indexes.

Contents: [inventory](#1-inventory), [plan](#2-plan),
[modules](#3-modules-and-how-they-correspond-to-the-code),
[runs](#4-runs), [bounds](#5-bounds), [fairness](#6-fairness),
[proofs](#7-proofs), [disagreements](#8-where-the-code-and-its-comments-disagree),
[limits](#9-what-is-not-modelled).

## 1. Inventory

### 1.1 Components with state that can go wrong

| Component | State | Operations | Hard behaviour | What makes it correct |
|---|---|---|---|---|
| Video tasks (`controller/video.go`, `relay/task/`, `model/task.go`) | rows of `tasks` (status, quota, submit time); local variables of handlers and pollers | submit, timeout scan, poll, refund, settle | every instance polls the same rows; answers are stale when applied; a timeout races a late success; the verdict is committed before its payment | one verdict per task, one payment per verdict, the `quota` column is what the user paid, every task ends |
| Relay billing (`controller/relay.go`, `relay/controller/text.go`, `relay/billing/`, `model/token.go`) | `users.quota`; `tokens.remain_quota`, `used_quota`, `status`, `unlimited_quota` | token check, reserve, refund, settle, retry; dashboard edit and deletion of a token | reservation is up to three statements, settlement runs in a goroutine the handler left behind and overlaps the retry | a failed call costs nothing, a served one costs what its log says, the two ledgers agree |
| Paid orders (`model/topup.go`, `controller/topup*.go`, `service/payment/`) | rows of `topups`, the gateway's own payment state | create, webhook of three gateways, complete, fail, administrator's completion | at-least-once webhooks, delivered concurrently and out of order; lost answers | credited exactly once if paid in full; finished orders stay |
| Redemption codes (`model/redemption.go`, `controller/redemption.go`) | rows of `redemptions` | mint, redeem, edit, delete | two redeemers; an edit that writes back a copy of the row | a code pays once, a used code was paid |
| Check-in (`model/checkin.go`, `controller/checkin.go`) | rows of `checkins`, unique on user and day | claim, info page | two clicks, midnight between statements | one reward per day, a streak counts days really claimed |
| User rows (`model/user.go`, `controller/user.go`, `controller/misc.go`, `controller/auth/`, `common/blacklist`, `common/verification.go`) | `users`; the ban list and the verification codes in memory | registration, sign-up through five providers, binding, profile edits, access and affiliate codes, password reset, management, deletion | `User.Update` writes every non-zero column of a copy read earlier, `quota`, `role` and `status` among them; check-then-insert on columns without a unique index; the ban list and the row are written one after the other | an edit changes what it was asked to change, identities are not shared, a banned user is not enabled |
| Second factor and passkeys (`controller/twofa.go`, `controller/passkey*.go`, `service/`, `middleware/auth.go`) | columns of `users`, `passkey_credentials`, the cookie session | set-up, enable, disable, use of TOTP and backup codes; passkey registration and sign-in; deletion | a row or a list is read, checked and written back later; sign-ins cross | a backup code works once, only a confirmed secret is enabled, an honest key is accepted, keys die with the account |
| Channels and abilities (`model/channel.go`, `model/ability.go`, `model/cache.go`, `controller/channel.go`, `middleware/distributor.go`) | `channels`, `abilities`, the in-memory routing table | create, edit, enable, disable, delete, reload, choose | two tables updated by separate statements, outside a transaction; a reload with two queries while they change | the two tables agree, the table in memory never ends the process and chooses what the database would |
| Channel health (`monitor/`, `controller/channel-test.go`, `controller/channel-billing.go`) | the windows of outcomes, a "test is running" flag, balances | record, disable, enable, test sweep, balance sweep | two goroutines on one map without a lock; sweeps work on lists read long before | a channel is disabled on evidence of its own |
| Options and prices (`model/option.go`, `controller/option.go`, `setting/config/`, `relay/billing/ratio/`) | `options`, `config.OptionMap`, package variables, price tables | edit, batch, periodic reload, look-up of a price | a reload applies an older read after an update; tables are emptied before they are parsed | what runs follows the table, saved prices are billed |
| Image, audio and proxy relay (`relay/controller/image.go`, `audio.go`, `proxy.go`), quota cache (`model/cache.go`) and batch updater (`model/utils.go`) | `users.quota`, `tokens.remain_quota`, the Redis key of a user's quota, the maps of queued changes | check, call, deduct; fill, refresh, expire; queue, flush | check and deduction on either side of the upstream call; the cache is refreshed by read-modify-write; a crash loses what is queued | a call pays its price once, a balance is overdrawn only by calls that decided on a stale one |
| Provider adaptors (`relay/adaptor/`) | locals of a stream handler | whole answers, embeddings, streams of 20-odd vendors | damaged lines, streams that break off, usage reported at the end or never | a stream is charged for what it held and ends well formed |
| Rate limiters (`common/rate-limit.go`, `middleware/rate-limit.go`) and quota warning (`model/quota_warning.go`) | a window per client in memory or Redis; hours of the last reminder | allow; remind | check-then-act on a shared window; the balance is read back after the deduction | at most N per window; a crossing is reminded of once per cooldown |

The rest of the repository keeps no state of its own worth modelling: usage
logs are appended and read, `router/` and `main.go` are wiring, `web/` is the
user interface. `PROJECT.json` lists each with the reason.

### 1.2 How the components meet

* `controller/relay.go` runs `RelayTextHelper`, which reserves through
  `billing`/`model.PreConsumeTokenQuota` and settles through
  `PostConsumeTokenQuota`; `controller/video.go` and `relay/task/billing.go` use
  the same two functions. `users.quota` is therefore shared by calls, tasks,
  orders, codes and check-ins. Every one of them changes it by a relative
  `UPDATE ... SET quota = quota + ?`, so the components compose by addition, and
  the models of the earning side count the wallet from its opening balance.
* The dashboard (`controller/token.go`, `controller/user.go`,
  `controller/redemption.go`, `controller/channel.go`) reads a row, changes the
  copy and saves columns of it. This is where read-modify-write meets the relative
  updates and the other writers.
* A failing relay, the success rate and the sweeps all end in
  `monitor.DisableChannel` and `EnableChannel`, which write the two channel tables
  beside the administrators; `middleware/distributor.go` reads the table in memory.
* Option edits, the periodic reload and other processes meet in table `options`;
  prices are read by every relay from the tables it fills.
* Gateways call the webhooks until they get a success. The upstream of a video
  task is polled; it never calls back.

### 1.3 Hazards

`PROJECT.json` lists the hazards at their lines with the properties that would
catch them. Two have none, because the code leaves nothing to ask for: the refund
of a video submission whose token was deleted in flight finds no token and is
dropped, and the event that confirms a delayed Stripe payment is ignored. The
models take both branches (section 8 names them). A third such branch is the
running flag of the channel test, which stays set when listing the channels fails.

## 2. Plan

Done, the most valuable behaviour first:

1. `VideoTask` with the abstract `TaskBilling` and `VideoTaskRefinement`;
2. `RelayBilling`, `TopupOrder`, `Redemption`, `Checkin`;
3. `UserAccount` and `SignIn`, the rows of users and what guards a sign-in;
4. `ChannelRouting` and `ChannelMetric`, channels and their health;
5. `OptionSync`, the settings and the prices they hold;
6. `MediaBilling`, with the quota cache and the batch updater;
7. `ProviderAnswers`, the adaptors' answer handlers;
8. `RateLimit` and `QuotaWarning`;
9. proofs about `SignIn`, the limiter in memory and `QuotaWarning`, and of the refinement;
10. sums over finite sets (`SumTheorems`), and with them the books of `RelayBilling`,
    `TopupOrder` and `Checkin`; what faults and refunds do to the tasks of `VideoTask`;
11. proofs about `UserAccount`, `ChannelRouting` and `ChannelMetric`;
12. proofs about `OptionSync`, `MediaBilling`, `ProviderAnswers` and the limiter in Redis,
    and of the modules of `MCUpstreams` and of `MCAccounts` run beside one another.

What the later modules leave, in order of value:

| Step | Sketch |
|---|---|
| `RelayBilling` with Redis and the batch updater | the cache functions of `MediaBilling` under the reservation of text calls |
| Stored vendor tokens | the Baidu and Zhipu token caches, which hand out a token that may have expired |

## 3. Modules and how they correspond to the code

One action is one database statement, one transaction part or one upstream call;
anything may happen between two actions. Failing statements and crashes are
actions too, counted so that TLC's runs end. History variables (`charge`,
`credits`, `charged`, `drawn`, `promised`, `late`) record what properties speak
about; no guard reads them.

Each module has a section of deliberately wrong variants of its own operators.
They are used by no specification; they show that every property fails when the
code is changed in a plausible way.

### 3.1 `VideoTask`, `TaskBilling`, `VideoTaskRefinement`

*State.* `wallet`, `live` (token row exists) are the ledgers; `pc`, `host`,
`held` a submit handler with its local `charged`; `row`, `id`, `overdue` the task
row; `phase`, `at`, `cur`, `verdict`, `final`, `snap` a polling goroutine, `snap`
being the rows as it listed them; `up` the upstream's view of the job.

*Actions.*

| Action | Code |
|---|---|
| `Submit`, `UpstreamAccepts`, `UpstreamErrors`, `AdjustOnSubmit`, `InsertTask`, `InsertTaskFails`, `RefundSubmit` | `RelayVideoSubmit` from `PreConsumeTokenQuota` to `task.Insert` or the `refund` closure |
| `ListTimeouts`, `FailOverdue` | `scanTimeouts`, `failTask` |
| `ListUnfinished`, `Fetch`, `LeaveForNextRound`, `PanicRound` | `pollUnfinished`, `pollTask`, `pollOnceSafe` |
| `ApplyTerminal`, `ApplyProgress` | `applyTaskInfo` with `UpdateTaskStatus` (compare-and-swap) and `UpdateTaskNonTerminal` |
| `RefundTask`, `SettleSuccess`, `PersistQuota` | `relay/task/billing.go` |
| `DeleteToken`, `PassDeadline`, `UpstreamStep`, `Crash` | the token's owner, the clock, the upstream, a dying instance |

`PostConsumeOutcomes` models `PostConsumeTokenQuota` as it is: a failing wallet
update is overwritten by the result of the token update, so there is an outcome
in which nothing moved and the caller is told "ok".

*Abstraction.* Prices come from sets. The answer of the upstream is its state
mapped by `ParseTaskResult`. `remain_quota` of the token is left out: here only
the owner's wallet matters (`RelayBilling` has both).

`TaskBilling` states what a client of the subsystem relies on: one reservation,
one verdict, at most one payment after it; a crash may suppress a payment, never
repeat one. `VideoTaskRefinement` reads the stage of a submission off the
handler, the row and the poller and lets TLC check `VideoTask` against it.

### 3.2 `RelayBilling`

`call[<<r, i>>]` is the i-th run of `RelayTextHelper` for request r: its position,
its local variables, and what it has taken from either ledger. `token[k]` is the
token row, `form[f]` one dashboard edit.

| Action | Code |
|---|---|
| `Authenticate`, `MarkExhausted` | `ValidateUserToken` |
| `Estimate` | `preConsumeQuota`: the wallet is read, rich users are trusted |
| `LoadToken`, `DebitToken`, `DebitUser`, `RollBack` | `PreConsumeTokenQuota`, statement by statement |
| `RequestNotMade`, `AnswerWithoutUsage`, `UpstreamRejects`, `UpstreamServes` | the upstream call in `RelayTextHelper` and its four exits |
| `PayLoad`, `PayUser`, `PayToken`, `Record` | `ReturnPreConsumedQuota`, `postConsumeQuota`, `PostConsumeTokenQuota` in their goroutine |
| `Retry` | the loop of `Relay`; it does not wait for the refund of the failed call |
| `ReadForEdit`, `WriteEdit`, `DeleteToken` | `UpdateToken` / `Token.Update`, `DeleteTokenById` |
| `Crash` | the process dies; the database keeps what was written |

### 3.3 `TopupOrder`

`order` is the row, `pay` the payment at the gateway, `sent` and `acked` its
events, `handler` a request being served, `lock` the row lock of `FOR UPDATE`.
`Request` and `CreateOrder` open an order, `CreateOrderFails` cancels it;
`GatewayStep` is the customer and the gateway; `Deliver` starts a webhook as often
as it likes, also for events answered long ago; `AdminMark` is
`AdminCompleteTopup`. `Begin` is the locked read and the checks of `CompleteTopup`
or `FailTopup`, `Commit` the writes and the commit, `Reply` the answer, which may
be lost. `Meaning` says what each adaptor makes of an event, `Reported` converts
the amount as `nowpayments.go` does: `LossyPrices` are the cent amounts `c` for
which the float product `(c / 100.0) * 100` truncates to `c - 1`.

### 3.4 `Redemption`

`code` is the row, `handler` a redeem request with `Begin` (locked read and
checks) and `Commit`, `form` an administrator's edit with `ReadRedemption` and
`UpdateRedemption` around the moment in which others run. `AddRedemption` models
the column default: a quota of 0 is not written and becomes 100.

### 3.5 `Checkin`

`claim` is a `ClaimToday` call in its steps `ReadToday`, `ReadYesterday`,
`Insert`, `Commit`; rows become visible at the commit, and `KeyFree` is the
database making a second insert of a key wait for the first transaction.
`GetCheckinInfo`, `InfoToday`, `InfoYesterday` are the info page. `Midnight`
moves the date between any two steps; a claim keeps the day it started with.

### 3.6 `UserAccount`

`user` is the table, `form` a request between its read and its write with the copy
of the row it holds, `banned` the ban list, `code` the verification codes. A
handler is a read followed by a write of every non-zero column of the copy
(`Updates`), or, for registration and provider sign-up, a check that an identity is
free (`IsTaken`) followed by an insert. Deleting, banning and promoting take two
steps, list and row. `asked` is the history the properties compare with: the row as
the requests would leave it if each changed only the columns it is about; `stale`,
`contended` and `raced` say where requests crossed.

### 3.7 `SignIn`

`row` has the columns of the second factor, `session` the cookie of each browser,
`op` a request between its read and its write, `device` the counter of each
authenticator, `passkey` the stored credentials. The password step parks the account
on the session (`pending`) and a factor or a passkey completes it. TOTP is what an
app shows for the secret; WebAuthn is modelled from how the handlers use the
library: which credentials it offers, what counter it returns and when it raises the
clone warning.

### 3.8 `ChannelRouting`, `ChannelMetric`

A handler of `ChannelRouting` is the list of statements it still has to run
(`todo`), so that the statements of two handlers interleave as the database lets
them. `NewAbilities` is what a row asks for, `ability` what the second table holds;
`sync` is `InitChannelCache` between its two queries, `cache` the table it builds;
`Distribute`, `GetRandomSatisfiedChannel` and `CacheGetRandomSatisfiedChannel` are
the choice of a channel as the set of channels it may fall on. `sweep` holds the
lists of the test and the balance sweep. `ChannelMetric` takes the two consumers of
`monitor/metric.go` access by access, since they share a map without a lock: an
entry may be lost, a cut of a shortened window panics, and an access that meets
another may end the process.

### 3.9 `OptionSync`

`options` is the table, `optionMap` the map in memory, `live` the settings the
program reads. One key of each kind stands for the others: a credential, the toggle
it guards, the three price tables and a field of a typed module. `UpdateOption` is a
create and a save, `UpdateOptions` a commit followed by the keys one by one, a failed
one by a full reload; `TakeSnapshot` and `ApplyRow` are the reload. Prices are
looked up with the channel's own entry first (`Asked`, `CompletionRule`).

`optionUpdateRejection` looks at the settings once, before anything is written, so
there are requests it cannot judge (`Unguarded`): one that clears the credential
without naming the toggle, be it a single edit or a batch; two that cross, one
clearing the credential and one that enables the provider counting on it; and one
that counts on a credential another writer holds. Each leaves an enabled provider
without a credential, also after a clean reload, and `EnabledProviderIsConfigured`
excuses these and no others (`excused`).

### 3.10 `MediaBilling`

`purse` holds the two ledgers, `batch` the queued changes and the flush under way,
`cached` the Redis key, `mode` which of the two are on. `RelayImageHelper` is the
request part of an image call, `ImageAnswered` what follows the upstream's answer;
audio calls reserve first, proxy calls cost nothing. `todo` of a call is the list of
statements it still runs on cache and ledgers. The price of an image may be negative:
`isWithinRange` lets any number of images pass for a model without a listed range.

`OverdraftMeansMisled` bounds the overdraft by what misled calls and transcriptions
did not reserve, and asks that no fault lost credit of the user (`extra.short`). That
the total lost is zero would not be enough: a crash that loses a top-up and one that
loses a deduction cancel out in the sum, and the deduction had been allowed on the
strength of the top-up.

### 3.11 `ProviderAnswers`

One operator per answer handler of an adaptor, for a whole answer, an embedding and
one line of a stream. An upstream line is its kind and the usage it carries; one
text line is one token. The upstream is honest in what it reports, and it may damage
lines and break off. `outcome` is the result of `DoResponse` and the charge.

The arms of a `CASE` here exclude one another (`Charge`, `Answer`, and likewise
`DecideComplete` of `TopupOrder`): where two guards are true TLA+ leaves open which arm is
meant, TLC takes the first, as a `switch` does, and nothing can be proved.

### 3.12 `RateLimit`, `QuotaWarning`

`RateLimit` has both limiters for one client and one mark: a decision of the
in-memory one is one step under its mutex, the Redis one is a step per command.
`QuotaWarning` is the deduction, the reading back and the decision of a reservation,
and the deductions that never ask.

## 4. Runs

All "pass" runs finish without an error. `CHECK_DEADLOCK FALSE` is set where the
system may come to rest (all requests served, all bounds used up); `VideoTask`
never does, because the pollers loop, so deadlock is checked there.

Four instances hold several modules that share no variable: `MCAccounts`,
`MCRequestsEnd`, `MCRouting` and `MCUpstreams` choose one of them at the start
(`focus`) and leave the variables of the others alone, so the state spaces add up
instead of multiplying. A property of such an instance is a conjunction of the
modules' own; each part has a mutant that breaks it.

| Run | Instance | Shows |
|---|---|---|
| `video_races` | two instances, two tasks, one wallet, a token that may be deleted, reserved, adjusted and final prices with zero among them, no faults | types; **OneWinner**: a task has one poller entitled to its money and only once it is terminal; **RefundsAreSound**: reservations never push a wallet below zero and the refund log is what came back; **RowQuotaIsCharge**, **ClosedTaskBalanced**, **NeverOverRefunded**, **TerminalIsFinal** |
| `video_faults` | one instance, two tasks, list limits of one row, a crash, a failing statement, an upstream that may be silent | **StrandedBounded**: each fault leaves at most one closed task unbalanced; **ImplementsBilling**: refinement of `TaskBilling`; **TasksResolve**, **FailuresRepaid** |
| `relay_ledgers` | two requests with a retry each, one token that may be unlimited, an edit, one mishap (a crash, a failing statement or a deleted token) | types; **FailedCallRepaid**, **ServedCallBilled**; **LedgersAreBounded**: the ledgers agree, an overdraft is what was under-reserved, splits are bounded by faults |
| `requests_end` | one code with two redeem requests, edits, a crash or a failing statement; or one call with a retry, trusted, reserving and free estimates, a deletion, a crash, a failing statement | types; **UsedCodeWasPaid**, **CreditsBounded**; under fairness **RequestsAnswered** and **AnsweredCallsClose** |
| `topup_liveness` | one crypto order, two handlers, a crash, a failing transaction | **OrdersAreWhole**: credited once, the wallet is the sum of the orders marked success, an acknowledged payment was credited; **PaymentsCredited**: a webhook repeated until it is acknowledged credits the order |
| `accounts` | three users, two forms, two requests, a restart and a failing statement; two browsers, a key, one backup code, two secrets; one user claiming from two clients over three days; a Stripe order with delayed methods and an E-Pay order that may be paid short, with two webhooks | **AccountsKeepTheirTerms** (edits, identities, bans, promotions); **FactorsKeepTheirTerms** (backup codes, secrets, counters, deletion); **OneRewardPerDay**, **StreakIsEarned**, **CheckinsAreWhole**; **OrdersAreWhole**, **OrdersOnlyMoveOn** |
| `routing` | two channels, two routes of two groups, two handlers and two sweeps, three requests, a failing statement; a window of two and six outcomes | types; **AbilitiesFollowChannels**, **PanicsOnlyOverChangedChannels**, **CachedChoiceIsTheTables**, **RateIsMeasured** |
| `upstreams` | every adaptor with streams of up to six lines; two media calls with and without Redis and batched updates; both limiters with two requests; two users and two reservations over three hours; two administrators, the reload, another process | types; **AnswersAreCharged**, **MediaIsPaidOnce**, **LimitHolds**, **CrossingIsReminded**, **SettingsAreTheTables** |

`FailedCallRepaid`, `ServedCallBilled` and the agreement of the ledgers are
promised only while nothing has crashed, failed or been deleted (`NoMishap`),
because a lost process or statement does lose money; the bounds on splits and
overdrafts say how much when it has. In the same way
`ClosedTaskBalanced` is checked without faults and `StrandedBounded` with them.

Many properties of the later modules read "... unless two writers crossed". The
exceptions are histories (`stale`, `contended`, `raced`, `lapped`, `crossed`,
`broken`, `loose`, `torn`, `misled`) that are set by the very steps in which a
handler writes what another has overtaken. So each of them says two things: the
code keeps its promise without such a crossing, whatever else happens, and the
crossing named is the only way to break it.

The "violation" runs are in [section 8](#8-where-the-code-and-its-comments-disagree).

## 5. Bounds

* Two instances, handlers or claimers are enough for every race of the code: each
  conflict is between one writer and one other actor on one row (compare-and-swap,
  row lock, unique key). `video_faults` has one instance, which keeps the liveness
  check small; for any number of them, with faults, `NoOverRefund` and
  `FaultsStrandOneTaskEach` are proved.
* Two tasks, orders or requests share one wallet where a property is about the
  wallet, and where a list limit must leave a row out (`PollBatchLimit` and
  `TimeoutScanLimit` of 1 with two tasks). One is enough where the property is
  about a row.
* `video_races` has reservations of 0 and 2, an adjusted price of 3 and a final
  price of 1, so a settlement charges, returns, or does nothing, and a wallet of 3
  in which two reservations of 2 do not fit. `relay_ledgers` has a wallet in which
  both reservations do not fit, bills below and above the reservation, and a token
  with room for two; `TrustFactor` (100 in the code) is 2 and 3, so that
  `requests_end` takes both the trusted and the reserving branch.
* `accounts` has three users because an inviter, an invited user and a root meet in
  registration and management; two requests are the read and the overtaking write.
  `BackupCodeCount` is 1 (10 in the code): codes are independent. `MaxGenerations`
  and `MaxAssertions` are 2, bounded together by `MCBound`, so that a secret is
  replaced and a counter goes up. `MCFaults` lets a claim meet a crash or a failing
  statement, not both, under the capped bonus and before the page has promised a
  reward; the uncapped bonus, which differs in its amounts alone, runs without.
  `CheckinsStayWhole` and `OrdersStayWhole` are proved without these bounds.
* `routing` has a channel of both groups and a preferred one of one group, which is
  what a wrong priority list or a missing group needs. `MetricQueueSize` is 2 (10 in
  the code) and `MaxOutcomes` 6, so that a window overflows and is reset.
* In `upstreams`, six lines hold a start, two texts, a tool call, a report and an end.
  The limiter admits two in two seconds and runs for six, so a window ends twice;
  `MaxAdmitted` of 7 is above what its bound allows. The reminder has four reservations over
  a threshold and a cooldown of two hours within three. `MaxPuts` is two option
  requests and `MaxOptionFaults` one failing save or restart; a transcription runs
  beside an image or alone (`MCPairs`).
* `MaxCrashes` and `MaxDbErrors` bound faults, one of each where there are any.
  `MCMishaps` makes that one in all for the text calls of `relay_ledgers`, a deleted
  token included, and for the codes of `requests_end`. Two mishaps at once are covered
  by the proofs, which bound none of them.
  `Forms` bounds edits, `MaxDeletes` deletions, `RetryTimes` retries (the code's
  own setting), `LastDay` the days. Three days give a streak that is broken, one
  that continues, and one that passes the cap of 2.
* Symmetry is declared over instances, tasks, requests, handlers and claimers where
  they are interchangeable, and only in runs without liveness properties.

## 6. Fairness

* `VideoTask`: weak fairness of a started handler, of every polling goroutine
  (`StartPolling` loops for ever, each query has its own deadline) and of the
  passing of the task timeout. Nothing of the upstream: a fetch may fail and a
  round may panic for ever; the timeout scan alone must resolve the tasks.
* `RelayBilling`: weak fairness of the steps of the server. The upstream may
  never answer, so liveness is claimed from the answer on.
* `TopupOrder`: weak fairness of the handlers; strong fairness of redelivery and
  of acknowledgement, which is the gateways' contract: they repeat an event until
  it is answered with a success, and not every answer is lost.
* `Redemption`: strong fairness of the steps that may wait for a row lock; a
  database grants a lock that is released again and again to every waiter.
* `Checkin` and the modules of sections 3.6 to 3.12 state no liveness property and no
  fairness: their handlers run to their end by themselves, and what they wait for
  (an upstream, an administrator, a user) promises nothing.

Faults are bounded in number and never fair, so the liveness properties speak of
what happens once the last of them is over.

## 7. Proofs

Each `*Proofs` module extends its component and TLAPS. `AccountProofs` extends the
instance `MCAccounts`, and with it `UserAccount`, `SignIn` and `Checkin`, and takes
the theorems of `TopupOrderProofs` through the same instance of it;
`RequestPathProofs` extends `ChannelRouting` and `ChannelMetric`, and `UpstreamProofs`
extends the instance `MCUpstreams`, and with it `OptionSync`, `MediaBilling`,
`ProviderAnswers`, `RateLimit` and `QuotaWarning`. `SumTheorems` holds the lemmas
about sums that several of them cite.

The proofs hold for any sets of instances, tasks, requests, orders, codes, users,
identities, browsers, credentials, channels and routes, and any prices and limits that
satisfy the module's assumption (`VideoAssumption`, `RelayAssumption`,
`TopupAssumption`, `RedemptionAssumption`, `CheckinAssumption`, `AccountAssumption`,
`SignInAssumption`, `LimitAssumption`, `WarnAssumption`, `RoutingAssumption`,
`MetricAssumption`, `OptionAssumption`, `MediaAssumption`, `AnswersAssumption`, and
`OrdersAssumption` of the instance `MCAccounts`): constants are numbers of the range
the code gives them, maps such as `OwnerOf` are total, the null values are not
elements, what an administrator may type into a user has the columns of a user, and a
limiter key outlives the limiter's duration (`RateLimitKeyExpirationDuration` and the
longest of the durations in `common/config/config.go` are 20 minutes), what is put
into the options and what they start from are functions of known keys. Finiteness is
assumed of `Tasks`, `Requests`, `MediaCalls`, `LimitRequests` and `Forms` of
`Redemption` alone. `MaxCrashes` and `MaxDbErrors` are arbitrary, so crashes and
failures are too.

| Theorem | States |
|---|---|
| `VideoTaskProofs!TypeCorrect`, `AtMostOneWinner` | type correctness; one winner per task |
| `VideoTaskProofs!NoOverRefund`, `QuotaColumnIsCharge` | under `NoHalfRepricing`: no over-refund, the quota column is the charge |
| `VideoTaskProofs!ClosedIsBalanced` | under `NoFaults`: a closed task is balanced |
| `VideoTaskProofs!FaultsStrandOneTaskEach` | with faults: each leaves at most one closed task unbalanced |
| `VideoTaskProofs!RefundsStaySound` | under `NoHalfRepricing`: only a repricing overdraws a wallet; the refund log is what came back as long as nothing failed |
| `VideoTaskProofs!FinishedStaysFinished` | a terminal status is never overwritten |
| `VideoTaskProofs!VideoTaskImplementsBilling` | under `NoHalfRepricing`: `VideoTask` implements `TaskBilling` |
| `RelayBillingProofs!TypeCorrect`, `FailedCallsAreRepaid`, `ServedCallsAreBilled` | types; a failed call costs nothing, a served one what its log says |
| `RelayBillingProofs!LedgersStayBounded` | the two ledgers agree, a failed statement splits one call at most, an overdraft is what was under-reserved |
| `TopupOrderProofs!TypeCorrect`, `OneCreditPerOrder`, `FinishedOrdersStay` | types; credited once iff success; finished orders stay |
| `TopupOrderProofs!OrdersStayWhole`, `OrdersMoveOn` | the wallet is the sum of the orders marked success, an acknowledged payment was credited; no credit without a payment in full or an administrator |
| `RedemptionProofs!TypeCorrect`, `UsedCodesWerePaid`, `OnlyEditsReopen` | types; a used code was paid; credits are bounded by edits |
| `AccountProofs!TypeCorrect`, `OnePerDay`, `StreaksAreEarned` | types; one reward per day; streaks are earned |
| `AccountProofs!CheckinsStayWhole` | the wallet is the sum of the rows, a promised reward is the one paid, a streak goes on where it should |
| `AccountProofs!AccountsAreKept` | types; an edit changes what it was asked to, identities are not shared, a banned user is not enabled, only a root promotes, each up to the crossing it names |
| `AccountProofs!FactorsGuardTheirAccount` | types; backup codes work once, only confirmed secrets are enabled, honest keys are served, passkeys die with the account, each up to the crossing it names |
| `AccountProofs!AccountsKeepAllTheirTerms` | the composition of user rows, second factors, check-in and orders implements each, and so keeps every property of `accounts` |
| `RequestPathProofs!ChannelsAreTyped`, `AbilitiesAlwaysFollow` | types; a channel nobody is writing has the abilities its row asks for |
| `RequestPathProofs!OnlyChangedChannelsPanic`, `FreshChoiceIsTheTables` | what the routing table in memory may do: end the process only over a changed channel, and route as the database would while it is fresh |
| `RequestPathProofs!ChannelsAreDisabledOnEvidence` | a channel is disabled on a full window that says so |
| `UpstreamProofs!SettingsFollow` | types; a row nobody is writing is what the program runs on, the saved price is the one billed, an enabled provider has its credential, each up to the crossing it names |
| `UpstreamProofs!MediaCallsPayOnce` | types; the books of both ledgers, a finished call paid its cost once, the overdraft is what misled calls had not reserved |
| `UpstreamProofs!AnswersCharged` | types; what an answer or a stream is charged, how a stream ends, what a failed call delivered |
| `UpstreamProofs!LimitsHold` | types; the limiter in memory keeps its limit in every stretch of time, the one in Redis exceeds it by at most two for each request that overlaps another |
| `UpstreamProofs!CrossingsAreReminded` | types; a crossing is reminded of, reminders are a cooldown apart |
| `UpstreamProofs!UpstreamsKeepTheirTerms` | the composition of the five modules implements each, and so keeps the types and the five properties of `upstreams` |

### The arguments

**Video tasks.** `OneWinner` is not inductive: a poller about to write needs to
know something about the row. `RaceInv` adds that a row exists exactly when its
handler inserted it, that the upstream has every inserted task, that a busy poller
works on a row it listed, that listed rows were running, and that the winner's row
is terminal. The compare-and-swap then excludes a second winner: the status listed
is not terminal, the one in the row is. `MoneyInv` says where the money of a
submission is at every place of the handler, of a poller's snapshot and of a
winner: in particular a snapshot of a row that is still running has the row's
quota, because only the winner changes the column. From it follow the three money
theorems. `TerminalIsFinal` needs `RaceInv` alone: a terminal status is written over
the status that was listed, which was a running one, and a progress status over a
running one. `NoHalfRepricing` says that no adaptor reprices on submission or no
statement fails: if both happen, `AdjustOnSubmit` may have moved the wallet and
report an error, and the handler then holds the wrong amount. The shipped adaptors
embed `BaseBilling`, which never reprices (`AdjustedQuotas = {}`).
`ClosedIsBalanced` needs `NoFaults` because a crash between verdict and payment
does strand a task, as `StrandedBounded` quantifies.

*With faults*, `MoneyInv` fails for the tasks a fault has hit, so the argument counts
them. A submission is straight when its charge is what the next statement about it
takes it to be: the handler's local variable, the quota column, the settled price or,
once nobody works on it, what the closed row says. No step bends a task it does not
work on, and only a crash or a failing statement bends that one; a task that is not
balanced at rest is not straight. So `Cardinality` of the bent tasks is at most the
number of faults. The chain the money runs along (a list shows the quota column, the
column holds the handler's price, a winner works on the status it wrote) is kept by
every step, faults included. `RefundsStaySound` follows the other way: without faults
every task is straight, so what a winner returns is what it logs; and until a
submission is repriced upwards, every reservation found its amount in the wallet.

**Sums.** A column that all calls, orders or rows change relatively is a sum over them.
`SumTheorems` shows by well-founded induction on the subsets of a finite set, with the
induction stated over one set and not over an operator, that `SumFunctionOnSet` does
not depend on the order in which it takes the indices, and so that a change of one
entry changes the sum by as much. The proofs below cite it as
a fact about one step.

**Relay billing.** `Books(call[c])` ties a call's position to what it has taken:
nothing before the wallet was debited, `held` while the upstream works,
`held + delta` after the payment, where `delta` is `-held` for an error and
`bill - held` for a served call. `BookInv` holds as long as there was no crash, no
failing statement and no deleted token; edits of the token are allowed. The other
calls cannot disturb it, since wallet and token are changed relatively.
`LedgerInv` needs no such proviso for its sums: `used_quota` and `remain_quota` are sums
over the calls of what each has drawn, and a wallet is overdrawn by at most what its
calls cost beyond their reservations. A call whose two amounts differ by more than
what its next statement is about to even out is split, and without crashes and
deletions one failing statement splits one call.
An overdraft needs a served call that cost more than it had reserved, because a
reservation is drawn only from a wallet that covers it.

**Orders.** `Inv` adds to the types that a working handler names an order and that
a handler about to write holds the order's lock and found it pending. Then no
other transaction can change the row before the commit, and `CreditedOnce` is
kept. `FinishedIsFinal` follows step by step from the same invariant. `WholeInv` adds
what a request says of its order: a webhook for a payment carries the amount the
customer sent, a request that will credit has compared it with the price
(`Sincerity`), and a request or an acknowledgement that reports a credit tells the
truth (`Announced`). The wallet is the sum of the orders marked success, since the
status and the wallet are written by one commit.

**Codes.** `CreditsBounded` is not inductive, because a form that has read an
enabled row is a credit still to come. `PotentialInv` counts it: credits so far,
plus one if the code is still redeemable, stay below one plus the saved edits.
`CopyInv` says that a copy in a form claims "used" only of a code that was paid,
`LockInv` that a writer holds the lock of a redeemable code.

**Check-in.** `ClaimInv` has two parts: `Counted`, the streak a claim has computed
is a run of claimed days up to the day before (rows are never deleted, so it stays
true while the claim waits, over midnight too), and `Sole`, a claim past its insert
is the only one with its key and the key has no committed row. `Sole` is the
unique index, and it gives `OneRewardPerDay`. What a claim pays and what the page
promises are both read off yesterday's row. Only a claim that inserts after its
midnight adds a row to a day that is over, and its user is `late` from then on; for
everybody else the row, the claim and the promise of a day agree (`RowsFollow`,
`ClaimsFollow`, `PromisesFollow`).

**The refinement.** The stage of a submission is a function of its handler, its row
and its winner. Each action either leaves the stages alone or moves one of them the
way an action of `TaskBilling` does, and `MoneyInv` gives the amounts: what a winner
returns or settles is what the stage says was charged. A crash with a task in hand is
the abstract `Abandon`. `NoHalfRepricing` is needed for the reason above.

**User rows.** `AccountInv` follows a copy from the query that read it to the statement
that writes it. `FreshInv`: every column of a copy is the row's, or was changed
since by a writer the request has been told of (`dirty`), or is the one it was asked
to change. `SoleInv`: two live rows with an identity in common are the work of a check
that was overtaken, of an administrator who typed it in, or of a copy that brought an
old one back; the last two had to be added to `contended` before the invariant was
inductive. `BanInv` follows the two steps of a ban, the list and the row; `AdminInv`
says that a copy with an administrator's role is about an account a root promoted.

**Second factors.** `CodesInv` keeps codes apart: rows and the copies handlers hold
never share a code between accounts, none is newer than `generation`, and a copy that
was not lapped holds no used code. `SecretInv`: a request about to enable TOTP has
checked a code of the secret the row still has, unless it was lapped. `KeyInv`: the
stored counter is at most the authenticator's, and a ceremony under way holds a larger
one unless another ceremony with the key crossed it. `DeleteInv`: an account being
deleted has no passkey and no registration under way unless it was overtaken.

**The limiter in memory.** Its window is the tail of the admissions, newest first, and
as long as there is room in it whatever it has forgotten is older than the duration
(`ForgottenIsOld`, which is where the expiry of keys comes in). So a request is let in
either beside fewer than N recent ones or in place of an old one.

**The limiter in Redis.** A request decides by one command and pushes by a later one.
`ListIsShort` bounds the list: with R requests at once, those that found room push at
most R - 1 entries beyond N, and each that replaced an old entry stands one over until
it has trimmed. `RecentAreFew` is what makes the bound inductive: an admission is old
once N + 2(R - 1) others follow it, less the pushes that are decided and still to come.
A decision adds one to those, and what it has read says that one more admission is old:
whatever is not in the list for a request that finds room, and the last entry for
one that finds it full, in a list that `ListIsShort` keeps short. A push turns a
decision into an admission and leaves the sum as it was.

**The reminder.** The hour kept in memory is the newest attempt (`LastSentIsNewest`),
whatever else was attempted is a cooldown old; while a crossing that no other
deduction blurred is undecided, its reservation is still on the way to report it
(`PlainIsTold`).

**Channels.** `RoutingInv` rests on the statements a handler has left. As long as a
channel is not `broken` (two writers overlapped on it, a statement failed or its row
was gone) at most one handler or sweep writes it, and its row and abilities are
`Midway`: what they hold now, followed by the statements that handler still runs,
gives the abilities the row asks for. With no writer nothing is left to run, which is
`AbilitiesFollowChannels`. For the routing table, `ReadRowsStand` says that a row the
first query of `InitChannelCache` returned is still in the table and routes as it did
unless the channel was written since; the second query then finds no ability without
its channel, and the index that would end the process exists. `CacheIsFresh` says what
a table built without such a write contains, and the choice from it is then the
choice from the tables, priority by priority.

**The success rate.** Without a lock two goroutines may work on one window, and then
nothing is promised (`torn`). `LoneConsumer` follows one that is alone: it is a known
number of accesses away from the window the outcomes consumed so far ask for, so at
rest the window is the most recent of them (`WindowIsRecent`) and a channel is disabled
on what the window says (`DisabledOnEvidence`).

**Settings.** `OptionInv` follows a key from the row to the setting. A key is `loose`
from the moment its writers or a reload overlap on it, or a save is lost, until a load
that no write crossed has read it. For a key that is not, at most one request writes
it (`OptionAlone`), the row is what that request asked for once it was saved
(`OptionWritten`), and with no writer left the map and the setting are those of the row
(`OptionFollowed`). A load under way carries rows that may be out of date.
`OptionRows` says which it can be trusted with: those of the keys that are not loose and
those no write has touched since the load read the table (`clean`), whose copy still
is the row or has already been applied; that is why the end of such a load may drop
them from `loose`. The credential needs an invariant of its own (`OptionGuarded`): while
nothing is excused, the table does not enable the provider without a credential, and no
unsaved request counts on a credential that is not there or that another unsaved one
clears. The prices follow from `OptionFollowed` and the order in which `LookUp` asks.

**Media calls.** `MediaPosting` says what a call has paid plus what its remaining
statements will pay: its cost, its reservation or nothing (`Target`); so a call without
statements left has paid exactly that, and the pools are sums over the calls
(`MediaPools`), in which a record moves from the store through the flush to the row
without a change. The overdraft needs two facts. `MediaPromised`: a call that has
looked at the balance, has not paid and was not misled sees in the pool what it is
about to pay (`Need`), since whoever else lowers the pool marks it as misled.
`MediaCovered`: the pool is at least minus the sum of what exempt calls paid beyond
what they were entitled to (`MediaOver`), which never exceeds `Unreserved`.

**Answers.** `AnswersInv` says of a stream under way (`Reading`) that the text the
handler has counted is the text it sent (`TextsCounted`), that the [DONE]s and tool calls
the client has seen are the ones the handler remembers (`DonesCounted`,
`ToolsFollowed`), and that as long as no line was damaged the usage it keeps is worth
what the upstream has reported so far (`Metered`). Every line of every adaptor keeps
these. How a stream ends (its last line, a break, a failed close) then decides the
result of the handler, and `Charge` of that result is compared with them. Once the
handler has returned nothing changes any more.

**The composition.** A step of `MCUpstreams` is a step of one module and leaves the
variables of the others alone, so a behaviour of the composition is one of each of
the five specifications, and their theorems carry over (`UpstreamStep`). The same holds
of `MCAccounts` (`AccountsStep`). Its orders are an instance of `TopupOrder`; the
theorems come from an instance of `TopupOrderProofs` with the same substitution, whose
definitions are shown to be those of the first (`SameOrdersInit`, `SameOrdersNext`,
`SameOrdersPromise`). There are two orders in it, of one user; `TopupOrderProofs` itself
speaks of any set of them.

### What is only model-checked

Liveness (`TasksResolve`, `FailuresRepaid`, `AnsweredCallsClose`, `PaymentsCredited`,
`RequestsAnswered`): TLAPS proves neither fairness nor `ENABLED`.

The types of `accounts`, `topup_liveness` and `requests_end` are in the theorems about
their modules.

## 8. Where the code and its comments disagree

Each of these runs checks one statement that a comment or a test makes, and TLC
finds a behaviour of the code that contradicts it. `PROJECT.json` quotes the
lines.

| Run | Statement | Behaviour found |
|---|---|---|
| `relay_dropped` | `ReservationReturned`: the reservation is returned on errors | `RelayTextHelper` returns early without returning it |
| `relay_status_edit` | `StatusEditKeepsBooks`: read-then-update is avoided | a status edit writes `remain_quota` back and undoes a deduction |
| `topup_cents` | `FullPaymentNotShort`: paid at least the price credits | 4.02 becomes 401 cents and is refused as short |
| `redemption_edit` | `RedeemedOnce`: a code is credited exactly once | renaming or repricing a code during a redemption enables it again |

The models contain other behaviours a comment denies. No run is spent on them;
each can be read off the action named.

* `VideoTask!RefundSubmit`: when the token was deleted while the submission was in
  flight, the handler's refund finds no token and is dropped, although
  `controller/video.go:89` says failure refunds always return the charge.
* `VideoTask!ApplyProgress`: a slow poller may write QUEUED over IN_PROGRESS, against
  the lifecycle of `model/task.go:11`.
* `VideoTask!PostConsumeOutcomes`: a failed wallet update is overwritten by the
  token update's success, and `RefundTask` logs a refund that was not paid.
* `RelayBilling!MarkExhausted`: a refund between the read and the write leaves a token
  with quota and status exhausted (`model/token.go:93`).
* `RelayBilling!DebitToken`, `RollBack`: a reservation about to be rolled back makes
  another call fail although both ledgers cover it (`model/token.go:216`).
* `TopupOrder!Meaning`: the event that confirms a delayed Stripe payment is
  acknowledged and ignored (`service/payment/stripe.go:137`), hence the exception in
  `AcknowledgedPaymentCredited`; a NOWPayments refund of a credited order changes
  nothing (`nowpayments.go:149` says it is marked failed).
* `Checkin!Insert`: gorm's error translation is off, so the loser of two clicks gets a
  database error instead of "already claimed" (`model/checkin.go:100`).

* `OptionSync!Apply`: a committed batch is applied key by key, and a reload may run
  between two keys, although `model/option.go:175` says readers never see a
  half-applied batch (and line 148 that a failed one leaves nothing visible).
* `OptionSync!UpdateRatioByJSONString`: a price text that does not parse leaves an empty
  live table until the next reload.
* `QuotaWarning!maybeSendQuotaWarning`: two reservations at once both read a balance
  below the threshold, and neither sees itself cross it; the comment at
  `model/token.go:284` says an inaccurate reading only delays the e-mail.
* `SignIn`: `Verify2FALogin` completes a parked sign-in without a code when the
  second factor was switched off in between.
* `UserAccount`: a password reset changes every account with the address; a binding
  checks the code that was mailed, not whether the address is taken.
* `ChannelRouting!TestChannels`: when listing the channels fails the running flag stays
  set and no later sweep starts; a sweep that works on an old list enables a channel
  that an administrator has disabled since.
* `MediaBilling!ImageAnswered`: an image that could not be passed on is charged, and
  charged again when the relay retries; image calls do not lower the cached balance,
  and a failed audio call does not restore it.
* `ProviderAnswers`: Ollama and Ali charge nothing for an empty answer; embeddings of
  Ali, Tencent, Gemini and Ollama and every AIProxy answer cost nothing; a Zhipu stream
  without its report keeps the reservation as its charge.
* `RateLimit`: through Redis, each request that overlaps another can add two to a
  window, one when it pushes on a length read before and one before the trim.

## 9. What is not modelled

* `RelayBilling` runs as a server without `REDIS_CONN_STRING` and
  `BATCH_UPDATE_ENABLED`; the two are in `MediaBilling`, whose calls use the same
  functions. Cached tokens, groups and statuses are left out, and so are the
  batched statistics.
* A refused request renews the expiry of a Redis limiter key; `redisExpire` may drop the
  key at any time once its newest entry is old, so the model's key may live shorter or
  longer than the real one.
* The conversion of a client's request into a vendor's format, vendor signatures and
  stored vendor access tokens, token counting, image answers of the vendors, the
  playground, usage logs and dashboards. The goroutine that reads a Xunfei socket may
  outlive a client that has gone; it holds no quota.
* The OAuth state parameter and the cookie encoding; providers answer truthfully.
* SQLite does not generate `FOR UPDATE`; it refuses the second of two conflicting
  transactions instead of letting it wait. The models let it wait; refusing is
  the outcome "dberror", which they have as well.
* A commit whose acknowledgement is lost on the way from the database is not
  modelled: a statement either fails and changes nothing, or succeeds.
* Webhook signatures are taken as valid, exchange rates as 1, settings as constant
  during a run. Expiry dates, model lists and subnets of a token only add reasons
  to deny a request before anything was reserved.
* Price formulas, token counting and format conversions are pure; the models take
  their results from sets. The one conversion a property is about, decimal amounts
  to cents, is modelled by what it does.
* `wallet` is an unbounded integer. Quotas in the code are 64-bit and the prices
  far below that limit.
* The components `PROJECT.json` lists as not modelled, each with its reason. What
  section 2 still plans is the next thing to do; the rest has no state two actors
  share.
