# Channer in TLA+

Channer is a gateway between tenants and AI providers. Tenants call it with a
prepaid API key in the protocols of OpenAI, Anthropic and Gemini; it checks the
key's quotas, reserves an amount of money, picks a provider channel for the
model, passes the request on, logs the usage and settles the bill.
Administrators edit channels, models and keys in a web console. State is kept in
a SQL database through gorm and, when it is configured, in Redis. All handlers
of all requests run at the same time, in goroutines, and there is no database
transaction anywhere: every query is a step of its own. That is what this
project is about.

Paths below are relative to `src/backend/internal/` unless they start with
`src/`. A *theorem* below is proved for all values of the constants; everything
else is checked by TLC on the instances described.

## 1. Inventory

| Component | Code | State | Operations | Modelled in |
|---|---|---|---|---|
| API keys | `handler/`, `service/`, `repository/apikey.go` | table of keys: balance, four limits, active, soft-deleted | create, update (read, merge, save), delete, recharge, deduct | `APIKeys` |
| Billing | `service/billing.go`, `middleware/apikey.go` | a lock per key, a copy of the key's row per request | authenticate, pre-deduct, refund, finalize | `Billing`, `PrepaidAccount` |
| Rate limits | `service/ratelimit.go`, `middleware/ratelimit.go` | four counters per key and window, in Redis or `memoryStore` | check, increment | `RateLimit` |
| Channels and models | `handler/`, `service/`, `repository/` `channel.go`, `model.go` | two tables with soft deletes | create, update, delete; the proxy's lookups | `Catalog` |
| Proxy | `handler/proxy.go`, `service/proxy.go` | per request: what was looked up, the answer, the usage log | the tenant routes of `cmd/server/main.go` | `Gateway` |
| Administrator accounts | `service/auth.go`, `handler/auth.go`, `repository/user.go`, `middleware/jwt.go`, start-up in `src/backend/cmd/server/main.go` | table of users; where each process is in its start-up; the tokens in each browser | default accounts, register, login, refresh, log out, authenticate | `Accounts` |
| Usage logs and statistics | `repository/usage_log.go`, `service/stats.go`, `handler/stats.go`, `src/frontend/src/pages/Logs.tsx` | the log; per reader a half-finished dashboard and a position in the pages | write a log, dashboard, usage, log pages | `UsageStats`; `Gateway` writes the logs |
| Web console state | `src/frontend/src/stores`, `src/frontend/src/api/index.ts` | tokens in localStorage; lists and a loading flag | log out, drop the tokens on a 401; fetch after an edit | tokens in `Accounts`; lists not |
| Configuration and start-up | `src/backend/internal/config`, `database` | the choices made once | read the environment, migrate | constants and `Init` |
| Console pages; CORS, logging, recovery | the rest | none beyond the above | | not modelled |

How they interact: a tenant request runs through `APIKeyAuth` (reads the key's
row once, into the request's context), `RateLimit` (reads four counters), and a
handler, which calls `PreDeduct`, the proxy service (two lookups, the provider,
one log), `FinalizeBilling` or `Refund`, and `IncrementCounter` (writes the four
counters). Administrators' requests change the tables between any two of these.
The billing lock and the counters share one Redis. The statistics routes run
behind `JWTAuth`, whose query and theirs interleave with changes to the accounts
and with the logs of tenant requests (`Console`).

What is hard about it, and which property says that it goes right:

- *Stale copies.* The balance that `PreDeduct` tests was read two middlewares
  and a lock earlier; an administrator's update writes back a whole row. No
  overdraft (`NonNegative`), no money from nowhere (`Conserved`).
- *The lock.* A Redis key with a time to live, deleted by whoever comes to it;
  or a mutex. How many requests can be inside (`LockBudget`,
  `MutualExclusion`), and does anybody wait for ever (`ReservationEnds`,
  `LockFreed`).
- *Reserve, then settle.* Each reservation has to be given back at most once,
  over all the ways out of a handler, failing queries and crashes
  (`ImplementsAccount`), what failed must have been repaid (`FailuresRepaid`),
  and nothing but an answer may be counted (`OnlyAnswersCounted`).
- *Soft deletes.* gorm's `Save` of a row that was deleted meanwhile inserts it
  again (`DeletedFrozen`, `RevivedActive`), and unique indexes cover deleted
  rows (`NamesUnique`).
- *Quotas.* Check and increment are a whole request apart, in different minutes
  or days, each in four queries (`OvershootBounded`, `CounterExact`,
  `DayCoversMinutes`, `QuotaMatchesLog`).

- *Look, then insert.* Register and the creation of the default accounts look
  for a name and insert it later; several processes start on one table, and may
  die in between (`DefaultsPresent`, `TokensBelong`).
- *Tokens outlive what they say.* They carry a name that may since have been
  disabled, and are signed for a row that was read before bcrypt; every use
  reads the row again (`ServedWereEntitled`), and must not turn away a good
  token because of another process, a restart or another tab
  (`RefusedForCause`).
- *Answers put together from several queries.* Seven of the dashboard and one
  per page of the log, while logs arrive, late ones too, and midnight passes
  (`FiguresWithin`, `NeverFewer`, `NoLogSkipped`).

The hazards in `PROJECT.json` list these line by line, with those no property
covers yet.

## 2. Modules

```
APIKeys <- Billing <- Gateway         PrepaidAccount   what billing promises
              |          |
              |          +-- Rate == INSTANCE RateLimit
              |          +-- Cat  == INSTANCE Catalog
              +-- Account == INSTANCE PrepaidAccount (refinement mapping)

Accounts, UsageStats <- Console

MCBilling, MCRateLimit, MCCatalog, MCGateway, MCConsole: constants for TLC

Billing  <- BillingProofs <- BillingRefinement
Gateway, BillingProofs <- GatewayProofs, with RateP == INSTANCE RateProofs
                                         and CatP == INSTANCE CatalogProofs
SumProofs, RateLimit <- RateProofs    Catalog <- CatalogProofs
Accounts, Console <- AccountsProofs   SumProofs, Console <- StatsProofs
```

The two halves meet in the usage log: what `Gateway` says of each log (one per
request that was answered, with its cost) is, for `UsageStats`, the `Workload`
whose logs arrive at any time.

**APIKeys.** `row` is the table; a row is absent, live or (soft-)deleted.
`CreateKey`, `RechargeKey`, `DeleteKey` are one query each; an update is
`UpdateLoad`, which reads and merges (`draft`), and `UpdateSave`, which writes
all columns. `Recharge` and `DeductBalance` are the two conditional UPDATE
statements. `Save` and `OnInsert` are what gorm does: an update of a row that
is no longer live becomes an insert that overwrites it, and an insert replaces
zero fields by the column's default (so an inserted key is always active).
`deposited` and `clobbered` are history variables: what was paid in, and which
keys had their money overwritten by a save.

**Billing.** `pc` is where a request is. `AcquireLock` is one round of the lock
loop that succeeds; `PreDeduct`, `Refund` and `FinalizeBilling` are what
happens with the lock held, the query and the deferred unlock together (nobody
else reads the lock between them that could tell them apart). `ExpireLock` is
the time to live of 10 s, `LoseReply` a SETNX that worked and whose answer got
lost, `RedisDown`/`RedisBack` an outage, `Crash` a restart of the process.
`HandlerOutcome` and `CheckRateLimit` leave open what `Gateway` works out.
`getModel` is `NoModel`, because the method of that name returns nil.

**PrepaidAccount.** The abstract specification: funds, and a reservation per
request that is held, given back once, or forfeited. No locks, no copies, no
queries.

**RateLimit.** A check or count takes the time once and then goes through the
four counters, one action each (`CheckCounter`, `CountNext`). `getCount` falls
back to memory when Redis has no counter or cannot be reached; `increment`
never does. Workers are connections, each serving one request after another.

**Catalog.** Creating a channel looks for the name (`CheckName`) and inserts
(`InsertChannel`); updates load and save. `CheckName` takes a look-up that fails
for a name that is free, as `service/channel.go` does; whether queries fail is
`LookupMayFail` (`DBMayFail` in `Gateway`). Every other failing query of the
administrators ends their request and changes nothing. `GetByModelID`,
`GetAvailableByModel` with its hand-written join, and the choice of the first
channel are operators that `Gateway` uses.

**Gateway.** Every tenant request end to end: `Arrive`, `StartCheck`,
`CheckQuota`, Billing's lock and `PreDeduct`, then `ParseBody`, `LookupModel`,
`LookupChannel`, and one of `Unreachable`, `FailUnlogged`, `AnswerWhole`,
`AnswerStream`; refund or settlement; `StartCount`, `CountOn`, or `Leave`.
Each handler step is either a stutter of Billing or its `HandlerOutcome`, so
that all Billing steps here are steps of `Billing`. The endpoints differ in
what they look up and in what they do with the reservation: streams keep it,
as do chat answers without choices; `/info` and streamed Gemini requests
reserve nothing.

**Accounts.** `user` is the table, a row is absent, active, disabled or
(soft-)deleted, and remembers who created it (`by`), which stands for who knows
its password. `proc` is where each process is: `Start`, then `LookDefault` and
`InsertDefault` for both default accounts, then serving; any error counts as
"not there", as in the code. A client has one request at a time (`job`):
`Register` (the look-up) and `InsertUser`; `Login` or `Refresh` (the row is
read) and `Issue` (the tokens are signed and arrive); `Send` and `JWTAuth`.
`Refuse` is a 401 together with the console's answer to it, which removes the
tokens in `wallet`, the localStorage that the tabs of one `browser` share.
`EditUser` is what an operator does in SQL, since no route changes a user.
`entitled` and `lapsed` are history variables in a request: whether its account
has been good, or not, at some time since it was sent. `missed` remembers
default accounts that a failing query kept from being created.

**UsageStats.** A log is stamped (`Stamp`) before it is inserted (`Write`), so
logs can appear behind later ones. `Query` is one of the dashboard's seven
queries and `TakeDate` the one moment at which "today" is fixed; a failing
query leaves 0, as its error is dropped. `Usage` is `GetStats`, `ReadPage` one
page of the log list, ordered by stamp and cut by offset. `since`, `base`, `on`,
`least` and `whole` are history variables in a dashboard.

**Console.** The two together: a statistics request is a served job of
`Accounts` whose queries are those of `UsageStats` (and fail on the same
budget), a crash abandons the answers its process was working on, and one clock
dates tokens and logs.

## 3. Runs

| Run | Instance | Shows |
|---|---|---|
| `billing_money` | 2 requests, 1 administrator, 1 key, deposits up to 3 fees, mutex, a crash, failing queries | `TypeOK`, `NonNegative`, `Conserved`, `MutualExclusion`, `DeletedFrozen`, and `ImplementsAccount`: every step is one of `PrepaidAccount` or a stutter |
| `billing_redis` | 3 requests, Redis lock, one fault (outage, lost answer, crash), one lock running out under a request | `LockBudget`; with Redis coming back, `ReservationEnds` and `LockFreed` |
| `rate_memory` | 2 workers, minutes 0-2, two minutes a day, a crash | `RateTypeOK`, `OvershootBounded`, `CounterExact`, `DayCoversMinutes` |
| `rate_redis` | 2 workers, the minutes around midnight, counters that run out, an outage or a crash | the last three, for Redis |
| `catalog_edit` | 2 administrators, 2 channels, 2 names, 1 model; look-ups may fail | `CatalogTypeOK`, `NamesUnique`, `RevivedActive` |
| `gateway_money` | 2 chat requests (whole, streamed, unreadable), catalog and key may be deleted | `GatewayTypeOK`, `QuotaMatchesLog`, `FailuresRepaid`, `RequestEnds` |
| `gateway_redis` | 1 request of every kind, failing queries, one fault of any kind, expiring lock and counters | `OnlyAnswersCounted`, `FailuresRepaid` |
| `console_stats` | 2 processes, 2 clients, 2 browsers, the default accounts and one more name, 2 keys, 1 channel, 3 logs, in the situations below | `AccountsTypeOK`, `DefaultsPresent`, `TokensBelong`, `ServedWereEntitled`, `RefusedForCause`; `StatsTypeOK`, `FiguresWithin`, `NeverFewer`, `NoLogSkipped` |

Four runs end in a counterexample: what the code does is not what a document
or a comment says.

| Run | Statement | What happens |
|---|---|---|
| `billing_lost_update` | `AccurateTracking`: "accurate cost tracking" | an administrator's update that overlaps a recharge or a reservation writes the old balance back (`handler/apikey.go:147`) |
| `rate_outage` | `LimitedInOutage`: the memory store is "for when Redis is not available" | in an outage, without any crash, checks read a store nobody writes to, and a minute has more answers than its limit, even granted once more for every outage (`service/ratelimit.go:135`) |
| `catalog_deleted_model` | `AvailableAsDefined`: models define availability | the join sees models that were deleted (`repository/channel.go:70`) |
| `gateway_cost` | `SettledAtCost`: the bill is settled at the actual cost | `getModel` returns nil, every settlement is a full refund (`handler/proxy.go:218`) |

`LimitedInOutage` is about the outage and nothing else: crashes, which empty the
memory store and drop the workers, are exempt, and each outage grants the limit
once more, because the memory store starts from nothing. On the same instance
without a fault TLC finds no violation, nor with outages when `increment` falls
back to memory as `getCount` does.

Other things the models do because the code does, where no property claims the
contrary. A stream costs its whole reservation, and so does one that fails: if
there is no such model, no channel, or nobody answers
(`service/proxy.go:229-240`, `258-270`, after which `handler/proxy.go:59-62`
just returns), and if it is an Anthropic stream, which is always answered with
501 (`handler/proxy.go:164-169`). This is at odds with the billing model of
`src/README.md:201-203`, as `gateway_cost` is; no run is about it, and
`FailuresRepaid` does not claim it away: such requests are among those of
`MayOwe`. On the other side, an answer that is settled costs nothing, since
`getModel` returns nil (`gateway_cost`), so being answered and being repaid do
not exclude each other, and no property says that they do.

Also, only the first channel is tried, though the README of the repository
speaks of failover; a request may be refused for a
balance that has been recharged since it was authenticated; a lock that runs
out lets a second request in (`LockBudget` says how many); requests in flight
are not counted, so quotas can be overshot (`OvershootBounded` says by how
much); during an outage of Redis requests wait in the lock loop. Further:
`GetStats` ignores the channel it is asked for, and without a filter the
handler asks for key 0; a refresh token can be used any number of times until it
expires; the answer to a login says `expires_in` 86400 whatever the configured
lifetime; a 401 that arrives late removes newer tokens, too; the console keeps
its refresh token and never uses it; a dashboard whose queries fail shows zeros
with status 200, and an account whose creation failed at start-up can be
registered by whoever comes first.

Beside many definitions stands a *mutant* of them (`SufficientIfLive`,
`SetLock`, `TTLInSeconds`, ...): the same operator with a plausible bug. No
specification uses them. Putting one in the place of the original makes TLC find
the property that `PROJECT.json` pairs it with violated, which shows that the
property can fail.

### Bounds, and why they are enough

- *Two or three requests on one key.* Keys share nothing, so one key shows what
  they can do to each other. Two requests give every overlap of a reservation
  with another or with a refund; the third in `billing_redis` is the one that
  enters after somebody else's lock was deleted.
- *One administrator* in `billing_money`: an update that is stale against
  requests, recharges and deletes, all of which run freely. Two in
  `catalog_edit`, where updates race each other.
- *`PreDeductAmount` = 1, keys created with 0 or 2 of it, recharges of 1,
  `MaxDeposits` = 3*: balances below, at and above the fee. `Usages` only matter
  for what the log says.
- *`MaxFaults` = 1, `MaxOverruns` = 1*: one fault at any point; the budgets
  in the properties grow with the number of faults, and the theorems cover any
  number of them.
- *`MinutesPerDay` = 2* puts a change of day inside three minutes. Limits are 1
  to 3 and tokens 0 or 2, so that each of the four counters refuses something.
  `rate_redis` starts in the last minute of a day (`StartMinute` = 1) and scales
  the minute's time to live to 1, so that counters run out within the bound.
  `MaxAnswers` bounds the answers per minute. Without an outage it lies above
  what the quotas let through. In `rate_redis`, where it is 3, an outage cannot
  use up all that `OvershootBounded` grants it; that share is left to the
  theorem. In `rate_outage` it is 5, one more than `LimitedInOutage` grants.
- *One channel and one model row* in `gateway_*`; `catalog_deleted_model` has
  two of each, which the stale join needs.
- *`console_stats`* starts in one of the `MCSituations`, each with a budget
  (`spare`) of starts, entries (registrations and logins), failing queries,
  crashes, edits and days. `Deploying`: two people, each with a browser, while
  both processes start, crash and start again, on an empty table or on one whose
  admin was deleted; four entries let both register the same name and log in,
  before and after. `Sharing`: two tabs of one browser, so that each one's login,
  refresh or refusal meets the other's request. `Watching`: one person logged in
  who reads up to three or four statistics (`visits`) with up to three logs
  (`traffic`), two switches (`switches`), a failing query or the end of a day in
  between. All faults at once in one situation would only multiply the states:
  the accounts' properties are proved for every situation (section 4), and the
  statistics only see that a request ends.
- *A clock of days, `AccessExpiry` = 1, `RefreshExpiry` = 2.* The code has 24
  and 168 hours; what matters is that one token expires before the other and
  both within the bound. The day is also the grain of "today".
- *`PageSize` = 1* for the code's 20, so that three logs are three pages; two
  logs never have the same stamp (with equal ones the order of the pages is the
  database's).
- Symmetry over processes, clients and browsers: steps and properties treat
  each alike, whichever of them a situation starts with.
- Deadlock is not checked in the Billing, Catalog, Gateway and Console runs: each request is
  served once, ids or budgets are used up, and these systems come to rest. RateLimit's
  workers go on for ever, and its runs check for deadlock.

### Fairness

`FairSpec` and `FairGatewaySpec` assume weak fairness of each request's steps
(the Go scheduler runs every goroutine, queries end, and the upstream client
has a timeout of 120 s) and of `ExpireLock` (Redis removes keys whose time has
come). `RecoveringSpec` adds that Redis comes back, which the lock loop needs:
it drops errors and tries again for ever. Nothing is assumed of administrators,
crashes or clock ticks.

## 4. Proofs

Every safety property of the runs that pass, invariant or action property, and
the refinement of `PrepaidAccount` are also theorems: TLC checks each on the
instances of section 3, TLAPS for all values of the constants that the named
assumptions admit. Liveness is the exception (*Only model-checked*, below).

### Billing

`BillingProofs` proves, for any number of requests, keys and administrators,
any amounts, with or without Redis, and any number of faults:

| Theorem | States |
|---|---|
| `TypeCorrect` | `Spec => []TypeOK`; in particular no limit of a key is ever 0 |
| `NeverOverdrawn` | `Spec => []NonNegative` |
| `DepositsConserved` | `Spec => []Conserved` |
| `OverlapBounded` | `Spec => []LockBudget` |
| `MemoryLockExcludes` | without Redis, `Spec => []MutualExclusion` |

They rest on the named assumptions of `APIKeys` and `Billing`: limits of the
default are positive, request bodies carry non-negative numbers, the fee is
positive, requests are finite in number.

*Money.* `NonNegative` and `Conserved` are not inductive. A save writes back
what a draft holds, so the drafts must be non-negative as well
(`DraftsNonNegative`); and a key that is created must not already be owed
reservations, so no request may hold one on an absent key (`NoEarlyHolds`). The
inductive invariant is `MoneyInv`: `TypeOK` and these with the two. The main
lemmas are about how `Held` and its cardinality change when one request moves
(`Cardinality` of a set with one element more or less), and about what
`Recharge`, `DeductBalance` and `Settle` do to a balance.

*Lock.* `TypeOK /\ LockBudget` is inductive with the slack that counts the free
lock; without Redis, `NoOverruns` (no lock ever runs out) turns the budget into
mutual exclusion.

`BillingRefinement` proves, under the same assumptions:

| Theorem | States |
|---|---|
| `BillingRefinesAccount` | `Spec => ImplementsAccount` (`Account!Spec`) |
| `DeletedKeysFrozen` | `Spec => DeletedFrozen`, an action property |

Each step of Billing is one step of `PrepaidAccount` or leaves its funds, states
and reservations as they are: the steps of the lock, of the middlewares and of
the environment stutter, `PreDeduct` is a reservation, `Refund` and
`FinalizeBilling` give it back, a crash forfeits what is held. Besides
`MoneyInv`, whose non-negative drafts make a save a legal change of funds, this
needs that a draft is a copy of a row that has existed (`DraftsExist`), so that a
save may reopen a closed key but never opens one that was not created.

### Accounts and console

`AccountsProofs` proves, for any processes, clients, browsers and names, any
table that an earlier deployment may have left and any budget of faults:

| Theorem | States |
|---|---|
| `TypesCorrect` | `AccountsSpec => []AccountsTypeOK`; in particular no token outlives its configured lifetime |
| `DefaultsArePresent` | `AccountsSpec => []DefaultsPresent` |
| `TokensAreOwned` | `AccountsSpec => []TokensBelong` |
| `OnlyEntitledServed` | `AccountsSpec => []ServedWereEntitled` |
| `RefusalsHaveCause` | `AccountsSpec => RefusedForCause`, an action property |
| `ConsoleImplementsAccounts` | `ConsoleSpec => AccountsSpec`, so all of these hold in `Console` (`ConsoleKeepsAccounts`) |

They rest on `AccountsAssumption` (the two default names differ, and no name or
browser is one of the markers) and, for `Console`, on `ConsoleAssumption`.

The inductive invariant is `AccountsInv`. `DefaultsPresent` alone says nothing
of processes still starting, so `DefaultsKept` adds that a process which has
come past an account knows that it was made, and that nobody but start-up makes
a default account, which in turn holds because requests are only at processes
that serve. `TokensBelong` needs `IssuesBelong`, the same of tokens that are
about to be signed, and `Owned`: rows never go away and never change owner.
`ServedWereEntitled` needs `HistoryKept`, what the two history variables of a
request on its way say of its account now. The proof does not go through every
pair of an action and a conjunct: `StepShape` says what any step does to one
row, one wallet, one process and one request; each action has this shape
(`StartupShape`, `RequestShape`, `OtherShape`), and steps of this shape keep
the invariant (`ShapeKeeps`).

### Catalog

`CatalogProofs` proves, for any administrators, channels, models and names:

| Theorem | States |
|---|---|
| `CatalogTypeCorrect` | `CatalogSpec => []CatalogTypeOK` |
| `ChannelNamesUnique` | `CatalogSpec => []NamesUnique` |
| `OnlyStaleUpdatesRevive` | `CatalogSpec => RevivedActive`, an action property |

`NamesUnique` holds of all rows, deleted ones too, because the database checks
every insert and every save (`NameFree` and the unique index), whatever the
handler's earlier look-up said; with the types it is inductive.

### Rate limits

`RateProofs` proves, for any workers, keys, limits, clock, times to live and any
number of crashes and outages:

| Theorem | States |
|---|---|
| `RateTypeCorrect` | `RateSpec => []RateTypeOK` |
| `QuotaOvershootBounded` | `RateSpec => []OvershootBounded` |
| `MinuteCounterExact` | `RateSpec => []CounterExact` |
| `DayIncludesMinutes` | `RateSpec => []DayCoversMinutes` |

`RateAssumption` asks of the times to live only that a counter of a minute
lasts at least a minute (`MinuteTTL` is at least 1), of limits that they are
positive, which `BillingProofs!TypeCorrect` shows of every row.

All three invariants contain `StoreInv`: the types, `FutureEmpty`, `AtPast`,
`MemoryUnused` and `OutageCounted`, none of which speaks of limits.

- *Overshoot* (`QuotaInv`). The bound says nothing of who may still add to a
  counter, so it is not inductive. `Pending(ctr)` is the set of workers that may
  add to a counter and will not be checked against it before: those counting
  that have not come to it, those let in, and those in a check that has passed
  this metric or looks at an earlier window. `WithinQuota`: the count, with one
  answer for each of them, is within the slack of the outages so far; during an
  outage the pending workers have no claim, because nothing is written, and when
  it ends they get the share that `outages` has grown by. It needs that nobody
  adds to a window of the future (`FutureEmpty`, `AtPast`), that with Redis the
  memory is empty (`MemoryUnused`: increments never fall back, so what a check
  reads instead of a counter that is not there is 0), and that an outage going on
  has been counted (`OutageCounted`). A counter that runs out, or a crash, only
  lowers the left side.
- *Exactness* (`ExactInv`). A counter of the running minute has counted the
  answers of the minute but for the workers at its first increment. That a
  counter does not run out before is `Outlasts` (its time to live is set again by
  every increment), and a new minute starts from nothing by `FutureEmpty` and
  `NotYetAnswered`.
- *Days* (`DayInv`). `DayFull` is the property with the share of an outage taken
  at its beginning; `DayLasts` that a day's counter lasts 25 hours from the day's
  begin, which is why, in Redis, the property is about days that began no longer ago
  than that. `TotalMoves` says how a sum moves with one of its counters.

### Gateway

`GatewayProofs` proves, for any requests, answers, catalogs, prices and limits,
and for any faults:

| Theorem | States |
|---|---|
| `GatewayTypeCorrect` | `GatewaySpec => []GatewayTypeOK` |
| `GatewayRefinesBilling` | `GatewaySpec => Spec`: the gateway is a behaviour of `Billing` |
| `GatewayMoneySafe` | so `NonNegative`, `Conserved` and `LockBudget` hold end to end |
| `FailedHaveTheirMoney` | `GatewaySpec => []FailuresRepaid` |
| `CountsOnlyAnswers` | `GatewaySpec => []OnlyAnswersCounted` |
| `CountsMatchLog` | `GatewaySpec => []QuotaMatchesLog` |
| `CountersSafe` | `CounterExact` and `DayCoversMinutes` hold end to end |
| `GatewayNamesUnique` | `GatewaySpec => []Cat!NamesUnique` |
| `GatewayRevivedActive` | `GatewaySpec => Cat!RevivedActive`, an action property |

They rest on `GatewayAssumption` (requests, tables and answers are of their
types, the markers `NoAnswer`, `NoLog` are none of the values they stand
beside, and the channels' names start unique, as the table's index has it) and
`PartsAssumption`: RateLimit and Catalog are used within theirs.
`RateProofs` and `CatalogProofs` are instantiated, and their lemmas about single
actions cited; `QuotaMove` says which of RateLimit's actions the gateway takes
(checks are made against the limits of the row that was read, which RateLimit
leaves fixed).

`GatewayInv` says where each request can be and what it then has: one that is
sent has a channel (`ChosenToSend`) and a body that parses (`Parsed`), before
the provider answers there is no answer and no log (`Unanswered`), what is
settled and counted is an answer (`Answered`), a reservation is kept only for an
answer or for a stream that was asked for in earnest (`KeptOwed`), and none is
lost without a fault (`NoneLost`). `Outcome` collects the ways a handler's step
can end, and `Quiet` what all other steps leave alone. `FailuresRepaid` then
follows from `Conserved`: a key is short of what its requests still hold, and at
the end those that hold something are those that `MayOwe`.

`OnlyAnswersCounted` bounds counters by answers, so it says nothing of a request
that has yet to be counted; its invariant `CountInv` adds that who is counting
has an answer and has been settled (`AnswersCounting`), and that the day
counters of a key add up to no more than the requests which have passed their
third increment, or never will (`DaysBounded`). Unlike `CountsMatchLog` below,
it holds with any faults: a counter that runs out, or a restart, only lowers the
left side, and a request that has ended stays as it is (`FinalStays`).

`CountsMatchLog` needs an invariant about requests on their way (`TallyInv`): a
request that was let in stays so until it is counted or ends (`InHand`), what is
counted was logged and settled (`LoggedToCount`, `CountedSettled`), and the day
counters of a key add up to the requests that have passed their third increment
(`DaysMatch`, with `Tallied`). The third increment is the step at which both
sides grow by one. In Redis the day's counters run out after 25 hours, so the
property speaks of gateways that have not run for that long (`DaysLast`): after
it, counters disappear one by one, and logs do not.

The invariants of RateLimit and Catalog hold in the gateway because its steps are
theirs: `CountersNext` says so of `ExactInv` and `DayInv` with the limits of any
copy of a row in the place of `LimitsOf`, and `CatalogStep` that requests and
restarts leave the catalog's rows alone.

### Statistics and sums

`StatsProofs` proves, for any logs, keys, readers, days and page sizes, of
`UsageStats` alone (`StatsSound`) and of the whole console:

| Theorem | States |
|---|---|
| `ConsoleStatsTypeCorrect` | `ConsoleSpec => []StatsTypeOK` |
| `DashboardsConsistent` | `ConsoleSpec => []FiguresWithin` |
| `AnswersAgree` | `ConsoleSpec => []NeverFewer` |
| `PagesComplete` | `ConsoleSpec => []NoLogSkipped` |

`NoLogSkipped` is inductive as it stands: a new log moves others to a later page
and never to an earlier one (`PlaceIn`), and page `n + 1` holds what is less than
a page below page `n`. For a dashboard the invariant is `ViewsSeen`: each figure
that has been taken is between the figure of the logs that were there at its
first query and that of the logs there are now. Figures only grow with the set
of logs they are taken of, and today's figures move with the date that the
dashboard has fixed.

The sums of costs and counters are `SumFunctionOnSet` of the community modules,
defined by a `CHOOSE` of an element at each step. `SumProofs` shows the laws that
the others cite: the element taken does not matter (`SumLaws`), a sum grows with
its set (`SumMonotone`) and depends on the elements' values only (`SumsAgree`).
Induction by the library's theorems is out of reach, so these are proved from a
smallest counterexample: the library states that strict inclusion among the
subsets of a finite set is well-founded, so a set of subsets that is not empty
has a minimal one (`SmallestSet`).

### Only model-checked

`RequestEnds`, `ReservationEnds` and `LockFreed`: liveness under fairness needs
`ENABLED`, which this prover does not treat. The four
violations are counterexamples and need no proof.

## 5. What is left out

- Money is an integer of a smallest unit. The code uses floats, whose rounding
  is not modelled. Opening balances and prices are taken to be non-negative;
  the console's forms see to that (`src/frontend/src/pages/Keys.tsx`), the
  handlers do not.
- A `Save` that overwrites `clobbered` money is exempt from `Conserved`; the
  run `billing_lost_update` is about exactly that.
- URLs, provider keys, message bodies and headers: a request is its endpoint,
  model and whether its body parses; an answer is its token counts.
- `memoryStore` grows without bound in the code; the clock is bounded here.
- Queries are atomic, as single SQL statements are. So are two pairs that the
  code sends as one: the pipeline of INCRBY and EXPIRE (`increment`), which here
  is executed once and as a whole or not at all, so that there is no increment
  whose answer is lost and no counter without a time to live; and gorm's `Save`,
  which is an UPDATE followed, when no row matched, by an INSERT (`Save` of
  `APIKeys`, `Saved` of `Catalog`).
- The test of a token's type (`claims.Type`): a client here sends its access token to
  the admin routes and its refresh token to the refresh route, never the other
  way round, so in `Valid` and `Refresh` that test would always succeed.
- Roles and e-mail addresses of users: they are stored and nothing reads them.
- The lists the console's stores hold: whatever answer comes last is shown, so
  two fetches in flight may leave the older list on screen. There is no guard
  whose working could be checked; the stale update that an edit form then sends
  is in `APIKeys` and `Catalog`.
- Signatures: a token is what it says, and nobody can make one.
- Rendering in the console, reading of configuration, logging, CORS, the
  recovery from panics.

## 6. Plan

Done: all modules, their runs, and a theorem for every safety property that the
runs check. What is left of the code holds no state or decides nothing
(section 5).

Next, proofs, in this order:

1. An abstract specification of one request (refused, answered or failed, with
   its money and its counts) that the gateway implements.
2. What a request is sent with: that the channel and the price it was given were
   those of rows that existed at its look-ups, as an invariant over the catalog's
   edits.

`OvershootBounded` is not among them: a caller of `Gateway` is one request, so no
more than one answer per caller is ever counted there, and the bound says
something only of `RateLimit`'s workers, which go on for ever.
