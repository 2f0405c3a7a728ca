# PiPiMink in TLA+

PiPiMink is a Go server that routes chat requests to the language model that
suits them best.  A *meta-model* picks a model from a snapshot of the enabled
ones, the decision is cached, the chosen model is called at its provider through
a rate limiter, and the decision is logged for analytics.  Beside the requests,
administrators and background jobs change which models there are.

This directory models the parts of the server where goroutines meet: TLA+
modules translated from the Go code, TLC configurations that check small
instances, and theorems with proofs TLAPS checks.

    tlc -config MCRouting.cfg MCRouting.tla        # a run
    tlapm DecisionCacheProofs.tla                  # the proofs of a module

`PROJECT.json` lists the components, the runs, for every property a wrong variant
of the code it rejects ("mutants"), for every definition the source lines it
stands for ("map"), the disagreements found between code and documentation
("findings"), the hazards, and the theorems.

## 1. The system

| component | state it keeps | operations | what makes it correct |
|---|---|---|---|
| Routing decision cache (`internal/llm/decision_cache.go`) | map of decisions with an expiry, LRU list of keys, atomic counters, one mutex | `getWithStatus`, `set`, `removeItem` | map and list agree (otherwise the eviction loop spins with the mutex held), the limit holds, LRU order, nothing served beyond its TTL, counters add up |
| Rate limiter (`internal/llm/rate_limiter.go`, `client.go`, `chat.go`, `model_tags.go`, `model_list.go`) | per provider `lastRequestTime`, `waitSeconds`, a mutex; the client's table of limiters | `Wait`, `UpdateLastRequestTime`, `SetProviders`, the requests around them | requests keep their distance, nobody starves behind the sleeper, a reload does not restart the timing |
| Model registry (`internal/database`, `internal/models`, `cmd/server/models.go`, admin handlers in `handlers.go`) | tables `models`, `benchmark_results`, `routing_decisions`; the collection in memory, keyed by name only | enable, disable, reasoning on and off, reset, delete; discovery, tagging, full update, benchmark, reload, restart | memory mirrors the table, deletion is permanent, only tagged or explicitly enabled models are routable, cleanup disables only untagged models |
| Chat routing (`handlers.go`, `ollama_handlers.go`, `model_selection.go`, `analytics_handlers.go`) | per request: snapshot, decision, model looked up again; rows not yet logged | the `/chat`, OpenAI and Ollama endpoints, the logging goroutine | only enabled models are called, the cache remembers only usable names, logged rows name who answered, deletion also deletes analytics |
| Operation progress (`models.go`, `handlers.go`) | one record per kind of operation, shared by runs and status handlers | start, step, finish, read | a finished record counts every model of its run, and none is left at "running" |
| Provider configuration (`providers.go`, `config.go`, `apikeys_handlers.go`, `client.go`) | provider list in memory, `providers.json`, the client's copy, results of connectivity tests | add, update, delete, toggle, replace model overrides, test, resolve keys, restart | memory, file and client agree unless a save failed; calls send the keys of the environment |
| Settings and `.env` (`dotenv.go`, `settings_handlers.go`, `settings_registry.go`, `config.go`) | `.env`, its temporary file, the environment of the process, `Config` | read, merge, write, rename, apply, restart | the file is never torn, loses no change, keeps what nobody asks to change, and a restart gives what the process runs with |
| Accounts (`oauth_handlers.go`, `auth_admin_handlers.go`, `token_handlers.go`, `auth_middleware.go`, `database.go`) | tables `users` and `user_api_tokens`, session cookies, the state of OIDC discovery | discovery, login, logout, add, change role, delete, tokens, the middleware | roles are the ones granted, somebody can administer |
| Benchmark suite (`internal/benchmark`) | task results, a semaphore, a wait group | run, score, judge | no more models at once than configured, nobody waits for a slot for ever, a run ends after its goroutines, what is saved belongs to a model that exists |

Pure I/O, generated code and read-only parts (analytics queries, telemetry, MLX
detection, request validation, the web console, the generated API documentation)
are listed in `PROJECT.json` with the reason they are not modelled.

### How the components meet

* A request takes a **snapshot** of the collection under `modelMutex`, asks the
  cache and perhaps the meta-model *without* the mutex, then looks the chosen name
  up **again**.  Everything an admin or a background job does may come in between.
* Admin handlers change the **database first and memory next**, in two critical
  sections.  Background jobs work row by row in the database for minutes, then
  read the table and replace the collection, again in two steps.
* The table has the key *(name, source)*; the collection has the key *name*.
* The cache and the limiters are shared by all request goroutines; both read
  the clock, and one of them sleeps, around their critical sections.
* Tagging and benchmark runs write to the progress record **in place now**, which
  a later run may have replaced, and benchmark suites without a record of their own
  (queries, the scheduler) write to that of others.
* Provider handlers change the list, save it and hand it to the client while they hold
  `providerMutex`; a connectivity test lets go of it, and an API key changes the
  environment before it is taken.
* Settings and API keys go through **one** temporary file, without a lock.
* A login reads the account, counts the users and writes the whole row, with other
  logins and administrators in between; the middleware reads the role anew for
  every request, but not again while it is served.
* A decision is logged by a goroutine that may run after the answer was sent,
  after a deletion, or never (the process dies).

The hard behaviours are therefore interleavings, stale reads, partial failures
and restarts; `PROJECT.json` lists them as hazards, each at its line.

## 2. Modules

| module | models | state and actions |
|---|---|---|
| `DecisionCache` | `decision_cache.go`, and the calls of it in `DecideModelBasedOnCapabilities` | `entries` (the map), `order` (the list), `stats` (the counters), `call[g]` (a goroutine between reading the clock and its critical section), `clock`. `BeginGet`/`BeginSet` read the clock; `GetMiss`, `GetExpired`, `GetHit`, `SetOverwrite`, `SetInsert` are the critical sections, the eviction loop included |
| `DecisionMemo` | what the cache promises | a memory that may forget any time, but never answers with anything but the last decision recorded for the key |
| `RateLimiter` | `rate_limiter.go`, `SetProviders`, the requests | `limiter[r]` (objects, which a request may still hold after the client dropped them), `limiterOf`, `caller[g]`. `Wait` is `Pass`, or `Sleep` then `Wake` with the mutex held; the end of a request is `End`, then `Record` |
| `ModelRegistry`, `UndisturbedRegistry` | the database rows, the collection, admin and background operations | `table`, `scores`, `decisions`, `memory`, `op[o]` (what goroutine `o` has still to do); each statement or transaction and each critical section of `modelMutex` is one action |
| `Routing` | chat requests; extends `ModelRegistry` | `req[g]`, `lookup`, `memo` (an INSTANCE of `DecisionMemo`), `unsaved` (rows whose goroutine has not run); `RegistryStep` lets any registry operation run in between |
| `Operations` | progress records, tagging and benchmark runs, the suite's goroutines | `progress[f]` (the record the pointer of family `f` leads to), `run[r]` (a goroutine going through its list: `Begin`, `NextTarget`, `SkipTarget` / `Interview` / a suite, `CountTarget`, `Finish`), `slots[r]` (the semaphore), `worker[r][m]` (`Spawn`, `RunTask` with `OnProgress`, `Release`, `Done`) |
| `Settings` | `dotenv.go`, the handlers of settings and API keys, `SetSettingValue`, `Load` | `dotenv`, `tmp`, `osenv`, `config`, `req[r]` (a request between two system calls, and where the file it has open is by now). `Read`, `Open`, `Write`, `Rename` are the system calls, with their failures; what they write and read again goes through `godotenv` (`Marshalled`, `Reread`); `ApplyKey` and `SetSettingValue` change the memory name by name |
| `Providers` | `providers.go`, `SaveProviders`, `loadProviders`, `ResolveProviderKeys`, the client's copy | `memory`, `file`, `client`, `shared` (whose overrides are one array in both), `osenv`, `stored`, `resolving`, `testing`, `results`. A handler under `providerMutex` is one action; `StartTest` and `EndTest`, `ChangeKey` and `resolveAllProviderKeys` are two each |
| `Accounts` | logins, administrators, tokens, middleware, discovery | `users`, `tokens`, `sessions`, `oauth`, `attempts`, `login[l]` (what the login has read), `request[r]` (whom the middleware took it for). A login is `Callback`, `Count`, `Upsert`: a statement each; an id drawn may be taken, and the primary key refuses its row (`KeyTaken`) |
| `DecisionCacheProofs`, `RateLimiterProofs`, `ModelRegistryProofs`, `RoutingProofs`, `OperationsProofs`, `SettingsProofs`, `ProvidersProofs`, `AccountsProofs` | | theorems and proofs |
| `MCDecisionCache`, `MCRateLimiter`, `MCModelRegistry`, `MCRouting`, `MCOperations`, `MCSettings`, `MCProviders`, `MCAccounts` | | small instances for TLC |

Composition: `Routing` extends `ModelRegistry` and uses the cache by its abstract
specification only; that `DecisionCache` implements it is checked
(`ImplementsMemo`) and proved (`CacheImplementsMemo`), so the composed model does
not have to carry the list, the clock and the counters.  `Providers` takes a change of an
API key as one step from where `Settings` has it in `.env`.

Abstractions.  In `Settings` a text is what the parsers of `strconv` and `time` can tell
of it (a flag, a decimal numeral in tenths, one with an exponent, an integer with
leading zeros, a time span, any other word), which is what decides between memory and
file; `fmt` prints a number from a million on with an exponent, and `strconv.Atoi` does
not read one.  And it is what `godotenv` (v1.5.1) can tell of it: `Marshal` writes what `Atoi`
takes as the bare integer, so 0042 is read again as 42; it escapes a double quote at the
end, of which `Read` leaves the backslash; and after a backslash at the end it takes the closing
quote for an escaped one and cannot parse the file (`Reread`).  `.env` is represented by
what `godotenv.Read` makes of it, `Broken` where that is an error: every request is refused
then, without any fault of the file system, and `Load` only logs it.  All
lines go through this at every request, so one that ended in a quote when the server started
breaks the file at the second request for something else.  A request can have
the temporary file open while another renames or removes it: what it writes then goes
to the new `.env` or to nowhere, and two that write one file may mix.  In `Providers` a
provider has the fields handlers treat differently (enabled, the variables of its own
key and of one override, the keys) and not those that are only stored.  In `Accounts` a
cookie is the email by which the middleware looks its owner up.

Tags are "useful" or "empty" (`hasUsefulTags`), the only distinction
the code makes outside the prompt.  Prompts and names are model values.  A cache
key is the pair of prompt and snapshot the code hashes: different pairs are
different keys.  `RateLimiter` keeps the time *since* an event, saturating at
`Horizon`, in place of instants.  `DecisionCache` adds `storedAt` and `usedAt`,
`RateLimiter` adds `sinceSent` and `sinceEnd`, `ModelRegistry` adds `gone` and
`chosen`, `Operations` adds `mixed` (the record replaced that of a run under way),
`Routing` adds `seen` and the `used` field of a row, `Settings` adds `promised`, `odd`
(names), `raced` and `late`, `Providers` adds `unsaved`, `unseen` and `overtaken`, `Accounts` adds
`granted`, `stale` and `yielded`, and `UndisturbedRegistry` adds `disturbed` to the
registry: history that no guard reads.

Definitions introduced by a comment "Wrong variant" are not part of any
specification: each is a plausible bug that the property named in `PROJECT.json`
must reject.

## 3. Runs

Passing runs:

| run | question | instance |
|---|---|---|
| `DecisionCache` | are map, list, limit, counters, LRU order and TTL right under every interleaving of callers, and does the cache implement `DecisionMemo`? | 2 callers, 3 keys, 2 models, room for 2, TTL 1, clock to 2, 6 operations |
| `RateLimiter` | does a request that waited keep its distance, does a reload keep the timing, and does everyone who waits get through? | 2 callers, chats and listings, limits 0 and 2 switched at any time, 3 limiter objects, fairness |
| `ModelRegistry` | can any overlap of operations make an untagged model routable?  While nothing disturbs them: do collection and table agree between operations, is deletion permanent, does cleanup spare tagged models? | 2 names at 1 of 2 sources, or 1 name at both with a result or a deletion (1 name at 1 source once disturbed), 2 operations of every kind, failing reloads, restarts anywhere |
| `Operations` | do slots, workers and records add up, and does every run end, when two runs overlap in any way? | 2 runs of any kind, 2 models, the list of both, 2 tasks, 1 slot, a log of 1, fairness |
| `Routing` | what may happen to a request while models are disabled and deleted and the meta-model fails or makes names up? | 2 names, 1 request at a time of any endpoint, 1 admin, restarts |
| `Settings` | is `.env` ever torn, does it lose a change or change a line nobody asked for, and does a restart change anything? | 2 requests, 1 setting with a number, 1 API key, a million as a number, a text and a text with a leading zero, a text that ends in a quote; a first file without lines or with such a key, every file operation may fail, crashes anywhere |
| `Providers` | do list, file and client agree, and which key does a call send? | 2 providers, 1 variable, set or not, an override with or without it, 1 test, 1 key request, saves that fail or tear the file, restarts |
| `Accounts` | who has which role, and is there an administrator, when logins and administrators overlap? | 2 emails, 2 ids, 2 logins, 1 other request, 1 token, reads and writes that fail, restarts |

Runs that refute what the documentation says (each one property, with the quote in
"findings"):

| run | what TLC finds |
|---|---|
| `RateLimiterOverlap` | two chats pass `Wait` together: the limiter learns of a request only when it has ended |
| `ModelRegistryStaleLoad` | a reload reads the table before a disable and installs it after: memory keeps the model enabled |
| `SettingsMounted` | with `.env` bind-mounted, as the compose files do, the rename fails and every change is refused; `SaveProviders` has a fallback for this, `writeDotEnv` has none |
| `AccountsBearer` | a token authenticates nobody: `GetUserByID` selects the column `groups`, the table has `groups_list` |

`MemoryMirrorsTable`, `PermanentlyDeleted` and `CleansOnlyUntagged` hold while operations
do not overlap, reading succeeds and no admin changes a name that two providers have, and
fail otherwise, which is what `disturbed` tells apart:
`MirrorsUndisturbed`, `DeletedUndisturbed` and `CleansUndisturbed` say the first.  A change of a
name that two providers have is written to one provider's row and to whatever entry the
collection has under that name (`handlers.go:837`): one without a row is disabled in
memory only, and a deletion takes the name from memory although the other still has it.  When
operations overlap, a model deleted during its interview is back, tagged and enabled; the cleanup
pass disables a model that a concurrent tagging run has just given useful tags; and memory
keeps a disabled model enabled (`ModelRegistryStaleLoad`).  `TaggedOrChosen` survives every
overlap, and is proved.

A row logged after the meta-model has failed does not name the model that answered
(`RowsNameAnswerer` excepts it), so a later deletion of that model leaves the row.

What the other runs' properties except, and so do not promise:

* `FileKeepsPromises` excepts requests that rewrite `.env` at once (`raced`): one loses its
  change, or the file mixes both.  What was promised is the merge as `godotenv` writes it.
* `UnaskedLinesStay` excepts the lines that `godotenv` does not read as it wrote them
  (`odd`): they change when others rewrite the file, until their own request or a start finds
  a text that stays.
* `RestartChangesNothing` excepts variables the process inherited, which `godotenv.Load`
  does not overwrite; values of a wrong type, which are written to `.env` although the memory
  refuses them, or are converted there and not when loaded (`odd`; clearing a text is one: a
  restart reads an empty text as the default); texts that `godotenv` does not read as it has
  written them (`odd` too: an API key 0042 is that in memory, 42 in the file and after a
  restart); a file that cannot be parsed, with which a restart takes the defaults; and
  requests applied in another order than their files (`late`).
* `RestartKeepsProviders` and `ClientFollows` except a failed save: only `handleAddProvider`
  takes its change back.  `CallsSendCurrentKeys` holds even then, because the next change of
  a key hands the list over.
* `RolesAsGranted` excepts accounts a login wrote from what was no longer, or never, so
  (`stale`): it undoes a role change or a deletion made since it read, makes two
  administrators of two first logins, or takes an error of a read for an empty table.
* `SomebodyAdministers` also excepts changes by the API key or by one who is no
  administrator afterwards: nothing keeps the last one from demoting or deleting herself.

### Bounds, and why they are enough

* *Decision cache.*  Room for two and three keys is the least with an eviction that
  has a choice; TTL 1 with a clock to 2 has entries fresh, at their expiry and
  expired; two callers give every pair of overlapping operations; six operations
  give set, set, hit, set (evict) with lookups in between.  `MaxClock` and
  `MaxCalls` are the only bounds in guards; when both are reached the model stops,
  so deadlock is not checked in this run.  The proofs hold for all their values.
* *Rate limiter.*  A third caller would only queue behind the first two.  One limiter
  object more than there are callers suffices, because a request holds at most one
  and the client one; `SetProviders` picks an unreachable one.  `Horizon` is the
  largest limit: beyond it elapsed times make no difference to any guard.
* *Registry.*  Every hazard found needs one key, or two of one name; two operations
  give every pair of overlapping kinds.  The initial table is any table at all.  The
  second name shows that an operation on one leaves the other alone, the second provider
  that a name may be two models; the first case of `Bounded` has one of the two, the
  second the other.  Results and deletions, which concern one key each, are in the first.
  Once disturbed, only `TypeOK` and `TaggedOrChosen` are still claimed, of each row and
  entry by itself, so one name at one provider is left, without reasoning, results and
  deletions.
* *Operations.*  Two runs give every pair that can share a record, two models and
  one slot make a suite wait for one and a run over a list come back to its loop, two tasks let a worker be overtaken between
  them, a log of one is full at once.  No guard has a bound: `Lists` are what admins
  may ask for, and a goroutine whose run is over may run another.
* *Settings.*  Two requests are enough for every way to share the temporary file, as a
  third would find the same three states of it (as opened, renamed, removed).  A million
  is the least number that the two conversions print differently; as a string it is
  of the wrong type for the setting and a text like any for the key, with a zero before it one
  that `godotenv` shortens.  A text that ends in a quote loses it at the first rewriting,
  and the next one breaks the file.  `Handmade` lets that begin with a
  file somebody wrote by hand, whose keys no request has set.  Of states in which requests have
  raced for the file only the types are claimed: they are explored while somebody rewrites
  it, nobody was overtaken, and in the environment of the first start (`Bounded`).  `SettingsMounted` adds a second setting and other values.
* *Providers.*  `Bounded` lets failed saves leave one provider behind and one be tested,
  the other changes freely.  Handlers are atomic, so one request for keys and one test
  give every overlap.
* *Accounts.*  Two logins give every race for one email and for the first account.  Two
  ids: one for each account, or one that both draw.  `Bounded`: once a token exists, which no
  login reads, one login at a time, and none once it is revoked; where discovery, of which no
  login knows, has failed once, its success is the end.  Two attempts at discovery stand for the six of the code.
* *Routing.*  Two names tell the model decided on from the one that answers;
  `MaxRows` bounds the logged rows when a request arrives.  One request at a time, of one
  prompt: any number is proved (section 4).

Symmetry is used in `DecisionCache`, `ModelRegistry`, `Settings` and `Accounts` (callers,
operations, requests, ids and emails are interchangeable), never in a run that checks
liveness.

### Fairness

`RateLimiter` needs it for `EveryWaiterReturns`: time passes; a sleeper wakes; every request
ends, because each HTTP client is given the provider's timeout; and a goroutine
blocked on a mutex that is released again and again gets it (strong fairness),
because `sync.Mutex` hands over in FIFO order once a waiter has starved for a
millisecond.  Nothing is assumed of administrators, reloads or new requests.

`Operations` assumes that a goroutine that can go on does (weak fairness of each run
and each worker): every call to a model ends, by the timeout of its provider.
Strong fairness is not needed: a slot, once free, is taken by nobody but the loop
that waits for it.

## 4. Proofs

`THEOREM Spec => []Inv` by an inductive invariant in each proof module: one lemma per
action, then `Init`, step and `PTL`.

* **`DecisionCacheProofs`** (any number of callers, keys, any limit, any TTL).
  `WithinLimit` and `CountersAccount` count the map by the length of the list and
  so need `IndexAgrees`; `EvictionIsLRU` needs the list to be sorted by last use
  (`RecencySorted`, with `UsesCounted` so that the next rank is new);
  `ServedWithinTTL` needs `ClockReadings`, that a reading never runs ahead of the
  clock.  Their conjunction `Inv` is inductive.  `CacheImplementsMemo` maps every
  step of the cache to a step of `DecisionMemo` or a stutter; it needs
  `DisabledEmpty` too, that a cache switched off is empty and nobody stores in it.  So
  does `MissesAccount`, by counting the callers between a miss and its set
  (`ConsultingStep`), for which the set of callers must be finite.
* **`RateLimiterProofs`** (any callers, limiters, limits).  `SleepSuffices` says that
  only the sleeper holds the mutex and sleeps long enough, and no longer; `TimingKept`, that the
  limiter in use has not lost time against the history; with `HoldsLimiter` they
  are inductive, and `Spacing` and `TimingKeptByReloads` follow step by step.  Two
  theorems are the part of `EveryWaiterReturns` that does not need fairness:
  `BlockedOnlyBySleep`, whoever cannot have the mutex waits for one that sleeps, no longer
  than the limiter's wait; and `SleepsShorten`, an action property, nothing but time
  touches a sleep, and its end frees the mutex (`OthersLeaveSleeper`).
* **`ModelRegistryProofs`** (any names, sources, number of operations, failing
  reloads).  `IInv` is `TypeOK /\ TaggedOrChosen /\ Pending`, where `Pending` says that an
  admin operation between its two critical sections is an admin operation, and that
  an enable has already been recorded.  `OnlyTaggedOrChosen` is the safety theorem that holds
  whatever overlaps.  `HistoryInv` adds to it what holds while not `disturbed`: one operation
  at most is under way (`Alone`), the collection mirrors the table at rest, and an operation
  is `OnItsWay` to that: the change an admin handler has still to make, or the models a
  reload has read, will mirror it; work begun is on no deleted model, and a row to be
  cleaned has no useful tags.  `EditMirrors` is where a name of two providers would break it.
* **`OperationsProofs`** (any models, runs, lists, tasks, slots, log).  `SuiteInv` adds
  to `WithinConcurrency` and `WorkersEndFirst` that a model still to be started has
  no worker (`WorkIsNew`): without it `Spawn` would take a slot for a worker that holds
  one.  `RecordInv` says that a record not `mixed` has one writer, whose place in its
  list it repeats (`FollowsRun`); `RunShape` says where each kind of run can be.
  `ListStep` proves all of it once for the six steps of a run over a list, from what
  they have in common; the suites' steps leave the records' counts alone
  (`SameRecords`).  Two theorems are the part of `RunsEnd` that does not need
  fairness: `RunsOnlyAdvance`, an action property, gives every run a measure that each
  step of it lowers (targets left, then phases, then models to start, and the tasks of
  each worker); `WaitsForWorker` says that a loop without a step has a worker that has
  one (by `WithinConcurrency` a full channel means workers that hold slots).

* **`SettingsProofs`** (any requests, settings, keys, values).  `FileInv` says that, as
  long as no two requests rewrote `.env` at a time, the file is what was promised, at
  most one request rewrites it (`OneRewrites`) and it carries the merge of what the
  file says (`Carries`); that request has found the file to be readable.  `SteadyInv` says
  that every name but the `odd` ones has a text that `godotenv` reads as it has written it; so a
  request for other names leaves its line (`RenamedAt`), which is `UnaskedSafe`.  `MemInv` says that a name whose request has still to apply
  it will agree with the file, and every other agrees (`Pending`, `WillAgree`,
  `Agrees`).  It rests on the lemma `SameField`: what is written for a value of a setting's
  own type is loaded as what that value was converted to, and, for API keys too, on `SteadyInv`:
  without it the file would not keep what was written for as long as the memory does.
* **`ProvidersProofs`** (any names, keys, variables).  `Inv` adds to the properties that a
  provider's keys are those of the environment unless they are being resolved, and an
  override without a variable has none (`KeysInv`); that overrides which are one
  array are the same in both lists (`SharedInv`); and that a provider under test is
  in the list, or the test is overtaken (`TestsInv`).  `RoundTrip` says that loading what
  was saved gives the list back.
* **`RoutingProofs`** (any callers, prompts, names, registry operations).  `RInv` adds
  `CallerOK` to the properties and the registry's `IInv`: a caller is in the cache exactly
  while its request decides, asks about its own snapshot, stores only what was
  offered, has seen all that is enabled now, and goes on with a name the row may give and
  an entry that is tagged or wanted.  The registry's `StepInv` is used as it is;
  `RegistryStep` only needs that operations add no decision rows (`DecisionsKept`), that
  `chosen` grows (`ChosenGrows`) and that `seen` grows with the collection.  So the promise
  of the registry, `TaggedOrChosen`, reaches the provider calls (`OnlyEnabledCalled`), for
  every kind of operation and any number of callers; the run has one caller and no
  operation that tags, and only meets the untagged models of the start.
* **`AccountsProofs`** (any clients, people, ids).  `Inv` adds that what a login has read
  determines its id and role (`LoginsInv`) and that ids are unique (`OneAccountPerId`), so that
  what an administrator does to an id is done to one account.  The latter is what the
  primary key says of the table, and `KeyWritten` that an upsert leaves it so; it is no result
  of its own.

The assumptions are the named ones on the constants (`CacheAssumption`,
`LimiterAssumption`, `RegistryAssumption`, `RoutingAssumption`, `OperationsAssumption`, `SettingsAssumption`,
`ProvidersAssumption`, `AbsentAssumption`, `AccountsAssumption`), which TLC evaluates in the runs.

Only model-checked: `EveryWaiterReturns` and `RunsEnd` (liveness is out of the prover's
reach; what they need of the single steps is proved, as far as said above).

## 5. What is not modelled

* Prompt texts, tag contents, request formats and parsing, retries without a
  temperature in one goroutine, scoring formulas: data that no property tells apart.
* HTTP handlers that only read; telemetry; the web console.
* Several server processes on one database: the code is written for one.
* The status handlers copy the pointer to a record under the mutex and encode it
  after the unlock: a data race, whose reads Go gives no order a property could use.
  `CurrentModel`, `CurrentTask` and the text of log entries are left out.
* When two runs of one family overlap, their record mixes both (`mixed`): it may say
  "completed" while one goes on, and count more than its total.
* A limiter that `SetProviders` keeps also keeps its old `rate_limit_seconds`
  (`client.go:70`); `RateLimiter` models it so, and `SpacedByLimiter` is about the limit
  a limiter has, not about the one configured.
* `Config` is read by requests while `SetSettingValue` writes it, without a lock: a data
  race on single fields, which `Settings` does not have; nor has it the layout of
  `.env` (comments, which every request loses; the order of lines), or an API-key request for the name of a setting, which changes
  `.env` and not the memory.
* Of texts with leading zeros the model has those with nothing else before the digits; a plus
  sign is lost in the same way.  A backslash at the end of a value always breaks the file in the
  model; where a value in quotes follows, `godotenv` may instead read the rest as a
  value and lines of its own, and report no error.
* `GetAllModels` ends at the first `Next` that fails and does not ask `rows.Err()`
  (`database.go:401`): a query broken off midway is taken for the whole table.  In the model a
  reading succeeds or fails as a whole, so `MirrorsUndisturbed` and `CleansUndisturbed` say
  nothing of this.  In the program models may be missing from memory until the next reload, and
  the cleanup pass may overlook some; no row is changed by it.
* `collectApiKeys` goes through the provider list after it has let go of the mutex, while
  a deletion moves the list's elements: what it shows may be a mixture, nothing is stored.
* Groups, their roles and routing rules, authentication providers and the audit
  log are written by logins and administrators, one statement at a time, and only shown:
  no role and no route depends on them.  (A login sets the role of each of its groups back to
  "user".)
* Without OAuth there are no accounts and the middleware knows one key.  In between
  the two assignments of `finalizeOAuth` a callback panics and is answered by nobody; it
  changes nothing.  After the last attempt discovery is not tried again until a restart.
* Tokens and cookies outlive their account; `expires_in` of a token request is ignored.

## 6. Plan

Done, in this order:

1. `DecisionMemo`, `DecisionCache`, `DecisionCacheProofs`
2. `RateLimiter`, `RateLimiterProofs`
3. `ModelRegistry`, `ModelRegistryProofs`
4. `Routing` (composes 1 and 3)
5. `Operations`, `OperationsProofs`
6. `Settings`, `SettingsProofs`
7. `Providers`, `ProvidersProofs`
8. `Accounts`, `AccountsProofs`
9. `RoutingProofs`

Left:

10. The tables of groups, routing rules and the audit log; liveness of a request.
