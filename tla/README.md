# TLA+ models of Cline Model Optimizer

CMO decides which model, through which account and provider, a coding agent
should use next. Producers (Pi adapters, a dashboard, a command line, a probe
worker) report what happened as `cmo.event/v1` events; a SQLite store keeps the
events and a few tables projected from them; readers (the decision engine, the
snapshot, the exports, the dashboard) use the tables. This directory holds TLA+
modules translated from that code, TLC configurations that check them, and
proofs that TLAPS checks. Source references are relative to `src/`.

## The system

| part | state | operations | interacts with | what is hard |
|---|---|---|---|---|
| event store (`python/cmo/events.py`, `db.py`) | event log, revision, tables `route_state`, `recheck_requests`, `goals`, `attempts`, `catalog_models`, `overrides`, `service_heartbeats` | `ingest`, `ingest_many`, `rebuild` | every other part | deliveries late, out of order, repeated; handlers that look up other rows |
| recheck worker (`recheck.py`) | its pass (head of the queue, "now"); everything else is in the store | `step`: read, sweep, claim, probe, settle | store, probe executable, HTTP and CLI producers | requests that arrive in mid-pass, death between claim and settlement, cooldown |
| decision engine (`decision.py`, `policy.py`) | none | `decide`, `context_escalation` | snapshot, CLI, resume, launchers | states that no decision ever leaves, time boundaries |
| policy versions (`events.py`, `policy.py`, `server.py`) | `policy_versions` | save with compare-and-set, rollback, account mutations, the simple list | dashboard, CLI | lost updates, an audit event in a second transaction |
| catalog (`catalog.py`) | `catalog_models`, freshness marks | refresh from three places | provider API | late batches, last-good rows |
| overrides (`events.py`) | `overrides` | create, clear, expire | decision engine | expiry read at different instants |
| rebuild, quarantine, migration (`events.py`, `migration.py`) | receipts | replay, delete and replay, import | store | reads before the transaction, another order of replay, a crash between two transactions |
| snapshot (`snapshot.py`) | none | `build_snapshot` | store, decision engine | several reads outside a transaction |
| HTTP service (`server.py`) | usage cache, sign-in processes | handlers, server-sent revisions | dashboard, store | overlapping requests, batches that fail in part |
| dashboard (`web/*.js`) | the snapshot shown, a draft | load, poll, edit | HTTP service | overlapping responses |
| command line and outbox (`cli.py`) | the outbox file | drain | store | the file rewritten while it grows |
| exports (`compat.py`) | the exported files | write set and manifest | PowerShell readers | a set replaced file by file |
| resume (`resume.py`), account renewal and sign-in (`account_refresh.py`, `account_usage.py`, `server.py`) | launched processes; `auth.json` under a lock directory; the usage cache | launch, renew, check usage, onboard | Pi, the provider | double launches, a lock that outlives its holder, answers for an older login |
| guardian, apply, ladder (`src/*.ps1`) | guardian state file, usage state | check, switch, apply | Cline's files | counters and dates across checks |
| installer (`tools/install`) | installed files, tasks | install, promote, roll back | Windows | interruption half way |

## Modules

| module | stands for | state | actions and operators |
|---|---|---|---|
| `Evidence` | event vocabulary, `normalize_event`, `classify_reason` | - | `Event`, `FAILURE_TAXONOMY`, `classify_reason`, `GOAL_STATUS` |
| `RouteProjection` | `route_state` handlers | - | `ApplyRouteSuccess`, `ApplyRouteFailure`, `IsLate` |
| `RecheckProjection` | `recheck_requests` handlers | - | `RecheckRequested`, `RecheckStarted`, `RecheckSettled` |
| `WorkProjection` | `goals` and `attempts` handlers | - | `ApplyToGoals`, `ApplyToAttempts` |
| `Projections` | the tables and `apply_event` | the four tables | `ApplyEvent` |
| `EventStore` | `EventStore.ingest` | `events`, `revision`, the tables | `IngestNew`, `IngestDuplicate`, `IngestConflict` |
| `LatestEvidence` | what a reader may rely on | `word` | `Begin`, `Supersede` |
| `RecheckWorker` | the worker, its producers, its restarts | `now`, `pc`, `head`, `passAt`, `polled`, `aborts`, `marked`, the tables | `Request`, `ReadQueue`, `SweepStale`, `NothingPending`, `RecordMalformed`, `SkipCoolingDown`, `Claim`, `Raise`, `Settle`, `Abort`, `Restart`, `Tick` |
| `Sorting` | the sorts of the code | - | `Ordered`, `Ascending`, `ByNumber` |
| `Policy` | `policy.py`: documents and the orders derived from them | - | `validate_policy`, `account_order`, `routes_for_strategy`, `route_cells` |
| `Decision` | `decide`, the cell of the snapshot, the override in force | - | `Candidates`, `Answer`, `decide`, `_build_cell` |
| `Dispatch` | the loop decide, probe or launch, report, with operators and a clock | `launcher`, `overrides`, `catalog`, `now`, the route rows | `Ask`, `BeginProbe`, `Report`, `Recheck`, `Die`, `CreateOverride`, `ClearOverride`, `CatalogSays`, `Tick` |
| `Exports` | the views of `compat.py` on a state of `Dispatch`, and the queue walk of `CmoFoundryRoute.ps1` | `abandoned` | `Abandon`; `routeQueue`, `NextStep`, availability, ledger, status |
| `AccountEdits` | account operations, the simple list, the audit events of a change | - | `AddAccount`, `UpdateAccount`, `RemoveAccount`, `SimpleModels`, `_catalog_gate`, `_policy_diff` |
| `PolicyVersions` | `save_policy_version`, `rollback_policy`, and the requests that call them | `versions`, `log`, `editor`, `checked` | `Look`, `BeginSave`, `BeginCliSave`, `BeginMutation`, `BeginRollback`, `Save`, `Refuse`, `Audit`, `Crash` |
| `Catalog` | the three refreshers and the status shown | rows, marks, refreshers | `Start`, `Fetch`, `FetchFails`, `CommitBatch`, `CommitList`, `CommitFails`, `TellFailure`, `Die`, `ProviderChanges`, `Tick` |
| `Dashboard` | `build_snapshot`, the event stream, the page's loader | tables, revision, loads, the page, the stream | `Ingest`, `ActivatePolicy`, `AuditPolicy`, `Rebuilt`, `ReadTable`, `ReadRevision`, `Receive`, `LoadFails`, `UserLoad`, `TimerLoad`, `Connect`, `Drop`, `Announce`, `Hear` |
| `AccountUsage` | the usage check and its cache | cache, requests, the saved login | `Begin`, `Renew`, `ReadAuth`, `FetchUser`, `FetchPlan`, `FetchLimits`, `ProviderRefuses`, `Store`, `Relabel`, `SignIn`, `Expire`, `Tick` |
| `Resume` | the request of a resume, its launchers and routers | handlers, launches, `RESUME_LOCK` | `Decide`, `Acquire`, `CheckLaunches`, `CheckSession`, `CheckRouters`, `Launch`, `ShellLaunch`, `RouterUp`, `RouterDown`, `LauncherExits`, `GoalFinishes`, `EvidenceChanges`, `Restart` |
| `Renewal` | `renew_cline` beside Pi | `auth.json`, its lock, the provider's token | `Lock`, `ReadAuth`, `ProviderAnswers`, `ProviderFails`, `Replace`, `ReplaceFails`, `Unlock`, `Expire`, `ServiceDies`; Pi's `PiWritesOther`, `PiSignsIn`, `PiLeaves`, `PiClearsOrphan` |
| `AccountSetup` | onboarding, sign-in, readiness and clipboard requests | requests, terminals, `login_processes`, `login_lock` | `ReadPolicy`, `ReadProfile`, `Acquire`, `Poll`, `Launch`, `LaunchFails`, `Remember`, `Release`, `CheckStage`, `Copy`, `Provision`, `SaveSignin`, `CloseTerminal`, `Toggle`, `Restart` |
| `Rebuild` | `rebuild`, `quarantine_fixtures` beside ingest (extends `EventStore`) | the store's, the maintenance job | `ReadHistory`, `BeginRebuild`, `ReplayHistory`, `SelectDoomed`, `DeleteDoomed`, `RecordReceipt`, `IngestLive`, `Crash`; `Rejected`, `Quarantined`, `Replayed` |
| `Migration` | `cmo migrate` | files, receipts, log, runs | `Begin`, `IngestRow`, `Record`, `StopShort`, `Rewrite`, `Tick` |
| `Outbox` | the batch endpoint, the outbox and its drain | the file, the log, the drains | `Post`, `IngestOne`, `Answer`, `NoAnswer`, `FallBack`, `TornLine`, `Read`, `Drain`, `Truncate`, `WriteBack`, `Abort` |
| `ExportFiles` | `write_compatibility_exports` as a process | files, manifest, writers, the store | `Start`, `ReadEvidence`, `ReadRevision`, `ReadFullPolicy`, `ReadFullPolicyFails`, `Replace`, `ReplaceManifest`, `Kill`, and the store's `Ingest`, `ActivatePolicy`, `AuditPolicy` |
| `Hotfix` | `Promote-CmoCatalogHotfix.py apply` | `LIVE`, `START`, `service`, `helper`, `receipt` | `apply` (the steps of the helper), `Die`, `Logon`, `KillHelper` |
| `MCStore`, `MCWorker`, `MCLauncher`, `MCService`, `MCMaintenance`, `MCProgress` | instances for TLC | `subject` | |
| `ProjectionProofs` | lemmas about the handlers, for every module that applies events | - | |
| `EventStoreProofs`, `RecheckWorkerProofs`, `LauncherProofs`, `PolicyProofs`, `ServiceProofs`, `MaintenanceProofs`, `RenewalProofs` | lemmas and theorems about `EventStore`, `RecheckWorker`, `MCLauncher`, `PolicyVersions`, `MCService`, `MCMaintenance`, `Renewal` | | |

How they are composed:

- `EventStore` and `RecheckWorker` extend `Projections`, so the worker's ingests
  run the same `apply_event` as the store's; `Rebuild` extends `EventStore`.
- `Dispatch` extends `Decision` (which extends `Policy`) and uses the handlers of
  `RouteProjection`: a launcher's report moves a row, the next decision reads it.
  `Exports` adds the views on top.
- `PolicyVersions` extends `AccountEdits`, which extends `Policy`.
- `MCService`, `MCMaintenance` and `MCProgress` put several components into one
  run. These components share no variable, so interleaving them adds no
  behaviour that one of them would not have alone. The variable `subject`
  picks the component a behaviour is about; the others keep their initial
  values. Each property of such a module looks at one component at a time.
- A property that a configuration names may be a conjunction of properties of
  the component modules that belong together (`LocksComeFree`, say). Every conjunct
  has a mutant of its own in `PROJECT.json`.

Correspondence to the code:

- A row that does not exist is `None`. Times are naturals; `reset_after_ms` of 0
  and NULL are one value because the code tests it for truth. `observed_at`
  equals `state_changed_at` in every write and is not kept apart.
- `classify_reason` reads signal words in a text. An event carries instead the
  category whose words occur (`signal`); reason codes outside the taxonomy are
  one value, `other`.
- `ingest` is one action because it runs in `BEGIN IMMEDIATE`. A transaction that
  fails or a process that dies before the commit leaves nothing, which is the
  delivery that has not happened. Where the code uses two transactions, or reads
  outside one, the model has one action for each.
- `ORDER BY ... LIMIT 1` among equal instants is a nondeterministic choice.
- A pass of the worker is cut at each of its reads and ingests. The worker's own
  event ids are random and never read back, so one id stands for them; the log
  itself is not kept in `RecheckWorker`.
- The columns a route key is made of are one value: a leg, a member of
  `MalformedKeys` when they name none but a key is computed from them all the same,
  or `None`. An event has a leg or `None`; the log keeps no key, so a replay computes
  one (`ReplayedKey`), and a request that was ingested without a leg has a malformed
  key from then on. `Truncated` are the legs with a truncated account or model.
- The clock of `RecheckWorker` counts minutes: a pass happens in every minute the
  worker is up (it polls every five seconds) and a probe lasts at most one. The
  answer `none` of a probe is all the ways it can fail to answer.
- `sorted` and `ORDER BY` are `Ordered`: the n-th of a set is the member that n - 1
  others come before. A list of routes is chosen as a set of places in the document
  and becomes a list when it is expanded into legs; lists that only append or filter
  keep `SelectSeq` and `\o`.
- A policy document keeps accounts, routes, defaults and the names of its
  top-level members; labels and descriptions are left out. A digest is the
  document itself, so two documents have the same digest when they are equal.
- A request handler is cut at each read and write of shared state. What it does
  under `login_lock` or `RESUME_LOCK` is several actions of the lock's holder.
- Programs outside the repository are modelled from how it uses them and are
  marked external in `PROJECT.json`: the provider, Pi, launchers and routers,
  terminals, Windows. They may stop or fail at any step.

Definitions whose comment begins with "Slip:" are mutated forms of the definition
that follows them; `PROJECT.json` pairs each with the property it must break.

## Runs

| run | question | bounds | states |
|---|---|---|---|
| `store` | does every order of events, with repeats and conflicts, leave the tables as promised? | three stories: 3 route events out of 12 payloads at 3 instants (second leg at 1); 5 recheck events out of 9; 4 goal and attempt events out of 14 | 221 k |
| `worker` | is the worker safe against producers, time and one abort? | 3 requests on 3 legs, one of them truncated, in minutes 1-2, the first perhaps left malformed by a rebuild; 11 minutes, 1 abort | 4.1 M |
| `worker_live` | is every request settled in the end? | as above without the malformed one, 13 minutes, probes that do not answer | 1.5 M |
| `launcher` | do decisions, cells and exports agree while a launcher works, and does a leg under quota come back? | 1 launcher, free model on 2 accounts and a subscription model, 4 minutes; two stories: 1 death, 1 override, an omitted model; or rechecks and resets of 1 and 2 minutes, vouched for or not | 533 k |
| `service` | do overlapping requests of the service keep policies, catalog, snapshots, usage, resumes and terminals sound? | 2 of each actor; 2 saves after the first version and 1 crash; 2 models; 2 loads; 2 goals, 2 launches; 1 account, 2 terminals, 1 restart | 4.3 M |
| `maintenance` | do migration, rebuild, drain, exports and promotion survive interruption and each other? | 2 runs on 2 files, 2 kills; 3 live events out of 11 payloads, a fixture, a truncated leg and 3 logs found at the start; 2 drains; 2 writers; 2 service deaths, 2 logons, 1 kill | 3.8 M |
| `progress` | do locks come free, and does the page keep up? | 2 renewers and Pi, 3 tokens; 2 handlers; 2 loads, 1 change, 1 rebuild, 1 drop, 1 failure | 362 k |
| `late_goal`, `worker_claim`, `policies_lost`, `rebuild_history`, `outbox_durable` | see the violated promises | as the runs above | violated |

What the runs show:

- `store`: an event is applied once and tables refer only to what exists
  (`TablesAreSound`); the route rows are those of the newest evidence, so
  the store implements `LatestEvidence` through `Register`; the transient counter
  never exceeds the failures behind it; one request per leg is pending, requests
  only move forward and a settlement follows a claim; attempts are counted
  exactly; a goal whose events all say free-only stays on the free ladder.
- `worker`, `worker_live`: a pass probes what it claimed, in order and not before the
  cooldown; only an abort leaves a request running; each request is settled unless
  one that no pass can claim is in front of it.
- `launcher`: whoever asked for free models only is never sent to a paid leg, and
  others only when the snapshot shows no usable free one; cell and decision
  agree; quota and override end at the instants they name, be a reset vouched for
  or not; queue, availability and status say what a decision would do, and so does the
  ledger but for a reset nobody vouched for, where it errs only to the side of the
  default; the queue walk of the PowerShell launcher pays no sooner than a decision,
  unless such a reset is shorter than the default.
- `service`: the active policy is the last one saved and each has an account to
  route to; accounts share a profile only where a posted document had them do so;
  versions saved with a digest follow the one they name; only a crash loses an audit
  event; catalog rows are those of the last success and look that old; what
  a snapshot read before its revision is no newer than that (it may be older; rechecks,
  marks and events are read later and may be newer); a plan is shown only for its own login
  and no older than the cache may keep it; a goal gets one launcher; an account
  gets one terminal, of which readiness knows.
- `maintenance`: a migration imports a row once and its receipt means all of them;
  a replay of the whole log agrees with arrival on what it may; once the quarantine has
  its receipt, no row comes from a fixture and no truncated leg has evidence; a drain applies or
  keeps every line unless an append overlaps it; a manifest follows its files; the
  receipt of a promotion tells what is installed.
- `progress`: see fairness.

Why the bounds are enough. The route handlers read one row and one event, and a
row remembers the newest instant, the counter and the reset; three events at three
instants reach every pair of handlers in every order, with one more before or
after. New ids are taken in order, which loses nothing as ids mean only equality;
a known id may carry any payload, so duplicates and conflicts occur. A claim and
a settlement of a stranded and of a new request take five recheck events. An
attempt that overtakes its goal, is started twice and is then completed takes
four. In the worker's runs a leg is asked for twice and the other once, the abort may
fall at any point of any pass, and eleven minutes are enough for the abandoned
row to go stale, be swept, cool down and be probed again; thirteen for all
three requests to settle with an abort and the cooldowns between them (a clock that
stopped too early would show as a request that waits). A malformed request has no
part in `worker_live`: it would be in front of every other one. The
launcher's clock passes through a free quota window (2), a subscription window (1) and
the life of evidence (1) with a report still to come at minute 2. Lost updates,
crossed answers and double launches take two actors, and each run has two. The
second version of a rewritten legacy file meets the receipt of the first. Two logons
and two deaths of the service fall on both sides of a promotion. The rebuild's events are
delivered once each, as a delivery under a known id changes nothing, which `store`
shows. Clocks are scaled
where the code counts minutes; the order of the code's durations is kept and is
an assumption of the modules.

Overrides in `launcher` are set only while the catalog is silent and no launcher
has died: an override vetoes a leg before either is looked at, so the
combinations add no decision. Rechecks have a story of their own with the outcomes
that quota evidence competes with (success, quota, a probe in flight); other failures
write a row that names no reset, whoever reports them. Usage labels and logins change in the first minute
only.

Every property is reached by at least one mutant that breaks it under the same
bounds, so none holds because its case is absent.

Fairness, always of actions the code schedules and never of producers, users or
faults:

- `RecheckWorker`: `WF(Pass)`, as the daemon thread loops for ever, its loop catches
  every exception, and the service is started again by its logon task;
  `SF(Tick)`, as time passes: the clock moves only between passes or during a
  probe, and an endless series of passes within one minute is ruled out.
- `Dispatch`: `WF(Tick)` only. A leg under quota becomes eligible by time alone.
- `Renewal`: each process goes on (`WF(Step)`), Pi leaves the lock and
  clears one whose maker is gone. The service may die at any step.
- `Resume`: handler threads go on.
- `AccountSetup`: threads go on, and `SF(Acquire)`: `threading.Lock` passes over no
  waiter for ever.
- `Dashboard`: requests are answered, the timer and the stream's poll fire. The
  user, the provider and a broken stream are not fair.
- In `MCProgress` each is asked of the subject only, since a component at rest
  takes no action.

## What the violated properties show

Five runs each check one sentence of the documentation that the code does not
keep; `PROJECT.json` quotes it under `findings`.

- `late_goal`: `_apply_goal` has no lateness test. A start or resume that is
  delivered late reopens a goal that a newer event ended. The route handlers do
  test, and `LatestEvidenceWins` holds for them.
- `worker_claim`: a settlement finishes the oldest running request of its leg.
  After a pass that died, the next probe of that leg settles the dead pass's
  request and its own stays running until the sweep. `EveryRequestSettles` still holds.
- `policies_lost`: two account edits read one version and the second save drops
  the first, as only a removal passes on a digest.
- `rebuild_history`: `rebuild` reads the events before it takes the lock; what is
  ingested in between is in the log and in no table.
- `outbox_durable`: a line appended while a drain runs is overwritten.

### Divergences without a run of their own

More sentences of the repository that the code breaks are stated as operators of
the component modules, under the comment "Promises of the repository that the
code breaks". Name one of them as the INVARIANT (or PROPERTY) of the
configuration given here and TLC shows how. A property of an instanced module
needs its prefix, as in `Dash!SameRevisionSameEvidence`, given a name in the MC
module.

In `MCStore` and `MCWorker`:

- `NoRequestWaitsForever` (`recheck.py:235-247`, `251`), with `MCWorkerLive.cfg`: a pass
  looks at the oldest pending request only, and when that is for a truncated leg its
  start is rejected, so each pass ends there and no request behind it is served. A request whose key
  names no leg, as a rebuild leaves for one that named none (`events.py:1045-1047`),
  does the same (`Leftover = {q1}`, `MalformedKeys = {blank}`, `Truncated = {}`): it is recorded as
  malformed once, stays pending, and from then on the record raises a conflict. Both
  also keep the thread from refreshing the catalog. "a recheck can never stay
  `pending` forever" (`recheck.py:7-8`). `EveryRequestSettles` says that nothing else
  stops a request.
- `LateAttemptEventsNeverOverwrite` (`python/cmo/events.py:835`): a late
  `attempt.started` sets a completed attempt running again. "Late evidence stays in
  history but never overwrites newer state" (`events.py:6`).
- `PassesAdvance` (`recheck.py:248-250`, `300`): a pass whose head of queue cools
  down ingests nothing, and requests for other legs wait behind it. "every pass either
  advances a request or records why it cannot run" (`recheck.py:7-8`).

In `MCLauncher`:

- `ProbeMeansNoEvidence` (`decision.py:118`): a decision probes the first leg
  without evidence even when a later one is verified. "`PROBE` — no leg has valid
  evidence" (`docs/cmo-v2-interface.md:85`).
- `InFlightMeansAProbe` (`decision.py:164`): a leg whose prober died is passed over
  for good, as no lease is taken. "another probe holds this route (lease)"
  (`decision.py:166`).
- `SurfacesAgreeOnOmission` (`decision.py:118`): a leg without a row of a model the
  catalog omits is probed by the decision and shown as unavailable by its cell.
  "so every surface reports the same evidence at the same revision" (`snapshot.py:3-4`).
- `UnknownIsNotExhausted` (`compat.py:351`): the quota ledger enters such a leg as
  exhausted. "an unknown leg is never reported as available or exhausted"
  (`compat.py:304-305`).
- `AuthIsNotSpent` (`compat.py:351`): the ledger enters legs that need a sign-in.
  "do NOT mark the leg spent" (`docs/ROUTING-OWNERSHIP.md:64`).
- `LedgerTellsTheDecision` (`compat.py:356-358`): for a reset that nobody vouched for
  the ledger blocks a leg for the default of its tier, and the decision waits for the
  reset; the worker reports just that (`recheck.py:187-188`). "Generated from one
  snapshot + revision so every consumer sees the same evidence" (`compat.py:3-4`).
  `LedgerAgreesOnQuota` says on which side it errs, and that there is no other
  disagreement.
- `WaitEndsWithTheNextCheck` (`decision.py:131-137`): a leg
  with a reset nobody vouched for is launched after that reset, not at the
  `next_check_at` its cell shows. "next check" (`web/app.js:382`).
- `OnlyEnabledAccounts` (`decision.py:108`), with a disabled second account on the
  free route: a disabled account is ranked last instead of left out. "each model
  is tried across enabled accounts" (`decision.py:102-103`).
- `OrderRuleIsKept` (`web/app.js:1090`), with the free route after the subscription:
  an added free model goes to the end of the list. "The subscription tail runs only
  after every free leg is exhausted." (`compat.py:123-124`).
- `VerifiedLegIsEligible` (`compat.py:107`), with the subscription route on both
  accounts: the entry has no account and shows the first one's state. "A verified leg must
  be reflected as eligible live state." (`tests/test_cmo_compat.py:119`).

In `MCService`:

- `ProfilesAreDistinct` (`policy.py:211-249`): a posted document in which two accounts
  map one profile is accepted. "each alias maps to a distinct profile" (`server.py:946`,
  which `tests/test_policy_http.py:151` expects of an addition). `SharedProfilesWerePosted`,
  part of `PoliciesStaySound`, says that no account operation makes one.
- `VerifiedMeansChecked` (`server.py:968`): an update may change the profile of a
  verified account. "status 'verified' is only granted by the verify op"
  (`server.py:967`).
- `SavesAreRecorded` (`events.py:581`): the audit event is in a second transaction.
  "The save is recorded as a `policy.saved` audit event" (`events.py:534-535`).
- `OmittedModelsStayRetired` (`events.py:954`): a model event of an older batch
  inserts a row a newer complete refresh deleted. "retires models absent from
  this successful provider response" (`catalog.py:64`).
- `OnlyAFreshCatalogRefuses` (`server.py:522`), with `LastRefresh = 3`: a row of any age
  makes the gate call the catalog fresh. "A model absent from a *fresh* catalog"
  (`server.py:510-512`).
- `SimpleListContinues` (`server.py:816`), with the requests "move to 1", "move
  to 0" and the simple list, `MaxVersions = 4` and no crash: when the active policy
  changes and comes back between the handler's read and its save, the list made from the
  version in between passes the digest test. "concurrent edits get an explicit
  conflict instead of lost updates" (`events.py:530-532`).
- `ActivePolicyIsServable` (`snapshot.py:127`), with a posted document that drops
  `policyVersion`, a key `validate_policy` does not require: every snapshot
  then raises KeyError. "Returns `cmo.snapshot/v2`" (`docs/cmo-v2-interface.md:52`).
- `SameRevisionSameEvidence` (`snapshot.py:46-165`): the tables are read one by one,
  some before the revision and some after it. "every surface reports the same evidence at the same revision"
  (`snapshot.py:3-4`).
- `NoDuplicateRouter` (`resume.py:135`): a launcher whose router is not up yet is not
  counted. "no duplicate was started" (`resume.py:78`).
- `OnlyResumableGoalsLaunch` (`resume.py:130-135`): the session is not read again
  after the other checks. "Saved Goal lineage or resumable status does not match"
  (`resume.py:57`).
- `NoSigninOverSavedLogin` (`server.py:670`) and `OnboardsDisabledSlots`
  (`server.py:616`): files and policy are read before `login_lock` is taken. "Pi sign-in
  already saved" (`server.py:671`); "one disabled registered slot" (`server.py:598`).

In `MCMaintenance`:

- `FixturesStayOut` (`events.py:150-155`): a recheck request for a truncated leg is
  accepted after the quarantine has removed others like it, as it is none of
  `_ROUTE_EVENTS`. "Raises :class:`EventValidationError` when a fixture source, fixture
  goal id, or truncated route identity targets a non-test database" (`events.py:136-137`).
  `ReceiptMeansNoFixtureRow` says what stays out.
- `RequestsNameLegs` (`events.py:1045-1047`): a request that named no leg is in no queue
  until a rebuild computes a key for it. "Exactly one leg per request" (`recheck.py:3`).
- `NoQuarantinedRowLeft` and `RepeatedCallIsNoOp` (`migration.py:116-129`): the
  quarantine deletes and rebuilds in two transactions, and rebuilds even when
  nothing was deleted. "so no projection row is left behind" (`migration.py:89-90`);
  "repeated calls are a no-op" (`migration.py:91-92`).
- `NoSecondEffect` and `RerunsConclude` (`migration.py:45-48`, `231`): event ids take
  in the fingerprint of the whole file, so a rewritten file is imported again; a row
  without a time gets that of the run under a lasting id, so a repeated run
  conflicts with itself. "an interrupted or repeated migration has no second
  effect" (`migration.py:4`); "Repeatable" (`migration.py:1`).
- `BadLinesStay` (`cli.py:293`): a refused line is written back inside an error
  object, which the next drain wraps again. "leaves unparsable or conflicting lines in
  the file" (`docs/cmo-v2-interface.md:183`).
- `AppliedIdsAreDuplicates` (`events.py:327`): an event without a time takes that
  of its delivery, which is part of its hash. "`duplicate: true` means the event
  id was already applied" (`docs/cmo-v2-interface.md:117`).
- `RetriesAreSafe` (`events.py:320`), with `Anonymous = {a}`: an event without an id gets a
  new one per delivery. "ingestion is idempotent, so retries are safe"
  (`docs/cmo-v2-interface.md:117-118`).
- `ExportsAtOneRevision` and `OnePolicyPerExport` (`compat.py:401`, `420-428`): the
  files are replaced one by one, and the policy is read again after the snapshot.
  "atomically and at one revision" (`docs/cmo-v2-interface.md:187`); "Generated from
  one snapshot + revision" (`compat.py:3-4`).
- `DigestsAgree` (`compat.py:434`): when the second policy read raises, queue and
  manifest carry different digests; `tests/test_cmo_compat.py:125-126` asserts that they
  are equal.
- `ReportedDigestIsTheArtifact` (`tools/install/Promote-CmoCatalogHotfix.py:185`): the
  artifact is replaced before the startup entry. "sha256 of the running cmo.pyz"
  (`docs/cmo-v2-interface.md:35`).
- `UntouchedMeansRunning` (the same, `:220`): a kill that is not seen to succeed in time
  leaves the service stopped with the receipt `old-untouched`.
  The comparison after `await_health` asks whoever holds the port
  (`:196`), so the process that was awaited may have died by then;
  `DeclaredServiceIsOurs` therefore says only that the one that answers runs the
  installed artifact.

In `MCProgress`: `StreamedPageConverges` (`web/app.js:1156-1162`): an answer under way may
carry the announced revision with older tables, and the page, which has a stream, does
not ask again. "Clients re-fetch the snapshot when the revision changes."
(`docs/cmo-v2-interface.md:144-145`).

Read in the code and not stated in a module: an unclassified failure leaves a leg
UNKNOWN, which is probed again without a bound (`decision.py:168-176`), while
`docs/ROUTING-OWNERSHIP.md:67` says "retry once, then surface"; the marker of an older
batch clears a newer failure (`events.py:986-989`), while `snapshot.py:66` says "A
failure reported at or after the last success must be surfaced."

## Proofs

Each theorem holds for every value of the constants that the named assumptions
admit: any number of ids, legs, threads, launchers, runs, files and rows, and any
bounds. An invariant a run checks is seldom inductive; the last column says what had
to be added. TLC evaluates every assumption on the run whose module extends it.
Theorems about a module that composes components are about its full specification
(`ServiceSpec`, `MaintenanceSpec`, `ExportsSpec`); `MCSpec` of the launcher,
`StorySpec` of the store and the worker's fair specifications only restrict these
or add fairness, so what is proved covers what is run.

### Event store (`EventStoreProofs`)

From `EvidenceAssumption` (free legs are legs, default resets are positive, `None` is
no id, number, Boolean or string), `RouteRowAssumption`, `WordAssumption`,
`RequestRowAssumption`, `GoalRowAssumption` (`None` is no record) and
`EventsAssumption` (deliveries are well-formed events).

| theorem | states | argument |
|---|---|---|
| `TypeCorrect` | `Spec => []TypeOK` | inductive as it stands; one typing lemma per handler |
| `DeliveriesApplyOnce` | `[]ExactlyOnce` | a new id is in no position of the log |
| `RoutesReflectLatestEvidence` | `[]LatestEvidenceWins` | inductive with `TypeOK`: a handler either keeps a row, and then the event is late, or context, or no evidence, or replaces it by one whose source is the appended event (`RouteOutcome`) |
| `QuotaAlwaysHasReset` | `[]QuotaHasReset` | inductive with `TypeOK`; only the quota row and the success row write the reset fields, other failures leave the quota state |
| `RetryBudgetHolds` | `[]RetryBudget` | inductive with `TypeOK`; when the counter grows, so does the set of counted failures, by one position |
| `OnePendingRequestPerRoute` | `[]OnePendingPerRoute` | inductive with `TypeOK`: a request is queued only where none is pending (`RequestsOutcome`) |
| `RequestsOnlyMoveForward` | `Spec => RequestsMoveForward` | each step queues, claims or finishes, or leaves every request alone |
| `SettlementsFollowClaims` | `[]SettlementNeedsClaim` | the handler consults the queue and the property the log, so `RequestsLogged` is added: what is pending was requested in the log, what is running was requested and then claimed there; and `LatestEvidenceWins`, which says that a row's source is in the log |
| `AttemptsHaveTheirGoals` | `[]AttemptsBelongToGoals` | goals are never removed, and a start makes the goal it names in the same ingest |
| `TablesStaySound` | `[]TablesAreSound` | the four above that it joins |
| `FreeOnlyStaysPinned` | `[]FreeOnlyPinned` | an escalation asks the row whether it is free-only, so `FreeOnlyRemembered` adds that the row says so |
| `AttemptsAreCounted` | `[]AttemptCountExact` | the counter grows exactly when the set of logged starts gets one position more |
| `StoreImplementsLatestEvidence` | `Spec => Promise!Spec` | initial states map to initial states; each ingest maps to `Begin`, `Supersede` or a stutter |

`ProjectionProofs` holds one typing lemma per handler and `RouteOutcome`,
`RequestsOutcome`, `GoalOutcome` and `AttemptOutcome`, which describe every result a
handler can have; the worker and the launcher use them too.

### Recheck worker (`RecheckWorkerProofs`)

From `WorkerAssumption`: a probe times out before its request counts as stale, and that
is before the cooldown ends (`recheck.py:37-39`: 1, 2 and 5 minutes). The queue may start
with malformed requests that a rebuild left.

| theorem | states | argument |
|---|---|---|
| `WorkerServesInTurn` | `[]ServesInTurn` | `QueueInv`: every date in a row is no later than the clock and no start later than the pass (`RowsAreDated`), one request per leg is pending, and what the pass holds is what the queue says (`PassInHand`): the oldest pending request while it sweeps, its own claim, of a leg, while it probes. The read and the claim are steps apart, and a request made in between is dated no earlier |
| `WorkerStrandsByAborting` | `[]OnlyAbortsStrand` | the set of running requests is finite (`StrandedInv`) and grows only by a claim; by `PassInHand` there is one to settle |
| `WorkerSpacesRechecks` | `[]RechecksAreSpaced` | a leg that was rechecked has a latest finish (`LatestFinishExists`), which the pass compares with its own instant; a settlement or sweep after a claim finishes after every start |

### Decisions, launchers and exports (`LauncherProofs`)

From `DispatchAssumption` (the document is one that `validate_policy` accepts, its
accounts and routes are lists, and the legs are a route with one of the accounts).
What questions walk and what is exported follows from the document: accounts are
sorted, which loses none of them (`OrderedSorts` of `ProjectionProofs`: no two members
have the same number of members before them; `RankedReorders`), and a set of places becomes the list
of its legs, route after route (`ExpandFollows`). Some theorems have hypotheses in their statement, as `validate_policy` does not
enforce them: `OneAgeLimit` (`success_ttl_ms` = `evidence_ttl_ms`; both are 15
minutes in `policy.py:192` and `:205`) and `FreeRoutesFirst` (the document lists its
free routes before the others).
The document of the run `launcher` satisfies both.

| theorem | states | argument |
|---|---|---|
| `CellsAreWalked`, `FreeQuestionsStayFree` | a cell is a leg that the ordinary question walks; a free-only question walks free legs only | both expand places of the same routes under the same cap, in the same ranking (`LadderFollows`) |
| `FreeLegsComeFirst` (`FreeRoutesFirst`) | every ladder has its free legs first | legs come in the order of their routes (`Follows`) |
| `QueueServesTheLadder` | each free leg a question walks has its entry in the exported queue, ahead of the subscription tail | the queue has every account of every free route, the ladder some of these in another order |
| `ExpiriesStayKept` | `[]ExpiriesAreKept` | `DispatchInv` adds to the types that a launcher at work has a leg and that a row under quota is dated: either its reset is vouched for and `reset_at` names its end, or it is not, be it named or the default, and `next_check_at` is the default after the change (`RowsAreDated`). A decision answers with the first leg that is not skipped (`DecisionFact`, from a least element of a set of naturals, `MinOfNaturals`), and a leg under an override is skipped |
| `CellsTellTheDecision` (`OneAgeLimit`) | `[]CellTellsTheDecision` | `ShownByRow`: by the state of the row, what is shown and what is decided |
| `TheSubscriptionComesLast` (`OneAgeLimit`, `FreeRoutesFirst`) | `[]SubscriptionComesLast` | if the decision is not a free leg, all free cells stand before it and are skipped (`NoFreeLegIsPassedOver`); a leg that is skipped is shown as blocked |
| `ExportsAgreeWithDecisions` (both) | `[]ExportsTellTheDecision` | an eligible entry stands for a cell shown as available, hence one that is launched; the ledger's end of a quota is the one of `RowsAreDated` where a reset is vouched for, and the default otherwise, which is later or earlier than the decision's end as the reset named is shorter or longer; availability is a function of a set of free cells (`AvailabilityIsOfCells`) |
| `TheLauncherPaysNoSooner` (`OneAgeLimit`) | `[]LauncherPaysNoSooner` | when the walk comes to the tail, the entry of each free leg is blocked by the ledger; a model and an account name one leg (`LegsAreNamed`), and what the ledger blocks a decision skips (`SpentIsSkipped`), but for a shorter reset nobody vouched for |

### Policy versions (`PolicyProofs`)

From `VersionsAssumption` (the canonical document is valid and no two of its accounts map
one profile; a request is one of the operations; a posted document has a list of accounts).

| theorem | states | argument |
|---|---|---|
| `VersionsAreAppended` | `Spec => HistoryIsAppendOnly` | `VersionsInv`: rows and editors have their shape, and the last row is the active one |
| `PoliciesAreRoutable` | `[](ActiveIsLatest /\ VersionsRoutable)` | `Validated`: every row was accepted by `validate_policy` in the transaction that wrote it |
| `SharedProfilesArePosted` | `[]SharedProfilesWerePosted` | neither the operations nor `validate_policy` keep profiles distinct alone: `PostedInv` adds that accounts which share a profile in a document that an editor has read or holds were posted so, in a saved version or in the document held. An addition and a change of profile compare the new one with its siblings (one lemma per operation); a rollback brings back a version with its own history, and the simple list keeps the registry |
| `DigestsPreventLostEdits` | `[]DigestHistoryIsLinear` | `DigestsInv`: what an editor holds with a digest was made from the document the digest is of; the save compares that document with the active one, which is the last |
| `AuditsFollowSaves` | `[]OnlyCrashesLoseAudits` | `AuditsInv`: no two editors hold one version (`OwnVersions`), and the versions without an event are no more than the crashes and the editors that have not told of theirs (`AuditsCounted`) |

The three without a property of their own make up `PoliciesStaySound`, which
`ServiceProofs` concludes (`PoliciesKeepTheirWord`).

### The service (`ServiceProofs`)

From `ServiceAssumption`, the assumptions of the components (a cache keeps answers for
at least a minute, the clocks have at least one, `None` is none of the values it
stands beside). The page reads the policy, the routes, the revision and the rechecks, in this order, as
`MCService` fixes it.

| theorem | states | argument |
|---|---|---|
| `PoliciesKeepTheirWord` | `ServiceSpec => PoliciesStaySound` | the theorems of `PolicyProofs`, as every step of the service is one of the policies or leaves them alone |
| `PagesAreNoNewer` | `[]NothingNewerThanItsRevision` | until a rebuild no table is stamped later than the changes counted, nor these than the revision (`StampsAreCounted`); what a load has read before the revision is no later than the revision at this instant, or, once it has read that, than the one it names (`LoadsAreCovered`) |
| `PlansAreOwnAndFresh` | `[]AnswersAreCurrent` | `UsageInv`: a check runs no longer than it may (`ChecksAreShort`), what it has read is of its own label's login (`ResultsAreHonest`), and so is what the cache keeps (`KeptIsHonest`) |
| `ResumesAreExclusive` | `[]LaunchesAreExclusive` | `ResumeInv`: who is past the acquisition holds the lock (`LockIsHeld`), every launcher of the service is remembered (`LaunchersRemembered`), routers that are up or coming are at most one, and none when a request has found the way clear (`RoutersAreExclusive`) |
| `TerminalsStayKnown` | `[]TerminalsAreKnown` | `SetupInv`: a terminal is remembered or is with the request that holds the lock and will remember it (`OpenIsRemembered`), and that request saw no other (`LaunchesWhenNoneIsOpen`) |
| `CatalogStaysTrue` | `ServiceSpec => CatalogKeepsItsWord` | `CatalogInv`: no row and no listing is newer than the last success, a row is as new as it, and each row was listed when it says (`RowsInv`); an answer is no newer than the clock and not empty (`AnswersHold`) |

### Migration, rebuild, outbox, exports, promotion (`MaintenanceProofs`)

From `MaintenanceAssumption` (of migration: rows have a key and perhaps a time, rows with
one key have one time, as the key takes in the row, and no file is empty; of the others:
the kinds of lines are disjoint, there is a file to export, `None` is no payload and no
outcome), `RebuildAssumption` (the log found at the start has one event per id) and the
assumptions of the event store.

| theorem | states | argument |
|---|---|---|
| `RebuildStaysFaithful` | `[]RebuildIsFaithful` | `RebuildInv`, which TLC checked first. While nothing is missed or left over, the tables tell of the whole log (`FaithfulTables`): each row has its newest evidence, each counter counts the log. That a replay makes such tables is an induction on the length of the log, over the result lemmas of the handlers; sorting by time changes neither what is newest nor what is counted (`SortedKeepsNewest`). For the receipt, a job that is about to delete knows every event in the log that ingest would reject, as that admits no new ones, and what it then reads is a part of the log without them (`JobKnows`, `FixturesGone`); a rejected event is one the quarantine selects (`RejectedIsQuarantined`), though not the reverse |
| `ReplaysAgree` | `MaintenanceSpec => ReplayAgreesWithArrival` | before and after a replay each row has the newest of the same evidence, which settles its state and its time (`OneNewestWord`) |
| `RowsOnce` | `[]OneEventPerRow` | an id is made of fingerprint and key (`IdsNameRows`) and the store keeps one event per id (`OneEventPerId`) |
| `ReceiptsAreKept` | `[]ReceiptMeansImported` | `RunsAreOnTrack` adds that a run at row n has left every earlier row in the store, and one about to write its receipt all of them |
| `DatedRowsNeverConflict` | `[]OnlyTimelessRowsConflict` | an event tells its row's own time (`EventsTellRows`), so two events of one row differ only where it has none |
| `DrainsStayExact` | `[]DrainsAreExact` | a line with id and time is never wrapped (`NamedStayBare`); while no append overlaps a drain, one drain is at work, and it has yet to meet, has applied or keeps every line of the file, until it empties it (`InTurn`) |
| `ExportsStayWhole` | `[]ExportSetIsWhole` | while writers take turns, the one at work is the latest, and every file before its place is its own (`WritesInTurn`); a killed writer leaves newer files under the older manifest |
| `PromotionStaysHonest` | `MaintenanceSpec => PromotionIsHonest` | what is installed follows from where the helper is (`InstalledAsTold`); the process it awaits was started from that (`WaitsForItsOwn`); nothing moves after the receipt (`ReceiptComesLast`) |

### Account renewal (`RenewalProofs`)

From `RenewalAssumption` (Pi is no renewer, `None` and `Orphan` no users).

| theorem | states | argument |
|---|---|---|
| `TypeCorrect` | `Spec => []TypeOK` | part of `IInv` |
| `Exclusive` | `[]MutualExclusion` | the lock names who is inside, so only the holder moves file and lock |
| `TokenStaysValid` | `[]SavedTokenIsValid` | `SavedTokenIsValid` speaks of a free lock only. `IInv` adds what holds inside: what was read is current (`ReadIsCurrent`), an answer is what the provider accepts (`AnswerIsValid`), and a token that is neither in the file nor lost is with a renewer that was answered (`TokenIsKept`) |
| `OthersArePreserved` | `Spec => OthersPreserved` | from `ReadIsCurrent`: what a renewal writes back is what the file holds |

### Only model-checked

- Liveness (`EveryRequestSettles`, `QuotaLegComesBack`, `LocksComeFree`, `PageKeepsUp`): out
  of the prover's reach, as it rests on fairness and ENABLED. Every safety and action
  property of a passing run is a theorem.

## Not modelled

- `RecheckWorker`: the refresh of the catalog in the loop of its thread, which is a
  refresher of `Catalog`. `Resume`: the preflight, which changes no state.
- Service heartbeats; strategies beyond the three kinds the code distinguishes; limits
  on lengths and names; wording of reasons and errors.
- Snapshot: the selection of the goal to show, its liveness from heartbeats, account
  summaries and provenance. Pure functions of one read, with no state of
  their own.
- Service: routing, headers, origin checks, assets. Dashboard: rendering.
- Exports: the contents of `model-routing.json` and `free-models.json`, apart from their
  place in the set; tier minutes.
- Guardian and apply scripts, the PowerShell ladder, the auto-switch plan and cap
  inference: the installer retires them in favour of the service. The walk of the
  Foundry queue, which still runs, is `NextStep` of `Exports`.
- The PowerShell installer and its rollback script, the desktop status window
  (layout), tests and browser acceptance.
- Probe leases (`db.py:358`): no code takes one.

Two hazards have no property of a run, as the code falls to them. A leg left PROBING
(`decision.py:164`): nothing clears it but a result, so no property of the kind "comes
back" holds; `InFlightMeansAProbe` shows the case. A late event of one model
(`events.py:953`) brings back what a newer refresh retired; `OmittedModelsStayRetired`
shows it.

## Plan

1. Abstract specifications of a policy history and of a one-holder lock, which
   `PolicyVersions`, `Resume` and `AccountSetup` implement, with the refinements proved.
2. Goal selection and liveness of the snapshot as pure operators; the guardian's check as a
   state machine, if it is put back into service.
