# A verification model of BTech.API

BTech.API is the backend of a multi-tenant fleet control application: a Go HTTP
service over PostgreSQL. This directory models its core in TLA+, checks the
models with TLC on small instances, and proves their main properties with TLAPS
for every value of the constants. `PROJECT.json` holds the machine-readable
side: components, runs, mutants, the map from definitions to source lines,
findings, hazards and theorems.

## The system

A request passes through the middlewares (request id, real IP, audit context,
logger, timeout, rate limit on the public routes, JWT check), a handler, one use
case, and the repositories. Requests run concurrently, one goroutine each.
Unless noted, **every repository call is one auto-commit SQL statement**; use
cases hold no lock and no transaction across calls. So what a use case reads may
be stale when it writes, any statement may fail or be applied without its answer
arriving (`middleware.Timeout` cancels the request's context), and the process
may end between any two statements.

| component | state it keeps | operations | interacts with | hard behaviour | what makes it correct |
|---|---|---|---|---|---|
| refresh-token sessions (`auth_usecase.go`, `session_repository.go`, `jwt.go`) | `user_sessions`; tokens at clients | login, refresh (rotation), logout, revoke, list | users, organizations, permissions (reads); audit | whole-row write-back of stale copies, replay detection, lost answers, expiry of two things | one live token per session, replays detected, revocation final, sessions isolated |
| audit pipeline (`audit_usecase.go`) | channel of 1000, one worker, goroutines on overflow, `audit_logs` | `Log`, worker, list | called by all use cases; pool; shutdown | full buffer, failing inserts, shutdown with queued entries | each entry settled once; all recorded while serving |
| process lifecycle (`main.go`) | phase of the process | serve, drain, close pool, exit | HTTP server, pool, audit worker | order of shutdown steps | nothing accepted is lost in an orderly stop |
| driver creation (`driver_usecase.go`, `driver_repository.go`) | `drivers` | create, update, read | entitlements, audit | count then insert; random ids | quota, tenancy of rows |
| entitlements (`entitlement_usecase.go`) | overrides; plan limits | value, feature, quota; set/delete override | subscriptions, plans | three reads, errors taken for absence | precedence: override, expiry, plan |
| rate limiter (`rate_limit.go`) | a bucket per address | `Limit`, cleanup goroutine | public auth routes | refill arithmetic, sweeping while serving | no window above burst plus refill; map does not leak |
| subscriptions (`billing_usecase.go`) | `subscriptions`, event history | resolve (auto-provision), create, update, cancel | plans, audit | check-then-insert, stale whole-row writes, history after the fact | one subscription per organization, consistent status |
| usage counters (`usage_tracking_usecase.go`) | `usage_counters` per month | get, increment (atomic upsert), check-and-increment | entitlements | check-then-increment, change of month | usage within quota |
| registration (`RegisterUser`) | organizations, users, mappings | register | audit | three inserts, no transaction | every user belongs to an organization and can log in |
| maintenance (`maintenance_usecase.go`) | suppliers, plans, records, alerts; vehicle status and mileage | CRUD, side effects, alert engine | vehicles, audit | side effects across four tables with errors ignored | nothing due goes without alert, alerts do not pile up, mileage only rises, due points agree with their plan |
| fuel (`fuel_usecase.go`) | `fuel_records` | create, update within 24 h, delete, anomaly pass | vehicles, drivers (reads), audit | odometer check against the latest record; stale anomaly write | odometer never regresses, deleted records stay deleted |
| driver documents (`driver_document_usecase.go`) | documents, files, alerts; expiry copied to the driver | CRUD, upload, delete attachment | storage, drivers, audit | file and row written separately; copies drift | status belongs to its date, attachments have their content, the driver's row gets the right date |
| vehicles, trips, incidents | one table each; checkpoints of trips | create, update, read | audit | read-merge-write | updates lose nothing when they do not overlap |
| access middleware, permissions, routing, DTOs, configuration, logging, bcrypt, seed | none, or set once | | | | pure checks and wiring |

## Modules

| module | extends | models |
|---|---|---|
| `SessionFamily` | | the promise: atomic token families (open, rotate, revoke) |
| `Sessions` | | the session use case split at its repository calls |
| `DriverQuota` | | driver creation, entitlement evaluation and the billing rows they read |
| `AuditTrail` | | the promise: each entry is settled once, and eventually |
| `AuditLog` | instantiates `AuditTrail` | channel, worker, overflow goroutines, process |
| `RateLimiter` | | buckets, sweep, clock |
| `Tenants` | | the promise: slugs and homes of one's own, for good, and nobody is told of success who cannot log in |
| `Registration` | instantiates `Tenants` | `RegisterUser` and its handler, statement by statement |
| `Billing` | `Registration` | subscriptions and their history, overrides, usage counters, for the organizations that registrations create |
| `Maintenance` | | records, plans, alerts, and the vehicles they and `UpdateVehicle` write |
| `Fuel` | | fuel records, the odometer comparison, the anomaly pass |
| `DriverDocuments` | | documents, their alerts, attachments and files, and the row of the driver |
| `MC<module>` | the module | the sets, bodies and symmetries of its runs (`Registration` is run inside `MCBilling`) |
| `<module>Proofs` | the module, `TLAPS` | theorems and proofs (those about `Registration` are in `BillingProofs`) |

The components are composed where they share state. `AuditLog` contains the
shutdown of `main.go`. `DriverQuota` contains driver creation, entitlements and
what billing does to the rows they read. `Billing` runs registrations and billing
requests side by side on the same processes, and only for organizations somebody
can log in to. `Maintenance` contains `UpdateVehicle`, which writes the rows that
completed work also writes, and `DriverDocuments` contains the driver repository's
`Update`. Sessions and limiter share no state with the others: a
rejected request never reaches a use case, and audit entries are not read back.

### Conventions

A process of `Procs` serves one request at a time; `pc` names the statement it
waits for, and the other fields of its record are the local variables that
statement still needs. `begun` counts requests and `faults` failed statements,
both up to a bound. In `Registration`, `Billing`, `Maintenance`, `Fuel` and
`DriverDocuments` a statement that fails has no effect; in `Sessions` and
`AuditLog` it may also have been applied with its answer lost.

Many promises of this code hold only if nobody interferes: it compares, reads
again and writes a whole row, without a lock. The history variable `alone[p]` is
TRUE as long as, since `p` began its request, no other request has written (and, in
`Maintenance` and `DriverDocuments`, no statement has failed and no day has
passed). The properties named `Undisturbed...` say what the steps of
one request add up to under that condition. They do not hold by the shape of
the model: the request still goes through its separate reads, merges
and whole-row writes, and starts from tables that disturbed requests left behind.

### Sessions

A request is a process of `Procs` with a program counter `pc` (which statement
it waits for), the token or session it is about, and `copy`, the
`*domain.UserSession` it works on. `RefreshRead` is `GetByID` with the checks of
lines 308-343 of `auth_usecase.go`; its three outcomes are refusal, replay
(`CompromiseWrite`) and rotation (`RefreshMint`, `RefreshWrite`). `Update`
writes every column from the copy, as the SQL of `session_repository.go` does.
A write is `"ok"`, `"lost"` or `"late"` (applied, reported as an error). Tokens
are model values minted with `sid` and `exp` claims; a token stands for its
SHA-256, which the random jti makes distinct. A login or a rotation always
picks a token never minted before. The lookups of user, mapping and
permissions change nothing and are one step, which may fail (`Abort`).

The history variable `spent` records tokens whose hash the table replaced,
`compromised` the sessions for which session.compromised was logged, and
`req[p].replay` whether the presented token was spent on arrival.

### DriverQuota

A request counts (`CountDrivers`), reads the override, the subscription and the
plan, decides, and inserts under an id drawn from `Ids`. Values of
`drivers.max` are numbers or `Unlimited`; everything `Atoi` rejects is 0, as in
`EvaluateQuota`. The fallback to the free plan (two reads in the code) and the
read of a plan's entitlements are one step, since plans are constant. Reads that
fail end the request, except that of the override, which counts as no override.
`SetOverride`, `DeleteOverride`, `Subscribe` and `Expire` change the billing
rows at any time; no route of the service calls the first three yet, and no code
writes the status "expired", which is an external action. No driver is ever deleted by
the code, so none is here.

History: `granted` (largest limit ever answered), `unbounded` (organizations
once answered Unlimited), `met[p]` (what the request has met since it counted:
moments at which its count was below the limit in force, the limit of the plan,
or an override beside an expired subscription; changes of either table; an
override it could not read). `LimitInForce` is what the repository says, not
what the code reads first: nothing once the subscription has expired
(`entitlement_usecase.go:63`), else the override if there is one
(`entitlement_usecase_test.go:101`), else the plan.

### AuditLog

`Log` runs inside a request. With room in the buffer the entry goes to `queue`,
otherwise to a goroutine of its own (`fallback`). A writer that holds an entry
starts the INSERT (it holds a connection) and finishes it: applied or not, with
or without an error. The process serves, drains on a signal, closes the pool
when no request is left or after the 15 seconds of `Shutdown`, ends when
the pool's connections are back, and is started again; it may crash at any time.

### RateLimiter

Every action holds the mutex in the code, so it is atomic. Tokens are counted in
fractions (`Unit` of them make one token) and time in ticks, instead of float64
seconds; rounding of the floats is not modelled. `served[ip][a]` counts the
requests passed on since time `a`.

### Registration and Billing

`Registration` follows `RegisterUser` from the look-up of the address
(`CheckEmail`) to the answer (`Answer`): the look-up of the slug, whose error
passes for a free slug, three INSERTs without a transaction, and the two reads after
them. The unique keys on address and slug are guards of the INSERTs. `answered` is a
history of the addresses that got a 201.

`Billing` adds `subs`, `history`, `overrides` and `usage`. A subscription is read and
changed when a request begins (`BeginRewrite`), written back whole (`UpdateRow`) and
recorded by a third statement (`WriteHistory`). Provisioning, by its
endpoint or by `ResolveActiveSubscription`, is a look-up (`BeginCreate`) and an
INSERT with the organization as unique key. `SetOverride` is the one transaction:
its DELETE sees the rows committed when it starts (`rows`), waits for those another
transaction has `Locked`, removes the ones that are left, and inserts; what it does not
see survives, so that duplicates arise. `CheckAndIncrement` reads a limit, compares
the counter of the month (`ReadUsage`), and increments the counter of what is then
the month (`Increment`); `Tick` is the turn of the month. `GetEntitlementValue` is
one step here, being separate statements in `DriverQuota`. History: `changes`
counts the writes of a subscription, `granted` is the largest limit answered,
`unbounded` the organizations once answered `Unlimited`.

### Maintenance

A body is a record in which `None` and 0 are absent fields, `Clear` the empty plan id.
Saving a record (`CreateMaintenance`, `UpdateMaintenance`) is followed by
`handleMaintenanceSideEffects`: `ReadVehicle`, `MergeVehicle` and `WriteVehicle` are its
`GetByID` and the two statements of `vehicleRepo.Update`; `ReadPlan`,
`ReadVehicleForPlan`, `CalculateNextDue`, `MergePlan` and `WritePlan` restart the plan
of completed preventive work; `ResolvePlan` ends its alerts. Its errors are dropped, the
request goes on. `CheckVehicle`, `ListPlans`, `Probe` and `CreateAlert` are
`CheckAlertsForVehicle`. Plans and vehicles enter the same chain where their
endpoints do. A plan may be due by mileage, by date or both; the two run the same way
over a meter, so `interval`, `last` and `next` are functions on `Kinds`. Alerts
are counted per plan and kind. `blind` records the pairs whose probe failed: an
error counts as no alert.

### Fuel

`CheckOdometer` compares with any one of the records that share the latest date
(`ORDER BY date DESC` leaves ties open), `Insert` draws a new id, `Detect` reads
the last `Window` records in any order of ties and judges the consumption against
the average of the others, and `Flag` writes the whole record again from the copy of
the insertion. An update looks at the record and the 24 hours of an operator
(`BeginUpdate`; `Age` ends them), compares if odometer or vehicle change, looks again
when that fails (`LookAgain`), and replaces every column. Consumption is in whole
kilometers per `Unit` liters; the 30 % of the code is exact over these.
`inOrder` records that so far every record was created undisturbed with a date later than
all others of its vehicle and no write changed date, odometer or vehicle.

### DriverDocuments

Saving a document computes its status from date and calendar (`StatusOf`), writes the
row, resolves its alerts, creates one if the status asks for it, and copies the date
into the driver's row by `driverRepo.Update`, a read and a write of the whole row
(`ReadDriver`, `WriteDriver`). Deletion goes on to the rows of the files and to the driver,
with no date. An upload makes the file under a random key (`BeginUpload`; `Partial`
until `CopyContent` is done) and then the row; deleting an attachment removes the
row only. `redrawn` records keys that came up a second time: the five random digits
are not checked against the directory, and `os.Create` empties the file that is there.

## Runs

Passing runs. Symmetry is used where no liveness is checked.

| run | instance | shows |
|---|---|---|
| `sessions` | 2 users, 2 sessions, 3 tokens, 2 requests, all write outcomes, clock 0..2 with a lifetime of 1 | `SpentTokensStayDead`, `ReplayNeverRotates`, `HashesBindTheirSession`, `SettledRevocationIsFinal`, `RevokedForOwnerOnly`. A request of the code reads a row once and writes it once, so two requests give every overlap of a read and a write; three tokens give a login followed by two overlapping rotations, or two rotations and a replay; two ticks let tokens and rows expire |
| `sessions_serial` | 2 users, 2 sessions, 4 tokens, 1 request at a time, all write outcomes | implements `SessionFamily` |
| `quota` | 1 organization, 3 ids, 2 requests, plans with limit 1 and unlimited, overrides 0 and 1, failing statements | `OvershootIsBounded` (three ids are the least that could break it: limit 1 and two requests); `AdmissionsAreAccountedFor`: between count and insert a request had room under the limit in force, but for the two cases the property names. An override of 1 admits beside an expired subscription, one of 0 stands against the plan. Organizations share nothing but the ids, and both theorems cover any number of them |
| `audit` | 4 entries, 2 handlers, a buffer of 1; inserts may fail, the process may crash, the drain may time out | `EntriesAreInOnePlace`, `ImplementsTrail` with its liveness. Four entries: one in the worker, one in the buffer, two in goroutines of their own |
| `rate_limiter` | 2 addresses, burst 2, half a token per tick, clock 0..6 | `WindowBound` and its converse, `RefusalsAreEarned`, across refills, refusals and sweeps; six ticks refill the burst and pass the age of a stale entry several times |
| `billing` | 2 addresses whose companies have one name, 1 suffix, 2 organizations, 2 processes, 5 requests, 1 fault, a plan with limit 2 and one without, override 1, increments of 1 and 2, 2 months | `ImplementsTenants`, `TenantsAreSeparate`, `LockoutsTakeFaults`, `ProvisionedOnce`, `HistoryMissesOnlyFailures`, `OverridesDoNotPileUp`, `UsageOvershootIsBounded`. One name makes the slugs collide with and without suffix; five requests are a registration and four calls for its organization, two pairs of which may overlap, or a third override over two duplicates |
| `maintenance` | 1 vehicle, 1 plan by mileage (1) and date (2), notice 1, 1 record, 3 record bodies, a vehicle body with mileage 3, 2 processes, 4 requests, 1 fault, 2 days | `AlertsDoNotPileUp`, `UndisturbedCheckAlertsAll`, `CompletionEndsAlerts`, `UndisturbedMileageNeverFalls`, `UndisturbedPlanIsConsistent`. The plan alerts by mileage at once and by date only after a day; four requests are a plan, work for it, and two that overlap |
| `fuel` | 1 vehicle, 2 past records, 6 ids, bodies in line with the past, out of line, below the latest and without date, 2 processes, 4 requests, 1 fault | `InOrderRecordsNeverRegress`, `DeletedRecordsStay`, `UndisturbedFlagKeepsReadings`. Two past records are enough for the detection (`MinPrior` 2 for the code's 3, `Window` 3 for its 8, `Baseline` 2 for its 5), four more ids for four creations |
| `documents` | 1 driver, 2 documents (license, toxicology, no column), 2 attachments, 2 keys, dates none, 1 and 3, notice 1, 2 processes, 4 requests, 1 fault, 2 days | `StatusOnlyLags`, `AlertsDoNotPileUp`, `AttachmentsAreWhole`, `UndisturbedSyncSetsOneDate`. All three statuses occur, a key can be drawn twice, and two documents of different types meet in the driver's row |

`ImplementsTrail` maps a given-up entry to one whose INSERT failed without effect
or that was still in memory when the process ended. So while the process serves
and no INSERT fails, it says that every entry passed to `Log` is recorded.

`ImplementsTenants` maps the three tables of a registration to `Tenants`: the
organizations' slugs, the `organization_id` of the users, and who can log in (the
user row and its mapping are both there); what is confirmed is what was answered
with 201. So an INSERT is a step of `Tenants` and everything else a stutter.

Runs that show a disagreement between the code and what the repository says:

| run | property | what TLC shows |
|---|---|---|
| `sessions_revocation` | `RevocationIsPermanent` | a refresh that had read the row writes it back after a logout, flag cleared |
| `fuel_unset` | `UnsetDateIsKept` | a PUT without date stores the zero time |
| `documents_deletion` | `DeletionClearsDate` | the driver keeps the date of a deleted document |

Eight more configurations are kept beside these and can be checked by hand (`tlc -config
<cfg> <module>`); each ends in a counterexample:

| configuration | property | what TLC shows |
|---|---|---|
| `MCSessionsSupersede.cfg` | `RotatesPresentedToken` | two refreshes with one token both succeed, the second over the first |
| `MCSessionsCompromised.cfg` | `CompromisedIsRevoked` | the compromise is logged, the revocation lost |
| `MCDriverQuotaExceeded.cfg` | `QuotaIsNeverExceeded` | overlapping creations pass the limit |
| `MCDriverQuotaExpired.cfg` | `ExpiredSubscriptionBlocks` | an override admits a driver although the subscription is expired, against the comment at `entitlement_usecase.go:63` |
| `MCDriverQuotaUnlimited.cfg` | `UnlimitedIsCreated` | an id collision refuses a driver of an unlimited plan |
| `MCAuditLogStop.cfg` | `OrderlyStopLosesNothing` | an orderly stop drops queued entries |
| `MCRateLimiterCleanup.cfg` | `StaleEntriesAreRemoved` | a refilled, idle entry survives the sweep |
| `MCFuelPrior.cfg` | `EditsCompareWithPrior` | an edit of the latest record is compared with the record itself, so it may read less than the one before |

More are visible in the modules without a configuration: overlapping
rotations store the same `token_version` (`RotatedCopy`), an override that cannot be read
is taken for none (`ReadOverride`), and overlapping calls of `SetOverride` leave two
rows (`OverridesAreUnique` in `Billing`, from the comment at `entitlement_repository.go:79`).

Deadlock is checked in every run. In the older modules some request, sweep
or change of the billing rows remains possible at every bound; the newer ones stop when
`MaxRequests` have been served, and `Served` is then the only step. It
requires every process to be idle, so a request stuck halfway would still be a deadlock.

### Fairness

Only `AuditLog` states any. `WF` of the worker and of the statements of each
entry: the Go scheduler runs every goroutine that can run and PostgreSQL answers
every statement, with a result or an error. No fairness is assumed of clients
(`BeginRequest`, `Log`, `EndRequest`), of the operator (`Signal`, `Restart`), of
the shutdown or of crashes.

## Proofs

All proofs are for arbitrary constants, under the named assumptions of the
modules (types, and that "absent" values are none of the values they stand in
for).

Three kinds of theorems recur:

* what holds **whatever overlaps and fails**, from an inductive invariant `IInv`
  with `Init => IInv` and `IInv /\ [Next]_vars => IInv'`, one lemma per action;
* **how far a race can go**, for every `K`: as long as at most `K` requests are
  between the check and the write it justifies, a bound is passed by at most so much.
  With `K` the number of processes this is the property of the run, with `K = 1`
  the promise the code states and that overlapping requests break;
* what holds **as long as certain requests do not overlap**. The hypothesis is a state
  predicate (`RotationsRunAlone`, `SetsRunAlone`, `RewritesRunAlone`; for the stop,
  `StopsWhenDrained`) under `[]`
  next to `Spec`, which names what a lock or a condition in the UPDATE would have
  to ensure. It restricts only the requests it mentions: any number of others
  may run, and statements may fail. TLC finds each conclusion violated without it.

In detail:

* **Sessions.** `IInv` adds to the type invariant that row, copies and claims
  agree: the hash of a row or of a copy about to be written was minted for that
  session and not later than the copy says; a pending rotation's token is
  unique to it and never current before; a copy of a revocation holds either the
  row's current hash or a spent one; and a request that arrived with a spent
  token cannot be waiting to rotate. It is needed because a write takes
  everything from the copy: what a later write stores depends on what was true
  when the copy was read. From it: `SpentTokensNeverReturn`, `HashesStayBound`,
  `ReplayIsDetected`, and, as action properties, `SettledRevocations` and
  `OwnersRevoke`. Under `RotationsRunAlone` (no rotation between its read and
  its write overlaps another request of the same session there) `WindowInv` says that
  what such a request has read is still so. Then the service implements
  `SessionFamily` (`UndisturbedRotationsImplementFamilies`, of which
  `SerialServiceImplementsFamilies` is the case of a single process), revoked
  sessions stay revoked (`RevocationsLast`), a rotation replaces the token it was asked
  with (`EachTokenRotatesOnce`), and a session reported as compromised is revoked
  unless its UPDATE is lost (`CompromisedSessionsAreRevoked`).
* **DriverQuota.** `InsertersWereAdmitted` bounds what a pending insert has seen by
  what was granted. For the race (`RaceIsBounded`), the drivers there are and those
  that pending requests may still add are counted together, for every limit at least
  as large as those granted, since the next evaluation may answer a larger one.
  `OvershootBoundedPerOrganization` is the bound for every `K`, `OvershootBounded`
  the property of the run, `OneAtATimeKeepsQuota` the documented promise, which
  takes no overlap within an organization and allows any across.
  `AdmissionsAccountedFor` needs to know what a request that is still reading has
  met (`Explained`): always the present moment; after finding no override, that
  there is none unless it met a change, and that it then had the room the plan
  gave it; before reading the entitlements of a plan, that an admission by that
  plan is accounted for.
* **AuditLog.** `EntriesAreInOnePlace` is inductive with the types; the step
  cases are those of moving one entry from one place to the next.
  `PipelineImplementsTrail` proves the safety part of the refinement.
  `DrainedStopsLoseNothing` locates the loss `MCAuditLogStop.cfg` finds: if the
  pool were closed only once no goroutine has an entry left to write
  (`StopsWhenDrained`), nothing would go with an orderly stop, even one whose wait
  for requests times out.
* **RateLimiter.** `WindowBound` becomes inductive when what could still be
  served at once (`Refill`) is added to what was served; `RefusalsAreJustified` is its
  converse: what a bucket holds is always exactly what some stretch of time has left
  over (`Earned`).
  `NothingIsEverRemoved` proves what `MCRateLimiterCleanup.cfg` shows once: with a
  burst of at least one token a stored bucket is never full, so the sweep removes
  nothing.
* **Billing.** `IInv` covers registrations and billing together. `RegInv` says
  that an organization is held by one request or named by one user, and that a
  pending mapping is that of the user just written; an address is counted as locked
  out only when no request is left to write its mapping. From it each INSERT of a
  registration is a step of `Tenants` (`InsertOrgFounds`, `InsertUserMovesIn`,
  `InsertMemberActivates`, `AnswerConfirms`) and every other step a stutter
  (`RegistrationImplementsTenants`). `OneCreation`: the creation
  of a subscription is in the history, about to be, or lost, and there is none
  as long as there is no subscription. `OneOverrideEach`: a process leaves one
  override of an organization at most, and the request it is serving sees it,
  which is why the next `SetOverride` removes it; `SetsAloneKeepOverridesUnique` is
  the promise of `entitlement_repository.go:79` without overlap. `UsageFits(K)`
  accounts for the increments under way: the one checked last was compared with the
  limit, each of the others counts as the largest amount
  (`OvershootBoundedPerOrganization`, `OvershootIsBounded`, `OneAtATimeKeepsLimit`).
  `RewritesAloneKeepHistory` says what the history is good for: without overlapping
  rewrites, and unless an event was lost, it is a chain from the creation of the
  subscription to its stored row.
* **Maintenance.** `RowsAreThere` (a request that will overwrite a row has
  read one, and rows never go away) and the shapes of requests give `TypeCorrect`.
  Every step also keeps `RisesFromZero`: the active alerts of a plan and kind plus the
  requests about to add one rise only when a probe has found none. So
  with at most `K` requests between probe and INSERT there are at most `K` alerts
  (`AlertsBoundedPerPair`, `AlertsAreBounded`, `ChecksAloneKeepAlertsUnique`). The
  action properties come
  from `HInv`: an undisturbed request `Knows` that what it has read (mileage,
  plan, the list of due plans, the missing alert) still is what the tables hold, and every
  stored plan is sound; each property then is a case of the request's last step.
  `UndisturbedChecksAlert` and `UndisturbedChecksAlertOnlyWhatIsDue` together say
  that an undisturbed evaluation alerts exactly what is due.
* **Fuel.** `InsertsWereCompared` carries the comparison of an undisturbed request
  to its INSERT, `FlagsKnowTheirRow` the insertion to the flag. With them
  `InOrderRecordsNeverRegress` is inductive. Two theorems bound the disagreements
  of the two `MCFuel...` violation runs. `EditsWereCompared` says that who is about to edit
  undisturbed has passed the comparison, is a latest record, or keeps its reading; hence
  (`OlderEditsAreCompared`) in a table in order only an edit of a latest record can read
  less than one before it. And if every body has a date (`DatedBodiesKeepDates`) no
  record loses its own.
* **DriverDocuments.** `PendingRowsLag` says of rows waiting to be written what
  `StatusOnlyLags` says of stored ones; `UploadsOwnTheirKey` that a key drawn once
  belongs to one upload from the file to the row. Every step keeps `RisesWithFaults`:
  active alerts of a document and those about to be recorded rise by no more than
  statements have failed, unless they have just been resolved
  (`AlertsBoundedPerDocument`, `AlertsAreBounded`). `HInv` is the counterpart of
  Maintenance's for the sync of the driver's row; with `AInv` (an undisturbed request
  that is about to record an alert has resolved all others) it gives
  `UndisturbedSavesAlert`: such a save leaves exactly the alert its date asks for.

`TypeOK` and every property of the passing runs but `ImplementsTrail` is named
by a theorem, and of `ImplementsTrail` the safety part is
(`PipelineImplementsTrail`).

Only model-checked: the liveness half of `ImplementsTrail` (liveness is beyond
the prover), and that the disagreements listed above really occur.

## Not modelled

Contents of e-mail, metadata, user agents and wording; signatures (tokens with a
bad one are refused before any state is read); read-only endpoints; the listing
of sessions and logs; bcrypt; the HTTP layer beyond the request timeout; the SQL
engine (a statement is atomic, unique keys hold, and row locks are modelled where a
transaction of the code takes them). Of the components:

* **Trips and incidents.** `UpdateTrip` reads the trip, writes six columns and
  replaces the checkpoints in one transaction, which the row lock of its UPDATE
  serializes; an incident is merged from one read into one row. Nothing else
  depends on either. What can go wrong is the lost update of a stale read, which
  `Maintenance` and `DriverDocuments` show for vehicles and drivers.
* **Suppliers, `CreateVehicle`, `UpdateDriver`** of the use cases add or merge single
  rows. `Reset` and the unchecked `IncrementUsage` of the counters have no caller.
* **Dates of subscriptions** (trial, period) are stored and never compared;
  the expiry of an override is, as far as a read can tell, the deletion of its row.
* **Audit calls** of the use cases change nothing they read; what becomes of an entry
  is `AuditLog`.
* **Access middleware and permissions, routing, DTOs, configuration,
  logging, schema and seed data** keep no state of their own while the service runs.
* Two effects on files: content that no row names (a failed upload, a deleted
  attachment) stays in the directory by design of the code, and no property says more.

## Where to go on

All components that share state are modelled. What is left: trips with their
checkpoints, as a transaction next to reads of the same trip; the vehicle's status
under several records at a time, once the team has decided what it should be
(completing one frees the vehicle while another is in progress); and lost answers
(applied but reported as an error) in the modules that so far have clean failures only.
A composition of `RateLimiter` in front of `Sessions` is not planned: they share no
state.
