# YoBFF in TLA+

YoBFF is a reverse-proxy gateway in one Go process. Its data plane decides for every
request whether the client may enter and which upstream answers. Its control plane
changes the configuration behind that decision: an admin API, a watcher of the
configuration file, and background jobs that fetch the address lists of CDN providers.
All of them run concurrently on shared memory and an SQLite database. The models in this
directory follow the code of `src/`; `PROJECT.json` maps every definition to its lines.

## Inventory

| Part | State | Operations | Interacts with |
|---|---|---|---|
| `config.Manager` | `data` (atomic pointer to the compiled snapshot), `cdnStatuses`, `dynamicCIDRs`, site lists (mutex) | `Apply`, `Validate`, `UpdateProviderStatus`, `Reload`, `ResolveRoute`, `IsIPAllowed`, `UpdateSiteCDNProviderSnapshot` | called by every other part |
| `config.Watcher` | `lastMod` | `tick` | reads the file, calls `Reload` |
| `syncer.Service` | - | rounds of one goroutine per provider | `UpdateProviderStatus` |
| admin configuration API | - | PUT config, rollback, PUT cdn/config, reload | manager, version table, audit table |
| admin load-balancer API | - | pools: POST, PUT, DELETE; routes: PUT, DELETE | slices of the live document, version table |
| routing (`manager_lb.go`) | rings and counters of the snapshot | migration, conflict check, compilation, resolution | part of `Apply`; called by the gateway |
| `gateway.Handler` | - | `ServeHTTP` | site store, manager, log pipeline |
| `logging.Pipeline` | bounded channel, closed flag, four counters | `Emit`, `Snapshot`, `Close`, worker | gateway, admin API, `main` |
| site origins | status and snapshot tables, lists in the manager | jobs with backoff, manual refresh, `warmCache`, `DeleteSite` | manager, site store |
| site store | sites, versions (ten newest), sealed secrets, log streams, audit rows | create, update, configure, roll back, delete | admin API, gateway, site origins |
| admin authentication | login guard, captchas, rate limiter | login, `withAuth`, `withRateLimit` | credentials of the configuration in force; in front of every other handler |
| certificate selection | certificates by name, default | `loadCertificates`, `GetCertificate` | part of `Apply`; called by TLS handshakes |
| others | - | certificate upload, weaver drafts, site logs, block page, plug-ins, front-end | - |

What is hard here, and therefore what the properties are about:

- `Apply` is not atomic: it copies two lists under a mutex, compiles without it and stores
  with an atomic pointer. Six kinds of callers interleave, some of which applied a document
  they had *read* from the manager before.
- The file, the live snapshot and the version table are three places that may disagree
  after a failure or a restart.
- A request reads the store and the manager six times; swaps fall between these reads.
- The pipeline is lock-free: a check of a flag, three counters and a channel send, racing
  with `Close`.
- Go slices of the live document are shared with handlers that edit them.
- A change of a site reads, seals and merges secrets, and writes in statements that are
  only partly one transaction; a login reads the guard, the captchas and the credentials one
  after the other; the credentials may change at any of these points.

`PROJECT.json` lists these hazards line by line with the properties that cover them.

## Modules

| Module | Models | Kind |
|---|---|---|
| `ConfigSnapshot` | documents, `Validate`, `buildSnapshot` | operators |
| `ConfigSwap` | what the manager promises: whole snapshots, each compiled from one document and the lists of one instant | abstract specification |
| `ConfigManager` | manager, watcher, synchronisation, configuration API, start and stop | state machine |
| `ConfigManagerProofs` | theorems about `ConfigManager` | proofs |
| `Routing` | migration, conflicts, rings, resolution, load-balancer validation | operators |
| `Certificates` | loading of certificates, choice for a handshake | operators |
| `RouteTables` | apply and re-apply of the routing and the certificates of one document | state machine |
| `RouteTablesProofs` | theorems about `Routing`, `Certificates` and `RouteTables` | proofs |
| `Gateway` | `ServeHTTP`, over `Routing` | state machine |
| `GatewayProofs` | theorems about `Gateway` | proofs |
| `LBAdmin` | `admin/lb.go` on a heap of arrays, over `Routing` | state machine |
| `SiteOrigins` | `SiteOriginService`, manual refreshes, their tables and the lists in memory | state machine |
| `SiteOriginsProofs` | theorems about `SiteOrigins` | proofs |
| `SiteStore` | sites with their configurations, versions, log streams and audit rows; secrets and their key | state machine |
| `SiteStoreProofs` | theorems about `SiteStore` | proofs |
| `AdminAuth` | rate limiter, login guard, captchas, login, check of the token | state machine, composed by `AdminAPI` |
| `AdminAuthProofs` | the inductive invariant of `AdminAuth` | proofs |
| `AdminAPI` | `SiteStore` behind `AdminAuth` | state machine |
| `AdminAPIProofs` | `AdminAPI` implements both parts; theorems about it | proofs |
| `LogPipeline` | `logging/pipeline.go` and the end of `main` | state machine |
| `LogPipelineProofs` | theorems about `LogPipeline` | proofs |
| `MC*` | instances for TLC | constants |

### ConfigManager

A document is a record: an identity for the text, the form of its routing section, the
static whitelist, the providers to synchronise, and whether environment values are in
place. The constants `Flawed` and `Uncompilable` say which texts `ValidateConfig` and
`buildSnapshot` refuse: these are different functions in the code, and what one accepts
the other may refuse (a blank CIDR entry is the smallest case). A conflict between the two
routing sections and the migration of the old one are part of `Applies` and `Prepare`. A document whose
only conflict is a default upstream beside a default pool (`"defaults"`) is refused, unless
`DEFAULT_UPSTREAM` clears the pool at the start (`EnvUpstream`).

Every caller is a thread. `pc` names the point that it has reached: `fetch`, `read`, `load`
are before `Apply`; `copy` is before the critical section; `store` is between the critical
section and `data.Store`; `save` and `audit` follow it. `ApplyCopy` and `ApplyStore` are the
two halves of `Manager.Apply`, taken by all threads. `Boot` is `NewManager` with the first
`Apply` in `main.run` (no other goroutine exists yet); `StartWatcher` is `NewWatcher` and the
listeners; `Stop` ends the process at any point and keeps the file and the tables.
`loaded` and `startMod` are history variables for the watcher's properties.

The handlers of `admin/lb.go` also call `Apply` and `SaveVersion`, and are no callers here: before they do,
they have edited the arrays of the live snapshot in place (finding 4), so that a snapshot would change
between two calls of `Apply`. `LBAdmin` models them; `SwapSpec` and `HistoryIsSound` speak of a process
that receives none of their requests.

A request refused by `Validate`, or a reload of a file that cannot be parsed, changes
nothing and is no step. A provider's API may return any list of `FetchResults` or fail,
which stores the empty list. Two edits of the file always have different modification
times: the model does not represent a file system whose clock is too coarse for that.

### Routing, RouteTables, Gateway

Host names are model values, already normalised; a wildcard is a value with the set of
hosts it covers. A document is of the type `Document`: any number of rules, pools, nodes, routes
and certificates. `migrateRoutingToLoadBalancer` and `CertificateTable` build their tables entry by
entry, as recursive functions. `Ring` repeats the index of an enabled node by its clamped weight;
`PickTarget` takes the counter's value after the increment, as `Counter.Add(1)` does.
`ResolveRoute` follows the code's order: exact rule, wildcards in order, default pool,
each only if its pool or its fallback has a node; then the legacy tables, without the rules
that the load balancer has taken over. A pool id made by the migration is a pair of token
and number. `Compiles` is what `buildSnapshot` refuses besides: an enabled node, or a legacy rule
that is not migrated, without an upstream. Rules without an upstream are skipped by the migration,
but the legacy tables would have refused them: `Complete` is the document with these rules naming
no domain, against which `MigrationPreservesRouting` compares.

`Certificates` loads the entries of both lists into one table, the later over the earlier, and
looks up the host, then the wildcard in place of its first label (`WildcardOf`), then the default.
Whether a pair parses is a fact of the pair.

`RouteTables` applies one document and re-applies what was stored. `Gateway` takes one step
per read in `ServeHTTP`: site id, site configuration, trusted proxies with the client's
address, whitelist, `IsHostAuthorized`, `ResolveRoute`. `IsHostAuthorized` is `ResolveRoute`
with the result dropped, counter included, and is called for refused clients too. Both queries of the
site store may fail (`ReadFails`), also with a stored document that does not parse. Without an
id the addresses of the site's CDN are not consulted; without a configuration the request goes on as for a
host without a site, by the global trusted proxies and the global whitelist. `failed` is the history of
that, and `Policies` says which policies a request may go by. A site's lists are stored
unchecked: an entry that does not parse (`Malformed`) contains nobody, and still makes its list one that
must be hit. `seen`
records which documents and site policies were in force since a request began. `picks` and
`forwarded` are reset by a swap, like the counters in the code.

### LBAdmin

A slice is an array of the heap and a length. `append` writes in place when there is spare
capacity and otherwise allocates twice the capacity; `append(s[:i], s[i+1:]...)` shifts
inside the array. `CurrentConfig` copies slices, not arrays.

### SiteOrigins

A key is a site and a provider; `tick` queues at most one job per key and waits for all of
them. Jobs (`runJob`) and manual refreshes (`siteCDNOriginRefresh`) run through the same
statements in the same order, so they share the actions `Attempt`, `Fetch`, `Save`, `Success`,
`Publish` and `Fail`; one action is one database statement, one fetch or one critical section.
They differ in what they hold: a job has read its failures in `tick` and holds a slot of
the semaphore, a refresh has read the failures of all providers at its start and skips a
provider without a client before the attempt. Every statement may fail; the callers ignore
the error of `UpsertSiteCDNOriginStatus` and treat that of `SaveSiteCDNOriginSnapshot` as a failed
attempt. `DeleteSite` empties the tables and leaves the memory and the running jobs alone,
`Stop` loses everything but the tables, and `warmCache` lists the sites (`Start`), then reads the configuration of
one (`WarmSite`) and the rows of its providers one at a time (`WarmRead`), while refreshes, edits and a
deletion already arrive. The clock counts seconds; an interval is compared with the jittered
delays as a set. `real`, the time of the provider's answer, and `failed` are history.

The code does let an older list overwrite a newer one (a slow job behind a quick refresh), and
does let a job bring back rows of a deleted site; the properties say what holds nevertheless.

### SiteStore

A document is a text and the secrets of its providers. A secret is blank, typed by an
operator, sealed under a key, or `Foreign`: sent with the prefix of a sealed one but not sealed
here, which `mergeAndEncryptCDNSecrets` takes as it is. The nonce of a seal is left out, and so
are rows from before there was sealing and rows that do not parse.

A request is refused before its first write (no step), or takes the steps of its handler: the
read (`UpdateSiteRead`, `DeleteSiteRead`, `PutConfig`, `RollbackRead` and then `RollbackMerge`, which
reads again), the write (one statement or one transaction: `UpdateSite`, `DeleteSite`,
`CommitConfig`) and `SaveAudit`. `CreateSite`, `DeleteSiteVersion` and `UpdateSiteLogStream` write in
their first step. The write may find the row gone, which is no error in the code: the version
is saved all the same. A statement may fail (`Fail`); the second statement of `SaveAudit` fails
by itself, but nothing reads between its two statements, so they are one step. `created_at` has a
resolution of one second and is taken before the transaction; which rows of the same second the
`DELETE` keeps is up to the database (`Keepings`). GET methods are no steps. The rows of the
site origins that `DeleteSite` removes are in `SiteOrigins`.

`minted`, `removed`, `typed` and `born` are history; `overtaken` marks a request whose row another one
has written since its read. An overtaken update puts the secret back that it has read: the code
does so, and `UpdatesKeepSecrets` speaks of the others.

### AdminAuth, AdminAPI

The limiter, the guard and the captchas are maps behind mutexes, one step per call; each call
reads the clock just before it takes its mutex, a pause that is left out. `login` reads the
credentials in force (`SwapAuth` replaces them), looks at the guard, checks the captcha, compares, and records failure or
success, each in a step of its own. `withAuth` reads the credentials once and passes the
operator on. `admitted`, the history of the limiter, is a set of records
of client, time, window and number within it. A restart empties the maps
and may change the limit. That the captcha store forgets captchas after ten minutes or when it is
full is left out: it only refuses more.

`AdminAPI` has one slot per request in flight: `Front` is what happens before the handler or beside
it, `Handle` starts the handler of a site in the name of `operatorFromRequest`. Clock and
restarts are shared.

### LogPipeline

One action per atomic operation: load of the flag, add to the counter of the type, add to
the total, select; `CompareAndSwap` and `close` in `Close`; the four loads of `Snapshot`. On a
closed channel the send case of the select is ready and panics.

## Runs

| Run | Checks | Instance |
|---|---|---|
| `config_core` | `HistoryIsSound`, `SwapSpec` (refinement of `ConfigSwap`) | two requests, one provider, four documents (one accepted by `Validate` and refused by `Apply`, one reconciled only by `DEFAULT_UPSTREAM`), good and malformed lists, one version |
| `config_watch` | `TypeOK`, `NoEditMissed`, `EditReachesLive`, `StaleListHeals` | one request, two edits, unparsable files, fairness |
| `config_lost_update` | finding: `SyncKeepsConfig` | as above |
| `route_tables` | `MigrationPreservesRouting`, `PreparationIsStable`, `NoRuleIsHidden`, `CertificateFits` | two hosts, overlapping wildcards, equal pool names, up to three legacy rules; up to two legacy and two managed certificates, broken and empty ones included |
| `gateway` | `ForwardingIsJustified`, `BadGatewayMeansSwap`, `PicksAreWeighted` | two requests, two changes, one failing read, two documents (one without whitelist), two site policies (one with nothing but malformed entries), two forms of requests (a list of forwarded addresses, or one), rings of lengths three and two, three picks, so that a turn of two begins at either of two picks |
| `gateway_share` | finding: `TrafficIsWeighted` | one request at a time, two equal nodes |
| `lb_admin` | finding: `SnapshotIsReadOnly` | one request, two pools, one route, a body that `Validate` refuses |
| `site_origins` | `TypeOK`, `SuccessIsBacked`, `FreshWhenUsed`, `FailuresAreReal` | one site, two providers (one without a client), one slot, one tick, one refresh, one failing statement, a malformed list, a restart |
| `site_schedule` | `RetriedInTime`, `JobsEnd` | the same without refreshes, two ticks, an edit of the site, fairness |
| `admin_api` | `TypeOK`, `SecretsAreSealed`, `SecretIsGenuine`, `LiveIsLastSaved`, `OnlyOldVersionsGo`, `AuditIsTrue`, `UpdatesKeepSecrets`, `RollbackRestores`; `AuthTypeOK`, `RateBounded`, `RefusalIsEarned`, `GuessesCostCaptchas`, `SessionsAreGenuine`; `OperatorsAreCallers` | two sites, two providers, two keys or none, two requests in flight, two versions kept, one failing statement, one client, one captcha, credentials with and without a name; five workloads |
| `log_pipeline` | `TypeOK`, `Conservation`, `StatsAddUp`, `ClosedOnce`, `EmitNeverBlocks`, `DrainsAfterClose` | two requests, two calls of `Close`, capacity one, three events |
| `log_shutdown` | finding: `EmitNeverPanics` | the same |

Why the bounds are enough for the cases they are meant for: the races in `Apply` need a
thread between its critical section and its store and a second one that runs through both;
with a provider and two requests there are three. A second edit while the watcher handles
the first needs two edits. A stale read of the gateway needs one swap or edit per request
in flight. `MCGateway.cfg` identifies states (`VIEW`) that differ only in `forwarded`, which only
`TrafficIsWeighted` reads, or in what is kept of a refused or redirected request, which can only finish. The channel of capacity one is full while a second request sends.

In `site_origins` a job and a refresh of the same provider overlap and the clock
moves between any two of their steps; `site_schedule` has an interval shorter than the backoff.

`admin_api` explores five workloads (`MCWorkloads`), each with everything the others leave out
held small: three changes of sites over a tick of the clock; three around a restart with another
key; two changes and a login around a change of the credentials; four logins over three seconds
of the guard; a limit of one with refusals and a restart. Three changes are what it takes to
save, save again and roll back, or to fill the two versions kept and prune one; a change of the
credentials needs one request on its way. `Window` and `GuardTTL` are one second, so that a window
ends, and a guard expires, within the clock.

Bounds are `MaxArrivals`, `MaxRestarts`, `MaxSwaps` and those of `Workloads`, `MaxEdits`, `MaxVersions`, `MaxPicks`, `MaxChanges`, `MaxArrays`, `MaxEvents`, `MaxTime`,
`MaxTicks`, `MaxErrors`, `MaxRefreshes`, `MaxStops`. They stop the environment (edits, requests,
ticks, faults, the clock, saved rows), never a step in the middle of an operation,
with three exceptions: at `MaxVersions` a save can only fail, which the code allows
anyway; at `MaxPicks` a request waits before its pick; at `MaxEvents` an emitter waits
before its first counter.

Deadlock checking is off where the system may rest: nobody sends requests, or the process
has exited.

### Fairness

`ConfigManager`: the tickers of the watcher and of the synchronisation keep firing while the
process runs, a fetch ends at its timeout of 30 seconds, a goroutine inside `Apply` is not
stopped. Nothing is assumed of operators and clients. `EditReachesLive` and `StaleListHeals`
are statements "again and again", so that they also hold when the file keeps changing.
`LogPipeline`: a request inside `Emit` runs on; nothing is assumed of the worker in
`EmitNeverBlocks`, and `DrainsAfterClose` assumes a worker that keeps running.
`SiteOrigins`: a goroutine inside a job runs on, its fetch ends at a timeout of 30 seconds, and
`tick`'s loop takes a free slot. Nothing is assumed of the ticker, of requests or of the database.

### Findings

Four runs show that the code does not do what a comment or a test says; `PROJECT.json` quotes
the lines.

1. A synchronisation undoes a PUT: `UpdateProviderStatus` ends with `Apply(CurrentConfig())`,
   and the document it has read may be replaced before it is stored.
2. `Emit` may send on a channel that `Close` has closed meanwhile.
3. Each request advances a pool's counter twice, so that with two equal nodes one gets all
   the traffic. (`PicksAreWeighted`: the picks themselves are weighted correctly, in every turn.)
4. The load-balancer handlers write into the arrays of the live document, before validation.

Four more are known and have no run. An edit of the file between its first read and
`NewWatcher` is never loaded, since the watcher starts from the modification time at its own
call (`src/internal/config/watcher.go:36`); `NoEditMissed` therefore speaks of edits after `startMod`.
A managed certificate without content at the first place leaves a document without a default,
although the comment (`src/internal/config/manager.go:524`) promises the first valid one:
`DefaultCert` shows it. A site deleted during `UpdateSiteConfig` leaves a version without a site. When
`GetSiteConfigByHostname` fails (a database error, or a stored document that does not parse), the gateway
ignores the site's policy and goes by the global lists (`src/internal/gateway/handler.go:79`), and an empty
global whitelist admits everyone, although the comment (`src/internal/gateway/handler.go:100`) has a client hit the
site's whitelist once it has one; `ForwardingIsJustified` therefore allows the global lists after a failed
read, and only then.

## Proofs

`ConfigManagerProofs`, for all constants that satisfy `ConstantsAssumption` and
`ManagerAssumption`:

- `Invariance`: `Spec => []IInv`. `IInv` strengthens the properties by what threads hold: the
  two lists of the manager belong together (`dynamicCIDRs = AllDynamic(cdnStatuses)`), and so do
  the two that a thread has copied (`ApplyInv`); a document on its way to `SaveVersion` has
  passed `Validate` and, since lists only make compilation fail more often, would be applied
  without any (`HistoryInv`); what the watcher holds for the file's present modification
  time is the file's content (`WatchInv`).
- `TypeCorrect`, `HistorySound`, `WatcherSound` follow from it.
- `ManagerSwapsAtomically`: `ConfigManager` implements `ConfigSwap`. Every step leaves `data`
  alone except `Boot`, `Stop` and a successful `ApplyStore`, and for that one `ApplyInv` says
  that what is stored was compiled from lists of one instant.

`LogPipelineProofs`, for every finite set of emitters, every set of closers and every capacity:
`PipelineInvariance`, with `PipelineTypeCorrect`, `EventsConserved`, `StatsSound` and
`CloseIsIdempotent`. The strengthening is that the counters of the types are ahead of the
total by exactly the requests between the two additions (`CountInv`), and that the flag is
set before the channel is closed, by one call only (`CloseInv`). Cardinalities of the sets
of requests at a program counter are handled by two lemmas on adding and removing an
element.

`SiteStoreProofs`, for any sites, providers, secrets, keys, documents, operators, requests and bounds:
`Invariance`, with `TypeCorrect`, `SecretsSealed`, `SecretsGenuine`, `LiveLastSaved`, `OldVersionsGo`,
`AuditTrue`, and for steps `KeepSecrets` and `Restoration`. The properties speak of tables; a request
carries what it will write from its read to its transaction, so the invariant says of each request
what the property says of the row: its new document is sealed or blank and was typed for this
provider of this site (`SecretInv`), its audit row is true before it is written and stays so
(`AuditInv`), and it will keep the stored secrets, or restore its version, unless it was overtaken
(`MergeInv`). The key changes only with the process, which forgets its requests; the invariant does
not say that what is stored opens under the present key, for it may not. `MintedInv` numbers the
versions without gaps; the arguments about pruning count in finite sets.

`AdminAuthProofs`, for any clients, credentials, captchas, limits, windows and slots: `FrontInvariance`,
`AuthInv` is inductive. Three of its parts are not among the properties. `LimiterInv`: windows of one
client have no instant in common, none has more entries than the limit, and the map counts the
last one; an interval as long as the window meets at most two, whence twice the limit. `CaptchaInv`: a
captcha on its way to a comparison is out of the store, in no guess, and in no other request.
`Knows`: what a login compares, and whose token it answers, is among the configurations in force since it began.

`AdminAPIProofs`: every step of `AdminAPI` is one of `AdminAuth` or leaves it alone (`ImplementsFront`),
and likewise of `SiteStore` (`ImplementsStore`): the composition adds no step to either. The theorems of
the two parts therefore hold of the whole (`AuthTypeCorrect`, `RateIsBounded`, `RefusalEarned`,
`GuessesCost`, `SessionsGenuine`, `StoreIsSafe`). `CallersOnly` is a property of the composition itself: a handler
takes its operator from a request that has passed, and `CallerInv` of the front says whose token that was.

`SiteOriginsProofs`, for any sites, providers, refreshes, lists, intervals and bounds: `OriginsInvariance`, with
`OriginsTypeCorrect`, `SuccessBacked`, `FailuresCounted`, `FreshLists` and `RetriesInTime`. A job or a warming
may publish a list long after it was saved, when its site is gone: `Backed` holds of lists in the
hands of a thread as well as of those in memory, because a site that is gone does not come back.
No list is newer than its time stamp claims (`Timely`), counts that a thread has read before are not
above what has failed (`CountInv`), and the semaphore is the number of busy jobs (`SlotInv`).
`RetriesInTime` rests on the arithmetic of the backoff: its delays are capped by the interval.

`GatewayProofs`, for any documents, pools, policies, addresses and requests: `GatewayInvariance`, with
`ForwardingJustified`, `BadGatewaySwap`, `RingHoldsShares` and `WeightedPicks`. `Grounded` says, for each point in `ServeHTTP`, which decisions
already rest on something that was in force since the request began. One policy has to vouch for the
address and to admit it, so after `CheckClient`, which drops the policy, the invariant keeps that there is
one (`EntitledBy`); after a failed read it is `NoSite`, in force or not. The lemmas below it are about
`Routing`: a host that resolves has a pool with a place in its ring, every place of a ring is an
enabled node, and what is picked is one of the pool's upstreams.

`WeightedPicks` is about every turn, that is, any consecutive picks as many as the ring is long, of any
pool, also one that lists an upstream twice. Its invariant is `PicksInOrder`: the j-th pick recorded
is the one that the counter's value j asks for, which needs that every call of `ResolveRoute` advances
the counter and takes the pick in one atomic addition. The rest is counting, by bijections:

- `Numbering` numbers the places that a node has in the ring. Concatenation keeps it (`AppendPlaces`), so the
  ring has one place per unit of weight (`FlattenNumbered`), and with `normalizeNodeWeight` within its limit
  an upstream has as many places as its `Share` (`RingHoldsShares`).
- `OneTurn`: of s consecutive values of a counter each remainder modulo s occurs once. The prover knows that
  a number is quotient times divisor plus remainder; that there is only one remainder follows from
  `NearMultiple`.

`Counter` is a `uint64`; the model's never wraps, as 2^64 picks from one snapshot are out of reach. Across
a wrap one turn would be uneven unless the ring's length divides 2^64.

`RouteTablesProofs`, for any hosts, wildcards, tokens, upstreams, pool ids, certificates, and any
document of the type `Document`: `TablesInvariance` (what is in force is an accepted document, prepared),
with `MigrationSound`, `PreparationStable`, `RulesVisible`, `CertificatesFit` and `StoredIsCompiled`.

- The migration is taken rule by rule. `Mirrors` relates the tables after `n` rules to them: an
  increasing mapping gives the rule of each route, its pool has one node, and no two pools share an
  id (`FreshId`: among one more numbers than ids in use one is free). An increasing mapping takes
  the last exact rule to the last exact route and the first wildcard to the first (`OrderKept`), and
  that is how both tables choose (`MigratedOutcome`).
- What is stored is `Compiled`: `Apply` compiles before it stores, and the migration makes pools of the
  type the gateway expects. `Gateway` assumes this of the documents that are swapped in, so what it says of
  routing holds of whatever `RouteTables` stores.
- The table of certificates is taken entry by entry: for every name it holds the last entry that
  names it (`Overrides`), and managed entries are loaded last.

Recursive functions on numbers are within reach: `LeastNumber` (every nonempty set of natural numbers has
a least element) follows from the library's well-foundedness of `<`, and each induction is an argument by the
least counterexample (`MigratingExists`, `RulesMirrored`, `TablingExists`, `TableOverrides`, and in `GatewayProofs` for
the concatenation of a ring).

Assumptions on constants are those of the modules: that sets which the code keeps apart are disjoint,
that bounds are numbers, that `None` is no value of the program, and that a backoff, an interval, a limit is
positive. `GatewayAssumption` says that documents in force compile (`StoredIsCompiled` proves it of what is stored), `RouteTablesAssumption` that the documents
sent are of the type `Document`; neither restricts what the code accepts.

Only model-checked:

- Liveness: `EditReachesLive`, `StaleListHeals`, `EmitNeverBlocks`, `DrainsAfterClose`, `JobsEnd`. Fairness and
  `ENABLED` are out of the prover's reach.
- The four findings, which are counterexamples.

## Not modelled

Cryptography and parsing of certificates, HTTP clients of the CDN plug-ins (their results are
inputs), rendering, path dispatch, the front-end, weaver drafts (single-row changes that nothing
else reads), log queries. The table of uploaded certificates, which only its own API reads. Listeners
and TLS set-up of `main`, with the choice between the manager's certificates and an automatic one. Configuration sections without effect on the modelled decisions are
part of a document's identity.

## Plan

1. `IsIPAllowedBySiteProviders` with its lists of `SiteOrigins` and their staleness, in place of
   the address sets of `Gateway`; several sites with different intervals.
2. Proofs: `ValidLB` documents that the load-balancer handlers produce stay valid, where no two
   requests share an array.
