# depCustoms in TLA+

depCustoms puts a proxy between package managers (npm, pip, docker) and their
registries. The proxy asks a control plane whether a project may fetch a package
version, enforces the answer, and reports what it did. This directory holds
TLA+ modules of the parts of that system that are hard to test, TLC
configurations for small instances, and TLAPS proofs for every instance.

Paths below are relative to `src/services/`.

## 1. The system

| Component | State | Operations | Hard behaviour |
|---|---|---|---|
| Write-ahead log, `proxy/internal/wal` | NDJSON file, checkpoint (file and memory), advisory queue | append, enqueue, read after checkpoint, mark delivered, compact, open | crashes between file operations, torn writes, appends during compaction |
| Usage stream, `proxy/internal/runtime/usage_stream.go` | one batch, an index, a count | read, send segments, take acknowledgements, mark, compact | lost or partial acknowledgements, requests the server runs late |
| Decision cache, `proxy/internal/{cache,proxycache}` | entries with TTL and stamp | get, set, bound, sweep | staleness, eviction, answers out of order |
| Policy pipeline, `proxy/internal/handler/{engine,pipeline}.go` | one request per goroutine | look up, ask, cache, audit, serve | concurrent handlers, slow Checks, failing audit log |
| Runtime auth and health, `proxy/internal/{client,runtime}`, `api/src/features/{internal-proxy-auth,proxies}` | runtime token, two health flags, the `proxies` row | exchange, refresh, probe, disable, revoke, rotate | concurrent exchanges, answers out of order, revocation during an exchange |
| Metadata, `proxy/internal/{metadata,pkgmeta}` | dedupe and ack caches, statistics, refresh flights | submit, refresh, snapshot | single flight, counters taken while they move |
| Docker handler, `proxy/internal/handler/docker.go` | blobs allowed by a manifest | prepare manifest and blob | expiry between manifest and blob |
| Check, `api/src/connect/check-service.ts` | tokens, entitlements, policies, connector results | successive reads, evaluation, background writes | reads that are not one transaction, connector deadline |
| Connectors, `api/src/connectors`, `features/security/project-findings.ts` | connector cache, snapshots, findings | read cache, ask, persist in three writes | late results beside newer ones, one of several writes failing |
| Policy and rule editing, `api/src/features/{policies,rules}` | effective-dated versions, bindings | new version on every edit, close on delete | edits of one version at once, a Check between them |
| Violations, `api/src/features/{violations,violation-suppressions}` | violations, occurrences, suppressions | record after a Check, set status, suppress | recordings against users and each other |
| RecordUsage, `api/src/connect/record-usage-service.ts` | events, usage counters | validate, resolve, insert, count, publish | replayed requests, one of several writes failing |
| Policy engine, `api/src/policy` | none (pure) | effective policy, conditions, precedence | boundary cases |
| Tokens, SSE, MCP, CRUD, dashboard, intelligence | database rows, subscriptions | CRUD, fan-out, queries | revocation against caches |

Interactions. A handler shares the cache with the other handlers and appends to
the log; the log's only reader is the usage-stream goroutine; that goroutine and
the handlers call the control plane over RPCs that time out, fail or are
answered late; administrators change tokens, entitlements and policies at any
time. Mutexes protect the file and the cache, and both are released between the
steps that matter: `Compact` writes its file unlocked, and a handler holds
nothing between its lookup, its Check and its `Set`.

What makes each part correct: the log loses nothing it accepted and delivers in
order; a compaction is invisible to delivery; an allow rests on recent facts; a
revoked token can be readmitted only within a known window; log and responses agree;
every request is answered; a full cache gives up old facts before newer ones. `PROJECT.json` lists the hazards behind
these, at their lines, with the properties that cover them.

## 2. Modules

| Module | Role |
|---|---|
| `OutboundLog` | What the log promises: messages are accepted in order and the control plane holds a prefix of them that grows |
| `WAL` | `wal.go` and the flush loop, with crashes; implements `OutboundLog` |
| `MCWAL` | Instances of `WAL` for TLC |
| `WALProofs` | Theorems about `WAL`: types and loss |
| `WALOrderProofs` | Theorems about `WAL`: order, compaction, the refinement of `OutboundLog` |
| `ProxyPipeline` | Handlers, decision cache, and what a Check reads |
| `MCProxyPipeline` | Instances of `ProxyPipeline` for TLC |
| `ProxyPipelineProofs` | Theorems about `ProxyPipeline` |
| `RuntimeAuth`, `MCRuntimeAuth`, `RuntimeAuthProofs` | The proxy's runtime token, the control plane that issues it, `/healthz` |
| `ConnectorEvaluation`, `MCConnectorEvaluation`, `ConnectorEvaluationProofs` | The evidence of a Check: connector cache, deadline, background result, snapshot |
| `PolicyStore`, `MCPolicyStore`, `PolicyStoreProofs` | Versions of a policy and its rules, edits, and a Check that loads them |
| `ViolationRecording`, `MCViolationRecording`, `ViolationRecordingProofs` | Violations recorded after Checks, against users who change them |

The modules meet where the code does. `ProxyPipeline` takes the verdict of the
policies as one read; `PolicyStore` and `ConnectorEvaluation` say what that read
rests on. `WAL` and `ProxyPipeline` take the control plane as an RPC that works or
fails; `RuntimeAuth` is the credential that RPC needs.

### WAL

`file` is the sequence of writes the file holds: a record (a whole line), or the
`Fragment` a failed write leaves, which has no newline and therefore joins the
write after it in one line. Offsets count writes instead of bytes. `LineEnds` and
`Decodable` are the lines a scanner sees and the ones `decodeRecordLine` accepts.
`offset` and `disk` are the checkpoint in memory and in its file.

`pc` follows the goroutine: `read` (`UndeliveredRecordsLimit`), `send` and
`wait` (one RPC for a run of usage events, or for one other record),
`answered`, `mark` (`MarkDelivered`), `snapshot` and `commit` (the unlocked and
the locked half of `Compact`) and `renamed` (still locked, the checkpoint not
written). Appends run at every point except `renamed`. A crash may happen at
every point; it empties the memory and keeps `file` and `disk`. It clears the
offset in memory, which `Restart` reads back from `disk`, or sets to 0 when the
checkpoint cannot be read. Every file operation that returns an error in the code may
fail in the model, except opening the log itself at start, which ends the process, and
the reopen after the rename (section 7).

Four variables are history: `accepted`, `swallowed` (accepted, but written behind
a fragment), `stale` (the checkpoint file belongs to a file that was renamed
over) and `fresh`. `stored` holds the records of requests the server has run to
their end; the server acknowledges all of a request's events then, the ones it
skips included.

`TornWrites` and `CrashOnStaleCheckpoint` switch two faults on, so that the
behaviour with and without them can be told apart.

### ProxyPipeline

The steps of a handler are those between which something else can act:
`TokenLookup` and `Lookup` (the two `Get`s), the Check, `SetToken` and
`SetDecision` (the two `Set`s), `Audit` (the append before a block or a cached
allow), `Serve`, `RecordAllow` (the append after a fresh allow) and
`ControlPlaneUnavailable`. The Check is three reads of the control plane's
state, `CheckToken`, `CheckEntitlement` and `CheckPolicy`, each at its own time.
An index (a request without a version) is allowed without consulting policies.

Time is a counter of ticks; `Tick` does not pass `CheckTimeout` while a Check is
open, as the HTTP client's timeout guarantees. An entry is fresh while its age is
at most its TTL, so one with TTL 0 is a hit within the tick it was made in, as it
is for the same instant in the code. `validUntil`, `entitledUntil` and
`permittedUntil` are history that says how old a fact is; `barred` and `warned`
say which requests arrived after the proxy had cached that their token is invalid and
before that entry was evicted; `floor` is when the block entry of a token that was last
evicted had been set. `Set` reads the clock and takes the lock in one step; in the code
another handler may come in between, with a stamp that differs by that delay.
`EnforceMaxEntries` describes what the eviction loop may leave behind, in any order of
its map.

Abstractions: a package version is a model value; connector data is part of the
policies' verdict; `AllowTTL` is the tenant's `cache_ttl_seconds`, constant during
a behaviour; the tenant and project of an event (`TokenContextCache`) are left
out, as is the metadata prepared before a Check, which no decision of the proxy
depends on; requests that `BypassPolicy` marks (`engine.go:175`) are left out, for they
touch neither the cache nor the Check; a token that is no longer valid never becomes valid again (expiry and
revocation are not undone).

### RuntimeAuth

`call` holds the exchange or RPC each goroutine is in: `sent` (until
`authenticateBootstrapProxy` reads the row), `authed` (until the token is minted),
`answer` (until `ExchangeRuntimeToken` stores it), `flag1` and `flag2` (the two stores
of `exchangeRuntimeToken`), `rpc`. The `proxies` row is `status`, the column the
proxy's secret matches (`slot`) and what is left of the grace period. A runtime token
is its age: `proxyJwtAuthInterceptor` verifies signature and expiry and reads no table.
`Tick` advances every age and is held back by overdue calls and fired timers, so time
needs no bound. `fault` stands for a network or a database that fails at the moment;
it enables failures and forces none. An exchange that a request starts runs under the
context of its client, so it also fails when the client leaves (`ClientLeaves`), with
nothing faulty, and clears both flags. The probe (`ProbeLooks`, `SendRPC`, `PingReturns`)
writes the reachable flag only when its ping contradicts what it read before. `Inactive`
holds the statuses other than active. `MaxExchanges` bounds the requests, the probe
among them, that exchange at one time; the refresh loop is not counted. `Exit` is the
exit on a rejected secret, which also follows a failing SELECT because that is answered
401.

### ConnectorEvaluation

A Check is two jobs: its own, and the continuation `fetchPromise` keeps after the
response deadline. `pc` names the statement a job is about to run: `read` (the cache),
`fetch` (OSV has yet to look), `reply` (OSV has looked, and its answer is on the way,
possibly until the HTTP client gives it up), then the three writes `cache`, `snapshot`, `findings` of
`persistConnectorResult`, `fail` (the failure snapshot) and `load` (`loadSnapshots`).
`caught` says whether an exception reaches the catch block; it does not once
`persistConnectorResult` is returned unawaited. `DbTime` bounds the time between two
statements, and `OthersTime` what `collectConnectorEvaluationFields` awaits before
`loadSnapshots`: the other synchronous connectors, the contributor prefetch and the
asynchronous connectors. The age limit of `AllowIsVetted` is stated in these. One
artifact, one project, one finding, an answer of one page, and the rules
`tenant-provisioning.ts` gives a tenant. `project_findings` decides nothing in a Check,
so only the time and the failures of its transaction are modelled.

### PolicyStore

`pol[n]` is version n of one policy and `row[k][n]` version n of rule k, with their
windows. An edit is three steps: the row is read, the transaction begins and takes
its time, and it commits or is rolled back; a commit is guarded by what the database
would reject, the unique indexes on version and the `valid_window` checks. A Check is
`StartEvaluation` (`effectiveAt`), `LoadPolicies` and `LoadRules`. `acked` and three
fields of `eval` are history, which say what an edit that commits during the Check means
to it (`Committed`): `gone`, the policy was inactive or an edit stamped not after the
Check ended or deactivated it; `back`, versions that had ended before the Check and that
a DELETE stamped after it, committed before the first query, puts back in force at its
time; `closed`, rules whose row an edit stamped not after the Check closed between the
queries. Contents of rules, order and priorities are
left out, and so are project bindings.

### ViolationRecording

`rows` are the rows of one violation, `sup` counts the suppressions that match it. A
recording is a READ COMMITTED transaction in three steps (`LoadSuppressions`,
`FindActiveViolation`, `Record`), of which only the last writes; it is rolled back by
the partial unique index or by the foreign key on a suppression deleted meanwhile
(`orphan`). Users set statuses, with the suppression inserted in a second statement
(bound: one request at a time is between the two, other updates may pass it), and post,
delete or let expire suppressions. `quiet` marks the moment users stop and the database
fails no more.

## 3. Runs

| Run | Checks | Result |
|---|---|---|
| `wal` | `TypeOK`, `NoOtherLoss`, `StoredInOrder`, `CompactionKeepsPending` | holds, 2.6 million states |
| `wal_liveness` | `EventuallyStored`, `ImplementsOutboundLog` | holds, 21 thousand states |
| `wal_torn_write` | `AtLeastOnce` with torn writes | violated |
| `wal_crash_in_compact` | `AtLeastOnce` with a crash on a stale checkpoint | violated |
| `pipeline` | `TypeOK`, `ReadmissionWindow`, `AllowIsRecent` | holds, 1.3 million states |
| `cache_full` | `EvictionOrder`, `AuditTrail`, `EveryRequestAnswered` | holds, 480 thousand states |
| `blocks_audited` | `BlocksAreAudited` | violated |
| `upstream_errors` | `UpstreamErrorsAreRecorded` | violated |
| `runtime_auth` | `TypeOK`, `RevocationTakesEffect`, `HealthzTruthful`, `LateAnswerCostsOneExchange`, `HealthzRecovers` | holds, 1.0 million states |
| `connector_evaluation` | `TypeOK`, `AllowIsVetted`, `EveryCheckAnswered` | holds, 420 thousand states |
| `policy_store` | `TypeOK`, `AcknowledgedEditsInForce`, `EvaluationComplete` | holds, 330 thousand states |
| `violation_recording` | `TypeOK`, `StatusSettles` | holds, 200 thousand states |

Bounds. `wal` has two usage events, a metadata record and one of an unknown type,
with batches of two and a queue of one: enough for a batch of mixed segments, a
second iteration of the loop, a full queue, a fragment in front of a record, a
compaction with lines on both sides of the offset, and a crash at every point.
`wal_liveness` needs fewer records and allows two crashes. `pipeline` has two
handlers, one token and one index over four instants, with the relation of the shipped
durations (the block entry lives as long as an allow, and a Check takes time): the
smallest instance in which an answer overtakes another on its way into the cache, and
in which a token is readmitted. Without artifacts the policy part of `AllowIsRecent` is
left to its proof. `cache_full` has one handler and three keys for two places, which
also suffices for liveness: a handler waits for no other.

`runtime_auth` has the refresh loop, the probe and a client's request, which exchange
at the same time (one of the two requests beside the loop, `MaxExchanges`); the token's
life is the shortest in which it is refreshed, retried and expires
(`RuntimeAuthAssumption` with equality), and faults, status changes, rotations and
clients that leave may come at any time. `Inactive` has one element, since
authentication tells a disabled proxy from a revoked one only by its error code.
`MinWait` equals `MaxBackoff`, so the doubling of the back-off is left to the proofs.
`connector_evaluation` has two Checks with their continuations, a TTL of two ticks and
deadlines of one and two, so a background result lands before, between and after the
writes of a later Check, already old; `EvidenceAge` is reached exactly. `policy_store` has
two writers, two rules and three versions over three instants: an edit of a superseded
version, two edits in one instant, a deletion between the queries, and each exception
that `EvaluationComplete` names happen.
`violation_recording` has three recordings: one that lost its row, one that inserts
and one that conflicts.

Fairness. The flush goroutine runs on a ticker and each of its RPCs has a
deadline, so its own steps are weakly fair. Strong fairness stands for what
nobody can promise unconditionally and delivery cannot do without: the control
plane is seen reachable again and again, reads and marks of the file do not fail
for ever, and a request that is sent again and again is run and acknowledged in
full at last. A supervisor restarts a crashed proxy. In the pipeline each
handler's own steps are weakly fair; the control plane is not assumed to answer,
because `CheckFails` (the timeout) is a step of the handler.
In `RuntimeAuth` and `ConnectorEvaluation` time passes however often other steps do
(strong fairness of `Tick`), every goroutine, timer and continuation is run, and a
supervisor restarts the proxy; faults may last, and OSV need not answer.
The probe is strongly fair where it takes a slot of the bound `MaxExchanges`, which the
code does not have. `HealthzRecovers` is conditional on faults ending for good, on a row
that accepts the secret for good, and on clients no longer leaving while their request
exchanges the token: each that does makes `/healthz` answer 503 until the next exchange
or ping. In `ViolationRecording` the
artifact keeps being requested; `StatusSettles` is about what those requests repair.

No run disables the deadlock check: none of these systems ever stops.

## 4. Findings

* `wal_torn_write`: a write that fails half way leaves bytes without a newline, and
  the next record, though accepted, cannot be decoded (`wal.go:232`). The package
  comment promises at-least-once delivery.
* `wal_crash_in_compact`: `Compact` renames first and writes the smaller checkpoint
  second (`wal.go:449`, `:461`). A restart in between reads the old, larger offset
  and skips records that were never delivered.
* `blocks_audited`: a block from the token's cache entry is answered without an
  event (`pipeline.go:140`); the comment on `enforce` says block events are written
  before the response.
* `upstream_errors`: the event of a cached allow is written before delivery and does
  not say `upstream_error` when delivery fails (`pipeline.go:241`); the same comment
  says it does.

Not a contradiction with any document, but worth knowing: a token that the proxy has
found invalid is allowed again from an older cache entry once its block entry has
expired, between `TokenBlockTTL` and `AllowTTL + CheckTimeout` after the revocation
(`ReadmissionWindow`). The defaults are 300 s, 300 s and 10 s, a window of ten seconds;
a tenant may set its TTL up to 86400 s. Only `TokenBlockTTL >= AllowTTL + CheckTimeout`
closes it, which nothing enforces.

Met while modelling, and kept as hazards in `PROJECT.json`: a write that fails after a
fresh connector answer skips the catch block, since the promise is returned unawaited
(`check-service.ts:1042`), so the Check fails instead of recording a failure snapshot;
a rule edited between the two queries of `loadEffectivePolicy` is evaluated in neither
form; a DELETE of a superseded version moves its end to now, so a Check in flight finds
two versions of the policy; an event stream subscribes after its replay, so what is published in between is
not delivered, and a client that leaves during the replay stays subscribed
(`stream-service.ts:69`); a failing SELECT in `bootstrap-auth-service.ts:71` is answered
401, on which a proxy exits.

## 5. Proofs

`WALProofs`, for all record sets, batch and queue sizes and numbers of crashes:

* `TypeCorrect`: `Spec => []TypeOK`.
* `NoLoss`: with `CrashOnStaleCheckpoint = FALSE`, `Spec => []NoOtherLoss`.
* `AtLeastOnceDelivery`: with `TornWrites = FALSE` too, `Spec => []AtLeastOnce`.

`NoOtherLoss` is not inductive: it says nothing of the checkpoint file until a crash,
of the batch until it is marked, or of the temporary file until it is renamed. `IInv`
adds: delivery may resume at the offset in memory, and at the one on disk unless it
is stale, because each ends a line and everything owed lies behind it (`Safe`); the
batch is what the file holds behind the offset, and what is counted as sent is stored
or of unknown type (`BatchOK`); the temporary file is a compaction of its snapshot
(`RewriteOK`). Lemmas on `Rank` and `Pick` (order isomorphism of a finite set of
positions), `ReadOK`, `AppendOK`, `MarkOK` and `CompactOK` carry the argument: as the
raw lines scanned for n records are never more than those n records occupy, a mark
never passes an undelivered record.

`WALOrderProofs`, with `CrashOnStaleCheckpoint = FALSE` and otherwise for all constants:

* `CompactionIsSafe`: `Spec => CompactionKeepsPending`. Behind the old offset Compact
  retains exactly the decodable lines, and the new offset is the rank of the old one in
  what is retained (`CompactKeepsOrder`, from `RewriteOK`).
* `DeliveryIsInOrder`: `Spec => []StoredInOrder`. By itself it is not inductive, for a
  late request may be stored at any time. `OrderInv` adds: no record is offered, queued
  or accepted twice (`OnceInv`); the whole lines of the file are accepted records in
  order, and a swallowed one stands behind a fragment (`FileInv`); what is stored, alone
  and together with any one request that was given up, is closed under earlier intact
  records (`StoredInv`); no request carries an unknown type (`RequestInv`). That a new
  request has the property too (`SegmentSound`) is where `IInv` is needed: an earlier
  record that is not stored is owed, so it lies behind the offset, in front of the
  request's records, hence in the batch, and the part of the batch that was sent before
  is stored.
* `LogImplementsOutboundLog`: `Spec => Outbound!Spec`. Under the mapping, `promised` is
  what stands at the intact positions of `accepted` (`Pick(accepted, IntactAt)`) and
  `received` is `stored`. A successful append of an intact record is an `Accept`
  (`PickNew`); one of an unknown type or behind a fragment changes nothing (`PickOld`);
  by `StoredInv` what is stored is a prefix of the promises (`ClosedIsPrefix`), so `Store`
  and `StoreLate` are a `Receive` or nothing; every other step is invisible.

The hypothesis on crashes cannot be dropped: run `wal_crash_in_compact` shows the loss.

`ProxyPipelineProofs`, for all sets of handlers, tokens and targets and all times:

* `TypeCorrect`: `Spec => []TypeOK`.
* `AllowsAreRecent`: `Spec => AllowIsRecent`. The invariant `RecentInv` says that an
  allow is at most `CheckTimeout` older than its stamp wherever it is kept, in the
  RPC (`CheckOK`), in the handler (`PickOK`) or in the cache (`CacheOK`), so
  overtaking in the cache cannot make it older.
* `ReadmissionIsBounded`: `Spec => ReadmissionWindow`, for all durations and any size of
  the cache. `RevokedInv` says that a block entry was stamped no earlier than the
  revocation and, unless evicted, is present until it has expired; that no Check admits
  the token after it; and, with `RecentInv`, how old an allow that is left can be.
* `ResponsesAreAudited`: `Spec => []AuditTrail`.
* `BlocksOutliveOlderAllows`: `Spec => []EvictionOrder`. `FloorOK` says that no entry
  was set before a block entry that was evicted; a `Set` that evicts one keeps this by the
  order in which `EnforceMaxEntries` drops entries, and what is set later is younger.

`RuntimeAuthProofs`, for all sets of goroutines and all durations:

* `TypeCorrect`: `Spec => []TypeOK`.
* `RevocationIsEffective`: `Spec => []RevocationTakesEffect`. The invariant follows
  the time since the row last accepted the secret: no time while it does
  (`AcceptedNow`), no more than the age of a call that is authenticated or carries a
  token (`CallsAreYoung`), and no more than the age of the stored token plus one
  timeout (`TokenIsYoung`). A call in flight has time left when time passes, which is
  where its deadline is needed.
* `LateAnswerIsCheap`: `Spec => LateAnswerCostsOneExchange`, from `CallsAreYoung`: a
  token in an answer is no older than the call.
* `HealthzIsTruthful`: `Spec => []HealthzTruthful`. The invariant `HealthInv` ties the
  flags to the refresh loop's timer: while the flags say healthy, the loop either wakes
  before `Limit` (the last age at which an exchange still ends before the token does) or
  has been in an exchange since then (`LoopInTime`), and a goroutine that still has flags
  to set for a success holds a token no older than one timeout (`FlagsAreFresh`).

`ConnectorEvaluationProofs`, for all sets of Checks and all durations:

* `TypeCorrect`: `Spec => []TypeOK`.
* `AllowRestsOnEvidence`: `Spec => []AllowIsVetted`. The invariant bounds the age of
  the advisory at every place a "clean" answer passes: the job that holds it
  (`Sound`), from the moment OSV looked, the row of `connector_cache` (`CacheSound`) and
  the snapshot, seen from every Check that is going to read it, since another Check may
  have written it. The answer travels for at most `BackgroundTimeout`, a statement adds
  at most `DbTime` and the wait before `loadSnapshots` at most `OthersTime` (`InTime`);
  with `CacheTTL` that gives `EvidenceAge`.

`PolicyStoreProofs`, for all sets of rules and writers and all bounds:

* `TypeCorrect`, `EditsInForce` (`Spec => []AcknowledgedEditsInForce`) and
  `EvaluationIsComplete` (`Spec => []EvaluationComplete`), from one invariant. Of the
  store it says that a bound row exists and begins no later than a millisecond after the
  version that binds it, that superseded versions have ended, and that a rule has no
  more versions than the policy. Of a Check it says what each query will find: before
  the first one, any version in force at its time and not put back is alone, later ones
  begin after the Check and its rules have not ended (`InForceAlone`), and there is one
  unless the policy is `gone` (`StartSound`); between the two, every bound rule is in
  force, or closed meanwhile, or younger than the Check (`LoadSound`).

`ViolationRecordingProofs`: `TypeCorrect`, `Spec => []TypeOK`, which includes that at
most one row is active. `IInv` adds that a recording points to a row that exists and
that the bound on rows leaves room for an insert. `SettledForGood`, `Spec => [](Calm =>
[]Settled)`, is the safety half of `StatusSettles`: in a `Calm` state (users have
stopped, the violation is settled and no recording read other suppressions) a recording
can only write the status that is there already, because a settled violation has an
active row and the index admits no other.

The constants' assumptions are `WALAssumption`, `PipelineAssumption`,
`RuntimeAuthAssumption`, `ConnectorAssumption`, `PolicyStoreAssumption` and
`RecordingAssumption`, which TLC evaluates in every run of their modules.

Only model-checked: liveness (`EventuallyStored`, `EveryRequestAnswered`,
`HealthzRecovers`, `EveryCheckAnswered`, `StatusSettles`) and the fairness of the
refinement (`ImplementsOutboundLog`), which the prover does not reach. Every invariant
and every action property that a passing run checks is also proved. `OrderInv`,
`HealthInv` and the invariant of `PolicyStoreProofs` were checked with TLC on the
instances of the runs before they were proved.

## 6. Plan

Done: `OutboundLog`, `WAL`, `ProxyPipeline`, `RuntimeAuth`, `ConnectorEvaluation`,
`PolicyStore`, `ViolationRecording` and their runs. Left, in this order:

1. Proofs: an abstract specification of the decision cache for `ProxyPipeline` to
   implement.
2. The event stream of the dashboard: replay, subscription and clean-up.
3. `RecordUsage`: validation, skipped rows, events and counters written apart,
   replays; composed with `WAL` through `OutboundLog`.
4. `WAL` with a reopen that fails after a rename (one file by handle, another by
   path).
5. Project bindings in `PolicyStore`; conditions and overrides as pure operators,
   checked against a reference definition.
6. Metadata: dedupe, acknowledgement and submitter; conservation of statistics;
   the refresher's single flight; docker blobs.

Runs stay small by sharing: one passing run per module, a second one only where
liveness needs other bounds.

## 7. Not modelled

* A failing reopen in `Compact` (planned), and lines above the scanner's limit.
* The loss of writes that were accepted but not yet on disk when the machine (rather
  than the process) dies: `AppendRecord` does not sync, by its own comment.
* The contents of requests and events, logging, registry protocols and URL rewriting.
* The dashboard, the intelligence service, the MCP server and the CRUD features of
  the API: views and single statements over the database.
* Clock skew between the API and the database or the proxy: a token's life and a
  version's window are taken to be measured by one clock.
* What the contributor and intelligence connectors answer: a Check uses their stored
  snapshot, of any age. The time they hold it up is `OthersTime`.
* OSV answers of several pages, each of which has a timeout of its own.
* Requests that bypass the policies (`BypassPolicy`, `engine.go:175`).
* Everything else section 6 lists as left.
