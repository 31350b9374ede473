# cf-edge-operator in TLA+

The operator keeps Cloudflare (CF) custom hostnames in step with `CustomHostname`
objects (CRs) of Kubernetes. This directory holds a model of it, the TLC runs that
check the model on small instances, and theorems that TLAPS proves for every
instance. The reference is the Go code under `internal/controller`, `api` and `cmd`;
line numbers are in `PROJECT.json` ("map").

## 1. The system

| Part | State it keeps | Operations |
|---|---|---|
| CustomHostname controller (`customhostname_controller.go`) | nothing in memory between reconciles; `status` and finalizer of the CR | `Reconcile` and below: release, delete, add finalizer, conflict check, look up, create, adopt, edit, refresh status, set error |
| Event filter and work queue (`fastWritePredicate`, `SetupWithManager`) | the informer's cache, the set of queued keys | deliver an event, enqueue, requeue on error |
| Call retries (`cfRetry` in `metrics.go`) | the attempt counter | retry at once, give up on 429 or when retries are used up |
| Zone controller (`zone_controller.go`) | `status.name` and the Initialized condition of a Zone | initialize the zone, run drift detection, requeue after the drift interval |
| Zone coordinator (`zone_customhostname_drift.go`) | none; sends to a bounded channel | bulk list of CF, list of CRs, compare, `sendDriftEvent` |
| SSL parameters and drift (`buildSSLParams`, `buildSSLEditParams`, `sslDrifted`, `sniDrifted`) | none, pure | what is sent to CF, what counts as drift |
| SSL provisioning gauge (`metrics.go`) | a mutex-protected map with expiry times | set by the CustomHostname worker, cleaned by the Zone worker |
| `cmd/main.go` | flags | validation, wiring of the two controllers and the channel |
| CF, API server, users | records; objects and their versions | external: modelled from how the code uses them |

**Interaction.** Each controller has one worker. Users and both controllers write to
the API server, which refuses writes with an old `resourceVersion`. Its events reach
the informer cache later and in order; both controllers *read the cache* and *write
the API server*. The Zone coordinator compares a snapshot of CF with the cache and
sends CRs over a bounded channel into the CustomHostname work queue. The
CustomHostname worker is the only part of the operator that writes to CF; external
tools and people write to CF as well.

**What is hard.** A reconcile reads a cached object, makes one to three CF calls,
each retried, and ends in at most one write to the API server. Between any two of
these steps the CR may be edited, deleted or made again, the record may be deleted,
the certificate may change, a reply may be lost, the zone or its secret may go away,
and the process may die. There is no transaction over CF and Kubernetes; the design
relies on the finalizer, on optimistic concurrency, on looking a hostname up before
creating it, and on the drift cycle. `PROJECT.json` ("hazards") lists each place.

What makes each part correct:

- *CustomHostname controller*: a record is only made under a stored finalizer; a CR
  is only let go when its record is gone, where the policies ask for that; policies
  are obeyed; no user write is undone; no CR is forgotten; the status tells the truth.
- *Zone coordinator*: whatever differs is eventually enqueued; a conflict clears when
  its owner goes; a full channel delays but does not lose events.
- *Zone controller*: a changed Zone is initialized again; a failed status write is repeated.
- *SSL functions*: what was just written is not reported as drift.
- *Gauge cache*: a series in use is not removed, an expired one is.

## 2. Plan

| Order | Module | Contents | State |
|---|---|---|---|
| 1 | `CustomHostname` | the CustomHostname controller with API server, cache, CF and restarts; the coordinator may enqueue any CR at any time | done |
| 1 | `MCCustomHostname` | values of its constants | done |
| 2 | `CustomHostnameProofs` | type correctness and the first safety theorems | done |
| 3 | `EdgeOperator` | EXTENDS `CustomHostname`; the Zone worker's steps as coordinator. Liveness: once users, CF clients and failures are quiet, every CR converges | done |
| 3 | `MCEdgeOperator` | values of its constants; two claims for one hostname as a start | done |
| 3 | `EdgeOperatorProofs` | the operator implements `CustomHostname`, so that its safety results carry over | done |
| 4 | `CHLifecycle`, `CHRefinement` | the abstract promise of one CR, and `CustomHostname` shown to implement it | done |
| 5 | `SSLConfig`, `MCSSLConfig` | the settings of one hostname field by field: what is sent, compared and stored agrees | done |
| 6 | `ZoneController` | Zone objects with their generations, initialization, metric series and the gauge's TTL cache under the two workers | done |
| 7 | `CustomHostnameStatusProofs`, `SSLConfigProofs`, `ZoneControllerProofs` | ids and conditions of statuses; types and safety properties of the two last modules | done |
| 8 | `CustomHostnameScheduleProofs` | no CR is forgotten by filter, queue and events | done |
| 9 | `CustomHostnameRecordProofs` | where each copy of a CR comes from; what the operator makes and deletes in CF | done |
| 10 | `CHRefinementProofs` | the refinement of `CHLifecycle`, step by step | done |

Left for models: two zones in `EdgeOperator`, and the pages of the bulk list; both need
smaller liveness graphs first. Left for proofs: nothing that the runs check but liveness
(section 10).

## 3. `CustomHostname`

| Variable | Code |
|---|---|
| `api`, `cache`, `watch` | the CRs at the API server, in the informer, and the events in between. A user's object has a spec, the operator's finalizer (`fin`), a deletion timestamp (`term`) and a status |
| `zone` | what `buildCloudflareClient` finds: no Zone or secret (`missing`), a Zone without `status.name` (`uninit`), or with it (`ready`) |
| `cf` | all records ever made, so that an id is never used again; `live` until deleted |
| `queue` | the keys waiting in the work queue |
| `pc`, `cur`, `ch`, `fresh`, `tries` | the worker: next call or write, the CR, its in-memory copy, whether that copy has the API server's `resourceVersion`, the retries of the current call |
| `dryRun` | the flag of the running process |

Actions. `Reconcile(c)` takes a key from the queue and runs the code up to the first
step that leaves the process: one disjunct per early return. `LookupMissing`,
`LookupFound`, `CreateAttempt`, `EditAttempt`, `Predelete`, `DeleteAttempt` and
`DeleteNotFound` are one attempt of a CF call *and* the code up to the next call or
write. `CallFails` is an attempt without effect, on which `cfRetry` tries again or
gives up (`GiveUp`: setError, or the bare error during deletion). `AddFinalizer`,
`Release`, `PersistStatus` are the write that ends a reconcile, `WriteFails` its
refusal. `Deliver` is one watch event through `fastWritePredicate`; `DriftEvent` the
coordinator. The rest are users (`CreateCR`, `EditSpec`, `DeleteCR`), CF and its
other clients (`ExtCreate`, `ExtEdit`, `ExtDelete`, `SSLChanges`), zones coming and
going (`ZoneChanges`) and `Restart`, possible in every state.

Abstractions. Origin, SNI and SSL settings are one value `cfg`; the reasons passed to
`setError` are one condition; `consecutiveErrors` is the fact that it is positive;
`status.ssl` and `status.hostnameStatus` are none, pending or active. CF's reply to a
write may have either certificate state. The operator's finalizer is the only one.
`WriteFails` may happen to a fresh write too (an unreachable API server). Back-off
and pacing delays are left out: no decision depends on their length. A write that
times out at the client is applied then or never, not later.

`ValidFlags` is the flag check of `main`, assumed of the constants.

**`CHLifecycle`** says what the controller promises without saying how: no worker, no
cache, no retry, no restart. A CR is absent, claimed, held or doomed; the operator makes
records for held CRs (or doomed ones, when the request was on its way), associates a CR
only while it is held and only with a record of its hostname, removes a record only for
its own doomed CR, and releases a doomed CR when its record is gone or the policy keeps
it. **`CHRefinement`** maps to it what the API server and CF hold: the phase from the
object, the finalizer and the deletion timestamp; the id from `status.id`; `keeps` from
the policies in force; the records as they are. Everything else of `CustomHostname` is
hidden, so most of its steps stutter. The refinement needs two things. No zoneRef moves:
the run `zone-move` shows what happens otherwise. And no second record of the hostname
misleads the lookup that own-only makes before a deletion: CF refuses duplicates, as in
the run `policies`, or no CR is under own-only.

## 4. `EdgeOperator`

The module adds the Zone controller, whose one worker is the coordinator, and the
channel between the controllers. It reuses every action of `CustomHostname` but
`DriftEvent`, which becomes `Receive`.

| Variable | Code |
|---|---|
| `zpc`, `zcur` | the next step of the Zone worker, and its zone |
| `snap` | the map of `listCloudflareHostnames`: per hostname the record as it was then |
| `todo` | the CRs `detectCustomHostnameDrift` has still to send |
| `chan` | the channel `driftEvents` of capacity `--drift-buffer` |
| `calm` | no code: TRUE once disturbances have ceased; liveness is stated from there on |

`ZoneReconcile(z)` starts a reconcile. `InitializeZone` is the zone's GET with the
status write, `ZoneGone` and `ZoneFails` their failures and those of the lists.
`ListCloudflareHostnames` takes the snapshot, `DetectDrift` reads the CRs from the
cache at a later moment and compares, `SendDriftEvent(c)` sends one CR and blocks
while the channel is full, `Receive` is the CustomHostname controller's source.
`EdgeRestart` loses the channel and the work in progress.

Abstractions. The pages of a bulk list are read in one step. A zone's GET and its
status write are one step. The certificate id of `status.ssl` stands and falls with
the record id, because CF gives every record its own certificates. Whether an edited
Zone needs a new initialization is left open in every reconcile. Controller-runtime
moves events from the channel to a buffer of its own before it queues them; `chan`
stands for both. The interval between two reconciles of a zone has no length.

**Fairness** (`Fairness`). The goroutines of the two workers, of the informer and of the
channel source run: weak fairness for their steps as long as CF and the API server do
what they are asked. What CF must refuse (`Refused`: the edit of a record that is gone,
the create of one that exists) is refused under fairness too, so that the worker, which
then retries or reports the error, does not stand still. The work queues are served in order, so a key that waits again and
again is taken: strong fairness for `Reconcile(c)`; a zone is requeued after every drift
interval, likewise `ZoneReconcile(z)`. Nothing is assumed of users, other CF clients,
failures, restarts, or `BecomesCalm`: a behaviour may be disturbed for ever, and the
properties then promise nothing. `calm` is a variable and not a formula on actions
because a restart of an idle process looks like a step of the operator.

## 5. `SSLConfig`

`CustomHostname` has one value `cfg` for origin, SNI and the four SSL fields. This module
has the fields, for one hostname and one CR. Each SSL field is managed by the spec or left
alone; `spec.ssl` and `spec.originSNI` may be nil.

| Variable | Code |
|---|---|
| `spec`, `status` | the CR's settings and its `status.ssl` |
| `rec` | the record of the hostname in CF, with the time its certificate was issued |
| `queued`, `pc`, `mem`, `seen`, `reply`, `fresh` | the worker: whether the key is queued, the next step, the spec it works on, what its lookup found, the status it is about to store, whether the object is as it was read |
| `calm` | no code, as in `EdgeOperator` |

The operators `BuildSSLParams`, `BuildSSLEditParams`, `SniDrifted`, `SslDrifted`,
`CfState` and `StatusOutdated` are the pure functions of the same names in the code
(`CfState` for the three `cfStateFrom*`, `StatusOutdated` for `sslStatusChangedFields`).
`DriftCycle` is the coordinator's comparison; `Lookup`, `Create`, `Edit` and `Persist` are
the steps of the worker that use them. CF honours what is sent and chooses the rest; when
an edit makes it issue a new certificate (`Reissue`) it may reset fields that were not
sent. That is why the code sends all fields from the lookup, and why a change another
client makes between lookup and edit may be taken back.

Abstractions. The runs have two of the four SSL fields: one that CF requires and whose
change reissues the certificate, one that is neither. Serial number, id and expiry of the certificate go
with its time. A time is a second and a fraction; the API server keeps the second
(`OnlySeconds`). The `--ssl-*` defaults are chosen anew by every create, which includes
every sequence of restarts with other flags. Finalizer, deletion and policies are left to
`CustomHostname`; the policy here is manage.

## 6. `ZoneController`

| Variable | Code |
|---|---|
| `zapi`, `zcache`, `zwatch` | Zone objects at the API server, in the informer, and the events in between; each with its immutable `spec.id`, its `credentialsRef`, its generation and the Initialized condition with the generation it observed |
| `secrets` | the secrets that exist |
| `zqueue`, `step`, `zcur`, `zobj`, `zfresh` | the queue and the worker |
| `gauge`, `counts` | the series of `zoneInitialized`; the series that a drift cycle publishes, each a pair of gauge (`DriftGauges`) and zone |
| `series`, `entry`, `setting` | series of the SSL duration gauge; entries of `sslProvisioningCache` with their age; a duration that is being set by the CustomHostname worker, which sets the gauge *before* it takes the mutex |

`ZReconcileGone`, `ZReconcileNoToken` and `ZReconcile` take a key; `GetZone`,
`SetInitialized`, `StaleWrite` and `ZFails` are the initialization; `DriftCycle` and
`EndReconcile` the rest, with `CleanExpiredSSLProvisioning` at its end. A condition
carries, for `InitializedMeansValidated` only, the id and credentials of the GET.
`ZReconcileGone` removes the series that the code removes (`RemovedWithZone`): not those
of `hostnameStatusGauge`.

Abstractions. The drift cycle is one step, for `EdgeOperator` has it in detail, and the
record of a zone's domain is one with the condition, since they are written together.
There is one hostname per zone, so the zone stands for the key of the cache. The clock
ticks; an entry's age stops growing once it is over `TTL`. The CustomHostname worker may
set a duration for any method at any time until the system is calm.

## 7. Runs

The first three runs use `MCCustomHostname` and state no fairness: their properties are
safety properties. Deadlock is checked in them and in `edge-race`. The other
systems really stop: `edge-live` when it is calm and its only zone has no usable client,
`ssl-config` when nothing differs any more, `zone-object` when no Zone is left.

| Run | Instance | Checks |
|---|---|---|
| `one-cr` | 1 CR, 2 cfgs of which one has its origin outside the zone, 1 zone missing, uninitialized or ready, 2 records, lag 2, 1 retry, lost replies, records deleted and certificates changing outside | `TypeOK`, `CreateUnderFinalizer`, `NothingForgotten`, `RecreateOnlyAfterLoss`, `NoLostUpdate`, `ReleaseMeansDeleted`, `TerminatingStatusFrozen` |
| `policies` | 1 CR that moves between own-only, create/never and observe, dry-run on or off, 2 hostnames, records made outside | `RecordedHost`, `StatusConsistent`, `PolicyRespected`, `ErrorsOutlastDetours`, `ImplementsLifecycle` |
| `two-crs` | 2 CRs of one hostname (symmetric), CF accepts duplicates, records deleted outside, lag 2 | `OneRecordPerHost`, `DeletesOnlyForTerminating`, `ErrorsOutlastDetours` |
| `edge-live` | 1 CR, 1 zone missing or ready, 2 records deleted outside, all failures, restarts; channel of 1 | `CoordTypeOK`, `Converges` |
| `edge-race` | 2 CRs of one hostname with different settings, 1 zone uninitialized or ready, 2 records, channel of 1; one CR may be deleted at any moment, nothing else disturbs | `NoEditWar`, `SurvivorServed` |
| `ssl-config` | 1 hostname, 3 specs (nothing managed but the origin; SNI and the DCV method; both SSL fields), with and without a default; times in whole seconds | `SSLTypeOK`, `WrittenIsNoDrift`, `UnmanagedKept`, `SettingsSettle`, `SteadyState` |
| `zone-object` | 1 Zone of 2 generations, 2 secrets, 2 DCV methods, TTL of 1 tick, lag 1 | `ZoneTypeOK`, `InitializedMeansValidated`, `SeriesTracked`, `ZonesSettle`, `SSLSeriesExpire` |

The properties, in words:

- `CreateUnderFinalizer`: whenever a create is under way, the API server (not only
  the worker's copy) holds the CR with the finalizer.
- `NothingForgotten`: a CR that is being deleted, or was never reconciled to the end,
  is queued, in work, or announced by an event; so it does not need the drift cycle.
- `RecordedHost`: a recorded id is a record of the CR's own hostname.
- `OneRecordPerHost`: looking up before creating, with one worker, makes no
  duplicates even if CF would accept them. Where CF accepts them it is stated of the
  records that the operator made, since nobody keeps another client from making a second;
  and it does not hold where `cfRetry` repeats a create whose reply was lost (see the
  bounds, and `RetriesAreSafe` in section 8).
- `RecreateOnlyAfterLoss`: `createCount` exceeds 1 only by records that are lost:
  deleted, or in a zone that the zoneRef has left. Losses are counted by the CR's name, so
  those of an earlier CR of this name count as well, and a twin that is still there is no
  loss: the property bounds the counter and does not look for second records.
- `StatusConsistent`: Ready and SSLPending tell the certificate state of a known record;
  Error has an error counted; and a counter that is not 0 comes with Error, or with
  HostnameConflict or DryRun, the two conditions the code sets without touching it.
- `ErrorsOutlastDetours`: the error counter starts with a failed reconcile (Error) and ends
  with a successful one (Ready, SSLPending, WaitingForExternal), never on the way through
  a conflict or a dry-run, nor by a stale copy, a user's write or a restart. A counter
  that a conflict leaves behind stays, and the drift cycle enqueues the CR by it: that it
  goes in the end, where no conflict stays, is part of `Converges`.
- `NoLostUpdate`: the worker never undoes a user's write and never removes a CR that
  is not being deleted.
- `TerminatingStatusFrozen`: after the deletion request the id that the deletion
  will use is fixed.
- `ReleaseMeansDeleted`: under the policies manage and always a CR with an id is let
  go only when that record is gone.
- `DeletesOnlyForTerminating`: a record is deleted only for the CR that holds its id
  and is being deleted at that moment.
- `PolicyRespected`: every write to CF is one that the spec the worker read allows: none
  under observe, no edit unless manage, no delete under never; and none in dry-run. That
  spec is the one in force unless the CR was written to after the reconcile began: a policy
  changed meanwhile is obeyed from the next reconcile on.
- `ImplementsLifecycle`: every step of the controller is one that `CHLifecycle` allows.
- `CoordTypeOK`: types, and the channel never exceeds its buffer.
- `Converges`: once calm, every CR of a usable zone settles for good: gone if it was
  being deleted, else its status tells what CF has, with the right condition and no error
  counted, and CF has
  what the spec asks for where the policy enforces it. This needs the drift cycle to
  notice every loss: a crash between a second create and its status write leaves an
  old id that only the comparison of certificates reveals. `Exhausted` excepts the
  worker that waits for the bound on records.
- `NoEditWar`: two claims for one hostname do not edit its record for ever.
- `SurvivorServed`: of two CRs that share a record the one that is left is served again
  after the other took the record with it.
- `WrittenIsNoDrift`: what a create or an edit has just written is no drift by the code's
  own comparison, whatever the spec manages and whatever changed since the lookup.
- `UnmanagedKept`: an edit never resets a setting the spec leaves alone; it keeps it, or
  returns it to what the lookup saw: a change another client made in between is taken
  back, which the property permits.
- `SettingsSettle`: after any edits of the spec and the record, losses, certificates
  replaced and calls failed, once calm, the record has for good what the spec manages and
  `status.ssl` tells its settings and its certificate.
- `SteadyState`: once nobody disturbs the record, drift cycles stop enqueueing the CR.
- `InitializedMeansValidated`: Initialized at the current generation means that a GET
  succeeded with the id and the credentials of this very object, also when the Zone was
  deleted and made again meanwhile.
- `SeriesTracked`: every series of the SSL gauge has an entry that will expire, but for
  the one being set.
- `ZonesSettle`: once calm, a Zone with credentials is initialized for its last edit and
  its gauge says so; a deleted one leaves no series of the gauges that its deletion clears,
  although a drift cycle that was under way publishes them after the deletion. One gauge
  is not cleared: see section 9.
- `SSLSeriesExpire`: once calm, the series of the SSL gauge all go, as long as some zone
  is reconciled to the end.

**Bounds.** `MaxRecords` = 2 allows one loss and one recreation, or a record of each
of two clients. `MaxLag` = 2 lets the cache miss a deletion *and* a re-creation, or an
edit and a deletion, of the object in work; it is 1 where policies or statuses matter.
Errors are counted in all three runs; `policies` takes their counter through dry-run and
waiting, `two-crs` through a conflict. `MaxRetries` = 1 has a first and a last attempt.
Writes to the API server wait while `MaxLag` events are undelivered, records are not
made beyond `MaxRecords`; both are bounds of the model and not of the code. Two CRs are
enough for a conflict. In `two-crs` no reply is lost: a create repeated after a lost
reply makes a second record where CF accepts duplicates, because `cfRetry` does not look
the hostname up again. The liveness runs of `EdgeOperator` have `MaxLag` = 1, no retries
and one certificate life per record, for their graphs grow fast: with the record edited
and certificates replaced as well, they could not be finished. `edge-live` therefore
disturbs a CR by losses, failures, deletion and restarts, and what only drift cycles
notice otherwise is the subject of `SettingsSettle` in `ssl-config`, whose drift cycle
is one step. A channel of size 1 is the one on which a send blocks. `edge-race` has a
record to lose and one to replace it. In `zone-object` `MaxGen` = 2 has one edit per
object, and an object that is deleted and made again starts at generation 1 as its
predecessor did; a TTL of one tick has entries that are new, old and expired; two
methods and two secrets are one change of each.

**Runs that find a violation** check what the documents say:

| Run | Property | What happens |
|---|---|---|
| `no-orphan` | `NoOrphan` (docs/architecture.md:62) | deleted while the create is in flight: `status.id` is still empty, the finalizer is released, the record stays |
| `zone-move` | `ReleaseMeansDeleted` (docs/architecture.md:62) | zoneRef changed, then deleted: the 404 of the other zone counts as success. The run differs from `one-cr` in having two zones |
| `race-heals` | `RaceHeals` (comment at customhostname_controller.go:597-600) | the cache hides the first CR's new id, the second adopts the same record; from then on each sees the other's id |
| `conflict-clears` | `ConflictClears` (docs/architecture.md:171) | the owner goes under deletePolicy never; its record stays, and the other CR, drifted and in conflict, is skipped in every cycle |
| `steady-state` | `SteadyState` (docs/runbook.md:240) | CF's time of issue has a fraction of a second, the stored status has not; they are compared exactly, so every drift cycle enqueues the CR. The run differs from `ssl-config` in its times only |

**Fairness.** `Fairness` of `EdgeOperator` is explained in section 4. `SSLFairness` is weak
fairness for the worker and for the drift cycle, which the Zone controller repeats after
every interval. `ZFairness` is weak fairness for the steps of the Zone worker, the
informer, the second half of setting a duration, and the clock, and strong fairness for
taking a key, since the queue is served in order. Failures, users and restarts have none.

## 8. Proofs

`CustomHostnameProofs`, for every set of CRs, hostnames, zones, specs, all policies and
bounds, from the three named assumptions of `CustomHostname` only:

| Theorem | States |
|---|---|
| `TypeCorrect` | `Spec => []TypeOK` |
| `CreatesAreGuarded` | `Spec => []CreateUnderFinalizer` |
| `NoUpdateIsLost` | `Spec => NoLostUpdate` |
| `TerminatingStatusIsFrozen` | `Spec => TerminatingStatusFrozen` |

None of these is inductive alone: the worker acts on a copy of a cache of a past
state. `IInv` adds what links the copies.

- `SyncInv`: where no event of a CR is under way, the cache equals the API server;
  `LastInv`: the last event of a CR under way carries what the API server holds.
- `FreshInv`: a copy with the current `resourceVersion` agrees with the API server in
  all but the status; so a write that is accepted overwrites nothing.
- `PhaseInv`: what the copy looks like in each phase: terminating on the way to
  `release`, alive on the way to `status`, with the finalizer from the lookup on.
- `FinalizerInv`: as long as the cache, an undelivered event or the worker's copy
  shows a version with the finalizer and no deletion, the API server holds the CR with
  the finalizer. It holds because only a worker that has seen the last version, a
  terminating one, can release the finalizer, and then no older version is left.

The proof that `Next` preserves `IInv` has one lemma per conjunct and one step per
action; the theorems follow with PTL. `IInv` was checked with TLC on the instances of
`one-cr` and `two-crs` before it was proved.

`EdgeOperatorProofs`, for every buffer size and with the two named assumptions of
`EdgeOperator` (a positive buffer; `ready` is a state that zones may have):

| Theorem | States |
|---|---|
| `OperatorImplementsController` | `EdgeSafety => Spec`: the operator implements the controller with its open coordinator |
| `CoordinatorTypeCorrect` | `EdgeSafety => []CoordTypeOK` |
| `OperatorIsSafe` | all that is proved of the controller without a hypothesis holds of the whole operator: `CreateUnderFinalizer`, `NothingForgotten`, `RecordedHost`, `StatusConsistent`, `RecreateOnlyAfterLoss`, `NoLostUpdate`, `TerminatingStatusFrozen`, `PolicyRespected`, `ErrorsOutlastDetours` |
| `OperatorMakesOneRecord` | `EdgeSafety => []OneRecordPerHost`, assuming `RetriesAreSafe` |
| `OperatorImplementsLifecycle` | `ImplementsLifecycle`, `ReleaseMeansDeleted` and `DeletesOnlyForTerminating`, assuming `ZoneIsFixed` and `OwnOnlyIsExact` |

The refinement mapping is the identity, since `EdgeOperator` keeps all variables of
`CustomHostname`. A step of the coordinator stutters, initializes a zone
(`ZoneChanges`) or is received as a `DriftEvent`. The invariant `EdgeInv` is `IInv` and
the coordinator's types, with the zone in work being a zone.

`CustomHostnameStatusProofs`, from the same assumptions:

| Theorem | States |
|---|---|
| `IdsAreOfOwnHost` | `Spec => []RecordedHost` |
| `StatusesAreConsistent` | `Spec => []StatusConsistent` |

Any copy of an object may be what the next status is computed from, and the copies are
of different ages. `CopyInv` therefore states both properties of every one: the API
server's objects, the cache, the events under way and the worker's copy. It is preserved
because each path of the code that ends in Ready or SSLPending goes through
`requeueOrReady` after an id and a certificate state were set, and because records never change their hostname.
`IInv` is needed for the writes, which merge the copy with the object of the API server.

`CustomHostnameScheduleProofs`, from the same assumptions, has `NothingIsForgotten`:
`Spec => []NothingForgotten`. That *some* event of an unfinished CR is under way is not
inductive, for the filter may drop it. `SchedInv` says more:

- `WakeInv`: an unfinished CR is queued, in work, or has a *waking* event under way, one
  that the filter lets pass whatever was delivered before it: relative to the event before
  it, or to the cache if it is the first.
- `BirthInv`: an object that follows on an absence has no id, so that its creation passes
  the filter; the id is what makes a Create event droppable.
- `CondInv`: every status that is written has a condition, and without one there is no id.
  A restarted controller therefore finds an unfinished CR in its first list.

The hard step is `Deliver`: the first event goes, and the event after it is now compared
with the cache. `DeliverWakes` shows that waking events stay waking ones, because what is
delivered *is* the event before. `PutWakes` does the same for a new event at the end.

`CustomHostnameRecordProofs`, from the same assumptions and the hypothesis named:

| Theorem | States | Hypothesis |
|---|---|---|
| `OneRecordIsMade` | `Spec => []OneRecordPerHost` | `RetriesAreSafe` |
| `RecreatesReplaceLosses` | `Spec => []RecreateOnlyAfterLoss` | |
| `PoliciesAreRespected` | `Spec => PolicyRespected` | |
| `ErrorsAreKept` | `Spec => ErrorsOutlastDetours` | |
| `DeletesAreForTerminating` | `Spec => DeletesOnlyForTerminating` | `OwnOnlyIsExact` |
| `ReleasedIsGone` | `Spec => GoneFromZone`: under manage and always, a CR with an id is let go only when the zone it names has no such record | |
| `ReleasedIsDeleted` | `Spec => ReleaseMeansDeleted` | `ZoneIsFixed` |

Each hypothesis is needed, and is about the constants only:

- `RetriesAreSafe`: CF refuses duplicates, or no reply is lost, or nothing is retried.
  Otherwise `cfRetry` repeats a create whose reply was lost and makes a twin.
- `OwnOnlyIsExact`: CF refuses duplicates, or no policy is own-only. Otherwise
  `findByHostname` may return another client's record in place of the CR's own; the
  finalizer is released, the CR is made again and adopts the old record, and a worker that
  is late, with the first CR's copy, deletes it. TLC shows both on small instances.
- `ZoneIsFixed`: all specs name one zone. The code does not enforce it, and the run
  `zone-move` is the counterexample; `ReleasedIsGone` is what holds without it.

The proofs share one lemma, `Flow`: every copy of a CR after a step, wherever it is, was
made from a copy before it, and `Inherits` says what of it is the same; or it is newly
created, or a create was counted on it. So an invariant of *all* copies is proved once for
the flow and not for every action. The invariants:

- `UniqueInv`: when a create is under way the operator has made no record of that
  hostname that is still there, so that the lookup is as good as new.
- `CountInv`: on every copy, the creates counted are at most the records made for
  the CR, and at most one more than those lost, for any zone. `Lost` only grows.
- `PolicyInv`: the call that the worker is at is one its copy's policies allow; with
  `FreshInv`, that copy is the CR in force unless it was written to.
- `ErrInv`: a copy that the API server would accept still has the stored error counter, or,
  as a status about to be written, has come from it by an `ErrorStep`.
- `EndInv`, `LateInv`: at the release the CR may be let go (`LetGo`); and every terminating
  copy, however old, is of the deletion that is under way or of a CR that may be let go.

`UniqueInv` to `LateInv` were checked with TLC, on instances in the manner of `one-cr`,
`two-crs` and `policies`, before they were proved.

`CHRefinementProofs` has `ControllerImplementsLifecycle`: assuming `ZoneIsFixed` and
`OwnOnlyIsExact`, `Spec => ImplementsLifecycle`. `LifecycleInit` maps initial states to
initial states; `LifecycleStep` maps every step to a step of `CHLifecycle` or a stutter,
with one lemma per action that changes what the mapping shows (`CreateCRMaps`,
`DeleteCRMaps`, `AddFinalizerMaps`, `PersistStatusMaps`, `ReleaseMaps`, `CreateMaps`,
`DeleteMaps`, `ExternalMaps`...) and `NothingShown` for all others. `FinalizerInv`
gives the guard of a create, `LateInv` that of a deletion, `EndInv` that of the release and
`CopyInv` that of an association. One more invariant is needed, `IdInv`: a status about to
be written never clears an id.

`SSLConfigProofs`, for any fields, specs, defaults and times, from the two named
assumptions of `SSLConfig`:

| Theorem | States |
|---|---|
| `SSLTypeCorrect` | `SSLSafety => []SSLTypeOK` |
| `NoDriftAfterWrite` | `SSLSafety => WrittenIsNoDrift` |
| `EditKeepsUnmanaged` | `SSLSafety => UnmanagedKept` |

The type invariant is inductive. With it `CreateResult` and `EditResult` say what the two
writes make of a record, and the two action properties follow field by field.

`ZoneControllerProofs`, for any Zones, secrets, generations, lag and TTL, from the one
named assumption of `ZoneController`:

| Theorem | States |
|---|---|
| `ZoneTypeCorrect` | `ZSafety => []ZoneTypeOK` |
| `InitializedZonesAreValidated` | `ZSafety => []InitializedMeansValidated` |
| `SeriesAreTracked` | `ZSafety => []SeriesTracked` |

The first two need `WriteInv`: the condition that is about to be written tells of the
generation and the identity of the very copy it is written with. The lemma `Parts` splits
the invariant into what the API server holds and the rest, which most steps leave alone.
`SeriesTracked` is inductive once types are known.

## 9. Divergences without a run

Met while modelling; each would need history variables or detail that nothing else uses,
or is shown by a run that is about something else.

- `customhostname_controller.go:557-571` measures the SSL duration whenever a certificate
  is active and the CR was not Ready. `metrics.go:46` says "Set once per provisioning
  cycle; reset on recreation": a certificate that leaves active and comes back after one create is
  measured again, with the whole time since the create.
- `setError` (`customhostname_controller.go:633`) returns nil when its status write
  succeeds, so controller-runtime does not retry. docs/operations.md:103 and
  docs/runbook.md:74 say that a failed reconcile is retried with exponential backoff; it
  is the next drift cycle that retries, as long as the zone has one.
- A CR in HostnameConflict is not always quiet. The comment at
  `customhostname_controller.go:209-213` says "the Zone controller skips drift-enqueue for
  conflict CRs, so this stays quiet until the conflict resolves", and docs/runbook.md:112 that
  duplicates "are not reconciled". `zone_customhostname_drift.go:99-102` skips such a CR only
  when its settings differ from the record; when they agree and its `status.hostnameStatus`
  or `status.ssl` is empty or outdated, or it has errors counted, it is enqueued in every
  cycle (105-119) and returns in conflict again. `DetectDrift` has these branches.
- `setSSLProvisioningDuration` sets the gauge before it takes the mutex (`metrics.go:263`).
  When the key still has an expired entry of the same method, a cleaning in between removes the
  series just set, and the new entry then stands for nothing until it expires. metrics.go:235
  says the gauge "stays in /metrics after being set" for the TTL. `SeriesTracked` states
  the other direction, which holds.
- A deleted Zone leaves the series of `hostnameStatusGauge`, which
  `zone_customhostname_drift.go:151-153` publishes and `zone_controller.go:94-98` does not
  delete. The model keeps them in `counts`; `ZonesSettle` speaks of `RemovedWithZone` only.
- An edit sends unmanaged fields as the lookup saw them, so that a change another client makes in
  between is taken back; `UnmanagedKept` states this allowance.

## 10. Only model-checked, and not modelled

Every invariant and action property of the passing runs is proved. Only checked are the
liveness properties, because liveness under fairness and `ENABLED` are out of the prover's
reach: `Converges`, `NoEditWar`, `SurvivorServed`, `SettingsSettle`, `SteadyState`,
`ZonesSettle` and `SSLSeriesExpire`. What a recursive function computes for every input could not be
proved either, because the installed provers cannot instantiate the induction theorems; no
module here declares a recursive operator.

Not modelled: the pages of the bulk list (read in one step); counters and gauges that no
decision reads, and logs; the server, TLS and logging options of `main`; leader election
(one active replica is assumed); admission validation (used as an assumption on
inputs); charts, manifests and generated code. `PROJECT.json` ("components") gives the
reason for each.
