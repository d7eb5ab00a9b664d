# Verification of the paas operator

TLA+ models of the operator in this repository, checked with TLC, and theorems
about them proved with TLAPS. The operator turns six custom resources (CRs) into
objects of six vendor operators and mirrors their status back.

## The system

| part | state it keeps | operations |
|---|---|---|
| `internal/reconciler` (`GenericReconciler`) | none of its own; the CR's finalizer and `.status`, the foreign objects | `Reconcile`: read CR, add finalizer, get, apply, apply or prune extras, update status, deletion path |
| `internal/{cnpg,valkey,prometheus,mariadb,rabbitmq,grafana}` (adapters) | none | `BuildManifest`, `ExtraResources`, `ExtractStatus`, `ApplyStatus` |
| `internal/ingress` | none | `Build` |
| `internal/controller`, `cmd/main.go` | the lease; work queues, informer caches, timers (controller-runtime) | set-up of the six controllers, start, leader election, shutdown |
| `api/v1alpha1` | the CRs | types, defaults |

One `Reconcile` call makes up to a dozen API calls, each of which can fail, take
effect without an answer, or be overtaken by users, vendor operators and the
other controllers. CRs are read from an informer cache that trails the API
server; foreign objects are read and written live. Nothing watches the foreign
objects, so everything about them is learnt by polling (15 s, or 5 min once
ready). The six controllers run in one process, one worker each; leader election
keeps a second process (a rolling update, a partitioned node) waiting.

What makes it correct: nothing the operator created outlives the CR that asked
for it; a live target is never taken from a CR that is not being deleted; the
operator never overwrites what a user wrote; the status never vouches for a spec
that was not applied; every CR is eventually what it asks for. What makes it
hard: stale reads, full-object updates, deletion and re-creation under the same
name, loops that fail half-way, lost responses, requests that arrive after their
caller has gone, restarts and handovers. `PROJECT.json` lists
these hazards, each at its line, with the properties that watch it.

## Modules

**Reconciler** models `reconciler.go`, one API call per step.

- `history[k]` holds every version of CR `k`, so that a resourceVersion is an
  index; `seen[k]` is the version the informer cache holds. `Fresh` is the API
  server's check of the resourceVersion on `Update` and `Status().Update`.
- `run[k]` is the call in progress: its program counter, the version it read and
  its locals (`existing`, the readiness found, the loop index).
- `objects` are the foreign objects: absent, live or terminating, with the labels
  that name their CR, the CR version their manifest came from, and the vendor's
  readiness.
- `Begin` is the worker's `Get`; `Branch` the three-way decision of lines 158-199;
  `AddFinalizer`, `GetTarget`, `Apply`, `ApplyExtra`, `UpdateStatus` are steps
  1, 2, 3, 3b, 4 of the code; `DeleteTarget`, `DeleteExtra`, `RemoveFinalizer` the
  deletion path. An error or a conflict ends the call and queues the key again.
- `FailCall` fails a call before it takes effect, the `LoseResponse` disjuncts
  after; `Restart` kills the process between any two API calls.
- Users create, edit and delete CRs (in the foreground too, which keeps the CR
  after our finalizer is gone); vendors report readiness and finish deletions;
  outsiders edit and delete foreign objects.

**Handover** extends Reconciler with requests whose outcome is open when their
caller stops waiting. `LeaveBehind` breaks the connection under a write, `Handover`
replaces the leader in the middle of its calls; the writes they leave in `late` land
at any later time, or never: applies and deletes unconditionally, as they name no
version, Updates only on the version they were built from. `stray` remembers late
applies that landed on a CR in its deletion, or gone. **MCHandover** is one
ValkeyCluster, **HandoverProofs** holds the theorems.

**Manager** models `main()` in several processes: the six set-ups in order
(`SetupController`, `SetupFails`), `Start`, waiting for the lease (`Acquire`),
renewing it, exit at the renew deadline (`LoseLease`), SIGTERM (`Terminate`,
`Drained`), the deadline missed during a shutdown, which ends the renewals but not
the shutdown (`LoseLeaseDraining`), crashes, partitions, the kubelet's restart and time.
**ManagerProofs** holds its theorems.

**Lifecycle** is the promise in the abstract: a CR goes none, plain, guarded,
closing, released, none, and owns live objects only while guarded or closing.
**ReconcilerLifecycle** maps the reconciler's state to it. **ReconcilerProofs**
holds the theorems about finalizers and orphans, **ObservationProofs** those about
the status, polling and edits, **LifecycleProofs** the refinement.
**MCReconciler** (one PrometheusInstance),
**MCReconcilerPair** (two ValkeyClusters on one worker) and
**MCReconcilerShared** (a PrometheusInstance and a RabbitMQCluster of one name)
give the constants values, taken from **Adapters**, which records what the
adapters call their objects.

**StatusMirror** models steps 3 and 4 and the timer with time, and for each
adapter `ExtractStatus` followed by `ApplyStatus` as a function of what the vendor
reports: units it counts, ready ones, its verdict. Every API call of a Reconcile
call may fail, with or without its effect (`ApplyFails` for steps 2 and 3,
`UpdateStatusFails` for 3b and 4, conflicts in `UpdateStatus`), and `ReturnError` is
what every error return does: the work queue retries after `backoff`, which doubles
up to `MaxBackoff` and is forgotten after a success (client-go: 5 ms to 1000 s).
`wake` is the key's one entry in the work queue, due at once after an event, or
later. `stamp` stands for the transition
time of the Ready condition, as far as it can differ from one write to the next.
**StatusMirrorProofs** holds its theorems.

**Manifest** models the manifests as the sets of fields they carry, option by
option, and Server-Side Apply with forced ownership, field by field; and the write
that adds the finalizer, which sends the CR through the zero values of its Go types
(`Sent`) and the defaults of its CRD (`Defaulted`). **ManifestProofs** holds its
theorems.

Definitions whose comment starts with "Slip", or that stand in the section of that
name, are wrong versions of the definition they are named after. Each is put in
its place once, to see that the property listed with it in `PROJECT.json` fails.

## Runs

| run | configuration | shows |
|---|---|---|
| reconciler | `Reconciler.cfg` | `IInv`, which includes the types, and `ObservedInv`, the invariants the proofs use; `NoOrphan`, `ObservedMeansApplied`, `ObservedMeansPruned`, `NeverForgotten`; the action properties `NoPrematureDelete`, `NoLostEdit`, `NoRegress`, `AnnouncesCreation`; and `Converges`, with faults |
| pair | `ReconcilerPair.cfg` | `Converges` and `ImplementsLifecycle` for two CRs that share a worker |
| handover | `Handover.cfg` | late requests: `HandoverInv`, the invariant of its proofs; `OnlyStraysOrphaned`, `OnlyLateDeletes`, `NoLostEditLate`, and `Recovers`, the counterpart of `Converges` |
| manager | `Manager.cfg` | `OneActive`, `LeaseInv`, the invariant of its proof, and `AllServed` |
| status | `StatusMirror.cfg` | `MirrorInv`, the invariant of its proofs; `MirrorIsRecent`, `ReadyMeansCounted`, `ReportsReady`, `ComesToRest`, all six vendors |
| manifest | `Manifest.cfg` | `ManifestInv`, the invariant of its proofs; `MatchesManifest`, `EditReachesTarget`, `WriteKeepsRequest` |

Six runs show a disagreement between the code and what is written about it:

| run | configuration | the code | the text |
|---|---|---|---|
| terminating | `ReconcilerTerminating.cfg` | releases the finalizer while the target is still terminating | README.md:130 "removes the vendor object before releasing its own finalizer" |
| zero_replicas | `ReconcilerZero.cfg` | turns `replicas: 0` into 1 when it adds the finalizer | prometheusinstance_types.go:50 "the number of Prometheus pods to run" |
| shared_ingress | `ReconcilerSharedIngress.cfg` | two kinds name their Ingress alike and take it from each other | rabbitmqcluster_types.go:64-66 "creates and manages a separate Ingress object" |
| grafana_ready | `StatusMirrorGrafana.cfg` | Ready without any replica ready | reconciler.go:54 "ObservedCount == ReadyCount and ObservedCount > 0" |
| settled | `StatusMirrorSettled.cfg` | slow polling on a status older than the spec | reconciler.go:130 "fast while not ready, slow once settled" |
| monitoring_default | `ManifestMonitoring.cfg` | no monitoring unless the CR has a `monitoring` struct, because the default is inside it | postgrescluster_types.go:79 "Enabled by default." |

The handover run shows no disagreement but a limit. A late apply can leave an
object behind that no CR owns, and a late delete can take the target of a CR
created since, which the next poll creates anew, empty. Nothing in the code
excludes either, since applies and deletes name no version; `OnlyStraysOrphaned`
and `OnlyLateDeletes` say that nothing worse happens.

### Bounds

The environment has budgets: `MaxEdits` (user actions), `MaxFaults` (failed
call, lost response, restart), `MaxDrift` (outside edits), `MaxReports`
(readiness changes). Three edits reach create, edit, delete and create, delete,
create again, under any staleness of the cache. One fault at every possible
point is enough to leave each half-done state; a second one only repeats it,
because a call keeps nothing from an earlier one. `Replicas` is `{1}` where zero
would only repeat the finding of zero_replicas: a spec then changes by its
exposure alone. The pair run is about two CRs and has two edits, a drift, a report
and no faults, which the reconciler run has; the handover run has three edits and one fault, which leaves behind
one request, or one per call in progress, enough for every landing point of
every kind of write; a late request stands on its own, so a second one adds the
same damage elsewhere. The manager run has two processes, two cuts and three
failures: the leader and its successor can each be lost in turn, and the
timings 1, 3, 4 keep the order of client-go's 2 s, 10 s, 15 s. In StatusMirror the delays are 1 and 5, with the intervals 2 and 3 between
them: their order is that of 5 ms, 15 s, 5 min and 1000 s, and as there the longest
delay is not a double of the first. Two edits and a fault give three failures in a
row, enough to reach the longest delay, and let a conflict, a failed call, a lost
response, a self-triggered call and a timer meet. In Manifest three edits and two foreign edits turn an option on, change
ownership of its field, and turn it off again. No symmetry is used.

`CHECK_DEADLOCK FALSE` stands in the Reconciler and Handover configurations: an operator
without CRs, and with every budget spent, has nothing to do.

### Fairness

Weak fairness on the steps of a call, on watch events, timers, the garbage
collector and a vendor's cleanup: late, but not lost. Strong fairness on `Begin`
of each key, since the work queue is first-in first-out and one worker serves all
keys of a controller: a key in the queue is enabled only whenever the worker is
free. Users, faults, outsiders and readiness reports are never forced, and are
bounded, which is the "once they pause" of `Converges`. Nothing makes a late request
land. StatusMirror also assumes that time passes and that the vendor does its work;
Manager, that `main()` runs on, the kubelet restarts it, partitions heal and time
passes. `Tick` waits for a holder's timers: it renews every `RetryPeriod` while it
reaches the API server and no longer leads at `RenewDeadline`, which is what client-go
promises of a process that is scheduled.

## Proofs

`ReconcilerProofs` proves, for any CRs, controllers, objects, lists of auxiliary
objects (shared ones included) and bounds:

- `Typing`: `Spec => []TypeOK`;
- `Inductive`: `Spec => []IInv`;
- `NothingOrphaned`: `Spec => []NoOrphan`;
- `NeverPrematurelyDeleted`: `Spec => NoPrematureDelete`.

The assumptions are `ObjectAssumption` (a target is the target of one CR and
nobody's auxiliary object: the vendor kinds are distinct, and names are those of
the CRs), `BoundAssumption` and `OwnerAssumption`.

From the same assumptions `LifecycleProofs` proves `Refinement`,
`Spec => ImplementsLifecycle`, and `ObservationProofs` proves:

- `ObservedInductive`: `Spec => []ObservedInv`;
- `StatusMeansApplied`, `StatusMeansPruned`, `NothingForgotten`:
  `Spec => []ObservedMeansApplied`, `[]ObservedMeansPruned`, `[]NeverForgotten`;
- `NeverRegresses`, `CreationAnnounced`: `Spec => NoRegress`, `AnnouncesCreation`;
- `EditsKept`: `Spec => NoLostEdit` if `0 \notin Replicas`. The run zero_replicas
  shows that this is needed: only PrometheusInstance and GrafanaInstance admit a
  zero whose default is not zero.

`HandoverProofs` proves, from the same assumptions, for any number of requests
left behind by any number of calls and leaders:

- `HandoverInductive`: `HandoverSpec => []HandoverInv`;
- `StraysOnly`: `HandoverSpec => []OnlyStraysOrphaned`;
- `LateDeletesOnly`: `HandoverSpec => OnlyLateDeletes`;
- `EditsKeptLate`: `HandoverSpec => NoLostEditLate`, again if `0 \notin Replicas`.

`ManagerProofs` proves, for any processes and any
timings with 0 < `RetryPeriod` < `RenewDeadline` < `LeaseDuration`
(`LeaseAssumption`; `HolderAssumption` says that the absent holder is no process):

- `LeaseHeld`: `Spec => []LeaseInv`;
- `SingleManager`: `Spec => []OneActive`.

`StatusMirrorProofs` proves, for all vendors, any counts and any intervals with
0 < `Fast` < `Slow` and 0 < `BaseBackoff` < `MaxBackoff` (`MirrorAssumption`):

- `MirrorInductive`: `Spec => []MirrorInv`;
- `StatusRecent`, `ReadySound`: `Spec => []MirrorIsRecent`, `[]ReadyMeansCounted`.

`ManifestProofs` proves, for all builders, any number of edits and any positive
counts (`ManifestAssumption`; for zero see zero_replicas):

- `ManifestInductive`: `Spec => []ManifestInv`;
- `AppliedMatches`: `Spec => []MatchesManifest`;
- `RequestKept`, `EditsReachTarget`: `Spec => WriteKeepsRequest`,
  `EditReachesTarget`.

`NoOrphan` is not inductive: it says nothing about a call that is about to apply.
The argument is that a call on the normal path has read a version with the
finalizer and without a deletion mark, and that such a sight stays true. Only the
operator removes the finalizer, only from a version marked for deletion, and only
if it holds the current resourceVersion, which is at most what the cache holds;
so by then no cache entry, undelivered event (`CacheGuarded`) or running call
(`RunGuarded`) can still show the unmarked version. `CacheDoomed` is the mirror
image for the deletion path and gives `NoPrematureDelete`. `Cleaned` says that
what the deletion path has passed is no longer the CR's, so that releasing the
finalizer orphans nothing; it needs `OwnedInPlace` (objects carry the label of a
CR that names them) and `Indexed`. `OnPath` and `WellFormed` tie a call to the
version it read.

`InvBut(S)` is `IInv` with the objects in `S` excused from `NoOrphan` and `Cleaned`;
`IInv` is the case of the empty set. Each step of the reconciler is shown to preserve
`InvBut(S)` for every `S`, so that Handover needs no second proof of them: its
invariant is `InvBut(stray)` and `Accountable` for each late request, which says that
the version it was built from has been in the cache, that no call in progress is
behind it, and that the request is one that version calls for. A late apply on a
guarded CR is therefore like one of a call in progress, and any other becomes a
stray. A late Update is accepted only on the current version; the cache then holds
that version, every call in progress works on it, and the Update stores what such a
call would have stored. One that releases the finalizer leaves nothing behind but
strays. Late deletes take objects away, which only `OnlyLateDeletes` has to speak of.

The refinement takes the abstract stage of a CR from its finalizer and deletion
mark, and its objects from the owner labels. A step of the operator changes the
stage of at most one CR; that it is a step the life cycle allows rests on `IInv`:
releasing needs `Cleaned`, taking a shared auxiliary object from another CR only
shrinks what that one owns, and an apply happens in the guarded stage or, when
the deletion mark came after the read, in the closing one (`RunGuarded`).

`OneActive` is not inductive either: that two processes do not lead at once
depends on the clocks. `LeaseInv` adds that a process that leads wrote the lease
last, and that the lease is no older than the process's own count since its
renewal. That count stays at or below `RenewDeadline`, so the lease of a leading
process has not reached `LeaseDuration` and nobody else can acquire it. A process
that loses the lease in the middle of its shutdown no longer leads; it may still wait
for calls whose context is cancelled when the next one starts, and what these had
sent is Handover's subject.

`ObservedMeansApplied` speaks of the target alone, and a call that read an older
spec could still spoil it. `Vouched` closes the gap: from the moment a status claims
the current generation, neither the cache, nor an event on its way, nor a call has
another spec. It becomes true because a status is accepted only from a caller that
holds the current version, and it ends with the next edit, which raises the
generation; `StatusBehind` says that no status is ahead of it. `BuiltFromSeen` says
which version a target was built from: none the cache has not held, none later than
the version the call in progress works on, and in step 4 the one step 3 applied. It
gives `NoRegress` too. `Pruned` is to the pruning loop what `Cleaned` is to the
deletion path, and `StillAbsent` carries the answer of step 2 to step 3, which is
what `AnnouncesCreation` needs: only the one call of a key creates its target. The
proofs look at one key at a time: a step is a step of that key, a restart, or quiet
about it (`Quiet`), so that other keys can only take its auxiliary objects away.

`MirrorIsRecent` bounds the age of a status by its polling interval and the delays
of the failures since the last success. It needs the work queue: `MirrorInv` adds
that outside a call the key is always queued, and due before that bound is reached,
and that a status waiting to be written is as sound as a written one. A failure costs
a delay and doubles the next, so that the delays so far are the next one less the
first. Once the delay has reached `MaxBackoff` the sum grows with every failure, and
nothing is claimed but that the key is queued.
`ManifestInv` adds to `MatchesManifest` that no field keeps a value without an
owner, so that what an apply gives up is gone or the outsider's, and that an object
is in step only with a CR whose finalizer was added before. That no edit is lost
(`EditReachesTarget`) is shown by naming for each option and builder a field that
only this option puts into the manifest.

Only model-checked: the liveness properties (`Converges`, `Recovers`, `AllServed`,
`ReportsReady`, `ComesToRest`), since the prover has no rule here for fairness.

## Assumptions about the environment

- The API server checks resourceVersions, removes an object with its last
  finalizer and implements Server-Side Apply as documented.
- The cache of a kind moves forward only; after a restart it is listed afresh.
- Nobody removes the operator's finalizer by hand, and nobody else creates
  objects under the names the operator uses.
- Reconciler has one process at a time. Manager shows this of processes whose timers
  are punctual; a process that is frozen and wakes up past its deadline can send at
  most what Handover calls a late request.
- The age of a status in StatusMirror does not count the time calls take, the time a
  key waits for a worker that is busy with other CRs, and the time no operator runs.
- The manager runs with `--leader-elect`, as `config/manager/manager.yaml` has it.
- Reads from the cache do not fail.

## Not modelled

`resourceListJSON` passes on cpu and memory only, although a CR's `resources` may
name others: Manifest has such an option, and `EditReachesTarget` excepts it.

Generated code (`zz_generated.deepcopy.go`), the scaffolding of `cmd/main.go`
(flags, TLS options, metrics and webhook servers), the Kustomize files and the
tests. Phase and message texts. Validation markers. An uninstalled vendor CRD: the
no-match error of its deletes is not taken for not-found (reconciler.go:276, 329),
and a CR being deleted then waits for the CRD to come back; the liveness properties
assume that calls do not fail for ever. The protocol of the lease itself (its
resourceVersion, observed times), which is client-go's. The clash of the
`<name>-external` Service of the Valkey adapter with the one CNPG creates is the
same code as the shared Ingress, and has no run of its own.
Mutating webhooks of the vendors, whose changes would be booked under the
operator's own name. Passwords, ports, selectors and other constant values in the
manifests. In all models a name stands for itself: that a CR called `foo-web`
could meet the Service of a CR called `foo` is left out.

## Plan

1. Done: the reconciler, its life cycle, status mirroring, manifests and naming;
   late requests, the manager and its lease, the defaults of `monitoring`,
   conditions with their transition times. Proved: every safety property the passing
   runs check, and the refinement.
2. What is left of the proofs is what `Recovers` rests on and can be said of single
   states: that with late requests too no CR is forgotten (`NeverForgotten` in
   Handover).
