# A TLA+ model of cosmos-operator

cosmos-operator is a Kubernetes operator that runs Cosmos SDK full nodes. This
directory models its control logic in TLA+, checks the models with TLC on small
instances and proves the most important safety properties with TLAPS for every
value of the constants. `PROJECT.json` lists components, runs, mutants, the map
from definitions to source lines, findings, hazards and theorems.

## The system

One process runs several controllers of controller-runtime. Each has a
`Reconcile` that is called for an object after watch events, after
`RequeueAfter` and after errors, never twice at a time for one object, but
concurrently with the other controllers. All of them

- read through **informer caches**, which lag behind the API server, each on
  its own;
- write to the API server, which refuses an update based on an old version
  (conflict); creates and deletes are not protected that way;
- keep their progress in the `status` of their object, so that a crash or a
  lost write between a side effect and the status write repeats the step.

| Component | State | Operations | Interacts with |
|---|---|---|---|
| StuckHeightRecovery controller (`controllers/stuckheightrecovery_controller.go`, `internal/stuckheight`) | phase, attempts and window, last height and its time, stuck pod, snapshot, recovery pod | one handler per phase; height monitor, rate limiter, snapshot and recovery pod creation | heights in the CosmosFullNode's status, node pods, VolumeSnapshots, its own recovery pods |
| Pod rollout (`internal/fullnode/pod_control.go`, `internal/kube/rollout.go`, `internal/diff`, `internal/fullnode/status.go`) | none of its own: pods and the status map of one Reconcile | diff, create, delete, update within `maxUnavailable` | status cache, snapshot candidates, `Invalidate` |
| Status cache (`internal/cosmos`) | one entry per CosmosFullNode: slice of statuses, a goroutine's cancel function | start, poll, stop, `Collect`, `SyncedPods`, `Invalidate` | read by three controllers |
| ScheduledVolumeSnapshot controller (`controllers/scheduledvolumesnapshot_controller.go`, `internal/volsnapshot`) | phase, candidate, last snapshot | one case per phase | signals through `status.scheduledSnapshotStatus` of the CosmosFullNode; `SyncedPods` |
| Version upgrades (`cmd/versioncheck.go`, pod and config map builders) | `status.height` | report a height, choose an image and a halt height, refuse to start | CosmosFullNode status, config maps, pods |
| StatefulJob controller (`controllers/statefuljob_controller.go`, `internal/statefuljob`) | job history | create claim and job per interval, delete old ones | VolumeSnapshots, Jobs, PVCs |
| PVC control and auto scaling (`internal/fullnode/pvc_*.go`) | requested sizes in `status.selfHealing` | create, resize, keep or delete claims | self healing, disk usage sidecar |
| Self healing (`controllers/selfhealing_controller.go`) | none | delete pods that lag in height, request bigger claims | status cache, pods of the rollout, PVC control |
| Other resource controls: services, node keys, config maps, RBAC (`internal/fullnode/*_control.go`) | none | diff, create, update, delete | peers, pods, phase of the CosmosFullNode |
| Peer collection (`internal/fullnode/peer_collector.go`) | none | collect keys and addresses | services, secrets, config maps |
| StatusClient (`internal/fullnode/status_client.go`) | a semaphore per CosmosFullNode | `SyncUpdate` | every writer of a CosmosFullNode's status |
| Builders, healthcheck, CometBFT client, CLI | none | formatting, I/O | |

What is hard here: acting on stale reads; side effects before a status write
that may be lost; deleting pods by name from an old list; two controllers that
agree through a third object, or write one status over each other; processes
inside the pods that write that status too; goroutines that outlive their cache
entry; Go slices shared between cache and readers; budgets, sizes and windows at
their limits; and that the operator must always get on.

What makes the components correct:

- *StuckHeightRecovery*: no recovery script touches a node's data without a
  snapshot taken for that attempt (if one is asked for) or outside the rate
  limit; a stuck node does get its script. That a node is only called stuck when
  it is should hold too, and does not (Disagreements).
- *Rollout*: no more than `maxUnavailable` of the pods known to be in sync go
  down for an update; a pod
  that is already right is not deleted; every change gets rolled out.
- *Status cache*: one goroutine per entry; what a reader was handed is not
  changed under it; no pod is counted twice (which does not hold).
- *ScheduledVolumeSnapshot*: no pod uses the volume from the snapshot's creation
  until the controller takes it for ready (which may be too early, Disagreements);
  a pod taken down comes back.
- *Version upgrades*: a node is only started with the version that belongs to
  its data, and gets past every upgrade.
- *StatefulJob*: the history is in order and its entries an interval apart; no
  job runs on the claim of an earlier one; a job that is due runs. A job may
  lose its claim before its pod has started (Disagreements).
- *Claims*: data is not lost unless released; full volumes grow, up to the
  maximum; what is released goes; an instance that is wanted is served.
- *Other resources*: a node keeps its identity and its address; every spec is
  reached and reported as complete.

## Modules

| Module | Models |
|---|---|
| `StuckHeightRecovery` | the controller with all its helpers |
| `Rollout` | `ComputeRollout`, used by the next module and by `VersionUpgrade` |
| `PodRollout` | the CosmosFullNode Reconcile as far as pods are concerned, beside drift mitigation of the SelfHealing controller |
| `StatusCache` | the cache controller, its goroutines and readers, with a heap of arrays |
| `SnapshotHold` | abstract: what taking a pod down for a snapshot promises |
| `ScheduledVolumeSnapshot` | the snapshot controller composed with the CosmosFullNode controller's pod handling; implements `SnapshotHold` |
| `ChainUpgrade` | abstract: what upgrades of a chain promise |
| `VersionUpgrade` | controller, init containers, sidecar and node at an upgrade; implements `ChainUpgrade` |
| `StatefulJob` | the controller, its job and its claim |
| `VolumeClaims` | PVC control composed with auto scaling |
| `FullNodeResources` | one Reconcile over services, node keys, peers, config maps, RBAC, pods and the phase |
| `MC*` | what TLC needs: symmetry, sequences and sets as constants, the view of `StatusCache` |
| `*_proofs` | theorems about the module of that name |

**Operators named as mutants** (comment "Mutant: ...") are deliberately wrong
variants of the definition that follows them. They take no part in any
specification; each property is checked to fail when the definition is replaced
by its mutant.

### StuckHeightRecovery

`status` is the object at the API server, `cachedStatus` the informer's copy,
`behind` says that they are different versions. An action is a whole `Reconcile`
call in one phase (`HandleMonitoringChanged` ... `HandleRateLimited`), guarded
by the *cached* phase; it ends in `StatusUpdate`, which either writes or, when
behind or while the API server fails, does not. A failing call may have had its
effect. `handleMonitoring` is split by what the height monitor finds: a changed
height (which writes twice: the reset of the rate limiter and the new height),
the same height, an error. `height` and `fullNode` are what the informer shows
of the CosmosFullNode, so that their actions are reports that arrive, late or
not; nothing here depends on what the object has by then. Heights change to any
other height, also to a lower one or to none, as version-check writes what the
database has (`HeightReported`). Snapshots are named by pod and time as in
`SnapshotCreator`, recovery pods by the node pod, and are in the cluster whether
or not the status names them. `attemptLog`, the attempts since the height last
changed, is history.

Abstracted: durations are ticks of one clock; the recovery pod is its phase;
events and messages are left out. `NoHeight` is the height 0, which the code
treats as an error.

### PodRollout

`state` and `template` are the pods; `seenState`, `seenTemplate` the informer's
list, taken at one moment (watch events are ordered); `polled` is the status
cache. `Collect` takes `crd` and `syncInfo`; later `PodControl` lists the pods,
first scales and only if there is nothing to scale updates: pods that are not
reachable and await an image change are deleted outside the budget, the others
within `ComputeRollout`. A failing call ends the round part way; a pod without
an entry in `syncInfo` makes it panic, which restarts the operator with an empty
status cache. `MitigateHeightDrift` is the SelfHealing controller deleting pods
that lag behind, with a budget of its own, at any moment of the other's
Reconcile; how far a pod lags is an input. Spec edits change replicas, template
and excluded instances (disabled, or held down for a snapshot); pods fail, start
and catch up. Both the informer and the status cache always lag. `upAtCollect`,
the pods that were in sync when the status was collected, is history.

### StatusCache

A `StatusCollection` is a cell of `heap` and a length, so that `IntersectPods`
compacts the array that the cache and other readers hold. An entry lives and
dies (`ReconcileExisting`, `Del`, the goroutine's deferred `Del`, which goes by
the key) while readers list pods, intersect and upsert in separate steps, and
`Invalidate` reads and writes back the slice.

### ScheduledVolumeSnapshot

As in StuckHeightRecovery an action is one `Reconcile` in one phase, on the
cached object after `ResetStatus`; the deferred status write may fail and is
then only logged. The CosmosFullNode's part is in two steps: `FullNodeGet` reads
the signal, `FullNodePods` creates missing pods and deletes the candidate. Four
informers lag independently. A VolumeSnapshot is named after its minute, `snapshots` is
indexed by it. Cron schedules are an `Interval`.

`SnapshotHold` has the pod held down, the pods that use their volumes, and a
stage: idle, holding, taking, taken. A pod is held while none is, stops, a
snapshot of its volume is created when it is down, it is released when that counts
as taken, and only pods that are not held start. The mapping takes `signalled`, the pods that are
not absent, and the stage from the phase at the API server.

### ChainUpgrade and VersionUpgrade

`ChainUpgrade` has, for each node, the height of its data, the version it was
started with and whether it is up. A node starts only with the version that
belongs to the height of its data, executes blocks one by one while it is up,
goes down and comes up again as it was, stops, and has its data replaced only
while it is stopped. Coming up again (`Restart`) asks nothing of the version: the
kubelet restarts a container without version-check, and a node that went down
behind its halt height may come up with the old version, which will not get on.

In `VersionUpgrade`, `Collect`, `ReconcileConfigMaps`, `ReconcilePods` and
`UpdateStatus` are the steps of the controller's Reconcile between which others
act; they use the height read at the beginning (`crdHeight`). A pod runs its init
containers in their order (`ConfigMerge`, `SnapshotRestore`, `VersionCheckGet`,
`VersionCheck`) and then the node and the sidecar (`VersionCheckDaemon`).
`status.height` is written by the controller, to the committed height plus one,
and by version-check, to the committed height. A checksum is the halt height it
was computed for. `FindVersion` and `CheckedImage` are two translations of two
pieces of code, one scanning all versions, one stopping at the first that is too
high; nothing in the operator validates the order of the list (`InOrder`).
`StopsBefore` chooses between the two ways a binary stops: after its halt
height, or before the block of the upgrade.

The refinement maps `height` to `db`, `running` to the image of a pod that is
running or down, and `up` to whether it is running.

### StatefulJob

`Reconcile` is a disjunction by the early returns: a missing CRD (until the
process is started anew, `InstallCRDs`), an active job, no snapshot,
not yet due, a claim in the way, and so on, each with the status write at the
end, which can fail or be refused. `seenJob` and `seenHistory` are the informers'
copies. A history entry is its start time, 0 for nil. Dereferencing a nil start
time takes the process down (`StartTimeMissing`). A Create that fails may have
taken effect, of the claim or of the job (`CreateFails`); then there is a job
that is not recorded. `used`, whether a pod has run on the claim, is history.

### VolumeClaims

The CosmosFullNode's Reconcile reads the object (`crd`), deals with the claims
and writes the status back with the requests of removed claims taken out; the
SelfHealing's Reconcile collects disk usage (`heal`) and then requests sizes.
Both touch `requested`. Claims have a phase, a requested size, a capacity and
the snapshot they were restored from, and disappear only once no pod uses them.
Sizes are integers; 2% and the percentage of the increase are computed as in the
code, rounding included. `Absent` is a claim without an entry among requests or
results, which differs from an entry of 0: a claim that the informer does not show
has the capacity 0 in the result of disk usage, and may get a request for 0 if
another pod answered without an error. `releasable` is history.

### FullNodeResources

`GetCosmosFullNode` reads the object through the informer, and the steps after it
use what it read (`crd`), whatever becomes of the object. Then
one action per control, in the order of Reconcile, each of which may fail with
part of its effect and leave `failed`. Peers are collected from what the
informers show. A config is the set of (instance, node key) it names and
whether it has the external address; a checksum is the config itself. A key is a
number that is new each time one is generated. Updates of pods are without a
budget here, that is `PodRollout`'s.

## Runs

Bounds are constants of the modules and set in the `.cfg` files. Deadlock is
not checked: every model stops where its clock, heights and disturbances end.

| Run | Instance | Shows |
|---|---|---|
| `stuck_safety` | 1 pod, 2 heights and none, 3 ticks, window 2, 2 retries, faults, deletions | attempts are counted exactly (`CounterMatchesLog`), fewer than 2 maxRetries in any stretch of a window's length (`SlidingRate`), no script without a counted attempt (`ScriptIsCounted`) or without a ready snapshot taken for this attempt (`SnapshotBeforeScript`) |
| `stuck_live` | 1 pod, 1 height and none, 2 ticks, faults, deletions | a stuck node gets its script (`StuckNodeGetsScript`); a recovery pod that has finished is noticed unless it is deleted (`RecoveryConcludes`) |
| `rollout_live` | 2 replicas, 50 %, 2 disturbances (edits, failures, restarts), faults, lag, drift mitigation | the list is a sound past state, no replacement is deleted, a round costs no more than the budget and what its status was wrong about (`DisruptionBound`), every change is rolled out |
| `cache` | 2 pods, 1 reader, 2 goroutine names, recreation, invalidation | exactly the entry's goroutine runs; nobody but a reader changes what a reader holds (`ResultStable`) |
| `cache_readers` | the same with 2 readers | the disagreement below: a pod is counted twice |
| `snapshot_cycle` | 2 pods, 2 cycles, limit 1, faults | the cycle implements `SnapshotHold`: one pod at a time, its volume unused from the snapshot's creation until the controller takes it for ready; the pod is not forgotten and returns |
| `snapshot_suspend` | 1 pod, 1 cycle, 2 disturbances, churn, deletion, missing CRDs, faults | while suspended nothing stays held down |
| `upgrade` | 1 pod, upgrades at 2 and 3, snapshot at 1, faults, 1 lost volume | `VersionUpgrade` implements `ChainUpgrade`; the node gets past both upgrades |
| `upgrade_plan` | 1 pod, 1 upgrade, nothing fails | the disagreement below: the node never gets past it |
| `job` | interval 2, history 3, 7 ticks, lag, faults, a CRD missing at first | order and spacing of the history, no claim used twice, a due job runs |
| `storage` | 1 instance that comes and goes, both policies, sizes 100 to 170 in steps of 50 %, lag, faults, 3 disturbances | sizes are bounded, data is kept, released claims go, instances are served, full volumes grow |
| `resources` | 2 instances, scaled to 1 or 0 or without a public address, lag, 1 disturbance | keys and addresses are kept; every spec is reached |

Why the bounds are enough.

- *stuck*: 3 ticks hold two windows of length 2 with a full set of attempts in
  each, so the worst case of a fixed window happens. The height changes at any
  moment, back to an earlier one too, so an attempt that failed leaves its
  snapshot and its recovery pod behind for one at another height and for a
  second one at the same height. What a height is makes no difference, only
  whether it is the remembered one, so the run takes heights as symmetric, and
  its `VIEW Meaning` leaves out what no later step can depend on. Both
  runs have `createVolumeSnapshot`; without it the snapshot phases are skipped,
  which the theorems cover.
- *rollout*: two disturbances give an update that another edit, failure or
  restart overtakes; with 2 replicas and a budget of 1 a round that takes one pod
  too many leaves none.
- *cache*: two names are a running goroutine and one that is still finishing.
  The heap has a cell for each slice anyone can hold, and cells are reused: TLC
  tells states apart by `VIEW Meaning`, which names the contents each slice has,
  what lies behind it in its array and which slices share the array. The number
  of a cell, and an array nobody holds, make no difference to any step.
- *snapshot*: two pods with `minAvailable` 2 allow exactly one pod down, and two
  cycles with limit 1 delete an old snapshot. The cycle runs without `Churn`, as
  the implementation of `SnapshotHold` fails with it.
- *upgrade*: two upgrades at adjacent heights are the hardest distance: the
  height after the first is the halt height of the second. The lost volume comes
  back from a snapshot before both or empty. Pods meet only in the budget.
- *job*: 7 ticks with an interval of 2 give a fourth job, so that an entry leaves
  the history of size 3 while a job that nobody recorded comes in between.
- *storage*: 100, 150, 170 (the cap, with 2% 173) are all the cases of a size.
  With one instance nothing of another one gets in the way: that a terminating
  pod or an unbound claim holds up the claims of others, and that a claim that is
  not shown gets a request for 0 beside another pod's answer, is in the model and
  not in this run, whose liveness properties take too long with two. `SizeBounded`
  and `DataKept` are theorems for every N.
- *resources*: two instances name each other as peers, and one disturbance is an
  edit, a failed call or a restart at any point of the first rollout. Scaling down
  *and up again* takes two, which is left to the theorem `AddressIsKept`.

### Fairness

Weak fairness of: every controller's Reconcile (controller-runtime requeues
after errors and `RequeueAfter`; informers resync), informer delivery, the poll
loop, the clock, pods, jobs, claims and load balancers getting on, the CSI
driver finishing, the CRDs that ScheduledVolumeSnapshot misses being installed,
and the API server healing once and for all. The recovery script need not finish,
and the CRDs that StatefulJob misses need not come (`DueJobRuns` asks nothing
without them). Users, node failures and, but for upgrades, chain heights owe nothing.
`HorizonReached` and `OutOfNames` except behaviours that stop only because the
model's clock does.

`VersionUpgrade` has strong fairness for two steps. A node at its halt height
goes down and is restarted by the kubelet again and again; the sidecar ticks on
a timer of its own and some tick meets it while it is down and the database
unlocked (`VersionCheckDaemon`). And a node that the controller stops and starts
again and again executes a block before it is stopped for ever
(`NodeCommits`): an interval between two Reconciles is longer than a block. The
counterexample of `upgrade_plan` does not depend on this: it exists under the
same fairness.

## Proofs

TLAPS checks them for every set of pods, templates, versions, sizes, durations,
limits and bounds that satisfies `ConstantsAssumption`.

**StuckHeightRecovery_proofs.** `TypeOK /\ Coherent` is inductive. `Coherent` is
needed because a handler acts on the cached status: it says that every version a
Reconcile may still read, current or cached, is backed by the cluster
(`AttemptCoherent`: the height was stuck long enough, the attempt is counted,
the named snapshot is this pod's, and ready once the script may run), and that
while the cache shows an attempt the API server agrees on the attempt's record.
The second part holds as a write is refused when the cache is behind, so the
controller is never more than one write ahead. What backs a version only grows
(`AttemptCoherentStable`). From it follow `StatusCoherent` and `ScriptCounted`, as
scripts start in `handleRunningRecovery` alone. `SnapshotPrecedesScript` needs
`Fresh` besides: the snapshot that a version in the middle of an attempt names is
not older than any attempt on record (`AttemptFresh`), as only
`handleCreatingSnapshot` names one, after the attempt was recorded, and a change
of height, which clears the record, is only seen between two attempts.
`RateInv == WindowHistory /\ CounterMatchesLog /\ SlidingRate` is inductive on
top of that. The rate limiter starts a new window only after the old one is
over, so a stretch as long as a window meets at most two of them, and of the
first one only what is left: `WindowHistory` bounds the attempts before the
window by the limit, for every stretch that reaches into it. The attempts of a
stretch are a set of pairs (`Attempts`), so that sums are cardinalities and need
no induction. `AttemptsAreCounted` and `RateIsBounded` assume
`RateLimitWindow > 0`: a window of length zero is over at once, and the counter
starts again with every attempt.

**PodRollout_proofs.** `TypeOK /\ InformerSound` is inductive
(`RolloutInvariant`). `InformerSound` holds as pods are created only where the
list shows none: whatever a stale list shows has no successor.
`InformerIsSound` states it by itself.
`ReplacementIsKept` follows: deleting by name can not hit another pod than the
one listed. `DisruptionIsBounded` has no assumption on informers or polls. It
charges the round for what it decided on: a pod that the status calls in sync is
reachable, so only the batch takes it (`OnlyRoundsKill`), and the batch leaves the
minimum of such pods (`ComputeRolloutKeepsMinimum`, arithmetic); of those left,
the ones that were not really in sync are counted apart.

**StatusCache_proofs.** `TypeOK` is inductive. It says that no slice is longer
than its array, which needs that readers never shorten an array they share
(`Overwrite`) and that allocation finds a cell (`FreeCellIsFree`, by counting).
`Sorted` is defined by rank, and `SortedCovers` shows by counting that it loses
and repeats nothing; what a poll stores (`PollCovers`), compaction keeps
(`CompactionKeeps`) and upserting adds (`UpsertPodsEffect`) are lemmas of each
step. `OneCollectorPerEntry` is inductive with the types.
`OnlyReadersOverwrite` (`ResultStable`): whatever is not a reader writes to new
arrays only, so two readers, or one that reads twice, are all it takes to spoil a
result, and nothing else can.

**ScheduledVolumeSnapshot_proofs.** `CycleInv`, on top of `TypeOK`: optimistic
locking keeps the object at most one write ahead of the cached one, with the
candidate and the snapshot changing only where one is chosen or created
(`OneAhead`); the signal, the pod, the pod informer's list and what the
CosmosFullNode's Reconcile has read follow the phase in this order
(`SignalMatchesPhase`: the signalled pod is not yet going, going or down); every
other pod is free, that is, nothing on its way will delete it. The last part is
needed as a Reconcile that read an old signal may still act on it. `NoPodForgotten`,
`PodHeldUntilReady` and `SnapshotIsQuiet` follow. They assume `~Churn` and
`[]Active` (nobody suspends); below are the behaviours of the code in which
each fails otherwise. Failing calls, refused writes, a missing CRD and the deletion of the
object are not excluded, nor is `deletePod: false`.
`HoldRefinement` goes by the steps: a Reconcile that leaves the signal alone
(`HoldGoesOn`), one that sets or removes it (`HoldSignals`), and what happens to
pods (`HoldPods`). `EnoughPodsStay` is about `minAvailable`, whose comment in
`scheduledvolumesnapshot_types.go` warns of downtime only for 1: with the
candidate, in sync or not, there are always `minAvailable` pods
(`EnoughWithCandidate`), since a candidate is chosen only when nothing is
signalled, where the informer's pods in sync are in sync, and a pod in sync
leaves only under the signal. Pods are counted as a set here; the duplicates that
the status cache can hand out (`SyncedPodsDistinct` below) would undercut it.

**VersionUpgrade_proofs.** `ImagesAgree`: where the versions that are due at a
height come first in the list and in ascending order (`InOrder`), the controller's
search and version-check's loop give the same image, the one `ChainUpgrade` asks
for; in any list the loop's version is never above the controller's. It needs that
the loop's result exists, which takes the largest element of a finite set of
numbers. `UpgradeTypes` is inductive on its own. `UpgradeRefinement` assumes
`OrderedVersions` (`InOrder` at every height) and goes by the steps:
`VersionCheck` alone starts a node, after the database was restored; the kubelet
restarts the node that went down; the controller only stops nodes; what changes
data needs the node absent or is the next block.

**StatefulJob_proofs.** `Basics /\ Spaced(history) /\ Older /\ Untouched`. The
history stays sorted and spaced only because the informer's copy, the job that
exists and the one the informer shows are an interval later than the second entry
(`Older`), as start times are recorded late: a record that comes late replaces the
head, never joins it. `HistoryIsSorted` and `HistoryIsSpaced` follow.
`Untouched` is `ClaimIsUsedOnce`: a claim is deleted before the next is created,
and a Create is refused while it is still there.

**VolumeClaims_proofs.** `Types /\ Sizes /\ Releases`. `Sizes` bounds everything
a size is computed from, the capacities and the requests with their copies.
`Releases`: what the spec, or the copy that Reconcile works on, releases has been
released by some spec since; hence `DataIsKept`, however stale the lists are.

**FullNodeResources_proofs.** `Types /\ Keys`. `Keys`: whatever names a key, seen,
collected, in a config or in a pod, names the one in the secret, which holds as a
create does not replace. `AddressIsKept` looks at the one action that touches
the type of a service, and goes by the spec that Reconcile has read, however old.

**Only model-checked**: all liveness properties (`RecoveryConcludes`,
`StuckNodeGetsScript`, `RolloutCompletes`, `HeldPodReturns`, `SuspendRestores`,
`Upgraded`, `DueJobRuns`, `Released`, `Served`, `Grows`, `Converges`): fairness
and ENABLED are out of this prover's reach. Every invariant and every action
property of the passing runs is a theorem, some under the assumptions named
above.

## Disagreements met while modelling

With a run:

- `upgrade_plan`: a chain whose old binary stops *before* the block of the
  upgrade, as upgrade plans of the Cosmos SDK do.
  The controller asks for the image of the committed height plus one,
  version-check for the image of the committed height; each undoes what the
  other did and the node never gets past the upgrade.

- `cache_readers`: `IntersectPods` compacts in place the array that `Collect` has
  from the cache, whose slice keeps its length, so that one pod's item is in it
  twice. After a pod has gone, and until the next poll, `SyncedPods` counts one pod
  for two, and `FindCandidate` takes a pod down with fewer than `minAvailable` in
  sync. Two readers are not even needed: it happens to one that reads twice.

With the modules at hand (add the property to the configuration, or change the
constant):

- `RetryRunsScript` in `MCStuckHeight_safety.cfg` fails: the recovery pod has a
  fixed name and nobody deletes it, so a second attempt that the limit allows
  ends with AlreadyExists;
- `Churn = TRUE` and `MaxDisturbances = 1` in `MCSnapshot_cycle.cfg` violate
  `ImplementsSnapshotHold` and `QuietSnapshot`: a pod that
  something else deleted is taken for held down; a CosmosFullNode Reconcile that
  read the object before the signal recreates it, and the snapshot is taken
  while it runs, although
  `api/v1alpha1/scheduledvolumesnapshot_types.go:67` says of `deletePod` "This
  option prevents writes to the PVC". With `Churn = FALSE` and
  `MaxDisturbances = 2` `QuietSnapshot`
  fails as well: suspending removes the signal, but the write of the phase is
  refused or fails; after resuming, the controller goes on in the old phase and
  takes the snapshot of the pod it has restored.

From the exceptions that properties make:

- `DueJobRuns` excepts a history whose newest entry has no start time: the
  controller dereferences it and the operator panics, again after every restart
  (`internal/statefuljob/schedule.go`);
- `HistorySpaced` is about the recorded starts, not about the jobs: after a lost
  status write, or a Create that took effect though it failed, the interval is
  counted from the job before, and two jobs may follow each other at once;
- `RecoveryConcludes` excepts a recovery pod that somebody deletes:
  `CheckPodComplete` fails from then on and the controller waits for ever, as it
  does for a script that does not finish;
- `Grows` excepts claims for which a newer snapshot exists: the claim found by
  the diff then differs in its data source, and the resize is left out. That the
  claim is then recreated, as two comments say (`pvc_control.go:20` "will update
  volumes by deleting and recreating volumes", `:67` "need to recreate PVC"),
  does not happen either: `DataKept` holds because it does not;
- `SizeBounded` allows 2% more than `maxSize`, which
  `api/v1/self_healing_types.go:54` calls a safeguard against quotas;
- `Upgraded` excepts a node that was built while the config maps could not be
  written, halts at an earlier height and has no budget to be replaced;
- `RolloutCompletes` excepts as many excluded instances as `maxUnavailable`:
  they block all updates.

From reading:

- drift mitigation has a budget of its own, computed from its own look at the
  cache: `DisruptionBound` is about the deletions of the rollout, and together
  the two controllers may exceed `maxUnavailable`;
- pods without an answer in the status cache count as unreachable and are upgraded
  outside the budget: after a restart no status is known, and an image change
  deletes all pods at once. `DisruptionBound`, about pods that the status calls in
  sync, permits it. With a stale list or status a second round may also start
  before the first one shows, which costs the pods that the status is wrong about;
- `CheckStuckHeight` compares the height of whichever pod the map yields first
  with the one remembered height, so with several pods the verdict is about none of
  them. With one pod, too, `status.height` goes from the block in consensus to the
  committed one and back as the controller and version-check write it in turn, so a
  height may look changed when it is not, or unchanged over a change that was not
  seen. No property says that the verdict is right;
- the snapshot controller reads VolumeSnapshots from its cache, and one that is not
  found counts as ready (`internal/volsnapshot/scheduler.go:63`): the pod may be
  restored before the snapshot that was just created is taken;
- StatefulJob finds the active job in a list from its cache. If that does not show
  the job it has just created, `deletePVCs` deletes the job's claim
  (`controllers/statefuljob_controller.go:128`), and the pod waits for a claim that
  nobody makes again;
- the order of `chain.versions` is not validated. For a list that is not in order
  the controller wants the version with the highest height that is due,
  version-check the last one before the first that is not due, and the two may
  disagree for ever;
- `CURRENT_HEIGHT` of the recovery script is the height seen before the verdict
  (`docs/stuck_height_recovery.md` says current height);
- StuckHeightRecovery never leaves the phase Suspended after resuming, as its
  switch has no such case; ScheduledVolumeSnapshot likewise never leaves
  MissingCRDs;
- `Invalidate` assigns to copies and removes nothing;
- deleting a ScheduledVolumeSnapshot in the middle of a cycle leaves its pod
  down: nothing removes the signal;
- StatefulJob sets the owner reference after the create
  (`internal/statefuljob/create.go:45-48`), so it is never stored;
- `configmap_control.go:32` says that config maps are never deleted; `:63`
  deletes them;
- version-check knows only the images of `chain.versions` and the template, not
  an instance's override.

## Not modelled, and the plan

In this order:

1. An **abstract specification** of a rolling update for PodRollout.
2. Two ScheduledVolumeSnapshots of one CosmosFullNode, which each count the
   in-sync pods before either has deleted one.

Left out for good: the formatting of Kubernetes objects and configuration text
(genesis, address book, snapshot download scripts), the healthcheck sidecar and
the CometBFT client (stateless I/O), process set-up, declarations and generated
code. `Close` of the status cache runs at process exit only. The semaphore of
`StatusClient` orders the writers of one process, which the models do by taking
each read and write as one step where the code holds it. The RPC service has no
state.
