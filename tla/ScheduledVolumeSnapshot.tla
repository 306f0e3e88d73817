----------------------- MODULE ScheduledVolumeSnapshot -----------------------
(***************************************************************************)
(* The ScheduledVolumeSnapshot controller together with the part of the    *)
(* CosmosFullNode controller it relies on, for one object of each kind.    *)
(*                                                                         *)
(* On its schedule the controller picks a pod that is in sync, writes its  *)
(* name into the CosmosFullNode's status.scheduledSnapshotStatus, waits    *)
(* until the CosmosFullNode controller has deleted the pod, creates a      *)
(* VolumeSnapshot of the pod's PVC, waits until it is ready and removes    *)
(* the name again, upon which the pod is created anew.                     *)
(*                                                                         *)
(* Both controllers read through informers: one each for the two objects,  *)
(* for pods and for VolumeSnapshots, which lag independently.  Writes are  *)
(* refused when they are based on an old version.  A failed status write   *)
(* is only logged.                                                         *)
(***************************************************************************)
EXTENDS Naturals, FiniteSets

CONSTANTS
    Pods,          \* pods of the CosmosFullNode
    NoPod,         \* no candidate
    Idle,          \* the CosmosFullNode controller is not in its Reconcile
    NoTime,        \* a zero or nil time
    MinAvailable,  \* spec.minAvailable
    Ordinal,       \* the pod of spec.fullNodeRef.ordinal, or NoPod
    DeletePod,     \* spec.deletePod
    Limit,         \* spec.limit
    Interval,      \* minutes between two times of spec.schedule
    Churn,         \* TRUE: pods are deleted for other reasons as well
    Deletable,     \* TRUE: a user may delete the ScheduledVolumeSnapshot
    CRDsMissing,   \* TRUE: at first the VolumeSnapshot CRDs are not installed
    Faulty,        \* TRUE: API calls may fail until the server heals
    MaxDisturbances, \* bound on edits of spec.suspend and pod disruptions
    MaxTime        \* bound on the clock

ASSUME ConstantsAssumption ==
    /\ IsFiniteSet(Pods)
    /\ NoPod \notin Pods
    /\ Idle \notin Pods /\ Idle # NoPod
    /\ NoTime \notin Nat
    /\ MinAvailable \in Nat \ {0}
    /\ Ordinal \in Pods \cup {NoPod}
    /\ Limit \in Nat \ {0}
    /\ Interval \in Nat \ {0}
    /\ {DeletePod, Churn, Deletable, CRDsMissing, Faulty} \subseteq BOOLEAN
    /\ MaxDisturbances \in Nat
    /\ MaxTime \in Nat

VARIABLES
    svs,           \* the ScheduledVolumeSnapshot at the API server
    cachedSvs,     \* what its informer holds
    svsBehind,     \* ... and that this is not the current version
    svsDeleted,    \* it has been deleted
    missingCRDs,   \* missingVolSnapshotCRD of the running operator
    signalled,     \* the PodCandidate in the CosmosFullNode's status
    cachedSignal,  \* what the CosmosFullNode's informer holds of it
    fnBehind,      \* ... and that this is not the current version
    fnSignal,      \* the PodCandidate the CosmosFullNode's Reconcile has read
    pods,          \* state of the pods
    seenPods,      \* what the pod informer holds
    snapshots,     \* state of the VolumeSnapshot named after each minute
    seenSnapshots, \* what the VolumeSnapshot informer holds
    apiHealthy,    \* API calls no longer fail
    now,           \* the clock, in minutes
    disturbances   \* edits of spec.suspend and pod disruptions so far

svsVars == <<svs, cachedSvs, svsBehind, svsDeleted>>
fnVars == <<signalled, cachedSignal, fnBehind>>
podVars == <<pods, seenPods>>
snapshotVars == <<snapshots, seenSnapshots>>
worldVars == <<missingCRDs, apiHealthy, now, disturbances>>
vars == <<svsVars, fnVars, fnSignal, podVars, snapshotVars, worldVars>>

Time == 0..MaxTime

PodState == {"absent", "starting", "synced", "terminating"}

(* Without a status.creationTime, with one, and ready to use.              *)
SnapshotState == {"none", "pending", "taken", "ready"}

(* "Started" stands for the phase "" of a new object.                      *)
Phase == {"Started", "WaitingForNext", "FindingCandidate", "DeletingPod",
          "WaitingForPodDeletion", "CreatingSnapshot",
          "WaitingForSnapshotCreation", "RestoringPod", "Suspended",
          "MissingCRDs"}

(* LastSnapshot is named after the minute of its StartedAt.                *)
Object == [suspend: BOOLEAN,
           phase: Phase,
           createdAt: Time \cup {NoTime},
           candidate: Pods \cup {NoPod},
           lastSnapshot: Time \cup {NoTime}]

Init ==
    /\ svs = [suspend |-> FALSE, phase |-> "Started", createdAt |-> NoTime,
              candidate |-> NoPod, lastSnapshot |-> NoTime]
    /\ cachedSvs = svs
    /\ svsBehind = FALSE
    /\ svsDeleted = FALSE
    /\ missingCRDs = CRDsMissing
    /\ signalled = NoPod
    /\ cachedSignal = NoPod
    /\ fnBehind = FALSE
    /\ fnSignal = Idle
    /\ pods = [p \in Pods |-> "synced"]
    /\ seenPods = pods
    /\ snapshots = [t \in Time |-> "none"]
    /\ seenSnapshots = snapshots
    /\ apiHealthy = ~Faulty
    /\ now = 0
    /\ disturbances = 0

-----------------------------------------------------------------------------
(***************************************************************************)
(* What a Reconcile of the ScheduledVolumeSnapshot starts and ends with.   *)
(***************************************************************************)

(* Mutant: suspending takes effect at once.                                *)
ResetStatusAtOnce(s) ==
    [s EXCEPT !.createdAt = IF @ = NoTime THEN now ELSE @,
              !.phase = IF s.suspend THEN "Suspended"
                        ELSE IF @ \in {"Suspended", "Started"}
                             THEN "WaitingForNext" ELSE @]

(* Mutant: the time of the first snapshot is kept, not that of creation.   *)
ResetStatusFirstTime(s) ==
    [s EXCEPT !.createdAt = IF @ = NoTime THEN now + Interval ELSE @,
              !.phase = IF s.suspend THEN "RestoringPod"
                        ELSE IF @ \in {"Suspended", "Started"}
                             THEN "WaitingForNext" ELSE @]

(* Suspending restores the pod first; reactivating starts from the         *)
(* beginning.                                                              *)
ResetStatus(s) ==
    [s EXCEPT !.createdAt = IF @ = NoTime THEN now ELSE @,
              !.phase = IF s.suspend THEN "RestoringPod"
                        ELSE IF @ \in {"Suspended", "Started"}
                             THEN "WaitingForNext" ELSE @]

Crd == ResetStatus(cachedSvs)

Reconciling(phase) ==
    /\ svsDeleted => svsBehind
    /\ ~missingCRDs
    /\ Crd.phase = phase

(* The deferred Status().Update.  Refused or failed, it changes nothing.   *)
Written(s) ==
    /\ ~svsBehind
    /\ svs' = s
    /\ svsBehind' = (s # svs)
    /\ UNCHANGED <<cachedSvs, svsDeleted>>

NotWritten ==
    /\ svsBehind \/ ~apiHealthy
    /\ UNCHANGED svsVars

UpdateStatus(s) == Written(s) \/ NotWritten

SetPhase(s, phase) == [s EXCEPT !.phase = phase]

-----------------------------------------------------------------------------
(***************************************************************************)
(* The phases.                                                             *)
(***************************************************************************)
ReconcileMissingCRDs ==
    /\ svsDeleted => svsBehind
    /\ missingCRDs
    /\ UpdateStatus(SetPhase(Crd, "MissingCRDs"))
    /\ UNCHANGED <<fnVars, fnSignal, podVars, snapshotVars, worldVars>>

(* Snapshots with a creation time beyond the newest Limit ones.            *)
OldSnapshots ==
    LET created == {t \in Time : seenSnapshots[t] \in {"taken", "ready"}}
    IN  {t \in created : Cardinality({u \in created : u > t}) >= Limit}

(* Deleting goes on after an error.                                        *)
DeleteOldSnapshots ==
    \E old \in SUBSET OldSnapshots :
        /\ old = OldSnapshots \/ ~apiHealthy
        /\ snapshots' = [t \in Time |-> IF t \in old THEN "none"
                                        ELSE snapshots[t]]

(* CalcNext: the schedule counts from the last snapshot, if any.           *)
Due ==
    LET refDate == IF Crd.lastSnapshot = NoTime THEN Crd.createdAt
                   ELSE Crd.lastSnapshot
    IN  now >= refDate + Interval

WaitForNext ==
    /\ Reconciling("WaitingForNext")
    /\ DeleteOldSnapshots
    /\ UpdateStatus(IF Due THEN SetPhase(Crd, "FindingCandidate") ELSE Crd)
    /\ UNCHANGED <<fnVars, fnSignal, podVars, seenSnapshots, worldVars>>

(* Pods the status cache calls in sync and whose Ready condition is true.  *)
(* A terminating pod may still be among them.                              *)
SyncedPods ==
    LET sure == {p \in Pods : seenPods[p] = "synced"}
    IN  {sure \cup more : more \in SUBSET {p \in Pods :
                                              seenPods[p] = "terminating"}}

Candidates(synced) ==
    IF Cardinality(synced) < MinAvailable THEN {}
    ELSE IF Ordinal = NoPod THEN synced ELSE synced \cap {Ordinal}

FindCandidate ==
    /\ Reconciling("FindingCandidate")
    /\ \E synced \in SyncedPods :
          \/ Candidates(synced) = {} /\ UpdateStatus(Crd)
          \/ \E p \in Candidates(synced) :
                UpdateStatus([Crd EXCEPT !.candidate = p,
                                         !.phase = IF DeletePod
                                                   THEN "DeletingPod"
                                                   ELSE "CreatingSnapshot"])
    /\ UNCHANGED <<fnVars, fnSignal, podVars, snapshotVars, worldVars>>

(* StatusClient.SyncUpdate of the CosmosFullNode: it reads the cached      *)
(* object, so it is refused while that is old.  A failed call may still    *)
(* have reached the API server.                                            *)
Signal(p) ==
    /\ ~fnBehind
    /\ signalled' = p
    /\ fnBehind' = (signalled # p)
    /\ UNCHANGED cachedSignal

SignalFails(p) ==
    \/ (fnBehind \/ ~apiHealthy) /\ UNCHANGED fnVars
    \/ ~apiHealthy /\ Signal(p)

SignalPodDeletion ==
    /\ Reconciling("DeletingPod")
    /\ \/ Signal(Crd.candidate) /\ UpdateStatus(SetPhase(Crd, "WaitingForPodDeletion"))
       \/ SignalFails(Crd.candidate) /\ UpdateStatus(Crd)
    /\ UNCHANGED <<fnSignal, podVars, snapshotVars, worldVars>>

(* Mutant: a pod that is terminating counts as deleted.                    *)
ConfirmPodTerminating ==
    /\ Reconciling("WaitingForPodDeletion")
    /\ UpdateStatus(IF seenPods[Crd.candidate] \in {"absent", "terminating"}
                    THEN SetPhase(Crd, "CreatingSnapshot") ELSE Crd)
    /\ UNCHANGED <<fnVars, fnSignal, podVars, snapshotVars, worldVars>>

ConfirmPodDeletion ==
    /\ Reconciling("WaitingForPodDeletion")
    /\ UpdateStatus(IF seenPods[Crd.candidate] = "absent"
                    THEN SetPhase(Crd, "CreatingSnapshot") ELSE Crd)
    /\ UNCHANGED <<fnVars, fnSignal, podVars, snapshotVars, worldVars>>

(* The name is made of the current minute: a second snapshot within it is  *)
(* refused.                                                                *)
CreateSnapshot ==
    /\ Reconciling("CreatingSnapshot")
    /\ \/ /\ snapshots[now] = "none"
          /\ snapshots' = [snapshots EXCEPT ![now] = "pending"]
          /\ \/ UpdateStatus([Crd EXCEPT !.lastSnapshot = now,
                                         !.phase = "WaitingForSnapshotCreation"])
             \/ ~apiHealthy /\ UpdateStatus(Crd)
       \/ /\ snapshots[now] # "none" \/ ~apiHealthy
          /\ UpdateStatus(Crd)
          /\ UNCHANGED snapshots
    /\ UNCHANGED <<fnVars, fnSignal, podVars, seenSnapshots, worldVars>>

(* A snapshot that is not found counts as ready, also one that the         *)
(* informer does not show yet.                                             *)
IsSnapshotReady ==
    /\ Reconciling("WaitingForSnapshotCreation")
    /\ UpdateStatus(IF seenSnapshots[Crd.lastSnapshot] \in {"none", "ready"}
                    THEN SetPhase(Crd, "RestoringPod") ELSE Crd)
    /\ UNCHANGED <<fnVars, fnSignal, podVars, snapshotVars, worldVars>>

Restored == SetPhase(Crd, IF Crd.suspend THEN "Suspended" ELSE "WaitingForNext")

(* Mutant: the failure to signal is ignored.                               *)
RestorePodOnce ==
    /\ Reconciling("RestoringPod")
    /\ \/ cachedSignal = NoPod /\ UNCHANGED fnVars
       \/ cachedSignal # NoPod /\ Signal(NoPod)
       \/ cachedSignal # NoPod /\ SignalFails(NoPod)
    /\ UpdateStatus(Restored)
    /\ UNCHANGED <<fnSignal, podVars, snapshotVars, worldVars>>

(* ConfirmPodRestoration, SignalPodRestoration.  The former dereferences   *)
(* the candidate of an object that may have none: it panics.               *)
RestorePod ==
    /\ Reconciling("RestoringPod")
    /\ \/ cachedSignal = NoPod /\ UNCHANGED fnVars /\ UpdateStatus(Restored)
       \/ /\ cachedSignal # NoPod
          /\ Crd.candidate # NoPod
          /\ \/ Signal(NoPod) /\ UpdateStatus(Restored)
             \/ SignalFails(NoPod) /\ UpdateStatus(Crd)
    /\ UNCHANGED <<fnSignal, podVars, snapshotVars, worldVars>>

Reconcile ==
    \/ ReconcileMissingCRDs
    \/ WaitForNext
    \/ FindCandidate
    \/ SignalPodDeletion
    \/ ConfirmPodDeletion
    \/ CreateSnapshot
    \/ IsSnapshotReady
    \/ RestorePod

-----------------------------------------------------------------------------
(***************************************************************************)
(* The CosmosFullNode controller: read the object; later on create the     *)
(* pods it lacks and delete the candidate, as far as the pod informer      *)
(* shows them.                                                             *)
(***************************************************************************)
FullNodeGet ==
    /\ fnSignal = Idle
    /\ fnSignal' = cachedSignal
    /\ UNCHANGED <<svsVars, fnVars, podVars, snapshotVars, worldVars>>

Creates == {p \in Pods \ {fnSignal} : seenPods[p] = "absent"}

Deletes == {p \in Pods \cap {fnSignal} : seenPods[p] # "absent"}

FullNodePods ==
    /\ fnSignal # Idle
    /\ \E creates \in SUBSET Creates, deletes \in SUBSET Deletes :
          /\ ~apiHealthy \/ (creates = Creates /\ deletes = Deletes)
          /\ pods' = [p \in Pods |->
                         IF p \in creates /\ pods[p] = "absent" THEN "starting"
                         ELSE IF p \in deletes /\ pods[p] # "absent"
                              THEN "terminating" ELSE pods[p]]
    /\ fnSignal' = Idle
    /\ UNCHANGED <<svsVars, fnVars, seenPods, snapshotVars, worldVars>>

-----------------------------------------------------------------------------
(***************************************************************************)
(* The world around the controllers.                                       *)
(***************************************************************************)
PodStarts(p) ==
    /\ pods[p] = "starting"
    /\ pods' = [pods EXCEPT ![p] = "synced"]
    /\ UNCHANGED <<svsVars, fnVars, fnSignal, seenPods, snapshotVars, worldVars>>

PodGone(p) ==
    /\ pods[p] = "terminating"
    /\ pods' = [pods EXCEPT ![p] = "absent"]
    /\ UNCHANGED <<svsVars, fnVars, fnSignal, seenPods, snapshotVars, worldVars>>

Disturbance ==
    /\ disturbances < MaxDisturbances
    /\ disturbances' = disturbances + 1

(* A rolling update, height drift mitigation, a user or a node drain.      *)
PodDisrupted(p) ==
    /\ Churn
    /\ Disturbance
    /\ pods[p] \in {"starting", "synced"}
    /\ pods' = [pods EXCEPT ![p] = "terminating"]
    /\ UNCHANGED <<svsVars, fnVars, fnSignal, seenPods, snapshotVars,
                   missingCRDs, apiHealthy, now>>

(* The CSI driver's progress.                                              *)
SnapshotProgresses(t) ==
    /\ snapshots[t] \in {"pending", "taken"}
    /\ snapshots' = [snapshots EXCEPT ![t] = IF @ = "pending" THEN "taken"
                                             ELSE "ready"]
    /\ UNCHANGED <<svsVars, fnVars, fnSignal, podVars, seenSnapshots, worldVars>>

SvsSync ==
    /\ svsBehind
    /\ svsBehind' = FALSE
    /\ cachedSvs' = svs
    /\ UNCHANGED <<svs, svsDeleted, fnVars, fnSignal, podVars, snapshotVars,
                   worldVars>>

FullNodeSync ==
    /\ fnBehind
    /\ fnBehind' = FALSE
    /\ cachedSignal' = signalled
    /\ UNCHANGED <<signalled, svsVars, fnSignal, podVars, snapshotVars,
                   worldVars>>

PodSync ==
    /\ seenPods # pods
    /\ seenPods' = pods
    /\ UNCHANGED <<pods, svsVars, fnVars, fnSignal, snapshotVars, worldVars>>

SnapshotSync ==
    /\ seenSnapshots # snapshots
    /\ seenSnapshots' = snapshots
    /\ UNCHANGED <<snapshots, svsVars, fnVars, fnSignal, podVars, worldVars>>

ToggleSuspend ==
    /\ Disturbance
    /\ ~svsDeleted
    /\ svs' = [svs EXCEPT !.suspend = ~@]
    /\ svsBehind' = TRUE
    /\ UNCHANGED <<cachedSvs, svsDeleted, fnVars, fnSignal, podVars,
                   snapshotVars, missingCRDs, apiHealthy, now>>

DeleteSvs ==
    /\ Deletable
    /\ ~svsDeleted
    /\ svsDeleted' = TRUE
    /\ svsBehind' = TRUE
    /\ UNCHANGED <<svs, cachedSvs, fnVars, fnSignal, podVars, snapshotVars,
                   worldVars>>

(* The CRDs are installed and the operator is started anew.                *)
InstallCRDs ==
    /\ missingCRDs
    /\ missingCRDs' = FALSE
    /\ UNCHANGED <<svsVars, fnVars, fnSignal, podVars, snapshotVars, apiHealthy,
                   now, disturbances>>

APIServerHeals ==
    /\ ~apiHealthy
    /\ apiHealthy' = TRUE
    /\ UNCHANGED <<svsVars, fnVars, fnSignal, podVars, snapshotVars,
                   missingCRDs, now, disturbances>>

Tick ==
    /\ now < MaxTime
    /\ now' = now + 1
    /\ UNCHANGED <<svsVars, fnVars, fnSignal, podVars, snapshotVars,
                   missingCRDs, apiHealthy, disturbances>>

Environment ==
    \/ \E p \in Pods : PodStarts(p) \/ PodGone(p) \/ PodDisrupted(p)
    \/ \E t \in Time : SnapshotProgresses(t)
    \/ SvsSync
    \/ FullNodeSync
    \/ PodSync
    \/ SnapshotSync
    \/ ToggleSuspend
    \/ DeleteSvs
    \/ InstallCRDs
    \/ APIServerHeals
    \/ Tick

Next == Reconcile \/ FullNodeGet \/ FullNodePods \/ Environment

Spec == Init /\ [][Next]_vars

(***************************************************************************)
(* Both controllers run again and again: on retries, on events and at the  *)
(* latest when their informers resync.  Watches deliver, pods start and    *)
(* stop, the CSI driver gets done, the API server heals.                   *)
(***************************************************************************)
Fairness ==
    /\ WF_vars(Reconcile)
    /\ WF_vars(FullNodeGet)
    /\ WF_vars(FullNodePods)
    /\ WF_vars(SvsSync)
    /\ WF_vars(FullNodeSync)
    /\ WF_vars(PodSync)
    /\ WF_vars(SnapshotSync)
    /\ WF_vars(InstallCRDs)
    /\ WF_vars(APIServerHeals)
    /\ WF_vars(Tick)
    /\ \A p \in Pods : WF_vars(PodStarts(p)) /\ WF_vars(PodGone(p))
    /\ \A t \in Time : WF_vars(SnapshotProgresses(t))

FairSpec == Spec /\ Fairness

-----------------------------------------------------------------------------
(***************************************************************************)
(* Properties                                                              *)
(***************************************************************************)

(* Every variable keeps its type, and a cache that is not behind shows the *)
(* current version.                                                        *)
TypeOK ==
    /\ svs \in Object /\ cachedSvs \in Object
    /\ svsBehind \in BOOLEAN /\ svsDeleted \in BOOLEAN
    /\ ~svsBehind => cachedSvs = svs
    /\ missingCRDs \in BOOLEAN
    /\ signalled \in Pods \cup {NoPod} /\ cachedSignal \in Pods \cup {NoPod}
    /\ fnBehind \in BOOLEAN
    /\ ~fnBehind => cachedSignal = signalled
    /\ fnSignal \in Pods \cup {NoPod, Idle}
    /\ pods \in [Pods -> PodState] /\ seenPods \in [Pods -> PodState]
    /\ snapshots \in [Time -> SnapshotState]
    /\ seenSnapshots \in [Time -> SnapshotState]
    /\ apiHealthy \in BOOLEAN
    /\ now \in Time
    /\ disturbances \in 0..MaxDisturbances

(* With deletePod, a VolumeSnapshot is created of a PVC that no pod uses:  *)
(* the pod's deletion was confirmed from an informer that may lag.  It     *)
(* holds as long as pods do not go for other reasons (Churn); otherwise a  *)
(* Reconcile of the CosmosFullNode that has yet to see the signal may      *)
(* create the pod anew after its absence was confirmed.                    *)
QuietSnapshotStep ==
    \A t \in Time :
        DeletePod /\ snapshots[t] = "none" /\ snapshots'[t] = "pending"
            => pods[cachedSvs.candidate] = "absent"

QuietSnapshot == [][QuietSnapshotStep]_vars

(* ... and no pod uses it as long as the controller waits for a snapshot   *)
(* that is not ready.                                                      *)
HeldUntilReady ==
    DeletePod /\ svs.phase = "WaitingForSnapshotCreation"
        /\ snapshots[svs.lastSnapshot] # "ready"
            => pods[svs.candidate] = "absent"

(* How far the snapshot of the signalled pod's volume is, as far as the    *)
(* controller knows: one that its informer does not show counts as taken.  *)
Stage ==
    CASE signalled = NoPod -> "idle"
      [] signalled # NoPod /\ svs.phase = "WaitingForSnapshotCreation" -> "taking"
      [] signalled # NoPod /\ svs.phase = "RestoringPod" -> "taken"
      [] OTHER -> "holding"

Hold == INSTANCE SnapshotHold WITH
            held  <- signalled,
            up    <- {p \in Pods : pods[p] # "absent"},
            stage <- Stage

(* Without other reasons for pods to go, and as long as nobody suspends,   *)
(* the two controllers together keep the promise of SnapshotHold, although *)
(* they tell each other what to do through fields and informers: one pod   *)
(* at a time, down before its snapshot is created and until the controller *)
(* takes it for ready, and no other pod touched.                           *)
ImplementsSnapshotHold == Hold!Spec

(* The controller does not forget a pod it holds down: back at the start   *)
(* of the cycle its signal is gone from the CosmosFullNode.                *)
PodNotForgotten ==
    svs.phase \in {"WaitingForNext", "FindingCandidate"} => signalled = NoPod

(* Where the model's clock ends, no further name for a snapshot comes.     *)
OutOfNames ==
    /\ now = MaxTime
    /\ cachedSvs.phase = "CreatingSnapshot"
    /\ snapshots[now] # "none"

(* A pod held down for a snapshot is created anew sooner or later, however *)
(* stale the reads and whichever calls and status writes fail on the way.  *)
HeldPodReturns ==
    \A p \in Pods :
        (signalled = p) ~> (signalled # p /\ pods[p] = "synced") \/ OutOfNames

(* While the ScheduledVolumeSnapshot stays suspended no pod stays held     *)
(* down, whenever it was suspended and whatever was under way.             *)
SuspendRestores ==
    (<>[](svs.suspend /\ ~svsDeleted)) =>
        <>[](signalled = NoPod /\ \A p \in Pods : pods[p] = "synced")

=============================================================================
