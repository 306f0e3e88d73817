------------------------- MODULE StuckHeightRecovery -------------------------
(***************************************************************************)
(* The StuckHeightRecovery controller and its helpers HeightMonitor,       *)
(* RateLimiter, SnapshotCreator and RecoveryPodBuilder, for one            *)
(* StuckHeightRecovery object and the CosmosFullNode it refers to.         *)
(*                                                                         *)
(* One action is one Reconcile call in one phase.  The controller reads    *)
(* its object through an informer cache that may lag behind the API server *)
(* and writes it with Status().Update, which the API server refuses        *)
(* when the copy it is based on is old.  Side effects (creating a          *)
(* VolumeSnapshot or a recovery pod) come before that write, so a lost     *)
(* write leaves them behind.                                               *)
(***************************************************************************)
EXTENDS Naturals, FiniteSets

CONSTANTS
    Pods,                  \* node pods of the CosmosFullNode
    NoPod,                 \* the empty StuckPodName / RecoveryPodName
    Heights,               \* heights that status.height may report
    NoHeight,              \* the height 0, or none reported
    NoSnapshot,            \* the empty VolumeSnapshotName
    NoTime,                \* a nil *metav1.Time
    StuckDuration,         \* spec.stuckDuration
    RateLimitWindow,       \* spec.rateLimitWindow
    MaxRetries,            \* spec.maxRetries
    CreateVolumeSnapshot,  \* spec.createVolumeSnapshot
    Faulty,                \* TRUE: API calls may fail until the server heals
    PodDeletion,           \* TRUE: somebody deletes finished recovery pods
    MaxTime                \* bound on the clock

ASSUME ConstantsAssumption ==
    /\ NoPod \notin Pods
    /\ NoHeight \notin Heights
    /\ NoTime \notin Nat
    /\ NoSnapshot \notin Pods \X Nat
    /\ StuckDuration \in Nat
    /\ RateLimitWindow \in Nat
    /\ MaxRetries \in Nat \ {0}        \* +kubebuilder:validation:Minimum=1
    /\ CreateVolumeSnapshot \in BOOLEAN
    /\ Faulty \in BOOLEAN
    /\ PodDeletion \in BOOLEAN
    /\ MaxTime \in Nat

VARIABLES
    status,         \* the object's status at the API server
    suspend,        \* its spec.suspend at the API server
    cachedStatus,   \* the status the informer cache holds
    cachedSuspend,  \* the spec.suspend the informer cache holds
    behind,         \* the cached resourceVersion is not the current one
    fullNode,       \* the informer shows the referenced CosmosFullNode
    pods,           \* node pods the informer shows
    height,         \* status.height of the CosmosFullNode the informer shows
    recoveryPods,   \* state of the recovery pod of each node pod
    snapshots,      \* recovery VolumeSnapshots, named by PVC and second
    readySnapshots, \* those whose status.readyToUse is true
    apiHealthy,     \* API calls no longer fail
    now,            \* the clock
    attemptLog      \* history: attempts recorded at each time since the last
                    \*   ResetWindow

objectVars == <<status, suspend, cachedStatus, cachedSuspend, behind>>
clusterVars == <<fullNode, pods, height, apiHealthy, now>>
effectVars == <<recoveryPods, snapshots, readySnapshots>>
vars == <<objectVars, clusterVars, effectVars, attemptLog>>

Time == 0..MaxTime

Snapshot == Pods \X Time

(* "Started" stands for the phase "" of an object nobody has reconciled.   *)
Phase == {"Started", "Monitoring", "HeightStuck", "CreatingSnapshot",
          "WaitingForSnapshot", "RunningRecovery", "WaitingForRecovery",
          "RecoveryComplete", "RecoveryFailed", "RateLimited", "Suspended"}

(* The fields of StuckHeightRecoveryStatus that a handler reads.           *)
Status == [phase: Phase,
           recoveryAttempts: Nat,
           rateLimitWindowStart: Time \cup {NoTime},
           lastObservedHeight: Heights \cup {NoHeight},
           lastHeightUpdateTime: Time \cup {NoTime},
           stuckPodName: Pods \cup {NoPod},
           volumeSnapshotName: Snapshot \cup {NoSnapshot},
           recoveryPodName: Pods \cup {NoPod}]

RecoveryPodState == {"absent", "running", "succeeded", "failed"}

EmptyStatus == [phase |-> "Started",
                recoveryAttempts |-> 0,
                rateLimitWindowStart |-> NoTime,
                lastObservedHeight |-> NoHeight,
                lastHeightUpdateTime |-> NoTime,
                stuckPodName |-> NoPod,
                volumeSnapshotName |-> NoSnapshot,
                recoveryPodName |-> NoPod]

Init ==
    /\ status = EmptyStatus
    /\ suspend = FALSE
    /\ cachedStatus = EmptyStatus
    /\ cachedSuspend = FALSE
    /\ behind = FALSE
    /\ fullNode = TRUE
    /\ pods = Pods
    /\ height = [p \in Pods |-> NoHeight]
    /\ recoveryPods = [p \in Pods |-> "absent"]
    /\ snapshots = {}
    /\ readySnapshots = {}
    /\ apiHealthy = ~Faulty
    /\ now = 0
    /\ attemptLog = [t \in Time |-> 0]

-----------------------------------------------------------------------------
(***************************************************************************)
(* RateLimiter and HeightMonitor.                                          *)
(***************************************************************************)

(* Mutant: the window ends one tick early.                                 *)
WindowOverEarly(s) ==
    s.rateLimitWindowStart # NoTime =>
        now + 1 >= s.rateLimitWindowStart + RateLimitWindow

WindowOver(s) ==
    s.rateLimitWindowStart # NoTime =>
        now >= s.rateLimitWindowStart + RateLimitWindow

(* Mutant: one attempt too many.                                           *)
CanAttemptOneMore(s) == WindowOver(s) \/ s.recoveryAttempts <= MaxRetries

CanAttemptRecovery(s) == WindowOver(s) \/ s.recoveryAttempts < MaxRetries

(* Mutants: the window's end is stored for its start; a new window keeps   *)
(* the old count; the attempt that opens a window is not counted.          *)
RecordAttemptStoresEnd(s) ==
    IF WindowOver(s)
    THEN [s EXCEPT !.rateLimitWindowStart = now + RateLimitWindow,
                   !.recoveryAttempts = 1]
    ELSE [s EXCEPT !.recoveryAttempts = @ + 1]

RecordAttemptKeepsCount(s) ==
    IF WindowOver(s)
    THEN [s EXCEPT !.rateLimitWindowStart = now, !.recoveryAttempts = @ + 1]
    ELSE [s EXCEPT !.recoveryAttempts = @ + 1]

RecordAttemptSkipsFirst(s) ==
    IF WindowOver(s)
    THEN [s EXCEPT !.rateLimitWindowStart = now, !.recoveryAttempts = 0]
    ELSE [s EXCEPT !.recoveryAttempts = @ + 1]

RecordAttempt(s) ==
    IF WindowOver(s)
    THEN [s EXCEPT !.rateLimitWindowStart = now, !.recoveryAttempts = 1]
    ELSE [s EXCEPT !.recoveryAttempts = @ + 1]

ResetWindow(s) ==
    [s EXCEPT !.recoveryAttempts = 0, !.rateLimitWindowStart = NoTime]

(* Pod p's height is the one observed last, and has been for too long.     *)
CheckStuckHeight(s, p) ==
    /\ s.lastObservedHeight = height[p]
    /\ s.lastHeightUpdateTime # NoTime
    /\ now >= s.lastHeightUpdateTime + StuckDuration

(* GetPVCForPod: the claim is that of the pod's chain-home volume.         *)
PVCFound(p) == p \in pods

(* The claim's name and the time in seconds.                               *)
SnapshotName(p) == <<p, now>>

CreateSnapshot(snap) ==
    /\ snap \notin snapshots
    /\ snapshots' = snapshots \cup {snap}

CheckSnapshotReady(snap) == snap \in readySnapshots

(* BuildPod: the name is made of the names of the recovery object and of   *)
(* the stuck pod; a second pod cannot be created beside the first.         *)
RecoveryPodName(p) == p

(* The pod starts to run the script.                                       *)
CreatePod(name) ==
    /\ recoveryPods[name] = "absent"
    /\ recoveryPods' = [recoveryPods EXCEPT ![name] = "running"]

CheckPodComplete(name) == recoveryPods[name] \in {"succeeded", "failed"}

-----------------------------------------------------------------------------
(***************************************************************************)
(* Status().Update: a written status is a new version the cache has yet to *)
(* see.  A refused (409) or failed write, or a crash before it, leaves the *)
(* object as it was; the work queue calls Reconcile again.                 *)
(***************************************************************************)
Written(s) ==
    /\ ~behind
    /\ status' = s
    /\ behind' = TRUE
    /\ UNCHANGED <<suspend, cachedStatus, cachedSuspend>>

NotWritten ==
    /\ behind \/ ~apiHealthy
    /\ UNCHANGED objectVars

StatusUpdate(s) == Written(s) \/ NotWritten

SetPhase(s, phase) == [s EXCEPT !.phase = phase]

Handling(phases) ==
    /\ ~cachedSuspend
    /\ fullNode
    /\ cachedStatus.phase \in phases

-----------------------------------------------------------------------------
(***************************************************************************)
(* Reconcile                                                               *)
(***************************************************************************)

(* spec.suspend is set: park the object in phase Suspended.                *)
ReconcileSuspended ==
    /\ cachedSuspend
    /\ cachedStatus.phase # "Suspended"
    /\ StatusUpdate(SetPhase(cachedStatus, "Suspended"))
    /\ UNCHANGED <<clusterVars, effectVars, attemptLog>>

(* The CosmosFullNode cannot be read: whatever the phase, it has failed.   *)
ReconcileNoFullNode ==
    /\ ~cachedSuspend
    /\ ~fullNode
    /\ StatusUpdate(SetPhase(cachedStatus, "RecoveryFailed"))
    /\ UNCHANGED <<clusterVars, effectVars, attemptLog>>

(* The map range of CheckStuckHeight yields an arbitrary pod p.  A changed *)
(* height is written first, together with ResetWindow, and the phase in a  *)
(* second update, which may be the one that fails.                         *)
HandleMonitoringChanged(p) ==
    LET s == ResetWindow([cachedStatus EXCEPT !.lastObservedHeight = height[p],
                                              !.lastHeightUpdateTime = now])
    IN  /\ Handling({"Started", "Monitoring"})
        /\ height[p] # NoHeight
        /\ cachedStatus.lastObservedHeight # height[p]
        /\ \/ /\ \/ Written(SetPhase(s, "Monitoring"))
                 \/ ~apiHealthy /\ Written(s)
              /\ attemptLog' = [t \in Time |-> 0]
           \/ NotWritten /\ UNCHANGED attemptLog
        /\ UNCHANGED <<clusterVars, effectVars>>

HandleMonitoringSame(p) ==
    /\ Handling({"Started", "Monitoring"})
    /\ height[p] # NoHeight
    /\ cachedStatus.lastObservedHeight = height[p]
    /\ StatusUpdate(IF CheckStuckHeight(cachedStatus, p)
                    THEN [cachedStatus EXCEPT !.phase = "HeightStuck",
                                              !.stuckPodName = p]
                    ELSE SetPhase(cachedStatus, "Monitoring"))
    /\ UNCHANGED <<clusterVars, effectVars, attemptLog>>

(* CheckStuckHeight returns an error: only the message is written.         *)
HandleMonitoringError(p) ==
    /\ Handling({"Started", "Monitoring"})
    /\ height[p] = NoHeight
    /\ StatusUpdate(cachedStatus)
    /\ UNCHANGED <<clusterVars, effectVars, attemptLog>>

HandleMonitoring ==
    \E p \in Pods : \/ HandleMonitoringError(p)
                    \/ HandleMonitoringChanged(p)
                    \/ HandleMonitoringSame(p)

(* The attempt is recorded in the same write that leaves HeightStuck.      *)
HandleHeightStuck ==
    /\ Handling({"HeightStuck"})
    /\ \/ /\ ~CanAttemptRecovery(cachedStatus)
          /\ StatusUpdate(SetPhase(cachedStatus, "RateLimited"))
          /\ UNCHANGED attemptLog
       \/ /\ CanAttemptRecovery(cachedStatus)
          /\ \/ /\ Written(SetPhase(RecordAttempt(cachedStatus),
                                    IF CreateVolumeSnapshot
                                    THEN "CreatingSnapshot"
                                    ELSE "RunningRecovery"))
                /\ attemptLog' = [attemptLog EXCEPT ![now] = @ + 1]
             \/ NotWritten /\ UNCHANGED attemptLog
    /\ UNCHANGED <<clusterVars, effectVars>>

(* Mutant: a name left in the status is taken for this attempt's snapshot. *)
HandleCreatingSnapshotOnce ==
    LET p    == cachedStatus.stuckPodName
        snap == SnapshotName(p)
        old  == cachedStatus.volumeSnapshotName
    IN  /\ Handling({"CreatingSnapshot"})
        /\ \/ /\ old # NoSnapshot
              /\ StatusUpdate(SetPhase(cachedStatus, "WaitingForSnapshot"))
              /\ UNCHANGED snapshots
           \/ /\ old = NoSnapshot
              /\ CreateSnapshot(snap)
              /\ StatusUpdate([cachedStatus EXCEPT
                                 !.volumeSnapshotName = snap,
                                 !.phase = "WaitingForSnapshot"])
        /\ UNCHANGED <<clusterVars, recoveryPods, readySnapshots, attemptLog>>

(* A snapshot is named after the PVC and the current second.  A create call *)
(* that fails may still have reached the API server.                       *)
HandleCreatingSnapshot ==
    LET p    == cachedStatus.stuckPodName
        snap == SnapshotName(p)
        Fail == StatusUpdate(SetPhase(cachedStatus, "RecoveryFailed"))
    IN  /\ Handling({"CreatingSnapshot"})
        /\ \/ /\ ~PVCFound(p)
              /\ Fail
              /\ UNCHANGED snapshots
           \/ /\ PVCFound(p)                     \* CreateSnapshot fails
              /\ snap \in snapshots \/ ~apiHealthy
              /\ Fail
              /\ snapshots' \in {snapshots, snapshots \cup {snap}}
           \/ /\ PVCFound(p)
              /\ CreateSnapshot(snap)
              /\ StatusUpdate([cachedStatus EXCEPT
                                 !.volumeSnapshotName = snap,
                                 !.phase = "WaitingForSnapshot"])
        /\ UNCHANGED <<clusterVars, recoveryPods, readySnapshots, attemptLog>>

HandleWaitingForSnapshot ==
    /\ Handling({"WaitingForSnapshot"})
    /\ CheckSnapshotReady(cachedStatus.volumeSnapshotName)
    /\ StatusUpdate(SetPhase(cachedStatus, "RunningRecovery"))
    /\ UNCHANGED <<clusterVars, effectVars, attemptLog>>

HandleRunningRecovery ==
    LET p    == cachedStatus.stuckPodName
        name == RecoveryPodName(p)
        Fail == StatusUpdate(SetPhase(cachedStatus, "RecoveryFailed"))
    IN  /\ Handling({"RunningRecovery"})
        /\ \/ /\ ~PVCFound(p)
              /\ Fail
              /\ UNCHANGED recoveryPods
           \/ /\ PVCFound(p)                     \* CreatePod fails
              /\ recoveryPods[name] # "absent" \/ ~apiHealthy
              /\ Fail
              /\ UNCHANGED recoveryPods \/ CreatePod(name)
           \/ /\ PVCFound(p)
              /\ CreatePod(name)
              /\ StatusUpdate([cachedStatus EXCEPT
                                 !.recoveryPodName = name,
                                 !.phase = "WaitingForRecovery"])
        /\ UNCHANGED <<clusterVars, snapshots, readySnapshots, attemptLog>>

(* Mutant: only a successful recovery pod is complete.                     *)
HandleWaitingForSuccess ==
    /\ Handling({"WaitingForRecovery"})
    /\ recoveryPods[cachedStatus.recoveryPodName] = "succeeded"
    /\ StatusUpdate(SetPhase(cachedStatus, "RecoveryComplete"))
    /\ UNCHANGED <<clusterVars, effectVars, attemptLog>>

(* A recovery pod that cannot be read, or still runs, changes nothing.     *)
HandleWaitingForRecovery ==
    LET pod == recoveryPods[cachedStatus.recoveryPodName]
    IN  /\ Handling({"WaitingForRecovery"})
        /\ CheckPodComplete(cachedStatus.recoveryPodName)
        /\ StatusUpdate(SetPhase(cachedStatus,
                                 IF pod = "succeeded" THEN "RecoveryComplete"
                                                      ELSE "RecoveryFailed"))
        /\ UNCHANGED <<clusterVars, effectVars, attemptLog>>

HandleRecoveryComplete ==
    /\ Handling({"RecoveryComplete"})
    /\ StatusUpdate([cachedStatus EXCEPT !.phase = "Monitoring",
                                         !.stuckPodName = NoPod,
                                         !.recoveryPodName = NoPod,
                                         !.volumeSnapshotName = NoSnapshot])
    /\ UNCHANGED <<clusterVars, effectVars, attemptLog>>

(* The name of the failed attempt's VolumeSnapshot stays.                  *)
HandleRecoveryFailed ==
    /\ Handling({"RecoveryFailed"})
    /\ StatusUpdate([cachedStatus EXCEPT !.phase = "Monitoring",
                                         !.stuckPodName = NoPod,
                                         !.recoveryPodName = NoPod])
    /\ UNCHANGED <<clusterVars, effectVars, attemptLog>>

(* Mutant: the expired window is not noticed.                              *)
HandleRateLimitedByCount ==
    /\ Handling({"RateLimited"})
    /\ StatusUpdate(IF cachedStatus.recoveryAttempts < MaxRetries
                    THEN SetPhase(cachedStatus, "Monitoring")
                    ELSE cachedStatus)
    /\ UNCHANGED <<clusterVars, effectVars, attemptLog>>

(* While the limit holds only the message is rewritten.                    *)
HandleRateLimited ==
    /\ Handling({"RateLimited"})
    /\ StatusUpdate(IF CanAttemptRecovery(cachedStatus)
                    THEN SetPhase(cachedStatus, "Monitoring")
                    ELSE cachedStatus)
    /\ UNCHANGED <<clusterVars, effectVars, attemptLog>>

Reconcile ==
    \/ ReconcileSuspended
    \/ ReconcileNoFullNode
    \/ HandleMonitoring
    \/ HandleHeightStuck
    \/ HandleCreatingSnapshot
    \/ HandleWaitingForSnapshot
    \/ HandleRunningRecovery
    \/ HandleWaitingForRecovery
    \/ HandleRecoveryComplete
    \/ HandleRecoveryFailed
    \/ HandleRateLimited

-----------------------------------------------------------------------------
(***************************************************************************)
(* The world around the controller.                                        *)
(***************************************************************************)

(* The watch delivers the current version of the object.                   *)
InformerSync ==
    /\ behind
    /\ behind' = FALSE
    /\ cachedStatus' = status
    /\ cachedSuspend' = suspend
    /\ UNCHANGED <<status, suspend, clusterVars, effectVars, attemptLog>>

(* A user edits spec.suspend.                                              *)
ToggleSuspend ==
    /\ suspend' = ~suspend
    /\ behind' = TRUE
    /\ UNCHANGED <<status, cachedStatus, cachedSuspend, clusterVars,
                   effectVars, attemptLog>>

(* A new height of p is reported and delivered: updateStatus writes the    *)
(* block in consensus, version-check the height of the pod's database,     *)
(* which is lower, the more so after a restore, and 0 if there is none.    *)
HeightReported(p) ==
    /\ \E h \in (Heights \cup {NoHeight}) \ {height[p]} :
          height' = [height EXCEPT ![p] = h]
    /\ UNCHANGED <<objectVars, fullNode, pods, apiHealthy, now, effectVars,
                   attemptLog>>

(* Node pods come and go: rollouts, scaling, snapshots.                    *)
NodePodChanges(p) ==
    /\ pods' = IF p \in pods THEN pods \ {p} ELSE pods \cup {p}
    /\ UNCHANGED <<objectVars, fullNode, height, apiHealthy, now,
                   effectVars, attemptLog>>

FullNodeChanges ==
    /\ fullNode' = ~fullNode
    /\ UNCHANGED <<objectVars, pods, height, apiHealthy, now,
                   effectVars, attemptLog>>

(* The CSI driver finishes a VolumeSnapshot.                               *)
SnapshotReady(snap) ==
    /\ snap \in snapshots \ readySnapshots
    /\ readySnapshots' = readySnapshots \cup {snap}
    /\ UNCHANGED <<objectVars, clusterVars, recoveryPods, snapshots,
                   attemptLog>>

(* RestartPolicy Never: the recovery script ends once.                     *)
RecoveryPodEnds(p) ==
    /\ recoveryPods[p] = "running"
    /\ \E result \in {"succeeded", "failed"} :
          recoveryPods' = [recoveryPods EXCEPT ![p] = result]
    /\ UNCHANGED <<objectVars, clusterVars, snapshots, readySnapshots,
                   attemptLog>>

(* Nothing in the operator deletes a recovery pod; a user may.             *)
RecoveryPodDeleted(p) ==
    /\ PodDeletion
    /\ recoveryPods[p] \in {"succeeded", "failed"}
    /\ recoveryPods' = [recoveryPods EXCEPT ![p] = "absent"]
    /\ UNCHANGED <<objectVars, clusterVars, snapshots, readySnapshots,
                   attemptLog>>

APIServerHeals ==
    /\ ~apiHealthy
    /\ apiHealthy' = TRUE
    /\ UNCHANGED <<objectVars, fullNode, pods, height, now,
                   effectVars, attemptLog>>

Tick ==
    /\ now < MaxTime
    /\ now' = now + 1
    /\ UNCHANGED <<objectVars, fullNode, pods, height, apiHealthy,
                   effectVars, attemptLog>>

Environment ==
    \/ InformerSync
    \/ ToggleSuspend
    \/ FullNodeChanges
    \/ APIServerHeals
    \/ Tick
    \/ \E p \in Pods : HeightReported(p) \/ NodePodChanges(p)
                       \/ RecoveryPodEnds(p) \/ RecoveryPodDeleted(p)
    \/ \E snap \in Snapshot : SnapshotReady(snap)

Next == Reconcile \/ Environment

Spec == Init /\ [][Next]_vars

(***************************************************************************)
(* controller-runtime calls Reconcile again after every RequeueAfter and   *)
(* every error, the watch delivers, time passes, the API server does not   *)
(* fail for ever, and the CSI driver finishes.  Users, the chain, the node *)
(* pods and the recovery script, which has no deadline, owe nothing.       *)
(***************************************************************************)
Fairness ==
    /\ WF_vars(Reconcile)
    /\ WF_vars(InformerSync)
    /\ WF_vars(Tick)
    /\ WF_vars(APIServerHeals)
    /\ WF_vars(\E snap \in Snapshot : SnapshotReady(snap))

FairSpec == Spec /\ Fairness

-----------------------------------------------------------------------------
(***************************************************************************)
(* Properties                                                              *)
(***************************************************************************)

(* Every variable keeps its type; a ready snapshot is one that was created *)
(* and a fresh cache shows the object as the API server has it.            *)
TypeOK ==
    /\ status \in Status
    /\ suspend \in BOOLEAN
    /\ cachedStatus \in Status
    /\ cachedSuspend \in BOOLEAN
    /\ behind \in BOOLEAN
    /\ fullNode \in BOOLEAN
    /\ pods \subseteq Pods
    /\ height \in [Pods -> Heights \cup {NoHeight}]
    /\ recoveryPods \in [Pods -> RecoveryPodState]
    /\ snapshots \subseteq Snapshot
    /\ readySnapshots \subseteq snapshots
    /\ apiHealthy \in BOOLEAN
    /\ now \in Time
    /\ attemptLog \in [Time -> Nat]

(* The phases between recording an attempt and starting its script.        *)
AttemptPhases == {"CreatingSnapshot", "WaitingForSnapshot", "RunningRecovery"}

(* What a version s of the status that is in the middle of an attempt says *)
(* is backed by the cluster: the height was stuck for stuckDuration, the   *)
(* attempt is counted, and the snapshot it names is one of the stuck pod,  *)
(* taken since, and ready once the script may run.                         *)
AttemptCoherent(s) ==
    /\ s.recoveryAttempts <= MaxRetries
    /\ s.phase \in AttemptPhases \cup {"HeightStuck"} =>
          /\ s.lastHeightUpdateTime # NoTime
          /\ now >= s.lastHeightUpdateTime + StuckDuration
    /\ s.phase \in AttemptPhases =>
          /\ s.recoveryAttempts >= 1
          /\ s.rateLimitWindowStart # NoTime
    /\ \/ s.phase = "WaitingForSnapshot"
       \/ s.phase = "RunningRecovery" /\ CreateVolumeSnapshot
       => /\ s.volumeSnapshotName \in snapshots
          /\ s.volumeSnapshotName[1] = s.stuckPodName
          /\ s.volumeSnapshotName[2] >= s.lastHeightUpdateTime + StuckDuration
    /\ s.phase = "RunningRecovery" /\ CreateVolumeSnapshot =>
          s.volumeSnapshotName \in readySnapshots

(* The invariant behind SnapshotBeforeScript and ScriptIsCounted: every    *)
(* version a Reconcile call may read is coherent with the cluster, and a   *)
(* cached version that lets a script start still agrees with the API       *)
(* server on the attempt: optimistic locking keeps the controller from     *)
(* getting more than one write ahead of its cache.                         *)
Coherent ==
    /\ AttemptCoherent(status)
    /\ AttemptCoherent(cachedStatus)
    /\ ~behind => cachedStatus = status /\ cachedSuspend = suspend
    /\ cachedStatus.phase \in AttemptPhases =>
          /\ status.recoveryAttempts = cachedStatus.recoveryAttempts
          /\ status.rateLimitWindowStart = cachedStatus.rateLimitWindowStart
          /\ status.lastHeightUpdateTime = cachedStatus.lastHeightUpdateTime

(* The attempts that log has recorded at times, each as its time and its   *)
(* number at that time.                                                    *)
Attempts(log, times) == UNION {{u} \X (1..log[u]) : u \in times}

(* The rate limiter's window is fixed, not sliding, and starts at an       *)
(* attempt: while the height does not change, any rateLimitWindow long     *)
(* stretch of time sees fewer than twice maxRetries attempts.              *)
SlidingRate ==
    \A t \in Time :
        Cardinality(Attempts(attemptLog,
                             {u \in Time : t <= u /\ u < t + RateLimitWindow}))
            < 2 * MaxRetries

(* The times since the window of the object at the API server started.     *)
SinceWindowStart ==
    {u \in Time : /\ status.rateLimitWindowStart # NoTime
                  /\ u >= status.rateLimitWindowStart}

(* status.recoveryAttempts is the number of attempts recorded since the    *)
(* window started, and never exceeds maxRetries: no conflict or lost write *)
(* between CanAttemptRecovery and RecordAttempt loses or repeats a count.  *)
CounterMatchesLog ==
    /\ status.recoveryAttempts <= MaxRetries
    /\ status.recoveryAttempts =
          Cardinality(Attempts(attemptLog, SinceWindowStart))

(* The recovery pod of p is created in this step.                          *)
ScriptStarts(p) == recoveryPods[p] = "absent" /\ recoveryPods'[p] = "running"

(* With createVolumeSnapshot no recovery script starts on a pod's data     *)
(* unless the snapshot that the status names is of that pod's PVC, ready   *)
(* and taken for this attempt: it is not older than any attempt on record, *)
(* and the height may have changed between two attempts.  The snapshot     *)
(* of an earlier, failed attempt, whose name handleRecoveryFailed leaves   *)
(* in the status, does not count, and neither stale reads nor lost writes  *)
(* can skip the snapshot phases.                                           *)
SnapshotBeforeScriptStep ==
    \A p \in Pods :
        CreateVolumeSnapshot /\ ScriptStarts(p) =>
            LET snap == status.volumeSnapshotName
            IN  /\ snap \in readySnapshots
                /\ snap[1] = p
                /\ \A t \in Time : attemptLog[t] > 0 => t <= snap[2]

SnapshotBeforeScript == [][SnapshotBeforeScriptStep]_vars

(* A recovery script only starts under an attempt that the API server has  *)
(* on record: the window is open, at least one and at most maxRetries      *)
(* attempts are counted in it, whatever was stale, lost or retried.        *)
ScriptIsCountedStep ==
    \A p \in Pods :
        ScriptStarts(p) => /\ status.recoveryAttempts \in 1..MaxRetries
                           /\ status.rateLimitWindowStart # NoTime

ScriptIsCounted == [][ScriptIsCountedStep]_vars

(* With the API server healthy, the node pods in place and no recovery     *)
(* script running, the retry that maxRetries allows runs its script too:   *)
(* handleRunningRecovery does not end it in RecoveryFailed.                *)
RetryRunsScript ==
    [][ /\ apiHealthy /\ fullNode /\ pods = Pods
        /\ \A p \in Pods : recoveryPods[p] # "running"
        /\ status.phase = "RunningRecovery"
        /\ status.recoveryAttempts > 1
        => status'.phase # "RecoveryFailed" ]_vars

(* While it may operate, the controller notices that the recovery pod it   *)
(* waits for has finished, well or not.  Only the pod's deletion prevents  *)
(* that: CheckPodComplete then fails for ever, and nothing ends the wait,  *)
(* as nothing ends the wait for a script that does not finish.             *)
RecoveryConcludes ==
    (<>[](~suspend /\ fullNode)) =>
        \A p \in Pods :
            (/\ status.phase = "WaitingForRecovery"
             /\ status.recoveryPodName = p
             /\ CheckPodComplete(p))
                ~> (\/ status.phase # "WaitingForRecovery"
                    \/ recoveryPods[p] = "absent")

(* The clock of the model has run out on a window that is still closed.    *)
HorizonReached ==
    /\ now = MaxTime
    /\ status.phase = "RateLimited"
    /\ status.rateLimitWindowStart # NoTime
    /\ now < status.rateLimitWindowStart + RateLimitWindow

(* Height observed, and time enough left in the model to find it stuck.    *)
Watching(p) ==
    /\ status.phase = "Monitoring"
    /\ status.lastObservedHeight = height[p]
    /\ status.lastHeightUpdateTime # NoTime
    /\ status.lastHeightUpdateTime + StuckDuration <= MaxTime

(* A pod whose shown height never changes again gets its recovery          *)
(* script, in spite of API failures, stale reads and lost writes, provided *)
(* that the node pod and the CosmosFullNode end up in place and the        *)
(* recovery is not suspended.                                              *)
StuckNodeGetsScript ==
    \A p \in Pods :
        (<>[](~suspend /\ status.phase # "Suspended" /\ fullNode
              /\ pods = Pods)) =>
            (Watching(p) ~> \/ recoveryPods[p] # "absent"
                            \/ status.lastObservedHeight # height[p]
                            \/ HorizonReached)

=============================================================================
