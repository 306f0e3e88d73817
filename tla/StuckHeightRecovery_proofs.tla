--------------------- MODULE StuckHeightRecovery_proofs ----------------------
(***************************************************************************)
(* Proofs about StuckHeightRecovery, for every set of pods, every          *)
(* duration, window and retry limit, with and without API failures.        *)
(***************************************************************************)
EXTENDS StuckHeightRecovery, FiniteSetTheorems, TLAPS

(* The initial state is well typed and coherent.                           *)
LEMMA InitInvariant == Init => TypeOK /\ Coherent
<1> USE ConstantsAssumption
<1> SUFFICES ASSUME Init PROVE TypeOK /\ Coherent
  OBVIOUS
<1>1. EmptyStatus \in Status
  BY DEF EmptyStatus, Status, Phase, Time
<1>2. apiHealthy \in BOOLEAN
  BY Zenon DEF Init
<1>3. /\ height \in [Pods -> Heights \cup {NoHeight}]
      /\ recoveryPods \in [Pods -> RecoveryPodState]
      /\ attemptLog \in [Time -> Nat]
      /\ now \in Time
  BY DEF Init, RecoveryPodState, Time
<1>4. TypeOK
  BY <1>1, <1>2, <1>3 DEF Init, TypeOK
<1>5. AttemptCoherent(EmptyStatus)
  BY DEF EmptyStatus, AttemptCoherent, AttemptPhases
<1>6. Coherent
  BY <1>5 DEF Init, Coherent, EmptyStatus, AttemptPhases
<1> QED BY <1>4, <1>6

(* Whatever Status().Update does, the two copies of the object stay well   *)
(* typed.                                                                  *)
LEMMA UpdateType ==
  ASSUME TypeOK, NEW s \in Status, StatusUpdate(s)
  PROVE  /\ status' \in Status
         /\ suspend' \in BOOLEAN
         /\ cachedStatus' \in Status
         /\ cachedSuspend' \in BOOLEAN
         /\ behind' \in BOOLEAN
  BY DEF TypeOK, StatusUpdate, Written, NotWritten, objectVars

(* SetPhase to a phase yields a status.                                    *)
LEMMA SetPhaseType ==
  ASSUME NEW s \in Status, NEW ph \in Phase
  PROVE  SetPhase(s, ph) \in Status
  BY DEF SetPhase, Status

(* RecordAttempt yields a status.                                          *)
LEMMA RecordAttemptType ==
  ASSUME TypeOK, NEW s \in Status
  PROVE  RecordAttempt(s) \in Status
<1>1. [s EXCEPT !.rateLimitWindowStart = now, !.recoveryAttempts = 1] \in Status
  BY DEF TypeOK, Status
<1>2. s.recoveryAttempts + 1 \in Nat
  BY DEF Status
<1>3. [s EXCEPT !.recoveryAttempts = @ + 1] \in Status
  BY <1>2 DEF Status
<1> QED BY <1>1, <1>3 DEF RecordAttempt

(* Every Reconcile call keeps the types.                                   *)
LEMMA ReconcileType == TypeOK /\ Reconcile => TypeOK'
<1> USE ConstantsAssumption DEF clusterVars, effectVars
<1> SUFFICES ASSUME TypeOK, Reconcile PROVE TypeOK'
  OBVIOUS
<1> cachedStatus \in Status
  BY DEF TypeOK
<1>1. CASE ReconcileSuspended
  <2>1. SetPhase(cachedStatus, "Suspended") \in Status
    BY SetPhaseType DEF Phase
  <2> QED BY <1>1, <2>1, UpdateType DEF ReconcileSuspended, TypeOK
<1>2. CASE ReconcileNoFullNode
  <2>1. SetPhase(cachedStatus, "RecoveryFailed") \in Status
    BY SetPhaseType DEF Phase
  <2> QED BY <1>2, <2>1, UpdateType DEF ReconcileNoFullNode, TypeOK
<1>3. CASE HandleMonitoring
  <2>1. PICK p \in Pods : \/ HandleMonitoringError(p)
                          \/ HandleMonitoringChanged(p)
                          \/ HandleMonitoringSame(p)
    BY <1>3 DEF HandleMonitoring
  <2>2. CASE HandleMonitoringError(p)
    BY <2>2, UpdateType DEF HandleMonitoringError, TypeOK
  <2>3. CASE HandleMonitoringChanged(p)
    <3> DEFINE s == ResetWindow([cachedStatus EXCEPT
                                   !.lastObservedHeight = height[p],
                                   !.lastHeightUpdateTime = now])
    <3>a. height[p] \in Heights \cup {NoHeight} /\ now \in Time
      BY DEF TypeOK
    <3>b. [cachedStatus EXCEPT !.lastObservedHeight = height[p],
                               !.lastHeightUpdateTime = now] \in Status
      BY <3>a DEF Status
    <3>c. ASSUME NEW r \in Status PROVE ResetWindow(r) \in Status
      BY DEF ResetWindow, Status
    <3>1. s \in Status
      BY <3>b, <3>c
    <3>2. SetPhase(s, "Monitoring") \in Status
      BY <3>1, SetPhaseType DEF Phase
    <3>3. StatusUpdate(s) \/ StatusUpdate(SetPhase(s, "Monitoring"))
      BY <2>3 DEF HandleMonitoringChanged, StatusUpdate
    <3>4. attemptLog' \in [Time -> Nat]
      BY <2>3 DEF HandleMonitoringChanged, TypeOK
    <3> HIDE DEF s
    <3> QED BY <2>3, <3>1, <3>2, <3>3, <3>4, UpdateType
            DEF HandleMonitoringChanged, TypeOK
  <2>4. CASE HandleMonitoringSame(p)
    <3>1. /\ SetPhase(cachedStatus, "Monitoring") \in Status
          /\ [cachedStatus EXCEPT !.phase = "HeightStuck",
                                  !.stuckPodName = p] \in Status
      BY DEF SetPhase, Status, Phase
    <3> QED BY <2>4, <3>1, UpdateType DEF HandleMonitoringSame, TypeOK
  <2> QED BY <2>1, <2>2, <2>3, <2>4
<1>4. CASE HandleHeightStuck
  <2> DEFINE next == IF CreateVolumeSnapshot THEN "CreatingSnapshot"
                                             ELSE "RunningRecovery"
  <2>1. RecordAttempt(cachedStatus) \in Status
    BY RecordAttemptType
  <2>2. /\ SetPhase(RecordAttempt(cachedStatus), next) \in Status
        /\ SetPhase(cachedStatus, "RateLimited") \in Status
    BY <2>1, SetPhaseType DEF Phase
  <2>3. \/ StatusUpdate(SetPhase(RecordAttempt(cachedStatus), next))
        \/ StatusUpdate(SetPhase(cachedStatus, "RateLimited"))
    BY <1>4 DEF HandleHeightStuck, StatusUpdate
  <2>4. attemptLog' \in [Time -> Nat]
    BY <1>4 DEF HandleHeightStuck, TypeOK
  <2> HIDE DEF next
  <2> QED BY <1>4, <2>2, <2>3, <2>4, UpdateType DEF HandleHeightStuck, TypeOK
<1>5. CASE HandleCreatingSnapshot
  <2> DEFINE p == cachedStatus.stuckPodName
             snap == <<p, now>>
             s == [cachedStatus EXCEPT !.volumeSnapshotName = snap,
                                       !.phase = "WaitingForSnapshot"]
  <2>1. p \in pods => snap \in Snapshot /\ s \in Status
    BY DEF TypeOK, Status, Snapshot, Phase
  <2>2. SetPhase(cachedStatus, "RecoveryFailed") \in Status
    BY SetPhaseType DEF Phase
  <2>3. snapshots' \subseteq Snapshot /\ readySnapshots' \subseteq snapshots'
    BY <1>5, <2>1 DEF HandleCreatingSnapshot, TypeOK, CreateSnapshot, PVCFound,
                      SnapshotName
  <2>4. \/ StatusUpdate(SetPhase(cachedStatus, "RecoveryFailed"))
        \/ p \in pods /\ StatusUpdate(s)
    BY <1>5 DEF HandleCreatingSnapshot, CreateSnapshot, PVCFound, SnapshotName
  <2> HIDE DEF s
  <2> QED BY <1>5, <2>1, <2>2, <2>3, <2>4, UpdateType
          DEF HandleCreatingSnapshot, TypeOK, CreateSnapshot, PVCFound,
              SnapshotName
<1>6. CASE HandleWaitingForSnapshot
  <2>1. SetPhase(cachedStatus, "RunningRecovery") \in Status
    BY SetPhaseType DEF Phase
  <2> QED BY <1>6, <2>1, UpdateType DEF HandleWaitingForSnapshot, TypeOK,
                                        CheckSnapshotReady
<1>7. CASE HandleRunningRecovery
  <2> DEFINE p == cachedStatus.stuckPodName
             s == [cachedStatus EXCEPT !.recoveryPodName = p,
                                       !.phase = "WaitingForRecovery"]
  <2>1. s \in Status
    BY DEF Status, Phase
  <2>2. SetPhase(cachedStatus, "RecoveryFailed") \in Status
    BY SetPhaseType DEF Phase
  <2>3. recoveryPods' \in [Pods -> RecoveryPodState]
    BY <1>7 DEF HandleRunningRecovery, TypeOK, RecoveryPodState, CreatePod,
                PVCFound, RecoveryPodName
  <2>4. \/ StatusUpdate(SetPhase(cachedStatus, "RecoveryFailed"))
        \/ StatusUpdate(s)
    BY <1>7 DEF HandleRunningRecovery, CreatePod, PVCFound, RecoveryPodName
  <2> HIDE DEF s
  <2> QED BY <1>7, <2>1, <2>2, <2>3, <2>4, UpdateType
          DEF HandleRunningRecovery, TypeOK, CreatePod, PVCFound,
              RecoveryPodName
<1>8. CASE HandleWaitingForRecovery
  <2>1. /\ SetPhase(cachedStatus, "RecoveryComplete") \in Status
        /\ SetPhase(cachedStatus, "RecoveryFailed") \in Status
    BY SetPhaseType DEF Phase
  <2> QED BY <1>8, <2>1, UpdateType DEF HandleWaitingForRecovery, TypeOK,
                                        CheckPodComplete
<1>9. CASE HandleRecoveryComplete
  <2>1. [cachedStatus EXCEPT !.phase = "Monitoring",
                             !.stuckPodName = NoPod,
                             !.recoveryPodName = NoPod,
                             !.volumeSnapshotName = NoSnapshot] \in Status
    BY DEF Status, Phase
  <2> QED BY <1>9, <2>1, UpdateType DEF HandleRecoveryComplete, TypeOK
<1>10. CASE HandleRecoveryFailed
  <2>1. [cachedStatus EXCEPT !.phase = "Monitoring",
                             !.stuckPodName = NoPod,
                             !.recoveryPodName = NoPod] \in Status
    BY DEF Status, Phase
  <2> QED BY <1>10, <2>1, UpdateType DEF HandleRecoveryFailed, TypeOK
<1>11. CASE HandleRateLimited
  <2>1. SetPhase(cachedStatus, "Monitoring") \in Status
    BY SetPhaseType DEF Phase
  <2> QED BY <1>11, <2>1, UpdateType DEF HandleRateLimited, TypeOK
<1> QED BY <1>1, <1>2, <1>3, <1>4, <1>5, <1>6, <1>7, <1>8, <1>9, <1>10, <1>11
        DEF Reconcile

(* Every step of the environment keeps the types.                          *)
LEMMA EnvironmentType == TypeOK /\ Environment => TypeOK'
<1> USE ConstantsAssumption DEF clusterVars, effectVars, objectVars
<1> SUFFICES ASSUME TypeOK, Environment PROVE TypeOK'
  OBVIOUS
<1>1. CASE InformerSync
  BY <1>1 DEF InformerSync, TypeOK
<1>2. CASE ToggleSuspend
  <2>1. suspend' \in BOOLEAN
    BY <1>2, Zenon DEF ToggleSuspend
  <2> QED BY <1>2, <2>1 DEF ToggleSuspend, TypeOK
<1>3. CASE FullNodeChanges
  <2>1. fullNode' \in BOOLEAN
    BY <1>3, Zenon DEF FullNodeChanges
  <2> QED BY <1>3, <2>1 DEF FullNodeChanges, TypeOK
<1>4. CASE APIServerHeals
  BY <1>4 DEF APIServerHeals, TypeOK
<1>5. CASE Tick
  BY <1>5 DEF Tick, TypeOK, Time
<1>6. ASSUME NEW p \in Pods,
             \/ HeightReported(p)
             \/ NodePodChanges(p)
             \/ RecoveryPodEnds(p)
             \/ RecoveryPodDeleted(p)
      PROVE  TypeOK'
  <2>1. CASE HeightReported(p)
    BY <2>1 DEF HeightReported, TypeOK
  <2>2. CASE NodePodChanges(p)
    BY <2>2 DEF NodePodChanges, TypeOK
  <2>3. CASE RecoveryPodEnds(p)
    BY <2>3 DEF RecoveryPodEnds, TypeOK, RecoveryPodState
  <2>4. CASE RecoveryPodDeleted(p)
    BY <2>4 DEF RecoveryPodDeleted, TypeOK, RecoveryPodState
  <2> QED BY <1>6, <2>1, <2>2, <2>3, <2>4
<1>7. ASSUME NEW snap \in Snapshot, SnapshotReady(snap)
      PROVE  TypeOK'
  BY <1>7 DEF SnapshotReady, TypeOK
<1> QED BY <1>1, <1>2, <1>3, <1>4, <1>5, <1>6, <1>7 DEF Environment

(* Type correctness of the controller and its world.                       *)
THEOREM TypeCorrect == Spec => []TypeOK
<1>1. TypeOK /\ [Next]_vars => TypeOK'
  <2> SUFFICES ASSUME TypeOK, [Next]_vars PROVE TypeOK'
    OBVIOUS
  <2>1. CASE Next
    BY <2>1, ReconcileType, EnvironmentType DEF Next
  <2>2. CASE UNCHANGED vars
    BY <2>2 DEF vars, objectVars, clusterVars, effectVars, TypeOK
  <2> QED BY <2>1, <2>2
<1> QED BY <1>1, InitInvariant, PTL DEF Spec

-----------------------------------------------------------------------------
(* What backs a version of the status only grows: time passes, snapshots   *)
(* are added and become ready.                                             *)
LEMMA AttemptCoherentStable ==
  ASSUME TypeOK, TypeOK', NEW s \in Status, AttemptCoherent(s),
         now' >= now,
         snapshots \subseteq snapshots',
         readySnapshots \subseteq readySnapshots'
  PROVE  AttemptCoherent(s)'
<1> USE ConstantsAssumption
<1>a. now \in Nat /\ now' \in Nat
  BY DEF TypeOK, Time
<1>b. s.lastHeightUpdateTime \in Time \cup {NoTime}
  BY DEF Status
<1>1. /\ now \in Nat /\ now' \in Nat
      /\ s.lastHeightUpdateTime # NoTime =>
            s.lastHeightUpdateTime + StuckDuration \in Nat
  BY <1>a, <1>b DEF Time
<1> QED BY <1>1 DEF AttemptCoherent

(* Coherence is kept by a step that leaves the object alone.               *)
LEMMA ObjectUnchangedCoherent ==
  ASSUME TypeOK, TypeOK', Coherent, UNCHANGED objectVars,
         now' >= now,
         snapshots \subseteq snapshots',
         readySnapshots \subseteq readySnapshots'
  PROVE  Coherent'
<1>1. PICK s \in Status : s = status
  BY DEF TypeOK
<1>2. PICK c \in Status : c = cachedStatus
  BY DEF TypeOK
<1>3. AttemptCoherent(s)' /\ AttemptCoherent(c)'
  BY <1>1, <1>2, AttemptCoherentStable DEF Coherent
<1>4. s = status' /\ c = cachedStatus'
  BY <1>1, <1>2 DEF objectVars
<1>5. AttemptCoherent(status)' /\ AttemptCoherent(cachedStatus)'
  BY <1>3, <1>4
<1> QED BY <1>5 DEF Coherent, objectVars

(* Coherence is kept by a Status().Update of a coherent status that, in    *)
(* the phases of an attempt, leaves the record of the attempt alone.       *)
LEMMA UpdateCoherent ==
  ASSUME TypeOK, TypeOK', Coherent, NEW s \in Status, StatusUpdate(s),
         now' = now,
         snapshots \subseteq snapshots',
         readySnapshots \subseteq readySnapshots',
         AttemptCoherent(s)',
         cachedStatus.phase \in AttemptPhases =>
            /\ s.recoveryAttempts = cachedStatus.recoveryAttempts
            /\ s.rateLimitWindowStart = cachedStatus.rateLimitWindowStart
            /\ s.lastHeightUpdateTime = cachedStatus.lastHeightUpdateTime
  PROVE  Coherent'
<1>0. now' >= now
  BY DEF TypeOK, Time
<1>1. CASE NotWritten
  BY <1>0, <1>1, ObjectUnchangedCoherent DEF NotWritten
<1>2. CASE Written(s)
  <2>1. PICK c \in Status : c = cachedStatus
    BY DEF TypeOK
  <2>2. AttemptCoherent(c)'
    BY <1>0, <2>1, AttemptCoherentStable DEF Coherent
  <2>3. c = cachedStatus' /\ s = status'
    BY <1>2, <2>1 DEF Written
  <2>4. AttemptCoherent(status)' /\ AttemptCoherent(cachedStatus)'
    BY <2>2, <2>3
  <2> QED BY <1>2, <2>4 DEF Coherent, Written
<1> QED BY <1>1, <1>2 DEF StatusUpdate

(* The common case: the step changes nothing in the cluster and the status *)
(* it writes differs from the cached one in ways that need no backing.     *)
LEMMA QuietUpdateCoherent ==
  ASSUME TypeOK, TypeOK', Coherent, NEW s \in Status, StatusUpdate(s),
         UNCHANGED <<now, snapshots, readySnapshots>>,
         AttemptCoherent(s),
         cachedStatus.phase \in AttemptPhases =>
            /\ s.recoveryAttempts = cachedStatus.recoveryAttempts
            /\ s.rateLimitWindowStart = cachedStatus.rateLimitWindowStart
            /\ s.lastHeightUpdateTime = cachedStatus.lastHeightUpdateTime
  PROVE  Coherent'
<1>1. now' >= now
  BY DEF TypeOK, Time
<1>2. AttemptCoherent(s)'
  BY <1>1, AttemptCoherentStable
<1> QED BY <1>2, UpdateCoherent

(* Every Reconcile call keeps coherence.                                   *)
LEMMA ReconcileCoherent ==
  ASSUME TypeOK, TypeOK', Coherent, Reconcile
  PROVE  Coherent'
<1> USE ConstantsAssumption DEF clusterVars, effectVars
<1>a. cachedStatus \in Status /\ AttemptCoherent(cachedStatus)
  BY DEF TypeOK, Coherent
(* A status whose phase needs no backing inherits the bound on attempts.   *)
<1>b. ASSUME NEW ph \in Phase \ (AttemptPhases \cup {"HeightStuck"}),
             StatusUpdate(SetPhase(cachedStatus, ph)),
             UNCHANGED <<now, snapshots, readySnapshots>>
      PROVE  Coherent'
  <2>1. SetPhase(cachedStatus, ph) \in Status
    BY <1>a, SetPhaseType
  <2>2. AttemptCoherent(SetPhase(cachedStatus, ph))
    BY <1>a DEF AttemptCoherent, SetPhase, AttemptPhases, Status
  <2>3. \A f \in {"recoveryAttempts", "rateLimitWindowStart",
                  "lastHeightUpdateTime"} :
           SetPhase(cachedStatus, ph)[f] = cachedStatus[f]
    BY <1>a DEF SetPhase, Status
  <2>4. PICK s \in Status : s = SetPhase(cachedStatus, ph)
    BY <2>1
  <2> QED
    BY <1>b, <2>2, <2>3, <2>4, QuietUpdateCoherent
<1>1. CASE ReconcileSuspended
  BY <1>1, <1>b DEF ReconcileSuspended, Phase, AttemptPhases
<1>2. CASE ReconcileNoFullNode
  BY <1>2, <1>b DEF ReconcileNoFullNode, Phase, AttemptPhases
<1>3. CASE HandleMonitoring
  <2>1. PICK p \in Pods : \/ HandleMonitoringError(p)
                          \/ HandleMonitoringChanged(p)
                          \/ HandleMonitoringSame(p)
    BY <1>3 DEF HandleMonitoring
  <2>2. CASE HandleMonitoringError(p)
    BY <1>a, <2>2, QuietUpdateCoherent DEF HandleMonitoringError
  <2>3. CASE HandleMonitoringChanged(p)
    <3> DEFINE r == ResetWindow([cachedStatus EXCEPT
                                   !.lastObservedHeight = height[p],
                                   !.lastHeightUpdateTime = now])
    <3>1. /\ r.phase = cachedStatus.phase
          /\ r.recoveryAttempts = 0
          /\ r \in Status
      <4>1. height[p] \in Heights \cup {NoHeight} /\ now \in Time
        BY DEF TypeOK
      <4>2. [cachedStatus EXCEPT !.lastObservedHeight = height[p],
                                 !.lastHeightUpdateTime = now] \in Status
        BY <1>a, <4>1 DEF Status
      <4> QED BY <1>a, <4>2 DEF ResetWindow, Status
    <3>2. cachedStatus.phase \in {"Started", "Monitoring"}
      BY <2>3 DEF HandleMonitoringChanged, Handling
    <3> HIDE DEF r
    <3>3. SetPhase(r, "Monitoring") \in Status
      BY <3>1, SetPhaseType DEF Phase
    <3>4. AttemptCoherent(r) /\ AttemptCoherent(SetPhase(r, "Monitoring"))
      BY <3>1, <3>2 DEF AttemptCoherent, SetPhase, AttemptPhases, Status
    <3>5. StatusUpdate(r) \/ StatusUpdate(SetPhase(r, "Monitoring"))
      BY <2>3 DEF HandleMonitoringChanged, StatusUpdate, r
    <3>6. UNCHANGED <<now, snapshots, readySnapshots>>
      BY <2>3 DEF HandleMonitoringChanged
    <3>7. cachedStatus.phase \notin AttemptPhases
      BY <3>2 DEF AttemptPhases
    <3>8. CASE StatusUpdate(r)
      <4>1. PICK s \in Status : s = r
        BY <3>1
      <4> QED BY <3>4, <3>6, <3>7, <3>8, <4>1, QuietUpdateCoherent
    <3>9. CASE StatusUpdate(SetPhase(r, "Monitoring"))
      <4>1. PICK s \in Status : s = SetPhase(r, "Monitoring")
        BY <3>3
      <4> QED BY <3>4, <3>6, <3>7, <3>9, <4>1, QuietUpdateCoherent
    <3> QED BY <3>5, <3>8, <3>9
  <2>4. CASE HandleMonitoringSame(p)
    <3>1. /\ cachedStatus.phase \notin AttemptPhases
          /\ UNCHANGED <<now, snapshots, readySnapshots>>
      BY <2>4 DEF HandleMonitoringSame, Handling, AttemptPhases
    <3>2. CASE CheckStuckHeight(cachedStatus, p)
      <4> DEFINE r == [cachedStatus EXCEPT !.phase = "HeightStuck",
                                           !.stuckPodName = p]
      <4>1. r \in Status
        BY <1>a DEF Status, Phase
      <4>2. AttemptCoherent(r)
        BY <1>a, <3>2
           DEF AttemptCoherent, AttemptPhases, Status, CheckStuckHeight
      <4>3. StatusUpdate(r)
        BY <2>4, <3>2 DEF HandleMonitoringSame
      <4>4. PICK s \in Status : s = r
        BY <4>1
      <4> HIDE DEF r
      <4> QED BY <3>1, <4>2, <4>3, <4>4, QuietUpdateCoherent
    <3>3. CASE ~CheckStuckHeight(cachedStatus, p)
      BY <1>b, <2>4, <3>1, <3>3 DEF HandleMonitoringSame, Phase, AttemptPhases
    <3> QED BY <3>2, <3>3
  <2> QED BY <2>1, <2>2, <2>3, <2>4
<1>4. CASE HandleHeightStuck
  <2>1. /\ cachedStatus.phase = "HeightStuck"
        /\ cachedStatus.phase \notin AttemptPhases
        /\ UNCHANGED <<now, snapshots, readySnapshots>>
    BY <1>4 DEF HandleHeightStuck, Handling, AttemptPhases
  <2>2. CASE ~CanAttemptRecovery(cachedStatus)
    BY <1>b, <1>4, <2>1, <2>2 DEF HandleHeightStuck, Phase, AttemptPhases
  <2>3. CASE CanAttemptRecovery(cachedStatus)
    <3> DEFINE next == IF CreateVolumeSnapshot THEN "CreatingSnapshot"
                                               ELSE "RunningRecovery"
               r == SetPhase(RecordAttempt(cachedStatus), next)
    <3>2. /\ next \in {"CreatingSnapshot", "RunningRecovery"}
          /\ next = "RunningRecovery" => ~CreateVolumeSnapshot
      OBVIOUS
    <3>0. StatusUpdate(r)
      BY <1>4, <2>3 DEF HandleHeightStuck, StatusUpdate
    <3> HIDE DEF next
    <3>1. /\ r \in Status
          /\ r.phase = next
          /\ r.recoveryAttempts \in 1..MaxRetries
          /\ r.rateLimitWindowStart # NoTime
          /\ r.lastHeightUpdateTime = cachedStatus.lastHeightUpdateTime
      <4>1. CASE WindowOver(cachedStatus)
        <5>1. r = [cachedStatus EXCEPT !.rateLimitWindowStart = now,
                                       !.recoveryAttempts = 1,
                                       !.phase = next]
          BY <1>a, <4>1 DEF RecordAttempt, SetPhase, Status
        <5>2. now \in Time /\ now # NoTime
          BY DEF TypeOK, Time
        <5>3. r \in Status
          BY <1>a, <3>2, RecordAttemptType, SetPhaseType DEF Phase
        <5> QED BY <1>a, <5>1, <5>2, <5>3 DEF Status
      <4>2. CASE ~WindowOver(cachedStatus)
        <5>1. r = [cachedStatus EXCEPT
                     !.recoveryAttempts = cachedStatus.recoveryAttempts + 1,
                     !.phase = next]
          BY <1>a, <4>2 DEF RecordAttempt, SetPhase, Status
        <5>2. cachedStatus.recoveryAttempts + 1 \in 1..MaxRetries
          BY <1>a, <2>3, <4>2 DEF CanAttemptRecovery, Status
        <5>3. cachedStatus.rateLimitWindowStart # NoTime
          BY <4>2 DEF WindowOver
        <5>4. r \in Status
          BY <1>a, <3>2, RecordAttemptType, SetPhaseType DEF Phase
        <5> QED BY <1>a, <5>1, <5>2, <5>3, <5>4 DEF Status
      <4> QED BY <4>1, <4>2
    <3>3. /\ r.lastHeightUpdateTime # NoTime
          /\ now >= r.lastHeightUpdateTime + StuckDuration
      BY <1>a, <2>1, <3>1 DEF AttemptCoherent
    <3> HIDE DEF r
    <3>5. AttemptCoherent(r)
      BY <3>1, <3>2, <3>3 DEF AttemptCoherent, AttemptPhases
    <3>6. PICK s \in Status : s = r
      BY <3>1
    <3> QED BY <2>1, <3>0, <3>5, <3>6, QuietUpdateCoherent
  <2> QED BY <2>2, <2>3
<1>5. CASE HandleCreatingSnapshot
  <2> DEFINE p == cachedStatus.stuckPodName
             snap == <<p, now>>
             r == [cachedStatus EXCEPT !.volumeSnapshotName = snap,
                                       !.phase = "WaitingForSnapshot"]
  <2>1. CASE StatusUpdate(SetPhase(cachedStatus, "RecoveryFailed"))
    <3>1. PICK s \in Status : s = SetPhase(cachedStatus, "RecoveryFailed")
      BY <1>a, SetPhaseType DEF Phase
    <3>2. /\ s.phase = "RecoveryFailed"
          /\ s.recoveryAttempts = cachedStatus.recoveryAttempts
          /\ s.rateLimitWindowStart = cachedStatus.rateLimitWindowStart
          /\ s.lastHeightUpdateTime = cachedStatus.lastHeightUpdateTime
      BY <1>a, <3>1 DEF SetPhase, Status
    <3>3. cachedStatus.recoveryAttempts <= MaxRetries
      BY <1>a DEF AttemptCoherent
    <3>4. AttemptCoherent(s)'
      BY <3>2, <3>3 DEF AttemptCoherent, AttemptPhases
    <3>5. /\ now' = now /\ readySnapshots' = readySnapshots
          /\ snapshots \subseteq snapshots'
      BY <1>5 DEF HandleCreatingSnapshot, CreateSnapshot, PVCFound,
                  SnapshotName
    <3> QED BY <2>1, <3>1, <3>2, <3>4, <3>5, UpdateCoherent
  <2>2. CASE p \in pods /\ StatusUpdate(r) /\ snapshots' = snapshots \cup {snap}
    <3>1. p \in Pods /\ now \in Time
      BY <2>2 DEF TypeOK
    <3>2. r \in Status
      BY <1>a, <3>1 DEF Status, Snapshot, Phase
    <3>3. PICK s \in Status : s = r
      BY <3>2
    <3>4. /\ s.phase = "WaitingForSnapshot"
          /\ s.volumeSnapshotName = snap
          /\ s.stuckPodName = p
          /\ s.recoveryAttempts = cachedStatus.recoveryAttempts
          /\ s.rateLimitWindowStart = cachedStatus.rateLimitWindowStart
          /\ s.lastHeightUpdateTime = cachedStatus.lastHeightUpdateTime
      BY <1>a, <3>3 DEF Status
    <3>5. /\ cachedStatus.recoveryAttempts <= MaxRetries
          /\ cachedStatus.recoveryAttempts >= 1
          /\ cachedStatus.rateLimitWindowStart # NoTime
          /\ cachedStatus.lastHeightUpdateTime # NoTime
          /\ now >= cachedStatus.lastHeightUpdateTime + StuckDuration
      BY <1>a, <1>5
         DEF AttemptCoherent, HandleCreatingSnapshot, Handling, AttemptPhases,
             CreateSnapshot, PVCFound, SnapshotName
    <3>6. now' = now /\ readySnapshots' = readySnapshots
      BY <1>5 DEF HandleCreatingSnapshot, CreateSnapshot, PVCFound,
                  SnapshotName
    <3>7. snap \in snapshots' /\ snap[1] = p /\ snap[2] = now
      BY <2>2
    <3> HIDE DEF snap, p, r
    <3>8. AttemptCoherent(s)'
      BY <3>4, <3>5, <3>6, <3>7 DEF AttemptCoherent, AttemptPhases
    <3> QED BY <2>2, <3>3, <3>4, <3>6, <3>8, UpdateCoherent
  <2> QED BY <1>5, <2>1, <2>2 DEF HandleCreatingSnapshot, CreateSnapshot,
                                  PVCFound, SnapshotName
<1>6. CASE HandleWaitingForSnapshot
  <2>1. /\ cachedStatus.phase = "WaitingForSnapshot"
        /\ cachedStatus.volumeSnapshotName \in readySnapshots
        /\ UNCHANGED <<now, snapshots, readySnapshots>>
        /\ StatusUpdate(SetPhase(cachedStatus, "RunningRecovery"))
    BY <1>6 DEF HandleWaitingForSnapshot, Handling, CheckSnapshotReady
  <2>2. PICK s \in Status : s = SetPhase(cachedStatus, "RunningRecovery")
    BY <1>a, SetPhaseType DEF Phase
  <2>3. /\ s.phase = "RunningRecovery"
        /\ s.volumeSnapshotName = cachedStatus.volumeSnapshotName
        /\ s.stuckPodName = cachedStatus.stuckPodName
        /\ s.recoveryAttempts = cachedStatus.recoveryAttempts
        /\ s.rateLimitWindowStart = cachedStatus.rateLimitWindowStart
        /\ s.lastHeightUpdateTime = cachedStatus.lastHeightUpdateTime
    BY <1>a, <2>2 DEF SetPhase, Status
  <2>4. AttemptCoherent(s)
    BY <1>a, <2>1, <2>3 DEF AttemptCoherent, AttemptPhases
  <2> QED BY <2>1, <2>2, <2>3, <2>4, QuietUpdateCoherent
<1>7. CASE HandleRunningRecovery
  <2> DEFINE r == [cachedStatus EXCEPT
                     !.recoveryPodName = cachedStatus.stuckPodName,
                     !.phase = "WaitingForRecovery"]
  <2>1. UNCHANGED <<now, snapshots, readySnapshots>>
    BY <1>7 DEF HandleRunningRecovery, CreatePod, PVCFound, RecoveryPodName
  <2>2. CASE StatusUpdate(SetPhase(cachedStatus, "RecoveryFailed"))
    BY <1>b, <2>1, <2>2 DEF Phase, AttemptPhases
  <2>3. CASE StatusUpdate(r)
    <3>1. r \in Status
      BY <1>a DEF Status, Phase
    <3>2. PICK s \in Status : s = r
      BY <3>1
    <3>3. /\ s.phase = "WaitingForRecovery"
          /\ s.recoveryAttempts = cachedStatus.recoveryAttempts
          /\ s.rateLimitWindowStart = cachedStatus.rateLimitWindowStart
          /\ s.lastHeightUpdateTime = cachedStatus.lastHeightUpdateTime
      BY <1>a, <3>2 DEF Status
    <3> HIDE DEF r
    <3>4. AttemptCoherent(s)
      BY <1>a, <3>3 DEF AttemptCoherent, AttemptPhases
    <3> QED BY <2>1, <2>3, <3>2, <3>3, <3>4, QuietUpdateCoherent
  <2> QED BY <1>7, <2>2, <2>3 DEF HandleRunningRecovery, CreatePod, PVCFound,
                                  RecoveryPodName
<1>8. CASE HandleWaitingForRecovery
  BY <1>8, <1>b DEF HandleWaitingForRecovery, Phase, AttemptPhases,
                    CheckPodComplete
<1>9. CASE HandleRecoveryComplete
  <2> DEFINE r == [cachedStatus EXCEPT !.phase = "Monitoring",
                                       !.stuckPodName = NoPod,
                                       !.recoveryPodName = NoPod,
                                       !.volumeSnapshotName = NoSnapshot]
  <2>1. r \in Status /\ r.phase = "Monitoring"
        /\ r.recoveryAttempts = cachedStatus.recoveryAttempts
    BY <1>a DEF Status, Phase
  <2>2. StatusUpdate(r) /\ UNCHANGED <<now, snapshots, readySnapshots>>
    BY <1>9 DEF HandleRecoveryComplete
  <2>3. cachedStatus.phase \notin AttemptPhases
    BY <1>9 DEF HandleRecoveryComplete, Handling, AttemptPhases
  <2>4. PICK s \in Status : s = r
    BY <2>1
  <2> HIDE DEF r
  <2>5. AttemptCoherent(s)
    BY <1>a, <2>1, <2>4 DEF AttemptCoherent, AttemptPhases
  <2> QED BY <2>2, <2>3, <2>4, <2>5, QuietUpdateCoherent
<1>10. CASE HandleRecoveryFailed
  <2> DEFINE r == [cachedStatus EXCEPT !.phase = "Monitoring",
                                       !.stuckPodName = NoPod,
                                       !.recoveryPodName = NoPod]
  <2>1. r \in Status /\ r.phase = "Monitoring"
        /\ r.recoveryAttempts = cachedStatus.recoveryAttempts
    BY <1>a DEF Status, Phase
  <2>2. StatusUpdate(r) /\ UNCHANGED <<now, snapshots, readySnapshots>>
    BY <1>10 DEF HandleRecoveryFailed
  <2>3. cachedStatus.phase \notin AttemptPhases
    BY <1>10 DEF HandleRecoveryFailed, Handling, AttemptPhases
  <2>4. PICK s \in Status : s = r
    BY <2>1
  <2> HIDE DEF r
  <2>5. AttemptCoherent(s)
    BY <1>a, <2>1, <2>4 DEF AttemptCoherent, AttemptPhases
  <2> QED BY <2>2, <2>3, <2>4, <2>5, QuietUpdateCoherent
<1>11. CASE HandleRateLimited
  <2>1. UNCHANGED <<now, snapshots, readySnapshots>>
    BY <1>11 DEF HandleRateLimited
  <2>2. CASE StatusUpdate(cachedStatus)
    BY <1>a, <2>1, <2>2, QuietUpdateCoherent
  <2>3. CASE StatusUpdate(SetPhase(cachedStatus, "Monitoring"))
    BY <1>b, <2>1, <2>3 DEF Phase, AttemptPhases
  <2> QED BY <1>11, <2>2, <2>3 DEF HandleRateLimited
<1> QED BY <1>1, <1>2, <1>3, <1>4, <1>5, <1>6, <1>7, <1>8, <1>9, <1>10, <1>11
        DEF Reconcile

(* Every step of the environment keeps coherence.                          *)
LEMMA EnvironmentCoherent ==
  ASSUME TypeOK, TypeOK', Coherent, Environment
  PROVE  Coherent'
<1> USE ConstantsAssumption DEF clusterVars, effectVars
<1>0. now \in Nat
  BY DEF TypeOK, Time
<1>1. CASE InformerSync
  <2>1. PICK s \in Status : s = status
    BY DEF TypeOK
  <2>2. AttemptCoherent(s)'
    BY <1>0, <1>1, <2>1, AttemptCoherentStable DEF InformerSync, Coherent
  <2>3. s = status' /\ s = cachedStatus' /\ suspend' = cachedSuspend'
    BY <1>1, <2>1 DEF InformerSync
  <2>4. AttemptCoherent(status)' /\ AttemptCoherent(cachedStatus)'
    BY <2>2, <2>3
  <2> QED BY <2>3, <2>4 DEF Coherent
<1>2. CASE ToggleSuspend
  <2>1. PICK s \in Status : s = status
    BY DEF TypeOK
  <2>2. PICK c \in Status : c = cachedStatus
    BY DEF TypeOK
  <2>3. AttemptCoherent(s)' /\ AttemptCoherent(c)'
    BY <1>0, <1>2, <2>1, <2>2, AttemptCoherentStable
       DEF ToggleSuspend, Coherent
  <2>4. s = status' /\ c = cachedStatus'
    BY <1>2, <2>1, <2>2 DEF ToggleSuspend
  <2>5. AttemptCoherent(status)' /\ AttemptCoherent(cachedStatus)'
    BY <2>3, <2>4
  <2> QED BY <1>2, <2>5 DEF Coherent, ToggleSuspend
<1>3. CASE FullNodeChanges
  BY <1>0, <1>3, ObjectUnchangedCoherent DEF FullNodeChanges
<1>4. CASE APIServerHeals
  BY <1>0, <1>4, ObjectUnchangedCoherent DEF APIServerHeals
<1>5. CASE Tick
  BY <1>0, <1>5, ObjectUnchangedCoherent DEF Tick
<1>6. ASSUME NEW p \in Pods,
             \/ HeightReported(p)
             \/ NodePodChanges(p)
             \/ RecoveryPodEnds(p)
             \/ RecoveryPodDeleted(p)
      PROVE  Coherent'
  BY <1>0, <1>6, ObjectUnchangedCoherent
     DEF HeightReported, NodePodChanges, RecoveryPodEnds, RecoveryPodDeleted
<1>7. ASSUME NEW snap \in Snapshot, SnapshotReady(snap)
      PROVE  Coherent'
  BY <1>0, <1>7, ObjectUnchangedCoherent DEF SnapshotReady
<1> QED BY <1>1, <1>2, <1>3, <1>4, <1>5, <1>6, <1>7 DEF Environment

(* Every version of the status a Reconcile call may act on is coherent     *)
(* with the cluster, in spite of stale reads, conflicts and lost writes.   *)
THEOREM StatusCoherent == Spec => []Coherent
<1>1. TypeOK /\ TypeOK' /\ Coherent /\ [Next]_vars => Coherent'
  <2> SUFFICES ASSUME TypeOK, TypeOK', Coherent, [Next]_vars PROVE Coherent'
    OBVIOUS
  <2>1. CASE Next
    BY <2>1, ReconcileCoherent, EnvironmentCoherent DEF Next
  <2>2. CASE UNCHANGED vars
    <3>1. now' >= now
      BY <2>2, ConstantsAssumption DEF vars, clusterVars, TypeOK, Time
    <3> QED BY <2>2, <3>1, ObjectUnchangedCoherent
            DEF vars, clusterVars, effectVars
  <2> QED BY <2>1, <2>2
<1> QED BY <1>1, InitInvariant, TypeCorrect, PTL DEF Spec

-----------------------------------------------------------------------------
(* A recovery pod is only created by handleRunningRecovery, for the stuck  *)
(* pod the controller has cached.                                          *)
LEMMA ScriptStartsOnlyInRunningRecovery ==
  ASSUME TypeOK, Next, NEW p \in Pods, ScriptStarts(p)
  PROVE  /\ HandleRunningRecovery
         /\ cachedStatus.phase = "RunningRecovery"
         /\ cachedStatus.stuckPodName = p
<1> USE DEF clusterVars, effectVars, objectVars
<1>1. recoveryPods' # recoveryPods /\ recoveryPods[p] = "absent"
  BY DEF ScriptStarts
<1>2. ~Environment
  <2>1. ~(\E q \in Pods : RecoveryPodEnds(q) \/ RecoveryPodDeleted(q))
    BY DEF RecoveryPodEnds, RecoveryPodDeleted, ScriptStarts, TypeOK
  <2> QED BY <1>1, <2>1
      DEF Environment, InformerSync, ToggleSuspend, FullNodeChanges,
          APIServerHeals, Tick, HeightReported, NodePodChanges, SnapshotReady
<1>3. HandleRunningRecovery
  BY <1>1, <1>2
     DEF Next, Reconcile, ReconcileSuspended, ReconcileNoFullNode,
         HandleMonitoring, HandleMonitoringError, HandleMonitoringChanged,
         HandleMonitoringSame, HandleHeightStuck, HandleCreatingSnapshot,
         HandleWaitingForSnapshot, HandleWaitingForRecovery,
         HandleRecoveryComplete, HandleRecoveryFailed, HandleRateLimited,
         CheckPodComplete, CheckSnapshotReady, CreateSnapshot, PVCFound,
         SnapshotName
<1>4. cachedStatus.stuckPodName = p
  BY <1>3 DEF HandleRunningRecovery, ScriptStarts, TypeOK, CreatePod, PVCFound,
              RecoveryPodName
<1> QED BY <1>3, <1>4 DEF HandleRunningRecovery, Handling, CreatePod, PVCFound,
                          RecoveryPodName

(* The invariant behind SnapshotBeforeScript.  No attempt is recorded in   *)
(* the future; a version of the status that has passed CreatingSnapshot    *)
(* names a snapshot no older than any attempt on record; and a cached      *)
(* version that lets a script start names the one the API server names.    *)
AttemptFresh(s) ==
    \/ s.phase = "WaitingForSnapshot"
    \/ s.phase = "RunningRecovery" /\ CreateVolumeSnapshot
    => \A t \in Time : attemptLog[t] > 0 => t <= s.volumeSnapshotName[2]

Fresh ==
    /\ \A t \in Time : attemptLog[t] > 0 => t <= now
    /\ AttemptFresh(status)
    /\ AttemptFresh(cachedStatus)
    /\ cachedStatus.phase = "RunningRecovery" =>
          status.volumeSnapshotName = cachedStatus.volumeSnapshotName

(* Fresh is kept by a Status().Update of a fresh status that does not      *)
(* rename the snapshot once the script may run.                            *)
LEMMA UpdateFresh ==
  ASSUME Fresh, NEW s, StatusUpdate(s), UNCHANGED <<attemptLog, now>>,
         AttemptFresh(s),
         cachedStatus.phase = "RunningRecovery" =>
            s.volumeSnapshotName = cachedStatus.volumeSnapshotName
  PROVE  Fresh'
<1> USE DEF Fresh, AttemptFresh, objectVars
<1>1. CASE Written(s)
  BY <1>1 DEF Written
<1>2. CASE NotWritten
  BY <1>2 DEF NotWritten
<1> QED BY <1>1, <1>2 DEF StatusUpdate

(* So it is by an update that only sets a phase which needs no snapshot.   *)
LEMMA PhaseFresh ==
  ASSUME TypeOK, Fresh, NEW ph \in Phase,
         StatusUpdate(SetPhase(cachedStatus, ph)),
         UNCHANGED <<attemptLog, now>>,
         ph \notin {"WaitingForSnapshot", "RunningRecovery"}
  PROVE  Fresh'
<1>1. /\ SetPhase(cachedStatus, ph).phase = ph
      /\ SetPhase(cachedStatus, ph).volumeSnapshotName
            = cachedStatus.volumeSnapshotName
  BY DEF TypeOK, SetPhase, Status
<1> QED BY <1>1, UpdateFresh DEF AttemptFresh

(* Every Reconcile call keeps Fresh.                                       *)
LEMMA ReconcileFresh ==
  ASSUME TypeOK, Coherent, Fresh, Reconcile
  PROVE  Fresh'
<1> USE DEF clusterVars, effectVars
<1>a. cachedStatus \in Status /\ AttemptFresh(cachedStatus)
  BY DEF TypeOK, Fresh
<1>1. CASE ReconcileSuspended
  BY <1>1, PhaseFresh DEF ReconcileSuspended, Phase
<1>2. CASE ReconcileNoFullNode
  BY <1>2, PhaseFresh DEF ReconcileNoFullNode, Phase
<1>3. ASSUME NEW p \in Pods, HandleMonitoringError(p) PROVE Fresh'
  BY <1>3, <1>a, UpdateFresh DEF HandleMonitoringError
<1>4. ASSUME NEW p \in Pods, HandleMonitoringChanged(p) PROVE Fresh'
  <2>1. CASE NotWritten /\ UNCHANGED attemptLog
    BY <1>4, <2>1 DEF HandleMonitoringChanged, NotWritten, Fresh,
                      AttemptFresh, objectVars
  <2>2. CASE ~(NotWritten /\ UNCHANGED attemptLog)
    <3>1. /\ attemptLog' = [t \in Time |-> 0]
          /\ cachedStatus' = cachedStatus
          /\ cachedStatus.phase # "RunningRecovery"
      BY <1>4, <2>2 DEF HandleMonitoringChanged, Written, Handling
    <3>2. \A t \in Time : ~(attemptLog'[t] > 0)
      BY <3>1
    <3> QED BY <3>1, <3>2 DEF Fresh, AttemptFresh
  <2> QED BY <2>1, <2>2
<1>5. ASSUME NEW p \in Pods, HandleMonitoringSame(p) PROVE Fresh'
  <2> DEFINE r == [cachedStatus EXCEPT !.phase = "HeightStuck",
                                       !.stuckPodName = p]
  <2>1. r.phase = "HeightStuck"
    BY <1>a DEF Status
  <2>2. /\ StatusUpdate(r) \/ StatusUpdate(SetPhase(cachedStatus, "Monitoring"))
        /\ cachedStatus.phase # "RunningRecovery"
        /\ UNCHANGED <<attemptLog, now>>
    BY <1>5 DEF HandleMonitoringSame, Handling
  <2> HIDE DEF r
  <2>3. AttemptFresh(r)
    BY <2>1 DEF AttemptFresh
  <2>4. CASE StatusUpdate(r)
    BY <2>2, <2>3, <2>4, UpdateFresh
  <2>5. CASE StatusUpdate(SetPhase(cachedStatus, "Monitoring"))
    BY <2>2, <2>5, PhaseFresh DEF Phase
  <2> QED BY <2>2, <2>4, <2>5
<1>6. CASE HandleHeightStuck
  <2> DEFINE next == IF CreateVolumeSnapshot THEN "CreatingSnapshot"
                                             ELSE "RunningRecovery"
             r == SetPhase(RecordAttempt(cachedStatus), next)
  <2>1. CASE UNCHANGED attemptLog /\ NotWritten
    BY <1>6, <2>1 DEF HandleHeightStuck, NotWritten, Fresh, AttemptFresh,
                      objectVars
  <2>2. CASE /\ UNCHANGED attemptLog
             /\ StatusUpdate(SetPhase(cachedStatus, "RateLimited"))
    BY <1>6, <2>2, PhaseFresh DEF HandleHeightStuck, Phase
  <2>3. CASE /\ Written(r)
             /\ attemptLog' = [attemptLog EXCEPT ![now] = @ + 1]
    <3>1. /\ status' = r /\ now' = now
          /\ cachedStatus' = cachedStatus
          /\ cachedStatus.phase = "HeightStuck"
      BY <1>6, <2>3 DEF HandleHeightStuck, Written, Handling
    <3>2. RecordAttempt(cachedStatus) \in Status
      BY <1>a, RecordAttemptType
    <3>3. status'.phase = next
      BY <3>1, <3>2 DEF SetPhase, Status
    <3>4. AttemptFresh(status)' /\ AttemptFresh(cachedStatus)'
      BY <3>1, <3>3 DEF AttemptFresh
    <3>5. \A t \in Time : attemptLog'[t] > 0 => t <= now'
      <4> SUFFICES ASSUME NEW t \in Time, attemptLog'[t] > 0
                   PROVE  t <= now
        BY <3>1
      <4>1. CASE t = now
        BY <4>1, ConstantsAssumption DEF Time
      <4>2. CASE t # now
        BY <2>3, <4>2 DEF TypeOK, Fresh
      <4> QED BY <4>1, <4>2
    <3> QED BY <3>1, <3>4, <3>5 DEF Fresh
  <2> QED BY <1>6, <2>1, <2>2, <2>3 DEF HandleHeightStuck
<1>7. CASE HandleCreatingSnapshot
  <2> DEFINE r == [cachedStatus EXCEPT
                     !.volumeSnapshotName = <<cachedStatus.stuckPodName, now>>,
                     !.phase = "WaitingForSnapshot"]
  <2>1. r.volumeSnapshotName[2] = now
    BY <1>a DEF Status
  <2>2. /\ \/ StatusUpdate(r)
           \/ StatusUpdate(SetPhase(cachedStatus, "RecoveryFailed"))
        /\ cachedStatus.phase # "RunningRecovery"
        /\ UNCHANGED <<attemptLog, now>>
    BY <1>7 DEF HandleCreatingSnapshot, CreateSnapshot, PVCFound, SnapshotName,
                Handling
  <2> HIDE DEF r
  <2>3. AttemptFresh(r)
    BY <2>1 DEF AttemptFresh, Fresh
  <2>4. CASE StatusUpdate(r)
    BY <2>2, <2>3, <2>4, UpdateFresh
  <2>5. CASE StatusUpdate(SetPhase(cachedStatus, "RecoveryFailed"))
    BY <2>2, <2>5, PhaseFresh DEF Phase
  <2> QED BY <2>2, <2>4, <2>5
<1>8. CASE HandleWaitingForSnapshot
  <2> DEFINE r == SetPhase(cachedStatus, "RunningRecovery")
  <2>1. r.volumeSnapshotName = cachedStatus.volumeSnapshotName
    BY <1>a DEF SetPhase, Status
  <2>2. /\ StatusUpdate(r)
        /\ cachedStatus.phase = "WaitingForSnapshot"
        /\ UNCHANGED <<attemptLog, now>>
    BY <1>8 DEF HandleWaitingForSnapshot, Handling
  <2> HIDE DEF r
  <2>3. AttemptFresh(r)
    BY <1>a, <2>1, <2>2 DEF AttemptFresh
  <2> QED BY <2>1, <2>2, <2>3, UpdateFresh
<1>9. CASE HandleRunningRecovery
  <2> DEFINE r == [cachedStatus EXCEPT
                     !.recoveryPodName = cachedStatus.stuckPodName,
                     !.phase = "WaitingForRecovery"]
  <2>1. /\ r.phase = "WaitingForRecovery"
        /\ r.volumeSnapshotName = cachedStatus.volumeSnapshotName
    BY <1>a DEF Status
  <2>2. /\ \/ StatusUpdate(r)
           \/ StatusUpdate(SetPhase(cachedStatus, "RecoveryFailed"))
        /\ UNCHANGED <<attemptLog, now>>
    BY <1>9 DEF HandleRunningRecovery, CreatePod, PVCFound, RecoveryPodName
  <2> HIDE DEF r
  <2>3. AttemptFresh(r)
    BY <2>1 DEF AttemptFresh
  <2>4. CASE StatusUpdate(r)
    BY <2>1, <2>2, <2>3, <2>4, UpdateFresh
  <2>5. CASE StatusUpdate(SetPhase(cachedStatus, "RecoveryFailed"))
    BY <2>2, <2>5, PhaseFresh DEF Phase
  <2> QED BY <2>2, <2>4, <2>5
<1>10. CASE HandleWaitingForRecovery
  BY <1>10, PhaseFresh DEF HandleWaitingForRecovery, Phase
<1>11. CASE HandleRecoveryComplete \/ HandleRecoveryFailed
  <2> DEFINE r == [cachedStatus EXCEPT !.phase = "Monitoring",
                                       !.stuckPodName = NoPod,
                                       !.recoveryPodName = NoPod,
                                       !.volumeSnapshotName = NoSnapshot]
             q == [cachedStatus EXCEPT !.phase = "Monitoring",
                                       !.stuckPodName = NoPod,
                                       !.recoveryPodName = NoPod]
  <2>1. r.phase = "Monitoring" /\ q.phase = "Monitoring"
    BY <1>a DEF Status
  <2>2. /\ StatusUpdate(r) \/ StatusUpdate(q)
        /\ cachedStatus.phase # "RunningRecovery"
        /\ UNCHANGED <<attemptLog, now>>
    BY <1>11 DEF HandleRecoveryComplete, HandleRecoveryFailed, Handling
  <2> HIDE DEF r, q
  <2>3. AttemptFresh(r) /\ AttemptFresh(q)
    BY <2>1 DEF AttemptFresh
  <2> QED BY <2>2, <2>3, UpdateFresh
<1>12. CASE HandleRateLimited
  <2>1. /\ \/ StatusUpdate(cachedStatus)
           \/ StatusUpdate(SetPhase(cachedStatus, "Monitoring"))
        /\ UNCHANGED <<attemptLog, now>>
    BY <1>12 DEF HandleRateLimited
  <2>2. CASE StatusUpdate(cachedStatus)
    BY <1>a, <2>1, <2>2, UpdateFresh
  <2>3. CASE StatusUpdate(SetPhase(cachedStatus, "Monitoring"))
    BY <2>1, <2>3, PhaseFresh DEF Phase
  <2> QED BY <2>1, <2>2, <2>3
<1> QED BY <1>1, <1>2, <1>3, <1>4, <1>5, <1>6, <1>7, <1>8, <1>9, <1>10,
           <1>11, <1>12 DEF Reconcile, HandleMonitoring

(* So does every step of the environment.                                  *)
LEMMA EnvironmentFresh ==
  ASSUME TypeOK, Fresh, Environment
  PROVE  Fresh'
<1> USE DEF clusterVars, effectVars, objectVars
<1>1. CASE InformerSync
  BY <1>1 DEF InformerSync, Fresh, AttemptFresh
<1>2. CASE Tick
  <2>1. \A t \in Time : t \in Nat /\ now \in Nat /\ now' = now + 1
    BY <1>2, ConstantsAssumption DEF Tick, TypeOK, Time
  <2>2. \A t \in Time : attemptLog[t] > 0 => t <= now'
    BY <2>1 DEF Fresh
  <2> QED BY <1>2, <2>2 DEF Tick, Fresh, AttemptFresh
<1>3. CASE ~InformerSync /\ ~Tick
  <2>1. UNCHANGED <<status, cachedStatus, attemptLog, now>>
    BY <1>3 DEF Environment, ToggleSuspend, FullNodeChanges, APIServerHeals,
                HeightReported, NodePodChanges, RecoveryPodEnds,
                RecoveryPodDeleted, SnapshotReady
  <2> QED BY <2>1 DEF Fresh, AttemptFresh
<1> QED BY <1>1, <1>2, <1>3

(* Fresh is an invariant.                                                  *)
LEMMA FreshInvariant == Spec => []Fresh
<1>1. Init => Fresh
  BY DEF Init, Fresh, AttemptFresh, EmptyStatus
<1>2. TypeOK /\ Coherent /\ Fresh /\ [Next]_vars => Fresh'
  <2> SUFFICES ASSUME TypeOK, Coherent, Fresh, [Next]_vars PROVE Fresh'
    OBVIOUS
  <2>1. CASE Next
    BY <2>1, ReconcileFresh, EnvironmentFresh DEF Next
  <2>2. CASE UNCHANGED vars
    BY <2>2 DEF vars, objectVars, clusterVars, Fresh, AttemptFresh
  <2> QED BY <2>1, <2>2
<1> QED BY <1>1, <1>2, TypeCorrect, StatusCoherent, PTL DEF Spec

(* SnapshotBeforeScript for every instance.                                *)
THEOREM SnapshotPrecedesScript == Spec => SnapshotBeforeScript
<1>1. TypeOK /\ Coherent /\ Fresh /\ [Next]_vars
         => [SnapshotBeforeScriptStep]_vars
  <2> DEFINE snap == status.volumeSnapshotName
  <2> SUFFICES ASSUME TypeOK, Coherent, Fresh, Next,
                      NEW p \in Pods, CreateVolumeSnapshot, ScriptStarts(p)
               PROVE  /\ snap \in readySnapshots
                      /\ snap[1] = p
                      /\ \A t \in Time : attemptLog[t] > 0 => t <= snap[2]
    BY DEF SnapshotBeforeScriptStep
  <2>1. /\ cachedStatus.phase = "RunningRecovery"
        /\ cachedStatus.stuckPodName = p
    BY ScriptStartsOnlyInRunningRecovery
  <2>2. snap = cachedStatus.volumeSnapshotName
    BY <2>1 DEF Fresh
  <2>3. snap \in readySnapshots /\ snap[1] = p
    BY <2>1, <2>2 DEF Coherent, AttemptCoherent
  <2> QED BY <2>1, <2>2, <2>3 DEF Fresh, AttemptFresh
<1> QED BY <1>1, TypeCorrect, StatusCoherent, FreshInvariant, PTL
        DEF Spec, SnapshotBeforeScript

(* ScriptIsCounted for every instance.                                     *)
THEOREM ScriptCounted == Spec => ScriptIsCounted
<1>1. TypeOK /\ Coherent /\ [Next]_vars => [ScriptIsCountedStep]_vars
  <2> SUFFICES ASSUME TypeOK, Coherent, Next, NEW p \in Pods, ScriptStarts(p)
               PROVE  /\ status.recoveryAttempts \in 1..MaxRetries
                      /\ status.rateLimitWindowStart # NoTime
    BY DEF ScriptIsCountedStep
  <2>1. cachedStatus.phase \in AttemptPhases
    BY ScriptStartsOnlyInRunningRecovery DEF AttemptPhases
  <2>2. status.recoveryAttempts \in Nat
    BY DEF TypeOK, Status
  <2> QED BY <2>1, <2>2, ConstantsAssumption DEF Coherent, AttemptCoherent
<1> QED BY <1>1, TypeCorrect, StatusCoherent, PTL DEF Spec, ScriptIsCounted

-----------------------------------------------------------------------------
(***************************************************************************)
(* The rate limit.                                                         *)
(***************************************************************************)

(* The times from t on and before limit.                                   *)
Between(t, limit) == {u \in Time : t <= u /\ u < limit}

(* What the rate limiter's two numbers say about the history: no attempt   *)
(* lies in the future, a window starts at an attempt and none comes after  *)
(* it is over, and any stretch of time that reaches back less than         *)
(* rateLimitWindow from its start has seen fewer than maxRetries attempts. *)
WindowHistory ==
    LET start == status.rateLimitWindowStart
    IN  /\ IsFiniteSet(Attempts(attemptLog, Time))
        /\ \A u \in Time : u > now => attemptLog[u] = 0
        /\ start = NoTime => \A u \in Time : attemptLog[u] = 0
        /\ start # NoTime =>
              /\ start <= now
              /\ attemptLog[start] >= 1
              /\ \A u \in Time : u >= start + RateLimitWindow
                                    => attemptLog[u] = 0
              /\ \A t \in Time :
                    t + RateLimitWindow > start =>
                       Cardinality(Attempts(attemptLog, Between(t, start)))
                          < MaxRetries

RateInv == WindowHistory /\ CounterMatchesLog /\ SlidingRate

(* Membership in Attempts.                                                 *)
LEMMA AttemptsMember ==
  ASSUME NEW log, NEW times, NEW u, NEW n
  PROVE  <<u, n>> \in Attempts(log, times) <=> u \in times /\ n \in 1..log[u]
  BY DEF Attempts

(* An attempt is a pair of a time and a number.                            *)
LEMMA AttemptsPairs ==
  ASSUME NEW log, NEW times, NEW a \in Attempts(log, times)
  PROVE  \E u \in times : \E n \in 1..log[u] : a = <<u, n>>
  BY DEF Attempts

(* Attempts at fewer times are fewer, and finitely many.                   *)
LEMMA AttemptsMonotone ==
  ASSUME NEW log, NEW T, NEW S \in SUBSET T,
         IsFiniteSet(Attempts(log, T))
  PROVE  /\ Attempts(log, S) \subseteq Attempts(log, T)
         /\ IsFiniteSet(Attempts(log, S))
         /\ Cardinality(Attempts(log, S)) \in Nat
         /\ Cardinality(Attempts(log, S)) <= Cardinality(Attempts(log, T))
<1>1. Attempts(log, S) \subseteq Attempts(log, T)
  BY DEF Attempts
<1> QED BY <1>1, FS_Subset, FS_CardinalityType

(* The attempts at some times depend on the log at those times only.       *)
LEMMA AttemptsLocal ==
  ASSUME NEW log, NEW log2, NEW S, \A u \in S : log[u] = log2[u]
  PROVE  Attempts(log, S) = Attempts(log2, S)
<1>1. ASSUME NEW a \in Attempts(log, S) PROVE a \in Attempts(log2, S)
  <2>1. PICK u \in S : \E n \in 1..log[u] : a = <<u, n>>
    BY AttemptsPairs
  <2>2. PICK n \in 1..log2[u] : a = <<u, n>>
    BY <2>1
  <2> QED BY <2>2, AttemptsMember
<1>2. ASSUME NEW a \in Attempts(log2, S) PROVE a \in Attempts(log, S)
  <2>1. PICK u \in S : \E n \in 1..log2[u] : a = <<u, n>>
    BY AttemptsPairs
  <2>2. PICK n \in 1..log[u] : a = <<u, n>>
    BY <2>1
  <2> QED BY <2>2, AttemptsMember
<1> QED BY <1>1, <1>2

(* A log of zeros has no attempts.                                         *)
LEMMA AttemptsNone ==
  ASSUME NEW log, NEW S, \A u \in S : log[u] = 0
  PROVE  Attempts(log, S) = {}
<1>1. ASSUME NEW a \in Attempts(log, S) PROVE FALSE
  <2>1. PICK u \in S : \E n \in 1..log[u] : a = <<u, n>>
    BY AttemptsPairs
  <2>2. 1..log[u] = {}
    BY <2>1
  <2> QED BY <2>1, <2>2
<1> QED BY <1>1

(* So it has none of them.                                                 *)
LEMMA AttemptsZero ==
  ASSUME NEW log, NEW S, \A u \in S : log[u] = 0
  PROVE  Cardinality(Attempts(log, S)) = 0
<1>1. Attempts(log, S) = {}
  BY AttemptsNone
<1>2. Cardinality({}) = 0
  BY FS_EmptySet
<1> QED BY <1>1, <1>2

(* Recording an attempt now adds one attempt, to each set of times that    *)
(* now belongs to.                                                         *)
LEMMA AttemptsRecorded ==
  ASSUME NEW log \in [Time -> Nat], NEW n \in Time,
         NEW S \in SUBSET Time, n \in S
  PROVE  /\ Attempts([log EXCEPT ![n] = @ + 1], S)
              = Attempts(log, S) \cup {<<n, log[n] + 1>>}
         /\ <<n, log[n] + 1>> \notin Attempts(log, S)
<1> DEFINE log2 == [log EXCEPT ![n] = @ + 1]
<1>0. /\ log[n] \in Nat /\ log2[n] = log[n] + 1
      /\ \A u \in S \ {n} : log2[u] = log[u]
  OBVIOUS
<1> HIDE DEF log2
<1>1. ASSUME NEW a \in Attempts(log2, S)
      PROVE  a \in Attempts(log, S) \cup {<<n, log[n] + 1>>}
  <2>1. PICK u \in S : \E k \in 1..log2[u] : a = <<u, k>>
    BY AttemptsPairs
  <2>2. PICK k \in 1..log2[u] : a = <<u, k>>
    BY <2>1
  <2>3. CASE u = n /\ k = log[n] + 1
    BY <2>2, <2>3
  <2>4. CASE ~(u = n /\ k = log[n] + 1)
    <3>1. k \in 1..log[u]
      BY <1>0, <2>4
    <3> QED BY <2>2, <3>1, AttemptsMember
  <2> QED BY <2>3, <2>4
<1>2. ASSUME NEW a \in Attempts(log, S) PROVE a \in Attempts(log2, S)
  <2>1. PICK u \in S : \E k \in 1..log[u] : a = <<u, k>>
    BY AttemptsPairs
  <2>2. PICK k \in 1..log[u] : a = <<u, k>>
    BY <2>1
  <2>3. log[u] \in Nat
    OBVIOUS
  <2>4. k \in 1..log2[u]
    BY <1>0, <2>3
  <2> QED BY <2>2, <2>4, AttemptsMember
<1>3. <<n, log[n] + 1>> \in Attempts(log2, S)
  <2>1. log[n] + 1 \in 1..log2[n]
    BY <1>0
  <2> QED BY <2>1, AttemptsMember
<1>4. <<n, log[n] + 1>> \notin Attempts(log, S)
  <2>1. log[n] + 1 \notin 1..log[n]
    BY <1>0
  <2> QED BY <2>1, AttemptsMember
<1>5. Attempts(log2, S) = Attempts(log, S) \cup {<<n, log[n] + 1>>}
  BY <1>1, <1>2, <1>3
<1> QED BY <1>4, <1>5 DEF log2

(* Three kinds of steps, as the rate limiter sees them: one that leaves    *)
(* its two numbers and the history alone, one that forgets both, and one   *)
(* that records an attempt which CanAttemptRecovery allowed.               *)
WindowKept ==
    /\ status'.recoveryAttempts = status.recoveryAttempts
    /\ status'.rateLimitWindowStart = status.rateLimitWindowStart
    /\ attemptLog' = attemptLog
    /\ now' = now \/ now' = now + 1

WindowForgotten ==
    /\ status'.recoveryAttempts = 0
    /\ status'.rateLimitWindowStart = NoTime
    /\ attemptLog' = [t \in Time |-> 0]
    /\ now' = now

AttemptRecorded ==
    /\ CanAttemptRecovery(status)
    /\ status'.recoveryAttempts =
          IF WindowOver(status) THEN 1 ELSE status.recoveryAttempts + 1
    /\ status'.rateLimitWindowStart =
          IF WindowOver(status) THEN now ELSE status.rateLimitWindowStart
    /\ attemptLog' = [attemptLog EXCEPT ![now] = @ + 1]
    /\ now' = now

(* Writing the cached status with other fields changed does not touch the  *)
(* rate limiter's numbers at the API server: the write is refused unless   *)
(* the cache is fresh.                                                     *)
LEMMA UpdateKeepsWindow ==
  ASSUME Coherent, NEW s, StatusUpdate(s),
         s.recoveryAttempts = cachedStatus.recoveryAttempts,
         s.rateLimitWindowStart = cachedStatus.rateLimitWindowStart,
         UNCHANGED <<attemptLog, now>>
  PROVE  WindowKept
  BY DEF Coherent, StatusUpdate, Written, NotWritten, objectVars, WindowKept

(* Every Reconcile call is a step of one of the three kinds.               *)
LEMMA ReconcileWindow ==
  ASSUME TypeOK, Coherent, Reconcile
  PROVE  WindowKept \/ WindowForgotten \/ AttemptRecorded
<1> USE DEF clusterVars, effectVars, objectVars
<1>a. cachedStatus \in Status
  BY DEF TypeOK
<1>b. ASSUME NEW ph, StatusUpdate(SetPhase(cachedStatus, ph)),
             UNCHANGED <<attemptLog, now>>
      PROVE  WindowKept
  <2>1. /\ SetPhase(cachedStatus, ph).recoveryAttempts
              = cachedStatus.recoveryAttempts
        /\ SetPhase(cachedStatus, ph).rateLimitWindowStart
              = cachedStatus.rateLimitWindowStart
    BY <1>a DEF SetPhase, Status
  <2> QED BY <1>b, <2>1, UpdateKeepsWindow
<1>1. CASE ReconcileSuspended \/ ReconcileNoFullNode
           \/ HandleWaitingForSnapshot \/ HandleWaitingForRecovery
  BY <1>1, <1>b DEF ReconcileSuspended, ReconcileNoFullNode,
                    HandleWaitingForSnapshot, HandleWaitingForRecovery,
                    CheckPodComplete, CheckSnapshotReady
<1>2. ASSUME NEW p \in Pods, HandleMonitoringError(p) PROVE WindowKept
  BY <1>2, UpdateKeepsWindow DEF HandleMonitoringError
<1>3. ASSUME NEW p \in Pods, HandleMonitoringChanged(p)
      PROVE  WindowKept \/ WindowForgotten
  <2> DEFINE r == ResetWindow([cachedStatus EXCEPT
                                 !.lastObservedHeight = height[p],
                                 !.lastHeightUpdateTime = now])
  <2>1. CASE NotWritten /\ UNCHANGED attemptLog
    BY <1>3, <2>1 DEF HandleMonitoringChanged, NotWritten, WindowKept
  <2>2. CASE ~(NotWritten /\ UNCHANGED attemptLog)
    <3>1. /\ status' = r \/ status' = SetPhase(r, "Monitoring")
          /\ attemptLog' = [t \in Time |-> 0]
          /\ now' = now
      BY <1>3, <2>2 DEF HandleMonitoringChanged, Written
    <3>2. /\ status'.recoveryAttempts = 0
          /\ status'.rateLimitWindowStart = NoTime
      BY <1>a, <3>1 DEF ResetWindow, SetPhase, Status
    <3> QED BY <3>1, <3>2 DEF WindowForgotten
  <2> QED BY <2>1, <2>2
<1>4. ASSUME NEW p \in Pods, HandleMonitoringSame(p) PROVE WindowKept
  <2> DEFINE r == [cachedStatus EXCEPT !.phase = "HeightStuck",
                                       !.stuckPodName = p]
  <2>1. /\ r.recoveryAttempts = cachedStatus.recoveryAttempts
        /\ r.rateLimitWindowStart = cachedStatus.rateLimitWindowStart
    BY <1>a DEF Status
  <2>2. /\ StatusUpdate(r) \/ StatusUpdate(SetPhase(cachedStatus, "Monitoring"))
        /\ UNCHANGED <<attemptLog, now>>
    BY <1>4 DEF HandleMonitoringSame
  <2> HIDE DEF r
  <2> QED BY <1>b, <2>1, <2>2, UpdateKeepsWindow
<1>5. CASE HandleHeightStuck
  <2> DEFINE next == IF CreateVolumeSnapshot THEN "CreatingSnapshot"
                                             ELSE "RunningRecovery"
             r == SetPhase(RecordAttempt(cachedStatus), next)
  <2>1. CASE UNCHANGED attemptLog /\ NotWritten
    BY <1>5, <2>1 DEF HandleHeightStuck, NotWritten, WindowKept
  <2>2. CASE /\ UNCHANGED attemptLog
             /\ StatusUpdate(SetPhase(cachedStatus, "RateLimited"))
    BY <1>5, <1>b, <2>2 DEF HandleHeightStuck
  <2>3. CASE /\ CanAttemptRecovery(cachedStatus)
             /\ Written(r)
             /\ attemptLog' = [attemptLog EXCEPT ![now] = @ + 1]
    <3>1. cachedStatus = status /\ status' = r /\ now' = now
      BY <1>5, <2>3 DEF HandleHeightStuck, Written, Coherent
    <3>2. /\ r.recoveryAttempts =
                IF WindowOver(cachedStatus)
                THEN 1 ELSE cachedStatus.recoveryAttempts + 1
          /\ r.rateLimitWindowStart =
                IF WindowOver(cachedStatus)
                THEN now ELSE cachedStatus.rateLimitWindowStart
      BY <1>a DEF RecordAttempt, SetPhase, Status
    <3> HIDE DEF r
    <3> QED BY <2>3, <3>1, <3>2 DEF AttemptRecorded
  <2> QED BY <1>5, <2>1, <2>2, <2>3 DEF HandleHeightStuck
<1>6. CASE HandleCreatingSnapshot
  <2> DEFINE r == [cachedStatus EXCEPT
                     !.volumeSnapshotName = <<cachedStatus.stuckPodName, now>>,
                     !.phase = "WaitingForSnapshot"]
  <2>1. /\ r.recoveryAttempts = cachedStatus.recoveryAttempts
        /\ r.rateLimitWindowStart = cachedStatus.rateLimitWindowStart
    BY <1>a DEF Status
  <2>2. /\ \/ StatusUpdate(r)
           \/ StatusUpdate(SetPhase(cachedStatus, "RecoveryFailed"))
        /\ UNCHANGED <<attemptLog, now>>
    BY <1>6 DEF HandleCreatingSnapshot, CreateSnapshot, PVCFound, SnapshotName
  <2> HIDE DEF r
  <2> QED BY <1>b, <2>1, <2>2, UpdateKeepsWindow
<1>7. CASE HandleRunningRecovery
  <2> DEFINE r == [cachedStatus EXCEPT
                     !.recoveryPodName = cachedStatus.stuckPodName,
                     !.phase = "WaitingForRecovery"]
  <2>1. /\ r.recoveryAttempts = cachedStatus.recoveryAttempts
        /\ r.rateLimitWindowStart = cachedStatus.rateLimitWindowStart
    BY <1>a DEF Status
  <2>2. /\ \/ StatusUpdate(r)
           \/ StatusUpdate(SetPhase(cachedStatus, "RecoveryFailed"))
        /\ UNCHANGED <<attemptLog, now>>
    BY <1>7 DEF HandleRunningRecovery, CreatePod, PVCFound, RecoveryPodName
  <2> HIDE DEF r
  <2> QED BY <1>b, <2>1, <2>2, UpdateKeepsWindow
<1>8. CASE HandleRecoveryComplete \/ HandleRecoveryFailed
  <2> DEFINE r == [cachedStatus EXCEPT !.phase = "Monitoring",
                                       !.stuckPodName = NoPod,
                                       !.recoveryPodName = NoPod,
                                       !.volumeSnapshotName = NoSnapshot]
             q == [cachedStatus EXCEPT !.phase = "Monitoring",
                                       !.stuckPodName = NoPod,
                                       !.recoveryPodName = NoPod]
  <2>1. /\ r.recoveryAttempts = cachedStatus.recoveryAttempts
        /\ r.rateLimitWindowStart = cachedStatus.rateLimitWindowStart
    BY <1>a DEF Status
  <2>2. /\ q.recoveryAttempts = cachedStatus.recoveryAttempts
        /\ q.rateLimitWindowStart = cachedStatus.rateLimitWindowStart
    BY <1>a DEF Status
  <2>3. (StatusUpdate(r) \/ StatusUpdate(q)) /\ UNCHANGED <<attemptLog, now>>
    BY <1>8 DEF HandleRecoveryComplete, HandleRecoveryFailed
  <2> HIDE DEF r, q
  <2> QED BY <2>1, <2>2, <2>3, UpdateKeepsWindow
<1>9. CASE HandleRateLimited
  <2>1. /\ \/ StatusUpdate(cachedStatus)
           \/ StatusUpdate(SetPhase(cachedStatus, "Monitoring"))
        /\ UNCHANGED <<attemptLog, now>>
    BY <1>9 DEF HandleRateLimited
  <2> QED BY <1>b, <2>1, UpdateKeepsWindow
<1> QED BY <1>1, <1>2, <1>3, <1>4, <1>5, <1>6, <1>7, <1>8, <1>9
        DEF Reconcile, HandleMonitoring

(* So is every step of the specification.                                  *)
LEMMA NextWindow ==
  ASSUME TypeOK, Coherent, [Next]_vars
  PROVE  WindowKept \/ WindowForgotten \/ AttemptRecorded
<1> USE DEF objectVars, clusterVars, effectVars
<1>1. CASE Reconcile
  BY <1>1, ReconcileWindow
<1>2. CASE Environment
  BY <1>2 DEF WindowKept, Environment, InformerSync, ToggleSuspend,
              FullNodeChanges, APIServerHeals, Tick, HeightReported,
              NodePodChanges, RecoveryPodEnds, RecoveryPodDeleted,
              SnapshotReady
<1>3. CASE UNCHANGED vars
  BY <1>3 DEF vars, WindowKept
<1> QED BY <1>1, <1>2, <1>3 DEF Next

(* The facts about the numbers that the arithmetic below needs.            *)
LEMMA WindowNumbers ==
  ASSUME TypeOK
  PROVE  /\ now \in Nat /\ now \in Time
         /\ Time \subseteq Nat
         /\ RateLimitWindow \in Nat /\ MaxRetries \in Nat /\ MaxRetries >= 1
         /\ status.recoveryAttempts \in Nat
         /\ status.rateLimitWindowStart \in Time \cup {NoTime}
         /\ NoTime \notin Time
         /\ attemptLog \in [Time -> Nat]
<1>1. Time \subseteq Nat /\ NoTime \notin Time
  BY ConstantsAssumption DEF Time
<1>2. now \in Time /\ status \in Status /\ attemptLog \in [Time -> Nat]
  BY DEF TypeOK
<1>3. /\ status.recoveryAttempts \in Nat
      /\ status.rateLimitWindowStart \in Time \cup {NoTime}
  BY <1>2 DEF Status
<1>4. RateLimitWindow \in Nat /\ MaxRetries \in Nat /\ MaxRetries >= 1
  BY ConstantsAssumption
<1> QED BY <1>1, <1>2, <1>3, <1>4

(* Steps that touch neither the numbers nor the history.                   *)
LEMMA KeptRate ==
  ASSUME TypeOK, TypeOK', RateInv, WindowKept
  PROVE  RateInv'
<1>1. now' >= now /\ now \in Nat /\ now' \in Nat
  BY WindowNumbers DEF WindowKept, TypeOK, Time
<1>2. CounterMatchesLog' /\ SlidingRate'
  BY DEF RateInv, CounterMatchesLog, SlidingRate, SinceWindowStart, WindowKept
<1>3. WindowHistory'
  <2>1. \A u \in Time : u > now' => attemptLog'[u] = 0
    BY <1>1, WindowNumbers DEF RateInv, WindowHistory, WindowKept
  <2>2. status.rateLimitWindowStart # NoTime =>
           status'.rateLimitWindowStart <= now'
    <3> SUFFICES ASSUME status.rateLimitWindowStart # NoTime
                 PROVE  status'.rateLimitWindowStart <= now'
      OBVIOUS
    <3>1. /\ status.rateLimitWindowStart \in Nat
          /\ status.rateLimitWindowStart <= now
      BY WindowNumbers DEF RateInv, WindowHistory
    <3> QED BY <1>1, <3>1 DEF WindowKept
  <2> QED BY <2>1, <2>2 DEF RateInv, WindowHistory, WindowKept
<1> QED BY <1>2, <1>3 DEF RateInv

(* A changed height forgets the window and, with it, the history.          *)
LEMMA ForgottenRate ==
  ASSUME TypeOK, TypeOK', WindowForgotten
  PROVE  RateInv'
<1>1. \A u \in Time : attemptLog'[u] = 0
  BY DEF WindowForgotten
<1>2. \A S \in SUBSET Time : Attempts(attemptLog', S) = {}
  BY <1>1, AttemptsNone
<1>3. /\ status'.recoveryAttempts = 0
      /\ status'.rateLimitWindowStart = NoTime
  BY DEF WindowForgotten
<1>4. WindowHistory'
  BY <1>1, <1>2, <1>3, FS_EmptySet DEF WindowHistory
<1>5. CounterMatchesLog'
  BY <1>2, <1>3, FS_EmptySet, WindowNumbers
     DEF CounterMatchesLog, SinceWindowStart
<1>6. SlidingRate'
  <2> SUFFICES ASSUME NEW t \in Time
               PROVE  Cardinality(Attempts(attemptLog',
                         {u \in Time : t <= u /\ u < t + RateLimitWindow}))
                        < 2 * MaxRetries
    BY DEF SlidingRate
  <2> DEFINE S == {u \in Time : t <= u /\ u < t + RateLimitWindow}
  <2>1. \A u \in S : attemptLog'[u] = 0
    BY <1>1
  <2> HIDE DEF S
  <2>2. Cardinality(Attempts(attemptLog', S)) = 0
    BY <2>1, AttemptsZero
  <2>3. 0 < 2 * MaxRetries
    BY WindowNumbers
  <2> QED BY <2>2, <2>3 DEF S
<1> QED BY <1>4, <1>5, <1>6 DEF RateInv

(* The bound on a sliding window follows from what is known of the fixed   *)
(* one, for every stretch of time that reaches beyond its start.           *)
LEMMA SlidingFromWindow ==
  ASSUME NEW log, NEW start \in Time, NEW t \in Time,
         IsFiniteSet(Attempts(log, Time)),
         Cardinality(Attempts(log, Between(t, start))) < MaxRetries,
         Cardinality(Attempts(log, {u \in Time : u >= start})) <= MaxRetries
  PROVE  Cardinality(Attempts(log,
            {u \in Time : t <= u /\ u < t + RateLimitWindow})) < 2 * MaxRetries
<1> DEFINE W == {u \in Time : t <= u /\ u < t + RateLimitWindow}
           V == {u \in Time : u >= start}
           A == Attempts(log, Between(t, start))
           B == Attempts(log, V)
           C == Attempts(log, W)
<1>1. Time \subseteq Nat /\ MaxRetries \in Nat
  BY ConstantsAssumption DEF Time
<1>2. /\ Between(t, start) \subseteq Time
      /\ V \subseteq Time
      /\ W \subseteq Time
  BY DEF Between
<1>3. /\ IsFiniteSet(A) /\ IsFiniteSet(B) /\ IsFiniteSet(C)
      /\ Cardinality(A) \in Nat /\ Cardinality(B) \in Nat
      /\ Cardinality(C) \in Nat
  BY <1>2, AttemptsMonotone
<1>4. C \subseteq A \cup B
  <2>1. ASSUME NEW u \in W PROVE u \in Between(t, start) \cup V
    BY <1>1, <2>1 DEF Between
  <2> SUFFICES ASSUME NEW a \in C PROVE a \in A \cup B
    OBVIOUS
  <2>2. PICK u \in W : \E n \in 1..log[u] : a = <<u, n>>
    BY AttemptsPairs
  <2>3. PICK n \in 1..log[u] : a = <<u, n>>
    BY <2>2
  <2> HIDE DEF W, V
  <2> QED BY <2>1, <2>3, AttemptsMember
<1>5. Cardinality(A) < MaxRetries /\ Cardinality(B) <= MaxRetries
  OBVIOUS
<1> HIDE DEF A, B, C, W
<1>7. /\ IsFiniteSet(A \cup B)
      /\ Cardinality(A \cup B) =
            Cardinality(A) + Cardinality(B) - Cardinality(A \cap B)
  BY <1>3, FS_Union
<1>8. Cardinality(A \cap B) \in Nat
  <2>1. A \cap B \subseteq A
    OBVIOUS
  <2> QED BY <1>3, <2>1, FS_Subset, FS_CardinalityType
<1>9. Cardinality(C) <= Cardinality(A \cup B)
  BY <1>4, <1>7, FS_Subset
<1>10. Cardinality(C) < 2 * MaxRetries
  BY <1>1, <1>3, <1>5, <1>7, <1>8, <1>9
<1> QED BY <1>10 DEF C, W

(* An attempt recorded within the window, or the first of a new one.       *)
LEMMA RecordedRate ==
  ASSUME RateLimitWindow > 0, TypeOK, TypeOK', RateInv, AttemptRecorded
  PROVE  RateInv'
<1> DEFINE start == status.rateLimitWindowStart
           log2 == [attemptLog EXCEPT ![now] = @ + 1]
           new == <<now, attemptLog[now] + 1>>
<1>0. /\ now \in Nat /\ now \in Time
      /\ Time \subseteq Nat
      /\ RateLimitWindow \in Nat /\ MaxRetries \in Nat /\ MaxRetries >= 1
      /\ status.recoveryAttempts \in Nat
      /\ start \in Time \cup {NoTime}
      /\ NoTime \notin Time
      /\ attemptLog \in [Time -> Nat]
  BY WindowNumbers
<1>1. attemptLog' = log2 /\ now' = now
  BY DEF AttemptRecorded
<1>2. /\ log2[now] = attemptLog[now] + 1
      /\ \A u \in Time \ {now} : log2[u] = attemptLog[u]
      /\ attemptLog[now] \in Nat
      /\ log2 \in [Time -> Nat]
  BY <1>0
<1>3. /\ IsFiniteSet(Attempts(attemptLog, Time))
      /\ \A u \in Time : u > now => attemptLog[u] = 0
  BY DEF RateInv, WindowHistory
<1>4. ASSUME NEW S \in SUBSET Time, now \notin S
      PROVE  Attempts(log2, S) = Attempts(attemptLog, S)
  <2>1. \A u \in S : log2[u] = attemptLog[u]
    BY <1>2, <1>4
  <2> HIDE DEF log2
  <2> QED BY <2>1, AttemptsLocal
<1>5. ASSUME NEW S \in SUBSET Time, now \in S
      PROVE  /\ IsFiniteSet(Attempts(log2, S))
             /\ Cardinality(Attempts(log2, S))
                   = Cardinality(Attempts(attemptLog, S)) + 1
  <2>1. /\ Attempts(log2, S) = Attempts(attemptLog, S) \cup {new}
        /\ new \notin Attempts(attemptLog, S)
    BY <1>0, <1>5, AttemptsRecorded
  <2>2. IsFiniteSet(Attempts(attemptLog, S))
    BY <1>3, AttemptsMonotone
  <2> HIDE DEF log2, new
  <2> QED BY <2>1, <2>2, FS_AddElement
<1>6. IsFiniteSet(Attempts(log2, Time))
  BY <1>0, <1>5
<1>7. \A u \in Time : u > now => log2[u] = 0
  BY <1>0, <1>2, <1>3
<1>8. CASE WindowOver(status)
  <2>1. /\ status'.recoveryAttempts = 1
        /\ status'.rateLimitWindowStart = now
    BY <1>8 DEF AttemptRecorded
  <2>2. \A u \in Time : u >= now => attemptLog[u] = 0
    <3>1. CASE start = NoTime
      BY <3>1 DEF RateInv, WindowHistory
    <3>2. CASE start # NoTime
      <4>1. /\ now >= start + RateLimitWindow
            /\ \A u \in Time : u >= start + RateLimitWindow
                                  => attemptLog[u] = 0
            /\ start \in Nat
        BY <1>0, <1>8, <3>2 DEF WindowOver, RateInv, WindowHistory
      <4> QED BY <1>0, <4>1
    <3> QED BY <3>1, <3>2
  (* Less than a window back, none of the old window's first attempts.     *)
  <2>3. ASSUME NEW t \in Time, t + RateLimitWindow > now
        PROVE  Cardinality(Attempts(log2, Between(t, now))) < MaxRetries
    <3>1. Between(t, now) \subseteq Time /\ now \notin Between(t, now)
      BY <1>0 DEF Between
    <3>2. Attempts(log2, Between(t, now))
             = Attempts(attemptLog, Between(t, now))
      BY <1>4, <3>1
    <3>3. CASE start = NoTime
      <4>1. \A u \in Between(t, now) : attemptLog[u] = 0
        BY <3>1, <3>3 DEF RateInv, WindowHistory
      <4>2. Cardinality(Attempts(attemptLog, Between(t, now))) = 0
        BY <4>1, AttemptsZero
      <4> HIDE DEF log2
      <4> QED BY <1>0, <3>2, <4>2
    <3>4. CASE start # NoTime
      <4> DEFINE A == Attempts(attemptLog, Between(t, now))
                 B == Attempts(attemptLog, SinceWindowStart)
                 first == <<start, 1>>
      <4>1. /\ start \in Time /\ start \in Nat
            /\ now >= start + RateLimitWindow
            /\ attemptLog[start] >= 1 /\ attemptLog[start] \in Nat
        BY <1>0, <1>8, <3>4 DEF WindowOver, RateInv, WindowHistory
      <4>2. t > start
        BY <1>0, <2>3, <4>1
      <4>a. ASSUME NEW u \in Between(t, now) PROVE u \in SinceWindowStart
        <5>1. u \in Nat /\ t \in Nat /\ u >= t /\ u \in Time
          BY <1>0 DEF Between
        <5> QED BY <3>4, <4>1, <4>2, <5>1 DEF SinceWindowStart
      <4>b. start \notin Between(t, now)
        BY <1>0, <4>1, <4>2 DEF Between
      <4>c. start \in SinceWindowStart /\ SinceWindowStart \subseteq Time
        BY <1>0, <3>4, <4>1 DEF SinceWindowStart
      <4>3. /\ Between(t, now) \subseteq SinceWindowStart
            /\ start \notin Between(t, now)
            /\ start \in SinceWindowStart
            /\ SinceWindowStart \subseteq Time
        BY <4>a, <4>b, <4>c
      <4>4. 1 \in 1..attemptLog[start]
        BY <4>1
      <4>5. first \in B /\ first \notin A
        BY <4>3, <4>4, AttemptsMember
      <4>6. IsFiniteSet(B)
        BY <1>3, <4>3, AttemptsMonotone
      <4>7. A \subseteq B /\ IsFiniteSet(A) /\ Cardinality(A) \in Nat
        BY <4>3, <4>6, AttemptsMonotone
      <4> HIDE DEF A, B, first
      <4>8. /\ Cardinality(A) <= Cardinality(B)
            /\ Cardinality(A) # Cardinality(B)
        BY <4>5, <4>6, <4>7, FS_Subset
      <4>9. Cardinality(B) = status.recoveryAttempts
            /\ status.recoveryAttempts <= MaxRetries
        BY DEF B, RateInv, CounterMatchesLog
      <4>10. Cardinality(A) < MaxRetries
        BY <1>0, <4>7, <4>8, <4>9
      <4> QED BY <3>2, <4>10 DEF A
    <3> QED BY <3>3, <3>4
  <2>4. WindowHistory'
    <3>1. log2[now] >= 1
      BY <1>2
    <3>2. \A u \in Time : u >= now + RateLimitWindow => log2[u] = 0
      BY <1>0, <1>7
    <3> HIDE DEF log2
    <3> QED BY <1>0, <1>1, <1>6, <1>7, <2>1, <2>3, <3>1, <3>2
            DEF WindowHistory
  <2>7. Cardinality(Attempts(log2, {u \in Time : u >= now})) = 1
    <3> DEFINE S == {u \in Time : u >= now}
    <3>2. now \in S
      BY <1>0
    <3>3. Attempts(attemptLog, S) = {}
      BY <2>2, AttemptsNone
    <3>4. Cardinality(Attempts(log2, S)) = 1
      <4>1. S \in SUBSET Time
        OBVIOUS
      <4> HIDE DEF S, log2
      <4> QED BY <1>5, <3>2, <3>3, <4>1, FS_EmptySet
    <3> QED BY <3>4
  <2>5. CounterMatchesLog'
    <3>1. SinceWindowStart' = {u \in Time : u >= now}
      BY <1>0, <2>1 DEF SinceWindowStart
    <3> HIDE DEF log2
    <3> QED BY <1>0, <1>1, <2>1, <2>7, <3>1 DEF CounterMatchesLog
  <2>6. SlidingRate'
    <3> SUFFICES ASSUME NEW t \in Time
                 PROVE  Cardinality(Attempts(attemptLog',
                           {u \in Time : t <= u /\ u < t + RateLimitWindow}))
                          < 2 * MaxRetries
      BY DEF SlidingRate
    <3>1. CASE t + RateLimitWindow > now
      <4>2. Cardinality(Attempts(log2, Between(t, now))) < MaxRetries
        BY <2>3, <3>1
      <4>3. Cardinality(Attempts(log2, {u \in Time : u >= now})) <= MaxRetries
        BY <1>0, <2>7
      <4> HIDE DEF log2
      <4> QED BY <1>0, <1>1, <1>6, <4>2, <4>3, SlidingFromWindow
    <3>2. CASE ~(t + RateLimitWindow > now)
      <4> DEFINE S == {u \in Time : t <= u /\ u < t + RateLimitWindow}
      <4>1. now \notin S /\ S \subseteq Time
        BY <1>0, <3>2
      <4>2. Attempts(log2, S) = Attempts(attemptLog, S)
        BY <1>4, <4>1
      <4> QED BY <1>1, <4>2 DEF RateInv, SlidingRate
    <3> QED BY <3>1, <3>2
  <2> QED BY <2>4, <2>5, <2>6 DEF RateInv
<1>9. CASE ~WindowOver(status)
  <2>1. /\ status'.recoveryAttempts = status.recoveryAttempts + 1
        /\ status'.rateLimitWindowStart = start
        /\ status.recoveryAttempts < MaxRetries
    BY <1>9 DEF AttemptRecorded, CanAttemptRecovery
  <2>2. /\ start # NoTime /\ start \in Nat
        /\ start <= now
        /\ now < start + RateLimitWindow
        /\ attemptLog[start] >= 1
        /\ \A u \in Time : u >= start + RateLimitWindow => attemptLog[u] = 0
    <3>1. start # NoTime /\ ~(now >= start + RateLimitWindow)
      BY <1>9 DEF WindowOver
    <3>2. start \in Nat
      BY <1>0, <3>1
    <3>3. /\ start <= now
          /\ attemptLog[start] >= 1
          /\ \A u \in Time : u >= start + RateLimitWindow => attemptLog[u] = 0
      BY <3>1 DEF RateInv, WindowHistory
    <3> QED BY <1>0, <3>1, <3>2, <3>3
  <2>6. ASSUME NEW t \in Time, t + RateLimitWindow > start
        PROVE  Cardinality(Attempts(log2, Between(t, start))) < MaxRetries
    <3>1. now \notin Between(t, start) /\ Between(t, start) \subseteq Time
      BY <1>0, <2>2 DEF Between
    <3>2. Attempts(log2, Between(t, start))
            = Attempts(attemptLog, Between(t, start))
      BY <1>4, <3>1
    <3>3. Cardinality(Attempts(attemptLog, Between(t, start))) < MaxRetries
      BY <2>2, <2>6 DEF RateInv, WindowHistory
    <3> QED BY <3>2, <3>3
  <2>7. Cardinality(Attempts(log2, SinceWindowStart))
           = status.recoveryAttempts + 1
    <3>1. now \in SinceWindowStart /\ SinceWindowStart \in SUBSET Time
      BY <1>0, <2>2 DEF SinceWindowStart
    <3> QED BY <1>5, <3>1 DEF RateInv, CounterMatchesLog
  <2>3. WindowHistory'
    <3>1. \A u \in Time : u >= start + RateLimitWindow => log2[u] = 0
      BY <1>0, <1>2, <2>2
    <3>2. log2[start] >= 1
      BY <1>0, <1>2, <2>2
    <3> HIDE DEF log2
    <3> QED BY <1>1, <1>6, <1>7, <2>1, <2>2, <2>6, <3>1, <3>2
            DEF WindowHistory
  <2>4. CounterMatchesLog'
    <3>1. SinceWindowStart' = SinceWindowStart
      BY <2>1 DEF SinceWindowStart
    <3> HIDE DEF log2
    <3> QED BY <1>0, <1>1, <2>1, <2>7, <3>1 DEF CounterMatchesLog
  <2>5. SlidingRate'
    <3> SUFFICES ASSUME NEW t \in Time
                 PROVE  Cardinality(Attempts(attemptLog',
                           {u \in Time : t <= u /\ u < t + RateLimitWindow}))
                          < 2 * MaxRetries
      BY DEF SlidingRate
    <3>1. CASE t + RateLimitWindow > start
      <4>1. start \in Time
        BY <1>0, <2>2
      <4>2. Cardinality(Attempts(log2, Between(t, start))) < MaxRetries
        BY <2>6, <3>1
      <4>3. SinceWindowStart = {u \in Time : u >= start}
        BY <2>2 DEF SinceWindowStart
      <4>4. Cardinality(Attempts(log2, {u \in Time : u >= start})) <= MaxRetries
        BY <1>0, <2>1, <2>7, <4>3
      <4> HIDE DEF log2
      <4> QED BY <1>1, <1>6, <4>1, <4>2, <4>4, SlidingFromWindow
    <3>2. CASE ~(t + RateLimitWindow > start)
      <4> DEFINE S == {u \in Time : t <= u /\ u < t + RateLimitWindow}
      <4>1. now \notin S /\ S \subseteq Time
        BY <1>0, <2>2, <3>2
      <4>2. Attempts(log2, S) = Attempts(attemptLog, S)
        BY <1>4, <4>1
      <4> QED BY <1>1, <4>2 DEF RateInv, SlidingRate
    <3> QED BY <3>1, <3>2
  <2> QED BY <2>3, <2>4, <2>5 DEF RateInv
<1> QED BY <1>8, <1>9

(* The inductive invariant of the rate limiter, for every window of        *)
(* positive length.  (A window of zero is over as soon as it starts: then  *)
(* every attempt opens a new one and nothing is limited.)                  *)
LEMMA RateInvariant ==
  ASSUME RateLimitWindow > 0
  PROVE  Spec => []RateInv
<1>1. Init => RateInv
  <2> SUFFICES ASSUME Init PROVE RateInv
    OBVIOUS
  <2>0. TypeOK
    BY InitInvariant
  <2>1. /\ \A u \in Time : attemptLog[u] = 0
        /\ status.rateLimitWindowStart = NoTime
        /\ status.recoveryAttempts = 0
    BY DEF Init, EmptyStatus
  <2>2. \A S \in SUBSET Time : Attempts(attemptLog, S) = {}
    BY <2>1, AttemptsNone
  <2>3. WindowHistory /\ CounterMatchesLog
    BY <2>0, <2>1, <2>2, FS_EmptySet, WindowNumbers
       DEF WindowHistory, CounterMatchesLog, SinceWindowStart
  <2>4. SlidingRate
    <3> SUFFICES ASSUME NEW t \in Time
                 PROVE  Cardinality(Attempts(attemptLog,
                           {u \in Time : t <= u /\ u < t + RateLimitWindow}))
                          < 2 * MaxRetries
      BY DEF SlidingRate
    <3> DEFINE S == {u \in Time : t <= u /\ u < t + RateLimitWindow}
    <3>1. \A u \in S : attemptLog[u] = 0
      BY <2>1
    <3> HIDE DEF S
    <3>2. Cardinality(Attempts(attemptLog, S)) = 0
      BY <3>1, AttemptsZero
    <3>3. 0 < 2 * MaxRetries
      BY <2>0, WindowNumbers
    <3> QED BY <3>2, <3>3 DEF S
  <2> QED BY <2>3, <2>4 DEF RateInv
<1>2. TypeOK /\ TypeOK' /\ Coherent /\ RateInv /\ [Next]_vars => RateInv'
  BY NextWindow, KeptRate, ForgottenRate, RecordedRate
<1> QED BY <1>1, <1>2, TypeCorrect, StatusCoherent, PTL DEF Spec

(* CounterMatchesLog for every instance: stale reads, conflicts and lost   *)
(* writes neither lose nor repeat a count between CanAttemptRecovery and   *)
(* RecordAttempt.                                                          *)
THEOREM AttemptsAreCounted ==
  ASSUME RateLimitWindow > 0
  PROVE  Spec => []CounterMatchesLog
<1>1. RateInv => CounterMatchesLog
  BY DEF RateInv
<1> QED BY <1>1, RateInvariant, PTL

(* SlidingRate for every instance: the fixed window of RateLimiter lets    *)
(* fewer than 2 * maxRetries attempts through in any stretch of its length. *)
THEOREM RateIsBounded ==
  ASSUME RateLimitWindow > 0
  PROVE  Spec => []SlidingRate
<1>1. RateInv => SlidingRate
  BY DEF RateInv
<1> QED BY <1>1, RateInvariant, PTL

=============================================================================
