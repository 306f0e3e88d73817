------------------- MODULE ScheduledVolumeSnapshot_proofs --------------------
(***************************************************************************)
(* Proofs about ScheduledVolumeSnapshot, for every set of pods, schedule,  *)
(* limit and minAvailable, with and without API failures, lagging          *)
(* informers, deletion of the object and missing CRDs.                     *)
(*                                                                         *)
(* While nobody suspends the object and pods are not deleted for other     *)
(* reasons, the phase at the API server says what the CosmosFullNode       *)
(* controller has been told and what it has done about it (CycleInv).      *)
(***************************************************************************)
EXTENDS ScheduledVolumeSnapshot, FiniteSetTheorems, TLAPS

(* The object as a Reconcile starts with it is well typed.                 *)
LEMMA CrdType == TypeOK => Crd \in Object
<1> SUFFICES ASSUME TypeOK PROVE Crd \in Object
  OBVIOUS
<1>1. cachedSvs \in Object /\ now \in Time
  BY DEF TypeOK
<1>2. /\ (IF cachedSvs.createdAt = NoTime THEN now ELSE cachedSvs.createdAt)
            \in Time \cup {NoTime}
      /\ (IF cachedSvs.suspend THEN "RestoringPod"
          ELSE IF cachedSvs.phase \in {"Suspended", "Started"}
               THEN "WaitingForNext" ELSE cachedSvs.phase) \in Phase
  BY <1>1 DEF Object, Phase
<1> QED BY <1>1, <1>2 DEF Crd, ResetStatus, Object

LEMMA SetPhaseType ==
  ASSUME NEW s \in Object, NEW ph \in Phase
  PROVE  SetPhase(s, ph) \in Object
  BY DEF SetPhase, Object

(* Whatever Status().Update does, the object and its cached copy stay well *)
(* typed and a cache that is not behind is current.                        *)
LEMMA UpdateType ==
  ASSUME TypeOK, NEW s \in Object, UpdateStatus(s)
  PROVE  /\ svs' \in Object /\ cachedSvs' \in Object
         /\ svsBehind' \in BOOLEAN /\ svsDeleted' \in BOOLEAN
         /\ ~svsBehind' => cachedSvs' = svs'
<1>1. CASE Written(s)
  <2>1. svsBehind' \in BOOLEAN
    BY <1>1, Zenon DEF Written
  <2> QED BY <1>1, <2>1 DEF Written, TypeOK
<1>2. CASE NotWritten
  BY <1>2 DEF NotWritten, svsVars, TypeOK
<1> QED BY <1>1, <1>2 DEF UpdateStatus

(* The same for the signal in the CosmosFullNode.                          *)
LEMMA SignalType ==
  ASSUME TypeOK, NEW p \in Pods \cup {NoPod},
         Signal(p) \/ SignalFails(p) \/ UNCHANGED fnVars
  PROVE  /\ signalled' \in Pods \cup {NoPod}
         /\ cachedSignal' \in Pods \cup {NoPod}
         /\ fnBehind' \in BOOLEAN
         /\ ~fnBehind' => cachedSignal' = signalled'
<1>1. CASE Signal(p)
  <2>1. fnBehind' \in BOOLEAN
    BY <1>1, Zenon DEF Signal
  <2> QED BY <1>1, <2>1 DEF Signal, TypeOK
<1>2. CASE UNCHANGED fnVars
  BY <1>2 DEF fnVars, TypeOK
<1> QED BY <1>1, <1>2 DEF SignalFails

(* A candidate is a pod.                                                   *)
LEMMA CandidateType ==
  ASSUME NEW synced \in SyncedPods, NEW p \in Candidates(synced)
  PROVE  p \in Pods /\ p \in synced
<1>1. synced \subseteq Pods
  BY DEF SyncedPods
<1> QED BY <1>1 DEF Candidates

(* Every Reconcile of the ScheduledVolumeSnapshot keeps the types.         *)
LEMMA ReconcileType == TypeOK /\ Reconcile => TypeOK'
<1> USE ConstantsAssumption DEF podVars, snapshotVars, worldVars
<1> SUFFICES ASSUME TypeOK, Reconcile PROVE TypeOK'
  OBVIOUS
<1>a. Crd \in Object
  BY CrdType
<1>b. \A ph \in Phase : SetPhase(Crd, ph) \in Object
  BY <1>a, SetPhaseType
(* All but the snapshots, which three of the handlers do not touch.        *)
<1>c. ASSUME NEW s \in Object, UpdateStatus(s),
             NEW p \in Pods \cup {NoPod},
             Signal(p) \/ SignalFails(p) \/ UNCHANGED fnVars,
             UNCHANGED <<fnSignal, podVars, worldVars, seenSnapshots>>,
             snapshots' \in [Time -> SnapshotState]
      PROVE  TypeOK'
  BY <1>c, UpdateType, SignalType DEF TypeOK
<1>d. ASSUME NEW s \in Object, UpdateStatus(s),
             UNCHANGED <<fnVars, fnSignal, podVars, worldVars, seenSnapshots>>,
             snapshots' \in [Time -> SnapshotState]
      PROVE  TypeOK'
  BY <1>c, <1>d
<1>e. snapshots \in [Time -> SnapshotState]
  BY DEF TypeOK
<1>1. CASE ReconcileMissingCRDs
  <2>1. PICK s \in Object : s = SetPhase(Crd, "MissingCRDs")
    BY <1>b DEF Phase
  <2> QED BY <1>1, <1>d, <1>e, <2>1 DEF ReconcileMissingCRDs
<1>2. CASE WaitForNext
  <2>1. PICK s \in Object :
           s = IF Due THEN SetPhase(Crd, "FindingCandidate") ELSE Crd
    BY <1>a, <1>b DEF Phase
  <2>2. snapshots' \in [Time -> SnapshotState]
    BY <1>2, <1>e DEF WaitForNext, DeleteOldSnapshots, SnapshotState
  <2> QED BY <1>2, <1>d, <2>1, <2>2 DEF WaitForNext
<1>3. CASE FindCandidate
  <2>1. PICK synced \in SyncedPods :
           \/ Candidates(synced) = {} /\ UpdateStatus(Crd)
           \/ \E p \in Candidates(synced) :
                 UpdateStatus([Crd EXCEPT !.candidate = p,
                                          !.phase = IF DeletePod
                                                    THEN "DeletingPod"
                                                    ELSE "CreatingSnapshot"])
    BY <1>3 DEF FindCandidate
  <2>2. UNCHANGED <<fnVars, fnSignal, podVars, worldVars, snapshotVars>>
    BY <1>3 DEF FindCandidate
  <2>3. CASE UpdateStatus(Crd)
    BY <1>a, <1>d, <1>e, <2>2, <2>3
  <2>4. ASSUME NEW p \in Candidates(synced),
               UpdateStatus([Crd EXCEPT !.candidate = p,
                                        !.phase = IF DeletePod
                                                  THEN "DeletingPod"
                                                  ELSE "CreatingSnapshot"])
        PROVE  TypeOK'
    <3>1. p \in Pods
      BY CandidateType
    <3>2. PICK s \in Object : s = [Crd EXCEPT !.candidate = p,
                                     !.phase = IF DeletePod
                                               THEN "DeletingPod"
                                               ELSE "CreatingSnapshot"]
      BY <1>a, <3>1 DEF Object, Phase
    <3> QED BY <1>d, <1>e, <2>2, <2>4, <3>2
  <2> QED BY <2>1, <2>3, <2>4
<1>4. CASE SignalPodDeletion
  <2>1. PICK p \in Pods \cup {NoPod} : p = Crd.candidate
    BY <1>a DEF Object
  <2>2. PICK s \in Object : s = SetPhase(Crd, "WaitingForPodDeletion")
    BY <1>b DEF Phase
  <2> QED BY <1>4, <1>a, <1>c, <1>e, <2>1, <2>2 DEF SignalPodDeletion
<1>5. CASE ConfirmPodDeletion
  <2>1. PICK s \in Object :
           s = IF seenPods[Crd.candidate] = "absent"
               THEN SetPhase(Crd, "CreatingSnapshot") ELSE Crd
    BY <1>a, <1>b DEF Phase
  <2> QED BY <1>5, <1>d, <1>e, <2>1 DEF ConfirmPodDeletion
<1>6. CASE CreateSnapshot
  <2>1. PICK s \in Object :
           s = [Crd EXCEPT !.lastSnapshot = now,
                           !.phase = "WaitingForSnapshotCreation"]
    BY <1>a DEF Object, Phase, TypeOK
  <2>2. snapshots' \in [Time -> SnapshotState]
    BY <1>6, <1>e DEF CreateSnapshot, SnapshotState
  <2>3. UpdateStatus(s) \/ UpdateStatus(Crd)
    BY <1>6, <2>1 DEF CreateSnapshot
  <2> QED BY <1>6, <1>a, <1>d, <2>2, <2>3 DEF CreateSnapshot
<1>7. CASE IsSnapshotReady
  <2>1. PICK s \in Object :
           s = IF seenSnapshots[Crd.lastSnapshot] \in {"none", "ready"}
               THEN SetPhase(Crd, "RestoringPod") ELSE Crd
    BY <1>a, <1>b DEF Phase
  <2> QED BY <1>7, <1>d, <1>e, <2>1 DEF IsSnapshotReady
<1>8. CASE RestorePod
  <2>1. PICK s \in Object : s = Restored
    BY <1>b DEF Restored, Phase
  <2>2. PICK p \in Pods \cup {NoPod} : p = NoPod
    OBVIOUS
  <2>3. /\ UpdateStatus(s) \/ UpdateStatus(Crd)
        /\ Signal(p) \/ SignalFails(p) \/ UNCHANGED fnVars
        /\ UNCHANGED <<fnSignal, podVars, worldVars, snapshotVars>>
    BY <1>8, <2>1, <2>2 DEF RestorePod
  <2> QED BY <1>a, <1>c, <1>e, <2>3
<1> QED BY <1>1, <1>2, <1>3, <1>4, <1>5, <1>6, <1>7, <1>8 DEF Reconcile

(* So do the CosmosFullNode controller and the environment.                *)
LEMMA WorldType ==
  TypeOK /\ (FullNodeGet \/ FullNodePods \/ Environment) => TypeOK'
<1> USE ConstantsAssumption
        DEF svsVars, fnVars, podVars, snapshotVars, worldVars
<1> SUFFICES ASSUME TypeOK, FullNodeGet \/ FullNodePods \/ Environment
             PROVE  TypeOK'
  OBVIOUS
<1>1. CASE FullNodeGet
  BY <1>1 DEF FullNodeGet, TypeOK
<1>2. CASE FullNodePods
  <2>1. pods' \in [Pods -> PodState]
    BY <1>2 DEF FullNodePods, TypeOK, PodState
  <2> QED BY <1>2, <2>1 DEF FullNodePods, TypeOK
<1>3. ASSUME NEW p \in Pods, PodStarts(p) \/ PodGone(p)
      PROVE  TypeOK'
  BY <1>3 DEF PodStarts, PodGone, TypeOK, PodState
<1>4. ASSUME NEW p \in Pods, PodDisrupted(p) PROVE TypeOK'
  BY <1>4 DEF PodDisrupted, Disturbance, TypeOK, PodState
<1>5. ASSUME NEW t \in Time, SnapshotProgresses(t) PROVE TypeOK'
  BY <1>5 DEF SnapshotProgresses, TypeOK, SnapshotState
<1>6. CASE SvsSync \/ FullNodeSync \/ PodSync \/ SnapshotSync
  BY <1>6 DEF SvsSync, FullNodeSync, PodSync, SnapshotSync, TypeOK
<1>7. CASE ToggleSuspend
  <2>1. svs' \in Object
    <3>1. svs \in Object
      BY DEF TypeOK
    <3>2. (~svs.suspend) \in BOOLEAN
      BY Zenon
    <3>3. svs' = [svs EXCEPT !.suspend = ~svs.suspend]
      BY <1>7 DEF ToggleSuspend
    <3> QED BY <3>1, <3>2, <3>3 DEF Object
  <2> QED BY <1>7, <2>1 DEF ToggleSuspend, Disturbance, TypeOK
<1>8. CASE DeleteSvs \/ InstallCRDs \/ APIServerHeals
  BY <1>8 DEF DeleteSvs, InstallCRDs, APIServerHeals, TypeOK
<1>9. CASE Tick
  BY <1>9 DEF Tick, TypeOK, Time
<1> QED BY <1>1, <1>2, <1>3, <1>4, <1>5, <1>6, <1>7, <1>8, <1>9
        DEF Environment

(* The initial state is well typed.                                        *)
LEMMA InitType == Init => TypeOK
<1> USE ConstantsAssumption
<1> SUFFICES ASSUME Init PROVE TypeOK
  OBVIOUS
<1>1. svs \in Object
  BY DEF Init, Object, Phase
<1>2. apiHealthy \in BOOLEAN /\ missingCRDs \in BOOLEAN
  BY Zenon DEF Init
<1>3. /\ pods \in [Pods -> PodState] /\ snapshots \in [Time -> SnapshotState]
      /\ now \in Time /\ disturbances \in 0..MaxDisturbances
  BY DEF Init, PodState, SnapshotState, Time
<1> QED BY <1>1, <1>2, <1>3 DEF Init, TypeOK

(* Type correctness of both controllers and their world.                   *)
THEOREM TypeCorrect == Spec => []TypeOK
<1>1. TypeOK /\ [Next]_vars => TypeOK'
  <2> SUFFICES ASSUME TypeOK, [Next]_vars PROVE TypeOK'
    OBVIOUS
  <2>1. CASE Next
    BY <2>1, ReconcileType, WorldType DEF Next
  <2>2. CASE UNCHANGED vars
    BY <2>2 DEF vars, svsVars, fnVars, podVars, snapshotVars, worldVars, TypeOK
  <2> QED BY <2>1, <2>2
<1> QED BY <1>1, InitType, PTL DEF Spec

-----------------------------------------------------------------------------
(***************************************************************************)
(* The inductive invariant.                                                *)
(***************************************************************************)

(* The phase that Reconcile goes on to from each phase.                    *)
NextPhases(phase) ==
    CASE phase = "Started"        -> {"WaitingForNext", "FindingCandidate",
                                      "MissingCRDs"}
      [] phase = "WaitingForNext" -> {"FindingCandidate"}
      [] phase = "FindingCandidate" ->
            {IF DeletePod THEN "DeletingPod" ELSE "CreatingSnapshot"}
      [] phase = "DeletingPod"           -> {"WaitingForPodDeletion"}
      [] phase = "WaitingForPodDeletion" -> {"CreatingSnapshot"}
      [] phase = "CreatingSnapshot"      -> {"WaitingForSnapshotCreation"}
      [] phase = "WaitingForSnapshotCreation" -> {"RestoringPod"}
      [] phase = "RestoringPod"          -> {"WaitingForNext"}
      [] OTHER                           -> {}

(* Optimistic locking: the object at the API server is at most one write   *)
(* ahead of the cached one, and a write changes the candidate only where   *)
(* one is found and the snapshot only where one is created.                *)
OneAhead ==
    /\ ~svs.suspend /\ ~cachedSvs.suspend
    /\ svs.phase # "Suspended" /\ cachedSvs.phase # "Suspended"
    /\ svs.phase = cachedSvs.phase \/ svs.phase \in NextPhases(cachedSvs.phase)
    /\ cachedSvs.phase # "FindingCandidate" =>
          svs.candidate = cachedSvs.candidate
    /\ cachedSvs.phase # "CreatingSnapshot" =>
          svs.lastSnapshot = cachedSvs.lastSnapshot
    /\ missingCRDs => cachedSvs.phase \in {"Started", "MissingCRDs"}
    /\ missingCRDs => svs.phase \in {"Started", "MissingCRDs"}

(* The CosmosFullNode controller has not acted on the signal to delete p.  *)
NotYet(p) ==
    /\ pods[p] = "synced" /\ seenPods[p] = "synced"
    /\ fnSignal = p => cachedSignal = p

(* It has, and goes on seeing the signal.                                  *)
Going(p) ==
    /\ cachedSignal = p
    /\ fnSignal \in {p, Idle}
    /\ pods[p] \in {"terminating", "absent"}
    /\ seenPods[p] = "absent" => pods[p] = "absent"

Down(p) == Going(p) /\ pods[p] = "absent" /\ seenPods[p] = "absent"

(* A pod that is not signalled is not on its way down, the informer shows  *)
(* a past state of it, and it is still absent while the CosmosFullNode     *)
(* controller has yet to see that it is not signalled any more.            *)
Free(p) ==
    /\ pods[p] # "terminating" /\ seenPods[p] # "terminating"
    /\ seenPods[p] = "starting" => pods[p] \in {"starting", "synced"}
    /\ seenPods[p] = "synced" => pods[p] = "synced"
    /\ cachedSignal = p => fnSignal \in {p, Idle}
    /\ cachedSignal = p \/ fnSignal = p =>
          pods[p] = "absent" /\ seenPods[p] = "absent"

(* The phases from the choice of the candidate until its snapshot is       *)
(* ready.                                                                  *)
Holding == {"DeletingPod", "WaitingForPodDeletion", "CreatingSnapshot",
            "WaitingForSnapshotCreation"}

SignalMatchesPhase ==
    /\ signalled # NoPod =>
          /\ DeletePod
          /\ signalled = svs.candidate
          /\ \/ /\ svs.phase \in {"DeletingPod", "WaitingForPodDeletion"}
                /\ NotYet(signalled) \/ Going(signalled)
             \/ /\ svs.phase \in {"CreatingSnapshot", "RestoringPod",
                                  "WaitingForSnapshotCreation"}
                /\ Down(signalled)
    /\ svs.phase = "DeletingPod" /\ signalled = NoPod =>
          pods[svs.candidate] = "synced" /\ seenPods[svs.candidate] = "synced"
    /\ svs.phase \in {"DeletingPod", "WaitingForPodDeletion"} => DeletePod
    /\ DeletePod /\ svs.phase \in Holding => svs.candidate \in Pods
    /\ DeletePod /\ svs.phase \in Holding \ {"DeletingPod"} =>
          signalled = svs.candidate

CycleInv ==
    /\ OneAhead
    /\ SignalMatchesPhase
    /\ \A p \in Pods : p # signalled => Free(p)

-----------------------------------------------------------------------------
(* What a Reconcile starts with, when nothing is suspended.                *)
LEMMA CrdFields ==
  ASSUME TypeOK, OneAhead
  PROVE  /\ Crd.suspend = FALSE
         /\ Crd.candidate = cachedSvs.candidate
         /\ Crd.lastSnapshot = cachedSvs.lastSnapshot
         /\ Crd.phase = IF cachedSvs.phase = "Started" THEN "WaitingForNext"
                                                       ELSE cachedSvs.phase
<1>1. cachedSvs \in Object
  BY DEF TypeOK
<1>2. cachedSvs.suspend = FALSE
  BY <1>1 DEF OneAhead, Object
<1> QED BY <1>1, <1>2 DEF Crd, ResetStatus, OneAhead, Object

LEMMA SetPhaseFields ==
  ASSUME TypeOK, NEW ph
  PROVE  /\ SetPhase(Crd, ph).suspend = Crd.suspend
         /\ SetPhase(Crd, ph).candidate = Crd.candidate
         /\ SetPhase(Crd, ph).lastSnapshot = Crd.lastSnapshot
         /\ SetPhase(Crd, ph).phase = ph
  BY CrdType DEF SetPhase, Object

(* A write that does what the phase of the cached object calls for keeps   *)
(* the two versions within one write of each other.                        *)
LEMMA UpdateOneAhead ==
  ASSUME TypeOK, OneAhead, NEW s, UpdateStatus(s), UNCHANGED missingCRDs,
         ~s.suspend, s.phase # "Suspended",
         s.phase = cachedSvs.phase \/ s.phase \in NextPhases(cachedSvs.phase),
         cachedSvs.phase # "FindingCandidate" =>
            s.candidate = cachedSvs.candidate,
         cachedSvs.phase # "CreatingSnapshot" =>
            s.lastSnapshot = cachedSvs.lastSnapshot,
         missingCRDs => s.phase \in {"Started", "MissingCRDs"}
  PROVE  /\ OneAhead'
         /\ svs' = svs \/ (svs = cachedSvs /\ svs' = s)
<1>1. CASE NotWritten
  BY <1>1 DEF NotWritten, svsVars, OneAhead
<1>2. CASE Written(s)
  BY <1>2 DEF Written, OneAhead, TypeOK
<1> QED BY <1>1, <1>2 DEF UpdateStatus

(* A Reconcile of the ScheduledVolumeSnapshot is outside what the pods'    *)
(* part of the invariant speaks of, but for the signal.                    *)
LEMMA QuietPods ==
  ASSUME UNCHANGED <<pods, seenPods, cachedSignal, fnSignal>>, NEW p
  PROVE  /\ NotYet(p)' <=> NotYet(p)
         /\ Going(p)' <=> Going(p)
         /\ Down(p)' <=> Down(p)
         /\ Free(p)' <=> Free(p)
  BY DEF NotYet, Going, Down, Free

(* Nothing but the object changes, and its phase and candidate do not.     *)
LEMMA SameCycle ==
  ASSUME TypeOK, CycleInv, OneAhead',
         UNCHANGED <<pods, seenPods, cachedSignal, fnSignal, signalled>>,
         svs'.phase = svs.phase, svs'.candidate = svs.candidate
  PROVE  CycleInv'
<1>1. SignalMatchesPhase'
  BY QuietPods DEF CycleInv, SignalMatchesPhase
<1>2. \A p \in Pods : (p # signalled => Free(p))'
  BY QuietPods DEF CycleInv
<1> QED BY <1>1, <1>2 DEF CycleInv

(* Before the candidate is chosen no pod is signalled.                     *)
LEMMA IdleCycle ==
  ASSUME TypeOK, CycleInv, OneAhead', UNCHANGED <<pods, seenPods, cachedSignal,
                                                  fnSignal, signalled>>,
         svs.phase \in {"Started", "WaitingForNext", "FindingCandidate",
                        "MissingCRDs"},
         svs'.phase \in {"Started", "WaitingForNext", "FindingCandidate",
                         "MissingCRDs"}
  PROVE  CycleInv'
<1>1. signalled = NoPod
  BY DEF CycleInv, SignalMatchesPhase
<1>2. SignalMatchesPhase'
  BY <1>1 DEF SignalMatchesPhase, Holding
<1>3. \A p \in Pods : (p # signalled => Free(p))'
  BY QuietPods DEF CycleInv
<1> QED BY <1>2, <1>3 DEF CycleInv

(* One lemma per phase: the handler keeps the invariant.                   *)
LEMMA MissingCRDsCycle ==
  ASSUME TypeOK, CycleInv, ReconcileMissingCRDs
  PROVE  CycleInv'
<1>0. OneAhead /\ missingCRDs
  BY DEF CycleInv, ReconcileMissingCRDs
<1>1. PICK s : s = SetPhase(Crd, "MissingCRDs")
  OBVIOUS
<1>2. /\ ~s.suspend /\ s.phase = "MissingCRDs"
      /\ s.candidate = cachedSvs.candidate
      /\ s.lastSnapshot = cachedSvs.lastSnapshot
  BY <1>0, <1>1, CrdFields, SetPhaseFields
<1>3. /\ UpdateStatus(s) /\ UNCHANGED missingCRDs
      /\ UNCHANGED <<pods, seenPods, cachedSignal, fnSignal, signalled>>
  BY <1>1 DEF ReconcileMissingCRDs, fnVars, podVars, worldVars
<1>4. cachedSvs.phase \in {"Started", "MissingCRDs"}
  BY <1>0 DEF OneAhead
<1>5. "MissingCRDs" \in NextPhases("Started")
  BY DEF NextPhases
<1>6. OneAhead' /\ (svs' = svs \/ (svs = cachedSvs /\ svs' = s))
  BY <1>0, <1>2, <1>3, <1>4, <1>5, UpdateOneAhead
<1>7. svs.phase \in {"Started", "MissingCRDs"}
  BY <1>0 DEF OneAhead
<1> QED BY <1>2, <1>3, <1>6, <1>7, IdleCycle

LEMMA WaitForNextCycle ==
  ASSUME TypeOK, CycleInv, WaitForNext
  PROVE  CycleInv'
<1>0. OneAhead /\ ~missingCRDs /\ Crd.phase = "WaitingForNext"
  BY DEF CycleInv, WaitForNext, Reconciling
<1>1. PICK s : s = IF Due THEN SetPhase(Crd, "FindingCandidate") ELSE Crd
  OBVIOUS
<1>2. /\ ~s.suspend /\ s.phase \in {"WaitingForNext", "FindingCandidate"}
      /\ s.candidate = cachedSvs.candidate
      /\ s.lastSnapshot = cachedSvs.lastSnapshot
  BY <1>0, <1>1, CrdFields, SetPhaseFields
<1>3. /\ UpdateStatus(s) /\ UNCHANGED missingCRDs
      /\ UNCHANGED <<pods, seenPods, cachedSignal, fnSignal, signalled>>
  BY <1>1 DEF WaitForNext, fnVars, podVars, worldVars
<1>4. cachedSvs.phase \in {"Started", "WaitingForNext"}
  BY <1>0, CrdFields
<1>5. /\ NextPhases("Started") = {"WaitingForNext", "FindingCandidate",
                                  "MissingCRDs"}
      /\ NextPhases("WaitingForNext") = {"FindingCandidate"}
  BY DEF NextPhases
<1>6. OneAhead' /\ (svs' = svs \/ (svs = cachedSvs /\ svs' = s))
  BY <1>0, <1>2, <1>3, <1>4, <1>5, UpdateOneAhead
<1>7. svs.phase \in {"Started", "WaitingForNext", "FindingCandidate",
                     "MissingCRDs"}
  BY <1>0, <1>4, <1>5 DEF OneAhead
<1> QED BY <1>2, <1>3, <1>6, <1>7, IdleCycle

(* The candidate the informer shows in sync is in sync.                    *)
LEMMA FindCandidateCycle ==
  ASSUME TypeOK, CycleInv, FindCandidate
  PROVE  CycleInv'
<1> USE ConstantsAssumption
<1>0. OneAhead /\ ~missingCRDs /\ Crd.phase = "FindingCandidate"
  BY DEF CycleInv, FindCandidate, Reconciling
<1>1. cachedSvs.phase = "FindingCandidate"
  BY <1>0, CrdFields
<1>2. /\ UNCHANGED missingCRDs
      /\ UNCHANGED <<pods, seenPods, cachedSignal, fnSignal, signalled>>
  BY DEF FindCandidate, fnVars, podVars, worldVars
<1>3. CASE UpdateStatus(Crd)
  <2>1. PICK s : s = Crd
    OBVIOUS
  <2>2. OneAhead' /\ (svs' = svs \/ (svs = cachedSvs /\ svs' = s))
    BY <1>0, <1>1, <1>2, <1>3, <2>1, CrdFields, UpdateOneAhead
  <2>3. svs'.phase = svs.phase /\ svs'.candidate = svs.candidate
    BY <1>0, <1>1, <2>1, <2>2, CrdFields
  <2> QED BY <1>2, <2>2, <2>3, SameCycle
<1>4. ASSUME NEW synced \in SyncedPods, NEW p \in Candidates(synced),
             UpdateStatus([Crd EXCEPT !.candidate = p,
                                      !.phase = IF DeletePod
                                                THEN "DeletingPod"
                                                ELSE "CreatingSnapshot"])
      PROVE  CycleInv'
  <2>1. PICK s : s = [Crd EXCEPT !.candidate = p,
                                 !.phase = IF DeletePod
                                           THEN "DeletingPod"
                                           ELSE "CreatingSnapshot"]
    OBVIOUS
  <2>2. /\ s.suspend = Crd.suspend /\ s.lastSnapshot = Crd.lastSnapshot
        /\ s.candidate = p
        /\ s.phase = IF DeletePod THEN "DeletingPod" ELSE "CreatingSnapshot"
    BY <2>1, CrdType DEF Object
  <2>3. s.phase \in NextPhases("FindingCandidate")
    BY <2>2 DEF NextPhases
  <2>4. UpdateStatus(s)
    BY <1>4, <2>1
  <2>5. OneAhead' /\ (svs' = svs \/ (svs = cachedSvs /\ svs' = s))
    BY <1>0, <1>1, <1>2, <2>2, <2>3, <2>4, CrdFields, UpdateOneAhead
  <2>6. CASE svs' = svs
    BY <1>2, <2>5, <2>6, SameCycle
  <2>7. CASE svs = cachedSvs /\ svs' = s
    <3>1. signalled = NoPod
      BY <1>1, <2>7 DEF CycleInv, SignalMatchesPhase
    <3>2. p \in Pods /\ p \in synced
      BY CandidateType
    <3>3. seenPods[p] \in {"synced", "terminating"}
      BY <3>2 DEF SyncedPods
    <3>4. Free(p)
      BY <3>1, <3>2 DEF CycleInv
    <3>5. seenPods[p] = "synced" /\ pods[p] = "synced"
      BY <3>3, <3>4 DEF Free
    <3>6. SignalMatchesPhase'
      BY <1>2, <2>2, <2>7, <3>1, <3>2, <3>5 DEF SignalMatchesPhase, Holding
    <3>7. \A q \in Pods : (q # signalled => Free(q))'
      BY <1>2, QuietPods DEF CycleInv
    <3> QED BY <2>5, <3>6, <3>7 DEF CycleInv
  <2> QED BY <2>5, <2>6, <2>7
<1> QED BY <1>3, <1>4 DEF FindCandidate

(* Signalling the candidate, once or again.                                *)
LEMMA SignalPodDeletionCycle ==
  ASSUME TypeOK, CycleInv, SignalPodDeletion
  PROVE  CycleInv'
<1> USE ConstantsAssumption
<1>0. OneAhead /\ ~missingCRDs /\ Crd.phase = "DeletingPod"
  BY DEF CycleInv, SignalPodDeletion, Reconciling
<1>1. /\ cachedSvs.phase = "DeletingPod"
      /\ Crd.candidate = cachedSvs.candidate
  BY <1>0, CrdFields
<1>2. /\ UNCHANGED missingCRDs
      /\ UNCHANGED <<pods, seenPods, fnSignal>>
      /\ UNCHANGED cachedSignal
  BY DEF SignalPodDeletion, SignalFails, Signal, fnVars, podVars, worldVars
<1>3. NextPhases("DeletingPod") = {"WaitingForPodDeletion"}
  BY DEF NextPhases
<1>4. PICK p : p = svs.candidate
  OBVIOUS
<1>5. /\ svs.phase \in {"DeletingPod", "WaitingForPodDeletion"}
      /\ cachedSvs.candidate = p
  BY <1>0, <1>1, <1>3, <1>4 DEF OneAhead
<1>6. p \in Pods /\ DeletePod /\ p # NoPod
  BY <1>4, <1>5 DEF CycleInv, SignalMatchesPhase, Holding
<1>7. PICK s : s = SetPhase(Crd, "WaitingForPodDeletion")
  OBVIOUS
<1>8. /\ ~s.suspend /\ s.phase = "WaitingForPodDeletion"
      /\ s.candidate = p
      /\ s.lastSnapshot = cachedSvs.lastSnapshot
  BY <1>0, <1>5, <1>7, CrdFields, SetPhaseFields
<1>9. PICK r : r = Crd
  OBVIOUS
<1>10. /\ ~r.suspend /\ r.phase = "DeletingPod"
       /\ r.candidate = p
       /\ r.lastSnapshot = cachedSvs.lastSnapshot
  BY <1>0, <1>1, <1>5, <1>9, CrdFields
<1>11. UpdateStatus(s) \/ UpdateStatus(r)
  BY <1>7, <1>9 DEF SignalPodDeletion
<1>12. OneAhead' /\ svs'.candidate = p
       /\ svs'.phase \in {"DeletingPod", "WaitingForPodDeletion"}
  <2>1. CASE UpdateStatus(s)
    <3>1. OneAhead' /\ (svs' = svs \/ (svs = cachedSvs /\ svs' = s))
      BY <1>0, <1>1, <1>2, <1>3, <1>5, <1>8, <2>1, UpdateOneAhead
    <3> QED BY <1>4, <1>5, <1>8, <3>1
  <2>2. CASE UpdateStatus(r)
    <3>1. OneAhead' /\ (svs' = svs \/ (svs = cachedSvs /\ svs' = r))
      BY <1>0, <1>1, <1>2, <1>5, <1>10, <2>2, UpdateOneAhead
    <3> QED BY <1>4, <1>5, <1>10, <3>1
  <2> QED BY <1>11, <2>1, <2>2
<1>13. signalled \in {NoPod, p}
  BY <1>4 DEF CycleInv, SignalMatchesPhase
<1>14. signalled' \in {signalled, p}
  BY <1>1, <1>5 DEF SignalPodDeletion, SignalFails, Signal, fnVars
<1>15. NotYet(p) \/ Going(p)
  <2>1. CASE signalled = p
    <3>1. ~(svs.phase \in {"CreatingSnapshot", "RestoringPod",
                           "WaitingForSnapshotCreation"})
      BY <1>5
    <3> QED BY <1>6, <2>1, <3>1 DEF CycleInv, SignalMatchesPhase
  <2>2. CASE signalled = NoPod
    <3>1. svs.phase = "DeletingPod"
      BY <1>4, <1>5, <1>6, <2>2 DEF CycleInv, SignalMatchesPhase, Holding
    <3>2. pods[p] = "synced" /\ seenPods[p] = "synced"
      BY <1>4, <2>2, <3>1 DEF CycleInv, SignalMatchesPhase
    <3>3. Free(p)
      BY <1>6, <2>2 DEF CycleInv
    <3> QED BY <3>2, <3>3 DEF Free, NotYet
  <2> QED BY <1>13, <2>1, <2>2
<1>16. svs'.phase = "WaitingForPodDeletion" => signalled' = p
  <2>1. CASE Signal(Crd.candidate)
    BY <1>1, <1>5, <2>1 DEF Signal
  <2>2. CASE ~Signal(Crd.candidate)
    <3>1. UpdateStatus(r)
      BY <1>9, <2>2 DEF SignalPodDeletion
    <3>2. svs' = svs \/ (svs = cachedSvs /\ svs' = r)
      BY <1>0, <1>1, <1>2, <1>5, <1>10, <3>1, UpdateOneAhead
    <3>3. svs.phase = "WaitingForPodDeletion" => signalled = p
      BY <1>4, <1>6 DEF CycleInv, SignalMatchesPhase, Holding
    <3> QED BY <1>10, <1>14, <3>2, <3>3
  <2> QED BY <2>1, <2>2
<1>17. signalled' = NoPod => pods[p] = "synced" /\ seenPods[p] = "synced"
  <2> SUFFICES ASSUME signalled' = NoPod
               PROVE  pods[p] = "synced" /\ seenPods[p] = "synced"
    OBVIOUS
  <2>1. signalled = NoPod
    BY <1>6, <1>14
  <2>2. svs.phase = "DeletingPod"
    BY <1>4, <1>5, <1>6, <2>1 DEF CycleInv, SignalMatchesPhase, Holding
  <2> QED BY <1>4, <2>1, <2>2 DEF CycleInv, SignalMatchesPhase
<1>18. SignalMatchesPhase'
  <2>1. NotYet(p)' \/ Going(p)'
    BY <1>2, <1>15, QuietPods
  <2>2. signalled' \in {NoPod, p}
    BY <1>13, <1>14
  <2>3. /\ signalled' # NoPod =>
              signalled' = p /\ (NotYet(signalled)' \/ Going(signalled)')
        /\ pods' = pods /\ seenPods' = seenPods
    BY <1>2, <2>1, <2>2
  <2> QED BY <1>6, <1>12, <1>16, <1>17, <2>3 DEF SignalMatchesPhase, Holding
<1>19. \A q \in Pods : (q # signalled => Free(q))'
  BY <1>2, <1>6, <1>13, <1>14, QuietPods DEF CycleInv
<1> QED BY <1>12, <1>18, <1>19 DEF CycleInv

(* The informer shows the candidate absent: it is, and stays so.           *)
LEMMA ConfirmPodDeletionCycle ==
  ASSUME TypeOK, CycleInv, ConfirmPodDeletion
  PROVE  CycleInv'
<1> USE ConstantsAssumption
<1>0. OneAhead /\ ~missingCRDs /\ Crd.phase = "WaitingForPodDeletion"
  BY DEF CycleInv, ConfirmPodDeletion, Reconciling
<1>1. /\ cachedSvs.phase = "WaitingForPodDeletion"
      /\ Crd.candidate = cachedSvs.candidate
  BY <1>0, CrdFields
<1>2. /\ UNCHANGED missingCRDs
      /\ UNCHANGED <<pods, seenPods, cachedSignal, fnSignal, signalled>>
  BY DEF ConfirmPodDeletion, fnVars, podVars, worldVars
<1>3. NextPhases("WaitingForPodDeletion") = {"CreatingSnapshot"}
  BY DEF NextPhases
<1>4. PICK s : s = IF seenPods[Crd.candidate] = "absent"
                   THEN SetPhase(Crd, "CreatingSnapshot") ELSE Crd
  OBVIOUS
<1>5. /\ ~s.suspend
      /\ s.phase = IF seenPods[cachedSvs.candidate] = "absent"
                   THEN "CreatingSnapshot" ELSE "WaitingForPodDeletion"
      /\ s.candidate = cachedSvs.candidate
      /\ s.lastSnapshot = cachedSvs.lastSnapshot
  BY <1>0, <1>1, <1>4, CrdFields, SetPhaseFields
<1>6. UpdateStatus(s)
  BY <1>4 DEF ConfirmPodDeletion
<1>7. OneAhead' /\ (svs' = svs \/ (svs = cachedSvs /\ svs' = s))
  BY <1>0, <1>1, <1>2, <1>3, <1>5, <1>6, UpdateOneAhead
<1>8. CASE svs'.phase = svs.phase
  <2>1. svs'.candidate = svs.candidate
    BY <1>5, <1>7
  <2> QED BY <1>2, <1>7, <1>8, <2>1, SameCycle
<1>9. CASE svs'.phase # svs.phase
  <2>1. /\ svs = cachedSvs /\ svs' = s
        /\ seenPods[svs.candidate] = "absent"
        /\ svs'.phase = "CreatingSnapshot"
        /\ svs'.candidate = svs.candidate
    BY <1>1, <1>5, <1>7, <1>9
  <2>2. /\ DeletePod
        /\ signalled = svs.candidate /\ svs.candidate \in Pods
    BY <1>1, <2>1 DEF CycleInv, SignalMatchesPhase, Holding
  <2>3. NotYet(signalled) \/ Going(signalled)
    <3>1. ~(svs.phase \in {"CreatingSnapshot", "RestoringPod",
                           "WaitingForSnapshotCreation"})
      BY <1>1, <2>1
    <3> QED BY <2>2, <3>1 DEF CycleInv, SignalMatchesPhase
  <2>4. Down(signalled)
    BY <2>1, <2>2, <2>3 DEF NotYet, Going, Down
  <2>5. Down(signalled)'
    BY <1>2, <2>4 DEF Down, Going
  <2>6. SignalMatchesPhase'
    BY <1>2, <2>1, <2>2, <2>5 DEF SignalMatchesPhase, Holding
  <2>7. \A q \in Pods : (q # signalled => Free(q))'
    BY <1>2, QuietPods DEF CycleInv
  <2> QED BY <1>7, <2>6, <2>7 DEF CycleInv
<1> QED BY <1>8, <1>9

(* While the snapshot is created and until it is ready the signal stays.   *)
LEMMA DownCycle ==
  ASSUME TypeOK, CycleInv, OneAhead', UNCHANGED <<pods, seenPods, cachedSignal,
                                                  fnSignal, signalled>>,
         svs.phase \in {"CreatingSnapshot", "WaitingForSnapshotCreation"},
         svs'.phase \in {"CreatingSnapshot", "WaitingForSnapshotCreation",
                         "RestoringPod"},
         svs'.candidate = svs.candidate
  PROVE  CycleInv'
<1>1. signalled # NoPod => /\ DeletePod
                           /\ signalled = svs.candidate
                           /\ Down(signalled)
  BY DEF CycleInv, SignalMatchesPhase
<1>2. DeletePod => signalled = svs.candidate /\ svs.candidate \in Pods
  BY DEF CycleInv, SignalMatchesPhase, Holding
<1>3. Down(signalled)' <=> Down(signalled)
  BY DEF Down, Going
<1>4. SignalMatchesPhase'
  BY <1>1, <1>2, <1>3 DEF SignalMatchesPhase, Holding
<1>5. \A q \in Pods : (q # signalled => Free(q))'
  BY QuietPods DEF CycleInv
<1> QED BY <1>4, <1>5 DEF CycleInv

LEMMA CreateSnapshotCycle ==
  ASSUME TypeOK, CycleInv, CreateSnapshot
  PROVE  CycleInv'
<1>0. OneAhead /\ ~missingCRDs /\ Crd.phase = "CreatingSnapshot"
  BY DEF CycleInv, CreateSnapshot, Reconciling
<1>1. /\ cachedSvs.phase = "CreatingSnapshot"
      /\ Crd.candidate = cachedSvs.candidate
  BY <1>0, CrdFields
<1>2. /\ UNCHANGED missingCRDs
      /\ UNCHANGED <<pods, seenPods, cachedSignal, fnSignal, signalled>>
  BY DEF CreateSnapshot, fnVars, podVars, worldVars
<1>3. NextPhases("CreatingSnapshot") = {"WaitingForSnapshotCreation"}
  BY DEF NextPhases
<1>4. PICK s : /\ s = Crd \/ s = [Crd EXCEPT !.lastSnapshot = now,
                                     !.phase = "WaitingForSnapshotCreation"]
               /\ UpdateStatus(s)
  BY DEF CreateSnapshot
<1>5. /\ ~s.suspend
      /\ s.phase \in {"CreatingSnapshot", "WaitingForSnapshotCreation"}
      /\ s.candidate = cachedSvs.candidate
  BY <1>0, <1>1, <1>4, CrdFields, CrdType DEF Object
<1>6. OneAhead' /\ (svs' = svs \/ (svs = cachedSvs /\ svs' = s))
  BY <1>0, <1>1, <1>2, <1>3, <1>4, <1>5, UpdateOneAhead
<1>7. svs.phase \in {"CreatingSnapshot", "WaitingForSnapshotCreation"}
  BY <1>0, <1>1, <1>3 DEF OneAhead
<1> QED BY <1>2, <1>5, <1>6, <1>7, DownCycle

LEMMA IsSnapshotReadyCycle ==
  ASSUME TypeOK, CycleInv, IsSnapshotReady
  PROVE  CycleInv'
<1>0. OneAhead /\ ~missingCRDs /\ Crd.phase = "WaitingForSnapshotCreation"
  BY DEF CycleInv, IsSnapshotReady, Reconciling
<1>1. /\ cachedSvs.phase = "WaitingForSnapshotCreation"
      /\ Crd.candidate = cachedSvs.candidate
      /\ Crd.lastSnapshot = cachedSvs.lastSnapshot
  BY <1>0, CrdFields
<1>2. /\ UNCHANGED missingCRDs
      /\ UNCHANGED <<pods, seenPods, cachedSignal, fnSignal, signalled>>
  BY DEF IsSnapshotReady, fnVars, podVars, worldVars
<1>3. NextPhases("WaitingForSnapshotCreation") = {"RestoringPod"}
  BY DEF NextPhases
<1>4. PICK s : /\ s = Crd \/ s = SetPhase(Crd, "RestoringPod")
               /\ UpdateStatus(s)
  BY DEF IsSnapshotReady
<1>5. /\ ~s.suspend
      /\ s.phase \in {"WaitingForSnapshotCreation", "RestoringPod"}
      /\ s.candidate = cachedSvs.candidate
      /\ s.lastSnapshot = cachedSvs.lastSnapshot
  <2>1. CASE s = Crd
    BY <1>0, <1>1, <2>1, CrdFields
  <2>2. CASE s = SetPhase(Crd, "RestoringPod")
    BY <1>0, <1>1, <2>2, CrdFields, SetPhaseFields
  <2> QED BY <1>4, <2>1, <2>2
<1>6. OneAhead' /\ (svs' = svs \/ (svs = cachedSvs /\ svs' = s))
  BY <1>0, <1>1, <1>2, <1>3, <1>4, <1>5, UpdateOneAhead
<1>7. CASE svs' = svs
  BY <1>2, <1>6, <1>7, SameCycle
<1>8. CASE svs = cachedSvs /\ svs' = s
  BY <1>1, <1>2, <1>5, <1>6, <1>8, DownCycle
<1> QED BY <1>6, <1>7, <1>8

(* The candidate is set free: absent, until the CosmosFullNode controller  *)
(* sees it.                                                                *)
LEMMA RestorePodCycle ==
  ASSUME TypeOK, CycleInv, RestorePod
  PROVE  CycleInv'
<1> USE ConstantsAssumption
<1>0. OneAhead /\ ~missingCRDs /\ Crd.phase = "RestoringPod"
  BY DEF CycleInv, RestorePod, Reconciling
<1>1. /\ cachedSvs.phase = "RestoringPod"
      /\ Crd.candidate = cachedSvs.candidate
      /\ Crd.lastSnapshot = cachedSvs.lastSnapshot
      /\ Crd.suspend = FALSE
  BY <1>0, CrdFields
<1>2. /\ UNCHANGED missingCRDs
      /\ UNCHANGED <<pods, seenPods, fnSignal>>
      /\ UNCHANGED cachedSignal
  BY DEF RestorePod, SignalFails, Signal, fnVars, podVars, worldVars
<1>3. NextPhases("RestoringPod") = {"WaitingForNext"}
  BY DEF NextPhases
<1>4. Restored = SetPhase(Crd, "WaitingForNext")
  BY <1>1 DEF Restored
<1>5. PICK s : /\ UpdateStatus(s)
               /\ \/ s = Restored /\ cachedSignal = NoPod /\ UNCHANGED fnVars
                  \/ s = Restored /\ Signal(NoPod)
                  \/ s = Crd /\ SignalFails(NoPod)
  BY DEF RestorePod
<1>6. /\ ~s.suspend
      /\ s.phase \in {"WaitingForNext", "RestoringPod"}
      /\ s.phase = "WaitingForNext" => s = Restored
      /\ s.candidate = cachedSvs.candidate
      /\ s.lastSnapshot = cachedSvs.lastSnapshot
  BY <1>0, <1>1, <1>4, <1>5, CrdFields, SetPhaseFields
<1>7. OneAhead' /\ (svs' = svs \/ (svs = cachedSvs /\ svs' = s))
  BY <1>0, <1>1, <1>2, <1>3, <1>5, <1>6, UpdateOneAhead
<1>8. /\ svs.phase \in {"RestoringPod", "WaitingForNext"}
      /\ svs'.phase \in {"RestoringPod", "WaitingForNext"}
      /\ svs'.candidate = svs.candidate
  BY <1>0, <1>1, <1>3, <1>6, <1>7 DEF OneAhead
<1>9. /\ signalled # NoPod => /\ DeletePod
                              /\ signalled = svs.candidate
                              /\ svs.phase = "RestoringPod"
                              /\ Down(signalled)
  BY <1>8 DEF CycleInv, SignalMatchesPhase
<1>10. signalled' \in {signalled, NoPod}
  BY <1>5 DEF SignalFails, Signal, fnVars
(* When the phase is left, the signal is gone.                             *)
<1>11. signalled' # NoPod => svs'.phase = "RestoringPod"
  <2> SUFFICES ASSUME signalled' # NoPod, svs'.phase # "RestoringPod"
               PROVE  FALSE
    OBVIOUS
  <2>1. signalled' = signalled /\ signalled # NoPod
    BY <1>10
  <2>2. svs' = s /\ s = Restored
    BY <1>6, <1>7, <1>8, <1>9, <2>1
  <2>3. s # Crd
    <3>1. s.phase = "WaitingForNext"
      BY <1>8, <2>2
    <3> QED BY <1>0, <3>1
  <2>4. cachedSignal = NoPod
    BY <1>5, <2>1, <2>3 DEF Signal
  <2> QED BY <1>9, <2>1, <2>4 DEF Down, Going
<1>12. SignalMatchesPhase'
  <2>1. signalled' # NoPod => /\ signalled' = signalled
                              /\ Down(signalled)'
    BY <1>2, <1>9, <1>10 DEF Down, Going
  <2> QED BY <1>8, <1>9, <1>11, <2>1 DEF SignalMatchesPhase, Holding
<1>13. ASSUME NEW q \in Pods, q # signalled' PROVE Free(q)'
  <2>1. CASE q # signalled
    BY <1>2, <2>1, QuietPods DEF CycleInv
  <2>2. CASE q = signalled
    <3>1. Down(q)
      BY <1>9, <2>2
    <3>2. Free(q)
      BY <3>1 DEF Down, Going, Free
    <3> QED BY <1>2, <3>2, QuietPods
  <2> QED BY <2>1, <2>2
<1> QED BY <1>7, <1>12, <1>13 DEF CycleInv

LEMMA ReconcileCycle ==
  ASSUME TypeOK, CycleInv, Reconcile
  PROVE  CycleInv'
BY MissingCRDsCycle, WaitForNextCycle, FindCandidateCycle,
   SignalPodDeletionCycle, ConfirmPodDeletionCycle, CreateSnapshotCycle,
   IsSnapshotReadyCycle, RestorePodCycle DEF Reconcile

(* What the steps that touch neither the ScheduledVolumeSnapshot nor the   *)
(* signal must keep: the pod under the signal stays where it is or goes    *)
(* further down, any other stays free, and up if it is.                    *)
LEMMA PodwiseCycle ==
  ASSUME TypeOK, CycleInv, OneAhead', UNCHANGED <<svs, signalled>>,
         \A p \in Pods :
            p = signalled => /\ NotYet(p) => NotYet(p)' \/ Going(p)'
                             /\ Going(p) => Going(p)'
                             /\ Down(p) => Down(p)',
         \A p \in Pods :
            p # signalled /\ Free(p) =>
               /\ Free(p)'
               /\ pods[p] = "synced" /\ seenPods[p] = "synced" =>
                     pods'[p] = "synced" /\ seenPods'[p] = "synced"
  PROVE  CycleInv'
<1> USE ConstantsAssumption
<1>1. \A p \in Pods : (p # signalled => Free(p))'
  BY DEF CycleInv
<1>2. svs.phase = "DeletingPod" /\ signalled = NoPod =>
         pods'[svs.candidate] = "synced" /\ seenPods'[svs.candidate] = "synced"
  <2> SUFFICES ASSUME svs.phase = "DeletingPod", signalled = NoPod
               PROVE  /\ pods'[svs.candidate] = "synced"
                      /\ seenPods'[svs.candidate] = "synced"
    OBVIOUS
  <2>1. /\ svs.candidate \in Pods
        /\ pods[svs.candidate] = "synced" /\ seenPods[svs.candidate] = "synced"
    BY DEF CycleInv, SignalMatchesPhase, Holding
  <2>2. Free(svs.candidate) /\ svs.candidate # signalled
    BY <2>1 DEF CycleInv
  <2> QED BY <2>1, <2>2
<1>3. signalled # NoPod =>
        /\ DeletePod
        /\ signalled = svs.candidate
        /\ \/ /\ svs.phase \in {"DeletingPod", "WaitingForPodDeletion"}
              /\ NotYet(signalled)' \/ Going(signalled)'
           \/ /\ svs.phase \in {"CreatingSnapshot", "RestoringPod",
                                "WaitingForSnapshotCreation"}
              /\ Down(signalled)'
  <2>1. signalled \in Pods \cup {NoPod}
    BY DEF TypeOK
  <2>2. signalled # NoPod =>
          /\ NotYet(signalled) => NotYet(signalled)' \/ Going(signalled)'
          /\ Going(signalled) => Going(signalled)'
          /\ Down(signalled) => Down(signalled)'
    BY <2>1
  <2> QED BY <2>2 DEF CycleInv, SignalMatchesPhase
<1>4. SignalMatchesPhase'
  BY <1>2, <1>3 DEF CycleInv, SignalMatchesPhase
<1> QED BY <1>1, <1>4 DEF CycleInv

(* The CosmosFullNode controller keeps the invariant.                      *)
LEMMA FullNodeCycle ==
  ASSUME TypeOK, CycleInv, FullNodeGet \/ FullNodePods
  PROVE  CycleInv'
<1> USE ConstantsAssumption
<1>0. /\ OneAhead'
      /\ UNCHANGED <<svs, signalled, cachedSignal, seenPods>>
  BY DEF FullNodeGet, FullNodePods, svsVars, fnVars, podVars, worldVars,
         CycleInv, OneAhead
<1>1. CASE FullNodeGet
  <2>1. fnSignal = Idle /\ fnSignal' = cachedSignal /\ UNCHANGED pods
    BY <1>1 DEF FullNodeGet, podVars
  <2>2. \A p \in Pods :
           /\ NotYet(p) => NotYet(p)'
           /\ Going(p) => Going(p)'
           /\ Down(p) => Down(p)'
           /\ Free(p) => Free(p)'
    BY <1>0, <2>1 DEF NotYet, Going, Down, Free
  <2> QED BY <1>0, <2>1, <2>2, PodwiseCycle
<1>2. CASE FullNodePods
  <2>1. fnSignal # Idle /\ fnSignal' = Idle
    BY <1>2 DEF FullNodePods
  <2>2. PICK creates \in SUBSET Creates, deletes \in SUBSET Deletes :
           pods' = [p \in Pods |->
                       IF p \in creates /\ pods[p] = "absent" THEN "starting"
                       ELSE IF p \in deletes /\ pods[p] # "absent"
                            THEN "terminating" ELSE pods[p]]
    BY <1>2 DEF FullNodePods
  <2>3. /\ \A p \in creates : p # fnSignal /\ seenPods[p] = "absent"
        /\ \A p \in deletes : p = fnSignal /\ seenPods[p] # "absent"
    BY DEF Creates, Deletes
  <2>4. ASSUME NEW p \in Pods
        PROVE  /\ NotYet(p) => NotYet(p)' \/ Going(p)'
               /\ Going(p) => Going(p)'
               /\ Down(p) => Down(p)'
               /\ Free(p) => Free(p)'
               /\ Free(p) /\ pods[p] = "synced" /\ seenPods[p] = "synced"
                     => pods'[p] = "synced"
    <3>1. pods'[p] = IF p \in creates /\ pods[p] = "absent" THEN "starting"
                     ELSE IF p \in deletes /\ pods[p] # "absent"
                          THEN "terminating" ELSE pods[p]
      BY <2>2
    <3>2. NotYet(p) => NotYet(p)' \/ Going(p)'
      BY <1>0, <2>1, <2>3, <3>1 DEF NotYet, Going
    <3>3. (Going(p) => Going(p)') /\ (Down(p) => Down(p)')
      BY <1>0, <2>1, <2>3, <3>1 DEF Going, Down
    <3>4. Free(p) => Free(p)'
      BY <1>0, <2>1, <2>3, <3>1 DEF Free
    <3>5. Free(p) /\ pods[p] = "synced" /\ seenPods[p] = "synced"
             => pods'[p] = "synced"
      BY <2>3, <3>1 DEF Free
    <3> QED BY <3>2, <3>3, <3>4, <3>5
  <2> QED BY <1>0, <2>4, PodwiseCycle
<1> QED BY <1>1, <1>2

(* So does the world, as long as it does not suspend the object and deletes *)
(* no pods of its own accord.                                              *)
LEMMA EnvironmentCycle ==
  ASSUME TypeOK, CycleInv, Environment, ~Churn, ~svs'.suspend
  PROVE  CycleInv'
<1> USE ConstantsAssumption
        DEF svsVars, fnVars, podVars, snapshotVars, worldVars
<1>t. pods \in [Pods -> PodState] /\ svs \in Object
  BY DEF TypeOK
<1>o. OneAhead
  BY DEF CycleInv
<1>1. ASSUME NEW q \in Pods, PodStarts(q) \/ PodGone(q)
      PROVE  CycleInv'
  <2>1. /\ UNCHANGED <<svs, cachedSvs, missingCRDs, signalled, cachedSignal,
                       fnSignal, seenPods>>
        /\ \/ pods[q] = "starting" /\ pods' = [pods EXCEPT ![q] = "synced"]
           \/ pods[q] = "terminating" /\ pods' = [pods EXCEPT ![q] = "absent"]
    BY <1>1 DEF PodStarts, PodGone
  <2>2. OneAhead'
    BY <1>o, <2>1 DEF OneAhead
  <2>3. ASSUME NEW p \in Pods
        PROVE  /\ NotYet(p) => NotYet(p)'
               /\ Going(p) => Going(p)'
               /\ Down(p) => Down(p)'
               /\ Free(p) => Free(p)'
               /\ pods[p] = "synced" => pods'[p] = "synced"
    <3>1. pods'[p] = IF p = q THEN IF pods[q] = "starting" THEN "synced"
                                   ELSE "absent"
                     ELSE pods[p]
      BY <1>t, <2>1
    <3>2. pods[q] \in {"starting", "terminating"}
      BY <2>1
    <3> QED BY <2>1, <3>1, <3>2 DEF NotYet, Going, Down, Free
  <2> QED BY <2>1, <2>2, <2>3, PodwiseCycle
<1>2. ASSUME NEW q \in Pods PROVE ~PodDisrupted(q)
  BY DEF PodDisrupted
<1>3. CASE SvsSync
  <2>1. /\ UNCHANGED <<svs, signalled, pods, seenPods, cachedSignal, fnSignal,
                       missingCRDs>>
        /\ cachedSvs' = svs
    BY <1>3 DEF SvsSync
  <2>2. OneAhead'
    BY <1>o, <2>1 DEF OneAhead
  <2> QED BY <2>1, <2>2, SameCycle
<1>4. CASE FullNodeSync
  <2>1. /\ UNCHANGED <<svs, cachedSvs, missingCRDs, signalled, fnSignal, pods,
                       seenPods>>
        /\ cachedSignal' = signalled
    BY <1>4 DEF FullNodeSync
  <2>2. OneAhead'
    BY <1>o, <2>1 DEF OneAhead
  <2>3. \A p \in Pods :
           /\ p = signalled => /\ NotYet(p) => NotYet(p)'
                               /\ Going(p) => Going(p)'
                               /\ Down(p) => Down(p)'
           /\ p # signalled /\ Free(p) => Free(p)'
    BY <2>1 DEF NotYet, Going, Down, Free
  <2> QED BY <2>1, <2>2, <2>3, PodwiseCycle
<1>5. CASE PodSync
  <2>1. /\ UNCHANGED <<svs, cachedSvs, missingCRDs, signalled, cachedSignal,
                       fnSignal, pods>>
        /\ seenPods' = pods
    BY <1>5 DEF PodSync
  <2>2. OneAhead'
    BY <1>o, <2>1 DEF OneAhead
  <2>3. \A p \in Pods :
           /\ NotYet(p) => NotYet(p)'
           /\ Going(p) => Going(p)'
           /\ Down(p) => Down(p)'
           /\ Free(p) => Free(p)'
    BY <2>1 DEF NotYet, Going, Down, Free
  <2> QED BY <2>1, <2>2, <2>3, PodwiseCycle
<1>6. CASE \/ \E t \in Time : SnapshotProgresses(t)
           \/ SnapshotSync \/ DeleteSvs \/ InstallCRDs
           \/ APIServerHeals \/ Tick
  <2>1. /\ UNCHANGED <<svs, cachedSvs, signalled, cachedSignal, fnSignal, pods,
                       seenPods>>
        /\ missingCRDs' => missingCRDs
    BY <1>6 DEF SnapshotProgresses, SnapshotSync, DeleteSvs, InstallCRDs,
                APIServerHeals, Tick
  <2>2. OneAhead'
    BY <1>o, <2>1 DEF OneAhead
  <2> QED BY <2>1, <2>2, SameCycle
<1>7. ~ToggleSuspend
  <2>1. svs.suspend = FALSE
    BY <1>o, <1>t DEF OneAhead, Object
  <2>2. ASSUME ToggleSuspend PROVE FALSE
    <3>1. svs' = [svs EXCEPT !.suspend = ~svs.suspend]
      BY <2>2 DEF ToggleSuspend
    <3>2. svs'.suspend = ~svs.suspend
      BY <1>t, <3>1 DEF Object
    <3> QED BY <2>1, <3>2
  <2> QED BY <2>2
<1> QED BY <1>1, <1>2, <1>3, <1>4, <1>5, <1>6, <1>7 DEF Environment

(* Nothing is suspended, at the API server.                                *)
Active == ~svs.suspend

(* The invariant, for every instance without other reasons to delete pods, *)
(* while nobody suspends the object.                                       *)
THEOREM CycleInvariant ==
  ASSUME ~Churn
  PROVE  Spec /\ []Active => []CycleInv
<1> USE ConstantsAssumption
<1>1. Init => CycleInv
  <2> SUFFICES ASSUME Init PROVE CycleInv
    OBVIOUS
  <2>1. OneAhead
    BY DEF Init, OneAhead
  <2>2. SignalMatchesPhase
    BY DEF Init, SignalMatchesPhase, Holding
  <2>3. \A p \in Pods : Free(p)
    BY DEF Init, Free
  <2> QED BY <2>1, <2>2, <2>3 DEF CycleInv
<1>2. TypeOK /\ CycleInv /\ Active' /\ [Next]_vars => CycleInv'
  <2> SUFFICES ASSUME TypeOK, CycleInv, Active', [Next]_vars PROVE CycleInv'
    OBVIOUS
  <2>1. CASE Reconcile
    BY <2>1, ReconcileCycle
  <2>2. CASE FullNodeGet \/ FullNodePods
    BY <2>2, FullNodeCycle
  <2>3. CASE Environment
    BY <2>3, EnvironmentCycle DEF Active
  <2>4. CASE UNCHANGED vars
    <3>1. UNCHANGED <<svs, cachedSvs, missingCRDs, signalled, cachedSignal,
                      fnSignal, pods, seenPods>>
      BY <2>4 DEF vars, svsVars, fnVars, podVars, worldVars
    <3>2. OneAhead'
      BY <3>1 DEF CycleInv, OneAhead
    <3> QED BY <3>1, <3>2, SameCycle
  <2> QED BY <2>1, <2>2, <2>3, <2>4 DEF Next
<1> QED BY <1>1, <1>2, TypeCorrect, PTL DEF Spec

-----------------------------------------------------------------------------
(***************************************************************************)
(* What follows from it.                                                   *)
(***************************************************************************)

(* PodNotForgotten for every instance: when the controller waits for the   *)
(* next time of its schedule no pod is held down for it.                   *)
THEOREM NoPodForgotten ==
  ASSUME ~Churn
  PROVE  Spec /\ []Active => []PodNotForgotten
<1>1. CycleInv => PodNotForgotten
  BY DEF CycleInv, SignalMatchesPhase, PodNotForgotten
<1> QED BY <1>1, CycleInvariant, PTL

(* HeldUntilReady for every instance: while the controller waits for the   *)
(* snapshot and it is not ready, no pod uses the PVC.                      *)
THEOREM PodHeldUntilReady ==
  ASSUME ~Churn
  PROVE  Spec /\ []Active => []HeldUntilReady
<1>1. TypeOK /\ CycleInv => HeldUntilReady
  <2> SUFFICES ASSUME TypeOK, CycleInv, DeletePod,
                      svs.phase = "WaitingForSnapshotCreation"
               PROVE  pods[svs.candidate] = "absent"
    BY DEF HeldUntilReady
  <2>1. signalled = svs.candidate /\ signalled # NoPod
    BY ConstantsAssumption DEF CycleInv, SignalMatchesPhase, Holding
  <2> QED BY <2>1 DEF CycleInv, SignalMatchesPhase, Down
<1> QED BY <1>1, CycleInvariant, TypeCorrect, PTL

(* QuietSnapshot for every instance: a snapshot is only ever created of a  *)
(* PVC that no pod uses, although the deletion was confirmed through an    *)
(* informer and the object may be one write ahead of the cached one.       *)
THEOREM SnapshotIsQuiet ==
  ASSUME ~Churn
  PROVE  Spec /\ []Active => QuietSnapshot
<1>1. TypeOK /\ CycleInv /\ [Next]_vars => [QuietSnapshotStep]_vars
  <2> SUFFICES ASSUME TypeOK, CycleInv, Next, NEW t \in Time, DeletePod,
                      snapshots[t] = "none", snapshots'[t] = "pending"
               PROVE  pods[cachedSvs.candidate] = "absent"
    BY DEF QuietSnapshotStep
  <2>1. snapshots \in [Time -> SnapshotState]
    BY DEF TypeOK
  <2>2. CreateSnapshot
    <3>1. CASE WaitForNext
      BY <3>1 DEF WaitForNext, DeleteOldSnapshots
    <3>2. CASE \/ ReconcileMissingCRDs \/ FindCandidate \/ SignalPodDeletion
               \/ ConfirmPodDeletion \/ IsSnapshotReady \/ RestorePod
               \/ FullNodeGet \/ FullNodePods
      BY <3>2 DEF ReconcileMissingCRDs, FindCandidate, SignalPodDeletion,
                  ConfirmPodDeletion, IsSnapshotReady, RestorePod,
                  FullNodeGet, FullNodePods, snapshotVars
    <3>3. ~Environment
      BY <2>1 DEF Environment, PodStarts, PodGone, PodDisrupted,
                  SnapshotProgresses, SvsSync, FullNodeSync, PodSync,
                  SnapshotSync, ToggleSuspend, DeleteSvs, InstallCRDs,
                  APIServerHeals, Tick, snapshotVars
    <3> QED BY <3>1, <3>2, <3>3 DEF Next, Reconcile
  <2>3. OneAhead /\ Crd.phase = "CreatingSnapshot"
    BY <2>2 DEF CycleInv, CreateSnapshot, Reconciling
  <2>4. cachedSvs.phase = "CreatingSnapshot"
    BY <2>3, CrdFields
  <2>5. /\ svs.candidate = cachedSvs.candidate
        /\ svs.phase \in {"CreatingSnapshot", "WaitingForSnapshotCreation"}
    BY <2>3, <2>4 DEF OneAhead, NextPhases
  <2>6. signalled = svs.candidate /\ signalled # NoPod
    BY <2>5, ConstantsAssumption DEF CycleInv, SignalMatchesPhase, Holding
  <2> QED BY <2>5, <2>6 DEF CycleInv, SignalMatchesPhase, Down
<1> QED BY <1>1, CycleInvariant, TypeCorrect, PTL DEF Spec, QuietSnapshot

-----------------------------------------------------------------------------
(***************************************************************************)
(* How the object, the signal and the pods change in a step.               *)
(***************************************************************************)

(* A Reconcile leaves the cached object and the pods alone, and writes only *)
(* where the cached object is current.                                     *)
LEMMA ReconcileWrites ==
  ASSUME TypeOK, Reconcile
  PROVE  /\ UNCHANGED <<cachedSvs, pods>>
         /\ svs' # svs => svs = cachedSvs
<1>1. UNCHANGED pods
  BY DEF Reconcile, ReconcileMissingCRDs, WaitForNext, FindCandidate,
         SignalPodDeletion, ConfirmPodDeletion, CreateSnapshot,
         IsSnapshotReady, RestorePod, podVars
<1>2. \E s : UpdateStatus(s)
  <2>1. CASE CreateSnapshot
    BY <2>1, Zenon DEF CreateSnapshot
  <2>2. CASE SignalPodDeletion \/ RestorePod
    BY <2>2, Zenon DEF SignalPodDeletion, RestorePod
  <2>3. CASE \/ ReconcileMissingCRDs \/ WaitForNext \/ FindCandidate
             \/ ConfirmPodDeletion \/ IsSnapshotReady
    BY <2>3, Zenon DEF ReconcileMissingCRDs, WaitForNext, FindCandidate,
                ConfirmPodDeletion, IsSnapshotReady
  <2> QED BY <2>1, <2>2, <2>3 DEF Reconcile
<1> QED BY <1>1, <1>2 DEF UpdateStatus, Written, NotWritten, svsVars, TypeOK

(* What is not a Reconcile of the ScheduledVolumeSnapshot changes neither  *)
(* its status nor the signal.                                              *)
LEMMA OthersKeepStatus ==
  ASSUME TypeOK, [Next]_vars, ~Reconcile
  PROVE  /\ svs'.phase = svs.phase /\ svs'.candidate = svs.candidate
         /\ signalled' = signalled
<1>1. \/ svs' = svs
      \/ svs' = [svs EXCEPT !.suspend = ~svs.suspend]
  BY DEF Next, FullNodeGet, FullNodePods, Environment, PodStarts,
         PodGone, PodDisrupted, SnapshotProgresses, SvsSync,
         FullNodeSync, PodSync, SnapshotSync, ToggleSuspend,
         DeleteSvs, InstallCRDs, APIServerHeals, Tick, svsVars, vars
<1>2. signalled' = signalled
  BY DEF Next, FullNodeGet, FullNodePods, Environment, PodStarts,
         PodGone, PodDisrupted, SnapshotProgresses, SvsSync,
         FullNodeSync, PodSync, SnapshotSync, ToggleSuspend,
         DeleteSvs, InstallCRDs, APIServerHeals, Tick, fnVars, vars
<1> QED BY <1>1, <1>2 DEF TypeOK, Object

(* The phase stays or goes on to the next one.                             *)
LEMMA PhaseStep ==
  ASSUME TypeOK, CycleInv, CycleInv', [Next]_vars
  PROVE  svs'.phase = svs.phase \/ svs'.phase \in NextPhases(svs.phase)
<1>1. CASE Reconcile
  <2>1. UNCHANGED cachedSvs /\ (svs' # svs => svs = cachedSvs)
    BY <1>1, ReconcileWrites
  <2>2. svs'.phase = cachedSvs'.phase \/ svs'.phase \in NextPhases(cachedSvs'.phase)
    BY DEF CycleInv, OneAhead, NextPhases
  <2> QED BY <2>1, <2>2
<1>2. CASE ~Reconcile
  BY <1>2, OthersKeepStatus
<1> QED BY <1>1, <1>2

(* Only FindCandidate changes the candidate.                               *)
LEMMA CandidateStep ==
  ASSUME TypeOK, CycleInv, CycleInv', [Next]_vars, ~FindCandidate
  PROVE  svs'.candidate = svs.candidate
<1>1. CASE Reconcile
  <2>1. UNCHANGED cachedSvs
    BY <1>1, ReconcileWrites
  <2>2. OneAhead /\ OneAhead'
    BY DEF CycleInv
  <2>3. cachedSvs.phase # "FindingCandidate"
    <3>1. CASE ReconcileMissingCRDs
      BY <2>2, <3>1 DEF ReconcileMissingCRDs, OneAhead
    <3>2. CASE ~ReconcileMissingCRDs
      <4>1. Crd.phase # "FindingCandidate"
        BY <1>1, <3>2 DEF Reconcile, WaitForNext, SignalPodDeletion,
                          ConfirmPodDeletion, CreateSnapshot,
                          IsSnapshotReady, RestorePod, Reconciling
      <4> QED BY <2>2, <4>1, CrdFields
    <3> QED BY <3>1, <3>2
  <2> QED BY <2>1, <2>2, <2>3 DEF OneAhead
<1>2. CASE ~Reconcile
  BY <1>2, OthersKeepStatus
<1> QED BY <1>1, <1>2

(* The pods in a step of the CosmosFullNode controller: one that is not    *)
(* signalled is not deleted, the signalled one is not created.             *)
LEMMA FullNodeOnPods ==
  ASSUME TypeOK, CycleInv, FullNodePods, NEW p \in Pods
  PROVE  /\ pods[p] = "synced" /\ p # signalled => pods'[p] = "synced"
         /\ pods[p] = "absent" /\ p = signalled => pods'[p] = "absent"
         /\ pods[p] # "absent" => pods'[p] # "absent"
<1> USE ConstantsAssumption
<1>1. PICK creates \in SUBSET Creates, deletes \in SUBSET Deletes :
          pods' = [q \in Pods |->
                     IF q \in creates /\ pods[q] = "absent" THEN "starting"
                     ELSE IF q \in deletes /\ pods[q] # "absent"
                          THEN "terminating" ELSE pods[q]]
  BY DEF FullNodePods
<1>2. pods[p] = "synced" /\ p # signalled => p \notin deletes
  <2> SUFFICES ASSUME pods[p] = "synced", p # signalled, p \in deletes
               PROVE  FALSE
    OBVIOUS
  <2>1. fnSignal = p
    BY DEF Deletes
  <2>2. Free(p)
    BY DEF CycleInv
  <2> QED BY <2>1, <2>2 DEF Free
<1>3. pods[p] = "absent" /\ p = signalled => p \notin creates
  <2> SUFFICES ASSUME pods[p] = "absent", p = signalled, p \in creates
               PROVE  FALSE
    OBVIOUS
  <2>1. fnSignal # p /\ fnSignal # Idle
    BY DEF Creates, FullNodePods
  <2>2. Going(p)
    BY DEF CycleInv, SignalMatchesPhase, NotYet, Down
  <2> QED BY <2>1, <2>2 DEF Going
<1> QED BY <1>1, <1>2, <1>3

(* A pod that is in sync and not signalled stays so.                       *)
LEMMA SyncedStays ==
  ASSUME TypeOK, CycleInv, [Next]_vars, ~Churn,
         NEW p \in Pods, pods[p] = "synced", p # signalled
  PROVE  pods'[p] = "synced"
<1>1. CASE Reconcile
  BY <1>1, ReconcileWrites
<1>2. CASE FullNodePods
  BY <1>2, FullNodeOnPods
<1>3. CASE FullNodeGet \/ UNCHANGED vars
  BY <1>3 DEF FullNodeGet, vars, podVars
<1>4. CASE Environment
  BY <1>4 DEF Environment, PodStarts, PodGone, PodDisrupted,
         SnapshotProgresses, SvsSync, FullNodeSync, PodSync, SnapshotSync,
         ToggleSuspend, DeleteSvs, InstallCRDs, APIServerHeals, Tick, podVars,
         TypeOK
<1> QED BY <1>1, <1>2, <1>3, <1>4 DEF Next

-----------------------------------------------------------------------------
(***************************************************************************)
(* minAvailable                                                            *)
(***************************************************************************)
InSync == {p \in Pods : pods[p] = "synced"}

(* The inductive form: with the candidate, whether it is in sync or not,   *)
(* there are minAvailable pods.                                            *)
EnoughWithCandidate ==
    svs.candidate # NoPod =>
        Cardinality(InSync \cup {svs.candidate}) >= MinAvailable

(* From the first candidate on at least minAvailable - 1 pods are in sync. *)
EnoughInSync ==
    svs.candidate # NoPod => Cardinality(InSync) >= MinAvailable - 1

(* Larger sets of pods have more pods.                                     *)
LEMMA MorePods ==
  ASSUME NEW S, NEW T \in SUBSET Pods, S \subseteq T
  PROVE  /\ IsFiniteSet(T)
         /\ Cardinality(S) \in Nat /\ Cardinality(T) \in Nat
         /\ Cardinality(S) <= Cardinality(T)
<1>1. IsFiniteSet(T)
  BY ConstantsAssumption, FS_Subset DEF ConstantsAssumption
<1>2. IsFiniteSet(S) /\ Cardinality(S) <= Cardinality(T)
  BY <1>1, FS_Subset
<1> QED BY <1>1, <1>2, FS_CardinalityType

(* A candidate is chosen when no pod is signalled, so that what the pod    *)
(* informer shows in sync is in sync.                                      *)
LEMMA FindCandidateEnough ==
  ASSUME TypeOK, CycleInv, EnoughWithCandidate, FindCandidate
  PROVE  EnoughWithCandidate'
<1> USE ConstantsAssumption
<1>0. /\ OneAhead /\ Crd.phase = "FindingCandidate" /\ UNCHANGED pods
  BY DEF CycleInv, FindCandidate, Reconciling, podVars
<1>1. cachedSvs.phase = "FindingCandidate" /\ Crd.candidate = cachedSvs.candidate
  BY <1>0, CrdFields
<1>2. CASE svs'.candidate = svs.candidate
  <2>1. InSync' = InSync
    BY <1>0 DEF InSync
  <2> QED BY <1>2, <2>1 DEF EnoughWithCandidate
<1>3. ASSUME NEW synced \in SyncedPods, NEW p \in Candidates(synced),
             ~svsBehind, svs'.candidate = p
      PROVE  EnoughWithCandidate'
  <2>1. svs.phase = "FindingCandidate"
    BY <1>1, <1>3 DEF TypeOK
  <2>2. signalled = NoPod
    BY <2>1 DEF CycleInv, SignalMatchesPhase
  <2>3. \A q \in Pods : Free(q)
    BY <2>2 DEF CycleInv
  <2>4. synced \subseteq InSync
    BY <2>3 DEF SyncedPods, Free, InSync
  <2>5. ~(Cardinality(synced) < MinAvailable) /\ p \in synced
    BY DEF Candidates
  <2>6. (InSync \cup {p}) \in SUBSET Pods /\ synced \subseteq InSync \cup {p}
    BY <2>4, <2>5 DEF InSync
  <2>7. /\ Cardinality(synced) \in Nat /\ Cardinality(InSync \cup {p}) \in Nat
        /\ Cardinality(synced) <= Cardinality(InSync \cup {p})
    BY <2>6, MorePods
  <2>8. Cardinality(InSync \cup {p}) >= MinAvailable
    BY <2>5, <2>7 DEF ConstantsAssumption
  <2>9. InSync' = InSync
    BY <1>0 DEF InSync
  <2> QED BY <1>3, <2>8, <2>9 DEF EnoughWithCandidate
<1>4. ASSUME NEW synced \in SyncedPods, NEW p \in Candidates(synced),
             UpdateStatus([Crd EXCEPT !.candidate = p,
                                      !.phase = IF DeletePod
                                                THEN "DeletingPod"
                                                ELSE "CreatingSnapshot"])
      PROVE  EnoughWithCandidate'
  <2>1. CASE NotWritten
    BY <1>2, <2>1 DEF NotWritten, svsVars
  <2>2. CASE ~NotWritten
    <3>1. ~svsBehind /\ svs' = [Crd EXCEPT !.candidate = p,
                                      !.phase = IF DeletePod
                                                THEN "DeletingPod"
                                                ELSE "CreatingSnapshot"]
      BY <1>4, <2>2, Zenon DEF UpdateStatus, Written
    <3>2. Crd \in Object
      BY CrdType
    <3>3. svs'.candidate = p
      BY <3>1, <3>2 DEF Object
    <3> QED BY <1>3, <3>1, <3>3
  <2> QED BY <2>1, <2>2
<1>5. CASE UpdateStatus(Crd)
  <2>1. svs' = svs \/ (svs = cachedSvs /\ svs' = Crd)
    BY <1>5 DEF UpdateStatus, Written, NotWritten, svsVars, TypeOK
  <2> QED BY <1>1, <1>2, <2>1
<1> QED BY <1>4, <1>5 DEF FindCandidate

(* Taking a pod down for its snapshot leaves at least minAvailable - 1     *)
(* pods in sync, for every minAvailable: with the default of 2 there is no *)
(* downtime.  FindCandidate counts what informers show, and the pod of the *)
(* cycle before may not be back by then.                                   *)
THEOREM EnoughPodsStay ==
  ASSUME ~Churn
  PROVE  Spec /\ []Active => []EnoughInSync
<1> USE ConstantsAssumption
<1>1. Init => EnoughWithCandidate
  BY DEF Init, EnoughWithCandidate
<1>2. TypeOK /\ CycleInv /\ CycleInv' /\ EnoughWithCandidate /\ [Next]_vars
         => EnoughWithCandidate'
  <2> SUFFICES ASSUME TypeOK, CycleInv, CycleInv', EnoughWithCandidate,
                      [Next]_vars, svs'.candidate # NoPod, ~FindCandidate
               PROVE  Cardinality(InSync' \cup {svs'.candidate}) >= MinAvailable
    BY FindCandidateEnough DEF EnoughWithCandidate
  <2>1. svs'.candidate = svs.candidate
    BY CandidateStep
  <2> DEFINE c == svs.candidate
             S == InSync \cup {c}
             T == InSync' \cup {c}
  <2>2. c \in Pods /\ Cardinality(S) >= MinAvailable
    BY <2>1 DEF EnoughWithCandidate, TypeOK, Object
  <2>3. \A p \in Pods : pods[p] = "synced" /\ p # c => pods'[p] = "synced"
    <3>1. signalled # NoPod => signalled = c
      BY DEF CycleInv, SignalMatchesPhase
    <3> QED BY <3>1, SyncedStays
  <2>4. S \subseteq T /\ T \in SUBSET Pods
    BY <2>2, <2>3 DEF InSync
  <2> HIDE DEF c, S, T
  <2>5. /\ Cardinality(S) \in Nat /\ Cardinality(T) \in Nat
        /\ Cardinality(S) <= Cardinality(T)
    BY <2>4, MorePods
  <2>6. Cardinality(T) >= MinAvailable
    BY <2>2, <2>5 DEF ConstantsAssumption
  <2> QED BY <2>1, <2>6 DEF T, c
<1>3. EnoughWithCandidate => EnoughInSync
  <2> SUFFICES ASSUME svs.candidate # NoPod,
                      Cardinality(InSync \cup {svs.candidate}) >= MinAvailable
               PROVE  Cardinality(InSync) >= MinAvailable - 1
    BY DEF EnoughWithCandidate, EnoughInSync
  <2>1. IsFiniteSet(InSync) /\ Cardinality(InSync) \in Nat
    BY MorePods DEF InSync
  <2>2. Cardinality(InSync \cup {svs.candidate}) \in {Cardinality(InSync), Cardinality(InSync) + 1}
    BY <2>1, FS_AddElement
  <2> HIDE DEF InSync
  <2> QED BY <2>1, <2>2 DEF ConstantsAssumption
<1> QED BY <1>1, <1>2, <1>3, CycleInvariant, TypeCorrect, PTL DEF Spec

-----------------------------------------------------------------------------
(***************************************************************************)
(* The refinement of SnapshotHold                                          *)
(***************************************************************************)
Up == {p \in Pods : pods[p] # "absent"}

(* The stages, by phase, while a pod is signalled.                         *)
LEMMA StageOf ==
  ASSUME TypeOK
  PROVE  /\ signalled = NoPod => Stage = "idle"
         /\ signalled # NoPod => Stage =
               IF svs.phase = "WaitingForSnapshotCreation" THEN "taking"
               ELSE IF svs.phase = "RestoringPod" THEN "taken" ELSE "holding"
  BY DEF Stage

LEMMA StageOfNext ==
  ASSUME TypeOK'
  PROVE  /\ signalled' = NoPod => Stage' = "idle"
         /\ signalled' # NoPod => Stage' =
               IF svs'.phase = "WaitingForSnapshotCreation" THEN "taking"
               ELSE IF svs'.phase = "RestoringPod" THEN "taken" ELSE "holding"
  BY DEF Stage

(* A Reconcile that leaves the signal alone: the snapshot is begun and     *)
(* finished in phases in which the pod is down.                            *)
LEMMA HoldGoesOn ==
  ASSUME TypeOK, TypeOK', CycleInv, CycleInv', [Next]_vars,
         UNCHANGED <<signalled, pods>>
  PROVE  [Hold!Next]_<<signalled, Up, Stage>>
<1>1. Up' = Up
  BY DEF Up
<1>2. CASE signalled = NoPod
  BY <1>1, <1>2, StageOf, StageOfNext
<1>3. CASE signalled # NoPod /\ svs'.phase = svs.phase
  BY <1>1, <1>3, StageOf, StageOfNext
<1>4. CASE signalled # NoPod /\ svs'.phase # svs.phase
  <2>1. /\ svs.phase \in {"DeletingPod", "WaitingForPodDeletion", "CreatingSnapshot",
                          "RestoringPod", "WaitingForSnapshotCreation"}
        /\ svs'.phase \in {"DeletingPod", "WaitingForPodDeletion", "CreatingSnapshot",
                           "RestoringPod", "WaitingForSnapshotCreation"}
        /\ svs.phase = "CreatingSnapshot" => pods[signalled] = "absent"
    BY <1>4 DEF CycleInv, SignalMatchesPhase, Down
  <2>2. svs'.phase \in NextPhases(svs.phase)
    BY <1>4, PhaseStep
  <2>3. \/ svs.phase \in {"DeletingPod", "WaitingForPodDeletion"}
           /\ svs'.phase \in {"WaitingForPodDeletion", "CreatingSnapshot"}
        \/ svs.phase = "CreatingSnapshot"
           /\ svs'.phase = "WaitingForSnapshotCreation"
        \/ svs.phase = "WaitingForSnapshotCreation"
           /\ svs'.phase = "RestoringPod"
    BY <2>1, <2>2 DEF NextPhases
  <2>4. CASE /\ svs.phase \in {"DeletingPod", "WaitingForPodDeletion"}
             /\ svs'.phase \in {"WaitingForPodDeletion", "CreatingSnapshot"}
    <3>1. Stage = "holding" /\ Stage' = "holding"
      BY <1>4, <2>4, StageOf, StageOfNext
    <3> QED BY <1>1, <3>1
  <2>5. CASE /\ svs.phase = "CreatingSnapshot"
             /\ svs'.phase = "WaitingForSnapshotCreation"
    <3>1. Stage = "holding" /\ Stage' = "taking" /\ signalled \notin Up
      BY <1>4, <2>1, <2>5, StageOf, StageOfNext DEF Up
    <3>2. Hold!Take
      BY <1>1, <3>1 DEF Hold!Take, Up
    <3> QED BY <3>2 DEF Hold!Next
  <2>6. CASE /\ svs.phase = "WaitingForSnapshotCreation"
             /\ svs'.phase = "RestoringPod"
    <3>1. Stage = "taking" /\ Stage' = "taken"
      BY <1>4, <2>6, StageOf, StageOfNext
    <3>2. Hold!Taken
      BY <1>1, <3>1 DEF Hold!Taken, Up
    <3> QED BY <3>2 DEF Hold!Next
  <2> QED BY <2>3, <2>4, <2>5, <2>6
<1> QED BY <1>2, <1>3, <1>4

(* Setting the signal, for a pod that is up; removing it, once the         *)
(* snapshot counts as ready.                                               *)
LEMMA HoldSignals ==
  ASSUME TypeOK, TypeOK', CycleInv, CycleInv', Reconcile, signalled' # signalled
  PROVE  Hold!Next
<1> USE ConstantsAssumption
<1>0. OneAhead /\ OneAhead' /\ UNCHANGED <<cachedSvs, pods>>
  BY ReconcileWrites DEF CycleInv
<1>1. Up' = Up
  BY <1>0 DEF Up
<1>2. SignalPodDeletion \/ RestorePod
  BY DEF Reconcile, ReconcileMissingCRDs, WaitForNext, FindCandidate,
         ConfirmPodDeletion, CreateSnapshot, IsSnapshotReady, fnVars
<1>3. CASE SignalPodDeletion
  <2>1. /\ cachedSvs.phase = "DeletingPod"
        /\ signalled' = cachedSvs.candidate
    BY <1>0, <1>3, CrdFields DEF SignalPodDeletion, Reconciling, Signal,
                                 SignalFails, fnVars
  <2>2. /\ svs.candidate = cachedSvs.candidate
        /\ svs.phase \in {"DeletingPod", "WaitingForPodDeletion"}
        /\ svs'.phase \in {"DeletingPod", "WaitingForPodDeletion"}
    BY <1>0, <2>1 DEF OneAhead, NextPhases
  <2>3. DeletePod /\ svs.candidate \in Pods
    BY <2>2 DEF CycleInv, SignalMatchesPhase, Holding
  <2>4. signalled = NoPod
    BY <2>1, <2>2 DEF CycleInv, SignalMatchesPhase
  <2>5. svs.phase = "DeletingPod"
    BY <2>2, <2>3, <2>4 DEF CycleInv, SignalMatchesPhase, Holding, ConstantsAssumption
  <2>6. signalled' \in Up /\ signalled' # NoPod
    BY <2>1, <2>2, <2>3, <2>4, <2>5 DEF CycleInv, SignalMatchesPhase, Up, ConstantsAssumption
  <2>7. Stage = "idle" /\ Stage' = "holding"
    BY <2>2, <2>4, <2>6, StageOf, StageOfNext
  <2>8. Hold!HoldDown(signalled')
    BY <1>1, <2>7 DEF Hold!HoldDown, Up
  <2> QED BY <2>6, <2>8 DEF Hold!Next, Up
<1>4. CASE RestorePod
  <2>1. cachedSvs.phase = "RestoringPod" /\ signalled' = NoPod
    BY <1>0, <1>4, CrdFields DEF RestorePod, Reconciling, Signal, SignalFails, fnVars
  <2>2. svs.phase \in {"RestoringPod", "WaitingForNext"}
    BY <1>0, <2>1 DEF OneAhead, NextPhases
  <2>3. svs.phase = "RestoringPod"
    BY <2>1, <2>2 DEF CycleInv, SignalMatchesPhase
  <2>4. Stage = "taken" /\ Stage' = "idle"
    BY <2>1, <2>3, StageOf, StageOfNext
  <2>5. Hold!Release
    BY <1>1, <2>1, <2>4 DEF Hold!Release, Up
  <2> QED BY <2>5 DEF Hold!Next
<1> QED BY <1>2, <1>3, <1>4

(* The pods: only the signalled one goes, and it does not come back before *)
(* the signal is gone.                                                     *)
LEMMA HoldPods ==
  ASSUME TypeOK, TypeOK', CycleInv, CycleInv', [Next]_vars, ~Reconcile, ~Churn,
         pods' # pods
  PROVE  [Hold!Next]_<<signalled, Up, Stage>>
<1> USE ConstantsAssumption
<1>1. svs'.phase = svs.phase /\ signalled' = signalled
  BY OthersKeepStatus
<1>2. Stage' = Stage
  BY <1>1, StageOf, StageOfNext
<1>t. pods \in [Pods -> PodState] /\ pods' \in [Pods -> PodState]
  BY DEF TypeOK
<1>3. FullNodePods \/ \E p \in Pods : PodStarts(p) \/ PodGone(p)
  BY DEF Next, FullNodeGet, Environment, PodDisrupted, SnapshotProgresses,
         SvsSync, FullNodeSync, PodSync, SnapshotSync, ToggleSuspend,
         DeleteSvs, InstallCRDs, APIServerHeals, Tick, podVars, vars
<1>4. CASE FullNodePods
  <2>0. PICK ps : ps = {p \in Pods : pods[p] = "absent" /\ pods'[p] # "absent"}
    OBVIOUS
  <2>1. Up' = Up \cup ps
    BY <1>4, <2>0, FullNodeOnPods DEF Up
  <2>2. signalled \notin ps
    BY <1>4, <2>0, FullNodeOnPods
  <2>3. Hold!Start(ps)
    BY <1>1, <1>2, <2>1, <2>2 DEF Hold!Start, Up
  <2>4. ps \in SUBSET Pods
    BY <2>0
  <2> QED BY <2>3, <2>4 DEF Hold!Next
<1>5. ASSUME NEW p \in Pods, PodStarts(p) PROVE Up' = Up
  BY <1>5, <1>t DEF PodStarts, Up
<1>6. ASSUME NEW p \in Pods, PodGone(p) PROVE Hold!Stop
  <2>1. p = signalled
    BY <1>6 DEF PodGone, CycleInv, Free
  <2>2. p \in Up /\ Up' = Up \ {p}
    BY <1>6, <1>t DEF PodGone, Up
  <2> QED BY <1>1, <1>2, <2>1, <2>2 DEF Hold!Stop, Up
<1> QED BY <1>1, <1>2, <1>3, <1>4, <1>5, <1>6 DEF Hold!Next

(* The two controllers implement SnapshotHold: every step of theirs and of *)
(* their world is one of its steps or leaves its state alone, however      *)
(* stale the reads are and whichever calls fail.                           *)
THEOREM HoldRefinement ==
  ASSUME ~Churn
  PROVE  Spec /\ []Active => ImplementsSnapshotHold
<1>1. Init => Hold!Init
  <2> SUFFICES ASSUME Init PROVE Hold!Init
    OBVIOUS
  <2>1. signalled = NoPod /\ \A p \in Pods : pods[p] = "synced"
    BY DEF Init
  <2>2. Stage = "idle"
    BY <2>1 DEF Stage
  <2>3. {p \in Pods : pods[p] # "absent"} = Pods
    BY <2>1
  <2> QED BY <2>1, <2>2, <2>3 DEF Hold!Init
<1>2. TypeOK /\ TypeOK' /\ CycleInv /\ CycleInv' /\ [Next]_vars
         => [Hold!Next]_(Hold!holdVars)
  <2> SUFFICES ASSUME TypeOK, TypeOK', CycleInv, CycleInv', [Next]_vars
               PROVE  [Hold!Next]_<<signalled, Up, Stage>>
    BY DEF Hold!holdVars, Up
  <2>1. CASE UNCHANGED <<signalled, pods>>
    BY <2>1, HoldGoesOn
  <2>2. CASE Reconcile /\ signalled' # signalled
    BY <2>2, HoldSignals
  <2>3. CASE ~Reconcile /\ pods' # pods
    BY <2>3, HoldPods
  <2>4. Reconcile => pods' = pods
    BY ReconcileWrites
  <2>5. ~Reconcile => signalled' = signalled
    BY OthersKeepStatus
  <2> QED BY <2>1, <2>2, <2>3, <2>4, <2>5
<1> QED BY <1>1, <1>2, CycleInvariant, TypeCorrect, PTL
        DEF Spec, ImplementsSnapshotHold, Hold!Spec

=============================================================================
