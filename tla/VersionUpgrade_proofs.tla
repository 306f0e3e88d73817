------------------------ MODULE VersionUpgrade_proofs -----------------------
(***************************************************************************)
(* VersionUpgrade implements ChainUpgrade for any number of pods, versions *)
(* and heights, whatever fails and whoever writes status.height.           *)
(*                                                                         *)
(* The argument: only VersionCheck starts a node, and the image it insists *)
(* on is the one ChainUpgrade asks for (ImagesAgree); the other steps stop *)
(* nodes, or leave the running ones and their data alone.                  *)
(***************************************************************************)
EXTENDS VersionUpgrade, WellFoundedInduction, TLAPS

-----------------------------------------------------------------------------
(***************************************************************************)
(* The image for a height.                                                 *)
(***************************************************************************)

(* A non-empty set of natural numbers has a smallest element.              *)
LEMMA SmallestExists ==
    ASSUME NEW T \in SUBSET Nat, T # {}
    PROVE  \E x \in T : \A y \in T : x <= y
<1> DEFINE R == OpToRel(<, Nat)
<1>1. IsWellFoundedOn(R, Nat)
  BY NatLessThanWellFounded
<1>2. \A a, b \in Nat : a < b => <<a, b>> \in R
  BY DEF OpToRel
<1> HIDE DEF R
<1>3. PICK x \in T : \A y \in T : ~(<<y, x>> \in R)
  BY <1>1, WFMin
<1>4. ASSUME NEW y \in T PROVE x <= y
  <2>1. x \in Nat /\ y \in Nat /\ <<y, x>> \notin R
    BY <1>3
  <2>2. ~(y < x)
    BY <1>2, <2>1
  <2> QED BY <2>1, <2>2
<1> QED BY <1>4

(* A non-empty set of numbers up to n has a largest element.               *)
LEMMA LargestExists ==
    ASSUME NEW n \in Nat, NEW S \in SUBSET (0..n), S # {}
    PROVE  \E i \in S : \A j \in S : j <= i
<1> DEFINE T == {n - i : i \in S}
<1>1. T \in SUBSET Nat /\ T # {}
  <2>1. \A i \in S : n - i \in Nat
    OBVIOUS
  <2>2. PICK i \in S : TRUE
    OBVIOUS
  <2>3. n - i \in T
    BY <2>2
  <2> QED BY <2>1, <2>3
<1>2. PICK x \in T : \A y \in T : x <= y
  BY <1>1, SmallestExists
<1>3. PICK i \in S : x = n - i
  BY <1>2
<1>4. ASSUME NEW j \in S PROVE j <= i
  <2>1. x <= n - j
    BY <1>2
  <2> QED BY <1>3, <2>1
<1> QED BY <1>4

(* The versions are positive heights.                                      *)
LEMMA VersionsType ==
    /\ Len(UpgradeHeights) \in Nat
    /\ \A i \in Versions : UpgradeHeights[i] \in Nat /\ UpgradeHeights[i] > 0
    /\ Versions = DOMAIN UpgradeHeights
    /\ Versions \subseteq 0..Len(UpgradeHeights)
BY ConstantsAssumption DEF Versions

(* version-check's version is not above the height, and is the last of the *)
(* versions that are not if these come first in the list.                  *)
LEMMA CheckedImageLast ==
    ASSUME NEW h \in Int
    PROVE  /\ CheckedImage(h) \in Images
           /\ CheckedImage(h) > 0 =>
                CheckedImage(h) \in Versions /\ UpgradeHeights[CheckedImage(h)] <= h
           /\ InOrder(h) =>
                \A j \in Versions : UpgradeHeights[j] <= h => j <= CheckedImage(h)
<1> DEFINE reached == {i \in Images : \A j \in 1..i : UpgradeHeights[j] <= h}
           i == CheckedImage(h)
<1>1. reached \in SUBSET (0..Len(UpgradeHeights)) /\ 0 \in reached
  BY VersionsType DEF Images
<1>2. \E k \in reached : \A j \in reached : j <= k
  BY <1>1, VersionsType, LargestExists
<1>3. i \in reached /\ \A j \in reached : j <= i
  BY <1>2 DEF CheckedImage
<1>4. i \in Images
  BY <1>3
<1>5. i > 0 => i \in Versions /\ UpgradeHeights[i] <= h
  BY <1>3, VersionsType DEF Images, Versions
<1>6. ASSUME InOrder(h), NEW j \in Versions, UpgradeHeights[j] <= h
      PROVE  j <= i
  <2>1. j \in Images
    BY VersionsType DEF Images, Versions
  <2>2. ASSUME NEW k \in 1..j PROVE UpgradeHeights[k] <= h
    <3>1. k \in Versions /\ (k < j \/ k = j)
      BY VersionsType DEF Versions
    <3>2. k < j => UpgradeHeights[k] < UpgradeHeights[j]
      BY <1>6, <3>1 DEF InOrder
    <3> QED BY <1>6, <3>1, <3>2, VersionsType
  <2>3. j \in reached
    BY <2>1, <2>2
  <2> QED BY <1>3, <2>3
<1> QED BY <1>4, <1>5, <1>6

(* findVersion's version is the highest of those not above the height, in  *)
(* whatever order they are.                                                *)
LEMMA FindVersionHighest ==
    ASSUME NEW h \in Int
    PROVE  /\ FindVersion(h) \in Images
           /\ FindVersion(h) > 0 =>
                FindVersion(h) \in Versions /\ UpgradeHeights[FindVersion(h)] <= h
           /\ \A j \in Versions : UpgradeHeights[j] <= h =>
                FindVersion(h) > 0 /\ UpgradeHeights[j] <= UpgradeHeights[FindVersion(h)]
<1> DEFINE fits == {i \in Versions : UpgradeHeights[i] <= h}
           i == FindVersion(h)
<1>1. CASE fits = {}
  BY <1>1, VersionsType DEF FindVersion, Images
<1>2. CASE fits # {}
  <2>1. PICK k \in fits : TRUE
    BY <1>2
  <2>2. h \in Nat
    BY <2>1, VersionsType
  <2> DEFINE heights == {UpgradeHeights[j] : j \in fits}
  <2>3. heights \in SUBSET (0..h) /\ heights # {}
    BY <2>1, <2>2, VersionsType
  <2>4. PICK top \in heights : \A x \in heights : x <= top
    BY <2>2, <2>3, LargestExists
  <2> DEFINE tops == {j \in fits : UpgradeHeights[j] = top}
  <2>5. tops \in SUBSET Nat /\ tops # {}
    BY <2>4, VersionsType DEF Versions
  <2>6. PICK first \in tops : \A j \in tops : first <= j
    BY <2>5, SmallestExists
  <2>7. \A j \in fits : /\ UpgradeHeights[j] <= UpgradeHeights[first]
                        /\ UpgradeHeights[j] = UpgradeHeights[first] => first <= j
    BY <2>4, <2>6
  <2>8. i \in fits /\ \A j \in fits : UpgradeHeights[j] <= UpgradeHeights[i]
    BY <1>2, <2>6, <2>7 DEF FindVersion
  <2> HIDE DEF i
  <2> QED BY <2>8, VersionsType DEF Images, Versions, i
<1> QED BY <1>1, <1>2

(* Whatever the list, the version that version-check insists on is due and *)
(* no later one than the controller's, so that a pod is never held back    *)
(* for a version the controller is going to give it; where the versions    *)
(* that are due come first and in order, the two choose the same one, the  *)
(* version that belongs to the height.                                     *)
THEOREM ImagesAgree ==
    ASSUME NEW h \in Int
    PROVE  /\ CheckedImage(h) > 0 =>
                /\ FindVersion(h) > 0
                /\ UpgradeHeights[CheckedImage(h)] <= UpgradeHeights[FindVersion(h)]
           /\ InOrder(h) =>
                /\ CheckedImage(h) = FindVersion(h)
                /\ Promise!IsVersionAt(h, CheckedImage(h))
<1> DEFINE c == CheckedImage(h)
           f == FindVersion(h)
<1>1. /\ c \in Images /\ (c > 0 => c \in Versions /\ UpgradeHeights[c] <= h)
      /\ InOrder(h) => \A j \in Versions : UpgradeHeights[j] <= h => j <= c
  BY CheckedImageLast
<1>2. /\ f \in Images /\ (f > 0 => f \in Versions /\ UpgradeHeights[f] <= h)
      /\ \A j \in Versions : UpgradeHeights[j] <= h =>
            f > 0 /\ UpgradeHeights[j] <= UpgradeHeights[f]
  BY FindVersionHighest
<1>3. c \in Nat /\ f \in Nat
  BY <1>1, <1>2, VersionsType DEF Images
<1> HIDE DEF c, f
<1>4. c > 0 => f > 0 /\ UpgradeHeights[c] <= UpgradeHeights[f]
  BY <1>1, <1>2
<1>5. ASSUME InOrder(h) PROVE c = f
  <2>1. f <= c
    BY <1>1, <1>2, <1>3, <1>5
  <2>2. CASE c = 0
    BY <1>3, <2>1, <2>2
  <2>3. CASE c > 0
    <3>1. c \in Versions /\ f \in Versions /\ UpgradeHeights[c] <= UpgradeHeights[f]
      BY <1>1, <1>2, <1>4, <2>3
    <3>2. f < c => UpgradeHeights[f] < UpgradeHeights[c]
      BY <1>1, <1>5, <2>3, <3>1 DEF InOrder
    <3>3. UpgradeHeights[c] \in Nat /\ UpgradeHeights[f] \in Nat
      BY <3>1, VersionsType
    <3> QED BY <1>3, <2>1, <3>1, <3>2, <3>3
  <2> QED BY <1>3, <2>2, <2>3
<1>6. InOrder(h) => Promise!IsVersionAt(h, c)
  BY <1>1, VersionsType DEF Promise!IsVersionAt
<1> QED BY <1>4, <1>5, <1>6 DEF c, f

-----------------------------------------------------------------------------
(***************************************************************************)
(* Types                                                                   *)
(***************************************************************************)

(* Config maps hold one of the halt heights.                               *)
LEMMA HaltHeightType ==
    ASSUME NEW h \in Int
    PROVE  HaltHeight(h) \in HaltHeights
<1> DEFINE above == {i \in Versions : h < UpgradeHeights[i]}
<1>1. CASE above = {} \/ ~SetHaltHeight
  BY <1>1 DEF HaltHeight, HaltHeights
<1>2. CASE above # {} /\ SetHaltHeight
  <2>1. above \in SUBSET Nat
    BY VersionsType DEF Versions
  <2>2. \E i \in above : \A j \in above : i <= j
    BY <1>2, <2>1, SmallestExists
  <2>3. \E i \in above : HaltHeight(h) = UpgradeHeights[i]
    BY <1>2, <2>2 DEF HaltHeight
  <2> QED BY <2>3 DEF HaltHeights
<1> QED BY <1>1, <1>2

(* Pods are built with one of the versions.                                *)
LEMMA WantedImageType ==
    ASSUME NEW h \in Heights
    PROVE  WantedImage(h) \in Images
<1>1. h \in Int
  BY ConstantsAssumption DEF Heights
<1>2. 0 \in Images
  BY VersionsType DEF Images
<1> QED BY <1>1, <1>2, FindVersionHighest DEF WantedImage

PodType == [phase: Phases, image: Images, cksum: HaltHeights \cup {-1},
            halt: HaltHeights, seen: Heights]

(* The pods the model starts from and creates.                             *)
LEMMA NewPodType ==
    /\ NoPod \in PodType
    /\ \A i \in Images, c \in HaltHeights \cup {-1} : NewPod(i, c) \in PodType
<1>1. 0 \in Images /\ 0 \in HaltHeights /\ -1 \in Heights
  BY VersionsType, ConstantsAssumption DEF Images, HaltHeights, Heights
<1> QED BY <1>1 DEF NoPod, NewPod, PodType, Phases

(* The model starts well typed.                                            *)
LEMMA InitType == Init => TypeOK
<1>1. -1 \in Heights /\ -1 \in -1..MaxHeight /\ 0 \in 0..MaxLosses
  BY ConstantsAssumption DEF Heights
<1> QED BY <1>1, NewPodType, ConstantsAssumption DEF Init, TypeOK, PodType

(* The steps of the controller keep the types.                             *)
LEMMA ControllerType ==
    ASSUME TypeOK, Controller
    PROVE  TypeOK'
<1> USE DEF TypeOK
<1>1. CASE Collect
  BY <1>1 DEF Collect, clusterVars
<1>2. CASE ReconcileConfigMaps
  <2> DEFINE data == [p \in Pods |-> HaltHeight(crdHeight[p])]
  <2>1. data \in [Pods -> HaltHeights]
    <3>1. \A p \in Pods : crdHeight[p] \in Int
      BY ConstantsAssumption DEF Heights
    <3> QED BY <3>1, HaltHeightType
  <2>2. /\ cksums' \in [Pods -> HaltHeights \cup {-1}]
        /\ configMap' \in [Pods -> HaltHeights \cup {-1}]
    BY <1>2, <2>1 DEF ReconcileConfigMaps
  <2> QED BY <1>2, <2>2 DEF ReconcileConfigMaps
<1>3. CASE ReconcilePods
  <2>1. ASSUME NEW p \in Pods
        PROVE  /\ pod[p] \in PodType
               /\ NewPod(WantedImage(crdHeight[p]), cksums[p]) \in PodType
               /\ [pod[p] EXCEPT !.phase = IF @ = "running" THEN "stopping"
                                           ELSE "terminating"] \in PodType
    BY WantedImageType, NewPodType DEF PodType, Phases
  <2>2. pod' \in [Pods -> PodType]
    BY <1>3, <2>1 DEF ReconcilePods, PodType
  <2> QED BY <1>3, <2>2 DEF ReconcilePods, PodType
<1>4. CASE UpdateStatus
  <2>1. ASSUME NEW p \in Pods, sync[p] > 0
        PROVE  sync[p] + 1 \in Heights
    BY <2>1, ConstantsAssumption DEF Heights
  <2>2. height' \in [Pods -> Heights]
    BY <1>4, <2>1 DEF UpdateStatus
  <2>3. -1 \in -1..MaxHeight
    BY ConstantsAssumption
  <2> QED BY <1>4, <2>2, <2>3 DEF UpdateStatus, clusterVars
<1> QED BY <1>1, <1>2, <1>3, <1>4 DEF Controller

(* What a step of one pod, without the controller, may do.                 *)
PodSteps(p) ==
    \/ Kubelet(p)
    \/ VersionCheckDaemon(p)
    \/ NodeCommits(p)
    \/ NodeStops(p)
    \/ NodeRestarts(p)
    \/ VolumeLost(p)

(* The latest version of a database is a height.                           *)
LEMMA LatestVersionType ==
    ASSUME TypeOK, NEW p \in Pods
    PROVE  /\ LatestVersion(p) \in 0..MaxHeight
           /\ LatestVersion(p) \in Heights
           /\ LatestVersion(p) \in Int
BY ConstantsAssumption DEF TypeOK, LatestVersion, Heights

(* Steps of the pods keep the types.                                       *)
LEMMA PodStepsType ==
    ASSUME TypeOK, NEW p \in Pods, PodSteps(p)
    PROVE  TypeOK'
<1> USE DEF TypeOK, PodStep, reconcileVars
<1>1. CASE ConfigMerge(p)
  <2>1. configMap[p] \in HaltHeights
    BY <1>1 DEF ConfigMerge
  <2>2. pod' \in [Pods -> PodType]
    BY <1>1, <2>1 DEF ConfigMerge, PodType, Phases
  <2> QED BY <1>1, <2>2 DEF ConfigMerge, PodType
<1>2. CASE SnapshotRestore(p)
  <2>1. pod' \in [Pods -> PodType]
    BY <1>2 DEF SnapshotRestore, PodType, Phases
  <2>2. db' \in [Pods -> -1..MaxHeight]
    BY <1>2, ConstantsAssumption DEF SnapshotRestore
  <2> QED BY <1>2, <2>1, <2>2 DEF SnapshotRestore, PodType
<1>3. CASE VersionCheckGet(p)
  <2>1. pod' \in [Pods -> PodType]
    BY <1>3 DEF VersionCheckGet, PodType, Phases
  <2> QED BY <1>3, <2>1 DEF VersionCheckGet, PodType
<1>4. ASSUME NEW known, PatchStatusHeight(p, known)
      PROVE  height' \in [Pods -> Heights]
  BY <1>4, LatestVersionType DEF PatchStatusHeight
<1>5. CASE VersionCheck(p)
  <2>1. -1 \in Heights
    BY ConstantsAssumption DEF Heights
  <2>2. PICK phase \in {"running", "version-check"} : CheckEnds(p, phase)
    BY <1>5 DEF VersionCheck
  <2>3. [pod[p] EXCEPT !.phase = phase, !.seen = -1] \in PodType
    BY <2>1, <2>2 DEF PodType, Phases
  <2>4. pod' \in [Pods -> PodType]
    BY <2>2, <2>3 DEF CheckEnds, PodType
  <2>5. height' \in [Pods -> Heights]
    BY <1>4, <1>5 DEF VersionCheck
  <2>6. db' \in [Pods -> -1..MaxHeight]
    <3>1. LatestVersion(p) \in -1..MaxHeight
      BY LatestVersionType
    <3> QED BY <2>2, <3>1 DEF CheckEnds
  <2> QED BY <2>2, <2>4, <2>5, <2>6 DEF CheckEnds, PodType
<1>6. CASE PodGone(p)
  <2>1. pod' \in [Pods -> PodType]
    BY <1>6, NewPodType DEF PodGone, PodType
  <2> QED BY <1>6, <2>1 DEF PodGone, PodType
<1>7. CASE VersionCheckDaemon(p)
  BY <1>4, <1>7 DEF VersionCheckDaemon, clusterVars
<1>8. CASE NodeCommits(p)
  <2>1. db' \in [Pods -> -1..MaxHeight]
    BY <1>8, ConstantsAssumption DEF NodeCommits
  <2> QED BY <1>8, <2>1 DEF NodeCommits
<1>9. CASE NodeStops(p) \/ NodeRestarts(p)
  <2>1. /\ [pod[p] EXCEPT !.phase = "down"] \in PodType
        /\ [pod[p] EXCEPT !.phase = "running"] \in PodType
    BY DEF PodType, Phases
  <2>2. pod' \in [Pods -> PodType]
    BY <1>9, <2>1 DEF NodeStops, NodeRestarts, PodType
  <2> QED BY <1>9, <2>2 DEF NodeStops, NodeRestarts, PodType
<1>10. CASE VolumeLost(p)
  <2>1. db' \in [Pods -> -1..MaxHeight] /\ losses' \in 0..MaxLosses
    BY <1>10, ConstantsAssumption DEF VolumeLost
  <2> QED BY <1>10, <2>1 DEF VolumeLost
<1> QED BY <1>1, <1>2, <1>3, <1>5, <1>6, <1>7, <1>8, <1>9, <1>10
        DEF PodSteps, Kubelet

(* Every step keeps the types.                                             *)
LEMMA NextType == TypeOK /\ [Next]_vars => TypeOK'
<1> SUFFICES ASSUME TypeOK, [Next]_vars PROVE TypeOK'
  OBVIOUS
<1>1. CASE Controller
  BY <1>1, ControllerType
<1>2. CASE APIServerHeals
  BY <1>2 DEF APIServerHeals, TypeOK, clusterVars, reconcileVars
<1>3. CASE \E p \in Pods : PodSteps(p)
  BY <1>3, PodStepsType
<1>4. CASE UNCHANGED vars
  BY <1>4 DEF vars, TypeOK
<1> QED BY <1>1, <1>2, <1>3, <1>4 DEF Next, PodSteps

(* The model of the upgrades is well typed for any number of pods and      *)
(* versions.                                                               *)
THEOREM UpgradeTypes == Spec => []TypeOK
BY InitType, NextType, PTL DEF Spec

-----------------------------------------------------------------------------
(***************************************************************************)
(* Refinement                                                              *)
(***************************************************************************)

(* The versions that are due at any height of the chain are in order.      *)
OrderedVersions == \A h \in 0..MaxHeight : InOrder(h)

(* What a pod runs depends on its phase and image only.                    *)
LEMMA RunningIs ==
    ASSUME NEW p \in Pods
    PROVE  /\ Running[p] = IF pod[p].phase \in {"running", "down"}
                           THEN pod[p].image ELSE -1
           /\ Running'[p] = IF pod'[p].phase \in {"running", "down"}
                            THEN pod'[p].image ELSE -1
           /\ Up[p] <=> pod[p].phase = "running"
           /\ Up'[p] <=> pod'[p].phase = "running"
           /\ pod'[p] = pod[p] => Up'[p] = Up[p] /\ Running'[p] = Running[p]
BY DEF Running, Up

(* Images are not -1, the sign of a node that is stopped.                  *)
LEMMA ImageType ==
    ASSUME TypeOK, NEW p \in Pods
    PROVE  pod[p].image \in Images /\ pod[p].image # -1
<1>1. pod[p].image \in Images
  BY DEF TypeOK
<1> QED BY <1>1, VersionsType DEF Images

(* The controller stops nodes; it starts none and touches no data.         *)
LEMMA ControllerRefines ==
    ASSUME TypeOK, Controller, NEW p \in Pods
    PROVE  Promise!Stop(p) \/ Promise!Stays(p)
<1> USE DEF Promise!Stop, Promise!Stays
<1>1. CASE Collect \/ ReconcileConfigMaps \/ UpdateStatus
  <2>1. UNCHANGED <<db, pod>>
    BY <1>1 DEF Collect, ReconcileConfigMaps, UpdateStatus, clusterVars
  <2> QED BY <2>1, RunningIs
<1>2. CASE ReconcilePods
  <2>1. db' = db
    BY <1>2 DEF ReconcilePods
  <2>2. \/ pod'[p] = pod[p]
        \/ pod[p].phase = "absent" /\ pod'[p].phase = "config-merge"
        \/ pod'[p].phase \in {"stopping", "terminating"}
    <3>1. CASE Listed # Pods /\ pod' = [q \in Pods |->
                                         IF q \in Listed THEN pod[q]
                                         ELSE NewPod(WantedImage(crdHeight[q]),
                                                     cksums[q])]
      BY <3>1 DEF NewPod, Listed
    <3>2. ASSUME NEW deleted,
                 pod' = [q \in Pods |->
                            IF q \in deleted
                            THEN [pod[q] EXCEPT !.phase =
                                     IF @ = "running" THEN "stopping"
                                     ELSE "terminating"]
                            ELSE pod[q]]
          PROVE  \/ pod'[p] = pod[p]
                 \/ pod'[p].phase \in {"stopping", "terminating"}
      <4>1. pod[p] \in PodType
        BY DEF TypeOK, PodType
      <4>2. [pod[p] EXCEPT !.phase = IF @ = "running" THEN "stopping"
                                     ELSE "terminating"].phase
                \in {"stopping", "terminating"}
        BY <4>1 DEF PodType
      <4> QED BY <3>2, <4>2
    <3>3. CASE UNCHANGED pod
      BY <3>3
    <3> QED BY <1>2, <3>1, <3>2, <3>3 DEF ReconcilePods
  <2>3. CASE pod'[p] = pod[p]
    BY <2>1, <2>3, RunningIs
  <2>4. CASE pod[p].phase = "absent" /\ pod'[p].phase = "config-merge"
    <3>1. Running[p] = -1 /\ Running'[p] = -1 /\ ~Up[p] /\ ~Up'[p]
      BY <2>4, RunningIs
    <3>2. Up'[p] = Up[p]
      BY <2>4 DEF Up
    <3> QED BY <2>1, <3>1, <3>2
  <2>5. CASE pod'[p].phase \in {"stopping", "terminating"}
    <3>1. Running'[p] = -1 /\ ~Up'[p]
      BY <2>5, RunningIs
    <3>2. Running[p] = -1 => Up'[p] = Up[p]
      BY <2>5, <3>1, ImageType DEF Running, Up
    <3> QED BY <2>1, <3>1, <3>2
  <2> QED BY <2>2, <2>3, <2>4, <2>5
<1> QED BY <1>1, <1>2 DEF Controller

(* A step of a pod does to its node what ChainUpgrade allows: it is        *)
(* version-check that decides.                                             *)
LEMMA PodRefines ==
    ASSUME OrderedVersions, TypeOK, NEW p \in Pods, PodSteps(p)
    PROVE  \/ Promise!Start(p) \/ Promise!Commit(p) \/ Promise!Restart(p)
           \/ Promise!Stop(p) \/ Promise!ReplaceData(p) \/ Promise!Stays(p)
<1> USE DEF TypeOK, PodStep
<1> pod[p] \in PodType
  BY DEF PodType
<1>1. CASE ConfigMerge(p) \/ VersionCheckGet(p)
  <2>1. /\ db' = db
        /\ pod[p].phase \in {"config-merge", "version-check"}
        /\ pod'[p].phase \in {"snapshot-restore", "checking"}
    <3>1. CASE ConfigMerge(p)
      BY <3>1 DEF ConfigMerge, PodType
    <3>2. CASE VersionCheckGet(p)
      BY <3>2 DEF VersionCheckGet, PodType
    <3> QED BY <1>1, <3>1, <3>2
  <2>2. Running[p] = -1 /\ Running'[p] = -1
    BY <2>1, RunningIs
  <2>3. Up'[p] = Up[p]
    BY <2>1 DEF Up
  <2> QED BY <2>1, <2>2, <2>3 DEF Promise!Stays
<1>2. CASE SnapshotRestore(p) \/ VolumeLost(p)
  <2>1. Running[p] = -1 /\ Running'[p] = -1 /\ ~Up'[p]
    BY <1>2, RunningIs DEF SnapshotRestore, VolumeLost
  <2>2. db'[p] \in -1..MaxHeight
    BY <1>2, ConstantsAssumption DEF SnapshotRestore, VolumeLost
  <2> QED BY <2>1, <2>2 DEF Promise!ReplaceData
<1>3. CASE VersionCheck(p)
  <2>1. Running[p] = -1
    BY <1>3, RunningIs DEF VersionCheck, CheckEnds
  <2>2. db'[p] = LatestVersion(p)
    BY <1>3 DEF VersionCheck, CheckEnds
  <2>3. CASE pod'[p].phase = "running"
    <3>1. ASSUME CheckEnds(p, "version-check") PROVE FALSE
      BY <2>3, <3>1 DEF CheckEnds, PodType
    <3>2. /\ pod[p].image = CheckedImage(LatestVersion(p))
          /\ CheckEnds(p, "running")
      BY <1>3, <3>1 DEF VersionCheck
    <3>3. pod'[p].image = pod[p].image
      BY <3>2 DEF CheckEnds, PodType
    <3>4. Running'[p] = CheckedImage(LatestVersion(p)) /\ Up'[p]
      BY <2>3, <3>2, <3>3, RunningIs
    <3>5. /\ Promise!IsVersionAt(LatestVersion(p), Running'[p])
          /\ Running'[p] \in Images
      BY <3>4, LatestVersionType, ImagesAgree, CheckedImageLast DEF OrderedVersions
    <3> QED BY <2>1, <2>2, <3>4, <3>5
            DEF Promise!Start, Promise!Images, Images, LatestVersion
  <2>4. CASE pod'[p].phase = "version-check"
    <3>1. Running'[p] = -1 /\ ~Up'[p]
      BY <2>4, RunningIs
    <3>2. db'[p] \in -1..MaxHeight
      BY <2>2, LatestVersionType
    <3> QED BY <2>1, <3>1, <3>2 DEF Promise!ReplaceData
  <2>5. pod'[p].phase \in {"running", "version-check"}
    BY <1>3 DEF VersionCheck, CheckEnds
  <2> QED BY <2>3, <2>4, <2>5
<1>4. CASE PodGone(p)
  <2>1. db' = db /\ Running[p] = -1 /\ Running'[p] = -1
    BY <1>4, RunningIs DEF PodGone, NoPod
  <2>2. Up'[p] = Up[p]
    BY <1>4 DEF PodGone, NoPod, Up
  <2> QED BY <2>1, <2>2 DEF Promise!Stays
<1>5. CASE VersionCheckDaemon(p)
  <2>1. UNCHANGED <<db, pod>>
    BY <1>5 DEF VersionCheckDaemon, clusterVars
  <2> QED BY <2>1, RunningIs DEF Promise!Stays
<1>6. CASE NodeCommits(p)
  <2>1. /\ pod' = pod /\ pod[p].phase = "running"
        /\ db'[p] = db[p] + 1
    BY <1>6 DEF NodeCommits
  <2>2. Running'[p] = Running[p] /\ Up[p] /\ Up'[p]
    BY <2>1, RunningIs
  <2> QED BY <2>1, <2>2 DEF Promise!Commit
<1>7. CASE NodeStops(p) \/ NodeRestarts(p)
  <2>1. /\ db' = db /\ pod'[p].image = pod[p].image
        /\ \/ pod[p].phase = "running" /\ pod'[p].phase = "down"
           \/ pod[p].phase = "down" /\ pod'[p].phase = "running"
    BY <1>7 DEF NodeStops, NodeRestarts
  <2>2. Running[p] # -1 /\ Running'[p] = Running[p]
    BY <2>1, RunningIs, ImageType
  <2>3. Up'[p] = ~Up[p]
    BY <2>1 DEF Up
  <2> QED BY <2>1, <2>2, <2>3 DEF Promise!Restart
<1> QED BY <1>1, <1>2, <1>3, <1>4, <1>5, <1>6, <1>7 DEF PodSteps, Kubelet

(* Every step is a step of ChainUpgrade.                                   *)
LEMMA StepRefines ==
    ASSUME OrderedVersions, TypeOK, [Next]_vars
    PROVE  Promise!Next
<1> SUFFICES ASSUME NEW q \in Pods
             PROVE  \/ Promise!Start(q) \/ Promise!Commit(q) \/ Promise!Restart(q)
                    \/ Promise!Stop(q) \/ Promise!ReplaceData(q) \/ Promise!Stays(q)
  BY DEF Promise!Next
<1>1. CASE Controller
  BY <1>1, ControllerRefines
<1>2. CASE APIServerHeals \/ UNCHANGED vars
  <2>1. UNCHANGED <<db, pod>>
    BY <1>2 DEF APIServerHeals, vars, clusterVars
  <2> QED BY <2>1, RunningIs DEF Promise!Stays
<1>3. ASSUME NEW p \in Pods, PodSteps(p)
      PROVE  \/ Promise!Start(q) \/ Promise!Commit(q) \/ Promise!Restart(q)
             \/ Promise!Stop(q) \/ Promise!ReplaceData(q) \/ Promise!Stays(q)
  <2>1. CASE p = q
    BY <1>3, <2>1, PodRefines
  <2>2. CASE p # q
    <3>1. db'[q] = db[q] /\ pod'[q] = pod[q]
      BY <1>3, <2>2
         DEF PodSteps, Kubelet, ConfigMerge, SnapshotRestore, VersionCheckGet,
             VersionCheck, CheckEnds, PodGone, VersionCheckDaemon, NodeCommits,
             NodeStops, NodeRestarts, VolumeLost, PodStep, TypeOK, clusterVars
    <3> QED BY <3>1, RunningIs DEF Promise!Stays
  <2> QED BY <2>1, <2>2
<1> QED BY <1>1, <1>2, <1>3 DEF Next, PodSteps

(* No node is ever started on its data with the wrong version of the       *)
(* chain, however the controller, version-check, the sidecar, failed calls *)
(* and lost volumes interleave, as long as the versions a height calls for *)
(* come first in the list and in order.                                    *)
THEOREM UpgradeRefinement ==
    ASSUME OrderedVersions
    PROVE  Spec => ImplementsChainUpgrade
<1>1. Init => Promise!Init
  <2> SUFFICES ASSUME Init PROVE Promise!Init
    OBVIOUS
  <2>1. ASSUME NEW p \in Pods PROVE pod[p].phase = "absent"
    BY DEF Init, NoPod
  <2>2. ASSUME NEW p \in Pods PROVE (pod[p].phase = "running") = FALSE
    BY <2>1
  <2>3. Up = [p \in Pods |-> FALSE]
    BY <2>2, Zenon DEF Up
  <2>4. Running = [p \in Pods |-> -1]
    BY <2>1 DEF Running
  <2>5. db \in [Pods -> -1..MaxHeight]
    BY ConstantsAssumption DEF Init
  <2> QED BY <2>3, <2>4, <2>5 DEF Promise!Init
<1>2. TypeOK /\ [Next]_vars => [Promise!Next]_<<db, Running, Up>>
  BY StepRefines
<1>3. Spec => []TypeOK
  BY UpgradeTypes
<1> QED BY <1>1, <1>2, <1>3, PTL
        DEF Spec, ImplementsChainUpgrade, Promise!Spec

=============================================================================
