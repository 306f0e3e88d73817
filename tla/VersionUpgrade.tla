--------------------------- MODULE VersionUpgrade ---------------------------
(***************************************************************************)
(* Upgrades of the chain at the heights of spec.chain.versions.  Four      *)
(* parties take part, and share nothing but status.height of the           *)
(* CosmosFullNode, the config maps and the pods:                           *)
(*   - the controller, which writes the height it last heard from each     *)
(*     node, configures the halt height and picks the image of each pod;   *)
(*   - the init containers of a pod, the last of which, version-check,     *)
(*     reads the height of the database, patches status.height and fails   *)
(*     when the pod has the wrong image;                                   *)
(*   - the sidecar version-check-interval, which does so when the node is  *)
(*     down and its database is not locked;                                *)
(*   - the node, which stops at an upgrade.                                *)
(***************************************************************************)
EXTENDS Integers, Sequences, FiniteSets, Rollout

CONSTANTS
    Pods,
    UpgradeHeights,  \* height of each spec.chain.versions, in their order
    MaxHeight,       \* bound on the height of the chain
    SetHaltHeight,   \* setHaltHeight of the versions
    StopsBefore,     \* TRUE: an old binary does not execute the block of the
                     \* upgrade; FALSE: it stops after its halt height
    SnapshotHeight,  \* height of the snapshot to restore from, -1: none
    Faulty,          \* TRUE: API calls may fail until the server heals
    MaxLosses        \* bound on volumes that are lost

ASSUME ConstantsAssumption ==
    /\ IsFiniteSet(Pods)
    /\ UpgradeHeights \in Seq(Nat \ {0})
    /\ MaxHeight \in Nat
    /\ {SetHaltHeight, StopsBefore, Faulty} \subseteq BOOLEAN
    /\ SnapshotHeight \in -1..MaxHeight
    /\ MaxLosses \in Nat

VARIABLES
    db,         \* latest version in the database of each node, -1: no database
    height,     \* status.height of the CosmosFullNode, -1: no entry
    pod,        \* the pod of each instance
    configMap,  \* halt height in the config map of each instance, -1: none
    pc,         \* the next step of the controller's Reconcile
    crdHeight,  \* Reconcile's copy of height
    sync,       \* Reconcile's syncInfo: height of each node, -1: an error
    cksums,     \* Reconcile's checksums of the config maps
    apiHealthy, \* API calls no longer fail
    losses      \* volumes lost so far

clusterVars == <<db, configMap, pod>>
reconcileVars == <<pc, crdHeight, sync, cksums>>
vars == <<db, height, pod, configMap, pc, crdHeight, sync, cksums, apiHealthy,
          losses>>

(* The versions: 0 is the image of the pod template, i the i-th version.   *)
Versions == 1..Len(UpgradeHeights)

Images == 0..Len(UpgradeHeights)

Heights == -1..(MaxHeight + 1)

(* 0 is also app.toml's "does not halt".                                   *)
HaltHeights == {0} \cup {UpgradeHeights[i] : i \in Versions}

(* Init containers in their order, then the containers.                    *)
Phases == {"absent", "config-merge", "snapshot-restore", "version-check",
           "checking", "running", "down", "stopping", "terminating"}

(* cksum: the halt height of the config map whose checksum the pod carries, *)
(* -1: no checksum.  seen: the height version-check was given.             *)
NoPod == [phase |-> "absent", image |-> 0, cksum |-> 0, halt |-> 0, seen |-> -1]

NewPod(image, cksum) ==
    [phase |-> "config-merge", image |-> image, cksum |-> cksum, halt |-> 0,
     seen |-> -1]

Init ==
    /\ db = [p \in Pods |-> -1]
    /\ height = [p \in Pods |-> -1]
    /\ pod = [p \in Pods |-> NoPod]
    /\ configMap = [p \in Pods |-> -1]
    /\ pc = "idle"
    /\ crdHeight = height
    /\ sync = [p \in Pods |-> -1]
    /\ cksums = [p \in Pods |-> -1]
    /\ apiHealthy = ~Faulty
    /\ losses = 0

-----------------------------------------------------------------------------
(***************************************************************************)
(* The choice of the image, by the controller and by version-check.        *)
(***************************************************************************)
(* The highest version of all whose height is not above h, the first such. *)
FindVersion(h) ==
    LET fits == {i \in Versions : UpgradeHeights[i] <= h}
    IN  IF fits = {} THEN 0
        ELSE CHOOSE i \in fits :
                \A j \in fits : /\ UpgradeHeights[j] <= UpgradeHeights[i]
                                /\ UpgradeHeights[j] = UpgradeHeights[i] => i <= j

(* Build: a pod without an entry in status.height has the template's image. *)
WantedImage(h) == IF h = -1 THEN 0 ELSE FindVersion(h)

(* checkVersion: the versions up to the first one that is above h.         *)
CheckedImage(h) ==
    LET reached == {i \in Images : \A j \in 1..i : UpgradeHeights[j] <= h}
    IN  CHOOSE i \in reached : \A j \in reached : j <= i

(* Mutant: halts at the block after the upgrade.                           *)
HaltHeightNext(h) ==
    LET above == {i \in Versions : h < UpgradeHeights[i]}
    IN  IF above = {} \/ ~SetHaltHeight THEN 0
        ELSE 1 + UpgradeHeights[CHOOSE i \in above : \A j \in above : i <= j]

(* BuildConfigMaps: the height of the first version that is above h.       *)
HaltHeight(h) ==
    LET above == {i \in Versions : h < UpgradeHeights[i]}
    IN  IF above = {} \/ ~SetHaltHeight THEN 0
        ELSE UpgradeHeights[CHOOSE i \in above : \A j \in above : i <= j]

-----------------------------------------------------------------------------
(***************************************************************************)
(* The controller's Reconcile, as far as it takes part.  A node that has   *)
(* been told to stop may still answer.                                     *)
(***************************************************************************)
Collect ==
    /\ pc = "idle"
    /\ pc' = "configMaps"
    /\ crdHeight' = height
    /\ sync' \in [Pods -> -1..MaxHeight]
    /\ \A p \in Pods :
          sync'[p] \in CASE pod[p].phase = "running" -> {db[p]}
                         [] pod[p].phase = "stopping" -> {-1, db[p]}
                         [] OTHER -> {-1}
    /\ UNCHANGED <<clusterVars, height, cksums, apiHealthy, losses>>

(* No entry counts as height 0.  After an error there are no checksums,    *)
(* and some of the config maps may have been written.                      *)
ReconcileConfigMaps ==
    /\ pc = "configMaps"
    /\ pc' = "pods"
    /\ LET data == [p \in Pods |-> HaltHeight(crdHeight[p])]
       IN  \/ cksums' = data /\ configMap' = data
           \/ /\ ~apiHealthy
              /\ cksums' = [p \in Pods |-> -1]
              /\ \E done \in SUBSET Pods :
                    configMap' = [p \in Pods |-> IF p \in done THEN data[p]
                                                 ELSE configMap[p]]
    /\ UNCHANGED <<db, height, pod, crdHeight, sync, apiHealthy, losses>>

Listed == {p \in Pods : pod[p].phase # "absent"}

Live == {p \in Listed : pod[p].phase \notin {"stopping", "terminating"}}

Outdated == {p \in Live : \/ pod[p].image # WantedImage(crdHeight[p])
                          \/ pod[p].cksum # cksums[p]}

Reachable == {p \in Live : sync[p] # -1}

(* Pods that are down and wait for another image go at once, the others    *)
(* within the budget.                                                      *)
Upgrades == {p \in Outdated \ Reachable :
                pod[p].image # WantedImage(crdHeight[p])}

Batch ==
    LET left == ComputeRollout(Cardinality(Pods), Cardinality(Reachable))
                  - Cardinality(Upgrades)
        most == Cardinality(Outdated \ Upgrades)
    IN  IF left <= 0 THEN 0 ELSE IF left < most THEN left ELSE most

ReconcilePods ==
    /\ pc = "pods"
    /\ pc' = "status"
    /\ \/ Listed # Pods /\ pod' = [p \in Pods |->
                                     IF p \in Listed THEN pod[p]
                                     ELSE NewPod(WantedImage(crdHeight[p]),
                                                 cksums[p])]
       \/ /\ Listed = Pods
          /\ \E deleted \in SUBSET Outdated :
                /\ Upgrades \subseteq deleted
                /\ Cardinality(deleted \ Upgrades) = Batch
                /\ pod' = [p \in Pods |->
                              IF p \in deleted
                              THEN [pod[p] EXCEPT !.phase =
                                       IF @ = "running" THEN "stopping"
                                       ELSE "terminating"]
                              ELSE pod[p]]
       \/ ~apiHealthy /\ UNCHANGED pod
    /\ UNCHANGED <<db, height, configMap, crdHeight, sync, cksums, apiHealthy,
                   losses>>

(* The block that goes through consensus, not the committed one.  The      *)
(* error of an update that fails is logged.                                *)
UpdateStatus ==
    /\ pc = "status"
    /\ pc' = "idle"
    /\ \/ height' = [p \in Pods |-> IF sync[p] > 0 THEN sync[p] + 1
                                    ELSE height[p]]
       \/ ~apiHealthy /\ UNCHANGED height
    /\ crdHeight' = height
    /\ sync' = [p \in Pods |-> -1]
    /\ cksums' = [p \in Pods |-> -1]
    /\ UNCHANGED <<clusterVars, apiHealthy, losses>>

Controller == Collect \/ ReconcileConfigMaps \/ ReconcilePods \/ UpdateStatus

-----------------------------------------------------------------------------
(***************************************************************************)
(* The init containers and the sidecar of a pod.                           *)
(***************************************************************************)
PodStep(p, from, to) ==
    /\ pod[p].phase = from
    /\ pod' = [pod EXCEPT ![p] = to]

(* The overlay of the config map, once there is one, is merged into        *)
(* app.toml.                                                               *)
ConfigMerge(p) ==
    /\ configMap[p] # -1
    /\ PodStep(p, "config-merge", [pod[p] EXCEPT !.phase = "snapshot-restore",
                                                 !.halt = configMap[p]])
    /\ UNCHANGED <<db, height, configMap, reconcileVars, apiHealthy, losses>>

(* A snapshot is only restored where there is no database.                 *)
SnapshotRestore(p) ==
    /\ PodStep(p, "snapshot-restore", [pod[p] EXCEPT !.phase = "version-check"])
    /\ db' = [db EXCEPT ![p] = IF @ = -1 THEN SnapshotHeight ELSE @]
    /\ UNCHANGED <<height, configMap, reconcileVars, apiHealthy, losses>>

VersionCheckGet(p) ==
    /\ PodStep(p, "version-check", [pod[p] EXCEPT !.phase = "checking",
                                                  !.seen = height[p]])
    /\ UNCHANGED <<db, height, configMap, reconcileVars, apiHealthy, losses>>

(* Opening the database creates it.                                        *)
LatestVersion(p) == IF db[p] = -1 THEN 0 ELSE db[p]

PatchStatusHeight(p, known) ==
    height' = [height EXCEPT ![p] = IF known = LatestVersion(p) THEN @
                                    ELSE LatestVersion(p)]

(* The container ends and the pod goes on with the phase.                  *)
CheckEnds(p, phase) ==
    /\ db' = [db EXCEPT ![p] = LatestVersion(p)]
    /\ PodStep(p, "checking", [pod[p] EXCEPT !.phase = phase, !.seen = -1])
    /\ UNCHANGED <<configMap, reconcileVars, apiHealthy, losses>>

(* Mutant: the check only logs what it finds.                              *)
VersionCheckLogs(p) ==
    /\ PatchStatusHeight(p, pod[p].seen)
    /\ CheckEnds(p, "running")

(* Mutant: the check does not patch a status that has an entry.            *)
VersionCheckOnce(p) ==
    /\ IF pod[p].seen # -1 THEN UNCHANGED height
       ELSE PatchStatusHeight(p, pod[p].seen)
    /\ IF pod[p].image = CheckedImage(LatestVersion(p))
       THEN CheckEnds(p, "running") ELSE CheckEnds(p, "version-check")

(* A failing patch or the wrong image is an error: the container panics    *)
(* and is started again.                                                   *)
VersionCheck(p) ==
    \/ /\ PatchStatusHeight(p, pod[p].seen)
       /\ IF pod[p].image = CheckedImage(LatestVersion(p))
          THEN CheckEnds(p, "running") ELSE CheckEnds(p, "version-check")
    \/ /\ ~apiHealthy
       /\ UNCHANGED height
       /\ CheckEnds(p, "version-check")

(* The sidecar: when it panics nothing else happens to the pod.            *)
VersionCheckDaemon(p) ==
    /\ pod[p].phase = "down"
    /\ height[p] # LatestVersion(p)
    /\ PatchStatusHeight(p, height[p])
    /\ UNCHANGED <<clusterVars, reconcileVars, apiHealthy, losses>>

-----------------------------------------------------------------------------
(***************************************************************************)
(* The node and what else happens around it.                               *)
(***************************************************************************)

(* What stops an old binary at an upgrade.                                 *)
Stuck(p) ==
    IF StopsBefore THEN FindVersion(db[p] + 1) # pod[p].image
    ELSE pod[p].halt # 0 /\ db[p] >= pod[p].halt

NodeCommits(p) ==
    /\ pod[p].phase = "running"
    /\ ~Stuck(p)
    /\ db[p] < MaxHeight
    /\ db' = [db EXCEPT ![p] = @ + 1]
    /\ UNCHANGED <<height, pod, configMap, reconcileVars, apiHealthy, losses>>

NodeStops(p) ==
    /\ Stuck(p)
    /\ PodStep(p, "running", [pod[p] EXCEPT !.phase = "down"])
    /\ UNCHANGED <<db, height, configMap, reconcileVars, apiHealthy, losses>>

(* The kubelet starts the container again, without the init containers.    *)
NodeRestarts(p) ==
    /\ PodStep(p, "down", [pod[p] EXCEPT !.phase = "running"])
    /\ UNCHANGED <<db, height, configMap, reconcileVars, apiHealthy, losses>>

PodGone(p) ==
    /\ pod[p].phase \in {"stopping", "terminating"}
    /\ pod' = [pod EXCEPT ![p] = NoPod]
    /\ UNCHANGED <<db, height, configMap, reconcileVars, apiHealthy, losses>>

(* The volume claim is deleted, and with it the database.                  *)
VolumeLost(p) ==
    /\ losses < MaxLosses
    /\ losses' = losses + 1
    /\ pod[p].phase = "absent"
    /\ db[p] # -1
    /\ db' = [db EXCEPT ![p] = -1]
    /\ UNCHANGED <<height, pod, configMap, reconcileVars, apiHealthy>>

APIServerHeals ==
    /\ ~apiHealthy
    /\ apiHealthy' = TRUE
    /\ UNCHANGED <<clusterVars, height, reconcileVars, losses>>

Kubelet(p) ==
    \/ ConfigMerge(p)
    \/ SnapshotRestore(p)
    \/ VersionCheckGet(p)
    \/ VersionCheck(p)
    \/ PodGone(p)

Next ==
    \/ Controller
    \/ APIServerHeals
    \/ \E p \in Pods : \/ Kubelet(p)
                       \/ VersionCheckDaemon(p)
                       \/ NodeCommits(p)
                       \/ NodeStops(p)
                       \/ NodeRestarts(p)
                       \/ VolumeLost(p)

Spec == Init /\ [][Next]_vars

(***************************************************************************)
(* The controller requeues, the kubelet goes on, API errors end, the       *)
(* sidecar ticks.  A node that runs again and again gets to execute a      *)
(* block, and one that is down again and again meets the sidecar's tick.   *)
(***************************************************************************)
Fairness ==
    /\ WF_vars(Controller)
    /\ WF_vars(APIServerHeals)
    /\ \A p \in Pods : /\ WF_vars(Kubelet(p))
                       /\ SF_vars(VersionCheckDaemon(p))
                       /\ SF_vars(NodeCommits(p))
                       /\ WF_vars(NodeStops(p))

FairSpec == Spec /\ Fairness

-----------------------------------------------------------------------------
(***************************************************************************)
(* Properties                                                              *)
(***************************************************************************)

(* Every variable keeps its type.                                          *)
TypeOK ==
    /\ db \in [Pods -> -1..MaxHeight]
    /\ height \in [Pods -> Heights]
    /\ pod \in [Pods -> [phase: Phases, image: Images,
                         cksum: HaltHeights \cup {-1}, halt: HaltHeights,
                         seen: Heights]]
    /\ configMap \in [Pods -> HaltHeights \cup {-1}]
    /\ pc \in {"idle", "configMaps", "pods", "status"}
    /\ crdHeight \in [Pods -> Heights]
    /\ sync \in [Pods -> -1..MaxHeight]
    /\ cksums \in [Pods -> HaltHeights \cup {-1}]
    /\ apiHealthy \in BOOLEAN
    /\ losses \in 0..MaxLosses

(* The version each node has been started with, down or not: the container *)
(* of a node that is down at an upgrade is still there.                    *)
Running ==
    [p \in Pods |-> IF pod[p].phase \in {"running", "down"} THEN pod[p].image
                    ELSE -1]

Up == [p \in Pods |-> pod[p].phase = "running"]

(* The versions that are due at h come first in the list and in ascending   *)
(* order.  Nothing sees to that.                                           *)
InOrder(h) ==
    \A i, j \in Versions :
        i < j /\ UpgradeHeights[j] <= h => UpgradeHeights[i] < UpgradeHeights[j]

Promise == INSTANCE ChainUpgrade WITH height <- db, running <- Running, up <- Up

(* Whatever status.height says, and whoever wrote it last, the containers  *)
(* of a node are only started on its data with the version that belongs to *)
(* the data, because version-check comes after the database has been       *)
(* restored and before the node; a node the kubelet starts again without   *)
(* a check is the one that went down, on the data it had.                  *)
ImplementsChainUpgrade == Promise!Spec

(* A node that halted at the height of an earlier version, because its pod *)
(* was built while the config maps could not be written: its image is the  *)
(* right one, so that it waits for the budget, and while it is down there  *)
(* may be none.                                                            *)
Stranded(p) == Stuck(p) /\ pod[p].cksum = -1

(* Every node gets past all upgrades and ends up with the last version,    *)
(* whatever the controller and the version checks of its pods write over   *)
(* each other on the way, unless an API error leaves one stranded.         *)
Upgraded ==
    \/ <>[](\A p \in Pods : /\ db[p] = MaxHeight
                            /\ pod[p].phase = "running"
                            /\ pod[p].image = FindVersion(MaxHeight))
    \/ <>[](\E p \in Pods : Stranded(p))

=============================================================================
