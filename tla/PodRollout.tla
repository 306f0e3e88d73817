----------------------------- MODULE PodRollout -----------------------------
(***************************************************************************)
(* How the pods of one CosmosFullNode are scaled and updated: the          *)
(* CosmosFullNode controller collects the CometBFT status of the pods      *)
(* (SyncInfoStatus), then PodControl.Reconcile lists the pods, diffs them  *)
(* against what the spec wants, creates and deletes pods, or else deletes  *)
(* outdated ones within the budget of ComputeRollout.                      *)
(*                                                                         *)
(* The controller sees pods through an informer that may lag behind the    *)
(* API server and their status through a cache polled every few seconds.   *)
(* Watch events come in order, so what the informer shows is the past      *)
(* state of all the pods at one moment, the moment of its last sync.       *)
(***************************************************************************)
EXTENDS Integers, FiniteSets, Rollout

CONSTANTS
    MaxReplicas,     \* bound on spec.replicas
    Images, Configs, \* a pod template is an image and all the rest
    Faulty,          \* TRUE: API calls may fail until the server heals
    DriftMitigation, \* spec.selfHeal.heightDriftMitigation is set
    MaxDisturbances  \* bound on spec edits, pod failures and restarts

ASSUME ConstantsAssumption ==
    /\ MaxReplicas \in Nat
    /\ Faulty \in BOOLEAN
    /\ DriftMitigation \in BOOLEAN
    /\ MaxDisturbances \in Nat

VARIABLES
    spec,         \* the CosmosFullNode, as far as it decides which pods to run
    state,        \* state of the pod of each ordinal
    template,     \* template of the pod of each ordinal
    seenState,    \* what the informer shows of state ...
    seenTemplate, \*   ... and of template
    fresh,        \* ordinals whose pod was created since the informer synced
    polled,       \* the cached status of the pod the informer shows
    pc,           \* where the controller is in its Reconcile
    crd,          \* Reconcile's copy of spec
    syncInfo,     \* Reconcile's map of pod statuses
    apiHealthy,   \* API calls no longer fail
    disturbances, \* spec edits, pod failures and restarts so far
    upAtCollect   \* history: pods that were in sync when syncInfo was made

clusterVars == <<state, template>>
informerVars == <<seenState, seenTemplate, fresh>>
controllerVars == <<pc, crd, syncInfo, upAtCollect>>
vars == <<spec, clusterVars, informerVars, polled, controllerVars, apiHealthy,
          disturbances>>

Ordinals == 0..(MaxReplicas - 1)

Template == Images \X Configs

(* Ordinals with a disabled instance or picked for a snapshot by           *)
(* ScheduledSnapshotStatus (podCandidates) are excluded.                   *)
FullNode == [replicas: 0..MaxReplicas, template: Template,
             excluded: SUBSET Ordinals]

PodState == {"absent", "starting", "catchingUp", "synced", "terminating"}

(* What the Pod objects show of the state: not whether the node has synced. *)
View ==
    [o \in Ordinals |-> IF state[o] \in {"absent", "terminating"} THEN state[o]
                        ELSE "live"]

(* A SyncInfoPodStatus: with an Error, without, and with InSync true.      *)
(* "none": the pod is not in the collection.                               *)
PodStatus == {"none", "error", "reachable", "inSync"}

Init ==
    /\ spec \in [replicas: {MaxReplicas}, template: Template, excluded: {{}}]
    /\ state = [o \in Ordinals |-> "synced"]
    /\ template = [o \in Ordinals |-> spec.template]
    /\ seenState = View
    /\ seenTemplate = template
    /\ fresh = {}
    /\ polled = [o \in Ordinals |-> "inSync"]
    /\ pc = "idle"
    /\ crd = spec
    /\ syncInfo = [o \in Ordinals |-> "none"]
    /\ apiHealthy = ~Faulty
    /\ disturbances = 0
    /\ upAtCollect = {}

-----------------------------------------------------------------------------
(***************************************************************************)
(* The status cache: what a poll of the pods the informer shows answers.   *)
(* A terminating pod may or may not still serve its RPC.                   *)
(***************************************************************************)
Answers(o) ==
    CASE seenState[o] = "absent" -> {"none"}
      [] o \in fresh \/ state[o] \in {"absent", "starting"} -> {"error"}
      [] state[o] = "catchingUp" -> {"reachable"}
      [] state[o] = "synced" -> {"inSync"}
      [] OTHER -> {"error", "reachable", "inSync"}

Polls == {f \in [Ordinals -> PodStatus] : \A o \in Ordinals : f[o] \in Answers(o)}

(* A pod the cache does not know yet gets the error "missing status".      *)
SyncInfoStatus(cache) ==
    [o \in Ordinals |->
        CASE seenState[o] = "absent" -> "none"
          [] seenState[o] # "absent" /\ cache[o] = "none" -> "error"
          [] OTHER -> cache[o]]

InformerFresh ==
    /\ fresh = {}
    /\ seenState = View
    /\ seenTemplate = template

(* The first half of the controller's Reconcile: read the CosmosFullNode   *)
(* and collect the status of its pods.                                     *)
Collect ==
    /\ pc = "idle"
    /\ pc' = "collected"
    /\ crd' = spec
    /\ syncInfo' = SyncInfoStatus(polled)
    /\ upAtCollect' = {o \in Ordinals : state[o] = "synced"}
    /\ UNCHANGED <<spec, clusterVars, informerVars, polled, apiHealthy,
                   disturbances>>

-----------------------------------------------------------------------------
(***************************************************************************)
(* BuildPods and diff.New                                                  *)
(***************************************************************************)
Wanted(s) == {o \in Ordinals : o < s.replicas /\ o \notin s.excluded}

(* Mutant: a pod that is being deleted is already replaced.                *)
CreatesEarly == {o \in Wanted(crd) : seenState[o] # "live"}

Creates == {o \in Wanted(crd) : seenState[o] = "absent"}

Deletes == {o \in Ordinals \ Wanted(crd) : seenState[o] # "absent"}

(* Mutant: the revision of a listed pod never matches.                     *)
UpdatesAlways == {o \in Wanted(crd) : seenState[o] # "absent"}

Updates == {o \in Wanted(crd) : /\ seenState[o] # "absent"
                                /\ seenTemplate[o] # crd.template}

(* Delete with a grace period; NotFound is ignored.                        *)
Deleted(ords) ==
    [o \in Ordinals |-> IF o \in ords /\ state[o] # "absent"
                        THEN "terminating" ELSE state[o]]

-----------------------------------------------------------------------------
(***************************************************************************)
(* PodControl.Reconcile, the second half of the controller's Reconcile.    *)
(***************************************************************************)
Reconciling == pc = "collected"

(* What Reconcile knew is forgotten when it ends.                          *)
ReconcileEnds ==
    /\ pc' = "idle"
    /\ crd' = spec
    /\ syncInfo' = [o \in Ordinals |-> "none"]
    /\ upAtCollect' = {}

Return ==
    /\ ReconcileEnds
    /\ UNCHANGED <<spec, seenState, seenTemplate, polled, apiHealthy,
                   disturbances>>

(* The ordinals done so far are the first ones of all.                     *)
InOrder(done, all) == \A o \in done : \A q \in all : q < o => q \in done

(* Scaling comes first: every create (AlreadyExists is ignored), then      *)
(* every delete, each in the order of the ordinals.  An error stops it.    *)
PodControlScale ==
    /\ Reconciling
    /\ Creates \cup Deletes # {}
    /\ \E creates \in SUBSET Creates, deletes \in SUBSET Deletes :
          LET made == {o \in creates : state[o] = "absent"}
          IN  /\ \/ creates = Creates /\ deletes = Deletes
                 \/ /\ ~apiHealthy
                    /\ InOrder(creates, Creates)
                    /\ InOrder(deletes, Deletes)
                    /\ deletes # {} => creates = Creates
              /\ state' = [o \in Ordinals |-> IF o \in made THEN "starting"
                                              ELSE Deleted(deletes)[o]]
              /\ template' = [o \in Ordinals |-> IF o \in made
                                                 THEN crd.template
                                                 ELSE template[o]]
              /\ fresh' = fresh \cup made
    /\ Return

(* Listed pods that are not terminating, by what syncInfo says of them.    *)
Live == {o \in Ordinals : seenState[o] = "live"}

InSync == {o \in Live : syncInfo[o] = "inSync"}

RPCReachable == {o \in Live : syncInfo[o] \in {"reachable", "inSync"}}

(* Outdated pods with another image that are down wait for the upgrade.    *)
Upgrades == {o \in (Live \cap Updates) \ RPCReachable :
                seenTemplate[o][1] # crd.template[1]}

OtherUpdates == (Live \cap Updates) \ Upgrades

(* With nothing in sync the node is down anyway: count reachable pods.     *)
Ready == IF InSync = {} THEN Cardinality(RPCReachable) ELSE Cardinality(InSync)

(* Mutant: the budget is compared with > instead of >=.                    *)
BatchOneMore ==
    LET left == 1 + ComputeRollout(crd.replicas, Ready) - Cardinality(Upgrades)
        most == Cardinality(OtherUpdates)
    IN  IF Upgrades = Updates \/ left <= 1 THEN 0
        ELSE IF left < most THEN left ELSE most

(* How many of OtherUpdates go in this round: not more than there are, and *)
(* none after Upgrades have used up the budget or were the only updates.   *)
Batch ==
    LET left == ComputeRollout(crd.replicas, Ready) - Cardinality(Upgrades)
        most == Cardinality(OtherUpdates)
    IN  IF Upgrades = Updates \/ left <= 0 THEN 0
        ELSE IF left < most THEN left ELSE most

(* The pods are listed in no particular order, so OtherUpdates are not     *)
(* sorted.  A full round deletes all of Upgrades and a batch of the others. *)
FullRound(ords) ==
    /\ Upgrades \subseteq ords
    /\ Cardinality(ords \cap OtherUpdates) = Batch

(* A round that stops early: Upgrades come before the others.              *)
PartRound(ords) ==
    /\ ords \cap OtherUpdates # {} => Upgrades \subseteq ords
    /\ Cardinality(ords \cap OtherUpdates) <= Batch

Unknown(ords) == {o \in ords : syncInfo[o] = "none"}

DeleteForUpdate(ords) ==
    /\ Reconciling
    /\ Creates \cup Deletes = {}
    /\ state' = Deleted(ords)
    /\ UNCHANGED template

PodControlUpdate ==
    \E ords \in SUBSET (Upgrades \cup OtherUpdates) :
        /\ FullRound(ords) \/ (~apiHealthy /\ PartRound(ords))
        /\ Unknown(ords) = {}
        /\ DeleteForUpdate(ords)
        /\ UNCHANGED fresh
        /\ Return

-----------------------------------------------------------------------------
(* The process starts anew: an empty status cache, an informer that lists. *)
Restarted ==
    /\ ReconcileEnds
    /\ polled' = [o \in Ordinals |-> "none"]
    /\ seenState' = View'
    /\ seenTemplate' = template'
    /\ fresh' = {}
    /\ UNCHANGED <<spec, apiHealthy>>

(* syncInfo[podName] is nil for a pod that was not there when the status   *)
(* was collected: writing to it after the delete panics.                   *)
PodControlPanics ==
    \E ords \in SUBSET (Upgrades \cup OtherUpdates) :
        /\ PartRound(ords)
        /\ Cardinality(Unknown(ords)) = 1
        /\ Unknown(ords) \subseteq Upgrades => ords \subseteq Upgrades
        /\ DeleteForUpdate(ords)
        /\ Restarted
        /\ UNCHANGED disturbances

PodControl == PodControlScale \/ PodControlUpdate \/ PodControlPanics

-----------------------------------------------------------------------------
(***************************************************************************)
(* DriftDetection.LaggingPods and SelfHealingReconciler.mitigateHeightDrift *)
(***************************************************************************)

(* Of the pods the cache calls in sync, those a threshold or more below    *)
(* the highest one lag: any of them, but never the highest itself.  As     *)
(* many as ComputeRollout allows are picked; the cache keeps no order.     *)
LaggingPods(synced, available) ==
    {ords \in SUBSET synced :
        /\ ords = synced => synced = {}
        /\ Cardinality(ords) <=
              ComputeRollout(spec.replicas, Cardinality(available))}

(* Another controller, with its own look at the cache; a delete that fails *)
(* is logged, and the next pod is tried.  How often pods fall behind is    *)
(* bounded as a disturbance.                                               *)
MitigateHeightDrift ==
    /\ DriftMitigation
    /\ disturbances < MaxDisturbances
    /\ disturbances' = disturbances + 1
    /\ LET synced == {o \in Ordinals : SyncInfoStatus(polled)[o] = "inSync"}
       IN  \E available \in SUBSET {o \in synced : seenState[o] = "live"} :
              \E ords \in LaggingPods(synced, available) \ {{}} :
                 state' = Deleted(ords)
    /\ UNCHANGED <<spec, template, informerVars, polled, controllerVars,
                   apiHealthy>>

-----------------------------------------------------------------------------
(***************************************************************************)
(* The world around the controller.                                        *)
(***************************************************************************)
Disturbance ==
    /\ disturbances < MaxDisturbances
    /\ disturbances' = disturbances + 1

OperatorRestarts ==
    /\ Disturbance
    /\ UNCHANGED clusterVars
    /\ Restarted

(* A user, or ScheduledVolumeSnapshot, changes what is wanted.             *)
EditSpec ==
    /\ Disturbance
    /\ \/ \E t \in Template \ {spec.template} :
             spec' = [spec EXCEPT !.template = t]
       \/ \E n \in (0..MaxReplicas) \ {spec.replicas} :
             spec' = [spec EXCEPT !.replicas = n]
       \/ \E o \in Ordinals :
             spec' = [spec EXCEPT !.excluded = IF o \in @ THEN @ \ {o}
                                               ELSE @ \cup {o}]
    /\ crd' = IF pc = "idle" THEN spec' ELSE crd
    /\ UNCHANGED <<clusterVars, informerVars, polled, pc, syncInfo,
                   upAtCollect, apiHealthy>>

(* The pod falls behind, or restarts in place.                             *)
PodFails(o) ==
    /\ Disturbance
    /\ state[o] \in {"catchingUp", "synced"}
    /\ \E s \in {"starting", "catchingUp"} \ {state[o]} :
          state' = [state EXCEPT ![o] = s]
    /\ UNCHANGED <<spec, template, informerVars, polled, controllerVars,
                   apiHealthy>>

PodProgresses(o) ==
    /\ state[o] \in {"starting", "catchingUp"}
    /\ state' = [state EXCEPT ![o] =
                    IF @ = "starting" THEN "catchingUp" ELSE "synced"]
    /\ UNCHANGED <<spec, template, informerVars, polled, controllerVars,
                   apiHealthy, disturbances>>

PodGone(o) ==
    /\ state[o] = "terminating"
    /\ state' = [state EXCEPT ![o] = "absent"]
    /\ UNCHANGED <<spec, template, informerVars, polled, controllerVars,
                   apiHealthy, disturbances>>

(* The cached status belongs to the UID of a pod.                          *)
InformerSync ==
    /\ ~InformerFresh
    /\ seenState' = View
    /\ seenTemplate' = template
    /\ fresh' = {}
    /\ polled' = [o \in Ordinals |->
                     IF o \in fresh \/ state[o] = "absent" THEN "none"
                     ELSE polled[o]]
    /\ UNCHANGED <<spec, clusterVars, controllerVars, apiHealthy, disturbances>>

Poll ==
    /\ polled \notin Polls
    /\ polled' \in Polls
    /\ UNCHANGED <<spec, clusterVars, informerVars, controllerVars, apiHealthy,
                   disturbances>>

APIServerHeals ==
    /\ ~apiHealthy
    /\ apiHealthy' = TRUE
    /\ UNCHANGED <<spec, clusterVars, informerVars, polled, controllerVars,
                   disturbances>>

Environment ==
    \/ OperatorRestarts
    \/ EditSpec
    \/ InformerSync
    \/ Poll
    \/ APIServerHeals
    \/ \E o \in Ordinals : PodFails(o) \/ PodProgresses(o) \/ PodGone(o)

Next == Collect \/ PodControl \/ MitigateHeightDrift \/ Environment

Spec == Init /\ [][Next]_vars

(***************************************************************************)
(* The controller requeues at the latest after 30 seconds, the watch and   *)
(* the poll loop go on, API errors end, pods terminate, start and catch    *)
(* up when left alone.                                                     *)
(***************************************************************************)
Fairness ==
    /\ WF_vars(Collect)
    /\ WF_vars(PodControl)
    /\ WF_vars(InformerSync)
    /\ WF_vars(Poll)
    /\ WF_vars(APIServerHeals)
    /\ \A o \in Ordinals : WF_vars(PodProgresses(o)) /\ WF_vars(PodGone(o))

FairSpec == Spec /\ Fairness

-----------------------------------------------------------------------------
(***************************************************************************)
(* Properties                                                              *)
(***************************************************************************)

(* Every variable keeps its type.                                          *)
TypeOK ==
    /\ spec \in FullNode
    /\ state \in [Ordinals -> PodState]
    /\ template \in [Ordinals -> Template]
    /\ seenState \in [Ordinals -> {"absent", "live", "terminating"}]
    /\ seenTemplate \in [Ordinals -> Template]
    /\ fresh \subseteq Ordinals
    /\ polled \in [Ordinals -> PodStatus]
    /\ pc \in {"idle", "collected"}
    /\ crd \in FullNode
    /\ syncInfo \in [Ordinals -> PodStatus]
    /\ apiHealthy \in BOOLEAN
    /\ disturbances \in 0..MaxDisturbances
    /\ upAtCollect \subseteq Ordinals

(* The informer is a past state of the pods: a pod it shows is either the  *)
(* one that exists, with the same template, or gone with no successor,     *)
(* because PodControl creates a pod only once it sees none, and a pod it   *)
(* shows terminating has not come back to life.                            *)
InformerSound ==
    \A o \in Ordinals :
        seenState[o] # "absent" =>
            /\ o \notin fresh
            /\ state[o] # "absent" => template[o] = seenTemplate[o]
            /\ seenState[o] = "terminating" =>
                    state[o] \in {"absent", "terminating"}

(* Pods that run and that this step, the end of a Reconcile, deletes.      *)
Killed == {o \in Ordinals : /\ pc = "collected" /\ pc' = "idle"
                            /\ state[o] \notin {"absent", "terminating"}
                            /\ state'[o] = "terminating"}

(* However stale its list of pods is, PodControl never deletes a pod that  *)
(* is wanted and already runs the wanted template: the deletes go by name, *)
(* without the UID of the pod that was listed, and must not hit its        *)
(* successor.                                                              *)
ReplacementKeptStep ==
    \A o \in Killed \cap Wanted(crd) : template[o] # crd.template

ReplacementKept == [][ReplacementKeptStep]_vars

(* Updates respect the budget as far as the status they go by is right.    *)
(* When a round takes down a pod that the status calls in sync, the pods   *)
(* that really were in sync when the status was collected and are left     *)
(* alone, together with those wrongly called so, are at least replicas -   *)
(* maxUnavailable: a stale list or status costs at most the pods it is     *)
(* wrong about, also when pods that are down are upgraded beside them.     *)
DisruptionBoundStep ==
    Killed \cap Wanted(crd) \cap InSync # {} =>
        Cardinality(upAtCollect \ Killed) + Cardinality(InSync \ upAtCollect)
            >= crd.replicas - Unavail(crd.replicas)

DisruptionBound == [][DisruptionBoundStep]_vars

(* The cluster is what the spec asks for.                                  *)
Converged ==
    \A o \in Ordinals :
        IF o \in Wanted(spec)
        THEN state[o] = "synced" /\ template[o] = spec.template
        ELSE state[o] = "absent"

UpdatesAreHandled == <>[]Converged

(* After the last disturbance every update is rolled out: stale lists,     *)
(* stale statuses, failed calls, panics and the budget do not block it,    *)
(* provided that excluded instances leave some of the budget for the       *)
(* others: computeRollout counts them as replicas that are not ready.      *)
RolloutCompletes ==
    (<>[](Cardinality({o \in spec.excluded : o < spec.replicas})
              < Unavail(spec.replicas)))
        => UpdatesAreHandled

=============================================================================
