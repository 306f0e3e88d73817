---------------------------- MODULE VolumeClaims ----------------------------
(***************************************************************************)
(* The PersistentVolumeClaims of a CosmosFullNode: the PVC control of the  *)
(* CosmosFullNode controller, which creates, deletes and grows them, and   *)
(* the auto scaling of the SelfHealing controller, which asks for a larger *)
(* claim through status.selfHealing.  Both run in one process and read     *)
(* through informers that may lag.  The pods are there as far as claims    *)
(* are concerned; their rollout is PodRollout's.                           *)
(***************************************************************************)
EXTENDS Integers, FiniteSets, FiniteSetsExt

CONSTANTS
    N,                 \* ordinals are 0..N-1
    Wants,             \* the sets of instances a spec may want
    Policies,          \* the values of spec.volumeRetentionPolicy
    Template,          \* the size of spec.volumeClaimTemplate
    RestoreSize,       \* restore size of the snapshots
    Increase,          \* spec.selfHeal.pvcAutoScale.increaseQuantity
    IncreaseIsPercent, \* TRUE: that is a percentage
    MaxSize,           \* spec.selfHeal.pvcAutoScale.maxSize
    AutoDataSource,    \* TRUE: claims are restored from the last snapshot
    CacheLags,         \* TRUE: the informers may lag
    Faulty,            \* TRUE: API calls may fail until the server heals
    MaxDisturbances    \* bound on spec changes, snapshots, volumes that fill
                       \* up and restarts, together

Ordinals == 0..(N - 1)

ASSUME ConstantsAssumption ==
    /\ N \in Nat
    /\ Wants \subseteq SUBSET Ordinals /\ Wants # {}
    /\ Policies \subseteq {"Retain", "Delete"} /\ Policies # {}
    /\ {Template, RestoreSize, Increase, MaxSize} \subseteq Nat \ {0}
    /\ {IncreaseIsPercent, AutoDataSource, CacheLags, Faulty} \subseteq BOOLEAN
    /\ MaxDisturbances \in Nat

VARIABLES
    spec,        \* what the CosmosFullNode wants
    requested,   \* status.selfHealing.pvcAutoScale
    pod,         \* the pods
    pvc,         \* the claims
    full,        \* whether the volume is used up to the trigger
    snapshot,    \* the most recent VolumeSnapshot, 0: none
    seenPod,     \* the informer's pods
    seenPVC,     \* the informer's claims
    pc,          \* where the CosmosFullNode's Reconcile is
    crd,         \* the CosmosFullNode it has read
    changed,     \* PVCStatusChanges.Deleted
    heal,        \* what the SelfHealing's Reconcile has collected
    apiHealthy,  \* API calls no longer fail
    disturbances, \* bounded counter
    releasable   \* history: the claims some spec since their creation
                 \* neither wanted nor retained

clusterVars == <<pod, pvc, full>>
informerVars == <<seenPod, seenPVC>>
reconcileVars == <<pc, crd, changed>>
worldVars == <<spec, snapshot, apiHealthy, disturbances>>
vars == <<spec, requested, pod, pvc, full, snapshot, seenPod, seenPVC, pc, crd,
          changed, heal, apiHealthy, disturbances, releasable>>

NoPVC ==
    [phase |-> "none", deleting |-> FALSE, size |-> 0, cap |-> 0, src |-> 0]

NewPVC(size, src) == [NoPVC EXCEPT !.phase = "pending", !.size = size, !.src = src]

Exists(c) == c.phase # "none"

(* No entry of a claim among the requests or among the results.  A request *)
(* for the size 0 is an entry.                                             *)
Absent == -1

NoRequests == [i \in Ordinals |-> Absent]

NoCollection == [on |-> FALSE, caps |-> NoRequests, status |-> NoRequests]

(* Between two passes of Reconcile nothing is kept.                        *)
NoCRD == [spec |-> [wanted |-> {}, policy |-> "Retain"],
          requested |-> NoRequests]

(* The claims that a spec neither wants nor retains.                       *)
ReleasedBy(sp) == IF sp.policy = "Delete" THEN Ordinals \ sp.wanted ELSE {}

Init ==
    /\ spec \in [wanted: Wants, policy: Policies]
    /\ requested = NoRequests
    /\ pod = [i \in Ordinals |-> "none"]
    /\ pvc = [i \in Ordinals |-> NoPVC]
    /\ full = [i \in Ordinals |-> FALSE]
    /\ snapshot = 0
    /\ seenPod = pod
    /\ seenPVC = pvc
    /\ pc = "idle"
    /\ crd = NoCRD
    /\ changed = {}
    /\ heal = NoCollection
    /\ apiHealthy = ~Faulty
    /\ disturbances = 0
    /\ releasable = ReleasedBy(spec)

-----------------------------------------------------------------------------
(***************************************************************************)
(* Sizes.                                                                  *)
(***************************************************************************)

(* A request is granted with 2% on top (snapshotGrowthFactor).             *)
Padded(size) == (size * 102) \div 100

MaxOf(a, b) == IF a >= b THEN a ELSE b

(* Without a data source, the largest of the template's size, what auto    *)
(* scaling asked for and what there is already.                            *)
PVCResources(asked, existing) ==
    MaxOf(MaxOf(Template, IF asked = Absent THEN 0 ELSE Padded(asked)), existing)

(* What there is of a claim that is bound and not being deleted.           *)
ExistingSize(c) == IF c.phase = "bound" /\ ~c.deleting THEN c.cap ELSE 0

(* The latest snapshot if claims are restored from one, 0: none.           *)
FindDataSource == IF AutoDataSource THEN snapshot ELSE 0

(* The size of claim i: a new claim, and one whose source is not the one   *)
(* found now, has the size of its source.                                  *)
BuildSize(i) ==
    LET found == FindDataSource
    IN  CASE ~Exists(seenPVC[i]) -> IF found = 0 THEN Template ELSE RestoreSize
          [] Exists(seenPVC[i]) /\ found \notin {0, seenPVC[i].src} -> RestoreSize
          [] OTHER -> PVCResources(crd.requested[i], ExistingSize(seenPVC[i]))

-----------------------------------------------------------------------------
(***************************************************************************)
(* Reconcile of the CosmosFullNode controller: it reads the object, brings *)
(* the pods and then the claims about, and writes the status at its end,   *)
(* whatever failed.                                                        *)
(***************************************************************************)
Fresh == CacheLags \/ (seenPod = pod /\ seenPVC = pvc)

(* PodControl: missing pods are created, surplus ones deleted.             *)
ReconcilePods ==
    /\ pc = "idle"
    /\ Fresh
    /\ crd' = [spec |-> spec, requested |-> requested]
    /\ pod' = [i \in Ordinals |->
                CASE i \in spec.wanted /\ seenPod[i] = "none" /\ pod[i] = "none"
                       -> "pending"
                  [] i \notin spec.wanted /\ seenPod[i] # "none" /\ pod[i] # "none"
                       -> "terminating"
                  [] OTHER -> pod[i]]
    /\ pc' = "pvcs"
    /\ UNCHANGED <<requested, pvc, full, worldVars, informerVars,
                   changed, heal, releasable>>

(* Mutant: the claim is made before its pod only.                          *)
CreatesBeforePod ==
    {i \in crd.spec.wanted : ~Exists(seenPVC[i]) /\ seenPod[i] = "none"}

Creates == {i \in crd.spec.wanted : ~Exists(seenPVC[i])}

(* Mutant: a claim with another data source is made anew.                  *)
DeletesRecreated ==
    {i \in Ordinals : Exists(seenPVC[i])
        /\ (i \notin crd.spec.wanted \/ FindDataSource \notin {0, seenPVC[i].src})}

Deletes == {i \in Ordinals \ crd.spec.wanted : Exists(seenPVC[i])}

Updates ==
    {i \in crd.spec.wanted : Exists(seenPVC[i]) /\ BuildSize(i) # seenPVC[i].size}

(* Mutant: any policy that is set retains.                                 *)
ShouldRetainSet == crd.spec.policy \in {"Retain", "Delete"}

ShouldRetain == crd.spec.policy = "Retain"

(* A pod uses the claim; any pod that is being deleted counts.             *)
PVCInUse(i) ==
    \/ \E j \in Ordinals : seenPod[j] = "terminating"
    \/ seenPod[i] \in {"pending", "running"}

(* In the order of ordinals, up to the first claim in use.                 *)
Deletable == {i \in Deletes : \A j \in Deletes : j <= i => ~PVCInUse(j)}

(* The calls for the set S in the order of ordinals may fail at one.       *)
Done(S) ==
    {S} \cup IF apiHealthy THEN {} ELSE {{i \in S : i < k} : k \in Ordinals}

(* A claim that is there, though not seen, stays as it is.                 *)
Create(S) ==
    [i \in Ordinals |->
        IF i \in S /\ ~Exists(pvc[i]) THEN NewPVC(BuildSize(i), FindDataSource)
        ELSE pvc[i]]

Delete(S, claims) ==
    [i \in Ordinals |->
        IF i \in S /\ Exists(claims[i]) THEN [claims[i] EXCEPT !.deleting = TRUE]
        ELSE claims[i]]

(* Claims are created and deleted; what is created or deleted is noted.    *)
ScalePVCs ==
    /\ Creates # {} \/ (Deletes # {} /\ ~ShouldRetain)
    /\ \E created \in Done(Creates) :
       \E deleted \in IF created = Creates /\ ~ShouldRetain THEN Done(Deletable)
                      ELSE {{}} :
          /\ pvc' = Delete(deleted, Create(created))
          /\ changed' = created \cup deleted
          /\ releasable' = ReleasedBy(spec) \cup
                            (releasable \ {i \in created : ~Exists(pvc[i])})

(* PVCs that are to be patched, with the version that was read: it must be *)
(* the latest one.  A size does not go down.  Errors are logged.           *)
Patched(S) ==
    [i \in Ordinals |->
        IF i \in S /\ seenPVC[i] = pvc[i] /\ BuildSize(i) >= pvc[i].size
        THEN [pvc[i] EXCEPT !.size = BuildSize(i)] ELSE pvc[i]]

(* Nothing to create or delete: sizes, unless a claim is not bound.        *)
UpdatePVCs ==
    /\ Creates = {}
    /\ Deletes = {} \/ ShouldRetain
    /\ \/ /\ \A i \in Ordinals : seenPVC[i].phase # "pending"
          /\ \E S \in {Updates} \cup IF apiHealthy THEN {} ELSE SUBSET Updates :
                pvc' = Patched(S)
       \/ /\ \E i \in Ordinals : seenPVC[i].phase = "pending"
          /\ UNCHANGED pvc
    /\ changed' = {}
    /\ UNCHANGED releasable

ReconcilePVCs ==
    /\ pc = "pvcs"
    /\ Fresh
    /\ ScalePVCs \/ UpdatePVCs
    /\ pc' = "status"
    /\ UNCHANGED <<requested, pod, full, worldVars, informerVars, crd,
                   heal>>

(* Mutant: the status goes back as it was read.                            *)
UpdateStatusOverwrites ==
    /\ pc = "status"
    /\ requested' = [i \in Ordinals |-> IF i \in changed THEN Absent ELSE crd.requested[i]]
    /\ pc' = "idle"
    /\ crd' = NoCRD
    /\ changed' = {}
    /\ UNCHANGED <<clusterVars, worldVars, informerVars, heal, releasable>>

(* The requests of the claims created or deleted are dropped, unless the   *)
(* update fails, which is logged.                                          *)
UpdateStatus ==
    /\ pc = "status"
    /\ \/ requested' = [i \in Ordinals |-> IF i \in changed THEN Absent ELSE requested[i]]
       \/ ~apiHealthy /\ UNCHANGED requested
    /\ pc' = "idle"
    /\ crd' = NoCRD
    /\ changed' = {}
    /\ UNCHANGED <<clusterVars, worldVars, informerVars, heal,
                   releasable>>

-----------------------------------------------------------------------------
(***************************************************************************)
(* Reconcile of the SelfHealing controller.                                *)
(***************************************************************************)

(* The used space of every ready pod, and the capacity of its claim.  A    *)
(* claim that the informer does not show is an error, and a result with    *)
(* the capacity 0.  Nothing is done if there are no pods, or an error for  *)
(* each of them; a pod that is not ready is no error and no result.  A pod *)
(* that is gone does not answer.                                           *)
CollectDiskUsage ==
    /\ ~heal.on
    /\ Fresh
    /\ LET listed   == {i \in Ordinals : seenPod[i] # "none"}
           answered == {i \in Ordinals : seenPod[i] = "running" /\ pod[i] = "running"}
           silent   == {i \in Ordinals : seenPod[i] = "running" /\ pod[i] # "running"}
           errs     == silent \cup {i \in answered : ~Exists(seenPVC[i])}
           found    == {i \in answered : full[i]}
       IN  /\ errs # listed
           /\ heal' = [on |-> TRUE,
                       caps |-> [i \in Ordinals |->
                                   IF i \in found THEN seenPVC[i].cap ELSE Absent],
                       status |-> [i \in Ordinals |->
                                   IF i \in found THEN requested[i] ELSE Absent]]
    /\ UNCHANGED <<requested, clusterVars, worldVars, informerVars,
                   reconcileVars, releasable>>

CalcNextCapacity(current) ==
    current + IF IncreaseIsPercent THEN (current * Increase + 50) \div 100
              ELSE Increase

(* Mutant: the maximum stops a claim that has it, but caps no request.     *)
NextSizeUncapped(cap, asked) ==
    IF cap = Absent \/ asked = CalcNextCapacity(cap) \/ cap >= MaxSize THEN Absent
    ELSE CalcNextCapacity(cap)

(* What to ask for a claim; nothing if it is not full, that is asked for   *)
(* already, or it has the maximum.  A claim that was not shown has the     *)
(* capacity 0, and a percentage of it is 0.                                *)
NextSize(cap, asked) ==
    IF cap = Absent \/ asked = CalcNextCapacity(cap) \/ cap >= MaxSize THEN Absent
    ELSE Min({CalcNextCapacity(cap), MaxSize})

(* An error of the update is reported.                                     *)
SignalPVCResize ==
    /\ heal.on
    /\ heal' = NoCollection
    /\ \/ requested' = [i \in Ordinals |->
              LET next == NextSize(heal.caps[i], heal.status[i])
              IN  IF next # Absent THEN next ELSE requested[i]]
       \/ ~apiHealthy /\ UNCHANGED requested
    /\ UNCHANGED <<clusterVars, worldVars, informerVars, reconcileVars,
                   releasable>>

-----------------------------------------------------------------------------
(***************************************************************************)
(* The world around the controllers.                                       *)
(***************************************************************************)

Disturbance ==
    /\ disturbances < MaxDisturbances
    /\ disturbances' = disturbances + 1

(* The process stops where it is, and lists anew.                          *)
OperatorRestarts ==
    /\ Disturbance
    /\ pc # "idle" \/ heal.on
    /\ pc' = "idle"
    /\ crd' = NoCRD
    /\ changed' = {}
    /\ heal' = NoCollection
    /\ seenPod' = pod
    /\ seenPVC' = pvc
    /\ UNCHANGED <<requested, clusterVars, spec, snapshot, apiHealthy,
                   releasable>>

PodInformerSync(i) ==
    /\ seenPod[i] # pod[i]
    /\ seenPod' = [seenPod EXCEPT ![i] = pod[i]]
    /\ UNCHANGED <<requested, clusterVars, worldVars, seenPVC,
                   reconcileVars, heal, releasable>>

PVCInformerSync(i) ==
    /\ seenPVC[i] # pvc[i]
    /\ seenPVC' = [seenPVC EXCEPT ![i] = pvc[i]]
    /\ UNCHANGED <<requested, clusterVars, worldVars, seenPod,
                   reconcileVars, heal, releasable>>

(* A pod starts once its claim is bound.                                   *)
PodRuns(i) ==
    /\ pod[i] = "pending"
    /\ pvc[i].phase = "bound" /\ ~pvc[i].deleting
    /\ pod' = [pod EXCEPT ![i] = "running"]
    /\ UNCHANGED <<requested, pvc, full, worldVars, informerVars,
                   reconcileVars, heal, releasable>>

PodGone(i) ==
    /\ pod[i] = "terminating"
    /\ pod' = [pod EXCEPT ![i] = "none"]
    /\ UNCHANGED <<requested, pvc, full, worldVars, informerVars,
                   reconcileVars, heal, releasable>>

ClaimBinds(i) ==
    /\ pvc[i].phase = "pending"
    /\ pvc' = [pvc EXCEPT ![i].phase = "bound", ![i].cap = pvc[i].size]
    /\ UNCHANGED <<requested, pod, full, worldVars, informerVars,
                   reconcileVars, heal, releasable>>

ClaimResized(i) ==
    /\ pvc[i].phase = "bound"
    /\ pvc[i].cap < pvc[i].size
    /\ pvc' = [pvc EXCEPT ![i].cap = pvc[i].size]
    /\ full' = [full EXCEPT ![i] = FALSE]
    /\ UNCHANGED <<requested, pod, worldVars, informerVars,
                   reconcileVars, heal, releasable>>

(* A claim in use is protected.                                            *)
ClaimGone(i) ==
    /\ pvc[i].deleting
    /\ pod[i] \in {"none", "pending"}
    /\ pvc' = [pvc EXCEPT ![i] = NoPVC]
    /\ full' = [full EXCEPT ![i] = FALSE]
    /\ UNCHANGED <<requested, pod, worldVars, informerVars,
                   reconcileVars, heal, releasable>>

DiskFills(i) ==
    /\ Disturbance
    /\ pod[i] = "running"
    /\ ~full[i]
    /\ full' = [full EXCEPT ![i] = TRUE]
    /\ UNCHANGED <<requested, pod, pvc, spec, snapshot, apiHealthy,
                   informerVars, reconcileVars, heal, releasable>>

SnapshotTaken ==
    /\ Disturbance
    /\ snapshot' = snapshot + 1
    /\ UNCHANGED <<requested, clusterVars, spec, apiHealthy,
                   informerVars, reconcileVars, heal, releasable>>

APIServerHeals ==
    /\ ~apiHealthy
    /\ apiHealthy' = TRUE
    /\ UNCHANGED <<requested, clusterVars, spec, snapshot,
                   disturbances, informerVars, reconcileVars, heal, releasable>>

SpecChanges ==
    /\ Disturbance
    /\ spec' \in [wanted: Wants, policy: Policies] \ {spec}
    /\ releasable' = releasable \cup ReleasedBy(spec')
    /\ UNCHANGED <<requested, clusterVars, snapshot, apiHealthy, informerVars,
                   reconcileVars, heal>>

Cluster(i) ==
    PodRuns(i) \/ PodGone(i) \/ ClaimBinds(i) \/ ClaimResized(i) \/ ClaimGone(i)

FullNodeReconcile == ReconcilePods \/ ReconcilePVCs \/ UpdateStatus

SelfHealingReconcile == CollectDiskUsage \/ SignalPVCResize

Next ==
    \/ FullNodeReconcile
    \/ SelfHealingReconcile
    \/ OperatorRestarts
    \/ \E i \in Ordinals :
          PodInformerSync(i) \/ PVCInformerSync(i) \/ Cluster(i) \/ DiskFills(i)
    \/ SnapshotTaken
    \/ APIServerHeals
    \/ SpecChanges

Spec == Init /\ [][Next]_vars

(***************************************************************************)
(* Both controllers requeue every object, the informers catch up, the      *)
(* cluster does its part and API errors end.                               *)
(***************************************************************************)
Fairness ==
    /\ WF_vars(FullNodeReconcile)
    /\ WF_vars(SelfHealingReconcile)
    /\ \A i \in Ordinals :
          /\ WF_vars(PodInformerSync(i))
          /\ WF_vars(PVCInformerSync(i))
          /\ WF_vars(Cluster(i))
    /\ WF_vars(APIServerHeals)

FairSpec == Spec /\ Fairness

-----------------------------------------------------------------------------
(***************************************************************************)
(* Properties                                                              *)
(***************************************************************************)
(* Auto scaling ends at the maximum: whatever requests are lost, repeated  *)
(* or made from a stale capacity, no claim gets larger than the maximum    *)
(* with its 2%, unless the template or a snapshot is.                      *)
SizeBounded ==
    \A i \in Ordinals :
        pvc[i].size <= Max({Template, RestoreSize, Padded(MaxSize)})

(* A claim is deleted only if some spec since it was created neither       *)
(* wanted nor retained it, however stale what the controller has read is.  *)
DataKeptStep ==
    \A i \in Ordinals :
        (pvc'[i].deleting /\ ~pvc[i].deleting) => i \in releasable

DataKept == [][DataKeptStep]_vars

(* A claim that is neither wanted nor retained goes, unless the spec       *)
(* changes; a pod that uses it or calls that fail only delay that.         *)
Released ==
    \A i \in Ordinals :
        (Exists(pvc[i]) /\ i \in ReleasedBy(spec))
            ~> (~Exists(pvc[i]) \/ i \notin ReleasedBy(spec))

(* A wanted instance gets a pod that runs on a claim, even where the claim *)
(* of an earlier pod was still being deleted.                              *)
Served ==
    \A i \in Ordinals :
        i \in spec.wanted ~> (pod[i] = "running" \/ i \notin spec.wanted)

(* The snapshot the claim would be restored from now is another one.       *)
SourceDiffers(i) == FindDataSource \notin {0, pvc[i].src}

NeedsSpace(i) ==
    /\ full[i]
    /\ pod[i] = "running"
    /\ i \in spec.wanted
    /\ ~pvc[i].deleting
    /\ pvc[i].cap < MaxSize

(* A full volume below the maximum grows, whatever update of the status or *)
(* of the claim was lost on the way, unless a newer snapshot than the one  *)
(* it was restored from exists.                                            *)
Grows ==
    \A i \in Ordinals : NeedsSpace(i) ~> (~NeedsSpace(i) \/ SourceDiffers(i))

=============================================================================
