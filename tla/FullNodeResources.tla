-------------------------- MODULE FullNodeResources -------------------------
(***************************************************************************)
(* One Reconcile of the CosmosFullNode controller over all the resources   *)
(* of a node: p2p services, node keys, the peers found from both, config   *)
(* maps, RBAC, pods, and the phase of the status.  No step ends Reconcile: *)
(* a step that fails is noted, and the next one works with what it has.    *)
(* The CosmosFullNode, services, secrets and config maps are read through   *)
(* informers that may lag.  Claims are VolumeClaims', the pace of updates   *)
(* is PodRollout's.                                                        *)
(***************************************************************************)
EXTENDS Integers, FiniteSets

CONSTANTS
    N,               \* ordinals are 0..N-1
    Specs,           \* the values of spec.replicas and of
                     \* spec.service.maxP2PExternalAddresses
    CacheLags,       \* TRUE: the informers may lag
    MaxDisturbances  \* bound on spec changes, restarts and failed calls,
                     \* together

Ordinals == 0..(N - 1)

ASSUME ConstantsAssumption ==
    /\ N \in Nat
    /\ Specs \subseteq [replicas: 0..N, max: Nat] /\ Specs # {}
    /\ CacheLags \in BOOLEAN
    /\ MaxDisturbances \in Nat

VARIABLES
    spec,       \* what the CosmosFullNode wants
    phase,      \* status.phase
    svc,        \* the p2p services
    key,        \* the node keys in the secrets, 0: no secret
    cm,         \* the config maps
    rbac,       \* which of service account, role and role binding exist
    pod,        \* the pods: the checksum they were built for, the config
                \* and the node key they run with
    seenSpec, seenSvc, seenKey, seenCM,  \* what the informers show
    pc,         \* the next step of Reconcile
    crd,        \* the spec it has read
    failed,     \* whether errs.Any()
    peers,      \* the peers it has collected
    cksums,     \* the checksums of the config maps
    requeue,    \* whether the pods need another pass
    disturbances

informerVars == <<seenSpec, seenSvc, seenKey, seenCM>>
clusterVars == <<svc, key, cm, rbac, pod>>
localVars == <<crd, failed, peers, cksums, requeue>>
worldVars == <<spec, disturbances>>
vars == <<spec, phase, svc, key, cm, rbac, pod, seenSpec, seenSvc, seenKey, seenCM,
          pc, crd, failed, peers, cksums, requeue, disturbances>>

(* A service is internal, or a load balancer with or without an address.   *)
Services == {"none", "internal", "waiting", "assigned"}

IsLoadBalancer(s) == s \in {"waiting", "assigned"}

(* A config names the node keys of the other peers, and whether it has the *)
(* external address of the node.  A checksum stands for the config itself. *)
Config(names, address) == [kind |-> "config", peers |-> names, address |-> address]

NoConfig == [kind |-> "none", peers |-> {}, address |-> FALSE]

(* The entry of a map of checksums that is nil.                            *)
NoChecksum == [NoConfig EXCEPT !.kind = "nil"]

NoPod == [exists |-> FALSE, cksum |-> NoConfig, runs |-> NoConfig, key |-> 0]

(* What Reconcile has read when it is not running.                         *)
NoSpec == [replicas |-> 0, max |-> 0]

NoPeers == [i \in Ordinals |-> [key |-> 0, svc |-> "none"]]

Init ==
    /\ spec \in Specs
    /\ phase = ""
    /\ svc = [i \in Ordinals |-> "none"]
    /\ key = [i \in Ordinals |-> 0]
    /\ cm = [i \in Ordinals |-> NoConfig]
    /\ rbac = {}
    /\ pod = [i \in Ordinals |-> NoPod]
    /\ seenSpec = spec
    /\ seenSvc = svc
    /\ seenKey = key
    /\ seenCM = cm
    /\ pc = "get"
    /\ crd = NoSpec
    /\ failed = FALSE
    /\ peers = NoPeers
    /\ cksums = [i \in Ordinals |-> NoChecksum]
    /\ requeue = FALSE
    /\ disturbances = 0

-----------------------------------------------------------------------------
(***************************************************************************)
(* Reconcile                                                               *)
(***************************************************************************)
Instances(sp) == {i \in Ordinals : i < sp.replicas}

Clamp(n, low, high) == IF n < low THEN low ELSE IF n > high THEN high ELSE n

(* The services of the first instances are load balancers.                 *)
WantsLoadBalancer(sp, i) == i < Clamp(sp.max, 0, sp.replicas)

Disturbance ==
    /\ disturbances < MaxDisturbances
    /\ disturbances' = disturbances + 1

(* Those of a set of calls that are made.  After one that fails the others *)
(* are not; the ones in refused cannot succeed, the others fail at times.  *)
Made(calls, refused) ==
    {made \in SUBSET (calls \ refused) :
        made = calls \/ refused # {} \/ disturbances < MaxDisturbances}

Charge(calls, refused, made) ==
    IF made = calls \/ refused # {} THEN UNCHANGED disturbances ELSE Disturbance

Step(from, to) == pc = from /\ pc' = to /\ UNCHANGED <<phase, spec>>

Fresh ==
    CacheLags \/ (seenSpec = spec /\ seenSvc = svc /\ seenKey = key /\ seenCM = cm)

(* Reconcile works with the CosmosFullNode it reads first, whatever        *)
(* becomes of it meanwhile.                                                *)
GetCosmosFullNode ==
    /\ Step("get", "services")
    /\ Fresh
    /\ crd' = seenSpec
    /\ UNCHANGED <<clusterVars, informerVars, failed, peers, cksums, requeue,
                   disturbances>>

(* The service after its type is set: an address stays with its type.      *)
SetType(s, balancer) ==
    IF ~balancer THEN "internal" ELSE IF IsLoadBalancer(s) THEN s ELSE "waiting"

(* Mutant: services of instances that are not wanted are deleted.          *)
ReconcileServicesDeleting ==
    /\ Step("services", "keys")
    /\ Fresh
    /\ failed' = FALSE
    /\ svc' = [i \in Ordinals |->
                  IF i \notin Instances(crd) THEN "none"
                  ELSE SetType(svc[i], WantsLoadBalancer(crd, i))]
    /\ UNCHANGED <<key, cm, rbac, pod, informerVars, crd, peers, cksums, requeue,
                   disturbances>>

(* A service that is not seen is created, or updated whatever its version; *)
(* one that is seen with another type is updated if the version is the     *)
(* latest.  None is deleted.                                               *)
ReconcileServices ==
    /\ Step("services", "keys")
    /\ Fresh
    /\ LET unseen == {i \in Instances(crd) : seenSvc[i] = "none"}
           other == {i \in Instances(crd) \ unseen :
                        IsLoadBalancer(seenSvc[i]) # WantsLoadBalancer(crd, i)}
           calls == unseen \cup other
           refused == {i \in other : seenSvc[i] # svc[i]}
       IN  \E made \in Made(calls, refused) :
              /\ Charge(calls, refused, made)
              /\ svc' = [i \in Ordinals |->
                            IF i \in made
                            THEN SetType(svc[i], WantsLoadBalancer(crd, i))
                            ELSE svc[i]]
              /\ failed' = (made # calls)
    /\ UNCHANGED <<key, cm, rbac, pod, informerVars, crd, peers, cksums, requeue>>

(* Mutant: the secret is updated if it exists.                             *)
StoreNodeKeyAnyway(i) == key[i] + 1

(* A new random key; a secret that is there already stays.                 *)
StoreNodeKey(i) == IF key[i] = 0 THEN 1 ELSE key[i]

ReconcileNodeKeys ==
    /\ Step("keys", "peers")
    /\ Fresh
    /\ LET calls == {i \in Instances(crd) : seenKey[i] = 0}
       IN  \E made \in Made(calls, {}) :
              /\ Charge(calls, {}, made)
              /\ key' = [i \in Ordinals |->
                            IF i \in made THEN StoreNodeKey(i) ELSE key[i]]
              /\ failed' = (failed \/ made # calls)
    /\ UNCHANGED <<svc, cm, rbac, pod, informerVars, crd, peers, cksums, requeue>>

(* Every instance must have its secret and its service; else there are no  *)
(* peers at all.                                                           *)
CollectPeers ==
    /\ Step("peers", "configmaps")
    /\ Fresh
    /\ LET found == {i \in Instances(crd) : seenKey[i] # 0 /\ seenSvc[i] # "none"}
       IN  IF found = Instances(crd)
           THEN /\ peers' = [i \in Ordinals |->
                                IF i \in found
                                THEN [key |-> seenKey[i], svc |-> seenSvc[i]]
                                ELSE NoPeers[i]]
                /\ UNCHANGED failed
           ELSE /\ peers' = NoPeers
                /\ failed' = TRUE
    /\ UNCHANGED <<clusterVars, informerVars, crd, cksums, requeue, disturbances>>

(* Mutant: the config names only the peers that have an address.           *)
BuildConfigAssigned(i) ==
    Config({<<j, peers[j].key>> : j \in
               {k \in Ordinals \ {i} : peers[k].svc = "assigned"}},
           peers[i].svc = "assigned")

BuildConfig(i) ==
    Config({<<j, peers[j].key>> : j \in {k \in Ordinals \ {i} : peers[k].key # 0}},
           peers[i].svc = "assigned")

(* Config maps are created, or updated whatever their version if they were *)
(* not seen; deleted, which fails if they are gone; and updated if the     *)
(* version that was seen is the latest.  After an error there are no       *)
(* checksums.                                                              *)
ReconcileConfigMaps ==
    /\ Step("configmaps", "serviceaccounts")
    /\ Fresh
    /\ LET unseen == {i \in Instances(crd) : seenCM[i] = NoConfig}
           surplus == {i \in Ordinals \ Instances(crd) : seenCM[i] # NoConfig}
           other == {i \in Instances(crd) \ unseen : seenCM[i] # BuildConfig(i)}
           calls == unseen \cup surplus \cup other
           refused == {i \in surplus : cm[i] = NoConfig}
                         \cup {i \in other : seenCM[i] # cm[i]}
       IN  \E made \in Made(calls, refused) :
              /\ Charge(calls, refused, made)
              /\ cm' = [i \in Ordinals |->
                           CASE i \in made \cap surplus -> NoConfig
                             [] i \in made \ surplus -> BuildConfig(i)
                             [] OTHER -> cm[i]]
              /\ cksums' = [i \in Ordinals |->
                               IF made = calls THEN BuildConfig(i) ELSE NoChecksum]
              /\ failed' = (failed \/ made # calls)
    /\ UNCHANGED <<svc, key, rbac, pod, informerVars, crd, peers, requeue>>

(* A control that creates its one resource.                                *)
ReconcileOne(resource) ==
    /\ \E made \in Made({resource} \ rbac, {}) :
          /\ Charge({resource} \ rbac, {}, made)
          /\ rbac' = rbac \cup made
          /\ failed' = (failed \/ made # {resource} \ rbac)
    /\ UNCHANGED <<svc, key, cm, pod, informerVars, crd, peers, cksums, requeue>>

ReconcileServiceAccounts ==
    Step("serviceaccounts", "roles") /\ ReconcileOne("serviceaccount")

ReconcileRoles == Step("roles", "rolebindings") /\ ReconcileOne("role")

ReconcileRoleBindings == Step("rolebindings", "pods") /\ ReconcileOne("rolebinding")

Running(i) == pod[i].runs.kind = "config"

(* Pods are created and surplus ones deleted; otherwise some of those that *)
(* were built for another checksum are deleted, none only if some pod is   *)
(* down already.                                                           *)
ReconcilePods ==
    /\ Step("pods", "status")
    /\ LET creates == {i \in Instances(crd) : ~pod[i].exists}
           deletes == {i \in Ordinals \ Instances(crd) : pod[i].exists}
           updates == {i \in Instances(crd) : pod[i].exists /\ pod[i].cksum # cksums[i]}
           scaling == creates \cup deletes # {}
           down == \E i \in Instances(crd) : ~Running(i)
           calls == IF scaling THEN {creates \cup deletes}
                    ELSE SUBSET updates \ IF updates = {} \/ down THEN {} ELSE {{}}
       IN  \E wanted \in calls : \E made \in Made(wanted, {}) :
              /\ Charge(wanted, {}, made)
              /\ pod' = [i \in Ordinals |->
                            CASE i \in made \cap creates ->
                                    [NoPod EXCEPT !.exists = TRUE, !.cksum = cksums[i]]
                              [] i \in made \ creates -> NoPod
                              [] OTHER -> pod[i]]
              /\ failed' = (failed \/ made # wanted)
              /\ requeue' = (scaling \/ wanted # updates)
    /\ UNCHANGED <<svc, key, cm, rbac, informerVars, crd, peers, cksums>>

HasIncompleteExternalAddress == \E i \in Ordinals : peers[i].svc = "waiting"

(* The phase, unless the update of the status fails.                       *)
UpdateStatus ==
    /\ pc = "status"
    /\ pc' = "get"
    /\ \/ UNCHANGED disturbances /\ phase' = CASE failed -> "TransientError"
                     [] ~failed /\ requeue -> "Progressing"
                     [] ~failed /\ ~requeue /\ HasIncompleteExternalAddress
                           -> "WaitingForP2PServices"
                     [] OTHER -> "Complete"
       \/ Disturbance /\ UNCHANGED phase
    /\ crd' = NoSpec
    /\ failed' = FALSE
    /\ peers' = NoPeers
    /\ cksums' = [i \in Ordinals |-> NoChecksum]
    /\ requeue' = FALSE
    /\ UNCHANGED <<spec, clusterVars, informerVars>>

Reconcile ==
    \/ GetCosmosFullNode
    \/ ReconcileServices
    \/ ReconcileNodeKeys
    \/ CollectPeers
    \/ ReconcileConfigMaps
    \/ ReconcileServiceAccounts
    \/ ReconcileRoles
    \/ ReconcileRoleBindings
    \/ ReconcilePods
    \/ UpdateStatus

-----------------------------------------------------------------------------
(***************************************************************************)
(* The world around the controller.                                        *)
(***************************************************************************)
CosmosFullNodeInformerSync ==
    /\ seenSpec # spec
    /\ seenSpec' = spec
    /\ UNCHANGED <<worldVars, clusterVars, phase, seenSvc, seenKey, seenCM, pc, localVars>>

ServiceInformerSync ==
    /\ seenSvc # svc
    /\ seenSvc' = svc
    /\ UNCHANGED <<worldVars, clusterVars, phase, seenSpec, seenKey, seenCM, pc, localVars>>

SecretInformerSync ==
    /\ seenKey # key
    /\ seenKey' = key
    /\ UNCHANGED <<worldVars, clusterVars, phase, seenSpec, seenSvc, seenCM, pc, localVars>>

ConfigMapInformerSync ==
    /\ seenCM # cm
    /\ seenCM' = cm
    /\ UNCHANGED <<worldVars, clusterVars, phase, seenSpec, seenSvc, seenKey, pc, localVars>>

AddressAssigned(i) ==
    /\ svc[i] = "waiting"
    /\ svc' = [svc EXCEPT ![i] = "assigned"]
    /\ UNCHANGED <<worldVars, key, cm, rbac, pod, phase, informerVars, pc, localVars>>

(* The pod needs its config map, its secret and its service account.       *)
PodStarts(i) ==
    /\ pod[i].exists
    /\ ~Running(i)
    /\ cm[i] # NoConfig
    /\ "serviceaccount" \in rbac
    /\ key[i] # 0
    /\ pod' = [pod EXCEPT ![i].runs = cm[i], ![i].key = key[i]]
    /\ UNCHANGED <<worldVars, svc, key, cm, rbac, phase, informerVars, pc, localVars>>

OperatorRestarts ==
    /\ Disturbance
    /\ pc # "get"
    /\ pc' = "get"
    /\ crd' = NoSpec
    /\ failed' = FALSE
    /\ peers' = NoPeers
    /\ cksums' = [i \in Ordinals |-> NoChecksum]
    /\ requeue' = FALSE
    /\ seenSpec' = spec
    /\ seenSvc' = svc
    /\ seenKey' = key
    /\ seenCM' = cm
    /\ UNCHANGED <<spec, clusterVars, phase>>

SpecChanges ==
    /\ Disturbance
    /\ spec' \in Specs \ {spec}
    /\ UNCHANGED <<clusterVars, phase, informerVars, pc, localVars>>

Next ==
    \/ Reconcile
    \/ CosmosFullNodeInformerSync
    \/ ServiceInformerSync
    \/ SecretInformerSync
    \/ ConfigMapInformerSync
    \/ \E i \in Ordinals : AddressAssigned(i) \/ PodStarts(i)
    \/ OperatorRestarts
    \/ SpecChanges

Spec == Init /\ [][Next]_vars

(***************************************************************************)
(* Every Reconcile is followed by another, the informers catch up, load    *)
(* balancers get addresses and pods start.                                 *)
(***************************************************************************)
Fairness ==
    /\ WF_vars(Reconcile)
    /\ WF_vars(CosmosFullNodeInformerSync)
    /\ WF_vars(ServiceInformerSync)
    /\ WF_vars(SecretInformerSync)
    /\ WF_vars(ConfigMapInformerSync)
    /\ \A i \in Ordinals : WF_vars(AddressAssigned(i)) /\ WF_vars(PodStarts(i))

FairSpec == Spec /\ Fairness

-----------------------------------------------------------------------------
(***************************************************************************)
(* Properties                                                              *)
(***************************************************************************)

(* Whatever the informers show and the calls do, a node keeps its key and  *)
(* its peers know it: every config names a peer by the key in the peer's   *)
(* secret, which is the one the peer runs with.  A key is generated anew   *)
(* in every Reconcile that does not see the secret, and none of these may  *)
(* replace it.                                                             *)
IdentityKept ==
    /\ \A i \in Ordinals : Running(i) => pod[i].key = key[i]
    /\ \A i \in Ordinals : \A p \in pod[i].runs.peers \cup cm[i].peers :
          p[2] = key[p[1]]

(* "Some services, like P2P, reserve public addresses of which should not  *)
(* change": an address is only lost to a Reconcile that has read a spec    *)
(* with the instance and without its address.  It is not lost when the     *)
(* instance is scaled down and up again, however old the spec that is read *)
(* and whatever the informers show of the service.                         *)
AddressKeptStep ==
    \A i \in Ordinals :
        (svc[i] = "assigned" /\ svc'[i] # "assigned") =>
            i < crd.replicas /\ ~WantsLoadBalancer(crd, i)

AddressKept == [][AddressKeptStep]_vars

(* The pod was built for the config that names all the others and the      *)
(* address of the node.  It runs that config, unless the config map had    *)
(* another one at the moment the pod started and was then changed back.    *)
Settled(i) ==
    /\ pod[i].exists
    /\ Running(i)
    /\ pod[i].cksum = Config({<<j, key[j]>> : j \in Instances(spec) \ {i}},
                             WantsLoadBalancer(spec, i))
    /\ cm[i] = pod[i].cksum
    /\ svc[i] = IF WantsLoadBalancer(spec, i) THEN "assigned" ELSE "internal"

(* Once the spec stays as it is and calls fail no more, every instance     *)
(* gets a pod for its complete config, only these have pods, and the phase *)
(* says Complete for good, whatever order informers and load balancers     *)
(* show the services, keys and addresses in.                               *)
Converges ==
    <>[](/\ \A i \in Instances(spec) : Settled(i)
         /\ \A i \in Ordinals \ Instances(spec) : ~pod[i].exists
         /\ phase = "Complete")

=============================================================================
