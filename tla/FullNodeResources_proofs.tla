---------------------- MODULE FullNodeResources_proofs ----------------------
(***************************************************************************)
(* IdentityKept and AddressKept for any number of instances, any specs and *)
(* any number of failed calls and restarts.                                *)
(*                                                                         *)
(* A key, once stored, never changes (KeyStays).  So everything that names *)
(* a key - the informer, the peers that were collected, config maps, pods  *)
(* - names it for good, which is the inductive invariant.                  *)
(***************************************************************************)
EXTENDS FullNodeResources, TLAPS

Configs == [kind: {"none", "nil", "config"}, peers: SUBSET (Ordinals \X Nat),
            address: BOOLEAN]

Pods == [exists: BOOLEAN, cksum: Configs, runs: Configs, key: Nat]

(* Every variable that keys and addresses depend on keeps its type.        *)
Types ==
    /\ svc \in [Ordinals -> Services]
    /\ key \in [Ordinals -> Nat]
    /\ seenKey \in [Ordinals -> Nat]
    /\ seenSvc \in [Ordinals -> Services]
    /\ cm \in [Ordinals -> Configs]
    /\ pod \in [Ordinals -> Pods]
    /\ peers \in [Ordinals -> [key: Nat, svc: Services]]
    /\ cksums \in [Ordinals -> Configs]

(* The keys a config names are the ones in the secrets.                    *)
NamesKeys(c) == \A j \in Ordinals, k \in Nat : <<j, k>> \in c.peers => k # 0 /\ k = key[j]

(* Whatever names a key names the one in the secret.                       *)
Keys ==
    /\ \A i \in Ordinals : seenKey[i] \in {0, key[i]} /\ peers[i].key \in {0, key[i]}
    /\ \A i \in Ordinals : NamesKeys(cm[i]) /\ NamesKeys(pod[i].runs)
    /\ \A i \in Ordinals : Running(i) => pod[i].key # 0 /\ pod[i].key = key[i]

Inv == Types /\ Keys

-----------------------------------------------------------------------------
(* A config that is empty has its type and names nobody.                   *)
LEMMA EmptyConfigs ==
    /\ NoConfig \in Configs /\ NoConfig.peers = {} /\ NoConfig.kind = "none"
    /\ NoChecksum \in Configs
BY DEF NoConfig, NoChecksum, Configs

(* Nothing is collected between two passes.                                *)
LEMMA EmptyPeers ==
    /\ NoPeers \in [Ordinals -> [key: Nat, svc: Services]]
    /\ \A i \in Ordinals : NoPeers[i].key = 0
BY DEF NoPeers, Services

(* A pod that is new, or not there, does not run and names nobody.         *)
LEMMA EmptyPods ==
    ASSUME NEW c \in Configs
    PROVE  /\ NoPod \in Pods /\ NoPod.runs = NoConfig
           /\ [NoPod EXCEPT !.exists = TRUE, !.cksum = c] \in Pods
           /\ [NoPod EXCEPT !.exists = TRUE, !.cksum = c].runs = NoConfig
<1>1. NoPod \in Pods /\ NoPod.runs = NoConfig
  BY EmptyConfigs DEF NoPod, Pods
<1> QED BY <1>1 DEF Pods

(* The invariant holds at first.                                           *)
LEMMA InvInit == Init => Inv
<1> SUFFICES ASSUME Init PROVE Inv
  OBVIOUS
<1>1. Types
  BY EmptyConfigs, EmptyPeers, EmptyPods DEF Init, Types, Services
<1>2. Keys
  BY EmptyConfigs, EmptyPeers, EmptyPods DEF Init, Keys, NamesKeys, Running
<1> QED BY <1>1, <1>2 DEF Inv

(* The config that is built names the keys of the peers collected.         *)
LEMMA BuildConfigNames ==
    ASSUME Inv, NEW i \in Ordinals
    PROVE  BuildConfig(i) \in Configs /\ NamesKeys(BuildConfig(i))
<1> DEFINE names == {<<j, peers[j].key>> : j \in {k \in Ordinals \ {i} : peers[k].key # 0}}
<1>1. BuildConfig(i) = [kind |-> "config", peers |-> names,
                        address |-> peers[i].svc = "assigned"]
  BY DEF BuildConfig, Config
<1>2. names \in SUBSET (Ordinals \X Nat)
  BY DEF Inv, Types
<1>3. \A j \in Ordinals, k \in Nat : <<j, k>> \in names => k # 0 /\ k = key[j]
  BY DEF Inv, Keys
<1> HIDE DEF names
<1>4. BuildConfig(i) \in Configs
  BY <1>1, <1>2 DEF Configs
<1>5. BuildConfig(i).peers = names
  BY <1>1
<1> QED BY <1>3, <1>4, <1>5 DEF NamesKeys

(* ReconcileNodeKeys leaves the keys there are alone.                      *)
LEMMA KeyStays ==
    ASSUME Inv, ReconcileNodeKeys
    PROVE  /\ key' \in [Ordinals -> Nat]
           /\ \A i \in Ordinals : key[i] # 0 => key'[i] = key[i]
BY DEF ReconcileNodeKeys, StoreNodeKey, Inv, Types

-----------------------------------------------------------------------------
(***************************************************************************)
(* The invariant is inductive.                                             *)
(***************************************************************************)

(* A step that changes neither keys, configs nor pods, and collects keys   *)
(* of secrets or none.                                                     *)
LEMMA KeysUntouched ==
    ASSUME Inv, UNCHANGED <<key, cm, pod>>,
           svc' \in [Ordinals -> Services],
           seenSvc' \in [Ordinals -> Services],
           seenKey' \in [Ordinals -> Nat],
           \A i \in Ordinals : seenKey'[i] \in {0, key[i]},
           peers' \in [Ordinals -> [key: Nat, svc: Services]],
           \A i \in Ordinals : peers'[i].key \in {0, key[i]},
           cksums' \in [Ordinals -> Configs]
    PROVE  Inv'
<1>1. Types'
  BY DEF Inv, Types
<1>2. Keys'
  BY DEF Inv, Keys, NamesKeys, Running
<1> QED BY <1>1, <1>2 DEF Inv

(* Every step keeps the invariant.                                         *)
LEMMA InvStep ==
    ASSUME Inv, Next
    PROVE  Inv'
<1>1. CASE ReconcileServices
  <2>1. UNCHANGED <<key, cm, pod, seenKey, seenSvc, peers, cksums>>
    BY <1>1 DEF ReconcileServices, informerVars
  <2>2. svc' \in [Ordinals -> Services]
    BY <1>1 DEF ReconcileServices, SetType, Services, Inv, Types
  <2> QED BY <2>1, <2>2, KeysUntouched DEF Inv, Types, Keys
<1>2. CASE ReconcileNodeKeys
  <2>1. UNCHANGED <<svc, cm, pod, seenKey, seenSvc, peers, cksums>>
    BY <1>2 DEF ReconcileNodeKeys, informerVars
  <2>2. Types'
    BY <1>2, <2>1, KeyStays DEF Inv, Types
  <2>3. \A i \in Ordinals : seenKey'[i] \in {0, key'[i]} /\ peers'[i].key \in {0, key'[i]}
    BY <1>2, <2>1, KeyStays DEF Inv, Types, Keys
  <2>4. \A i \in Ordinals : NamesKeys(cm[i])' /\ NamesKeys(pod[i].runs)'
    BY <1>2, <2>1, KeyStays DEF Inv, Types, Keys, NamesKeys
  <2>5. \A i \in Ordinals : Running(i)' => pod'[i].key # 0 /\ pod'[i].key = key'[i]
    BY <1>2, <2>1, KeyStays DEF Inv, Types, Keys, Running
  <2> QED BY <2>2, <2>3, <2>4, <2>5 DEF Inv, Keys
<1>3. CASE CollectPeers
  <2>1. UNCHANGED <<svc, key, cm, pod, seenKey, seenSvc, cksums>>
    BY <1>3 DEF CollectPeers, informerVars, clusterVars
  <2>2. /\ peers' \in [Ordinals -> [key: Nat, svc: Services]]
        /\ \A i \in Ordinals : peers'[i].key \in {0, key[i]}
    <3>1. CASE peers' = NoPeers
      BY <3>1, EmptyPeers
    <3>2. CASE peers' # NoPeers
      <4> DEFINE found == {i \in Instances(crd) : seenKey[i] # 0 /\ seenSvc[i] # "none"}
      <4>1. peers' = [i \in Ordinals |->
                         IF i \in found THEN [key |-> seenKey[i], svc |-> seenSvc[i]]
                         ELSE NoPeers[i]]
        BY <1>3, <3>2 DEF CollectPeers
      <4> HIDE DEF found
      <4> QED BY <4>1, EmptyPeers DEF Inv, Types, Keys
    <3> QED BY <3>1, <3>2
  <2> QED BY <2>1, <2>2, KeysUntouched DEF Inv, Types, Keys
<1>4. CASE ReconcileConfigMaps
  <2>1. UNCHANGED <<svc, key, pod, seenKey, seenSvc, peers>>
    BY <1>4 DEF ReconcileConfigMaps, informerVars
  <2>2. \A i \in Ordinals : cm'[i] \in {NoConfig, BuildConfig(i), cm[i]}
    BY <1>4 DEF ReconcileConfigMaps
  <2>3. cm' = [i \in Ordinals |-> cm'[i]]
    BY <1>4 DEF ReconcileConfigMaps
  <2>4. cm' \in [Ordinals -> Configs] /\ \A i \in Ordinals : NamesKeys(cm'[i])
    <3>1. ASSUME NEW i \in Ordinals PROVE cm'[i] \in Configs /\ NamesKeys(cm'[i])
      <4>1. CASE cm'[i] = NoConfig
        BY <4>1, EmptyConfigs DEF NamesKeys
      <4>2. CASE cm'[i] = BuildConfig(i)
        BY <4>2, BuildConfigNames
      <4>3. CASE cm'[i] = cm[i]
        BY <4>3 DEF Inv, Types, Keys
      <4> QED BY <2>2, <4>1, <4>2, <4>3
    <3> QED BY <2>3, <3>1
  <2>5. cksums' \in [Ordinals -> Configs]
    <3>1. \A i \in Ordinals : cksums'[i] \in {NoChecksum, BuildConfig(i)}
      BY <1>4 DEF ReconcileConfigMaps
    <3>2. cksums' = [i \in Ordinals |-> cksums'[i]]
      BY <1>4 DEF ReconcileConfigMaps
    <3> QED BY <3>1, <3>2, EmptyConfigs, BuildConfigNames
  <2>6. Types'
    BY <2>1, <2>4, <2>5 DEF Inv, Types
  <2>7. Keys'
    BY <2>1, <2>4 DEF Inv, Keys, NamesKeys, Running
  <2> QED BY <2>6, <2>7 DEF Inv
<1>5. CASE \/ GetCosmosFullNode \/ ReconcileServiceAccounts \/ ReconcileRoles
            \/ ReconcileRoleBindings
  <2>1. UNCHANGED <<svc, key, cm, pod, seenKey, seenSvc, peers, cksums>>
    BY <1>5 DEF GetCosmosFullNode, clusterVars, ReconcileServiceAccounts, ReconcileRoles, ReconcileRoleBindings,
                ReconcileOne, informerVars
  <2> QED BY <2>1, KeysUntouched DEF Inv, Types, Keys
<1>6. CASE ReconcilePods
  <2>1. UNCHANGED <<svc, key, cm, seenKey, seenSvc, peers, cksums>>
    BY <1>6 DEF ReconcilePods, informerVars
  <2>2. \A i \in Ordinals :
          pod'[i] \in {[NoPod EXCEPT !.exists = TRUE, !.cksum = cksums[i]], NoPod, pod[i]}
    BY <1>6 DEF ReconcilePods
  <2>3. pod' = [i \in Ordinals |-> pod'[i]]
    BY <1>6 DEF ReconcilePods
  <2>4. ASSUME NEW i \in Ordinals
        PROVE  pod'[i] \in Pods /\ (pod'[i].runs = NoConfig \/ pod'[i] = pod[i])
    <3>1. cksums[i] \in Configs /\ pod[i] \in Pods
      BY DEF Inv, Types
    <3> QED BY <2>2, <3>1, EmptyPods
  <2>5. Types'
    BY <2>1, <2>3, <2>4 DEF Inv, Types
  <2>6. \A i \in Ordinals : seenKey'[i] \in {0, key'[i]} /\ peers'[i].key \in {0, key'[i]}
    BY <2>1 DEF Inv, Keys
  <2>7. ASSUME NEW i \in Ordinals
        PROVE  /\ NamesKeys(cm[i])' /\ NamesKeys(pod[i].runs)'
               /\ Running(i)' => pod'[i].key # 0 /\ pod'[i].key = key'[i]
    BY <2>1, <2>4, EmptyConfigs DEF Inv, Keys, NamesKeys, Running
  <2> QED BY <2>5, <2>6, <2>7 DEF Inv, Keys
<1>7. CASE UpdateStatus \/ OperatorRestarts
  <2>1. /\ UNCHANGED <<svc, key, cm, pod>>
        /\ peers' = NoPeers /\ cksums' = [i \in Ordinals |-> NoChecksum]
        /\ seenKey' \in {seenKey, key} /\ seenSvc' \in {seenSvc, svc}
    BY <1>7 DEF UpdateStatus, OperatorRestarts, clusterVars, informerVars
  <2> QED BY <2>1, EmptyPeers, EmptyConfigs, KeysUntouched DEF Inv, Types, Keys
<1>8. CASE \/ CosmosFullNodeInformerSync \/ ServiceInformerSync
            \/ SecretInformerSync \/ ConfigMapInformerSync \/ SpecChanges
  <2>1. /\ UNCHANGED <<svc, key, cm, pod, peers, cksums>>
        /\ seenKey' \in {seenKey, key} /\ seenSvc' \in {seenSvc, svc}
    BY <1>8 DEF CosmosFullNodeInformerSync, ServiceInformerSync, SecretInformerSync, ConfigMapInformerSync,
                SpecChanges, clusterVars, localVars, informerVars
  <2> QED BY <2>1, KeysUntouched DEF Inv, Types, Keys
<1>9. ASSUME NEW i \in Ordinals, AddressAssigned(i) PROVE Inv'
  <2>1. UNCHANGED <<key, cm, pod, seenKey, seenSvc, peers, cksums>>
    BY <1>9 DEF AddressAssigned, informerVars, localVars
  <2>2. svc' \in [Ordinals -> Services]
    BY <1>9 DEF AddressAssigned, Services, Inv, Types
  <2> QED BY <2>1, <2>2, KeysUntouched DEF Inv, Types, Keys
<1>10. ASSUME NEW i \in Ordinals, PodStarts(i) PROVE Inv'
  <2>1. UNCHANGED <<svc, key, cm, seenKey, seenSvc, peers, cksums>>
    BY <1>10 DEF PodStarts, informerVars, localVars
  <2> DEFINE p == [pod[i] EXCEPT !.runs = cm[i], !.key = key[i]]
  <2>2. pod' = [pod EXCEPT ![i] = p]
    BY <1>10 DEF PodStarts, Inv, Types, Pods
  <2>3. p \in Pods /\ p.runs = cm[i] /\ p.key = key[i]
    BY DEF Inv, Types, Pods
  <2> HIDE DEF p
  <2>4. Types'
    BY <2>1, <2>2, <2>3 DEF Inv, Types
  <2>5. ASSUME NEW j \in Ordinals
        PROVE  /\ NamesKeys(cm[j])' /\ NamesKeys(pod[j].runs)'
               /\ Running(j)' => pod'[j].key # 0 /\ pod'[j].key = key'[j]
    <3>1. CASE j = i
      <4>1. pod'[j] = p
        BY <2>2, <3>1 DEF Inv, Types
      <4> QED BY <1>10, <2>1, <2>3, <3>1, <4>1 DEF PodStarts, Inv, Keys, NamesKeys, Running
    <3>2. CASE j # i
      <4>1. pod'[j] = pod[j]
        BY <2>2, <3>2 DEF Inv, Types
      <4> QED BY <2>1, <4>1 DEF Inv, Keys, NamesKeys, Running
    <3> QED BY <3>1, <3>2
  <2>6. \A j \in Ordinals : seenKey'[j] \in {0, key'[j]} /\ peers'[j].key \in {0, key'[j]}
    BY <2>1 DEF Inv, Keys
  <2> QED BY <2>4, <2>5, <2>6 DEF Inv, Keys
<1> QED BY <1>1, <1>2, <1>3, <1>4, <1>5, <1>6, <1>7, <1>8, <1>9, <1>10
        DEF Next, Reconcile

(* The invariant is inductive.                                             *)
LEMMA InvNext == Inv /\ [Next]_vars => Inv'
<1>1. ASSUME Inv, UNCHANGED vars PROVE Inv'
  <2>1. UNCHANGED <<svc, key, cm, pod, seenKey, seenSvc, peers, cksums>>
    BY <1>1 DEF vars
  <2> QED BY <1>1, <2>1, KeysUntouched DEF Inv, Types, Keys
<1> QED BY <1>1, InvStep

-----------------------------------------------------------------------------
(***************************************************************************)
(* Theorems                                                                *)
(***************************************************************************)

(* A node keeps its key and its peers know it: StoreNodeKey replaces none, *)
(* however often Reconcile generates one because it does not see the       *)
(* secret, and BuildConfig names what was collected.                       *)
THEOREM IdentityIsKept == Spec => []IdentityKept
<1>1. ASSUME Inv PROVE IdentityKept
  <2>1. \A i \in Ordinals : Running(i) => pod[i].key = key[i]
    BY <1>1 DEF Inv, Keys
  <2>2. ASSUME NEW i \in Ordinals, NEW p \in pod[i].runs.peers \cup cm[i].peers
        PROVE  p[2] = key[p[1]]
    <3>1. PICK j \in Ordinals, k \in Nat : p = <<j, k>>
      BY <1>1 DEF Inv, Types, Pods, Configs
    <3>2. k = key[j]
      BY <1>1, <2>2, <3>1 DEF Inv, Keys, NamesKeys
    <3> QED BY <3>1, <3>2
  <2> QED BY <2>1, <2>2 DEF IdentityKept
<1> QED BY <1>1, InvInit, InvNext, PTL DEF Spec

(* An instance that is scaled down and up again keeps its public address:  *)
(* ReconcileServices deletes no service and sets the type of wanted ones.  *)
THEOREM AddressIsKept == Spec => AddressKept
<1>1. ASSUME Inv, Next, NEW i \in Ordinals,
             svc[i] = "assigned", svc'[i] # "assigned"
      PROVE  i < crd.replicas /\ ~WantsLoadBalancer(crd, i)
  <2>1. CASE ReconcileServices
    <3>1. i \in Instances(crd) /\ svc'[i] = SetType(svc[i], WantsLoadBalancer(crd, i))
      BY <1>1, <2>1 DEF ReconcileServices, Made
    <3> QED BY <1>1, <3>1 DEF Instances, SetType, IsLoadBalancer
  <2>2. ASSUME NEW j \in Ordinals, AddressAssigned(j) PROVE FALSE
    BY <1>1, <2>2 DEF AddressAssigned, Inv, Types
  <2>3. CASE UNCHANGED svc
    BY <1>1, <2>3
  <2>4. CASE ReconcileNodeKeys \/ CollectPeers \/ ReconcileConfigMaps \/ ReconcilePods
    BY <2>3, <2>4 DEF ReconcileNodeKeys, CollectPeers, ReconcileConfigMaps,
                      ReconcilePods, clusterVars
  <2>5. CASE ReconcileServiceAccounts \/ ReconcileRoles \/ ReconcileRoleBindings
    BY <2>3, <2>5 DEF ReconcileServiceAccounts, ReconcileRoles, ReconcileRoleBindings,
                      ReconcileOne
  <2>6. CASE \/ GetCosmosFullNode \/ UpdateStatus \/ OperatorRestarts \/ SpecChanges
             \/ CosmosFullNodeInformerSync \/ ServiceInformerSync
             \/ SecretInformerSync \/ ConfigMapInformerSync
    BY <2>3, <2>6 DEF GetCosmosFullNode, CosmosFullNodeInformerSync, UpdateStatus, OperatorRestarts, SpecChanges, ServiceInformerSync,
                      SecretInformerSync, ConfigMapInformerSync, clusterVars
  <2>7. ASSUME NEW j \in Ordinals, PodStarts(j)
        PROVE  UNCHANGED svc
    BY <2>7 DEF PodStarts
  <2> QED BY <1>1, <2>1, <2>2, <2>3, <2>4, <2>5, <2>6, <2>7 DEF Next, Reconcile
<1>2. Inv /\ [Next]_vars => [AddressKeptStep]_vars
  BY <1>1 DEF AddressKeptStep
<1> QED BY <1>2, InvInit, InvNext, PTL DEF Spec, AddressKept

=============================================================================
