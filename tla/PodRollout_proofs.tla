------------------------- MODULE PodRollout_proofs --------------------------
(***************************************************************************)
(* Proofs about PodRollout for any number of replicas and any templates.   *)
(*                                                                         *)
(* TypeOK and InformerSound together are inductive.  ReplacementKept       *)
(* follows from InformerSound, DisruptionBound from the arithmetic of      *)
(* ComputeRollout and counting, however stale the list and the status are. *)
(***************************************************************************)
EXTENDS PodRollout, FiniteSetTheorems, TLAPS

(* The constants leave at least one pod that may be unavailable.           *)
LEMMA UnavailType ==
    ASSUME NEW d \in Nat
    PROVE  Scaled(d) \in Nat /\ Unavail(d) \in Nat /\ Unavail(d) >= 1
<1>1. Scaled(d) \in Nat
  <2>1. MaxUnavailable * d \in Nat
    BY RolloutAssumption
  <2>2. \A n \in Nat : n \div 100 \in Nat
    OBVIOUS
  <2> QED BY <2>1, <2>2, RolloutAssumption DEF Scaled
<1> QED BY <1>1 DEF Unavail

(* kube.ComputeRollout keeps what its comment promises: it never asks for  *)
(* more than desired replicas, and updating as many replicas as it says    *)
(* leaves the minimum of desired - unavailable replicas ready.             *)
THEOREM ComputeRolloutKeepsMinimum ==
    ASSUME NEW d \in Nat, NEW r \in Nat
    PROVE  /\ ComputeRollout(d, r) \in 0..d
           /\ ComputeRollout(d, r) > 0 =>
                  r - ComputeRollout(d, r) >= d - Unavail(d)
<1>1. Unavail(d) \in Nat /\ Unavail(d) >= 1
  BY UnavailType
<1> QED BY <1>1 DEF ComputeRollout

-----------------------------------------------------------------------------
(***************************************************************************)
(* The inductive invariant.                                                *)
(***************************************************************************)
Inv == TypeOK /\ InformerSound

(* The first state has a synced informer and nothing collected.            *)
LEMMA InitInv == Init => Inv
<1> SUFFICES ASSUME Init PROVE Inv
  OBVIOUS
<1>1. MaxReplicas \in Nat /\ MaxDisturbances \in Nat
  BY ConstantsAssumption
<1>2. TypeOK
  BY <1>1, ConstantsAssumption
     DEF Init, TypeOK, FullNode, View, PodState, PodStatus, Ordinals
<1>3. InformerSound
  BY DEF Init, InformerSound, View
<1> QED BY <1>2, <1>3 DEF Inv

(* What the informer shows of the pods has the right type.                 *)
LEMMA ViewType ==
    ASSUME state \in [Ordinals -> PodState]
    PROVE  View \in [Ordinals -> {"absent", "live", "terminating"}]
BY DEF View, PodState

(* Deleting pods only makes some of them terminate.                        *)
LEMMA DeletedType ==
    ASSUME state \in [Ordinals -> PodState], NEW ords
    PROVE  /\ Deleted(ords) \in [Ordinals -> PodState]
           /\ \A o \in Ordinals :
                 /\ Deleted(ords)[o] = "absent" <=> state[o] = "absent"
                 /\ state[o] = "terminating" => Deleted(ords)[o] = "terminating"
                 /\ Deleted(ords)[o] # state[o] =>
                        o \in ords /\ Deleted(ords)[o] = "terminating"
BY DEF Deleted, PodState

(* Steps of the controller keep the types.                                 *)
LEMMA ControllerType ==
    ASSUME TypeOK, Collect \/ PodControl \/ OperatorRestarts
    PROVE  TypeOK'
<1> USE DEF TypeOK
<1>1. CASE Collect
  <2>1. SyncInfoStatus(polled) \in [Ordinals -> PodStatus]
    BY DEF SyncInfoStatus, PodStatus
  <2>2. syncInfo' \in [Ordinals -> PodStatus]
    BY <1>1, <2>1 DEF Collect
  <2> QED BY <1>1, <2>2 DEF Collect, clusterVars, informerVars
<1>2. ASSUME ReconcileEnds, UNCHANGED spec
      PROVE  /\ pc' \in {"idle", "collected"} /\ crd' \in FullNode
             /\ syncInfo' \in [Ordinals -> PodStatus]
             /\ upAtCollect' \subseteq Ordinals
             /\ spec' \in FullNode
  BY <1>2 DEF ReconcileEnds, PodStatus
<1>3. CASE PodControlScale
  <2>1. PICK creates \in SUBSET Creates, deletes \in SUBSET Deletes :
          LET made == {o \in creates : state[o] = "absent"}
          IN  /\ state' = [o \in Ordinals |-> IF o \in made THEN "starting"
                                              ELSE Deleted(deletes)[o]]
              /\ template' = [o \in Ordinals |-> IF o \in made
                                                 THEN crd.template
                                                 ELSE template[o]]
              /\ fresh' = fresh \cup made
    BY <1>3 DEF PodControlScale
  <2>2. state' \in [Ordinals -> PodState]
    BY <2>1, DeletedType DEF PodState
  <2>3. template' \in [Ordinals -> Template]
    BY <2>1 DEF FullNode
  <2>4. fresh' \subseteq Ordinals
    BY <2>1 DEF Creates, Wanted
  <2> QED BY <1>2, <1>3, <2>2, <2>3, <2>4 DEF PodControlScale, Return
<1>4. CASE PodControlUpdate
  <2>1. PICK ords : /\ state' = Deleted(ords) /\ UNCHANGED template
                    /\ UNCHANGED fresh /\ Return
    BY <1>4 DEF PodControlUpdate, DeleteForUpdate
  <2>2. state' \in [Ordinals -> PodState]
    BY <2>1, DeletedType
  <2> QED BY <1>2, <2>1, <2>2 DEF Return
<1>5. ASSUME state' \in [Ordinals -> PodState], template' \in [Ordinals -> Template],
             Restarted, disturbances' \in 0..MaxDisturbances
      PROVE  TypeOK'
  <2>1. View' \in [Ordinals -> {"absent", "live", "terminating"}]
    BY <1>5 DEF View, PodState
  <2>2. polled' \in [Ordinals -> PodStatus]
    BY <1>5 DEF Restarted, PodStatus
  <2> QED BY <1>2, <1>5, <2>1, <2>2 DEF Restarted
<1>6. CASE PodControlPanics
  <2>1. PICK ords : /\ state' = Deleted(ords) /\ UNCHANGED template
                    /\ Restarted /\ UNCHANGED disturbances
    BY <1>6 DEF PodControlPanics, DeleteForUpdate
  <2>2. state' \in [Ordinals -> PodState]
    BY <2>1, DeletedType
  <2> QED BY <1>5, <2>1, <2>2
<1>7. CASE OperatorRestarts
  BY <1>5, <1>7, ConstantsAssumption
     DEF OperatorRestarts, Disturbance, clusterVars
<1> QED BY <1>1, <1>3, <1>4, <1>6, <1>7 DEF PodControl

(* Deleting pods that lag behind keeps the types, and only makes some pods *)
(* terminate.                                                              *)
LEMMA DriftType ==
    ASSUME TypeOK, MitigateHeightDrift
    PROVE  /\ TypeOK'
           /\ \E ords : state' = Deleted(ords)
           /\ UNCHANGED <<spec, template, seenState, seenTemplate, fresh, polled,
                          pc, crd, syncInfo, upAtCollect, apiHealthy>>
<1> USE DEF TypeOK
<1>1. PICK ords : state' = Deleted(ords)
  BY DEF MitigateHeightDrift
<1>2. state' \in [Ordinals -> PodState]
  BY <1>1, DeletedType
<1>3. UNCHANGED <<spec, template, seenState, seenTemplate, fresh, polled,
                  pc, crd, syncInfo, upAtCollect, apiHealthy>>
  BY DEF MitigateHeightDrift, informerVars, controllerVars
<1>4. disturbances' \in 0..MaxDisturbances
  BY ConstantsAssumption DEF MitigateHeightDrift
<1> QED BY <1>1, <1>2, <1>3, <1>4

(* Steps of the world around it keep the types.                            *)
LEMMA EnvironmentType ==
    ASSUME TypeOK, Environment
    PROVE  TypeOK'
<1> USE DEF TypeOK
<1> USE DEF clusterVars, informerVars, controllerVars
<1>1. CASE OperatorRestarts
  BY <1>1, ControllerType
<1>2. CASE EditSpec
  <2>1. spec' \in FullNode
    BY <1>2 DEF EditSpec, FullNode
  <2> QED BY <1>2, <2>1, ConstantsAssumption DEF EditSpec, Disturbance
<1>3. CASE InformerSync
  <2>1. polled' \in [Ordinals -> PodStatus]
    BY <1>3 DEF InformerSync, PodStatus
  <2> QED BY <1>3, <2>1, ViewType DEF InformerSync
<1>4. CASE Poll
  BY <1>4 DEF Poll, Polls
<1>5. CASE APIServerHeals
  BY <1>5 DEF APIServerHeals
<1>6. ASSUME NEW o \in Ordinals, PodFails(o)
      PROVE  TypeOK'
  <2>1. state' \in [Ordinals -> PodState]
    BY <1>6 DEF PodFails, PodState
  <2> QED BY <1>6, <2>1, ConstantsAssumption DEF PodFails, Disturbance
<1>7. ASSUME NEW o \in Ordinals, PodProgresses(o)
      PROVE  TypeOK'
  BY <1>7 DEF PodProgresses, PodState
<1>8. ASSUME NEW o \in Ordinals, PodGone(o)
      PROVE  TypeOK'
  BY <1>8 DEF PodGone, PodState
<1> QED BY <1>1, <1>2, <1>3, <1>4, <1>5, <1>6, <1>7, <1>8 DEF Environment

(* A pod is created only for an ordinal the informer shows without one, so *)
(* what it shows never has a successor.                                    *)
LEMMA InformerSoundKept ==
    ASSUME TypeOK, InformerSound, [Next]_vars
    PROVE  InformerSound'
<1> USE DEF TypeOK
<1>1. ASSUME UNCHANGED <<seenState, seenTemplate, fresh, template>>,
             \A o \in Ordinals : /\ state'[o] # "absent" => state[o] # "absent"
                                 /\ state[o] = "terminating" =>
                                       state'[o] \in {"absent", "terminating"}
                                 /\ state[o] = "absent" => state'[o] = "absent"
      PROVE  InformerSound'
  BY <1>1 DEF InformerSound
<1>2. ASSUME seenState' = View', seenTemplate' = template', fresh' = {}
      PROVE  InformerSound'
  BY <1>2 DEF InformerSound, View
<1>3. CASE PodControlScale
  <2>1. PICK creates \in SUBSET Creates, deletes \in SUBSET Deletes :
          LET made == {o \in creates : state[o] = "absent"}
          IN  /\ state' = [o \in Ordinals |-> IF o \in made THEN "starting"
                                              ELSE Deleted(deletes)[o]]
              /\ template' = [o \in Ordinals |-> IF o \in made
                                                 THEN crd.template
                                                 ELSE template[o]]
              /\ fresh' = fresh \cup made
    BY <1>3 DEF PodControlScale
  <2>2. UNCHANGED <<seenState, seenTemplate>>
    BY <1>3 DEF PodControlScale, Return
  <2>3. SUFFICES ASSUME NEW o \in Ordinals, seenState[o] # "absent"
                 PROVE  /\ o \notin fresh'
                        /\ state'[o] # "absent" => template'[o] = seenTemplate[o]
                        /\ seenState[o] = "terminating" =>
                              state'[o] \in {"absent", "terminating"}
    BY <2>2 DEF InformerSound
  <2>4. o \notin creates
    BY <2>1, <2>3 DEF Creates
  <2>5. state'[o] = Deleted(deletes)[o] /\ template'[o] = template[o]
        /\ (o \in fresh' <=> o \in fresh)
    BY <2>1, <2>4
  <2> QED BY <2>3, <2>5, DeletedType DEF InformerSound
<1>4. CASE PodControlUpdate
  <2>1. PICK ords : /\ state' = Deleted(ords) /\ UNCHANGED template
                    /\ UNCHANGED fresh /\ Return
    BY <1>4 DEF PodControlUpdate, DeleteForUpdate
  <2> QED BY <1>1, <2>1, DeletedType DEF Return
<1>5. CASE PodControlPanics
  BY <1>2, <1>5 DEF PodControlPanics, DeleteForUpdate, Restarted
<1>6. CASE OperatorRestarts
  BY <1>2, <1>6 DEF OperatorRestarts, Restarted, clusterVars
<1>7. CASE Collect
  BY <1>1, <1>7 DEF Collect, clusterVars, informerVars
<1>8. CASE EditSpec \/ Poll \/ APIServerHeals \/ UNCHANGED vars
  BY <1>1, <1>8
     DEF EditSpec, Poll, APIServerHeals, vars, clusterVars, informerVars
<1>9. CASE InformerSync
  <2>1. View' = View
    BY <1>9 DEF InformerSync, View, clusterVars
  <2> QED BY <1>2, <1>9, <2>1 DEF InformerSync, clusterVars
<1>10. ASSUME NEW o \in Ordinals, PodFails(o) \/ PodProgresses(o) \/ PodGone(o)
       PROVE  InformerSound'
  BY <1>1, <1>10 DEF PodFails, PodProgresses, PodGone, informerVars
<1>11. CASE MitigateHeightDrift
  <2>1. PICK ords : state' = Deleted(ords)
    BY <1>11, DriftType
  <2>2. UNCHANGED <<seenState, seenTemplate, fresh, template>>
    BY <1>11, DriftType
  <2> QED BY <1>1, <2>1, <2>2, DeletedType
<1> QED BY <1>3, <1>4, <1>5, <1>6, <1>7, <1>8, <1>9, <1>10, <1>11
        DEF Next, PodControl, Environment

(* A stuttering step keeps the types.                                      *)
LEMMA TypeKept ==
    ASSUME TypeOK, [Next]_vars
    PROVE  TypeOK'
<1>1. CASE Next
  BY <1>1, ControllerType, DriftType, EnvironmentType DEF Next
<1>2. CASE UNCHANGED vars
  BY <1>2 DEF vars, TypeOK, clusterVars, informerVars, controllerVars
<1> QED BY <1>1, <1>2

(* The model of the rollout is well typed and its informer is always a     *)
(* past state of the pods without successors.                              *)
THEOREM RolloutInvariant == Spec => [](TypeOK /\ InformerSound)
<1>1. Init => Inv
  BY InitInv
<1>2. Inv /\ [Next]_vars => Inv'
  BY TypeKept, InformerSoundKept DEF Inv
<1> QED BY <1>1, <1>2, PTL DEF Spec, Inv

(* InformerSound for every instance: however far the pod informer lags, it *)
(* never shows PodControl a pod that has a successor.                      *)
THEOREM InformerIsSound == Spec => []InformerSound
BY RolloutInvariant, PTL

-----------------------------------------------------------------------------
(***************************************************************************)
(* What a step that deletes wanted pods looks like.                        *)
(***************************************************************************)

(* Sets of ordinals are finite.                                            *)
LEMMA OrdinalsFinite ==
    ASSUME NEW S \in SUBSET Ordinals
    PROVE  IsFiniteSet(S) /\ Cardinality(S) \in Nat
<1>1. IsFiniteSet(Ordinals)
  BY FS_Interval, ConstantsAssumption DEF Ordinals
<1>2. IsFiniteSet(S)
  BY <1>1, FS_Subset
<1> QED BY <1>2, FS_CardinalityType

(* Counting what is left of a finite set.                                  *)
LEMMA RestCardinality ==
    ASSUME NEW S, NEW T, T \subseteq S, IsFiniteSet(S)
    PROVE  Cardinality(S \ T) = Cardinality(S) - Cardinality(T)
<1>1. S \cap T = T
  OBVIOUS
<1>2. Cardinality(S \ T) = Cardinality(S) - Cardinality(S \cap T)
  BY FS_Difference
<1> QED BY <1>1, <1>2

(* Wanted pods that run are only deleted by a round of updates.            *)
LEMMA OnlyRoundsKill ==
    ASSUME TypeOK, [Next]_vars, Killed \cap Wanted(crd) # {}
    PROVE  \E ords \in SUBSET (Upgrades \cup OtherUpdates) :
              /\ Killed \subseteq ords
              /\ Cardinality(ords \cap OtherUpdates) <= Batch
<1> USE DEF TypeOK
<1>1. ASSUME NEW ords, state' = Deleted(ords)
      PROVE  Killed \subseteq ords
  BY <1>1 DEF Killed, Deleted
<1>2. CASE PodControlUpdate
  <2>1. PICK ords \in SUBSET (Upgrades \cup OtherUpdates) :
           /\ FullRound(ords) \/ PartRound(ords)
           /\ DeleteForUpdate(ords)
    BY <1>2 DEF PodControlUpdate
  <2>2. Cardinality(ords \cap OtherUpdates) \in Nat
    BY OrdinalsFinite DEF OtherUpdates, Live
  <2>3. Cardinality(ords \cap OtherUpdates) <= Batch
    BY <2>1, <2>2 DEF FullRound, PartRound
  <2> QED BY <1>1, <2>1, <2>3 DEF DeleteForUpdate
<1>3. CASE PodControlPanics
  BY <1>1, <1>3 DEF PodControlPanics, PartRound, DeleteForUpdate
<1>4. CASE PodControlScale
  <2>1. PICK creates \in SUBSET Creates, deletes \in SUBSET Deletes :
          state' = [o \in Ordinals |->
                       IF o \in {q \in creates : state[q] = "absent"}
                       THEN "starting" ELSE Deleted(deletes)[o]]
    BY <1>4 DEF PodControlScale
  <2>2. Killed \subseteq deletes
    BY <2>1 DEF Killed, Deleted
  <2>3. Killed \cap Wanted(crd) = {}
    BY <2>2 DEF Deletes
  <2> QED BY <2>3
<1>5. ASSUME \A o \in Ordinals : state'[o] = "terminating" =>
                                     state[o] = "terminating"
      PROVE  FALSE
  BY <1>5 DEF Killed
<1>6. CASE \/ Collect \/ OperatorRestarts \/ EditSpec \/ InformerSync \/ Poll
           \/ APIServerHeals \/ UNCHANGED vars
  BY <1>5, <1>6 DEF Collect, OperatorRestarts, EditSpec, InformerSync, Poll,
                    APIServerHeals, vars, clusterVars
<1>7. ASSUME NEW o \in Ordinals, PodFails(o) \/ PodProgresses(o) \/ PodGone(o)
      PROVE  FALSE
  BY <1>5, <1>7 DEF PodFails, PodProgresses, PodGone
<1>8. CASE MitigateHeightDrift
  <2>1. pc' = pc
    BY <1>8, DriftType
  <2> QED BY <2>1 DEF Killed
<1> QED BY <1>2, <1>3, <1>4, <1>6, <1>7, <1>8 DEF Next, PodControl, Environment

-----------------------------------------------------------------------------
(***************************************************************************)
(* ReplacementKept                                                         *)
(***************************************************************************)

(* A step never deletes a wanted pod that already runs what is wanted: the *)
(* pod a stale list shows has the template of the pod that exists.         *)
LEMMA ReplacementKeptByStep ==
    ASSUME Inv, [Next]_vars
    PROVE  ReplacementKeptStep
<1> SUFFICES ASSUME NEW o \in Killed \cap Wanted(crd)
             PROVE  template[o] # crd.template
  BY DEF ReplacementKeptStep
<1>1. PICK ords \in SUBSET (Upgrades \cup OtherUpdates) : Killed \subseteq ords
  BY OnlyRoundsKill DEF Inv
<1>2. o \in Updates
  BY <1>1 DEF Upgrades, OtherUpdates
<1>3. seenState[o] # "absent" /\ seenTemplate[o] # crd.template
  BY <1>2 DEF Updates
<1>4. o \in Ordinals /\ state[o] # "absent"
  BY DEF Killed
<1> QED BY <1>3, <1>4 DEF Inv, InformerSound

(* However stale the list, an update never deletes the replacement.        *)
THEOREM ReplacementIsKept == Spec => ReplacementKept
<1>1. Spec => []Inv
  BY RolloutInvariant, PTL DEF Inv
<1>2. Inv /\ [Next]_vars => [ReplacementKeptStep]_vars
  BY ReplacementKeptByStep
<1> QED BY <1>1, <1>2, PTL DEF Spec, ReplacementKept

-----------------------------------------------------------------------------
(***************************************************************************)
(* DisruptionBound                                                         *)
(***************************************************************************)

(* A non-empty batch fits into the budget of ComputeRollout.               *)
LEMMA BatchInBudget ==
    ASSUME TypeOK, NEW n \in Nat, n > 0, n <= Batch
    PROVE  /\ Ready \in Nat
           /\ n <= ComputeRollout(crd.replicas, Ready)
<1>1. Cardinality(Upgrades) \in Nat /\ Cardinality(OtherUpdates) \in Nat
  BY OrdinalsFinite DEF Upgrades, OtherUpdates, Live
<1>2. Ready \in Nat
  BY OrdinalsFinite DEF Ready, InSync, RPCReachable, Live
<1>3. ComputeRollout(crd.replicas, Ready) \in Nat
  <2>1. crd.replicas \in Nat
    BY DEF TypeOK, FullNode
  <2>2. ComputeRollout(crd.replicas, Ready) \in 0..crd.replicas
    BY <1>2, <2>1, ComputeRolloutKeepsMinimum
  <2> QED BY <2>1, <2>2
<1> QED BY <1>1, <1>2, <1>3 DEF Batch

(* A round leaves the minimum of the pods that the status calls in sync    *)
(* alone: pods in sync are reachable, so they are not among Upgrades and   *)
(* only the batch takes them.  Of those left, the ones the status is right *)
(* about were in sync when it was collected.                               *)
LEMMA DisruptionBoundByStep ==
    ASSUME TypeOK, [Next]_vars
    PROVE  DisruptionBoundStep
<1> DEFINE down == Killed \cap InSync
           kept == upAtCollect \ Killed
           wrong == InSync \ upAtCollect
<1> SUFFICES ASSUME Killed \cap Wanted(crd) \cap InSync # {}
             PROVE  Cardinality(kept) + Cardinality(wrong)
                        >= crd.replicas - Unavail(crd.replicas)
  BY DEF DisruptionBoundStep
<1>1. PICK ords \in SUBSET (Upgrades \cup OtherUpdates) :
         /\ Killed \subseteq ords
         /\ Cardinality(ords \cap OtherUpdates) <= Batch
  BY OnlyRoundsKill
<1>2. down \subseteq ords \cap OtherUpdates /\ down # {}
  BY <1>1 DEF Upgrades, RPCReachable, InSync
<1>3. down \subseteq InSync /\ InSync \subseteq Ordinals
      /\ upAtCollect \subseteq Ordinals
  BY DEF InSync, Live, TypeOK
<1>4. /\ IsFiniteSet(InSync) /\ IsFiniteSet(down)
      /\ IsFiniteSet(kept) /\ IsFiniteSet(wrong)
      /\ IsFiniteSet(ords \cap OtherUpdates)
      /\ Cardinality(InSync) \in Nat /\ Cardinality(down) \in Nat
      /\ Cardinality(kept) \in Nat /\ Cardinality(wrong) \in Nat
      /\ Cardinality(ords \cap OtherUpdates) \in Nat
  BY <1>3, OrdinalsFinite DEF OtherUpdates, Live
<1>5. Cardinality(down) > 0
  BY <1>2, <1>4, FS_EmptySet
<1>6. Cardinality(down) <= Cardinality(ords \cap OtherUpdates)
  BY <1>2, <1>4, FS_Subset
<1>7. /\ Ready \in Nat
      /\ Cardinality(ords \cap OtherUpdates)
             <= ComputeRollout(crd.replicas, Ready)
  BY <1>1, <1>4, <1>5, <1>6, BatchInBudget
<1>8. Ready = Cardinality(InSync)
  BY <1>2 DEF Ready
<1>9. crd.replicas \in Nat /\ Unavail(crd.replicas) \in Nat
  <2>1. crd.replicas \in Nat
    BY DEF TypeOK, FullNode
  <2> QED BY <2>1, UnavailType
<1>10. /\ ComputeRollout(crd.replicas, Ready) \in Nat
       /\ ComputeRollout(crd.replicas, Ready) > 0 =>
             Ready - ComputeRollout(crd.replicas, Ready)
                >= crd.replicas - Unavail(crd.replicas)
  <2>1. /\ ComputeRollout(crd.replicas, Ready) \in 0..crd.replicas
        /\ ComputeRollout(crd.replicas, Ready) > 0 =>
             Ready - ComputeRollout(crd.replicas, Ready)
                >= crd.replicas - Unavail(crd.replicas)
    BY <1>7, <1>9, ComputeRolloutKeepsMinimum
  <2> QED BY <1>9, <2>1
<1>11. Cardinality(InSync \ down) = Cardinality(InSync) - Cardinality(down)
  BY <1>3, <1>4, RestCardinality
<1>12. Cardinality(InSync \ down) <= Cardinality(kept) + Cardinality(wrong)
  <2>1. InSync \ down \in SUBSET (kept \cup wrong)
    OBVIOUS
  <2>2. /\ IsFiniteSet(kept \cup wrong)
        /\ Cardinality(kept \cup wrong) = Cardinality(kept) + Cardinality(wrong)
                                            - Cardinality(kept \cap wrong)
    <3> HIDE DEF kept, wrong
    <3> QED BY <1>4, FS_Union
  <2>3. kept \cap wrong = {}
    OBVIOUS
  <2>4. Cardinality(kept \cap wrong) = 0
    BY <2>3, FS_EmptySet
  <2>5. Cardinality(InSync \ down) <= Cardinality(kept \cup wrong)
    BY <2>1, <2>2, FS_Subset
  <2> HIDE DEF down, kept, wrong
  <2> QED BY <1>4, <2>2, <2>4, <2>5
<1> HIDE DEF down, kept, wrong
<1> QED BY <1>4, <1>5, <1>6, <1>7, <1>8, <1>9, <1>10, <1>11, <1>12

(* DisruptionBound for every number of replicas and every maxUnavailable,  *)
(* however far the informer and the status cache lag and whatever fails.   *)
THEOREM DisruptionIsBounded == Spec => DisruptionBound
<1>1. Spec => []TypeOK
  BY RolloutInvariant, PTL
<1>2. TypeOK /\ [Next]_vars => [DisruptionBoundStep]_vars
  BY DisruptionBoundByStep
<1> QED BY <1>1, <1>2, PTL DEF Spec, DisruptionBound

=============================================================================
