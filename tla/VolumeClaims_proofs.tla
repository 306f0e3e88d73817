------------------------- MODULE VolumeClaims_proofs ------------------------
(***************************************************************************)
(* Safety of the claims for any number of instances, any sizes and any     *)
(* number of disturbances.                                                 *)
(*                                                                         *)
(* DataKept needs the spec that Reconcile has read to be one that the      *)
(* history knows of: what it releases is releasable until the claims are   *)
(* dealt with.  SizeBounded needs the bound on everything a size is        *)
(* computed from: what was requested and read of it, the capacities, and   *)
(* what the informer shows of both.                                        *)
(***************************************************************************)
EXTENDS VolumeClaims, TLAPS

Claims == [phase: {"none", "pending", "bound"}, deleting: BOOLEAN,
           size: Nat, cap: Nat, src: Nat]

(* A size, or none.                                                        *)
Sizable == Nat \cup {Absent}

CRDs == [spec: [wanted: SUBSET Ordinals, policy: {"Retain", "Delete"}],
         requested: [Ordinals -> Sizable]]

Collections == [on: BOOLEAN, caps: [Ordinals -> Sizable],
                status: [Ordinals -> Sizable]]

(* Every variable that a size or a deletion depends on keeps its type.     *)
Types ==
    /\ spec \in [wanted: SUBSET Ordinals, policy: {"Retain", "Delete"}]
    /\ requested \in [Ordinals -> Sizable]
    /\ pvc \in [Ordinals -> Claims]
    /\ seenPVC \in [Ordinals -> Claims]
    /\ snapshot \in Nat
    /\ crd \in CRDs
    /\ heal \in Collections

Bound == Max({Template, RestoreSize, Padded(MaxSize)})

Fits(c) == c.size <= Bound /\ c.cap <= Bound

(* Everything a size is computed from is within the bound.                 *)
Sizes ==
    /\ \A i \in Ordinals : requested[i] <= MaxSize /\ crd.requested[i] <= MaxSize
    /\ \A i \in Ordinals : Fits(pvc[i]) /\ Fits(seenPVC[i])

(* What the current spec releases, and what the one that was read does, is *)
(* releasable.                                                             *)
Releases ==
    /\ ReleasedBy(spec) \subseteq releasable
    /\ pc = "pvcs" => ReleasedBy(crd.spec) \subseteq releasable

-----------------------------------------------------------------------------
(***************************************************************************)
(* Sizes.                                                                  *)
(***************************************************************************)

(* What the assumption on the constants says of the ones used here.        *)
LEMMA ConstantTypes ==
    /\ Template \in Nat /\ RestoreSize \in Nat /\ Increase \in Nat /\ MaxSize \in Nat
    /\ Wants \subseteq SUBSET Ordinals
    /\ Policies \subseteq {"Retain", "Delete"}
    /\ N \in Nat /\ Ordinals \subseteq Int
BY ConstantsAssumption DEF Ordinals

(* The larger of three numbers is one of them and none is larger.          *)
LEMMA MaxOfThree ==
    ASSUME NEW a \in Nat, NEW b \in Nat, NEW c \in Nat
    PROVE  /\ Max({a, b, c}) \in Nat
           /\ a <= Max({a, b, c}) /\ b <= Max({a, b, c}) /\ c <= Max({a, b, c})
<1> DEFINE S == {a, b, c}
<1>1. \E x \in S : \A y \in S : x >= y
  <2>1. CASE a >= b /\ a >= c
    BY <2>1
  <2>2. CASE b >= a /\ b >= c
    BY <2>2
  <2>3. CASE c >= a /\ c >= b
    BY <2>3
  <2> QED BY <2>1, <2>2, <2>3
<1>2. Max(S) \in S /\ \A y \in S : Max(S) >= y
  BY <1>1 DEF Max
<1> QED BY <1>2

(* The smaller of two numbers is one of them and none is smaller.          *)
LEMMA MinOfTwo ==
    ASSUME NEW a \in Nat, NEW b \in Nat
    PROVE  Min({a, b}) \in Nat /\ Min({a, b}) <= a /\ Min({a, b}) <= b
<1> DEFINE S == {a, b}
<1>1. \E x \in S : \A y \in S : x =< y
  <2>1. CASE a <= b
    BY <2>1
  <2>2. CASE b <= a
    BY <2>2
  <2> QED BY <2>1, <2>2
<1>2. Min(S) \in S /\ \A y \in S : Min(S) =< y
  BY <1>1 DEF Min
<1> QED BY <1>2

(* Padding is monotone: a larger request never gives a smaller claim.      *)
LEMMA PaddedMonotone ==
    ASSUME NEW a \in Nat, NEW b \in Nat, a <= b
    PROVE  Padded(a) \in Nat /\ Padded(a) <= Padded(b)
BY DEF Padded

(* The bound is a number, and no smaller than what it is made of.          *)
LEMMA BoundIsUpper ==
    /\ Bound \in Nat
    /\ Template <= Bound /\ RestoreSize <= Bound /\ Padded(MaxSize) <= Bound
<1>1. Padded(MaxSize) \in Nat
  BY ConstantTypes, PaddedMonotone
<1> QED BY <1>1, ConstantTypes, MaxOfThree DEF Bound

(* A claim that is built from what was read fits.                          *)
LEMMA BuildSizeFits ==
    ASSUME Types, Sizes, NEW i \in Ordinals
    PROVE  BuildSize(i) \in Nat /\ BuildSize(i) <= Bound
<1> DEFINE asked == crd.requested[i]
           existing == ExistingSize(seenPVC[i])
<1>1. asked \in Sizable /\ asked <= MaxSize
  BY DEF Types, Sizes, CRDs
<1>2. existing \in Nat /\ existing <= Bound
  BY BoundIsUpper DEF Types, Sizes, Claims, Fits, ExistingSize
<1>3. asked # Absent => Padded(asked) \in Nat /\ Padded(asked) <= Bound
  <2> SUFFICES ASSUME asked # Absent PROVE Padded(asked) \in Nat /\ Padded(asked) <= Bound
    OBVIOUS
  <2>1. Padded(asked) \in Nat /\ Padded(asked) <= Padded(MaxSize)
    BY <1>1, ConstantTypes, PaddedMonotone DEF Sizable
  <2>2. Padded(MaxSize) \in Nat
    BY ConstantTypes, PaddedMonotone
  <2> QED BY <2>1, <2>2, BoundIsUpper
<1>4. PVCResources(asked, existing) \in Nat /\ PVCResources(asked, existing) <= Bound
  BY <1>2, <1>3, BoundIsUpper, ConstantTypes DEF PVCResources, MaxOf
<1> HIDE DEF asked, existing
<1>5. BuildSize(i) \in {Template, RestoreSize, PVCResources(asked, existing)}
  BY DEF BuildSize, asked, existing
<1> QED BY <1>4, <1>5, BoundIsUpper, ConstantTypes

(* Auto scaling never asks for more than the maximum.                      *)
LEMMA NextSizeCapped ==
    ASSUME NEW cap \in Sizable, NEW asked \in Sizable
    PROVE  NextSize(cap, asked) \in Sizable /\ NextSize(cap, asked) <= MaxSize
<1>1. CASE NextSize(cap, asked) = Absent
  BY <1>1, ConstantTypes DEF Absent, Sizable
<1>2. CASE NextSize(cap, asked) # Absent
  <2>1. cap \in Nat /\ NextSize(cap, asked) = Min({CalcNextCapacity(cap), MaxSize})
    BY <1>2 DEF NextSize, Sizable
  <2>2. cap * Increase \in Nat
    BY <2>1, ConstantTypes
  <2>3. (cap * Increase + 50) \div 100 \in Nat
    BY <2>2
  <2>4. CalcNextCapacity(cap) \in Nat
    BY <2>1, <2>3, ConstantTypes DEF CalcNextCapacity
  <2> QED BY <2>1, <2>4, MinOfTwo, ConstantTypes DEF Sizable
<1> QED BY <1>1, <1>2

-----------------------------------------------------------------------------
(***************************************************************************)
(* The inductive invariant.                                                *)
(***************************************************************************)
Inv == Types /\ Sizes /\ Releases

(* No entry is below the maximum.                                         *)
LEMMA AbsentIsSizable == Absent \in Sizable /\ Absent <= MaxSize
BY ConstantTypes DEF Absent, Sizable

(* What is kept between two passes has its type and asks for nothing.      *)
LEMMA NothingKept ==
    /\ NoPVC \in Claims /\ Fits(NoPVC)
    /\ NoCollection \in Collections
    /\ NoCRD \in CRDs
    /\ NoRequests \in [Ordinals -> Sizable]
    /\ NoCRD.requested = NoRequests
    /\ \A i \in Ordinals : NoRequests[i] <= MaxSize
<1>1. NoPVC \in Claims /\ Fits(NoPVC)
  BY BoundIsUpper DEF NoPVC, Claims, Fits
<1>2. NoRequests \in [Ordinals -> Sizable] /\ \A i \in Ordinals : NoRequests[i] <= MaxSize
  BY AbsentIsSizable DEF NoRequests
<1>3. NoCollection \in Collections
  BY <1>2 DEF NoCollection, Collections
<1>4. NoCRD \in CRDs /\ NoCRD.requested = NoRequests
  BY <1>2 DEF NoCRD, CRDs
<1> QED BY <1>1, <1>2, <1>3, <1>4

(* The invariant holds at first.                                           *)
LEMMA InvInit == Init => Inv
<1> SUFFICES ASSUME Init PROVE Inv
  OBVIOUS
<1>1. Types
  BY NothingKept, ConstantTypes DEF Init, Types
<1>2. Sizes
  BY NothingKept, ConstantTypes DEF Init, Sizes
<1>3. Releases
  BY DEF Init, Releases
<1> QED BY <1>1, <1>2, <1>3 DEF Inv

(* A step that leaves the claims alone, the informer's too, and writes     *)
(* requests that are capped keeps types and sizes.                         *)
LEMMA ClaimsUntouched ==
    ASSUME Inv, pvc' = pvc, seenPVC' = seenPVC,
           spec' \in [wanted: SUBSET Ordinals, policy: {"Retain", "Delete"}],
           snapshot' \in Nat,
           requested' \in [Ordinals -> Sizable],
           \A i \in Ordinals : requested'[i] <= MaxSize,
           crd' \in CRDs,
           \A i \in Ordinals : crd'.requested[i] <= MaxSize,
           heal' \in Collections
    PROVE  Types' /\ Sizes'
<1>1. Types'
  BY DEF Inv, Types
<1>2. Sizes'
  BY DEF Inv, Sizes, Fits
<1> QED BY <1>1, <1>2

(* A step that gives the claims types and sizes within the bound.          *)
LEMMA ClaimsTouched ==
    ASSUME Inv, seenPVC' = seenPVC,
           UNCHANGED <<spec, snapshot, requested, crd, heal>>,
           pvc' \in [Ordinals -> Claims],
           \A i \in Ordinals : Fits(pvc'[i])
    PROVE  Types' /\ Sizes'
<1>1. Types'
  BY DEF Inv, Types
<1>2. Sizes'
  BY DEF Inv, Sizes, Fits
<1> QED BY <1>1, <1>2

(* A new claim of a size that fits has its type, fits and is not deleted.  *)
LEMMA NewPVCFits ==
    ASSUME NEW size \in Nat, size <= Bound, NEW src \in Nat
    PROVE  /\ NewPVC(size, src) \in Claims
           /\ Fits(NewPVC(size, src))
           /\ ~NewPVC(size, src).deleting
<1>1. NoPVC \in Claims /\ ~NoPVC.deleting /\ NoPVC.cap = 0
  BY DEF NoPVC, Claims
<1>2. /\ NewPVC(size, src) \in Claims
      /\ NewPVC(size, src).deleting = NoPVC.deleting
      /\ NewPVC(size, src).size = size
      /\ NewPVC(size, src).cap = NoPVC.cap
  BY <1>1 DEF NewPVC, Claims
<1> QED BY <1>1, <1>2, BoundIsUpper DEF Fits

(* Claims that are created have their type and fit.                        *)
LEMMA CreateFits ==
    ASSUME Inv, NEW S
    PROVE  /\ Create(S) \in [Ordinals -> Claims]
           /\ \A i \in Ordinals : Fits(Create(S)[i])
           /\ \A i \in Ordinals : Create(S)[i].deleting => pvc[i].deleting
<1>1. ASSUME NEW i \in Ordinals
      PROVE  /\ Create(S)[i] \in Claims
             /\ Fits(Create(S)[i])
             /\ Create(S)[i].deleting => pvc[i].deleting
  <2>1. CASE Create(S)[i] = pvc[i]
    BY <2>1 DEF Inv, Types, Sizes
  <2>2. CASE Create(S)[i] = NewPVC(BuildSize(i), FindDataSource)
    <3>1. FindDataSource \in Nat
      BY DEF Inv, Types, FindDataSource
    <3>2. BuildSize(i) \in Nat /\ BuildSize(i) <= Bound
      BY BuildSizeFits DEF Inv
    <3> QED BY <2>2, <3>1, <3>2, NewPVCFits
  <2> QED BY <2>1, <2>2 DEF Create
<1>2. Create(S) = [i \in Ordinals |-> Create(S)[i]]
  BY DEF Create
<1> QED BY <1>1, <1>2

(* Deleting only marks the claims of the set.                              *)
LEMMA DeleteMarks ==
    ASSUME NEW S, NEW claims \in [Ordinals -> Claims],
           \A i \in Ordinals : Fits(claims[i])
    PROVE  /\ Delete(S, claims) \in [Ordinals -> Claims]
           /\ \A i \in Ordinals : Fits(Delete(S, claims)[i])
           /\ \A i \in Ordinals \ S : Delete(S, claims)[i] = claims[i]
<1>1. ASSUME NEW i \in Ordinals
      PROVE  /\ [claims[i] EXCEPT !.deleting = TRUE] \in Claims
             /\ Fits([claims[i] EXCEPT !.deleting = TRUE])
  BY DEF Claims, Fits
<1>2. ASSUME NEW i \in Ordinals
      PROVE  Delete(S, claims)[i] \in Claims /\ Fits(Delete(S, claims)[i])
  BY <1>1 DEF Delete
<1>3. \A i \in Ordinals \ S : Delete(S, claims)[i] = claims[i]
  BY DEF Delete
<1>4. Delete(S, claims) = [i \in Ordinals |-> Delete(S, claims)[i]]
  BY DEF Delete
<1> QED BY <1>2, <1>3, <1>4

(* ReconcilePVCs keeps types and sizes, and deletes what is releasable.    *)
LEMMA ReconcilePVCsKeeps ==
    ASSUME Inv, ReconcilePVCs
    PROVE  Types' /\ Sizes' /\ DataKeptStep
<1>1. UNCHANGED <<seenPVC, spec, snapshot, requested, crd, heal>>
  BY DEF ReconcilePVCs, worldVars, informerVars
<1>2. CASE ScalePVCs
  <2>1. PICK created, deleted :
          /\ pvc' = Delete(deleted, Create(created))
          /\ deleted # {} => ~ShouldRetain /\ deleted \subseteq Deletable
    BY <1>2 DEF ScalePVCs, Done
  <2>2. pvc' \in [Ordinals -> Claims] /\ \A i \in Ordinals : Fits(pvc'[i])
    BY <2>1, CreateFits, DeleteMarks
  <2>3. Types' /\ Sizes'
    BY <1>1, <2>2, ClaimsTouched
  <2>4. ASSUME NEW i \in Ordinals, pvc'[i].deleting, ~pvc[i].deleting
        PROVE  i \in releasable
    <3>1. CASE i \in deleted
      <4>1. i \in Ordinals \ crd.spec.wanted /\ crd.spec.policy = "Delete"
        BY <2>1, <3>1 DEF Deletable, Deletes, ShouldRetain, Inv, Types, CRDs
      <4>2. i \in ReleasedBy(crd.spec)
        BY <4>1 DEF ReleasedBy
      <4> QED BY <4>2 DEF Inv, Releases, ReconcilePVCs
    <3>2. CASE i \notin deleted
      <4>1. pvc'[i] = Create(created)[i]
        BY <2>1, <3>2, CreateFits, DeleteMarks
      <4> QED BY <2>4, <4>1, CreateFits
    <3> QED BY <3>1, <3>2
  <2> QED BY <2>3, <2>4 DEF DataKeptStep
<1>3. CASE UpdatePVCs
  <2>1. PICK S : pvc' = Patched(S) \/ pvc' = pvc
    BY <1>3 DEF UpdatePVCs
  <2>2. ASSUME NEW i \in Ordinals
        PROVE  /\ Patched(S)[i] \in Claims /\ Fits(Patched(S)[i])
               /\ Patched(S)[i].deleting = pvc[i].deleting
    <3>1. pvc[i] \in Claims /\ Fits(pvc[i])
      BY DEF Inv, Types, Sizes
    <3>2. BuildSize(i) \in Nat /\ BuildSize(i) <= Bound
      BY BuildSizeFits DEF Inv
    <3>3. LET c == [pvc[i] EXCEPT !.size = BuildSize(i)]
          IN  c \in Claims /\ Fits(c) /\ c.deleting = pvc[i].deleting
      BY <3>1, <3>2 DEF Claims, Fits
    <3> QED BY <3>1, <3>3 DEF Patched
  <2>3. Patched(S) = [i \in Ordinals |-> Patched(S)[i]]
    BY DEF Patched
  <2>4. /\ pvc' \in [Ordinals -> Claims]
        /\ \A i \in Ordinals : Fits(pvc'[i]) /\ pvc'[i].deleting = pvc[i].deleting
    <3>1. CASE pvc' = pvc
      BY <3>1 DEF Inv, Types, Sizes
    <3>2. CASE pvc' = Patched(S)
      BY <2>2, <2>3, <3>2
    <3> QED BY <2>1, <3>1, <3>2
  <2>5. Types' /\ Sizes'
    BY <1>1, <2>4, ClaimsTouched
  <2> QED BY <2>4, <2>5 DEF DataKeptStep
<1> QED BY <1>2, <1>3 DEF ReconcilePVCs

(* The requests that SignalPVCResize writes are capped.                    *)
LEMMA SignalCapped ==
    ASSUME Inv, SignalPVCResize
    PROVE  /\ requested' \in [Ordinals -> Sizable]
           /\ \A i \in Ordinals : requested'[i] <= MaxSize
<1>1. CASE UNCHANGED requested
  BY <1>1 DEF Inv, Types, Sizes
<1>2. CASE requested' = [i \in Ordinals |->
              LET next == NextSize(heal.caps[i], heal.status[i])
              IN  IF next # Absent THEN next ELSE requested[i]]
  <2>1. ASSUME NEW i \in Ordinals
        PROVE  /\ NextSize(heal.caps[i], heal.status[i]) \in Sizable
               /\ NextSize(heal.caps[i], heal.status[i]) <= MaxSize
    <3>1. heal.caps[i] \in Sizable /\ heal.status[i] \in Sizable
      BY DEF Inv, Types, Collections
    <3> QED BY <3>1, NextSizeCapped
  <2>2. \A i \in Ordinals : requested[i] \in Sizable /\ requested[i] <= MaxSize
    BY DEF Inv, Types, Sizes
  <2> QED BY <1>2, <2>1, <2>2
<1> QED BY <1>1, <1>2 DEF SignalPVCResize

(* Every step keeps types and sizes, and deletes only what is releasable.  *)
LEMMA StepKeeps ==
    ASSUME Inv, Next
    PROVE  Types' /\ Sizes' /\ DataKeptStep
<1> USE ConstantTypes
<1>1. CASE ReconcilePods
  <2>1. crd' = [spec |-> spec, requested |-> requested]
        /\ UNCHANGED <<pvc, seenPVC, spec, snapshot, requested, heal>>
    BY <1>1 DEF ReconcilePods, worldVars, informerVars
  <2>2. crd' \in CRDs /\ \A i \in Ordinals : crd'.requested[i] <= MaxSize
    BY <2>1 DEF Inv, Types, Sizes, CRDs
  <2>3. Types' /\ Sizes'
    BY <2>1, <2>2, ClaimsUntouched DEF Inv, Types, Sizes
  <2> QED BY <2>1, <2>3 DEF DataKeptStep
<1>2. CASE ReconcilePVCs
  BY <1>2, ReconcilePVCsKeeps
<1>3. CASE UpdateStatus
  <2>1. crd' = NoCRD /\ UNCHANGED <<pvc, seenPVC, spec, snapshot, heal>>
    BY <1>3 DEF UpdateStatus, clusterVars, worldVars, informerVars
  <2>2. requested' \in [Ordinals -> Sizable] /\ \A i \in Ordinals : requested'[i] <= MaxSize
    BY <1>3, AbsentIsSizable DEF UpdateStatus, Inv, Types, Sizes
  <2>3. Types' /\ Sizes'
    BY <2>1, <2>2, NothingKept, ClaimsUntouched DEF Inv, Types, Sizes
  <2> QED BY <2>1, <2>3 DEF DataKeptStep
<1>4. CASE CollectDiskUsage
  <2>1. UNCHANGED <<pvc, seenPVC, spec, snapshot, requested, crd>>
    BY <1>4 DEF CollectDiskUsage, clusterVars, worldVars, informerVars, reconcileVars
  <2>2. heal' \in Collections
    <3>1. \A i \in Ordinals : seenPVC[i].cap \in Sizable /\ requested[i] \in Sizable
      BY DEF Inv, Types, Claims, Sizable
    <3>2. PICK found \in SUBSET Ordinals :
             heal' = [on |-> TRUE,
                      caps |-> [i \in Ordinals |->
                                  IF i \in found THEN seenPVC[i].cap ELSE Absent],
                      status |-> [i \in Ordinals |->
                                  IF i \in found THEN requested[i] ELSE Absent]]
      BY <1>4 DEF CollectDiskUsage
    <3> QED BY <3>1, <3>2, AbsentIsSizable DEF Collections
  <2>3. Types' /\ Sizes'
    BY <2>1, <2>2, ClaimsUntouched DEF Inv, Types, Sizes
  <2> QED BY <2>1, <2>3 DEF DataKeptStep
<1>5. CASE SignalPVCResize
  <2>1. heal' = NoCollection /\ UNCHANGED <<pvc, seenPVC, spec, snapshot, crd>>
    BY <1>5 DEF SignalPVCResize, clusterVars, worldVars, informerVars, reconcileVars
  <2>2. Types' /\ Sizes'
    BY <1>5, <2>1, SignalCapped, NothingKept, ClaimsUntouched DEF Inv, Types, Sizes
  <2> QED BY <2>1, <2>2 DEF DataKeptStep
<1>6. CASE OperatorRestarts
  <2>1. /\ crd' = NoCRD /\ heal' = NoCollection /\ seenPVC' = pvc
        /\ UNCHANGED <<pvc, spec, snapshot, requested>>
    BY <1>6 DEF OperatorRestarts, clusterVars
  <2>2. Types'
    BY <2>1, NothingKept DEF Inv, Types
  <2>3. Sizes'
    BY <2>1, NothingKept DEF Inv, Sizes, Fits
  <2> QED BY <2>1, <2>2, <2>3 DEF DataKeptStep
<1>7. ASSUME NEW i \in Ordinals, PVCInformerSync(i)
      PROVE  Types' /\ Sizes' /\ DataKeptStep
  <2>1. /\ seenPVC' = [seenPVC EXCEPT ![i] = pvc[i]]
        /\ UNCHANGED <<pvc, spec, snapshot, requested, crd, heal>>
    BY <1>7 DEF PVCInformerSync, clusterVars, worldVars, reconcileVars
  <2>2. Types'
    BY <2>1 DEF Inv, Types
  <2>3. Sizes'
    BY <2>1 DEF Inv, Types, Sizes, Fits
  <2> QED BY <2>1, <2>2, <2>3 DEF DataKeptStep
<1>8. ASSUME NEW i \in Ordinals, ClaimBinds(i) \/ ClaimResized(i) \/ ClaimGone(i)
      PROVE  Types' /\ Sizes' /\ DataKeptStep
  <2>1. UNCHANGED <<seenPVC, spec, snapshot, requested, crd, heal>>
    BY <1>8 DEF ClaimBinds, ClaimResized, ClaimGone, worldVars, informerVars,
                reconcileVars
  <2>2. PICK c : /\ pvc' = [pvc EXCEPT ![i] = c]
                 /\ c \in Claims /\ Fits(c) /\ (c.deleting => pvc[i].deleting)
    <3>1. pvc \in [Ordinals -> Claims] /\ pvc[i] \in Claims /\ Fits(pvc[i])
      BY DEF Inv, Types, Sizes
    <3>2. CASE ClaimBinds(i)
      <4> DEFINE c == [pvc[i] EXCEPT !.phase = "bound", !.cap = pvc[i].size]
      <4>1. pvc' = [pvc EXCEPT ![i] = c]
        BY <3>1, <3>2 DEF ClaimBinds, Claims
      <4>2. c \in Claims /\ Fits(c) /\ c.deleting = pvc[i].deleting
        BY <3>1 DEF Claims, Fits
      <4> QED BY <4>1, <4>2
    <3>3. CASE ClaimResized(i)
      <4> DEFINE c == [pvc[i] EXCEPT !.cap = pvc[i].size]
      <4>1. pvc' = [pvc EXCEPT ![i] = c]
        BY <3>1, <3>3 DEF ClaimResized, Claims
      <4>2. c \in Claims /\ Fits(c) /\ c.deleting = pvc[i].deleting
        BY <3>1 DEF Claims, Fits
      <4> QED BY <4>1, <4>2
    <3>4. CASE ClaimGone(i)
      BY <3>4, NothingKept DEF ClaimGone, NoPVC
    <3> QED BY <1>8, <3>2, <3>3, <3>4
  <2>3. /\ pvc' \in [Ordinals -> Claims]
        /\ \A j \in Ordinals : Fits(pvc'[j]) /\ (pvc'[j].deleting => pvc[j].deleting)
    BY <2>2 DEF Inv, Types, Sizes
  <2>4. Types' /\ Sizes'
    BY <2>1, <2>3, ClaimsTouched
  <2> QED BY <2>3, <2>4 DEF DataKeptStep
<1>9. ASSUME NEW i \in Ordinals,
             PodInformerSync(i) \/ PodRuns(i) \/ PodGone(i) \/ DiskFills(i)
      PROVE  Types' /\ Sizes' /\ DataKeptStep
  <2>1. UNCHANGED <<pvc, seenPVC, spec, snapshot, requested, crd, heal>>
    BY <1>9 DEF PodInformerSync, PodRuns, PodGone, DiskFills, clusterVars, worldVars,
                informerVars, reconcileVars
  <2>2. Types' /\ Sizes'
    BY <2>1, ClaimsUntouched DEF Inv, Types, Sizes
  <2> QED BY <2>1, <2>2 DEF DataKeptStep
<1>10. CASE SnapshotTaken \/ APIServerHeals \/ SpecChanges
  <2>1. UNCHANGED <<pvc, seenPVC, requested, crd, heal>>
    BY <1>10 DEF SnapshotTaken, APIServerHeals, SpecChanges, clusterVars,
                 informerVars, reconcileVars
  <2>2. snapshot' \in Nat
    BY <1>10 DEF SnapshotTaken, APIServerHeals, SpecChanges, Inv, Types
  <2>3. spec' = spec \/ spec' \in [wanted: Wants, policy: Policies]
    BY <1>10 DEF SnapshotTaken, APIServerHeals, SpecChanges
  <2>4. spec' \in [wanted: SUBSET Ordinals, policy: {"Retain", "Delete"}]
    BY <2>3 DEF Inv, Types
  <2>5. Types' /\ Sizes'
    BY <2>1, <2>2, <2>4, ClaimsUntouched DEF Inv, Types, Sizes
  <2> QED BY <2>1, <2>5 DEF DataKeptStep
<1> QED BY <1>1, <1>2, <1>3, <1>4, <1>5, <1>6, <1>7, <1>8, <1>9, <1>10
        DEF Next, FullNodeReconcile, SelfHealingReconcile, Cluster

(* What the specs release stays releasable as long as it matters.          *)
LEMMA ReleasesStep ==
    ASSUME Inv, Next
    PROVE  Releases'
<1>1. CASE ReconcilePods
  BY <1>1 DEF ReconcilePods, worldVars, Inv, Releases, ReleasedBy
<1>2. CASE ReconcilePVCs
  <2>1. pc' = "status" /\ spec' = spec
    BY <1>2 DEF ReconcilePVCs, worldVars
  <2>2. ReleasedBy(spec) \subseteq releasable'
    BY <1>2 DEF ReconcilePVCs, ScalePVCs, UpdatePVCs, Inv, Releases
  <2> QED BY <2>1, <2>2 DEF Releases, ReleasedBy
<1>3. CASE UpdateStatus \/ OperatorRestarts
  BY <1>3 DEF UpdateStatus, OperatorRestarts, worldVars, Inv, Releases, ReleasedBy
<1>4. CASE SpecChanges
  <2>1. /\ UNCHANGED <<pc, crd>>
        /\ releasable \subseteq releasable' /\ ReleasedBy(spec)' \subseteq releasable'
    BY <1>4 DEF SpecChanges, reconcileVars, ReleasedBy
  <2> QED BY <2>1 DEF Inv, Releases, ReleasedBy
<1>5. CASE UNCHANGED <<spec, releasable, pc, crd>>
  BY <1>5 DEF Inv, Releases, ReleasedBy
<1>6. CASE CollectDiskUsage \/ SignalPVCResize \/ SnapshotTaken \/ APIServerHeals
  BY <1>5, <1>6 DEF CollectDiskUsage, SignalPVCResize, SnapshotTaken, APIServerHeals,
                    worldVars, reconcileVars
<1>7. ASSUME NEW i \in Ordinals,
             \/ PodInformerSync(i) \/ PVCInformerSync(i) \/ DiskFills(i)
             \/ PodRuns(i) \/ PodGone(i)
             \/ ClaimBinds(i) \/ ClaimResized(i) \/ ClaimGone(i)
      PROVE  Releases'
  BY <1>5, <1>7 DEF PodInformerSync, PVCInformerSync, DiskFills, PodRuns, PodGone,
                    ClaimBinds, ClaimResized, ClaimGone, worldVars, reconcileVars
<1> QED BY <1>1, <1>2, <1>3, <1>4, <1>6, <1>7
        DEF Next, FullNodeReconcile, SelfHealingReconcile, Cluster

(* The invariant is inductive.                                             *)
LEMMA InvNext == Inv /\ [Next]_vars => Inv'
<1>1. ASSUME Inv, Next PROVE Inv'
  BY <1>1, StepKeeps, ReleasesStep DEF Inv
<1>2. ASSUME Inv, UNCHANGED vars PROVE Inv'
  <2>1. UNCHANGED <<spec, requested, pvc, seenPVC, snapshot, crd, heal, pc, releasable>>
    BY <1>2 DEF vars
  <2>2. Types'
    BY <1>2, <2>1 DEF Inv, Types
  <2>3. Sizes'
    BY <1>2, <2>1 DEF Inv, Sizes, Fits
  <2>4. Releases'
    BY <1>2, <2>1 DEF Inv, Releases, ReleasedBy
  <2> QED BY <2>2, <2>3, <2>4 DEF Inv
<1> QED BY <1>1, <1>2

-----------------------------------------------------------------------------
(***************************************************************************)
(* Theorems                                                                *)
(***************************************************************************)

(* Auto scaling ends at the maximum: NextSize caps what SignalPVCResize    *)
(* asks for, and BuildSize makes nothing larger of it than 2%.             *)
THEOREM SizesAreBounded == Spec => []SizeBounded
<1>1. Inv => SizeBounded
  BY DEF Inv, Sizes, Fits, Bound, SizeBounded
<1> QED BY <1>1, InvInit, InvNext, PTL DEF Spec

(* PVCControl deletes a claim only if some spec since its creation neither *)
(* wanted nor retained it, however stale what it has read is.              *)
THEOREM DataIsKept == Spec => DataKept
<1>1. Inv /\ [Next]_vars => [DataKeptStep]_vars
  BY StepKeeps
<1> QED BY <1>1, InvInit, InvNext, PTL DEF Spec, DataKept

=============================================================================
