------------------------------ MODULE Rollout -------------------------------
(***************************************************************************)
(* kube.ComputeRollout: how many of the pods that are ready may be taken   *)
(* down at once.  Used by PodControl for updates and by the self healing   *)
(* controller for pods that lag behind.                                    *)
(***************************************************************************)
EXTENDS Integers

CONSTANTS
    MaxUnavailable,  \* spec.strategy.maxUnavailable, a number ...
    Percent          \*   ... of pods, or per cent of the replicas

ASSUME RolloutAssumption == MaxUnavailable \in Nat /\ Percent \in BOOLEAN

Scaled(desired) ==
    IF Percent THEN (MaxUnavailable * desired) \div 100 ELSE MaxUnavailable

(* At least one pod may be unavailable.                                    *)
Unavail(desired) == IF Scaled(desired) < 1 THEN 1 ELSE Scaled(desired)

(* Mutant: one more pod must be ready.                                     *)
ComputeRolloutStrict(desired, ready) ==
    LET target == Unavail(desired) - (desired - ready)
    IN  IF ready - 1 <= desired - Unavail(desired) THEN 0
        ELSE IF target > desired THEN desired ELSE target

ComputeRollout(desired, ready) ==
    LET target == Unavail(desired) - (desired - ready)
    IN  IF ready <= desired - Unavail(desired) THEN 0
        ELSE IF target > desired THEN desired ELSE target

=============================================================================
