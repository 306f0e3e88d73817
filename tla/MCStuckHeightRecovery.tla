------------------------ MODULE MCStuckHeightRecovery ------------------------
(***************************************************************************)
(* Model-checking module of StuckHeightRecovery: the constants and the     *)
(* bounds are in its configurations, one for safety, one for liveness.     *)
(***************************************************************************)
EXTENDS StuckHeightRecovery, TLC

HeightSymmetry == Permutations(Heights)

(* A snapshot of an earlier second that neither the object nor its cached  *)
(* copy names makes no difference to any step or property: the code lists  *)
(* no snapshots, and its name is not made again.                           *)
Meaning ==
    LET named == {status.volumeSnapshotName, cachedStatus.volumeSnapshotName}
        kept  == {snap \in snapshots : snap \in named \/ snap[2] = now}
    IN  <<objectVars, clusterVars, recoveryPods, kept, kept \cap readySnapshots,
          attemptLog>>

=============================================================================
