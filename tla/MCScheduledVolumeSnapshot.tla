---------------------- MODULE MCScheduledVolumeSnapshot ----------------------
(***************************************************************************)
(* Model-checking module of ScheduledVolumeSnapshot.                       *)
(***************************************************************************)
EXTENDS ScheduledVolumeSnapshot

=============================================================================
