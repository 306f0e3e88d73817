--------------------------- MODULE MCVolumeClaims ---------------------------
(***************************************************************************)
(* Model-checking module of VolumeClaims: an instance that comes and goes. *)
(***************************************************************************)
EXTENDS VolumeClaims

NoneOrOne == {{}, {0}}

=============================================================================
