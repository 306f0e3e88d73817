---------------------------- MODULE MCPodRollout ----------------------------
(***************************************************************************)
(* Model-checking module of PodRollout.                                    *)
(***************************************************************************)
EXTENDS PodRollout

=============================================================================
