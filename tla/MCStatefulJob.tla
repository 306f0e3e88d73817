---------------------------- MODULE MCStatefulJob ---------------------------
(***************************************************************************)
(* Model-checking module of StatefulJob.                                   *)
(***************************************************************************)
EXTENDS StatefulJob

=============================================================================
