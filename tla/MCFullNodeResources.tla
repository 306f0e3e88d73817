------------------------ MODULE MCFullNodeResources -------------------------
(***************************************************************************)
(* Model-checking module of FullNodeResources.                             *)
(***************************************************************************)
EXTENDS FullNodeResources

(* Two instances, the first with an address; one without; none.            *)
ScaleOrHide ==
    {[replicas |-> 2, max |-> 1], [replicas |-> 1, max |-> 0],
     [replicas |-> 0, max |-> 1]}

=============================================================================
