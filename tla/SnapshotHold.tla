---------------------------- MODULE SnapshotHold -----------------------------
(***************************************************************************)
(* What deletePod of a ScheduledVolumeSnapshot promises: one pod at a time *)
(* is held down, a snapshot of its volume is asked for once no pod uses    *)
(* it, and the pod may only come back when the snapshot counts as taken.   *)
(* No other pod is touched.                                                *)
(***************************************************************************)
CONSTANTS Pods, NoPod

VARIABLES
    held,   \* the pod held down, or NoPod
    up,     \* the pods that use their volumes
    stage   \* how far the snapshot of the held pod's volume is

holdVars == <<held, up, stage>>

Init ==
    /\ held = NoPod
    /\ up = Pods
    /\ stage = "idle"

HoldDown(p) ==
    /\ stage = "idle"
    /\ held' = p
    /\ stage' = "holding"
    /\ UNCHANGED up

Stop ==
    /\ held \in up
    /\ up' = up \ {held}
    /\ UNCHANGED <<held, stage>>

Take ==
    /\ stage = "holding"
    /\ held \notin up
    /\ stage' = "taking"
    /\ UNCHANGED <<held, up>>

Taken ==
    /\ stage = "taking"
    /\ stage' = "taken"
    /\ UNCHANGED <<held, up>>

Release ==
    /\ stage = "taken"
    /\ held' = NoPod
    /\ stage' = "idle"
    /\ UNCHANGED up

Start(ps) ==
    /\ held \notin ps
    /\ up' = up \cup ps
    /\ UNCHANGED <<held, stage>>

Next ==
    \/ \E p \in up : HoldDown(p)
    \/ Stop
    \/ Take
    \/ Taken
    \/ Release
    \/ \E ps \in SUBSET Pods : Start(ps)

Spec == Init /\ [][Next]_holdVars

=============================================================================
