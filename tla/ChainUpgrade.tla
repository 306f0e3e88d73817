---------------------------- MODULE ChainUpgrade ----------------------------
(***************************************************************************)
(* What an operator that upgrades a chain promises, for each node on its   *)
(* own: a node is only ever started on its data with the version of the    *)
(* chain that belongs to the height of the data, its version changes only  *)
(* by stopping it and starting it again, its data is replaced only while   *)
(* it is stopped and otherwise grows block by block.  A node that goes     *)
(* down is not stopped: it may come up again as it was, whatever version   *)
(* its data belongs to by then.                                            *)
(***************************************************************************)
EXTENDS Integers, Sequences

CONSTANTS
    Pods,
    UpgradeHeights,  \* height of each spec.chain.versions, in their order
    MaxHeight        \* bound on the height of the chain

VARIABLES
    height,   \* height of the data of each node, -1: no data
    running,  \* the version each node is started with, -1: stopped
    up        \* whether it is up

(* The versions: 0 is the image of the pod template, i the i-th version.   *)
Images == 0..Len(UpgradeHeights)

(* The version that belongs to a height.                                   *)
IsVersionAt(h, i) ==
    /\ i > 0 => UpgradeHeights[i] <= h
    /\ \A j \in DOMAIN UpgradeHeights : UpgradeHeights[j] <= h => j <= i

Init ==
    /\ height \in [Pods -> -1..MaxHeight]
    /\ running = [p \in Pods |-> -1]
    /\ up = [p \in Pods |-> FALSE]

(* What a step may do to one node.  Several may take a step at once: one   *)
(* round of the operator stops more than one.                              *)

(* A node starts on the data that its volume holds, or at height 0.        *)
Start(p) ==
    /\ running[p] = -1
    /\ running'[p] \in Images
    /\ up'[p]
    /\ IsVersionAt(height'[p], running'[p])
    /\ height'[p] = IF height[p] = -1 THEN 0 ELSE height[p]

(* The next block is executed.  That it is not executed by a version that  *)
(* should have stopped is the business of the node and its halt height.    *)
Commit(p) ==
    /\ up[p] /\ up'[p]
    /\ running'[p] = running[p]
    /\ height'[p] = height[p] + 1

(* The node goes down, or comes up again.                                  *)
Restart(p) ==
    /\ running[p] # -1
    /\ up'[p] = ~up[p]
    /\ running'[p] = running[p]
    /\ height'[p] = height[p]

Stop(p) ==
    /\ running[p] # -1
    /\ running'[p] = -1
    /\ ~up'[p]
    /\ height'[p] = height[p]

(* Data is created, restored from a snapshot or lost while the node is     *)
(* stopped.                                                                *)
ReplaceData(p) ==
    /\ running[p] = -1
    /\ running'[p] = -1
    /\ ~up'[p]
    /\ height'[p] \in -1..MaxHeight

Stays(p) ==
    running'[p] = running[p] /\ up'[p] = up[p] /\ height'[p] = height[p]

Next ==
    \A p \in Pods :
        Start(p) \/ Commit(p) \/ Restart(p) \/ Stop(p) \/ ReplaceData(p) \/ Stays(p)

Spec == Init /\ [][Next]_<<height, running, up>>

=============================================================================
