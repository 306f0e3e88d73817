---------------------------- MODULE StatusCache -----------------------------
(***************************************************************************)
(* The CacheController: for one CosmosFullNode a background goroutine      *)
(* polls the CometBFT status of its pods and caches the resulting          *)
(* StatusCollection; three controllers read it with Collect.               *)
(*                                                                         *)
(* A StatusCollection is a Go slice: an array and a length.  The cache     *)
(* hands out its own slice, and IntersectPods and UpsertPod work in place, *)
(* so readers write to the array the cache and other readers see.  Arrays  *)
(* are therefore modelled as cells of a heap.                              *)
(***************************************************************************)
EXTENDS Naturals, Sequences, FiniteSets

CONSTANTS
    UIDs,          \* UIDs of pods, numbers in the order of their ordinals
    Readers,       \* goroutines that call Collect
    Collectors,    \* names for collecting goroutines; a finished one is reused
    NoCollector,
    MinAvailable,  \* spec.minAvailable of a ScheduledVolumeSnapshot
    Recreated,     \* TRUE: the CosmosFullNode may be deleted and created anew
    Invalidates    \* TRUE: PodControl calls Invalidate

ASSUME ConstantsAssumption ==
    /\ UIDs \subseteq Nat /\ IsFiniteSet(UIDs)
    /\ IsFiniteSet(Readers)
    /\ NoCollector \notin Collectors
    /\ MinAvailable \in Nat
    /\ Recreated \in BOOLEAN
    /\ Invalidates \in BOOLEAN

VARIABLES
    crdExists,   \* the CosmosFullNode exists
    listed,      \* the pods the informer lists
    born,        \* pods that have ever existed: UIDs are not reused
    heap,        \* arrays of status items
    entry,       \* the cache entry: its slice and its collecting goroutine
    collectors,  \* state of each collecting goroutine
    pc, podList, view, \* of each reader: step, listed pods, slice
    invalidation \* Invalidate between Get and Update: pods and slice

readerVars == <<pc, podList, view>>
vars == <<crdExists, listed, born, heap, entry, collectors, readerVars,
          invalidation>>

(* Enough arrays: the cached one, one per reader and Invalidate, a new one; *)
(* 0 is the empty array of a nil slice.                                    *)
Cells == 0..(Cardinality(Readers) + 3)

(* Err "missing status"; any other Err, or a node that is catching up; and *)
(* a node that is in sync.                                                 *)
ItemStatus == {"missing", "notSynced", "inSync"}

Item == [pod: UIDs, status: ItemStatus]

Slice == [cell: Cells, len: 0..Cardinality(UIDs)]

NoSlice == [cell |-> 0, len |-> 0]

NoEntry == [collector |-> NoCollector, slice |-> NoSlice]

Cached == entry.collector # NoCollector

Items(slice) == SubSeq(heap[slice.cell], 1, slice.len)

PodsOf(items) == {items[i].pod : i \in DOMAIN items}

(* The members of a finite set of numbers in increasing order: the one     *)
(* with i - 1 smaller ones comes i-th.                                     *)
Sorted(S) ==
    [i \in 1..Cardinality(S) |->
        CHOOSE u \in S : Cardinality({v \in S : v < u}) = i - 1]

(* A collection, sorted, of the answers that pods gave.                    *)
Statuses(answer) ==
    LET pods == Sorted(DOMAIN answer)
    IN  [i \in DOMAIN pods |-> [pod |-> pods[i], status |-> answer[pods[i]]]]

(* A cell nobody refers to.                                                *)
FreeCell ==
    CHOOSE c \in Cells \ {0} : /\ c # entry.slice.cell
                               /\ c # invalidation.slice.cell
                               /\ \A r \in Readers : c # view[r].cell

Init ==
    /\ crdExists = TRUE
    /\ listed \in SUBSET UIDs
    /\ born = listed
    /\ heap = [c \in Cells |-> <<>>]
    /\ entry = NoEntry
    /\ collectors = [g \in Collectors |-> "done"]
    /\ pc = [r \in Readers |-> "idle"]
    /\ podList = [r \in Readers |-> {}]
    /\ view = [r \in Readers |-> NoSlice]
    /\ invalidation = [pods |-> {}, slice |-> NoSlice]

-----------------------------------------------------------------------------
(***************************************************************************)
(* The life of a cache entry.                                              *)
(***************************************************************************)

(* Mutant: the goroutine is not cancelled.                                 *)
DelWithoutCancel(collectorsNow) ==
    /\ collectors' = collectorsNow
    /\ entry' = NoEntry

(* cache.Del: cancel the entry's goroutine, drop the entry.                *)
Del(collectorsNow) ==
    /\ collectors' = [g \in Collectors |-> IF g = entry.collector
                                           THEN "cancelled"
                                           ELSE collectorsNow[g]]
    /\ entry' = NoEntry

ReconcileDeleted ==
    /\ ~crdExists
    /\ Cached
    /\ Del(collectors)
    /\ UNCHANGED <<crdExists, listed, born, heap, readerVars, invalidation>>

(* Mutant: Init makes room for the pods as if it had their status.         *)
ReconcileExistingPrefilled ==
    /\ crdExists
    /\ ~Cached
    /\ \E g \in Collectors :
          /\ collectors[g] = "done"
          /\ collectors' = [collectors EXCEPT ![g] = "running"]
          /\ entry' = [collector |-> g,
                       slice |-> [cell |-> FreeCell, len |-> Cardinality(listed)]]
          /\ heap' = [heap EXCEPT ![FreeCell] = <<>>]
    /\ UNCHANGED <<crdExists, listed, born, readerVars, invalidation>>

(* If not already cached, start collecting.                                *)
ReconcileExisting ==
    /\ crdExists
    /\ ~Cached
    /\ \E g \in Collectors :
          /\ collectors[g] = "done"
          /\ collectors' = [collectors EXCEPT ![g] = "running"]
          /\ entry' = [collector |-> g, slice |-> [cell |-> FreeCell, len |-> 0]]
          /\ heap' = [heap EXCEPT ![FreeCell] = <<>>]
    /\ UNCHANGED <<crdExists, listed, born, readerVars, invalidation>>

(* Mutant: the new result is stored in the array of the one before.        *)
CollectFromPodsInPlace(g) ==
    /\ collectors[g] \in {"running", "cancelled"}
    /\ Cached
    /\ \E answer \in [listed -> IF collectors[g] = "running"
                               THEN {"notSynced", "inSync"}
                               ELSE {"notSynced"}] :
          heap' = [heap EXCEPT ![entry.slice.cell] =
                      LET full == Statuses(answer)
                      IN  full \o SubSeq(@, Len(full) + 1, Len(@))]
    /\ entry' = [entry EXCEPT !.slice.len = Cardinality(listed)]
    /\ UNCHANGED <<crdExists, listed, born, collectors, readerVars,
                   invalidation>>

(* collectFromPods: poll the listed pods and store the sorted result in    *)
(* whatever entry there is.  A cancelled poll gets an error of every pod.  *)
CollectFromPods(g) ==
    /\ collectors[g] \in {"running", "cancelled"}
    /\ Cached
    /\ \E answer \in [listed -> IF collectors[g] = "running"
                               THEN {"notSynced", "inSync"}
                               ELSE {"notSynced"}] :
          heap' = [heap EXCEPT ![FreeCell] = Statuses(answer)]
    /\ entry' = [entry EXCEPT !.slice = [cell |-> FreeCell,
                                         len |-> Cardinality(listed)]]
    /\ UNCHANGED <<crdExists, listed, born, collectors, readerVars,
                   invalidation>>

(* The deferred cache.Del of a cancelled goroutine goes by the key.        *)
CollectorExits(g) ==
    /\ collectors[g] = "cancelled"
    /\ Del([collectors EXCEPT ![g] = "done"])
    /\ UNCHANGED <<crdExists, listed, born, heap, readerVars, invalidation>>

-----------------------------------------------------------------------------
(***************************************************************************)
(* Collect, by reader r: list the pods; take the cached slice and drop     *)
(* from it, in place, the pods not listed; add the listed pods it lacks.   *)
(***************************************************************************)
ListPods(r) ==
    /\ pc[r] = "idle"
    /\ pc' = [pc EXCEPT ![r] = "listed"]
    /\ podList' = [podList EXCEPT ![r] = listed]
    /\ UNCHANGED <<crdExists, listed, born, heap, entry, collectors, view,
                   invalidation>>

(* A slice for a reader who finds nothing cached is a new one.             *)
IntersectPods(r) ==
    LET slice == IF Cached THEN entry.slice
                           ELSE [cell |-> FreeCell, len |-> 0]
        array == IF Cached THEN heap[slice.cell] ELSE <<>>
        at    == Sorted({i \in 1..slice.len : array[i].pod \in podList[r]})
        kept  == [j \in DOMAIN at |-> array[at[j]]]
    IN  /\ pc[r] = "listed"
        /\ pc' = [pc EXCEPT ![r] = "intersected"]
        /\ heap' = [heap EXCEPT ![slice.cell] =
                       kept \o SubSeq(array, Len(kept) + 1, Len(array))]
        /\ view' = [view EXCEPT ![r] = [cell |-> slice.cell, len |-> Len(kept)]]
        /\ UNCHANGED <<crdExists, listed, born, entry, collectors, podList,
                       invalidation>>

(* append writes behind the slice's end while the array has room, even if  *)
(* the cached slice is longer, and then moves to a larger array.           *)
UpsertPods(r) ==
    LET slice   == view[r]
        array   == heap[slice.cell]
        missing == podList[r] \ PodsOf(Items(slice))
        full    == Items(slice) \o Statuses([u \in missing |-> "missing"])
        room    == Len(array)
    IN  /\ pc[r] = "intersected"
        /\ pc' = [pc EXCEPT ![r] = "done"]
        /\ IF Len(full) <= room
           THEN /\ heap' = [heap EXCEPT ![slice.cell] =
                               full \o SubSeq(array, Len(full) + 1, room)]
                /\ view' = [view EXCEPT ![r].len = Len(full)]
           ELSE /\ heap' = [heap EXCEPT ![slice.cell] = SubSeq(full, 1, room),
                                        ![FreeCell] = full]
                /\ view' = [view EXCEPT ![r] = [cell |-> FreeCell,
                                                len |-> Len(full)]]
        /\ UNCHANGED <<crdExists, listed, born, entry, collectors, podList,
                       invalidation>>

(* The reader is through with the result.                                  *)
Finish(r) ==
    /\ pc[r] = "done"
    /\ pc' = [pc EXCEPT ![r] = "idle"]
    /\ podList' = [podList EXCEPT ![r] = {}]
    /\ view' = [view EXCEPT ![r] = NoSlice]
    /\ UNCHANGED <<crdExists, listed, born, heap, entry, collectors,
                   invalidation>>

Collect(r) == ListPods(r) \/ IntersectPods(r) \/ UpsertPods(r)

-----------------------------------------------------------------------------
(***************************************************************************)
(* Invalidate ranges over copies of the items, so the items it sets are    *)
(* lost, and stores the slice it read, in whatever entry there is by then. *)
(***************************************************************************)
InvalidateGet ==
    /\ Invalidates
    /\ invalidation.pods = {}
    /\ \E pods \in (SUBSET listed) \ {{}} :
          invalidation' = [pods |-> pods,
                           slice |-> IF Cached THEN entry.slice ELSE NoSlice]
    /\ UNCHANGED <<crdExists, listed, born, heap, entry, collectors, readerVars>>

InvalidateUpdate ==
    /\ invalidation.pods # {}
    /\ entry' = IF Cached THEN [entry EXCEPT !.slice = invalidation.slice]
                          ELSE entry
    /\ invalidation' = [pods |-> {}, slice |-> NoSlice]
    /\ UNCHANGED <<crdExists, listed, born, heap, collectors, readerVars>>

-----------------------------------------------------------------------------
(***************************************************************************)
(* The world around the cache.                                             *)
(***************************************************************************)
PodAppears(u) ==
    /\ u \notin born
    /\ born' = born \cup {u}
    /\ listed' = listed \cup {u}
    /\ UNCHANGED <<crdExists, heap, entry, collectors, readerVars, invalidation>>

PodVanishes(u) ==
    /\ u \in listed
    /\ listed' = listed \ {u}
    /\ UNCHANGED <<crdExists, born, heap, entry, collectors, readerVars,
                   invalidation>>

CRDChanges ==
    /\ Recreated
    /\ crdExists' = ~crdExists
    /\ UNCHANGED <<listed, born, heap, entry, collectors, readerVars,
                   invalidation>>

Next ==
    \/ ReconcileDeleted
    \/ ReconcileExisting
    \/ \E g \in Collectors : CollectFromPods(g) \/ CollectorExits(g)
    \/ \E r \in Readers : Collect(r) \/ Finish(r)
    \/ InvalidateGet
    \/ InvalidateUpdate
    \/ \E u \in UIDs : PodAppears(u) \/ PodVanishes(u)
    \/ CRDChanges

Spec == Init /\ [][Next]_vars

-----------------------------------------------------------------------------
(***************************************************************************)
(* Properties                                                              *)
(***************************************************************************)

(* Every variable keeps its type, and no slice is longer than its array.   *)
TypeOK ==
    /\ crdExists \in BOOLEAN
    /\ listed \subseteq born /\ born \subseteq UIDs
    /\ heap \in [Cells -> Seq(Item)]
    /\ entry \in [collector: Collectors \cup {NoCollector}, slice: Slice]
    /\ collectors \in [Collectors -> {"running", "cancelled", "done"}]
    /\ pc \in [Readers -> {"idle", "listed", "intersected", "done"}]
    /\ podList \in [Readers -> SUBSET UIDs]
    /\ view \in [Readers -> [cell: Cells, len: Nat]]
    /\ invalidation \in [pods: SUBSET UIDs, slice: Slice]
    /\ \A slice \in {entry.slice, invalidation.slice} \cup
                     {view[r] : r \in Readers} :
          slice.len <= Len(heap[slice.cell])

(* Exactly the goroutine of the entry is collecting: deleting and creating *)
(* the CosmosFullNode leaves no goroutine behind and no entry that nobody  *)
(* feeds, although a finishing goroutine deletes its successor's entry.    *)
CollectorMatchesEntry ==
    {g \in Collectors : collectors[g] = "running"} =
        IF Cached THEN {entry.collector} ELSE {}

(* No step but one of a reader changes what readers hold: the poll that    *)
(* replaces the cached slice, Invalidate, and the end and the beginning of *)
(* an entry leave the arrays that Collect has handed out alone.            *)
ResultStableStep ==
    pc' = pc => \A r \in Readers : Items(view[r])' = Items(view[r])

ResultStable == [][ResultStableStep]_vars

(* When SyncedPods returns minAvailable pods or more, so that              *)
(* FindCandidate goes on to take one down, as many different pods are in   *)
(* sync.  This does not hold: the compaction of IntersectPods leaves an    *)
(* item twice in the cached slice, whose length it does not change.        *)
SyncedPodsDistinct ==
    \A r \in Readers :
        LET synced == SelectSeq(Items(view[r]),
                                LAMBDA item : item.status = "inSync")
        IN  (pc[r] = "done" /\ Len(synced) >= MinAvailable)
                => Cardinality(PodsOf(synced)) >= MinAvailable

=============================================================================
