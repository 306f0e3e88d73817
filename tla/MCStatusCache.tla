--------------------------- MODULE MCStatusCache ----------------------------
(***************************************************************************)
(* Model-checking module of StatusCache.                                   *)
(***************************************************************************)
EXTENDS StatusCache, TLC

CollectorSymmetry == Permutations(Collectors)

(* What a state means to the goroutines: the contents of each slice and of *)
(* its array behind it, and which slices share an array.  The numbers of   *)
(* the cells, and arrays that no slice refers to, make no difference.      *)
Meaning ==
    LET slices == <<entry.slice, invalidation.slice>>
        all == [r \in Readers |-> view[r]] @@ [i \in 1..2 |-> slices[i]]
    IN  <<crdExists, listed, born, entry.collector, collectors, pc, podList,
          invalidation.pods,
          [a \in DOMAIN all |-> <<all[a].len, heap[all[a].cell],
                                  {b \in DOMAIN all : all[b].cell = all[a].cell}>>]>>

=============================================================================
