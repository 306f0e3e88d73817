------------------------ MODULE StatusCache_proofs --------------------------
(***************************************************************************)
(* Proofs about StatusCache, for any pods, readers and collectors.         *)
(***************************************************************************)
EXTENDS StatusCache, TLAPS, FiniteSetTheorems

-----------------------------------------------------------------------------
(***************************************************************************)
(* Sorting a finite set of numbers by rank                                 *)
(***************************************************************************)

(* How many members of S are smaller than u.                               *)
Rank(S, u) == Cardinality({v \in S : v < u})

(* A rank of a set of n numbers is one of 0..n-1.                          *)
LEMMA RankType ==
    ASSUME NEW S \in SUBSET Nat, IsFiniteSet(S), NEW u \in S
    PROVE  /\ Rank(S, u) \in 0..(Cardinality(S) - 1)
           /\ IsFiniteSet({v \in S : v < u})
<1>. DEFINE Below == {v \in S : v < u}
<1>1. Below \in SUBSET (S \ {u})
  OBVIOUS
<1>2. IsFiniteSet(S \ {u}) /\ Cardinality(S \ {u}) = Cardinality(S) - 1
  BY FS_RemoveElement
<1>3. IsFiniteSet(Below) /\ Cardinality(Below) <= Cardinality(S \ {u})
  BY <1>1, <1>2, FS_Subset
<1>4. Cardinality(Below) \in Nat /\ Cardinality(S) \in Nat
  BY <1>3, FS_CardinalityType
<1>. HIDE DEF Below
<1>5. Cardinality(Below) \in 0..(Cardinality(S) - 1)
  BY <1>2, <1>3, <1>4
<1>. QED
  BY <1>3, <1>5 DEF Rank, Below

(* A larger member has a larger rank.                                      *)
LEMMA RankGrows ==
    ASSUME NEW S \in SUBSET Nat, IsFiniteSet(S), NEW u \in S, NEW w \in S, u < w
    PROVE  Rank(S, u) < Rank(S, w)
<1>. DEFINE A == {v \in S : v < u}
            B == {v \in S : v < w}
<1>1. IsFiniteSet(A) /\ IsFiniteSet(B)
  BY RankType
<1>2. u \notin A /\ (A \cup {u}) \in SUBSET B
  <2>1. u \in Nat /\ w \in Nat /\ \A v \in S : v \in Nat
    OBVIOUS
  <2>2. \A v \in S : v < u => v < w
    BY <2>1
  <2>3. ~(u < u)
    BY <2>1
  <2>. QED
    BY <2>2, <2>3
<1>. HIDE DEF A, B
<1>3. Cardinality(A \cup {u}) = Cardinality(A) + 1
  BY <1>1, <1>2, FS_AddElement
<1>4. Cardinality(A \cup {u}) <= Cardinality(B)
  BY <1>1, <1>2, FS_Subset
<1>5. Cardinality(A) \in Nat /\ Cardinality(B) \in Nat
  BY <1>1, FS_CardinalityType
<1>6. Cardinality(A) < Cardinality(B)
  BY <1>3, <1>4, <1>5
<1>. QED
  BY <1>6 DEF Rank, A, B

(* Sorted(S) is a sequence of as many members of S as S has, and every     *)
(* member is in it: collectFromPods, IntersectPods and UpsertPod lose and  *)
(* repeat no pod.                                                          *)
LEMMA SortedCovers ==
    ASSUME NEW S \in SUBSET Nat, IsFiniteSet(S)
    PROVE  /\ Sorted(S) \in Seq(S)
           /\ Len(Sorted(S)) = Cardinality(S)
           /\ DOMAIN Sorted(S) = 1..Cardinality(S)
           /\ Cardinality(S) \in Nat
           /\ {Sorted(S)[i] : i \in 1..Cardinality(S)} = S
<1>. DEFINE n    == Cardinality(S)
            rank == [u \in S |-> Rank(S, u)]
<1>1. n \in Nat
  BY FS_CardinalityType
<1>2. /\ \A u \in S : Rank(S, u) \in Nat /\ Rank(S, u) \in 0..(n - 1)
      /\ rank \in [S -> 0..(n - 1)]
  <2>1. \A u \in S : Rank(S, u) \in 0..(n - 1)
    BY RankType
  <2>. HIDE DEF n
  <2>2. \A u \in S : Rank(S, u) \in Nat
    BY <1>1, <2>1
  <2>. QED
    BY <2>1, <2>2
<1>3. \A u, w \in S : rank[u] = rank[w] => u = w
  <2>1. SUFFICES ASSUME NEW u \in S, NEW w \in S, u # w
                 PROVE  Rank(S, u) # Rank(S, w)
    OBVIOUS
  <2>2. Rank(S, u) \in Nat /\ Rank(S, w) \in Nat
    BY <1>2
  <2>3. CASE u < w
    BY <2>2, <2>3, RankGrows
  <2>4. CASE w < u
    BY <2>2, <2>4, RankGrows
  <2>. QED
    BY <2>1, <2>3, <2>4
<1>4. rank \in Injection(S, 0..(n - 1))
  BY <1>2, <1>3 DEF Injection, IsInjective
<1>5. IsFiniteSet(0..(n - 1)) /\ Cardinality(0..(n - 1)) = n
  <2>. HIDE DEF n
  <2>1. 0 \in Int /\ n - 1 \in Int
    BY <1>1
  <2>. QED
    BY <1>1, <2>1, FS_Interval
<1>6. rank \in Surjection(S, 0..(n - 1))
  <2>. HIDE DEF rank
  <2>. QED
    BY <1>4, <1>5, FS_Injection
<1>7. \A k \in 0..(n - 1) : \E u \in S : Rank(S, u) = k
  BY <1>6 DEF Surjection
<1>8. \A i \in 1..n : Sorted(S)[i] \in S /\ Rank(S, Sorted(S)[i]) = i - 1
  <2>. SUFFICES ASSUME NEW i \in 1..n
                PROVE  Sorted(S)[i] \in S /\ Rank(S, Sorted(S)[i]) = i - 1
    OBVIOUS
  <2>1. i - 1 \in 0..(n - 1)
    BY <1>1
  <2>2. Sorted(S)[i] = CHOOSE u \in S : Rank(S, u) = i - 1
    BY DEF Sorted, Rank
  <2>. QED
    BY <1>7, <2>1, <2>2
<1>9. \A u \in S : \E i \in 1..n : Sorted(S)[i] = u
  <2>. SUFFICES ASSUME NEW u \in S
                PROVE  \E i \in 1..n : Sorted(S)[i] = u
    OBVIOUS
  <2>. DEFINE i == Rank(S, u) + 1
  <2>1. i \in 1..n /\ i - 1 = Rank(S, u)
    <3>. HIDE DEF n
    <3>. QED
      BY <1>1, <1>2
  <2>. HIDE DEF i
  <2>2. Sorted(S)[i] \in S /\ Rank(S, Sorted(S)[i]) = Rank(S, u)
    BY <1>8, <2>1
  <2>3. Sorted(S)[i] = u
    BY <1>3, <2>2
  <2>. QED
    BY <2>1, <2>3
<1>10. DOMAIN Sorted(S) = 1..n /\ Sorted(S) = [i \in 1..n |-> Sorted(S)[i]]
  <2>. DEFINE Nth(i) == CHOOSE u \in S : Cardinality({v \in S : v < u}) = i - 1
  <2>1. Sorted(S) = [i \in 1..n |-> Nth(i)]
    BY Zenon DEF Sorted
  <2>. HIDE DEF Nth, n
  <2>. QED
    BY <2>1
<1>. HIDE DEF n
<1>11. Sorted(S) \in Seq(S) /\ Len(Sorted(S)) = n /\ DOMAIN Sorted(S) = 1..n
  BY <1>1, <1>8, <1>10
<1>. QED
  BY <1>1, <1>8, <1>9, <1>11 DEF n

-----------------------------------------------------------------------------
(***************************************************************************)
(* Sequences, sets and cells                                               *)
(***************************************************************************)

(* Writing k over the front of the array a keeps its length, and the slice *)
(* of the first Len(k) items is then k.                                    *)
LEMMA Overwrite ==
    ASSUME NEW T, NEW a \in Seq(T), NEW k \in Seq(T), Len(k) <= Len(a)
    PROVE  LET w == k \o SubSeq(a, Len(k) + 1, Len(a))
           IN  w \in Seq(T) /\ Len(w) = Len(a) /\ SubSeq(w, 1, Len(k)) = k
<1>. DEFINE b == SubSeq(a, Len(k) + 1, Len(a))
            w == k \o b
<1>1. b \in Seq(T) /\ Len(b) = Len(a) - Len(k)
  OBVIOUS
<1>. HIDE DEF b
<1>2. w \in Seq(T) /\ Len(w) = Len(a) /\ \A i \in 1..Len(k) : w[i] = k[i]
  BY <1>1
<1>. HIDE DEF w
<1>3. SubSeq(w, 1, Len(k)) = k
  BY <1>2
<1>. QED
  BY <1>2, <1>3 DEF w, b

(* The front of an array that a slice covers.                              *)
LEMMA Front ==
    ASSUME NEW T, NEW a \in Seq(T), NEW n \in Nat, n <= Len(a)
    PROVE  /\ SubSeq(a, 1, n) \in Seq(T)
           /\ Len(SubSeq(a, 1, n)) = n
           /\ \A i \in 1..n : SubSeq(a, 1, n)[i] = a[i]
  OBVIOUS

(* A set of pods is finite and no larger than the set of all pods.         *)
LEMMA PodSets ==
    ASSUME NEW S \in SUBSET UIDs
    PROVE  /\ S \in SUBSET Nat
           /\ IsFiniteSet(S)
           /\ Cardinality(S) \in 0..Cardinality(UIDs)
           /\ Cardinality(S) \in Nat
           /\ Cardinality(UIDs) \in Nat
<1>1. S \in SUBSET Nat /\ IsFiniteSet(UIDs)
  BY ConstantsAssumption DEF ConstantsAssumption
<1>2. IsFiniteSet(S) /\ Cardinality(S) <= Cardinality(UIDs)
  BY <1>1, FS_Subset
<1>3. Cardinality(S) \in Nat /\ Cardinality(UIDs) \in Nat
  BY <1>1, <1>2, FS_CardinalityType
<1>4. Cardinality(S) \in 0..Cardinality(UIDs)
  BY <1>2, <1>3
<1>. QED
  BY <1>1, <1>2, <1>3, <1>4

(* There are cells enough: an array can be allocated that is not the one   *)
(* of the cached slice, of a reader's slice or of Invalidate's.            *)
LEMMA FreeCellIsFree ==
    ASSUME TypeOK
    PROVE  /\ FreeCell \in Cells
           /\ FreeCell # entry.slice.cell
           /\ FreeCell # invalidation.slice.cell
           /\ \A r \in Readers : FreeCell # view[r].cell
<1>. DEFINE n    == Cardinality(Readers)
            f    == [r \in Readers |-> view[r].cell]
            V    == {view[r].cell : r \in Readers}
            V1   == V \cup {entry.slice.cell}
            Used == V1 \cup {invalidation.slice.cell}
<1>1. IsFiniteSet(Readers) /\ n \in Nat
  BY ConstantsAssumption, FS_CardinalityType DEF ConstantsAssumption
<1>2. f \in Surjection(Readers, V)
  BY DEF Surjection
<1>3. IsFiniteSet(V) /\ Cardinality(V) <= n
  <2>. HIDE DEF f, V
  <2>. QED
    BY <1>1, <1>2, FS_Surjection
<1>4. IsFiniteSet(Used) /\ Cardinality(Used) <= n + 2
  <2>. HIDE DEF V, n
  <2>1. Cardinality(V) \in Nat
    BY <1>3, FS_CardinalityType
  <2>2. /\ IsFiniteSet(V1)
        /\ Cardinality(V1) = Cardinality(V) \/ Cardinality(V1) = Cardinality(V) + 1
    BY <1>3, FS_AddElement
  <2>. HIDE DEF V1
  <2>3. /\ IsFiniteSet(Used)
        /\ Cardinality(Used) = Cardinality(V1) \/ Cardinality(Used) = Cardinality(V1) + 1
    BY <2>2, FS_AddElement
  <2>. HIDE DEF Used
  <2>. QED
    BY <1>1, <1>3, <2>1, <2>2, <2>3
<1>5. Cardinality(1..(n + 3)) = n + 3
  <2>. HIDE DEF n
  <2>1. 1 \in Int /\ n + 3 \in Int /\ ~(1 > n + 3) /\ (n + 3) - 1 + 1 = n + 3
    BY <1>1
  <2>. QED
    BY <2>1, FS_Interval
<1>6. \E c \in 1..(n + 3) : c \notin Used
  <2>. SUFFICES ASSUME 1..(n + 3) \in SUBSET Used PROVE FALSE
    <3>. HIDE DEF Used, n
    <3>. QED OBVIOUS
  <2>. HIDE DEF Used, n
  <2>1. Cardinality(1..(n + 3)) <= Cardinality(Used) /\ Cardinality(Used) \in Nat
    BY <1>4, FS_Subset, FS_CardinalityType
  <2>. QED
    BY <1>1, <1>4, <1>5, <2>1
<1>7. 1..(n + 3) \subseteq Cells \ {0}
  <2>. HIDE DEF n
  <2>1. Cells = 0..(n + 3)
    BY DEF Cells, n
  <2>. QED
    BY <1>1, <2>1
<1>8. \E c \in Cells \ {0} : /\ c # entry.slice.cell
                             /\ c # invalidation.slice.cell
                             /\ \A r \in Readers : c # view[r].cell
  <2>. HIDE DEF n
  <2>. QED
    BY <1>6, <1>7
<1>. QED
  BY <1>8, Zenon DEF FreeCell

-----------------------------------------------------------------------------
(***************************************************************************)
(* Types: no slice is ever longer than its array                           *)
(***************************************************************************)

(* The initial cache is well typed.                                        *)
LEMMA TypeInit == Init => TypeOK
<1>. SUFFICES ASSUME Init PROVE TypeOK
  OBVIOUS
<1>1. Cardinality(UIDs) \in Nat /\ Cardinality(Readers) \in Nat
  BY ConstantsAssumption, FS_CardinalityType DEF ConstantsAssumption
<1>2. 0 \in Cells
  BY <1>1 DEF Cells
<1>3. NoSlice \in Slice /\ NoSlice \in [cell: Cells, len: Nat]
  BY <1>1, <1>2 DEF NoSlice, Slice
<1>4. heap \in [Cells -> Seq(Item)] /\ heap[0] = <<>> /\ Len(<<>>) = 0
  BY <1>2 DEF Init
<1>5. /\ entry \in [collector: Collectors \cup {NoCollector}, slice: Slice]
      /\ view \in [Readers -> [cell: Cells, len: Nat]]
      /\ invalidation \in [pods: SUBSET UIDs, slice: Slice]
  BY <1>3 DEF Init, NoEntry
<1>6. \A slice \in {entry.slice, invalidation.slice} \cup
                   {view[r] : r \in Readers} : slice = NoSlice
  BY DEF Init, NoEntry
<1>7. NoSlice.len <= Len(heap[NoSlice.cell])
  BY <1>4 DEF NoSlice
<1>. QED
  BY <1>4, <1>5, <1>6, <1>7 DEF Init, TypeOK

(* The entry is deleted with the CosmosFullNode, or by a goroutine that    *)
(* ends.                                                                   *)
LEMMA DelType ==
    ASSUME TypeOK, NEW now \in [Collectors -> {"running", "cancelled", "done"}],
           Del(now), UNCHANGED <<crdExists, listed, born, heap, readerVars, invalidation>>
    PROVE  TypeOK'
<1>1. Cardinality(UIDs) \in Nat /\ Cardinality(Readers) \in Nat
  BY ConstantsAssumption, FS_CardinalityType DEF ConstantsAssumption
<1>2. 0 \in Cells
  BY <1>1 DEF Cells
<1>3. entry' \in [collector: Collectors \cup {NoCollector}, slice: Slice]
  BY <1>1, <1>2 DEF Del, NoEntry, NoSlice, Slice
<1>4. entry'.slice.len <= Len(heap[entry'.slice.cell])
  <2>1. heap[0] \in Seq(Item)
    BY <1>2 DEF TypeOK
  <2>2. Len(heap[0]) \in Nat
    BY <2>1
  <2>. QED
    BY <2>2 DEF Del, NoEntry, NoSlice
<1>. QED
  BY <1>3, <1>4 DEF TypeOK, Del, readerVars

(* A new entry, or a new result, gets a new array.                         *)
LEMMA AllocateType ==
    ASSUME TypeOK, NEW a \in Seq(Item), Len(a) \in 0..Cardinality(UIDs),
           heap' = [heap EXCEPT ![FreeCell] = a],
           entry'.slice = [cell |-> FreeCell, len |-> Len(a)],
           entry' \in [collector: Collectors \cup {NoCollector}, slice: Slice],
           collectors' \in [Collectors -> {"running", "cancelled", "done"}],
           UNCHANGED <<crdExists, listed, born, readerVars, invalidation>>
    PROVE  TypeOK'
<1>. USE DEF readerVars
<1>1. FreeCell \in Cells /\ FreeCell # invalidation.slice.cell
      /\ \A r \in Readers : FreeCell # view[r].cell
  BY FreeCellIsFree
<1>. DEFINE c == FreeCell
<1>. HIDE DEF c
<1>2. heap' \in [Cells -> Seq(Item)] /\ heap'[c] = a
      /\ \A d \in Cells : d # c => heap'[d] = heap[d]
  BY <1>1 DEF TypeOK, c
<1>3. entry'.slice.len <= Len(heap'[entry'.slice.cell])
  BY <1>2 DEF c
<1>4. invalidation.slice.len <= Len(heap'[invalidation.slice.cell])
  BY <1>1, <1>2 DEF TypeOK, Slice, c
<1>5. \A r \in Readers : view[r].len <= Len(heap'[view[r].cell])
  BY <1>1, <1>2 DEF TypeOK, c
<1>. QED
  BY <1>2, <1>3, <1>4, <1>5 DEF TypeOK

(* Reconcile caches an empty collection.                                   *)
LEMMA ReconcileExistingType == TypeOK /\ ReconcileExisting => TypeOK'
<1>. SUFFICES ASSUME TypeOK, ReconcileExisting PROVE TypeOK'
  OBVIOUS
<1>1. PICK g \in Collectors :
          /\ collectors' = [collectors EXCEPT ![g] = "running"]
          /\ entry' = [collector |-> g, slice |-> [cell |-> FreeCell, len |-> 0]]
          /\ heap' = [heap EXCEPT ![FreeCell] = <<>>]
  BY DEF ReconcileExisting
<1>2. Cardinality(UIDs) \in Nat
  BY ConstantsAssumption, FS_CardinalityType DEF ConstantsAssumption
<1>3. <<>> \in Seq(Item) /\ Len(<<>>) = 0 /\ 0 \in 0..Cardinality(UIDs)
  BY <1>2
<1>4. entry' \in [collector: Collectors \cup {NoCollector}, slice: Slice]
  BY <1>1, <1>3, FreeCellIsFree DEF Slice
<1>5. collectors' \in [Collectors -> {"running", "cancelled", "done"}]
  BY <1>1 DEF TypeOK
<1>6. entry'.slice = [cell |-> FreeCell, len |-> Len(<<>>)]
  BY <1>1, <1>3
<1>. QED
  BY <1>1, <1>3, <1>4, <1>5, <1>6, AllocateType DEF ReconcileExisting

(* What a poll of the listed pods stores: an item for each of them.        *)
LEMMA PollCovers ==
    ASSUME NEW S \in SUBSET UIDs, NEW answer \in [S -> ItemStatus]
    PROVE  /\ Statuses(answer) \in Seq(Item)
           /\ Len(Statuses(answer)) = Cardinality(S)
           /\ PodsOf(Statuses(answer)) = S
<1>. DEFINE pods  == Sorted(S)
            n     == Cardinality(S)
            items == [i \in DOMAIN pods |-> [pod |-> pods[i],
                                             status |-> answer[pods[i]]]]
<1>1. /\ DOMAIN pods = 1..n /\ n \in Nat
      /\ {pods[i] : i \in 1..n} = S
  BY PodSets, SortedCovers
<1>. HIDE DEF pods, n
<1>2. \A i \in 1..n : pods[i] \in S
  BY <1>1
<1>3. items \in [1..n -> Item]
  BY <1>1, <1>2 DEF Item
<1>4. items \in Seq(Item) /\ Len(items) = n /\ DOMAIN items = 1..n
  <2>. HIDE DEF items
  <2>. QED
    BY <1>1, <1>3
<1>5. PodsOf(items) = {pods[i] : i \in 1..n}
  BY <1>1 DEF PodsOf
<1>6. items = Statuses(answer)
  <2>1. DOMAIN answer = S
    OBVIOUS
  <2>. QED
    BY <2>1, Zenon DEF Statuses, pods
<1>. HIDE DEF items
<1>. QED
  BY <1>1, <1>4, <1>5, <1>6 DEF n

(* A poll stores a new array of the items of the listed pods.              *)
LEMMA CollectFromPodsType ==
    ASSUME TypeOK, NEW g \in Collectors, CollectFromPods(g)
    PROVE  TypeOK'
<1>1. listed \in SUBSET UIDs
  BY DEF TypeOK
<1>2. PICK answer \in [listed -> ItemStatus] :
          heap' = [heap EXCEPT ![FreeCell] = Statuses(answer)]
  <2>1. PICK answer \in [listed -> IF collectors[g] = "running"
                                   THEN {"notSynced", "inSync"}
                                   ELSE {"notSynced"}] :
          heap' = [heap EXCEPT ![FreeCell] = Statuses(answer)]
    BY Zenon DEF CollectFromPods
  <2>2. answer \in [listed -> ItemStatus]
    BY DEF ItemStatus
  <2>. QED
    BY <2>1, <2>2, Zenon
<1>. DEFINE a == Statuses(answer)
<1>3. a \in Seq(Item) /\ Len(a) = Cardinality(listed)
  BY <1>1, PollCovers
<1>4. heap' = [heap EXCEPT ![FreeCell] = a]
  BY <1>2
<1>. HIDE DEF a
<1>5. Cardinality(listed) \in 0..Cardinality(UIDs)
  BY <1>1, PodSets
<1>6. entry' = [entry EXCEPT !.slice = [cell |-> FreeCell, len |-> Len(a)]]
  BY <1>3 DEF CollectFromPods
<1>7. /\ entry'.slice = [cell |-> FreeCell, len |-> Len(a)]
      /\ entry' \in [collector: Collectors \cup {NoCollector}, slice: Slice]
  BY <1>3, <1>5, <1>6, FreeCellIsFree DEF TypeOK, Slice
<1>8. collectors' \in [Collectors -> {"running", "cancelled", "done"}]
  BY DEF TypeOK, CollectFromPods
<1>. QED
  BY <1>3, <1>4, <1>5, <1>7, <1>8, AllocateType DEF CollectFromPods

(* The compaction of IntersectPods keeps, in order, the items of the pods  *)
(* P among the first n of the array.                                       *)
LEMMA CompactionKeeps ==
    ASSUME NEW a \in Seq(Item), NEW n \in Nat, n <= Len(a), NEW P
    PROVE  LET at   == Sorted({i \in 1..n : a[i].pod \in P})
               kept == [j \in DOMAIN at |-> a[at[j]]]
           IN  /\ kept \in Seq(Item)
               /\ Len(kept) <= n
<1>. DEFINE S    == {i \in 1..n : a[i].pod \in P}
            at   == Sorted(S)
            m    == Cardinality(S)
            kept == [j \in DOMAIN at |-> a[at[j]]]
<1>1. IsFiniteSet(1..n) /\ Cardinality(1..n) = n
  <2>1. 1 \in Int /\ n \in Int /\ (IF 1 > n THEN 0 ELSE n - 1 + 1) = n
    OBVIOUS
  <2>. QED
    BY <2>1, FS_Interval
<1>2. S \in SUBSET Nat /\ S \in SUBSET (1..n)
  OBVIOUS
<1>3. \A i \in S : a[i] \in Item /\ a[i].pod \in P
  OBVIOUS
<1>4. \A i \in 1..n : a[i].pod \in P => i \in S
  OBVIOUS
<1>. HIDE DEF S
<1>5. IsFiniteSet(S) /\ m <= n
  BY <1>1, <1>2, FS_Subset
<1>6. /\ DOMAIN at = 1..m /\ m \in Nat
      /\ {at[j] : j \in 1..m} = S
  BY <1>2, <1>5, SortedCovers
<1>. HIDE DEF at, m
<1>7. \A j \in 1..m : at[j] \in S
  BY <1>6
<1>8. kept \in [1..m -> Item]
  BY <1>3, <1>6, <1>7
<1>9. kept \in Seq(Item) /\ Len(kept) = m /\ DOMAIN kept = 1..m
  <2>. HIDE DEF kept
  <2>. QED
    BY <1>6, <1>8
<1>. QED
  BY <1>5, <1>9 DEF S, at, m, kept

(* What IntersectPods does to the arrays and leaves to its reader.         *)
LEMMA IntersectPodsEffect ==
    ASSUME TypeOK, NEW r \in Readers, IntersectPods(r)
    PROVE  \E c \in Cells, n \in Nat :
              /\ view' = [view EXCEPT ![r] = [cell |-> c, len |-> n]]
              /\ n <= Len(heap'[c])
              /\ heap' \in [Cells -> Seq(Item)]
              /\ \A d \in Cells : d # FreeCell => Len(heap'[d]) = Len(heap[d])
<1>. DEFINE slice == IF Cached THEN entry.slice
                               ELSE [cell |-> FreeCell, len |-> 0]
            array == IF Cached THEN heap[slice.cell] ELSE <<>>
            at    == Sorted({i \in 1..slice.len : array[i].pod \in podList[r]})
            kept  == [j \in DOMAIN at |-> array[at[j]]]
            w     == kept \o SubSeq(array, Len(kept) + 1, Len(array))
<1>1. /\ slice.cell \in Cells /\ slice.len \in Nat
      /\ array \in Seq(Item) /\ slice.len <= Len(array)
      /\ slice.cell # FreeCell => Len(array) = Len(heap[slice.cell])
  <2>1. CASE Cached
    BY <2>1, PodSets DEF TypeOK, Slice
  <2>2. CASE ~Cached
    BY <2>2, FreeCellIsFree
  <2>. QED
    BY <2>1, <2>2
<1>2. /\ heap' = [heap EXCEPT ![slice.cell] = w]
      /\ view' = [view EXCEPT ![r] = [cell |-> slice.cell, len |-> Len(kept)]]
  BY Zenon DEF IntersectPods
<1>. HIDE DEF slice, array
<1>3. kept \in Seq(Item) /\ Len(kept) <= slice.len
  BY <1>1, CompactionKeeps
<1>. HIDE DEF kept
<1>4. Len(kept) \in Nat /\ Len(kept) <= Len(array)
  BY <1>1, <1>3
<1>5. w \in Seq(Item) /\ Len(w) = Len(array) /\ SubSeq(w, 1, Len(kept)) = kept
  BY <1>1, <1>3, <1>4, Overwrite
<1>. HIDE DEF w
<1>6. /\ heap' \in [Cells -> Seq(Item)] /\ heap'[slice.cell] = w
      /\ \A d \in Cells : d # slice.cell => heap'[d] = heap[d]
  BY <1>1, <1>2, <1>5 DEF TypeOK
<1>7. \A d \in Cells : d # FreeCell => Len(heap'[d]) = Len(heap[d])
  BY <1>1, <1>5, <1>6
<1>8. Len(kept) <= Len(heap'[slice.cell])
  BY <1>4, <1>5, <1>6
<1>. QED
  BY <1>1, <1>2, <1>4, <1>6, <1>7, <1>8

(* What UpsertPod, called for every listed pod, does to the arrays and     *)
(* leaves to its reader.                                                   *)
LEMMA UpsertPodsEffect ==
    ASSUME TypeOK, NEW r \in Readers, UpsertPods(r)
    PROVE  \E c \in Cells, n \in Nat :
              /\ view' = [view EXCEPT ![r] = [cell |-> c, len |-> n]]
              /\ n <= Len(heap'[c])
              /\ heap' \in [Cells -> Seq(Item)]
              /\ \A d \in Cells : d # FreeCell => Len(heap'[d]) = Len(heap[d])
<1>. DEFINE slice   == view[r]
            array   == heap[slice.cell]
            items   == Items(slice)
            lacking == podList[r] \ PodsOf(items)
            added   == Statuses([u \in lacking |-> "missing"])
            full    == items \o added
            room    == Len(array)
<1>1. /\ slice \in [cell: Cells, len: Nat] /\ slice.cell \in Cells /\ slice.len \in Nat
      /\ array \in Seq(Item) /\ room \in Nat /\ slice.len <= room
  BY DEF TypeOK
<1>2. items \in Seq(Item) /\ Len(items) = slice.len
  BY <1>1, Front DEF Items
<1>3. lacking \in SUBSET UIDs
  BY DEF TypeOK
<1>4. added \in Seq(Item)
  <2>. HIDE DEF lacking
  <2>1. [u \in lacking |-> "missing"] \in [lacking -> ItemStatus]
    BY DEF ItemStatus
  <2>. QED
    BY <1>3, <2>1, PollCovers
<1>5. /\ IF Len(full) <= room
         THEN /\ heap' = [heap EXCEPT ![slice.cell] =
                             full \o SubSeq(array, Len(full) + 1, room)]
              /\ view' = [view EXCEPT ![r].len = Len(full)]
         ELSE /\ heap' = [heap EXCEPT ![slice.cell] = SubSeq(full, 1, room),
                                      ![FreeCell] = full]
              /\ view' = [view EXCEPT ![r] = [cell |-> FreeCell,
                                              len |-> Len(full)]]
  BY Zenon DEF UpsertPods
<1>. HIDE DEF added, lacking
<1>7. full \in Seq(Item) /\ Len(full) \in Nat
  BY <1>2, <1>4
<1>. HIDE DEF full
<1>10. CASE Len(full) <= room
  <2>. DEFINE w == full \o SubSeq(array, Len(full) + 1, room)
  <2>1. w \in Seq(Item) /\ Len(w) = room /\ SubSeq(w, 1, Len(full)) = full
    BY <1>1, <1>7, <1>10, Overwrite
  <2>2. /\ heap' = [heap EXCEPT ![slice.cell] = w]
        /\ view' = [view EXCEPT ![r].len = Len(full)]
    BY <1>5, <1>10
  <2>. HIDE DEF w
  <2>3. view' = [view EXCEPT ![r] = [cell |-> slice.cell, len |-> Len(full)]]
    <3>1. view \in [Readers -> [cell: Cells, len: Nat]]
      BY DEF TypeOK
    <3>2. [view[r] EXCEPT !.len = Len(full)] = [cell |-> view[r].cell, len |-> Len(full)]
      BY <3>1
    <3>. QED
      BY <2>2, <3>1, <3>2
  <2>4. /\ heap' \in [Cells -> Seq(Item)] /\ heap'[slice.cell] = w
        /\ \A d \in Cells : d # slice.cell => heap'[d] = heap[d]
    BY <1>1, <2>1, <2>2 DEF TypeOK
  <2>5. \A d \in Cells : Len(heap'[d]) = Len(heap[d])
    BY <2>1, <2>4
  <2>6. Len(full) <= Len(heap'[slice.cell])
    BY <1>10, <2>1, <2>4
  <2>. QED
    BY <1>1, <1>7, <2>3, <2>4, <2>5, <2>6
<1>11. CASE ~(Len(full) <= room)
  <2>. DEFINE w == SubSeq(full, 1, room)
              c == FreeCell
  <2>1. w \in Seq(Item) /\ Len(w) = room
    BY <1>1, <1>7, <1>11, Front
  <2>2. /\ heap' = [heap EXCEPT ![slice.cell] = w, ![c] = full]
        /\ view' = [view EXCEPT ![r] = [cell |-> c, len |-> Len(full)]]
    BY <1>5, <1>11
  <2>3. c \in Cells /\ c # slice.cell
    BY FreeCellIsFree
  <2>. HIDE DEF w, c
  <2>4. /\ heap' \in [Cells -> Seq(Item)] /\ heap'[slice.cell] = w /\ heap'[c] = full
        /\ \A d \in Cells : d # slice.cell /\ d # c => heap'[d] = heap[d]
    BY <1>1, <1>7, <2>1, <2>2, <2>3 DEF TypeOK
  <2>5. \A d \in Cells : d # c => Len(heap'[d]) = Len(heap[d])
    BY <2>1, <2>4
  <2>6. Len(full) <= Len(heap'[c])
    BY <1>7, <2>4
  <2>. QED
    BY <1>7, <2>2, <2>3, <2>4, <2>5, <2>6 DEF c
<1>. QED
  BY <1>10, <1>11

(* A reader's step keeps the types when it shortens no array.              *)
LEMMA ReaderType ==
    ASSUME TypeOK, NEW r \in Readers, NEW c \in Cells, NEW n \in Nat,
           view' = [view EXCEPT ![r] = [cell |-> c, len |-> n]],
           n <= Len(heap'[c]),
           heap' \in [Cells -> Seq(Item)],
           \A d \in Cells : d # FreeCell => Len(heap'[d]) = Len(heap[d]),
           pc' \in [Readers -> {"idle", "listed", "intersected", "done"}],
           UNCHANGED <<crdExists, listed, born, entry, collectors, podList, invalidation>>
    PROVE  TypeOK'
<1>1. entry.slice.cell \in Cells /\ invalidation.slice.cell \in Cells
  BY DEF TypeOK, Slice
<1>2. entry.slice.len <= Len(heap'[entry.slice.cell])
  BY <1>1, FreeCellIsFree DEF TypeOK
<1>3. invalidation.slice.len <= Len(heap'[invalidation.slice.cell])
  BY <1>1, FreeCellIsFree DEF TypeOK
<1>4. view' \in [Readers -> [cell: Cells, len: Nat]]
  BY DEF TypeOK
<1>5. \A q \in Readers : view'[q].len <= Len(heap'[view'[q].cell])
  <2>. SUFFICES ASSUME NEW q \in Readers
                PROVE  view'[q].len <= Len(heap'[view'[q].cell])
    OBVIOUS
  <2>1. view \in [Readers -> [cell: Cells, len: Nat]]
    BY DEF TypeOK
  <2>2. CASE q = r
    BY <2>1, <2>2
  <2>3. CASE q # r
    <3>1. view'[q] = view[q] /\ view[q].cell \in Cells
      BY <2>1, <2>3
    <3>2. view[q].len <= Len(heap[view[q].cell])
      BY DEF TypeOK
    <3>. QED
      BY <3>1, <3>2, FreeCellIsFree
  <2>. QED
    BY <2>2, <2>3
<1>. QED
  BY <1>2, <1>3, <1>4, <1>5 DEF TypeOK

(* Every step of the cache, its readers and its world keeps the types.     *)
LEMMA TypeStep == TypeOK /\ [Next]_vars => TypeOK'
<1>. SUFFICES ASSUME TypeOK, [Next]_vars PROVE TypeOK'
  OBVIOUS
<1>0. 0 \in Cells /\ 0 \in 0..Cardinality(UIDs)
      /\ NoSlice \in Slice /\ NoSlice \in [cell: Cells, len: Nat]
      /\ NoSlice.len <= Len(heap[NoSlice.cell])
  <2>1. Cardinality(UIDs) \in Nat /\ Cardinality(Readers) \in Nat
    BY ConstantsAssumption, FS_CardinalityType DEF ConstantsAssumption
  <2>2. 0 \in Cells
    BY <2>1 DEF Cells
  <2>3. heap[0] \in Seq(Item)
    BY <2>2 DEF TypeOK
  <2>4. Len(heap[0]) \in Nat
    BY <2>3
  <2>. QED
    BY <2>1, <2>2, <2>4 DEF NoSlice, Slice
<1>1. CASE ReconcileDeleted
  BY <1>1, DelType DEF ReconcileDeleted, TypeOK
<1>2. CASE ReconcileExisting
  BY <1>2, ReconcileExistingType
<1>3. CASE \E g \in Collectors : CollectFromPods(g)
  BY <1>3, CollectFromPodsType
<1>4. CASE \E g \in Collectors : CollectorExits(g)
  <2>1. PICK g \in Collectors : CollectorExits(g)
    BY <1>4
  <2>2. [collectors EXCEPT ![g] = "done"] \in [Collectors -> {"running", "cancelled", "done"}]
    BY DEF TypeOK
  <2>. QED
    BY <2>1, <2>2, DelType DEF CollectorExits
<1>5. CASE \E r \in Readers : ListPods(r)
  BY <1>5 DEF ListPods, TypeOK
<1>6. CASE \E r \in Readers : IntersectPods(r)
  <2>1. PICK r \in Readers : IntersectPods(r)
    BY <1>6
  <2>2. /\ pc' \in [Readers -> {"idle", "listed", "intersected", "done"}]
        /\ UNCHANGED <<crdExists, listed, born, entry, collectors, podList, invalidation>>
    BY <2>1 DEF IntersectPods, TypeOK
  <2>. QED
    BY <2>1, <2>2, IntersectPodsEffect, ReaderType
<1>7. CASE \E r \in Readers : UpsertPods(r)
  <2>1. PICK r \in Readers : UpsertPods(r)
    BY <1>7
  <2>2. /\ pc' \in [Readers -> {"idle", "listed", "intersected", "done"}]
        /\ UNCHANGED <<crdExists, listed, born, entry, collectors, podList, invalidation>>
    BY <2>1 DEF UpsertPods, TypeOK
  <2>. QED
    BY <2>1, <2>2, UpsertPodsEffect, ReaderType
<1>8. CASE \E r \in Readers : Finish(r)
  <2>1. PICK r \in Readers : Finish(r)
    BY <1>8
  <2>2. view' \in [Readers -> [cell: Cells, len: Nat]]
    BY <1>0, <2>1 DEF Finish, TypeOK
  <2>3. \A q \in Readers : view'[q].len <= Len(heap[view'[q].cell])
    <3>. SUFFICES ASSUME NEW q \in Readers
                  PROVE  view'[q].len <= Len(heap[view'[q].cell])
      OBVIOUS
    <3>1. view' = [view EXCEPT ![r] = NoSlice]
      BY <2>1 DEF Finish
    <3>2. CASE q = r
      BY <1>0, <3>1, <3>2 DEF TypeOK
    <3>3. CASE q # r
      BY <3>1, <3>3 DEF TypeOK
    <3>. QED
      BY <3>2, <3>3
  <2>4. podList' \in [Readers -> SUBSET UIDs]
        /\ pc' \in [Readers -> {"idle", "listed", "intersected", "done"}]
    BY <2>1 DEF Finish, TypeOK
  <2>. QED
    BY <2>1, <2>2, <2>3, <2>4 DEF Finish, TypeOK
<1>9. CASE InvalidateGet
  <2>1. /\ invalidation' \in [pods: SUBSET UIDs, slice: Slice]
        /\ invalidation'.slice \in {entry.slice, NoSlice}
    BY <1>0, <1>9 DEF InvalidateGet, TypeOK
  <2>2. invalidation'.slice.len <= Len(heap[invalidation'.slice.cell])
    BY <1>0, <2>1 DEF TypeOK
  <2>. QED
    BY <1>9, <2>1, <2>2 DEF InvalidateGet, TypeOK, readerVars
<1>10. CASE InvalidateUpdate
  <2>1. /\ entry' \in [collector: Collectors \cup {NoCollector}, slice: Slice]
        /\ entry'.slice \in {entry.slice, invalidation.slice}
    BY <1>10 DEF InvalidateUpdate, TypeOK
  <2>2. entry'.slice.len <= Len(heap[entry'.slice.cell])
    BY <2>1 DEF TypeOK
  <2>3. invalidation' = [pods |-> {}, slice |-> NoSlice]
    BY <1>10 DEF InvalidateUpdate
  <2>4. invalidation' \in [pods: SUBSET UIDs, slice: Slice] /\ invalidation'.slice = NoSlice
    BY <1>0, <2>3
  <2>5. invalidation'.slice.len <= Len(heap[invalidation'.slice.cell])
    BY <1>0, <2>4
  <2>. QED
    BY <1>10, <2>1, <2>2, <2>4, <2>5 DEF InvalidateUpdate, TypeOK, readerVars
<1>11. CASE \E u \in UIDs : PodAppears(u) \/ PodVanishes(u)
  <2>1. listed' \subseteq born' /\ born' \subseteq UIDs
    BY <1>11 DEF PodAppears, PodVanishes, TypeOK
  <2>2. UNCHANGED <<crdExists, heap, entry, collectors, pc, podList, view, invalidation>>
    BY <1>11 DEF PodAppears, PodVanishes, readerVars
  <2>. QED
    BY <2>1, <2>2 DEF TypeOK
<1>12. CASE CRDChanges
  BY <1>12 DEF CRDChanges, TypeOK, readerVars
<1>13. CASE UNCHANGED vars
  BY <1>13 DEF vars, TypeOK, readerVars
<1>. QED
  BY <1>1, <1>2, <1>3, <1>4, <1>5, <1>6, <1>7, <1>8, <1>9, <1>10, <1>11,
     <1>12, <1>13 DEF Next, Collect

(* Every variable keeps its type and no slice ever reaches behind the end  *)
(* of its array, although readers compact and append to the arrays that    *)
(* the cache, Invalidate and other readers hold slices of: the indexing in *)
(* IntersectPods and UpsertPod is never out of range.                      *)
THEOREM TypeCorrect == Spec => []TypeOK
  BY TypeInit, TypeStep, PTL DEF Spec

-----------------------------------------------------------------------------
(***************************************************************************)
(* One collecting goroutine per entry                                      *)
(***************************************************************************)

(* A step keeps exactly the entry's goroutine running.                     *)
LEMMA CollectorStep ==
    ASSUME TypeOK, CollectorMatchesEntry, [Next]_vars
    PROVE  CollectorMatchesEntry'
<1>. USE DEF CollectorMatchesEntry, Cached
<1>1. CASE ReconcileDeleted
  BY <1>1 DEF ReconcileDeleted, Del, NoEntry, TypeOK
<1>2. CASE ReconcileExisting
  BY <1>2, ConstantsAssumption DEF ReconcileExisting, TypeOK, ConstantsAssumption
<1>3. CASE \E g \in Collectors : CollectFromPods(g)
  BY <1>3 DEF CollectFromPods, TypeOK
<1>4. CASE \E g \in Collectors : CollectorExits(g)
  BY <1>4 DEF CollectorExits, Del, NoEntry, TypeOK
<1>5. CASE InvalidateUpdate
  BY <1>5 DEF InvalidateUpdate, TypeOK
<1>6. CASE UNCHANGED <<entry, collectors>>
  BY <1>6
<1>. QED
  BY <1>1, <1>2, <1>3, <1>4, <1>5, <1>6
     DEF Next, Collect, ListPods, IntersectPods, UpsertPods, Finish, InvalidateGet,
         PodAppears, PodVanishes, CRDChanges, vars

(* However often the CosmosFullNode is deleted and created, and although a *)
(* goroutine that ends deletes the entry of its successor, exactly the     *)
(* goroutine of the entry collects: none is left behind, and no entry has  *)
(* nobody to feed it.                                                      *)
THEOREM OneCollectorPerEntry == Spec => []CollectorMatchesEntry
<1>1. Init => CollectorMatchesEntry
  BY DEF Init, CollectorMatchesEntry, Cached, NoEntry
<1>2. TypeOK /\ CollectorMatchesEntry /\ [Next]_vars => CollectorMatchesEntry'
  BY CollectorStep
<1>. QED
  BY <1>1, <1>2, TypeCorrect, PTL DEF Spec

-----------------------------------------------------------------------------
(***************************************************************************)
(* What Collect has returned                                               *)
(***************************************************************************)

(* A step of anything but a reader.                                        *)
Bystanding ==
    \/ ReconcileDeleted \/ ReconcileExisting
    \/ \E g \in Collectors : CollectFromPods(g) \/ CollectorExits(g)
    \/ InvalidateGet \/ InvalidateUpdate
    \/ \E u \in UIDs : PodAppears(u) \/ PodVanishes(u)
    \/ CRDChanges
    \/ UNCHANGED vars

(* Such a step writes to new arrays only.                                  *)
LEMMA BystandersWrite ==
    ASSUME TypeOK, Bystanding
    PROVE  /\ UNCHANGED readerVars
           /\ \A r \in Readers : heap'[view[r].cell] = heap[view[r].cell]
<1>1. CASE UNCHANGED <<readerVars, heap>>
  BY <1>1
<1>2. CASE ReconcileExisting
  BY <1>2, FreeCellIsFree DEF ReconcileExisting, TypeOK
<1>3. CASE \E g \in Collectors : CollectFromPods(g)
  <2>1. PICK a : heap' = [heap EXCEPT ![FreeCell] = a]
    BY <1>3, Zenon DEF CollectFromPods
  <2>2. UNCHANGED readerVars
    BY <1>3 DEF CollectFromPods
  <2>3. \A r \in Readers : heap'[view[r].cell] = heap[view[r].cell]
    BY <2>1, FreeCellIsFree DEF TypeOK
  <2>. QED
    BY <2>2, <2>3
<1>. QED
  BY <1>1, <1>2, <1>3
     DEF Bystanding, ReconcileDeleted, CollectorExits, InvalidateGet,
         InvalidateUpdate, PodAppears, PodVanishes, CRDChanges, vars

(* ResultStable for any pods, collectors and number of readers: readers    *)
(* have only each other to fear.                                           *)
THEOREM OnlyReadersOverwrite == Spec => ResultStable
<1>1. ASSUME TypeOK, [Next]_vars, pc' = pc
      PROVE  \A r \in Readers : Items(view[r])' = Items(view[r])
  <2>1. Bystanding
    <3>1. ASSUME NEW r \in Readers PROVE ~(Collect(r) \/ Finish(r))
      BY <1>1 DEF Collect, ListPods, IntersectPods, UpsertPods, Finish, TypeOK
    <3>. QED
      BY <1>1, <3>1 DEF Next, Bystanding
  <2>2. /\ UNCHANGED readerVars
        /\ \A r \in Readers : heap'[view[r].cell] = heap[view[r].cell]
    BY <1>1, <2>1, BystandersWrite
  <2>. QED
    BY <2>2 DEF readerVars, Items
<1>2. TypeOK /\ [Next]_vars => [ResultStableStep]_vars
  BY <1>1 DEF ResultStableStep
<1>. QED
  BY <1>2, TypeCorrect, PTL DEF Spec, ResultStable

=============================================================================
