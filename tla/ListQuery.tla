------------------------------- MODULE ListQuery -------------------------------
(***************************************************************************)
(* The list algorithms behind the resource getters and the API results:    *)
(* DefaultList's filter and sort (pkg/middles/resources/v1alpha3/          *)
(* interface.go), the metadata order it sorts by, and the index removal    *)
(* WithListAndFilter applies through sliceutil.RemoveSubSlice              *)
(* (pkg/api/types.go, pkg/utils/sliceutil/sliceutil.go).                   *)
(*                                                                         *)
(* Go's sort.Slice sorts a slice of at most 12 elements by insertion sort  *)
(* (pdqsort's maxInsertion); that is the algorithm modelled here, and every *)
(* check stays within that bound.  Longer slices are sorted by pdqsort,     *)
(* which is not modelled.                                                   *)
(*                                                                         *)
(* An object's metadata is a record [name |-> n, created |-> t]: names are  *)
(* compared as strings.Compare compares them, by their rank n, and t is    *)
(* the CreationTimestamp, in seconds.  Go's slice indices are kept (from 0) *)
(* where the code computes with them.                                       *)
(***************************************************************************)
EXTENDS Naturals, Sequences, SequencesExt

MaxInsertion == 12

Swap(s, i, j) == [s EXCEPT ![i] = s[j], ![j] = s[i]]

\* sort.Slice(s, less), for Len(s) <= MaxInsertion: insertionSort_func
\* moves the element at position i left while data.Less(j, j-1).  Less sees
\* the slice and two positions, as the closure passed to sort.Slice does.
SortSlice(s, Less(_, _, _)) ==
    LET RECURSIVE SiftLeft(_, _), InsertFrom(_, _)
        SiftLeft(t, j) ==
            IF j > 1 /\ Less(t, j, j - 1) THEN SiftLeft(Swap(t, j, j - 1), j - 1)
                                          ELSE t
        InsertFrom(t, i) ==
            IF i > Len(t) THEN t ELSE InsertFrom(SiftLeft(t, i), i + 1)
    IN  InsertFrom(s, 2)

\* DefaultObjectMetaCompare: TRUE when left is "greater" than right.  Any
\* sortBy other than "name" orders by CreationTimestamp, then by name.
DefaultObjectMetaCompare(left, right, sortBy) ==
    \/ sortBy = "name" /\ left.name > right.name
    \/ /\ sortBy # "name"
       /\ \/ left.created > right.created
          \/ left.created = right.created /\ left.name > right.name

\* A DefaultList that forgets to negate compare when q.ascending.
DefaultListAscendingUnnegated(objects, q, selected) ==
    LET Less(s, i, j) == DefaultObjectMetaCompare(s[i], s[j], q.sortBy)
    IN  SortSlice(SelectSeq(objects, LAMBDA o : o \in selected), Less)

\* DefaultList(objects, q, compare, filter): the objects every filter of q
\* selects (the set selected), sorted descending by the compare function unless q.ascending,
\* in which case the closure is the negation of compare.  Pagination is the
\* query package's (not in this repository); every caller modelled here
\* lists without it.
DefaultList(objects, q, selected) ==
    LET filtered == SelectSeq(objects, LAMBDA o : o \in selected)
        Less(s, i, j) ==
            IF q.ascending THEN ~DefaultObjectMetaCompare(s[i], s[j], q.sortBy)
                           ELSE DefaultObjectMetaCompare(s[i], s[j], q.sortBy)
    IN  SortSlice(filtered, Less)

\* A closure comparing the indices stored in sub, in increasing order.
RemoveSubSliceLessByValue(s, i, j) == s[i] < s[j]

\* The closure RemoveSubSlice sorts sub with: it compares the positions i
\* and j, not the indices stored there.
RemoveSubSliceLess(s, i, j) == i > j

\* RemoveSubSlice(slice, sub): sort sub, then cut slice[i] out for each i in
\* that order, skipping an index out of range.
RemoveSubSlice(slice, sub) ==
    LET Cut(sl, i) == IF i >= Len(sl) THEN sl ELSE RemoveAt(sl, i + 1)
    IN  FoldLeft(Cut, slice, SortSlice(sub, RemoveSubSliceLess))

\* Result.WithListAndFilter(list, querier): the indices of the items some
\* metadata filter rejects (those not in matched), collected in increasing
\* order, are removed.
WithListAndFilter(list, matched) ==
    LET toDels == SelectSeq([k \in 1..Len(list) |-> k - 1],
                            LAMBDA k : list[k + 1] \notin matched)
    IN  RemoveSubSlice(list, toDels)

-----------------------------------------------------------------------------
(***************************************************************************)
(* Reference definitions.                                                  *)
(***************************************************************************)

\* The strict order DefaultList promises: a before b.
ListedBefore(a, b, q) ==
    IF q.ascending THEN DefaultObjectMetaCompare(b, a, q.sortBy)
                   ELSE DefaultObjectMetaCompare(a, b, q.sortBy)

Queries == [ascending : BOOLEAN, sortBy : {"name", "creationTimestamp"}]

\* DefaultList returns exactly the objects selected, in the promised order.
SortedAsPromised(objects, q, selected) ==
    DefaultList(objects, q, selected)
      = SortSeq(SelectSeq(objects, LAMBDA o : o \in selected),
                LAMBDA a, b : ListedBefore(a, b, q))

\* WithListAndFilter keeps exactly the matched items, in their order.
KeepsMatches(list, matched) ==
    WithListAndFilter(list, matched) = SelectSeq(list, LAMBDA x : x \in matched)
=============================================================================
