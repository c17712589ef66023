------------------------------- MODULE HeapOps -------------------------------
(***************************************************************************)
(* The heap of lib/isc/heap.c: a binary heap in an array that tells each   *)
(* element where it is (the callback `index').  A heap is a record of      *)
(*   array  the elements, array[1] the one of highest priority, and        *)
(*   index  for each element what the last callback told it; an element    *)
(*          that leaves the heap is not told, its owner sets it to 0.      *)
(* `due' gives the priority of each element: the callback `compare' of the *)
(* timers is sooner() (timer.c).                                           *)
(***************************************************************************)
EXTENDS Naturals, FiniteSets, Sequences, SequencesExt

\* timer.c: sooner()
sooner(due, a, b) == due[a] < due[b]

\* heap->array[i] = elt, and elt is told.
set_index(heap, i, elt) ==
    [array |-> [heap.array EXCEPT ![i] = elt], index |-> [heap.index EXCEPT ![elt] = i]]

\* Parents move down until elt has found its place at i or above.
float_up(heap, i, elt, due) ==
    LET up[k \in 1 .. Len(heap.array)] ==
            IF k > 1 /\ sooner(due, elt, heap.array[k \div 2])
            THEN set_index(up[k \div 2], k, heap.array[k \div 2])
            ELSE set_index(heap, k, elt)
    IN  up[i]

\* The child of i that has to come first.
SmallerChild(heap, i, due) ==
    LET j == 2 * i
    IN  IF j < Len(heap.array) /\ sooner(due, heap.array[j + 1], heap.array[j])
        THEN j + 1 ELSE j

\* Children move up until elt has found its place at i or below.
sink_down(heap, i, elt, due) ==
    LET down[k \in 1 .. Len(heap.array)] ==
            LET j == SmallerChild(heap, k, due)
            IN  IF k <= Len(heap.array) \div 2 /\ ~sooner(due, elt, heap.array[j])
                THEN set_index(down[j], k, heap.array[j])
                ELSE set_index(heap, k, elt)
    IN  down[i]

isc_heap_insert(heap, elt, due) ==
    float_up([heap EXCEPT !.array = Append(@, elt)], Len(heap.array) + 1, elt, due)

\* Mutant: the last element only ever sinks.
isc_heap_delete_sinks(heap, i, due) ==
    LET rest == [heap EXCEPT !.array = Front(@)]
    IN  IF i = Len(heap.array) THEN rest
        ELSE sink_down(rest, i, Last(heap.array), due)

\* The last element takes the place of the one that is deleted.
isc_heap_delete(heap, i, due) ==
    LET rest == [heap EXCEPT !.array = Front(@)]
        elt == Last(heap.array)
    IN  IF i = Len(heap.array) THEN rest
        ELSE IF sooner(due, elt, heap.array[i])
             THEN float_up(rest, i, elt, due)
             ELSE sink_down(rest, i, elt, due)

isc_heap_increased(heap, i, due) == float_up(heap, i, heap.array[i], due)

isc_heap_decreased(heap, i, due) == sink_down(heap, i, heap.array[i], due)

isc_heap_element(heap, i) == heap.array[i]

-----------------------------------------------------------------------------
(* HEAPCONDITION (heap.c:59), and each element knows where it is. *)
IsHeap(heap, due) ==
    LET a == heap.array
    IN  /\ \A i \in 2 .. Len(a) : ~sooner(due, a[i], a[i \div 2])
        /\ \A i \in 1 .. Len(a) : heap.index[a[i]] = i

\* The heap of the elements 1..n in this order; n + 1 is outside.
HeapOf(n) == [array |-> [i \in 1 .. n |-> i], index |-> [e \in 1 .. n + 1 |-> IF e <= n THEN e ELSE 0]]

(* Whatever element is inserted, deleted or given another priority: the     *)
(* result is a heap of the right elements.  For all heaps of up to n        *)
(* elements with priorities 1..k.                                           *)
HeapOpsCorrect(n, k) ==
    \A m \in 1 .. n : \A due \in [1 .. m + 1 -> 1 .. k] : IsHeap(HeapOf(m), due) =>
        LET h == HeapOf(m)
            Good(r, d, elements) == IsHeap(r, d) /\ Len(r.array) = Cardinality(elements)
                                    /\ ToSet(r.array) = elements
        IN  /\ Good(isc_heap_insert(h, m + 1, due), due, 1 .. m + 1)
            /\ \A i \in 1 .. m : Good(isc_heap_delete(h, i, due), due, (1 .. m) \ {i})
            /\ \A i \in 1 .. m, d \in 1 .. k :
                  LET new == [due EXCEPT ![i] = d]
                  IN  /\ d < due[i] => Good(isc_heap_increased(h, i, new), new, 1 .. m)
                      /\ d > due[i] => Good(isc_heap_decreased(h, i, new), new, 1 .. m)
=============================================================================
