----------------------------- MODULE EventList -----------------------------
(***************************************************************************)
(* The operations of lib/isc/include/isc/list.h on linked lists of events  *)
(* and tasks that lib/isc/task.c and bin/named/client.c use, on sequences. *)
(***************************************************************************)
EXTENDS Naturals, SequencesExt

Linked(q, t) == \E i \in DOMAIN q : q[i] = t

\* DEQUEUE of an element known to be linked.
Dequeue(q, t) == RemoveAt(q, CHOOSE i \in DOMAIN q : q[i] = t)

\* The loop of dequeue_events() over a list: what it leaves, in its order.  (A
\* function of the length scanned, rather than SelectSeq, so that its type can
\* be proved.)
Without(q, gone) ==
    LET kept[i \in 0 .. Len(q)] ==
          IF i = 0 THEN <<>>
          ELSE IF q[i] \in gone THEN kept[i - 1]
          ELSE Append(kept[i - 1], q[i])
    IN  kept[Len(q)]
=============================================================================
