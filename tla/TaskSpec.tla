------------------------------ MODULE TaskSpec ------------------------------
(***************************************************************************)
(* What lib/isc/task.c promises the users of tasks (task.h:24-67), without *)
(* ready queues, managers, locks and modes: a task is a queue of events    *)
(* executed in order by at most one worker at a time; it lives while       *)
(* somebody refers to it or it has events; and before it is freed the      *)
(* shutdown events registered with it are executed, last one first.        *)
(***************************************************************************)
EXTENDS Naturals, SequencesExt, EventList

CONSTANTS Workers, Tasks, Events, NoPurge

VARIABLES
    life,     \* "unborn", "alive" or "freed"
    refs,     \* how many references are held
    queue,    \* the events to execute, oldest first
    last,     \* the events registered for the shutdown
    shut,     \* the shutdown has been posted
    runner,   \* the workers that execute an event of the task
    unsent    \* the events that are in nobody's queue

vars == <<life, refs, queue, last, shut, runner, unsent>>

Init ==
    /\ life = [t \in Tasks |-> "unborn"]
    /\ refs = [t \in Tasks |-> 0]
    /\ queue = [t \in Tasks |-> <<>>]
    /\ last = [t \in Tasks |-> <<>>]
    /\ shut = [t \in Tasks |-> FALSE]
    /\ runner = [t \in Tasks |-> {}]
    /\ unsent = Events

\* A task may be used by who refers to it and by the event it executes.
Usable(t) == life[t] = "alive" /\ (refs[t] > 0 \/ runner[t] # {})

Create(t) ==
    /\ life[t] = "unborn"
    /\ life' = [life EXCEPT ![t] = "alive"]
    /\ refs' = [refs EXCEPT ![t] = 1]
    /\ UNCHANGED <<queue, last, shut, runner, unsent>>

\* References are taken from usable tasks (isc_task_attach()) and dropped.
Refer ==
    /\ \E t \in Tasks :
          \/ Usable(t) /\ refs' = [refs EXCEPT ![t] = @ + 1]
          \/ refs[t] > 0 /\ refs' = [refs EXCEPT ![t] = @ - 1]
    /\ UNCHANGED <<life, queue, last, shut, runner, unsent>>

\* isc_task_send(), isc_task_sendanddetach()
Send(t, e, drop) ==
    /\ Usable(t) /\ e \in unsent
    /\ drop \in {0, 1} /\ drop <= refs[t]
    /\ queue' = [queue EXCEPT ![t] = Append(@, e)]
    /\ unsent' = unsent \ {e}
    /\ refs' = [refs EXCEPT ![t] = @ - drop]
    /\ UNCHANGED <<life, last, shut, runner>>

\* isc_task_purgerange() loses events, but no protected one;
\* isc_task_unsendrange() gives them back.
Withdraw(t, gone) ==
    /\ Usable(t)
    /\ queue' = [queue EXCEPT ![t] = Without(@, gone)]
    /\ \/ gone \cap NoPurge = {} /\ unsent' = unsent
       \/ unsent' = unsent \cup gone
    /\ UNCHANGED <<life, refs, last, shut, runner>>

\* isc_task_purgeevent() loses one.
Purge(t, e) ==
    /\ Usable(t) /\ Linked(queue[t], e) /\ e \notin NoPurge
    /\ queue' = [queue EXCEPT ![t] = Dequeue(@, e)]
    /\ UNCHANGED <<life, refs, last, shut, runner, unsent>>

\* isc_task_onshutdown()
Register(t, e) ==
    /\ Usable(t) /\ ~shut[t] /\ e \in unsent
    /\ last' = [last EXCEPT ![t] = Append(@, e)]
    /\ unsent' = unsent \ {e}
    /\ UNCHANGED <<life, refs, queue, shut, runner>>

\* isc_task_shutdown(), also by the manager that goes away
Shutdown(t) ==
    /\ life[t] = "alive" /\ ~shut[t]
    /\ queue' = [queue EXCEPT ![t] = @ \o Reverse(last[t])]
    /\ last' = [last EXCEPT ![t] = <<>>]
    /\ shut' = [shut EXCEPT ![t] = TRUE]
    /\ UNCHANGED <<life, refs, runner, unsent>>

\* A worker finishes the event it executes, if any, and starts the next one or
\* leaves the task; a task that is out of events and references is shut down
\* first.
Turn(t, w) ==
    LET orphan == refs[t] = 0 /\ queue[t] = <<>> /\ ~shut[t]
        q      == IF orphan THEN Reverse(last[t]) ELSE queue[t]
    IN  /\ life[t] = "alive"
        /\ runner[t] \subseteq {w}
        /\ last' = [last EXCEPT ![t] = IF orphan THEN <<>> ELSE @]
        /\ shut' = [shut EXCEPT ![t] = @ \/ orphan]
        /\ \/ /\ q # <<>>
              /\ queue' = [queue EXCEPT ![t] = Tail(q)]
              /\ runner' = [runner EXCEPT ![t] = {w}]
           \/ /\ queue' = [queue EXCEPT ![t] = q]
              /\ runner' = [runner EXCEPT ![t] = {}]
        /\ UNCHANGED <<life, refs, unsent>>

\* The task goes away, with nothing left in it and nobody who knows it.
Free(t) ==
    /\ life[t] = "alive" /\ refs[t] = 0 /\ shut[t]
    /\ queue[t] = <<>> /\ last[t] = <<>> /\ runner[t] = {}
    /\ life' = [life EXCEPT ![t] = "freed"]
    /\ UNCHANGED <<refs, queue, last, shut, runner, unsent>>

Next ==
    \/ Refer
    \/ \E t \in Tasks :
          \/ Create(t) \/ Shutdown(t) \/ Free(t)
          \/ \E e \in Events : \/ Register(t, e) \/ Purge(t, e)
                               \/ \E drop \in {0, 1} : Send(t, e, drop)
          \/ \E gone \in SUBSET ToSet(queue[t]) : Withdraw(t, gone)
          \/ \E w \in Workers : Turn(t, w)

Spec == Init /\ [][Next]_vars
=============================================================================
