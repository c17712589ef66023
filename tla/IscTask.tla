------------------------------ MODULE IscTask ------------------------------
(***************************************************************************)
(* The ISC task system (lib/isc/task.c), the scheduler every other part    *)
(* of named runs on, as built here: BIND9 with ISC_PLATFORM_USETHREADS,    *)
(* i.e. USE_WORKER_THREADS.                                                *)
(*                                                                         *)
(* One action is one critical section of the code.  A task's own fields    *)
(* (state, references, events, on_shutdown, flags) change under task->lock *)
(* in one step; the manager's fields change under manager->lock.  The      *)
(* operations that take the two locks one after the other                  *)
(* (isc_task_send, isc_task_detach, isc_task_shutdown: "we could deadlock" *)
(* otherwise) are split exactly where the first lock is released, and what *)
(* the thread still has to do is kept in call[th].  manager->lock itself   *)
(* is a variable (mgrlock) because two pieces of code keep it across       *)
(* several of these steps: a worker going from the end of one task to the  *)
(* head of its loop, and isc_taskmgr_destroy() walking the task list.      *)
(*                                                                         *)
(* Event actions are arbitrary code: while pc[w] = "action" the worker may *)
(* call every operation of the interface, as may the client threads (main  *)
(* thread, timer thread, socket watcher).                                  *)
(***************************************************************************)
EXTENDS Naturals, FiniteSets, SequencesExt, EventList

CONSTANTS
    Workers,          \* threads started by isc_taskmgr_create(): run()
    Clients,          \* other threads that call the interface
    Tasks,            \* identities of isc_task_t; each is allocated once
    Events,           \* identities of isc_event_t
    NoPurge,          \* the events with ISC_EVENTATTR_NOPURGE
    Quantum,          \* task->quantum
    MaxRefs,          \* bound: references to one task held at a time
    Ops,              \* the operations the callers of this instance use
    None

ASSUME ConstantAssumption ==
    /\ IsFiniteSet(Workers) /\ Workers # {}
    /\ Workers \cap Clients = {}
    /\ NoPurge \subseteq Events
    /\ Quantum \in Nat \ {0}
    /\ MaxRefs \in Nat \ {0}
    /\ None \notin Workers \cup Clients \cup Tasks

VARIABLES
    \* struct isc__task
    state,        \* task_state_t; "unborn" before create, "freed" after free
    references,
    events,
    on_shutdown,
    shuttingdown, \* TASK_F_SHUTTINGDOWN
    privileged,   \* TASK_F_PRIVILEGED
    \* struct isc__taskmgr
    mgrlock,      \* the thread that keeps manager->lock, or None
    tasks,        \* manager->tasks (its order is abstracted away)
    ready_tasks,
    ready_priority_tasks,
    mode,
    tasks_running,
    pause_requested,
    exclusive_requested,
    exiting,
    excl,
    \* threads
    pc,           \* where the thread is
    cur,          \* dispatch()'s "task"
    count,        \* dispatch()'s "dispatch_count"
    call,         \* what is left of the operation the thread is inside
    walk,         \* isc_taskmgr_destroy(): the tasks still to be visited
    \* callers
    unsent        \* the events nobody has sent or registered

taskvars  == <<state, references, events, on_shutdown, shuttingdown, privileged>>
readyqs   == <<ready_tasks, ready_priority_tasks>>
mgrflags  == <<mode, pause_requested, exclusive_requested, exiting, excl>>
mgrvars   == <<mgrlock, tasks, readyqs, mgrflags, tasks_running, walk>>
threads   == <<pc, cur, count, call>>
vars      == <<taskvars, mgrvars, threads, unsent>>

Threads == Workers \cup Clients

NoCall  == [op |-> "none", task |-> None, flag |-> FALSE]
CallOps == {"none", "ready", "push", "priv", "relinked", "excl", "stale"}

WorkerPCs == {"top", "wait", "popped", "action", "exwait", "exwoken",
              "exclusive", "finish", "requeue", "end", "exited"}
ClientPCs == {"app", "pausewait", "pausewoken", "setexcl", "newexcl", "exclear",
              "destroy", "walk", "join", "destroyed"}

\* Inside an event action, with or without exclusive access.
ActionPCs == {"action", "exwait", "exwoken", "exclusive"}
\* Between "tasks_running++" and "tasks_running--" in dispatch().
BusyPCs   == ActionPCs \cup {"popped", "finish", "requeue", "end"}

EventsOK ==
    /\ events \in [Tasks -> Seq(Events)]
    /\ on_shutdown \in [Tasks -> Seq(Events)]
    /\ unsent \subseteq Events

SchedulerOK ==
    /\ state \in [Tasks -> {"unborn", "idle", "ready", "running", "done", "freed"}]
    /\ references \in [Tasks -> Nat]
    /\ shuttingdown \in [Tasks -> BOOLEAN]
    /\ privileged \in [Tasks -> BOOLEAN]
    /\ mgrlock \in Threads \cup {None}
    /\ tasks \subseteq Tasks
    /\ ready_tasks \in Seq(Tasks)
    /\ ready_priority_tasks \in Seq(Tasks)
    /\ mode \in {"normal", "privileged"}
    /\ tasks_running \in Nat
    /\ pause_requested \in BOOLEAN
    /\ exclusive_requested \in BOOLEAN
    /\ exiting \in BOOLEAN
    /\ excl \in Tasks \cup {None}
    /\ pc \in [Threads -> WorkerPCs \cup ClientPCs]
    /\ \A w \in Workers : pc[w] \in WorkerPCs
    /\ \A c \in Clients : pc[c] \in ClientPCs
    /\ cur \in [Workers -> Tasks \cup {None}]
    /\ count \in [Workers -> Nat]
    /\ call \in [Threads -> [op : CallOps, task : Tasks \cup {None}, flag : BOOLEAN]]
    /\ walk \subseteq Tasks

(* The variables of the task system keep their types: every pointer in a   *)
(* queue or held by a thread is a task, every thread is at a place of its   *)
(* own code.                                                               *)
TypeOK == SchedulerOK /\ EventsOK

-----------------------------------------------------------------------------
(* Condition variables.  The threads waiting on one are those at a given    *)
(* pc; a woken thread still has to take manager->lock and test again.       *)

\* SIGNAL: the possible values of pc' when one of the waiters is woken.
Signal(p, waiting, woken) ==
    LET W == {th \in Threads : p[th] = waiting}
    IN  IF W = {} THEN {p} ELSE {[p EXCEPT ![th] = woken] : th \in W}

\* BROADCAST: all of them are.
Broadcast(p, waiting, woken) ==
    [th \in Threads |-> IF p[th] = waiting THEN woken ELSE p[th]]

-----------------------------------------------------------------------------
(* Queues *)

\* Mutant: the manager is finished while it has tasks.
FINISHED_early == exiting

FINISHED == exiting /\ tasks = {}

CurrentQueue == IF mode = "normal" THEN ready_tasks ELSE ready_priority_tasks

empty_readyq == CurrentQueue = <<>>

\* Mutant: the task stays in the priority list.
pop_readyq_once(t) ==
    /\ t = Head(CurrentQueue)
    /\ ready_tasks' = Dequeue(ready_tasks, t)
    /\ UNCHANGED ready_priority_tasks

pop_readyq(t) ==
    /\ t = Head(CurrentQueue)
    /\ ready_tasks' = Dequeue(ready_tasks, t)
    /\ ready_priority_tasks' = IF Linked(ready_priority_tasks, t)
                                 THEN Dequeue(ready_priority_tasks, t)
                                 ELSE ready_priority_tasks

push_readyq(t) ==
    /\ ready_tasks' = Append(ready_tasks, t)
    /\ ready_priority_tasks' = IF privileged[t]
                                 THEN Append(ready_priority_tasks, t)
                                 ELSE ready_priority_tasks

-----------------------------------------------------------------------------
(* Who may call what *)

\* The thread is in code of its own, not inside an operation.
InCode(th) == /\ call[th] = NoCall
              /\ pc[th] \in {"app", "action", "exclusive"}

Offers(op) == op \in Ops

\* A task pointer is good while the caller owns a reference or while the
\* caller is the action running on the task.
Holds(th, t) ==
    /\ InCode(th)
    /\ \/ references[t] > 0
       \/ th \in Workers /\ cur[th] = t

\* Mutants: task_ready() is forgotten; or it is called for every task.
OwesReady_never(th, t, was_idle) == UNCHANGED call

\* What a thread owes after it made an idle task ready: task_ready().
OwesReady(th, t, was_idle) ==
    call' = IF was_idle
              THEN [call EXCEPT ![th] = [op |-> "ready", task |-> t, flag |-> FALSE]]
              ELSE call

-----------------------------------------------------------------------------
(* Critical sections of task->lock *)

isc__task_create(th, t) ==
    /\ Offers("create") /\ InCode(th)
    /\ state[t] = "unborn"
    /\ mgrlock = None
    /\ \A c \in Clients : pc[c] # "destroyed"
    /\ ~exiting
    /\ state' = [state EXCEPT ![t] = "idle"]
    /\ references' = [references EXCEPT ![t] = 1]
    /\ tasks' = tasks \cup {t}
    /\ UNCHANGED <<events, on_shutdown, shuttingdown, privileged, mgrlock, readyqs,
                   mgrflags, tasks_running, walk, threads, unsent>>

isc__task_attach(th, t) ==
    /\ Offers("attach") /\ Holds(th, t)
    /\ references[t] < MaxRefs
    /\ references' = [references EXCEPT ![t] = @ + 1]
    /\ UNCHANGED <<state, events, on_shutdown, shuttingdown, privileged, mgrvars,
                   threads, unsent>>

\* Mutant: the last detach does not make an idle task ready.
task_detach_quiet(th, t) ==
    /\ references' = [references EXCEPT ![t] = @ - 1]
    /\ UNCHANGED <<state, call>>

\* task_detach(): a task without references and events becomes ready, and the
\* worker that runs it shuts it down.
task_detach(th, t) ==
    LET was_idle == references[t] = 1 /\ state[t] = "idle"
    IN  /\ references' = [references EXCEPT ![t] = @ - 1]
        /\ state' = IF was_idle THEN [state EXCEPT ![t] = "ready"] ELSE state
        /\ OwesReady(th, t, was_idle)

\* manager->excl counts: nobody is between dropping the reference and clearing
\* the pointer.
ExclHeld == \A c \in Clients : pc[c] \notin {"exclear", "setexcl"}

\* The manager's own reference is not the caller's to drop, nor the one that
\* keeps the task for another caller's isc_task_setprivilege().
CallersRefs(t) == references[t] - (IF excl = t /\ ExclHeld THEN 1 ELSE 0)
InSetprivilege(t) == \E u \in Threads : call[u].op = "priv" /\ call[u].task = t
CanDrop(t) == CallersRefs(t) > (IF InSetprivilege(t) THEN 1 ELSE 0)

isc__task_detach(th, t) ==
    /\ Offers("detach") /\ Holds(th, t)
    /\ CanDrop(t)
    /\ task_detach(th, t)
    /\ UNCHANGED <<events, on_shutdown, shuttingdown, privileged, mgrvars, pc, cur,
                   count, unsent>>

\* task_send()
task_send(t, e) ==
    /\ e \in unsent
    /\ unsent' = unsent \ {e}
    /\ events' = [events EXCEPT ![t] = Append(@, e)]
    /\ state' = IF state[t] = "idle" THEN [state EXCEPT ![t] = "ready"] ELSE state

isc__task_send(th, t, e) ==
    /\ Offers("send") /\ Holds(th, t)
    /\ task_send(t, e)
    /\ OwesReady(th, t, state[t] = "idle")
    /\ UNCHANGED <<references, on_shutdown, shuttingdown, privileged, mgrvars, pc,
                   cur, count>>

\* The detach finds the task already ready: INSIST(!(idle1 && idle2)).
isc__task_sendanddetach(th, t, e) ==
    /\ Offers("sendanddetach") /\ Holds(th, t)
    /\ CanDrop(t)
    /\ task_send(t, e)
    /\ references' = [references EXCEPT ![t] = @ - 1]
    /\ OwesReady(th, t, state[t] = "idle")
    /\ UNCHANGED <<on_shutdown, shuttingdown, privileged, mgrvars, pc, cur, count>>

\* Mutant: ISC_EVENTATTR_NOPURGE is not looked at.
dequeue_events_all(t, match, purging) ==
    LET gone == {e \in match : Linked(events[t], e)}
    IN  /\ gone # {}
        /\ events' = [events EXCEPT ![t] = Without(@, gone)]
        /\ unsent' = IF purging THEN unsent ELSE unsent \cup gone

\* dequeue_events(): 'match' are the events that fit the caller's sender, type
\* range and tag.  A purge frees what it removes, an unsend gives it back.
dequeue_events(t, match, purging) ==
    LET gone == {e \in match : Linked(events[t], e) /\ (purging => e \notin NoPurge)}
    IN  /\ gone # {}
        /\ events' = [events EXCEPT ![t] = Without(@, gone)]
        /\ unsent' = IF purging THEN unsent ELSE unsent \cup gone

isc__task_purgerange(th, t, match) ==
    /\ Offers("purge") /\ Holds(th, t)
    /\ dequeue_events(t, match, TRUE)
    /\ UNCHANGED <<state, references, on_shutdown, shuttingdown, privileged, mgrvars,
                   threads>>

isc__task_purgeevent(th, t, e) ==
    /\ Offers("purgeevent") /\ Holds(th, t)
    /\ Linked(events[t], e) /\ e \notin NoPurge
    /\ events' = [events EXCEPT ![t] = Dequeue(@, e)]
    /\ UNCHANGED <<state, references, on_shutdown, shuttingdown, privileged, mgrvars,
                   threads, unsent>>

isc__task_unsendrange(th, t, match) ==
    /\ Offers("unsend") /\ Holds(th, t)
    /\ dequeue_events(t, match, FALSE)
    /\ UNCHANGED <<state, references, on_shutdown, shuttingdown, privileged, mgrvars,
                   threads>>

isc__task_onshutdown(th, t, e) ==
    /\ Offers("onshutdown") /\ Holds(th, t)
    /\ ~shuttingdown[t]
    /\ e \in unsent
    /\ unsent' = unsent \ {e}
    /\ on_shutdown' = [on_shutdown EXCEPT ![t] = Append(@, e)]
    /\ UNCHANGED <<state, references, events, shuttingdown, privileged, mgrvars,
                   threads>>

\* task_shutdown(): shutdown events are posted last registered, first run.
task_shutdown(t) ==
    /\ shuttingdown' = [shuttingdown EXCEPT ![t] = TRUE]
    /\ state' = IF ~shuttingdown[t] /\ state[t] = "idle"
                  THEN [state EXCEPT ![t] = "ready"] ELSE state
    /\ events' = IF shuttingdown[t] THEN events
                   ELSE [events EXCEPT ![t] = @ \o Reverse(on_shutdown[t])]
    /\ on_shutdown' = IF shuttingdown[t] THEN on_shutdown
                        ELSE [on_shutdown EXCEPT ![t] = <<>>]

isc__task_shutdown(th, t) ==
    /\ Offers("shutdown") /\ Holds(th, t)
    /\ ~shuttingdown[t]
    /\ task_shutdown(t)
    /\ OwesReady(th, t, state[t] = "idle")
    /\ UNCHANGED <<references, privileged, mgrvars, pc, cur, count, unsent>>

-----------------------------------------------------------------------------
(* task_ready(): isc__task_privilege() under the task lock, then the push    *)
(* and the signal under the manager lock.                                   *)

task_ready(th) ==
    /\ call[th].op = "ready"
    /\ call' = [call EXCEPT ![th] = [op |-> "push", task |-> @.task,
                                     flag |-> privileged[@.task]]]
    /\ UNCHANGED <<taskvars, mgrvars, pc, cur, count, unsent>>

\* Mutant: no worker is woken.
task_ready_push_silent(th) ==
    /\ call[th].op = "push"
    /\ mgrlock = None
    /\ push_readyq(call[th].task)
    /\ call' = [call EXCEPT ![th] = NoCall]
    /\ UNCHANGED <<taskvars, mgrlock, tasks, mgrflags, tasks_running, walk, pc, cur,
                   count, unsent>>

task_ready_push(th) ==
    /\ call[th].op = "push"
    /\ mgrlock = None
    /\ push_readyq(call[th].task)
    /\ IF mode = "normal" \/ call[th].flag
         THEN pc' \in Signal(pc, "wait", "top")
         ELSE pc' = pc
    /\ call' = [call EXCEPT ![th] = NoCall]
    /\ UNCHANGED <<taskvars, mgrlock, tasks, mgrflags, tasks_running, walk, cur, count,
                   unsent>>

-----------------------------------------------------------------------------
(* isc__task_setprivilege(): the flag under the task lock, then the queue    *)
(* under the manager lock.  The zone manager is its only user and makes one  *)
(* call at a time (lib/dns/zone.c:14396); nothing else is asked of the other *)
(* threads, which may use the task between the two.                          *)

isc__task_setprivilege(th, t, priv) ==
    /\ Offers("setprivilege") /\ Holds(th, t)
    /\ ~InSetprivilege(t)
    /\ CallersRefs(t) > 0
    /\ priv # privileged[t]
    /\ privileged' = [privileged EXCEPT ![t] = priv]
    /\ call' = [call EXCEPT ![th] = [op |-> "priv", task |-> t, flag |-> priv]]
    /\ UNCHANGED <<state, references, events, on_shutdown, shuttingdown, mgrvars, pc,
                   cur, count, unsent>>

setprivilege_queue(th) ==
    LET t == call[th].task
    IN  /\ call[th].op = "priv"
        /\ mgrlock = None
        /\ ~(call[th].flag /\ Linked(ready_priority_tasks, t))
        /\ ready_priority_tasks' =
             IF call[th].flag /\ Linked(ready_tasks, t)
               THEN Append(ready_priority_tasks, t)
             ELSE IF ~call[th].flag /\ Linked(ready_priority_tasks, t)
               THEN Dequeue(ready_priority_tasks, t)
             ELSE ready_priority_tasks
        /\ call' = [call EXCEPT ![th] = NoCall]
        /\ UNCHANGED <<taskvars, mgrlock, tasks, ready_tasks, mgrflags, tasks_running,
                       walk, pc, cur, count, unsent>>

\* The task was queued since the flag was set and is in the list already.
\* ENQUEUE does not look (its ISC_LINK_INSIST, list.h:82, is empty unless
\* ISC_LIST_CHECKINIT is defined): the list is broken from here on.  Nothing is
\* said of what follows; the thread stays in the critical section.
setprivilege_relink(th) ==
    /\ call[th].op = "priv"
    /\ mgrlock = None
    /\ call[th].flag /\ Linked(ready_priority_tasks, call[th].task)
    /\ call' = [call EXCEPT ![th].op = "relinked"]
    /\ mgrlock' = th
    /\ UNCHANGED <<taskvars, tasks, readyqs, mgrflags, tasks_running, walk, pc, cur,
                   count, unsent>>

-----------------------------------------------------------------------------
(* dispatch(): what a worker does.  pc[w] = "top" is the head of the loop;   *)
(* a worker that comes from dispatch_end still has manager->lock there.     *)

AtTop(w) == pc[w] = "top" /\ mgrlock \in {None, w}

dispatch_exit(w) ==
    /\ AtTop(w)
    /\ FINISHED
    /\ pc' = [pc EXCEPT ![w] = "exited"]
    /\ mgrlock' = None
    /\ UNCHANGED <<taskvars, tasks, readyqs, mgrflags, tasks_running, walk, cur, count,
                   call, unsent>>

\* Mutant: tasks are started while another has exclusive access.
MustWait_shared == empty_readyq \/ pause_requested

MustWait == empty_readyq \/ pause_requested \/ exclusive_requested

dispatch_wait(w) ==
    /\ AtTop(w)
    /\ MustWait /\ ~FINISHED
    /\ pc' = [pc EXCEPT ![w] = "wait"]
    /\ mgrlock' = None
    /\ UNCHANGED <<taskvars, tasks, readyqs, mgrflags, tasks_running, walk, cur, count,
                   call, unsent>>

\* Mutant: tasks_running is not incremented.
dispatch_pop_uncounted(w) ==
    /\ AtTop(w)
    /\ ~MustWait /\ ~FINISHED
    /\ \E t \in Tasks : pop_readyq(t) /\ cur' = [cur EXCEPT ![w] = t]
    /\ pc' = [pc EXCEPT ![w] = "popped"]
    /\ mgrlock' = None
    /\ UNCHANGED <<taskvars, tasks, mgrflags, tasks_running, walk, count, call, unsent>>

dispatch_pop(w) ==
    /\ AtTop(w)
    /\ ~MustWait /\ ~FINISHED
    /\ \E t \in Tasks : pop_readyq(t) /\ cur' = [cur EXCEPT ![w] = t]
    /\ tasks_running' = tasks_running + 1
    /\ pc' = [pc EXCEPT ![w] = "popped"]
    /\ mgrlock' = None
    /\ UNCHANGED <<taskvars, tasks, mgrflags, walk, count, call, unsent>>

\* One turn of the do-while loop from the point where n events have been
\* executed, up to the next event action or out of the loop.  A task nobody
\* refers to and with nothing to do is shut down here.
dispatch_loop(w, n) ==
    LET t      == cur[w]
        zombie == references[t] = 0 /\ events[t] = <<>> /\ ~shuttingdown[t]
        queue  == IF zombie THEN Reverse(on_shutdown[t]) ELSE events[t]
        over   == references[t] = 0 /\ (shuttingdown[t] \/ zombie)
        Goes(s, p, q) == /\ state'  = [state EXCEPT ![t] = s]
                         /\ pc'     = [pc EXCEPT ![w] = p]
                         /\ events' = [events EXCEPT ![t] = q]
    IN  /\ IF zombie
             THEN /\ shuttingdown' = [shuttingdown EXCEPT ![t] = TRUE]
                  /\ on_shutdown' = [on_shutdown EXCEPT ![t] = <<>>]
             ELSE UNCHANGED <<shuttingdown, on_shutdown>>
        /\ count' = [count EXCEPT ![w] = n]
        /\ \/ queue = <<>> /\ over  /\ Goes("done", "finish", <<>>)
           \/ queue = <<>> /\ ~over /\ Goes("idle", "end", <<>>)
           \/ queue # <<>> /\ n >= Quantum /\ Goes("ready", "requeue", queue)
           \/ queue # <<>> /\ n < Quantum /\ Goes("running", "action", Tail(queue))
        /\ UNCHANGED <<references, privileged, mgrvars, cur, call, unsent>>

dispatch_start(w) == pc[w] = "popped" /\ dispatch_loop(w, 0)

\* The event action returns.
dispatch_next(w) ==
    /\ pc[w] = "action" /\ call[w] = NoCall
    /\ dispatch_loop(w, count[w] + 1)

\* Mutant: the task is freed and stays in manager->tasks.
task_finished_linked(w) ==
    /\ pc[w] = "finish"
    /\ mgrlock = None
    /\ pc' = [pc EXCEPT ![w] = "end"]
    /\ state' = [state EXCEPT ![cur[w]] = "freed"]
    /\ UNCHANGED <<references, events, on_shutdown, shuttingdown, privileged, mgrvars,
                   cur, count, call, unsent>>

\* Mutant: the last task of an exiting manager wakes nobody.
task_finished_silent(w) ==
    /\ pc[w] = "finish"
    /\ mgrlock = None
    /\ tasks' = tasks \ {cur[w]}
    /\ pc' = [pc EXCEPT ![w] = "end"]
    /\ state' = [state EXCEPT ![cur[w]] = "freed"]
    /\ UNCHANGED <<references, events, on_shutdown, shuttingdown, privileged,
                   mgrlock, readyqs, mgrflags, tasks_running, walk, cur, count,
                   call, unsent>>

task_finished(w) ==
    LET p == [pc EXCEPT ![w] = "end"]
    IN  /\ pc[w] = "finish"
        /\ mgrlock = None
        /\ tasks' = tasks \ {cur[w]}
        /\ pc' = IF exiting /\ tasks' = {} THEN Broadcast(p, "wait", "top") ELSE p
        /\ state' = [state EXCEPT ![cur[w]] = "freed"]
        /\ UNCHANGED <<references, events, on_shutdown, shuttingdown, privileged,
                       mgrlock, readyqs, mgrflags, tasks_running, walk, cur, count,
                       call, unsent>>

\* Mutant: the grant waits for the requester itself to end.
EndSignal_zero(p) ==
    IF exclusive_requested /\ tasks_running' = 0 THEN Signal(p, "exwait", "exwoken")
    ELSE IF pause_requested /\ tasks_running' = 0 THEN Signal(p, "pausewait", "pausewoken")
    ELSE {p}

\* Whom the end of a task wakes: a thread waiting for exclusive access, or one
\* waiting in isc_taskmgr_pause().
EndSignal(p) ==
    IF exclusive_requested /\ tasks_running' = 1 THEN Signal(p, "exwait", "exwoken")
    ELSE IF pause_requested /\ tasks_running' = 0 THEN Signal(p, "pausewait", "pausewoken")
    ELSE {p}

\* Mutant: the mode is kept.
DropsMode_never == FALSE

\* "Automatically drop privileges": the last running task ended and the queue
\* of the current mode is empty.
DropsMode ==
    /\ tasks_running' = 0
    /\ (IF mode = "normal" THEN ready_tasks' ELSE ready_priority_tasks') = <<>>

dispatch_end(w) ==
    /\ pc[w] \in {"requeue", "end"}
    /\ mgrlock = None
    /\ tasks_running' = tasks_running - 1
    /\ IF pc[w] = "requeue" THEN push_readyq(cur[w]) ELSE UNCHANGED readyqs
    /\ mode' = IF DropsMode THEN "normal" ELSE mode
    /\ \E p \in EndSignal([pc EXCEPT ![w] = "top"]) :
          pc' = IF DropsMode /\ ready_tasks' # <<>>
                  THEN Broadcast(p, "wait", "top") ELSE p
    /\ cur' = [cur EXCEPT ![w] = None]
    /\ mgrlock' = w
    /\ UNCHANGED <<taskvars, tasks, pause_requested, exclusive_requested, exiting, excl,
                   walk, count, call, unsent>>

\* pthread_cond_wait() may return without a signal.
SpuriousWakeup(th) ==
    /\ \/ pc[th] = "wait"      /\ pc' = [pc EXCEPT ![th] = "top"]
       \/ pc[th] = "exwait"    /\ pc' = [pc EXCEPT ![th] = "exwoken"]
       \/ pc[th] = "pausewait" /\ pc' = [pc EXCEPT ![th] = "pausewoken"]
    /\ UNCHANGED <<taskvars, mgrvars, cur, count, call, unsent>>

-----------------------------------------------------------------------------
(* Exclusive access.  When another task has already asked for it the call    *)
(* returns ISC_R_LOCKBUSY and changes nothing.                              *)

AwaitExclusive(w) ==
    pc' = [pc EXCEPT ![w] = IF tasks_running > 1 THEN "exwait" ELSE "exclusive"]

isc__task_beginexclusive(w) ==
    /\ Offers("exclusive") /\ pc[w] = "action" /\ call[w] = NoCall
    /\ mgrlock = None
    /\ ~exclusive_requested
    /\ exclusive_requested' = TRUE
    /\ AwaitExclusive(w)
    /\ UNCHANGED <<taskvars, mgrlock, tasks, readyqs, mode, pause_requested, exiting,
                   excl, tasks_running, walk, cur, count, call, unsent>>

beginexclusive_woken(w) ==
    /\ pc[w] = "exwoken"
    /\ mgrlock = None
    /\ AwaitExclusive(w)
    /\ UNCHANGED <<taskvars, mgrvars, cur, count, call, unsent>>

isc__task_endexclusive(w) ==
    /\ pc[w] = "exclusive" /\ call[w] = NoCall
    /\ mgrlock = None
    /\ exclusive_requested' = FALSE
    /\ pc' = Broadcast([pc EXCEPT ![w] = "action"], "wait", "top")
    /\ UNCHANGED <<taskvars, mgrlock, tasks, readyqs, mode, pause_requested, exiting,
                   excl, tasks_running, walk, cur, count, call, unsent>>

-----------------------------------------------------------------------------
(* Operations on the manager *)

ManagerAlive == \A c \in Clients : pc[c] # "destroyed"

\* bin/named/server.c:5512 calls it in task-exclusive mode, as task.h asks.
isc__taskmgr_setmode(w, m) ==
    /\ Offers("setmode") /\ pc[w] = "exclusive" /\ call[w] = NoCall
    /\ mgrlock = None
    /\ mode # m
    /\ mode' = m
    /\ UNCHANGED <<taskvars, mgrlock, tasks, readyqs, pause_requested,
                   exclusive_requested, exiting, excl, tasks_running, walk, threads,
                   unsent>>

PauseLoop(c) ==
    IF tasks_running > 0
      THEN pc' = [pc EXCEPT ![c] = "pausewait"] /\ UNCHANGED pause_requested
      ELSE pc' = [pc EXCEPT ![c] = "app"] /\ pause_requested' = TRUE

isc__taskmgr_pause(c) ==
    /\ \/ Offers("pause") /\ InCode(c) /\ ManagerAlive
       \/ pc[c] = "pausewoken"
    /\ mgrlock = None
    /\ PauseLoop(c)
    /\ UNCHANGED <<taskvars, mgrlock, tasks, readyqs, mode, exclusive_requested, exiting,
                   excl, tasks_running, walk, cur, count, call, unsent>>

isc__taskmgr_resume(c) ==
    /\ Offers("pause") /\ InCode(c) /\ ManagerAlive
    /\ mgrlock = None
    /\ pause_requested
    /\ pause_requested' = FALSE
    /\ pc' = Broadcast(pc, "wait", "top")
    /\ UNCHANGED <<taskvars, mgrlock, tasks, readyqs, mode, exclusive_requested, exiting,
                   excl, tasks_running, walk, cur, count, call, unsent>>

(* manager->excl is read and written without a lock.                        *)

ExclPCs    == {"setexcl", "newexcl"}
DestroyPCs == {"exclear", "destroy", "walk", "join", "destroyed"}

\* "Only one non-worker thread may ever call" isc_taskmgr_destroy(), and
\* isc_taskmgr_setexcltask() has one user, the main thread (server.c:5750).
Alone(c) == \A d \in Clients : pc[d] \notin ExclPCs \cup DestroyPCs

\* isc__task_detach(&manager->excl): the reference goes first, then task_ready()
\* if the task was idle, and last the pointer (excl_clear).
DetachExcl(c, then, otherwise) ==
    IF excl = None
      THEN /\ pc' = [pc EXCEPT ![c] = otherwise]
           /\ UNCHANGED <<references, state, call>>
      ELSE /\ pc' = [pc EXCEPT ![c] = then]
           /\ task_detach(c, excl)

isc__taskmgr_setexcltask(c) ==
    /\ Offers("excltask") /\ InCode(c) /\ Alone(c)
    /\ DetachExcl(c, "setexcl", "newexcl")
    /\ UNCHANGED <<events, on_shutdown, shuttingdown, privileged, mgrvars, cur, count,
                   unsent>>

excl_clear(c) ==
    /\ pc[c] \in {"setexcl", "exclear"} /\ call[c] = NoCall
    /\ excl' = None
    /\ pc' = [pc EXCEPT ![c] = IF @ = "setexcl" THEN "newexcl" ELSE "destroy"]
    /\ UNCHANGED <<taskvars, mgrlock, tasks, readyqs, mode, pause_requested,
                   exclusive_requested, exiting, tasks_running, walk, cur, count, call,
                   unsent>>

\* isc__task_attach(): a reader sees the pointer after the reference is counted.
setexcl_attach(c, t) ==
    /\ pc[c] = "newexcl"
    /\ references[t] \in 1 .. MaxRefs - 1
    /\ references' = [references EXCEPT ![t] = @ + 1]
    /\ excl' = t
    /\ pc' = [pc EXCEPT ![c] = "app"]
    /\ UNCHANGED <<state, events, on_shutdown, shuttingdown, privileged, mgrlock, tasks,
                   readyqs, mode, pause_requested, exclusive_requested, exiting,
                   tasks_running, walk, cur, count, call, unsent>>

\* The pointer is read for the test and again for the call (1665, 1668).
isc__taskmgr_excltask(th) ==
    /\ \/ Offers("excltask") /\ InCode(th) /\ ManagerAlive
       \/ call[th].op = "excl" /\ call[th].task # excl
    /\ excl # None
    /\ call' = [call EXCEPT ![th] = [op |-> "excl", task |-> excl, flag |-> FALSE]]
    /\ UNCHANGED <<taskvars, mgrvars, pc, cur, count, unsent>>

\* The attach finds the task as it is by then.  Without a reference, and unless
\* the caller is the task's own action, the task is on its way out or gone: a
\* count does not bring it back; and the second read may find NULL, which fails
\* the REQUIRE of isc__task_attach().  Nothing is said of what follows either.
excltask_attach(th) ==
    LET t    == call[th].task
        good == \/ references[t] > 0
                \/ th \in Workers /\ pc[th] \in ActionPCs /\ cur[th] = t
    IN  /\ call[th].op = "excl"
        /\ \/ /\ good /\ references[t] < MaxRefs
              /\ references' = [references EXCEPT ![t] = @ + 1]
              /\ call' = [call EXCEPT ![th] = NoCall]
           \/ /\ ~good \/ excl = None
              /\ call' = [call EXCEPT ![th].op = "stale"]
              /\ UNCHANGED references
        /\ UNCHANGED <<state, events, on_shutdown, shuttingdown, privileged, mgrvars, pc,
                       cur, count, unsent>>

isc__taskmgr_destroy(c) ==
    /\ Offers("destroy") /\ InCode(c) /\ Alone(c)
    /\ DetachExcl(c, "exclear", "destroy")
    /\ UNCHANGED <<events, on_shutdown, shuttingdown, privileged, mgrvars, cur, count,
                   unsent>>

destroy_begin(c) ==
    /\ pc[c] = "destroy"
    /\ mgrlock = None
    /\ exiting' = TRUE
    /\ mode' = "normal"
    /\ walk' = tasks
    /\ mgrlock' = c
    /\ pc' = [pc EXCEPT ![c] = "walk"]
    /\ UNCHANGED <<taskvars, tasks, readyqs, pause_requested, exclusive_requested, excl,
                   tasks_running, cur, count, call, unsent>>

destroy_walk(c, t) ==
    /\ pc[c] = "walk"
    /\ t \in walk
    /\ walk' = walk \ {t}
    /\ task_shutdown(t)
    /\ IF ~shuttingdown[t] /\ state[t] = "idle" THEN push_readyq(t) ELSE UNCHANGED readyqs
    /\ UNCHANGED <<references, privileged, mgrlock, tasks, mgrflags, tasks_running, threads,
                   unsent>>

destroy_unlock(c) ==
    /\ pc[c] = "walk"
    /\ walk = {}
    /\ mgrlock' = None
    /\ pc' = Broadcast([pc EXCEPT ![c] = "join"], "wait", "top")
    /\ UNCHANGED <<taskvars, tasks, readyqs, mgrflags, tasks_running, walk, cur, count,
                   call, unsent>>

destroy_join(c) ==
    /\ pc[c] = "join"
    /\ \A w \in Workers : pc[w] = "exited"
    /\ pc' = [pc EXCEPT ![c] = "destroyed"]
    /\ UNCHANGED <<taskvars, mgrvars, cur, count, call, unsent>>

-----------------------------------------------------------------------------
(* isc__taskmgr_create(): the manager is empty, its workers are started. *)
Init ==
    /\ state = [t \in Tasks |-> "unborn"]
    /\ references = [t \in Tasks |-> 0]
    /\ events = [t \in Tasks |-> <<>>]
    /\ on_shutdown = [t \in Tasks |-> <<>>]
    /\ shuttingdown = [t \in Tasks |-> FALSE]
    /\ privileged = [t \in Tasks |-> FALSE]
    /\ mgrlock = None
    /\ tasks = {}
    /\ ready_tasks = <<>>
    /\ ready_priority_tasks = <<>>
    /\ mode = "normal"
    /\ tasks_running = 0
    /\ pause_requested = FALSE
    /\ exclusive_requested = FALSE
    /\ exiting = FALSE
    /\ excl = None
    /\ pc = [th \in Threads |-> IF th \in Workers THEN "top" ELSE "app"]
    /\ cur = [w \in Workers |-> None]
    /\ count = [w \in Workers |-> 0]
    /\ call = [th \in Threads |-> NoCall]
    /\ walk = {}
    /\ unsent = Events

\* The calls a thread may start on a task.
TaskCall(th, t) ==
    \/ isc__task_create(th, t)
    \/ isc__task_attach(th, t)
    \/ isc__task_detach(th, t)
    \/ \E e \in Events : \/ isc__task_send(th, t, e)
                         \/ isc__task_sendanddetach(th, t, e)
                         \/ isc__task_purgeevent(th, t, e)
                         \/ isc__task_onshutdown(th, t, e)
    \/ \E match \in SUBSET Events : \/ isc__task_purgerange(th, t, match)
                                    \/ isc__task_unsendrange(th, t, match)
    \/ isc__task_shutdown(th, t)
    \/ \E priv \in BOOLEAN : isc__task_setprivilege(th, t, priv)

\* The rest of a call.
CallStep(th) ==
    \/ task_ready(th) \/ task_ready_push(th)
    \/ setprivilege_queue(th) \/ setprivilege_relink(th)
    \/ excltask_attach(th)

WorkerStep(w) ==
    \/ dispatch_exit(w) \/ dispatch_wait(w) \/ dispatch_pop(w)
    \/ dispatch_start(w) \/ task_finished(w) \/ dispatch_end(w)
    \/ beginexclusive_woken(w)

DestroyStep(c) ==
    \/ excl_clear(c)
    \/ destroy_begin(c)
    \/ \E t \in Tasks : destroy_walk(c, t)
    \/ destroy_unlock(c)
    \/ destroy_join(c)

Next ==
    \/ \E th \in Threads :
          \/ \E t \in Tasks : TaskCall(th, t)
          \/ CallStep(th)
          \/ isc__taskmgr_excltask(th)
          \/ SpuriousWakeup(th)
    \/ \E w \in Workers :
          \/ WorkerStep(w)
          \/ dispatch_next(w)
          \/ isc__task_beginexclusive(w)
          \/ isc__task_endexclusive(w)
          \/ \E m \in {"normal", "privileged"} : isc__taskmgr_setmode(w, m)
    \/ \E c \in Clients :
          \/ isc__taskmgr_pause(c)
          \/ isc__taskmgr_resume(c)
          \/ isc__taskmgr_setexcltask(c)
          \/ \E t \in Tasks : setexcl_attach(c, t)
          \/ isc__taskmgr_destroy(c)
          \/ DestroyStep(c)

Spec == Init /\ [][Next]_vars

(* A thread inside the library keeps going; an event action makes finitely  *)
(* many calls, gives up exclusive access and returns.  Nobody has to call   *)
(* anything, and nothing is assumed of spurious wakeups.                    *)
Fairness ==
    /\ \A th \in Threads : WF_vars(CallStep(th))
    /\ \A w \in Workers : /\ WF_vars(WorkerStep(w))
                         /\ SF_vars(isc__task_endexclusive(w))
                         /\ SF_vars(dispatch_next(w))
    /\ \A c \in Clients : /\ WF_vars(DestroyStep(c))
                         /\ WF_vars(pc[c] = "pausewoken" /\ isc__taskmgr_pause(c))

FairSpec == Spec /\ Fairness

-----------------------------------------------------------------------------
(* Safety *)

\* th has taken t out of the idle state and has not queued it yet.
Owes(th, t) == call[th].op \in {"ready", "push"} /\ call[th].task = t
\* w took t from the queue and has not started it, or has to put it back.
Carries(w, t) == pc[w] \in {"popped", "requeue"} /\ cur[w] = t

(* A task in the ready state is on its way to a worker: it is in the ready  *)
(* queue, or the thread that made it ready is about to queue it, or a       *)
(* worker has it in hand.  A ready task outside all three would never run   *)
(* again, since isc_task_send() queues only idle tasks (task.c:588-598).    *)
(* And it is in one of these places, once: what is queued, owed or carried  *)
(* is ready (INSIST at task.c:1097, REQUIRE at task.c:465).  A task that is *)
(* not on its way has nothing to do (INSIST of task_detach(), task.c:492).  *)
ScheduledOnce ==
    /\ TypeOK
    /\ \A i, j \in DOMAIN ready_tasks : ready_tasks[i] = ready_tasks[j] => i = j
    /\ \A t \in Tasks :
         LET places == (IF Linked(ready_tasks, t) THEN {<<"queue", None>>} ELSE {})
                         \cup {<<"owed", th>> : th \in {u \in Threads : Owes(u, t)}}
                         \cup {<<"held", w>> : w \in {v \in Workers : Carries(v, t)}}
         IN  /\ Cardinality(places) = IF state[t] = "ready" THEN 1 ELSE 0
             /\ state[t] \in {"unborn", "idle"} => events[t] = <<>>

(* A task somebody can still reach is allocated: the manager's list has     *)
(* exactly the allocated tasks, a task with references is not done, and     *)
(* nothing queued, owed or carried has been freed.  manager->excl, which is *)
(* read without a lock (task.c:1665), points to a task the manager keeps,   *)
(* except between task.c:523 and 529, where its reference is gone and the   *)
(* pointer is not: who reads it then, or read it before, may be stale.      *)
NoUseAfterFree ==
    /\ tasks = {t \in Tasks : state[t] \notin {"unborn", "freed"}}
    /\ \A t \in Tasks : references[t] > 0 => state[t] \in {"idle", "ready", "running"}
    /\ \A i \in DOMAIN ready_priority_tasks : ready_priority_tasks[i] \in tasks
    /\ \A w \in Workers : pc[w] \in BusyPCs \ {"end"} => cur[w] \in tasks
    /\ excl # None /\ ExclHeld => references[excl] > 0

(* The second ready list is a sublist of the first: its tasks are queued in *)
(* ready_tasks too, once, and unless a setprivilege() is half done they are *)
(* exactly the privileged ones, whoever sends to, runs or shuts down the    *)
(* task between the two critical sections.  pop_readyq() unlinks from both  *)
(* lists without looking (task.c:955-961).  It holds up to the step that    *)
(* links a task twice (setprivilege_relink), which the code does not rule   *)
(* out: the walk of isc_taskmgr_destroy() may queue the task in between.    *)
PrioritySublist ==
    /\ \A i, j \in DOMAIN ready_priority_tasks :
          ready_priority_tasks[i] = ready_priority_tasks[j] => i = j
    /\ \A t \in Tasks :
          /\ Linked(ready_priority_tasks, t) => Linked(ready_tasks, t)
          /\ Linked(ready_tasks, t) /\ ~InSetprivilege(t)
               => (privileged[t] <=> Linked(ready_priority_tasks, t))

(* tasks_running counts the workers between the pop and the end of a task:  *)
(* the grants of exclusive access and of a pause rest on it.                *)
RunningCounted ==
    tasks_running = Cardinality({w \in Workers : pc[w] \in BusyPCs})

(* isc_task_beginexclusive() returned: no other worker is anywhere between  *)
(* taking a task and giving it back (task.h:572-578).                       *)
ExclusiveAccess ==
    \A v, w \in Workers : pc[v] = "exclusive" /\ pc[w] \in BusyPCs => v = w

(* No lost wakeup.  While workers may take tasks, a worker sleeps only if   *)
(* there is an awake one at the head of its loop for every queued task,     *)
(* although a requeue, the walk in destroy and a push in privileged mode    *)
(* signal nobody.                                                           *)
NoLostWakeup ==
    /\ mode = "normal" /\ ~pause_requested /\ ~exclusive_requested
    /\ \A c \in Clients : pc[c] # "walk"
    /\ \E w \in Workers : pc[w] = "wait"
    => Len(ready_tasks) <= Cardinality({w \in Workers : pc[w] = "top"})

(* Once isc_taskmgr_destroy() has walked the list every task there is has   *)
(* been told to shut down, also the ones that were being created meanwhile; *)
(* and when it returns "all resources used by the task manager, and any     *)
(* tasks it managed, have been freed" (task.h:760): no thread still has to  *)
(* queue a task in the manager that is freed next.                          *)
DestroyedIsEmpty ==
    /\ exiting => \A t \in tasks \ walk : shuttingdown[t]
    /\ (\E c \in Clients : pc[c] = "destroyed") =>
          /\ tasks = {} /\ ready_tasks = <<>> /\ tasks_running = 0
          /\ \A th \in Threads : call[th].op \notin {"ready", "push", "priv"}

(* The task system as its users see it.                                     *)
Abstract == INSTANCE TaskSpec WITH
    life   <- [t \in Tasks |-> IF state[t] \in {"unborn", "freed"} THEN state[t] ELSE "alive"],
    refs   <- references,
    queue  <- events,
    last   <- on_shutdown,
    shut   <- shuttingdown,
    runner <- [t \in Tasks |-> {w \in Workers : pc[w] \in ActionPCs /\ cur[w] = t}]

(* Whatever the workers, queues, modes and locks do, every task behaves as  *)
(* a serial queue: its events are executed in the order they were sent, one *)
(* at a time, none is lost except by a purge that may take it, the shutdown *)
(* events come last in reverse order, and the task is freed only when it is *)
(* empty and nobody can reach it (task.h:27-31, 54-67, 451).                 *)
ImplementsTaskSpec == Abstract!Spec

-----------------------------------------------------------------------------
(* Liveness, of a manager whose lists no setprivilege() has broken. *)

Broken == \E th \in Threads : call[th].op = "relinked"

(* Every event that has been sent is executed, or purged or unsent.         *)
EventsAreTaken ==
    \A t \in Tasks, e \in Events :
        Linked(events[t], e) ~> (~Linked(events[t], e) \/ Broken)

(* A task nobody refers to does not stay: it is shut down, its shutdown     *)
(* events run, and it is freed.                                             *)
UnreferencedIsFreed ==
    \A t \in Tasks :
        []<>(references[t] > 0 \/ state[t] \in {"unborn", "freed"} \/ Broken)

(* A request for exclusive access is granted.                               *)
ExclusiveIsGranted ==
    \A w \in Workers : pc[w] = "exwait" ~> (pc[w] = "exclusive" \/ Broken)

(* "When all such tasks are complete, the manager automatically returns to  *)
(* normal mode" (task.h:717-719): privileged mode ends.                     *)
PrivilegedModeEnds == mode = "privileged" ~> (mode = "normal" \/ Broken)

(* isc_taskmgr_destroy() returns once the last reference to every task has  *)
(* been given up.                                                           *)
DestroyReturns ==
    \A c \in Clients :
        (pc[c] = "destroy" /\ [](\A t \in Tasks : references[t] = 0))
            ~> (pc[c] = "destroyed" \/ Broken)
=============================================================================
