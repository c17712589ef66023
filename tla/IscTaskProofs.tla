---------------------------- MODULE IscTaskProofs ----------------------------
(***************************************************************************)
(* Proofs about the task system of IscTask, for any number of workers,     *)
(* clients, tasks and events.                                              *)
(*                                                                         *)
(* First the workers: tasks_running is exact, and a task that has          *)
(* exclusive access runs alone.  isc_task_beginexclusive() grants on a     *)
(* counter, "tasks_running > 1".  That this excludes all other workers     *)
(* rests on three facts: the counter is exact, only one task at a time is  *)
(* in the protocol, and while it is no worker takes a task.  They are the  *)
(* inductive invariant IInv.                                               *)
(*                                                                         *)
(* Then the queues: a task is scheduled once, is allocated while it can be *)
(* reached, the list of privileged tasks is a sublist of the ready list,   *)
(* no wakeup is lost, a destroyed manager is empty; and from these that    *)
(* IscTask implements TaskSpec, step by step.                              *)
(***************************************************************************)
EXTENDS IscTask, DataProofs, FiniteSetTheorems, TLAPS

\* The worker's task has asked for exclusive access or has it.
AskingPCs == {"exwait", "exwoken", "exclusive"}

\* Workers are in dispatch(), clients in their own code.
Placed(p) ==
    /\ p \in [Threads -> WorkerPCs \cup ClientPCs]
    /\ \A w \in Workers : p[w] \in WorkerPCs
    /\ \A c \in Clients : p[c] \in ClientPCs

PlacesOK == Placed(pc) /\ exclusive_requested \in BOOLEAN

\* exclusive_requested belongs to one worker.
OneAsks ==
    /\ \A v, w \in Workers : pc[v] \in AskingPCs /\ pc[w] \in AskingPCs => v = w
    /\ \A w \in Workers : pc[w] \in AskingPCs => exclusive_requested

\* The inductive invariant.
IInv == PlacesOK /\ RunningCounted /\ OneAsks /\ ExclusiveAccess

-----------------------------------------------------------------------------
(* Counting the busy workers. *)

\* The workers f puts into dispatch()'s counted part.
Busy(f) == {w \in Workers : f[w] \in BusyPCs}

\* They are finitely many.
LEMMA BusyFinite ==
    ASSUME NEW f
    PROVE  IsFiniteSet(Busy(f)) /\ Cardinality(Busy(f)) \in Nat
<1>1. Busy(f) \in SUBSET Workers
  BY DEF Busy
<1> QED
  BY <1>1, ConstantAssumption, FS_Subset, FS_CardinalityType

\* When only w moves, they grow or shrink by w.
LEMMA BusyCount ==
    ASSUME NEW w \in Workers, NEW f, NEW g,
           \A v \in Workers \ {w} : f[v] \in BusyPCs <=> g[v] \in BusyPCs
    PROVE  /\ (f[w] \in BusyPCs <=> g[w] \in BusyPCs) => Busy(g) = Busy(f)
           /\ f[w] \notin BusyPCs /\ g[w] \in BusyPCs =>
                Cardinality(Busy(g)) = Cardinality(Busy(f)) + 1
           /\ f[w] \in BusyPCs /\ g[w] \notin BusyPCs =>
                Cardinality(Busy(g)) = Cardinality(Busy(f)) - 1
<1>1. (f[w] \in BusyPCs <=> g[w] \in BusyPCs) => Busy(g) = Busy(f)
  BY DEF Busy
<1>2. ASSUME f[w] \notin BusyPCs, g[w] \in BusyPCs
      PROVE  Cardinality(Busy(g)) = Cardinality(Busy(f)) + 1
  <2>1. Busy(g) = Busy(f) \cup {w} /\ w \notin Busy(f)
    BY <1>2 DEF Busy
  <2> QED
    BY <2>1, BusyFinite, FS_AddElement
<1>3. ASSUME f[w] \in BusyPCs, g[w] \notin BusyPCs
      PROVE  Cardinality(Busy(g)) = Cardinality(Busy(f)) - 1
  <2>1. Busy(g) = Busy(f) \ {w} /\ w \in Busy(f)
    BY <1>3 DEF Busy
  <2> QED
    BY <2>1, BusyFinite, FS_RemoveElement
<1> QED
  BY <1>1, <1>2, <1>3

\* A busy worker that finds tasks_running <= 1 is the only one.
LEMMA BusyAlone ==
    ASSUME NEW f, NEW w \in Workers, f[w] \in BusyPCs, ~(Cardinality(Busy(f)) > 1)
    PROVE  \A v \in Workers \ {w} : f[v] \notin BusyPCs
<1>1. w \in Busy(f)
  BY DEF Busy
<1>2. /\ IsFiniteSet(Busy(f) \ {w})
      /\ Cardinality(Busy(f) \ {w}) = Cardinality(Busy(f)) - 1
  BY <1>1, BusyFinite, FS_RemoveElement
<1>3. Cardinality(Busy(f) \ {w}) \in Nat
  BY <1>2, FS_CardinalityType
<1>4. Cardinality(Busy(f) \ {w}) = 0
  BY <1>2, <1>3, BusyFinite
<1>5. Busy(f) \ {w} = {}
  BY <1>2, <1>4, FS_EmptySet
<1> QED
  BY <1>5 DEF Busy

-----------------------------------------------------------------------------
(* What steps have in common. *)

\* A worker is in the same part of dispatch() in p and in q.
SamePart(p, q, w) ==
    /\ p[w] \in BusyPCs <=> q[w] \in BusyPCs
    /\ p[w] \in AskingPCs <=> q[w] \in AskingPCs
    /\ p[w] = "exclusive" <=> q[w] = "exclusive"

One(b) == IF b THEN 1 ELSE 0

\* A step that moves no worker from one part to another.
Quiet ==
    /\ Placed(pc')
    /\ \A w \in Workers : SamePart(pc, pc', w)
    /\ UNCHANGED <<tasks_running, exclusive_requested>>

\* A step that moves the worker w: the count follows, w takes a task or asks
\* for exclusive access only when nobody has asked, and gets it only when all
\* others are idle.
Orderly(w) ==
    /\ Placed(pc')
    /\ exclusive_requested' \in BOOLEAN
    /\ \A v \in Workers \ {w} : SamePart(pc, pc', v)
    /\ tasks_running' = (tasks_running + One(pc'[w] \in BusyPCs)) - One(pc[w] \in BusyPCs)
    /\ pc'[w] \in BusyPCs /\ pc[w] \notin BusyPCs =>
         ~exclusive_requested /\ pc'[w] # "exclusive"
    /\ pc'[w] \in AskingPCs /\ pc[w] \notin AskingPCs =>
         ~exclusive_requested /\ exclusive_requested'
    /\ exclusive_requested =>
         exclusive_requested' \/ (pc[w] \in AskingPCs /\ pc'[w] \notin AskingPCs)
    /\ pc'[w] = "exclusive" /\ pc[w] # "exclusive" =>
         \A v \in Workers \ {w} : pc[v] \notin BusyPCs

\* A quiet step keeps the invariant.
LEMMA QuietKeeps ==
    ASSUME IInv, Quiet
    PROVE  IInv'
<1>1. \A w \in Workers : SamePart(pc, pc', w)
  BY DEF Quiet
<1>2. PlacesOK'
  BY DEF IInv, PlacesOK, Quiet
<1>3. RunningCounted'
  <2>1. {w \in Workers : pc'[w] \in BusyPCs} = {w \in Workers : pc[w] \in BusyPCs}
    BY <1>1 DEF SamePart
  <2> QED
    BY <2>1 DEF IInv, RunningCounted, Quiet
<1>4. OneAsks'
  BY <1>1 DEF IInv, OneAsks, Quiet, SamePart
<1>5. ExclusiveAccess'
  BY <1>1 DEF IInv, ExclusiveAccess, SamePart
<1> QED
  BY <1>2, <1>3, <1>4, <1>5 DEF IInv

\* So does an orderly one.
LEMMA OrderlyKeeps ==
    ASSUME IInv, NEW w \in Workers, Orderly(w)
    PROVE  IInv'
<1>1. \A v \in Workers \ {w} : SamePart(pc, pc', v)
  BY DEF Orderly
<1>2. PlacesOK'
  BY DEF PlacesOK, Orderly
<1>3. RunningCounted'
  <2>1. tasks_running = Cardinality(Busy(pc))
    BY DEF IInv, RunningCounted, Busy
  <2>2. \A v \in Workers \ {w} : pc[v] \in BusyPCs <=> pc'[v] \in BusyPCs
    BY <1>1 DEF SamePart
  <2>3. tasks_running' = Cardinality(Busy(pc'))
    BY <2>1, <2>2, BusyFinite, BusyCount DEF Orderly, One
  <2> QED
    BY <2>3 DEF RunningCounted, Busy
<1>4. OneAsks'
  BY <1>1 DEF IInv, OneAsks, Orderly, SamePart
<1>5. ExclusiveAccess'
  <2>1. "exclusive" \in AskingPCs
    BY DEF AskingPCs
  <2> QED
    BY <1>1, <2>1 DEF IInv, OneAsks, ExclusiveAccess, Orderly, SamePart
<1> QED
  BY <1>2, <1>3, <1>4, <1>5 DEF IInv

-----------------------------------------------------------------------------
(* Condition variables move threads within their part. *)

\* From p to q threads were woken, at most.
Woken(p, q) == Placed(q) /\ \A w \in Workers : SamePart(p, q, w)

\* SIGNAL
LEMMA SignalWakes ==
    ASSUME NEW p, Placed(p), NEW q,
           \/ q \in Signal(p, "wait", "top")
           \/ q \in Signal(p, "exwait", "exwoken")
           \/ q \in Signal(p, "pausewait", "pausewoken")
    PROVE  Woken(p, q) /\ \A th \in Threads : p[th] = "top" => q[th] = "top"
<1> USE DEF WorkerPCs, ClientPCs, BusyPCs, ActionPCs, AskingPCs, Threads
<1>1. CASE q = p
  BY <1>1 DEF Woken, SamePart
<1>2. ASSUME NEW th \in Threads, p[th] = "wait", q = [p EXCEPT ![th] = "top"]
      PROVE  Woken(p, q) /\ \A u \in Threads : p[u] = "top" => q[u] = "top"
  BY <1>2, ConstantAssumption DEF Placed, Woken, SamePart
<1>3. ASSUME NEW th \in Threads, p[th] = "exwait", q = [p EXCEPT ![th] = "exwoken"]
      PROVE  Woken(p, q) /\ \A u \in Threads : p[u] = "top" => q[u] = "top"
  BY <1>3, ConstantAssumption DEF Placed, Woken, SamePart
<1>4. ASSUME NEW th \in Threads, p[th] = "pausewait", q = [p EXCEPT ![th] = "pausewoken"]
      PROVE  Woken(p, q) /\ \A u \in Threads : p[u] = "top" => q[u] = "top"
  BY <1>4, ConstantAssumption DEF Placed, Woken, SamePart
<1> QED
  BY <1>1, <1>2, <1>3, <1>4 DEF Signal

\* BROADCAST(&manager->work_available)
LEMMA BroadcastWakes ==
    ASSUME NEW p, Placed(p)
    PROVE  /\ Woken(p, Broadcast(p, "wait", "top"))
           /\ \A th \in Threads : p[th] # "wait" => Broadcast(p, "wait", "top")[th] = p[th]
BY DEF Broadcast, Placed, Woken, SamePart, WorkerPCs, ClientPCs, BusyPCs, ActionPCs,
       AskingPCs, Threads

-----------------------------------------------------------------------------
(* The actions. *)

\* The operations on one task leave the workers where they are.
LEMMA TaskCallQuiet ==
    ASSUME IInv, NEW th \in Threads, NEW t \in Tasks, TaskCall(th, t)
    PROVE  Quiet
<1> USE DEF mgrvars, mgrflags, threads
<1>1. UNCHANGED <<pc, tasks_running, exclusive_requested>>
  <2>1. CASE isc__task_create(th, t)
    BY <2>1 DEF isc__task_create
  <2>2. CASE isc__task_attach(th, t)
    BY <2>2 DEF isc__task_attach
  <2>3. CASE isc__task_detach(th, t)
    BY <2>3 DEF isc__task_detach
  <2>4. ASSUME NEW e \in Events, isc__task_send(th, t, e)
        PROVE  UNCHANGED <<pc, tasks_running, exclusive_requested>>
    BY <2>4 DEF isc__task_send
  <2>5. ASSUME NEW e \in Events, isc__task_sendanddetach(th, t, e)
        PROVE  UNCHANGED <<pc, tasks_running, exclusive_requested>>
    BY <2>5 DEF isc__task_sendanddetach
  <2>6. ASSUME NEW e \in Events, isc__task_purgeevent(th, t, e)
        PROVE  UNCHANGED <<pc, tasks_running, exclusive_requested>>
    BY <2>6 DEF isc__task_purgeevent
  <2>7. ASSUME NEW e \in Events, isc__task_onshutdown(th, t, e)
        PROVE  UNCHANGED <<pc, tasks_running, exclusive_requested>>
    BY <2>7 DEF isc__task_onshutdown
  <2>8. ASSUME NEW match \in SUBSET Events, isc__task_purgerange(th, t, match)
        PROVE  UNCHANGED <<pc, tasks_running, exclusive_requested>>
    BY <2>8 DEF isc__task_purgerange
  <2>9. ASSUME NEW match \in SUBSET Events, isc__task_unsendrange(th, t, match)
        PROVE  UNCHANGED <<pc, tasks_running, exclusive_requested>>
    BY <2>9 DEF isc__task_unsendrange
  <2>10. CASE isc__task_shutdown(th, t)
    BY <2>10 DEF isc__task_shutdown
  <2>11. ASSUME NEW priv \in BOOLEAN, isc__task_setprivilege(th, t, priv)
        PROVE  UNCHANGED <<pc, tasks_running, exclusive_requested>>
    BY <2>11 DEF isc__task_setprivilege
  <2> QED
    BY <2>1, <2>2, <2>3, <2>4, <2>5, <2>6, <2>7, <2>8, <2>9, <2>10, <2>11 DEF TaskCall
<1> QED
  BY <1>1 DEF IInv, PlacesOK, Quiet, SamePart

\* The rest of a call: task_ready() may wake a worker.
LEMMA CallStepQuiet ==
    ASSUME IInv, NEW th \in Threads, CallStep(th)
    PROVE  Quiet
<1>1. Placed(pc)
  BY DEF IInv, PlacesOK
<1>2. CASE task_ready(th)
  BY <1>1, <1>2 DEF task_ready, Quiet, SamePart, mgrvars, mgrflags
<1>3. CASE task_ready_push(th)
  <2>1. pc' \in Signal(pc, "wait", "top") \/ pc' = pc
    BY <1>3 DEF task_ready_push
  <2>2. Woken(pc, pc')
    BY <1>1, <2>1, SignalWakes DEF Woken, SamePart
  <2> QED
    BY <1>3, <2>2 DEF task_ready_push, Woken, Quiet, mgrflags
<1>4. CASE setprivilege_queue(th)
  BY <1>1, <1>4 DEF setprivilege_queue, Quiet, SamePart, mgrflags
<1>5. CASE setprivilege_relink(th)
  BY <1>1, <1>5 DEF setprivilege_relink, Quiet, SamePart, mgrflags
<1>6. CASE excltask_attach(th)
  BY <1>1, <1>6 DEF excltask_attach, Quiet, SamePart, mgrvars, mgrflags
<1> QED
  BY <1>2, <1>3, <1>4, <1>5, <1>6 DEF CallStep

\* A spurious wakeup.
LEMMA SpuriousQuiet ==
    ASSUME IInv, NEW th \in Threads, SpuriousWakeup(th)
    PROVE  Quiet
<1>1. Placed(pc)
  BY DEF IInv, PlacesOK
<1> QED
  BY <1>1, ConstantAssumption
  DEF SpuriousWakeup, Placed, Quiet, SamePart, WorkerPCs, ClientPCs, BusyPCs, ActionPCs,
      AskingPCs, Threads, mgrvars, mgrflags

\* The operations of the clients on the manager.
LEMMA ClientQuiet ==
    ASSUME IInv, NEW c \in Clients,
           \/ isc__taskmgr_pause(c) \/ isc__taskmgr_resume(c)
           \/ isc__taskmgr_setexcltask(c) \/ \E t \in Tasks : setexcl_attach(c, t)
           \/ isc__taskmgr_destroy(c) \/ DestroyStep(c)
    PROVE  Quiet
<1> DEFINE Moved(p) == [pc EXCEPT ![c] = p]
<1>1. Placed(pc)
  BY DEF IInv, PlacesOK
<1>2. ASSUME NEW p \in ClientPCs
      PROVE  Placed(Moved(p)) /\ \A w \in Workers : Moved(p)[w] = pc[w]
  BY <1>1, <1>2, ConstantAssumption DEF Placed, Threads
<1>3. ASSUME NEW p \in ClientPCs, pc' = Moved(p)
      PROVE  Woken(pc, pc')
  BY <1>2, <1>3 DEF Woken, SamePart
<1> USE DEF mgrvars, mgrflags
<1>4. CASE isc__taskmgr_pause(c)
  <2>1. pc' = Moved("pausewait") \/ pc' = Moved("app")
    BY <1>4 DEF isc__taskmgr_pause, PauseLoop
  <2>2. Woken(pc, pc')
    BY <1>3, <2>1 DEF ClientPCs
  <2> QED
    BY <1>4, <2>2 DEF isc__taskmgr_pause, Woken, Quiet
<1>5. CASE isc__taskmgr_resume(c)
  BY <1>1, <1>5, BroadcastWakes DEF isc__taskmgr_resume, Woken, Quiet
<1>6. CASE isc__taskmgr_destroy(c) \/ isc__taskmgr_setexcltask(c)
  <2>1. PICK p \in {"exclear", "setexcl", "newexcl", "destroy"} : pc' = Moved(p)
    BY <1>6 DEF isc__taskmgr_destroy, isc__taskmgr_setexcltask, DetachExcl
  <2>2. Woken(pc, pc')
    BY <1>3, <2>1 DEF ClientPCs
  <2> QED
    BY <1>6, <2>2 DEF isc__taskmgr_destroy, isc__taskmgr_setexcltask, Woken, Quiet
<1>11. ASSUME excl_clear(c) \/ \E t \in Tasks : setexcl_attach(c, t)
      PROVE  Quiet
  <2>1. PICK p \in {"app", "newexcl", "destroy"} : pc' = Moved(p)
    BY <1>11 DEF excl_clear, setexcl_attach
  <2>2. Woken(pc, pc')
    BY <1>3, <2>1 DEF ClientPCs
  <2> QED
    BY <1>11, <2>2 DEF excl_clear, setexcl_attach, Woken, Quiet
<1>7. CASE destroy_begin(c)
  <2>1. Woken(pc, pc')
    BY <1>3, <1>7 DEF destroy_begin, ClientPCs
  <2> QED
    BY <1>7, <2>1 DEF destroy_begin, Woken, Quiet
<1>8. ASSUME NEW t \in Tasks, destroy_walk(c, t)
      PROVE  Quiet
  BY <1>1, <1>8 DEF destroy_walk, threads, Quiet, SamePart
<1>9. CASE destroy_unlock(c)
  <2>1. Placed(Moved("join")) /\ \A w \in Workers : Moved("join")[w] = pc[w]
    BY <1>2 DEF ClientPCs
  <2>2. pc' = Broadcast(Moved("join"), "wait", "top")
    BY <1>9 DEF destroy_unlock
  <2>3. Woken(pc, pc')
    BY <2>1, <2>2, BroadcastWakes, ZenonT(40) DEF Woken, SamePart
  <2> QED
    BY <1>9, <2>3 DEF destroy_unlock, Woken, Quiet
<1>10. CASE destroy_join(c)
  <2>1. Woken(pc, pc')
    BY <1>3, <1>10 DEF destroy_join, ClientPCs
  <2> QED
    BY <1>10, <2>1 DEF destroy_join, Woken, Quiet
<1> QED
  BY <1>4, <1>5, <1>6, <1>7, <1>8, <1>9, <1>10, <1>11 DEF DestroyStep

\* The steps of a worker.
LEMMA WorkerOrderly ==
    ASSUME IInv, NEW w \in Workers,
           \/ WorkerStep(w) \/ dispatch_next(w)
           \/ isc__task_beginexclusive(w) \/ isc__task_endexclusive(w)
    PROVE  Orderly(w)
<1> DEFINE Moved(p) == [pc EXCEPT ![w] = p]
<1>1. Placed(pc) /\ exclusive_requested \in BOOLEAN /\ tasks_running \in Nat
  BY BusyFinite DEF IInv, PlacesOK, RunningCounted, Busy
<1>2. ASSUME NEW p \in WorkerPCs
      PROVE  /\ Placed(Moved(p)) /\ Moved(p)[w] = p
             /\ \A v \in Workers \ {w} : Moved(p)[v] = pc[v]
  BY <1>1, <1>2, ConstantAssumption DEF Placed, Threads
<1>3. ASSUME NEW p \in WorkerPCs, pc' = Moved(p)
      PROVE  Placed(pc') /\ pc'[w] = p /\ \A v \in Workers \ {w} : SamePart(pc, pc', v)
  BY <1>2, <1>3 DEF SamePart
<1>4. ASSUME NEW p \in WorkerPCs \ {"wait"}, pc' = Broadcast(Moved(p), "wait", "top")
      PROVE  Placed(pc') /\ pc'[w] = p /\ \A v \in Workers \ {w} : SamePart(pc, pc', v)
  <2>1. /\ Placed(Moved(p)) /\ Moved(p)[w] = p
        /\ \A v \in Workers \ {w} : Moved(p)[v] = pc[v]
    BY <1>2, <1>4
  <2>2. /\ Woken(Moved(p), pc')
        /\ \A th \in Threads : Moved(p)[th] # "wait" => pc'[th] = Moved(p)[th]
    BY <1>4, <2>1, BroadcastWakes
  <2>3. w \in Threads
    BY DEF Threads
  <2>4. pc'[w] = p
    BY <1>4, <2>1, <2>2, <2>3
  <2> QED
    BY <2>1, <2>2, <2>4 DEF Woken, SamePart
<1> USE DEF mgrvars, mgrflags
<1> DEFINE Parts == /\ WorkerPCs = {"top", "wait", "popped", "action", "exwait", "exwoken",
                                    "exclusive", "finish", "requeue", "end", "exited"}
                    /\ AskingPCs = {"exwait", "exwoken", "exclusive"}
                    /\ BusyPCs = {"action", "exwait", "exwoken", "exclusive", "popped",
                                  "finish", "requeue", "end"}
<1>5. Parts
  BY DEF WorkerPCs, AskingPCs, BusyPCs, ActionPCs
<1>6. CASE dispatch_exit(w) \/ dispatch_wait(w)
  <2>1. pc[w] = "top" /\ (pc' = Moved("exited") \/ pc' = Moved("wait"))
    BY <1>6 DEF dispatch_exit, dispatch_wait, AtTop
  <2>2. UNCHANGED <<tasks_running, exclusive_requested>>
    BY <1>6 DEF dispatch_exit, dispatch_wait
  <2> QED
    BY <1>1, <1>3, <1>5, <2>1, <2>2 DEF Orderly, One
<1>7. CASE dispatch_pop(w)
  <2>1. pc[w] = "top" /\ pc' = Moved("popped") /\ ~exclusive_requested
    BY <1>7 DEF dispatch_pop, AtTop, MustWait
  <2>2. tasks_running' = tasks_running + 1 /\ UNCHANGED exclusive_requested
    BY <1>7 DEF dispatch_pop
  <2>3. Placed(pc') /\ pc'[w] = "popped" /\ \A v \in Workers \ {w} : SamePart(pc, pc', v)
    BY <1>3, <1>5, <2>1
  <2>4. tasks_running' = (tasks_running + One(pc'[w] \in BusyPCs)) - One(pc[w] \in BusyPCs)
    BY <1>1, <1>5, <2>1, <2>2, <2>3 DEF One
  <2>5. /\ pc'[w] # "exclusive" /\ pc'[w] \notin AskingPCs
        /\ exclusive_requested' \in BOOLEAN
    BY <1>1, <1>5, <2>2, <2>3
  <2> QED
    BY <2>1, <2>2, <2>3, <2>4, <2>5 DEF Orderly
<1>8. CASE dispatch_start(w) \/ dispatch_next(w)
  <2>1. pc[w] \in {"popped", "action"}
    BY <1>8 DEF dispatch_start, dispatch_next
  <2>2. /\ \E p \in {"finish", "end", "requeue", "action"} : pc' = Moved(p)
        /\ UNCHANGED <<tasks_running, exclusive_requested>>
    BY <1>8 DEF dispatch_start, dispatch_next, dispatch_loop
  <2>3. /\ Placed(pc') /\ pc'[w] \in {"finish", "end", "requeue", "action"}
        /\ \A v \in Workers \ {w} : SamePart(pc, pc', v)
    BY <1>3, <1>5, <2>2
  <2>4. tasks_running' = (tasks_running + One(pc'[w] \in BusyPCs)) - One(pc[w] \in BusyPCs)
    BY <1>1, <1>5, <2>1, <2>2, <2>3 DEF One
  <2> QED
    BY <1>1, <1>5, <2>1, <2>2, <2>3, <2>4 DEF Orderly
<1>9. CASE task_finished(w)
  <2>1. /\ pc[w] = "finish"
        /\ pc' = Moved("end") \/ pc' = Broadcast(Moved("end"), "wait", "top")
        /\ UNCHANGED <<tasks_running, exclusive_requested>>
    BY <1>9 DEF task_finished
  <2>2. Placed(pc') /\ pc'[w] = "end" /\ \A v \in Workers \ {w} : SamePart(pc, pc', v)
    BY <1>3, <1>4, <1>5, <2>1
  <2> QED
    BY <1>1, <1>5, <2>1, <2>2 DEF Orderly, One
<1>10. CASE dispatch_end(w)
  <2>1. /\ pc[w] \in {"requeue", "end"}
        /\ tasks_running' = tasks_running - 1
        /\ UNCHANGED exclusive_requested
    BY <1>10 DEF dispatch_end
  <2>2. PICK p \in EndSignal(Moved("top")) :
          pc' = p \/ pc' = Broadcast(p, "wait", "top")
    BY <1>10 DEF dispatch_end
  <2>3. /\ Placed(Moved("top")) /\ Moved("top")[w] = "top"
        /\ \A v \in Workers \ {w} : Moved("top")[v] = pc[v]
    BY <1>2, <1>5
  <2>4. \/ p \in Signal(Moved("top"), "exwait", "exwoken")
        \/ p \in Signal(Moved("top"), "pausewait", "pausewoken")
        \/ p = Moved("top")
    BY <2>2 DEF EndSignal
  <2>5. w \in Threads
    BY DEF Threads
  <2>6. Woken(Moved("top"), p) /\ p[w] = "top"
    <3>1. CASE p = Moved("top")
      BY <2>3, <3>1 DEF Woken, SamePart
    <3>2. CASE p # Moved("top")
      <4> HIDE DEF Moved
      <4>1. /\ Woken(Moved("top"), p)
            /\ \A th \in Threads : Moved("top")[th] = "top" => p[th] = "top"
        BY <2>3, <2>4, <3>2, SignalWakes
      <4> QED
        BY <2>3, <2>5, <4>1
    <3> QED
      BY <3>1, <3>2
  <2>7. Woken(p, pc') /\ pc'[w] = "top"
    <3>1. CASE pc' = p
      BY <2>6, <3>1 DEF Woken, SamePart
    <3>2. CASE pc' = Broadcast(p, "wait", "top")
      BY <2>5, <2>6, <3>2, BroadcastWakes DEF Woken
    <3> QED
      BY <2>2, <3>1, <3>2
  <2>8. Placed(pc') /\ \A v \in Workers \ {w} : SamePart(pc, pc', v)
    BY <2>3, <2>6, <2>7 DEF Woken, SamePart
  <2> QED
    BY <1>1, <1>5, <2>1, <2>7, <2>8 DEF Orderly, One
<1>11. ASSUME pc[w] \in BusyPCs, AwaitExclusive(w)
       PROVE  /\ pc' = Moved("exwait") \/ pc' = Moved("exclusive")
              /\ pc' = Moved("exclusive") => \A v \in Workers \ {w} : pc[v] \notin BusyPCs
  <2>1. CASE tasks_running > 1
    <3>1. pc' = Moved("exwait")
      BY <1>11, <2>1 DEF AwaitExclusive
    <3>2. pc'[w] = "exwait"
      BY <1>3, <1>5, <3>1
    <3>3. Moved("exclusive")[w] = "exclusive"
      BY <1>2, <1>5
    <3> QED
      BY <3>1, <3>2, <3>3
  <2>2. CASE ~(tasks_running > 1)
    <3>1. pc' = Moved("exclusive")
      BY <1>11, <2>2 DEF AwaitExclusive
    <3>2. tasks_running = Cardinality(Busy(pc))
      BY DEF IInv, RunningCounted, Busy
    <3> QED
      BY <1>11, <2>2, <3>1, <3>2, BusyAlone
  <2> QED
    BY <2>1, <2>2
<1>12. CASE beginexclusive_woken(w)
  <2>1. /\ pc[w] = "exwoken" /\ AwaitExclusive(w)
        /\ UNCHANGED <<tasks_running, exclusive_requested>>
    BY <1>12 DEF beginexclusive_woken
  <2>2. /\ pc' = Moved("exwait") \/ pc' = Moved("exclusive")
        /\ pc' = Moved("exclusive") => \A v \in Workers \ {w} : pc[v] \notin BusyPCs
    BY <1>5, <1>11, <2>1
  <2>3. /\ Placed(pc') /\ pc'[w] \in {"exwait", "exclusive"}
        /\ \A v \in Workers \ {w} : SamePart(pc, pc', v)
        /\ pc'[w] = "exclusive" => \A v \in Workers \ {w} : pc[v] \notin BusyPCs
    BY <1>3, <1>5, <2>2
  <2> QED
    BY <1>1, <1>5, <2>1, <2>3 DEF Orderly, One
<1>13. CASE isc__task_beginexclusive(w)
  <2>1. /\ pc[w] = "action" /\ AwaitExclusive(w)
        /\ ~exclusive_requested /\ exclusive_requested' = TRUE /\ UNCHANGED tasks_running
    BY <1>13 DEF isc__task_beginexclusive
  <2>2. /\ pc' = Moved("exwait") \/ pc' = Moved("exclusive")
        /\ pc' = Moved("exclusive") => \A v \in Workers \ {w} : pc[v] \notin BusyPCs
    BY <1>5, <1>11, <2>1
  <2>3. /\ Placed(pc') /\ pc'[w] \in {"exwait", "exclusive"}
        /\ \A v \in Workers \ {w} : SamePart(pc, pc', v)
        /\ pc'[w] = "exclusive" => \A v \in Workers \ {w} : pc[v] \notin BusyPCs
    BY <1>3, <1>5, <2>2
  <2> QED
    BY <1>1, <1>5, <2>1, <2>3 DEF Orderly, One
<1>14. CASE isc__task_endexclusive(w)
  <2>1. /\ pc[w] = "exclusive" /\ pc' = Broadcast(Moved("action"), "wait", "top")
        /\ exclusive_requested' = FALSE /\ UNCHANGED tasks_running
    BY <1>14 DEF isc__task_endexclusive
  <2>2. Placed(pc') /\ pc'[w] = "action" /\ \A v \in Workers \ {w} : SamePart(pc, pc', v)
    BY <1>4, <1>5, <2>1
  <2>3. tasks_running' = (tasks_running + One(pc'[w] \in BusyPCs)) - One(pc[w] \in BusyPCs)
    BY <1>1, <1>5, <2>1, <2>2 DEF One
  <2>4. pc[w] \in BusyPCs /\ pc[w] \in AskingPCs /\ pc'[w] \notin AskingPCs
    BY <1>5, <2>1, <2>2
  <2> QED
    BY <2>1, <2>2, <2>3, <2>4 DEF Orderly
<1> QED
  BY <1>6, <1>7, <1>8, <1>9, <1>10, <1>12, <1>13, <1>14 DEF WorkerStep

-----------------------------------------------------------------------------
(* The theorems. *)

\* A manager that was just created satisfies the invariant.
LEMMA InitIInv ==
    ASSUME Init
    PROVE  IInv
<1>1. PlacesOK
  BY ConstantAssumption DEF Init, PlacesOK, Placed, Threads, WorkerPCs, ClientPCs
<1>2. \A w \in Workers : pc[w] = "top"
  BY DEF Init, Threads
<1>3. \A w \in Workers : pc[w] \notin BusyPCs /\ pc[w] \notin AskingPCs /\ pc[w] # "exclusive"
  BY <1>2 DEF BusyPCs, ActionPCs, AskingPCs
<1>4. RunningCounted
  <2>1. {w \in Workers : pc[w] \in BusyPCs} = {}
    BY <1>3
  <2> QED
    BY <2>1, FS_EmptySet DEF Init, RunningCounted
<1> QED
  BY <1>1, <1>3, <1>4 DEF IInv, OneAsks, ExclusiveAccess

\* Every step of every thread keeps it.
LEMMA NextIInv ==
    ASSUME IInv, [Next]_vars
    PROVE  IInv'
<1>1. ASSUME NEW th \in Threads, NEW t \in Tasks, TaskCall(th, t)
      PROVE  IInv'
  BY <1>1, TaskCallQuiet, QuietKeeps
<1>2. ASSUME NEW th \in Threads, CallStep(th)
      PROVE  IInv'
  BY <1>2, CallStepQuiet, QuietKeeps
<1>3. ASSUME NEW th \in Threads, isc__taskmgr_excltask(th)
      PROVE  IInv'
  <2>1. Quiet
    BY <1>3 DEF isc__taskmgr_excltask, IInv, PlacesOK, Quiet, SamePart, mgrvars, mgrflags,
                threads
  <2> QED
    BY <2>1, QuietKeeps
<1>4. ASSUME NEW th \in Threads, SpuriousWakeup(th)
      PROVE  IInv'
  BY <1>4, SpuriousQuiet, QuietKeeps
<1>5. ASSUME NEW w \in Workers,
             \/ WorkerStep(w) \/ dispatch_next(w)
             \/ isc__task_beginexclusive(w) \/ isc__task_endexclusive(w)
      PROVE  IInv'
  BY <1>5, WorkerOrderly, OrderlyKeeps
<1>6. ASSUME NEW w \in Workers, NEW m \in {"normal", "privileged"}, isc__taskmgr_setmode(w, m)
      PROVE  IInv'
  <2>1. Quiet
    BY <1>6 DEF isc__taskmgr_setmode, IInv, PlacesOK, Quiet, SamePart, threads
  <2> QED
    BY <2>1, QuietKeeps
<1>7. ASSUME NEW c \in Clients,
             \/ isc__taskmgr_pause(c) \/ isc__taskmgr_resume(c)
             \/ isc__taskmgr_setexcltask(c) \/ \E t \in Tasks : setexcl_attach(c, t)
             \/ isc__taskmgr_destroy(c) \/ DestroyStep(c)
      PROVE  IInv'
  BY <1>7, ClientQuiet, QuietKeeps
<1>8. CASE UNCHANGED vars
  <2>1. Quiet
    BY <1>8 DEF vars, mgrvars, mgrflags, threads, IInv, PlacesOK, Quiet, SamePart
  <2> QED
    BY <2>1, QuietKeeps
<1> QED
  BY <1>1, <1>2, <1>3, <1>4, <1>5, <1>6, <1>7, <1>8 DEF Next

\* tasks_running, which dispatch() increments and decrements in different
\* critical sections, is the number of workers between taking a task and giving
\* it back.
THEOREM RunningIsCounted == Spec => []RunningCounted
<1>1. Init => IInv
  BY InitIInv
<1>2. IInv /\ [Next]_vars => IInv'
  BY NextIInv
<1>3. IInv => RunningCounted
  BY DEF IInv
<1> QED
  BY <1>1, <1>2, <1>3, PTL DEF Spec

\* While a task has exclusive access (isc_task_beginexclusive(), task.c:1672)
\* no other worker is between taking a task and giving it back.
THEOREM ExclusiveIsAlone == Spec => []ExclusiveAccess
<1>1. Init => IInv
  BY InitIInv
<1>2. IInv /\ [Next]_vars => IInv'
  BY NextIInv
<1>3. IInv => ExclusiveAccess
  BY DEF IInv
<1> QED
  BY <1>1, <1>2, <1>3, PTL DEF Spec

-----------------------------------------------------------------------------
(* Lists *)

\* No element is linked twice.
Distinct(q) == \A i, j \in DOMAIN q : q[i] = q[j] => i = j

LEMMA RemoveAtIs ==
    ASSUME NEW S, NEW q \in Seq(S), NEW i \in DOMAIN q
    PROVE  /\ RemoveAt(q, i) \in Seq(S)
           /\ DOMAIN RemoveAt(q, i) = 1 .. Len(q) - 1
           /\ \A j \in 1 .. Len(q) - 1 :
                 RemoveAt(q, i)[j] = IF j < i THEN q[j] ELSE q[j + 1]
<1> DEFINE a == SubSeq(q, 1, i - 1)
           b == SubSeq(q, i + 1, Len(q))
<1>0. Len(q) \in Nat /\ i \in 1 .. Len(q)
  OBVIOUS
<1>1. a \in Seq(S) /\ Len(a) = i - 1 /\ \A j \in 1 .. i - 1 : a[j] = q[j]
  BY <1>0
<1>2. b \in Seq(S) /\ Len(b) = Len(q) - i /\ \A j \in 1 .. Len(q) - i : b[j] = q[j + i]
  BY <1>0
<1>3. RemoveAt(q, i) = a \o b
  BY DEF RemoveAt
<1> HIDE DEF a, b
<1>4. a \o b \in Seq(S) /\ Len(a \o b) = Len(q) - 1
  BY <1>0, <1>1, <1>2
<1>5. \A j \in 1 .. Len(q) - 1 : (a \o b)[j] = IF j < i THEN a[j] ELSE b[j - (i - 1)]
  <2>1. \A j \in 1 .. Len(a) + Len(b) :
           (a \o b)[j] = IF j <= Len(a) THEN a[j] ELSE b[j - Len(a)]
    BY <1>1, <1>2, ConcatProperties, Zenon
  <2> SUFFICES ASSUME NEW j \in 1 .. Len(q) - 1
               PROVE  (a \o b)[j] = IF j < i THEN a[j] ELSE b[j - (i - 1)]
    OBVIOUS
  <2>2. j \in 1 .. Len(a) + Len(b) /\ (j <= Len(a) <=> j < i)
    <3>1. Len(a) = i - 1 /\ Len(b) = Len(q) - i
      BY <1>1, <1>2, Zenon
    <3>2. i \in Int /\ j \in Int /\ 1 <= j /\ j <= Len(q) - 1
      BY <1>0
    <3>3. i - 1 + (Len(q) - i) = Len(q) - 1 /\ (j <= i - 1 <=> j < i)
      BY <1>0, <3>2
    <3> QED BY <3>1, <3>3, Zenon
  <2>3. (a \o b)[j] = IF j <= Len(a) THEN a[j] ELSE b[j - Len(a)]
    BY <2>1, <2>2, Zenon
  <2> QED BY <1>1, <2>2, <2>3, Zenon
<1>6. ASSUME NEW j \in 1 .. Len(q) - 1 PROVE (a \o b)[j] = IF j < i THEN q[j] ELSE q[j + 1]
  <2>1. CASE j < i
    BY <1>0, <1>1, <1>5, <2>1
  <2>2. CASE ~(j < i)
    <3>1. j - (i - 1) \in 1 .. Len(q) - i /\ j - (i - 1) + i = j + 1
      BY <1>0, <2>2
    <3> QED BY <1>2, <1>5, <2>2, <3>1
  <2> QED BY <2>1, <2>2
<1>7. DOMAIN (a \o b) = 1 .. Len(q) - 1
  BY <1>4
<1>8. \A j \in 1 .. Len(q) - 1 : (a \o b)[j] = IF j < i THEN q[j] ELSE q[j + 1]
  BY <1>6, Zenon
<1> QED BY <1>3, <1>4, <1>7, <1>8, Zenon

\* DEQUEUE of a linked element.
LEMMA DequeueIs ==
    ASSUME NEW S, NEW q \in Seq(S), NEW x, Linked(q, x)
    PROVE  /\ Dequeue(q, x) \in Seq(S)
           /\ Distinct(q) => /\ Distinct(Dequeue(q, x))
                             /\ \A y : Linked(Dequeue(q, x), y) <=> Linked(q, y) /\ y # x
<1> DEFINE i == CHOOSE h \in DOMAIN q : q[h] = x
           r == RemoveAt(q, i)
<1>0. Len(q) \in Nat /\ DOMAIN q = 1 .. Len(q)
  OBVIOUS
<1>1. i \in DOMAIN q /\ q[i] = x
  BY DEF Linked
<1> HIDE DEF i
<1>2. /\ r \in Seq(S) /\ DOMAIN r = 1 .. Len(q) - 1
      /\ \A j \in 1 .. Len(q) - 1 : r[j] = IF j < i THEN q[j] ELSE q[j + 1]
  BY <1>1, RemoveAtIs
<1>3. Dequeue(q, x) = r
  BY DEF Dequeue, i
<1> HIDE DEF r
<1>4. ASSUME Distinct(q) PROVE Distinct(r)
  <2> SUFFICES ASSUME NEW j \in 1 .. Len(q) - 1, NEW h \in 1 .. Len(q) - 1, r[j] = r[h]
               PROVE  j = h
    BY <1>2 DEF Distinct
  <2>1. j \in DOMAIN q /\ j + 1 \in DOMAIN q /\ h \in DOMAIN q /\ h + 1 \in DOMAIN q
    BY <1>0
  <2> QED BY <1>0, <1>1, <1>2, <1>4, <2>1 DEF Distinct
<1>5. ASSUME Distinct(q), NEW y PROVE Linked(r, y) <=> Linked(q, y) /\ y # x
  <2>1. ASSUME Linked(r, y) PROVE Linked(q, y) /\ y # x
    <3>1. PICK j \in 1 .. Len(q) - 1 : r[j] = y
      BY <1>2, <2>1 DEF Linked
    <3>2. j \in DOMAIN q /\ j + 1 \in DOMAIN q
      BY <1>0
    <3>3. CASE j < i
      <4>1. q[j] = y /\ j # i
        BY <1>0, <1>1, <1>2, <3>1, <3>3
      <4> QED BY <1>1, <1>5, <3>2, <4>1 DEF Linked, Distinct
    <3>4. CASE ~(j < i)
      <4>1. q[j + 1] = y /\ j + 1 # i
        BY <1>0, <1>1, <1>2, <3>1, <3>4
      <4> QED BY <1>1, <1>5, <3>2, <4>1 DEF Linked, Distinct
    <3> QED BY <3>3, <3>4
  <2>2. ASSUME Linked(q, y), y # x PROVE Linked(r, y)
    <3>1. PICK j \in DOMAIN q : q[j] = y
      BY <2>2 DEF Linked
    <3>2. j # i
      BY <1>1, <2>2, <3>1
    <3>3. CASE j < i
      <4>1. j \in 1 .. Len(q) - 1 /\ r[j] = y
        BY <1>0, <1>1, <1>2, <3>1, <3>3
      <4> QED BY <1>2, <4>1 DEF Linked
    <3>4. CASE j > i
      <4>1. j - 1 \in 1 .. Len(q) - 1 /\ ~(j - 1 < i) /\ (j - 1) + 1 = j
        BY <1>0, <1>1, <3>4
      <4>2. r[j - 1] = y
        BY <1>2, <3>1, <4>1
      <4> QED BY <1>2, <4>1, <4>2 DEF Linked
    <3> QED BY <1>0, <1>1, <3>1, <3>2, <3>3, <3>4
  <2> QED BY <2>1, <2>2
<1> QED BY <1>2, <1>3, <1>4, <1>5

\* ENQUEUE
LEMMA AppendIs ==
    ASSUME NEW S, NEW q \in Seq(S), NEW x \in S
    PROVE  /\ Append(q, x) \in Seq(S)
           /\ \A y : Linked(Append(q, x), y) <=> Linked(q, y) \/ y = x
           /\ Distinct(q) /\ ~Linked(q, x) => Distinct(Append(q, x))
<1> DEFINE r == Append(q, x)
           n == Len(q) + 1
<1>1. /\ r \in Seq(S) /\ DOMAIN r = 1 .. n /\ r[n] = x /\ Len(q) \in Nat
      /\ DOMAIN q = 1 .. Len(q) /\ \A i \in DOMAIN q : r[i] = q[i]
  OBVIOUS
<1> HIDE DEF r
<1>2. \A i \in DOMAIN r : i \in DOMAIN q \/ i = n
  BY <1>1
<1>3. n \in DOMAIN r /\ \A i \in DOMAIN q : i \in DOMAIN r /\ i # n
  BY <1>1
<1>4. ASSUME NEW y PROVE Linked(r, y) <=> Linked(q, y) \/ y = x
  BY <1>1, <1>2, <1>3 DEF Linked
<1>5. Distinct(q) /\ ~Linked(q, x) => Distinct(r)
  BY <1>1, <1>2, <1>3 DEF Distinct, Linked
<1> QED BY <1>1, <1>4, <1>5 DEF r

LEMMA ReverseIs ==
    ASSUME NEW S, NEW q \in Seq(S)
    PROVE  Reverse(q) \in Seq(S)
<1>1. Len(q) \in Nat /\ \A i \in 1 .. Len(q) : (Len(q) - i) + 1 \in 1 .. Len(q)
  OBVIOUS
<1>2. Reverse(q) \in [1 .. Len(q) -> S]
  BY <1>1 DEF Reverse
<1> QED BY <1>1, <1>2, SeqDef

\* The head of a list that is not empty is linked.
LEMMA HeadLinked ==
    ASSUME NEW S, NEW q \in Seq(S), q # <<>>
    PROVE  Head(q) \in S /\ Linked(q, Head(q))
<1>1. 1 \in DOMAIN q /\ Head(q) = q[1]
  OBVIOUS
<1> QED BY <1>1 DEF Linked

\* An empty list links nothing, and only an empty list does.
LEMMA EmptyLinked ==
    ASSUME NEW S, NEW q \in Seq(S)
    PROVE  q = <<>> <=> \A x : ~Linked(q, x)
<1>1. q = <<>> => \A x : ~Linked(q, x)
  BY DEF Linked
<1>2. q # <<>> => Linked(q, Head(q))
  BY HeadLinked
<1> QED BY <1>1, <1>2

-----------------------------------------------------------------------------
(* The inductive invariant: what holds of a task, of a list, of a thread and *)
(* of the manager that is destroyed.                                         *)

InQueue(t)    == Linked(ready_tasks, t)
InPriority(t) == Linked(ready_priority_tasks, t)
Runs(w, t)    == pc[w] \in ActionPCs /\ cur[w] = t
Finishes(w, t) == pc[w] = "finish" /\ cur[w] = t
Privs(th, t)  == call[th].op = "priv" /\ call[th].task = t

\* A ready task is in one place; a running one has one worker, and so has one
\* that is done; and the fields of the task go with its state.
Life(t) ==
    /\ state[t] = "ready" => \/ InQueue(t)
                             \/ \E th \in Threads : Owes(th, t)
                             \/ \E w \in Workers : Carries(w, t)
    /\ InQueue(t) => /\ state[t] = "ready"
                     /\ \A th \in Threads : ~Owes(th, t)
                     /\ \A w \in Workers : ~Carries(w, t)
    /\ \A th \in Threads : Owes(th, t) => /\ state[t] = "ready"
                                          /\ \A u \in Threads : Owes(u, t) => u = th
                                          /\ \A w \in Workers : ~Carries(w, t)
    /\ \A w \in Workers :
          /\ Carries(w, t) => state[t] = "ready" /\ \A v \in Workers : Carries(v, t) => v = w
          /\ Runs(w, t) => state[t] = "running" /\ \A v \in Workers : Runs(v, t) => v = w
          /\ Finishes(w, t) => state[t] = "done" /\ \A v \in Workers : Finishes(v, t) => v = w
    /\ t \in tasks <=> state[t] \notin {"unborn", "freed"}
    /\ references[t] > 0 => state[t] \in {"idle", "ready", "running"}
    /\ state[t] \in {"unborn", "idle"} => events[t] = <<>>
    /\ state[t] = "done" => events[t] = <<>> /\ shuttingdown[t]
    /\ shuttingdown[t] => on_shutdown[t] = <<>>

\* The task is in the second list if it is in the first and privileged, except
\* while isc_task_setprivilege() has changed the flag and not the list.
Privilege(t) ==
    /\ InPriority(t) => InQueue(t)
    /\ InQueue(t) /\ (\A th \in Threads : ~Privs(th, t)) => (privileged[t] <=> InPriority(t))

Lists == Distinct(ready_tasks) /\ Distinct(ready_priority_tasks)

\* A worker has a task in the counted part of dispatch().
Pointers == \A w \in Workers : pc[w] \in BusyPCs <=> cur[w] # None

\* isc_taskmgr_destroy() keeps the lock while it walks over tasks that exist,
\* and nothing is created once it has begun.
Destroying ==
    /\ walk # {} => \E c \in Clients : pc[c] = "walk"
    /\ walk \subseteq tasks
    /\ \A c \in Clients : pc[c] = "walk" => mgrlock = c /\ exiting
    /\ exiting => \A t \in tasks \ walk : shuttingdown[t]
    /\ \A w \in Workers : pc[w] = "exited" => exiting /\ tasks = {}
    /\ \A c \in Clients : pc[c] = "destroyed" => \A w \in Workers : pc[w] = "exited"

TaskTypes ==
    /\ state \in [Tasks -> {"unborn", "idle", "ready", "running", "done", "freed"}]
    /\ references \in [Tasks -> Nat]
    /\ shuttingdown \in [Tasks -> BOOLEAN]
    /\ privileged \in [Tasks -> BOOLEAN]
    /\ EventsOK

\* What a thread is inside of.
CallKinds == {"ready", "push", "priv", "relinked", "excl", "stale"}
Call == {NoCall} \cup [op : CallKinds, task : Tasks, flag : BOOLEAN]

ManagerTypes ==
    /\ mgrlock \in Threads \cup {None}
    /\ tasks \subseteq Tasks
    /\ ready_tasks \in Seq(Tasks)
    /\ ready_priority_tasks \in Seq(Tasks)
    /\ mode \in {"normal", "privileged"}
    /\ pause_requested \in BOOLEAN
    /\ exiting \in BOOLEAN
    /\ excl \in Tasks \cup {None}
    /\ walk \subseteq Tasks

ThreadTypes ==
    /\ cur \in [Workers -> Tasks \cup {None}]
    /\ count \in [Workers -> Nat]
    /\ call \in [Threads -> Call]

QInv ==
    /\ TaskTypes /\ ManagerTypes /\ ThreadTypes
    /\ \A t \in Tasks : Life(t) /\ Privilege(t)
    /\ Lists /\ Pointers /\ Destroying

\* The task isc_task_setprivilege() is inside of has a reference of a caller,
\* and the flag is the one it set; the manager's task has the manager's.
PrivOK ==
    \A th \in Threads, t \in Tasks :
        Privs(th, t) => CallersRefs(t) > 0 /\ call[th].flag = privileged[t]
ExclOK == excl # None /\ ExclHeld => references[excl] > 0
PInv   == PrivOK /\ ExclOK

LEMMA AloneHeld ==
    ASSUME NEW c, Alone(c)
    PROVE  ExclHeld
  BY DEF Alone, ExclHeld, ExclPCs, DestroyPCs

-----------------------------------------------------------------------------
(* What steps have in common. *)

\* The places that say what a thread has to do with a task or the manager.
Marked == {"popped", "finish", "requeue", "exited", "walk", "destroyed"}

\* Two places of a thread that differ at most in being woken, in having been
\* granted exclusive access, or in code outside the library.
Alike(p, q, th) ==
    /\ p[th] \in ActionPCs <=> q[th] \in ActionPCs
    /\ p[th] \in BusyPCs <=> q[th] \in BusyPCs
    /\ \A x \in Marked : p[th] = x <=> q[th] = x

\* The threads have to do with t what they had before.
SameThreads(t) ==
    /\ \A th \in Threads :
          /\ Owes(th, t)' <=> Owes(th, t)
          /\ Privs(th, t)' <=> Privs(th, t)
    /\ \A w \in Workers :
          /\ Carries(w, t)' <=> Carries(w, t)
          /\ Runs(w, t)' <=> Runs(w, t)
          /\ Finishes(w, t)' <=> Finishes(w, t)

\* The task and its place in the lists are what they were.
SameTask(t) ==
    /\ state'[t] = state[t]
    /\ references'[t] > 0 => references[t] > 0
    /\ events'[t] = events[t] /\ on_shutdown'[t] = on_shutdown[t]
    /\ shuttingdown'[t] = shuttingdown[t] /\ privileged'[t] = privileged[t]
    /\ t \in tasks' <=> t \in tasks
    /\ InQueue(t)' <=> InQueue(t)
    /\ InPriority(t)' <=> InPriority(t)

LEMMA LifeFrame ==
    ASSUME NEW t \in Tasks, Life(t), SameTask(t), SameThreads(t)
    PROVE  Life(t)'
  BY DEF Life, SameTask, SameThreads

LEMMA PrivilegeFrame ==
    ASSUME NEW t \in Tasks, Privilege(t), SameTask(t), SameThreads(t)
    PROVE  Privilege(t)'
  BY DEF Privilege, SameTask, SameThreads

LEMMA ThreadsFrame ==
    ASSUME NEW t \in Tasks, ThreadTypes,
           \A w \in Workers : \/ cur'[w] = cur[w] /\ Alike(pc, pc', w)
                              \/ cur[w] # t /\ cur'[w] # t,
           \A th \in Threads : \/ call'[th] = call[th] /\ Alike(pc, pc', th)
                               \/ call[th].task # t /\ call'[th].task # t
    PROVE  SameThreads(t)
<1>1. \A w \in Workers : /\ Carries(w, t)' <=> Carries(w, t)
                         /\ Runs(w, t)' <=> Runs(w, t)
                         /\ Finishes(w, t)' <=> Finishes(w, t)
  BY DEF Carries, Runs, Finishes, Alike, Marked
<1>2. \A th \in Threads :
          /\ Owes(th, t)' <=> Owes(th, t)
          /\ Privs(th, t)' <=> Privs(th, t)
  BY DEF Owes, Privs, Alike, Marked
<1> QED BY <1>1, <1>2 DEF SameThreads

LEMMA DestroyFrame ==
    ASSUME Destroying, walk' = walk, exiting' = exiting, tasks' \subseteq tasks, walk \subseteq tasks',
           \A t \in Tasks : shuttingdown[t] => shuttingdown'[t], tasks \subseteq Tasks,
           \A c \in Clients : mgrlock = c => mgrlock' = c,
           \A th \in Threads : Alike(pc, pc', th)
    PROVE  Destroying'
<1>1. \A th \in Threads : /\ pc[th] = "walk" <=> pc'[th] = "walk"
                          /\ pc[th] = "exited" <=> pc'[th] = "exited"
                          /\ pc[th] = "destroyed" <=> pc'[th] = "destroyed"
  BY DEF Alike, Marked
<1>2. Clients \subseteq Threads /\ Workers \subseteq Threads
  BY DEF Threads
<1> QED BY <1>1, <1>2 DEF Destroying

\* SIGNAL and BROADCAST only wake.
LEMMA SignalAlike ==
    ASSUME NEW p, Placed(p), NEW q,
           \/ q \in Signal(p, "wait", "top")
           \/ q \in Signal(p, "exwait", "exwoken")
           \/ q \in Signal(p, "pausewait", "pausewoken")
           \/ q = Broadcast(p, "wait", "top")
           \/ q = p
    PROVE  \A th \in Threads : Alike(p, q, th)
<1> USE DEF Marked, Alike, ActionPCs, BusyPCs
<1>1. CASE q = p
  BY <1>1
<1>2. ASSUME NEW th \in Threads, \/ p[th] = "wait" /\ q = [p EXCEPT ![th] = "top"]
                                 \/ p[th] = "exwait" /\ q = [p EXCEPT ![th] = "exwoken"]
                                 \/ p[th] = "pausewait" /\ q = [p EXCEPT ![th] = "pausewoken"]
      PROVE  \A u \in Threads : Alike(p, q, u)
  BY <1>2 DEF Placed
<1>3. CASE q = Broadcast(p, "wait", "top")
  BY <1>3 DEF Broadcast
<1> QED BY <1>1, <1>2, <1>3 DEF Signal

\* A step that touches one task, at most.
LEMMA OneTask ==
    ASSUME QInv, NEW t0, TaskTypes', ManagerTypes', ThreadTypes', Lists', Pointers', Destroying',
           \A t \in Tasks \ {t0} : SameTask(t) /\ SameThreads(t),
           t0 \in Tasks => Life(t0)' /\ Privilege(t0)'
    PROVE  QInv'
<1>1. ASSUME NEW t \in Tasks PROVE Life(t)' /\ Privilege(t)'
  <2>1. Life(t) /\ Privilege(t)
    BY DEF QInv
  <2>2. CASE t # t0
    BY <2>1, <2>2, LifeFrame, PrivilegeFrame
  <2> QED BY <2>2
<1> QED BY <1>1 DEF QInv

\* The manager and the threads but th go on as they were, and so do all tasks
\* but t0; t0 may become ready, and then th has to queue it.
Touches(th, t0) ==
    /\ UNCHANGED <<cur, tasks, readyqs, walk, mgrlock, exiting>>
    /\ \A u \in Threads : Alike(pc, pc', u)
    /\ \A t \in Tasks \ {t0} :
          /\ state'[t] = state[t] /\ events'[t] = events[t]
          /\ on_shutdown'[t] = on_shutdown[t] /\ shuttingdown'[t] = shuttingdown[t]
          /\ references'[t] > 0 => references[t] > 0
    /\ privileged' = privileged
    /\ call[th] = NoCall
    /\ \/ state'[t0] = state[t0] /\ call' = call
       \/ /\ state[t0] = "idle" /\ state'[t0] = "ready"
          /\ call' = [call EXCEPT ![th] = [op |-> "ready", task |-> t0, flag |-> FALSE]]
    /\ references'[t0] > 0 => state[t0] \in {"idle", "ready", "running"}
    /\ state[t0] \in {"idle", "ready", "running"}
    /\ state'[t0] = "idle" => events'[t0] = <<>>
    /\ shuttingdown[t0] => shuttingdown'[t0]
    /\ shuttingdown'[t0] => on_shutdown'[t0] = <<>>

LEMMA TouchesKeeps ==
    ASSUME QInv, NEW th \in Threads, NEW t0 \in Tasks, Touches(th, t0),
           TaskTypes', ManagerTypes', ThreadTypes'
    PROVE  QInv'
<1>0. Life(t0) /\ Privilege(t0) /\ ThreadTypes /\ ManagerTypes /\ Lists /\ Pointers /\ Destroying
  BY DEF QInv
<1>1. call[th].op = "none" /\ call[th].task = None /\ NoCall.op = "none" /\ None \notin Tasks
  BY ConstantAssumption DEF Touches, NoCall
<1>2. \A u \in Threads \ {th} : call'[u] = call[u]
  BY <1>0 DEF Touches, ThreadTypes
<1>3. call'[th] = call[th] \/ (call'[th].op = "ready" /\ call'[th].task = t0)
  BY <1>0 DEF Touches, ThreadTypes
<1>4. ASSUME NEW t \in Tasks \ {t0} PROVE SameTask(t) /\ SameThreads(t)
  <2>1. SameTask(t)
    BY <1>4 DEF Touches, SameTask, InQueue, InPriority, readyqs
  <2>2. \A u \in Threads : \/ call'[u] = call[u] /\ Alike(pc, pc', u)
                           \/ call[u].task # t /\ call'[u].task # t
    BY <1>1, <1>2, <1>3, <1>4 DEF Touches
  <2>3. SameThreads(t)
    <3>1. \A w \in Workers : cur'[w] = cur[w] /\ Alike(pc, pc', w)
      BY DEF Touches, Threads
    <3> QED BY <1>0, <2>2, <3>1, ThreadsFrame
  <2> QED BY <2>1, <2>3
<1>5. /\ \A w \in Workers : /\ Carries(w, t0)' <=> Carries(w, t0)
                            /\ Runs(w, t0)' <=> Runs(w, t0)
                            /\ Finishes(w, t0)' <=> Finishes(w, t0)
      /\ InQueue(t0)' <=> InQueue(t0)
      /\ InPriority(t0)' <=> InPriority(t0)
      /\ t0 \in tasks' <=> t0 \in tasks
  BY DEF Touches, Carries, Runs, Finishes, Alike, Marked, InQueue, InPriority, readyqs, Threads
<1>6. \A u \in Threads : Privs(u, t0)' <=> Privs(u, t0)
  BY <1>1, <1>2, <1>3 DEF Privs
<1>7. \A u \in Threads \ {th} : Owes(u, t0)' <=> Owes(u, t0)
  BY <1>2 DEF Owes
<1>8. ~Owes(th, t0)
  BY <1>1 DEF Owes
<1>9. Life(t0)'
  <2>1. CASE state'[t0] = state[t0] /\ call' = call
    <3>1. \A u \in Threads : Owes(u, t0)' <=> Owes(u, t0)
      BY <2>1 DEF Owes
    <3> QED BY <1>0, <1>5, <2>1, <3>1 DEF Life, Touches
  <2>2. CASE /\ state[t0] = "idle" /\ state'[t0] = "ready"
             /\ call' = [call EXCEPT ![th] = [op |-> "ready", task |-> t0, flag |-> FALSE]]
    <3>1. Owes(th, t0)'
      BY <1>0, <2>2 DEF Owes, ThreadTypes
    <3>2. \A u \in Threads : Owes(u, t0)' <=> u = th
      BY <1>0, <1>7, <2>2, <3>1 DEF Life
    <3>3. \A w \in Workers : ~Carries(w, t0) /\ ~Runs(w, t0) /\ ~Finishes(w, t0)
      BY <1>0, <2>2 DEF Life
    <3>4. ~InQueue(t0)
      BY <1>0, <2>2 DEF Life
    <3> QED BY <1>0, <1>5, <2>2, <3>1, <3>2, <3>3, <3>4 DEF Life, Touches
  <2> QED BY <2>1, <2>2 DEF Touches
<1>10. Privilege(t0)'
  <2>1. privileged'[t0] = privileged[t0]
    BY DEF Touches
  <2> QED BY <1>0, <1>5, <1>6, <2>1 DEF Privilege
<1>11. Lists' 
  BY <1>0 DEF Lists, Touches, readyqs
<1>12. Pointers'
  BY <1>0 DEF Pointers, Touches, Alike, Threads
<1>13. Destroying'
  <2>1. \A t \in Tasks : shuttingdown[t] => shuttingdown'[t]
    BY DEF Touches
  <2>2. /\ walk' = walk /\ exiting' = exiting /\ tasks' = tasks /\ mgrlock' = mgrlock
        /\ \A u \in Threads : Alike(pc, pc', u)
    BY DEF Touches
  <2>3. walk \subseteq tasks
    BY <1>0 DEF Destroying
  <2> QED BY <1>0, <2>1, <2>2, <2>3, DestroyFrame DEF ManagerTypes
<1> QED BY <1>4, <1>9, <1>10, <1>11, <1>12, <1>13, OneTask

-----------------------------------------------------------------------------
(* The calls on a task. *)

\* Who may use a task finds it allocated.
LEMMA HoldsIs ==
    ASSUME IInv, QInv, NEW th \in Threads, NEW t \in Tasks, Holds(th, t)
    PROVE  /\ call[th] = NoCall
           /\ state[t] \in {"idle", "ready", "running"}
           /\ references[t] > 0 \/ (th \in Workers /\ Runs(th, t))
<1>1. call[th] = NoCall /\ pc[th] \in {"app", "action", "exclusive"}
  BY DEF Holds, InCode
<1>2. th \in Workers => pc[th] \in WorkerPCs
  BY DEF IInv, PlacesOK, Placed
<1>3. references[t] > 0 \/ (th \in Workers /\ Runs(th, t))
  BY <1>1, <1>2 DEF Holds, Runs, ActionPCs, WorkerPCs
<1>4. Life(t)
  BY DEF QInv
<1>5. state[t] \in {"idle", "ready", "running"}
  BY <1>3, <1>4 DEF Life
<1> QED BY <1>1, <1>3, <1>5

\* With pc, cur and the manager's fields unchanged.
StillOutside == UNCHANGED <<mgrlock, tasks, readyqs, mode, pause_requested, exiting, excl, walk, pc,
                            cur, count, privileged>>

\* Of the types only what a call on a task changes is left to be shown.
LEMMA CallTypes ==
    ASSUME QInv, StillOutside, NEW th \in Threads, NEW t \in Tasks,
           state' = state \/ state' = [state EXCEPT ![t] = "ready"],
           references' \in [Tasks -> Nat], shuttingdown' \in [Tasks -> BOOLEAN], EventsOK',
           \/ call' = call
           \/ call' = [call EXCEPT ![th] = [op |-> "ready", task |-> t, flag |-> FALSE]]
    PROVE  TaskTypes' /\ ManagerTypes' /\ ThreadTypes'
<1>1. TaskTypes'
  BY DEF QInv, TaskTypes, StillOutside
<1>2. ManagerTypes'
  BY DEF QInv, ManagerTypes, StillOutside, readyqs
<1>3. ThreadTypes'
  <2> DEFINE r == [op |-> "ready", task |-> t, flag |-> FALSE]
  <2>1. r \in Call
    BY DEF Call, CallKinds
  <2> HIDE DEF r
  <2>2. call' \in [Threads -> Call]
    BY <2>1 DEF QInv, ThreadTypes, r
  <2> QED BY <2>2 DEF QInv, ThreadTypes, StillOutside
<1> QED BY <1>1, <1>2, <1>3

\* One of these calls.
LEMMA CallTouches ==
    ASSUME IInv, QInv, StillOutside, NEW th \in Threads, NEW t \in Tasks, Holds(th, t),
           \/ state' = state /\ call' = call
           \/ /\ state[t] = "idle" /\ state' = [state EXCEPT ![t] = "ready"]
              /\ call' = [call EXCEPT ![th] = [op |-> "ready", task |-> t, flag |-> FALSE]],
           references' \in [Tasks -> Nat], shuttingdown' \in [Tasks -> BOOLEAN], EventsOK',
           \A u \in Tasks \ {t} :
              /\ references'[u] = references[u] /\ events'[u] = events[u]
              /\ on_shutdown'[u] = on_shutdown[u] /\ shuttingdown'[u] = shuttingdown[u],
           state'[t] = "idle" => events'[t] = <<>>,
           shuttingdown[t] => shuttingdown'[t],
           shuttingdown'[t] => on_shutdown'[t] = <<>>
    PROVE  QInv'
<1>1. TaskTypes' /\ ManagerTypes' /\ ThreadTypes'
  BY CallTypes
<1>2. call[th] = NoCall /\ state[t] \in {"idle", "ready", "running"}
  BY HoldsIs
<1>3. state \in [Tasks -> {"unborn", "idle", "ready", "running", "done", "freed"}]
  BY DEF QInv, TaskTypes
<1>4. \A u \in Tasks \ {t} : state'[u] = state[u]
  BY <1>3
<1>5. \A u \in Threads : Alike(pc, pc', u)
  BY DEF StillOutside, Alike
<1>8. \/ state'[t] = state[t] /\ call' = call
      \/ /\ state[t] = "idle" /\ state'[t] = "ready"
         /\ call' = [call EXCEPT ![th] = [op |-> "ready", task |-> t, flag |-> FALSE]]
  BY <1>3
<1>9. Touches(th, t)
  BY <1>2, <1>4, <1>5, <1>8 DEF Touches, StillOutside
<1> QED BY <1>1, <1>9, TouchesKeeps

LEMMA OwesReadyIs ==
    ASSUME NEW th, NEW t, NEW b \in BOOLEAN, OwesReady(th, t, b)
    PROVE  /\ b => call' = [call EXCEPT ![th] = [op |-> "ready", task |-> t, flag |-> FALSE]]
           /\ ~b => call' = call
  BY DEF OwesReady

\* isc_task_attach(), isc_task_detach()
LEMMA AttachQ ==
    ASSUME IInv, QInv, NEW th \in Threads, NEW t \in Tasks, isc__task_attach(th, t)
    PROVE  QInv'
<1>1. /\ Holds(th, t) /\ references' = [references EXCEPT ![t] = @ + 1] /\ StillOutside
      /\ UNCHANGED <<state, call, events, on_shutdown, shuttingdown, unsent>>
  BY DEF isc__task_attach, StillOutside, mgrvars, mgrflags, threads
<1>2. references \in [Tasks -> Nat] /\ shuttingdown \in [Tasks -> BOOLEAN] /\ EventsOK /\ Life(t)
  BY DEF QInv, TaskTypes
<1>3. references' \in [Tasks -> Nat] /\ references'[t] > 0
      /\ \A u \in Tasks \ {t} : references'[u] = references[u]
  BY <1>1, <1>2
<1>4. EventsOK'
  BY <1>1, <1>2 DEF EventsOK
<1>5. /\ state[t] = "idle" => events[t] = <<>>
      /\ shuttingdown[t] => on_shutdown[t] = <<>>
  BY <1>2 DEF Life
<1> QED BY <1>1, <1>2, <1>3, <1>4, <1>5, CallTouches

LEMMA DetachQ ==
    ASSUME IInv, QInv, NEW th \in Threads, NEW t \in Tasks, isc__task_detach(th, t)
    PROVE  QInv'
<1>1. /\ Holds(th, t) /\ task_detach(th, t) /\ CanDrop(t) /\ StillOutside
      /\ UNCHANGED <<events, on_shutdown, shuttingdown, unsent>>
  BY DEF isc__task_detach, StillOutside, mgrvars, mgrflags
<1>2. references \in [Tasks -> Nat] /\ shuttingdown \in [Tasks -> BOOLEAN] /\ EventsOK /\ Life(t)
  BY DEF QInv, TaskTypes
<1>3. references[t] > 0
  BY <1>1, <1>2 DEF CanDrop, CallersRefs
<1>4. /\ references' \in [Tasks -> Nat]
      /\ \A u \in Tasks \ {t} : references'[u] = references[u]
  BY <1>1, <1>2, <1>3 DEF task_detach
<1>5. EventsOK'
  BY <1>1, <1>2 DEF EventsOK
<1>6. \/ state' = state /\ call' = call
      \/ /\ state[t] = "idle" /\ state' = [state EXCEPT ![t] = "ready"]
         /\ call' = [call EXCEPT ![th] = [op |-> "ready", task |-> t, flag |-> FALSE]]
  BY <1>1 DEF task_detach, OwesReady
<1>7. /\ state[t] = "idle" => events[t] = <<>>
      /\ shuttingdown[t] => on_shutdown[t] = <<>>
  BY <1>2 DEF Life
<1>8. state'[t] = "idle" => state[t] = "idle"
  BY <1>6 DEF QInv, TaskTypes
<1> QED BY <1>1, <1>2, <1>4, <1>5, <1>6, <1>7, <1>8, CallTouches

\* isc_task_send(), isc_task_sendanddetach()
LEMMA SendQ ==
    ASSUME IInv, QInv, NEW th \in Threads, NEW t \in Tasks, NEW e \in Events,
           isc__task_send(th, t, e) \/ isc__task_sendanddetach(th, t, e)
    PROVE  QInv'
<1>1. /\ Holds(th, t) /\ task_send(t, e) /\ OwesReady(th, t, state[t] = "idle") /\ StillOutside
      /\ UNCHANGED <<on_shutdown, shuttingdown>>
      /\ \/ references' = references
         \/ CanDrop(t) /\ references' = [references EXCEPT ![t] = @ - 1]
  BY DEF isc__task_send, isc__task_sendanddetach, StillOutside, mgrvars, mgrflags
<1>2. references \in [Tasks -> Nat] /\ shuttingdown \in [Tasks -> BOOLEAN] /\ EventsOK /\ Life(t)
  BY DEF QInv, TaskTypes
<1>3. /\ references' \in [Tasks -> Nat]
      /\ \A u \in Tasks \ {t} : references'[u] = references[u]
  <2>1. CASE references' = references
    BY <1>2, <2>1
  <2>2. CASE CanDrop(t) /\ references' = [references EXCEPT ![t] = @ - 1]
    <3>1. references[t] > 0
      BY <1>2, <2>2 DEF CanDrop, CallersRefs
    <3> QED BY <1>2, <2>2, <3>1
  <2> QED BY <1>1, <2>1, <2>2
<1>4. Append(events[t], e) \in Seq(Events)
  BY <1>2 DEF EventsOK
<1>5. /\ events' = [events EXCEPT ![t] = Append(@, e)]
      /\ unsent' = unsent \ {e}
  BY <1>1 DEF task_send
<1>6. EventsOK' /\ \A u \in Tasks \ {t} : events'[u] = events[u]
  BY <1>1, <1>2, <1>4, <1>5 DEF EventsOK
<1>7. \/ state[t] # "idle" /\ state' = state /\ call' = call
      \/ /\ state[t] = "idle" /\ state' = [state EXCEPT ![t] = "ready"]
         /\ call' = [call EXCEPT ![th] = [op |-> "ready", task |-> t, flag |-> FALSE]]
  BY <1>1 DEF task_send, OwesReady
<1>8. shuttingdown[t] => on_shutdown[t] = <<>>
  BY <1>2 DEF Life
<1>9. state'[t] # "idle"
  BY <1>7 DEF QInv, TaskTypes
<1> QED BY <1>1, <1>2, <1>3, <1>6, <1>7, <1>8, <1>9, CallTouches

\* isc_task_purgerange(), isc_task_unsendrange(), isc_task_purgeevent(): a task
\* that has events is not idle.
LEMMA WithdrawQ ==
    ASSUME IInv, QInv, NEW th \in Threads, NEW t \in Tasks,
           \/ \E match \in SUBSET Events : \/ isc__task_purgerange(th, t, match)
                                           \/ isc__task_unsendrange(th, t, match)
           \/ \E e \in Events : isc__task_purgeevent(th, t, e)
    PROVE  QInv'
<1>1. /\ Holds(th, t) /\ StillOutside
      /\ UNCHANGED <<state, references, call, on_shutdown, shuttingdown>>
  BY DEF isc__task_purgerange, isc__task_unsendrange, isc__task_purgeevent, StillOutside,
         mgrvars, mgrflags, threads
<1>2. /\ references \in [Tasks -> Nat] /\ shuttingdown \in [Tasks -> BOOLEAN] /\ EventsOK /\ Life(t)
  BY DEF QInv, TaskTypes
<1>3. \E q \in Seq(Events), e \in Events :
         /\ Linked(events[t], e)
         /\ events' = [events EXCEPT ![t] = q]
         /\ unsent' \subseteq Events
  <2>1. ASSUME NEW match \in SUBSET Events, NEW b \in BOOLEAN, dequeue_events(t, match, b)
        PROVE  \E q \in Seq(Events), e \in Events :
                  /\ Linked(events[t], e)
                  /\ events' = [events EXCEPT ![t] = q]
                  /\ unsent' \subseteq Events
    <3> DEFINE gone == {e \in match : Linked(events[t], e) /\ (b => e \notin NoPurge)}
    <3>1. /\ gone # {}
          /\ events' = [events EXCEPT ![t] = Without(@, gone)]
          /\ unsent' = unsent \/ unsent' = unsent \cup gone
      BY <2>1 DEF dequeue_events
    <3>2. Without(events[t], gone) \in Seq(Events)
      <4> HIDE DEF gone
      <4> QED BY <1>2, WithoutIs DEF EventsOK
    <3>3. PICK e \in Events : Linked(events[t], e)
      BY <3>1
    <3>4. unsent' \subseteq Events
      BY <1>2, <3>1 DEF EventsOK
    <3> HIDE DEF gone
    <3> QED BY <3>1, <3>2, <3>3, <3>4
  <2>2. ASSUME NEW e \in Events, isc__task_purgeevent(th, t, e)
        PROVE  \E q \in Seq(Events), d \in Events :
                  /\ Linked(events[t], d)
                  /\ events' = [events EXCEPT ![t] = q]
                  /\ unsent' \subseteq Events
    <3>1. /\ Linked(events[t], e) /\ events' = [events EXCEPT ![t] = Dequeue(@, e)]
          /\ unsent' = unsent
      BY <2>2 DEF isc__task_purgeevent
    <3>2. Dequeue(events[t], e) \in Seq(Events)
      BY <1>2, <3>1, DequeueIs DEF EventsOK
    <3>3. unsent' \subseteq Events
      BY <1>2, <3>1 DEF EventsOK
    <3> QED BY <3>1, <3>2, <3>3
  <2> QED BY <2>1, <2>2 DEF isc__task_purgerange, isc__task_unsendrange
<1>4. EventsOK' /\ \A u \in Tasks \ {t} : events'[u] = events[u]
  BY <1>1, <1>2, <1>3 DEF EventsOK
<1>5. state[t] # "idle"
  <2>1. events[t] # <<>>
    BY <1>3 DEF Linked
  <2> QED BY <1>2, <2>1 DEF Life
<1>6. shuttingdown[t] => on_shutdown[t] = <<>>
  BY <1>2 DEF Life
<1> QED BY <1>1, <1>2, <1>4, <1>5, <1>6, CallTouches

\* isc_task_onshutdown()
LEMMA OnshutdownQ ==
    ASSUME IInv, QInv, NEW th \in Threads, NEW t \in Tasks, NEW e \in Events,
           isc__task_onshutdown(th, t, e)
    PROVE  QInv'
<1>1. /\ Holds(th, t) /\ StillOutside /\ ~shuttingdown[t]
      /\ on_shutdown' = [on_shutdown EXCEPT ![t] = Append(@, e)] /\ unsent' = unsent \ {e}
      /\ UNCHANGED <<state, references, call, events, shuttingdown>>
  BY DEF isc__task_onshutdown, StillOutside, mgrvars, mgrflags, threads
<1>2. /\ references \in [Tasks -> Nat] /\ shuttingdown \in [Tasks -> BOOLEAN] /\ EventsOK /\ Life(t)
  BY DEF QInv, TaskTypes
<1>3. EventsOK' /\ \A u \in Tasks \ {t} : on_shutdown'[u] = on_shutdown[u]
  <2>1. Append(on_shutdown[t], e) \in Seq(Events)
    BY <1>2 DEF EventsOK
  <2> QED BY <1>1, <1>2, <2>1 DEF EventsOK
<1>4. state[t] = "idle" => events[t] = <<>>
  BY <1>2 DEF Life
<1> QED BY <1>1, <1>2, <1>3, <1>4, CallTouches

\* task_shutdown() on a task that is not shutting down.
LEMMA ShutdownIs ==
    ASSUME QInv, NEW t \in Tasks, task_shutdown(t), unsent' = unsent
    PROVE  /\ EventsOK'
           /\ shuttingdown' \in [Tasks -> BOOLEAN] /\ shuttingdown'[t] /\ on_shutdown'[t] = <<>>
           /\ \A u \in Tasks \ {t} : /\ events'[u] = events[u] /\ on_shutdown'[u] = on_shutdown[u]
                                     /\ shuttingdown'[u] = shuttingdown[u]
<1>1. shuttingdown \in [Tasks -> BOOLEAN] /\ EventsOK /\ Life(t)
  BY DEF QInv, TaskTypes
<1>2. shuttingdown' = [shuttingdown EXCEPT ![t] = TRUE]
  BY DEF task_shutdown
<1>3. events[t] \o Reverse(on_shutdown[t]) \in Seq(Events) /\ <<>> \in Seq(Events)
  <2>1. Reverse(on_shutdown[t]) \in Seq(Events)
    BY <1>1, ReverseIs DEF EventsOK
  <2> QED BY <1>1, <2>1 DEF EventsOK
<1>4. CASE shuttingdown[t]
  <2>1. events' = events /\ on_shutdown' = on_shutdown
    BY <1>4 DEF task_shutdown
  <2>2. on_shutdown[t] = <<>>
    BY <1>1, <1>4 DEF Life
  <2> QED BY <1>1, <1>2, <2>1, <2>2 DEF EventsOK
<1>5. CASE ~shuttingdown[t]
  <2>1. /\ events' = [events EXCEPT ![t] = events[t] \o Reverse(on_shutdown[t])]
        /\ on_shutdown' = [on_shutdown EXCEPT ![t] = <<>>]
    BY <1>1, <1>5 DEF task_shutdown
  <2> DEFINE q == events[t] \o Reverse(on_shutdown[t])
  <2> HIDE DEF q
  <2>2. events' = [events EXCEPT ![t] = q] /\ q \in Seq(Events)
    BY <1>3, <2>1 DEF q
  <2> QED BY <1>1, <1>2, <1>3, <2>1, <2>2 DEF EventsOK
<1> QED BY <1>4, <1>5

\* isc_task_shutdown()
LEMMA ShutdownQ ==
    ASSUME IInv, QInv, NEW th \in Threads, NEW t \in Tasks, isc__task_shutdown(th, t)
    PROVE  QInv'
<1>1. /\ Holds(th, t) /\ StillOutside /\ ~shuttingdown[t] /\ task_shutdown(t)
      /\ OwesReady(th, t, state[t] = "idle")
      /\ UNCHANGED <<references, unsent>>
  BY DEF isc__task_shutdown, StillOutside, mgrvars, mgrflags
<1>2. references \in [Tasks -> Nat]
  BY DEF QInv, TaskTypes
<1>3. /\ EventsOK'
      /\ shuttingdown' \in [Tasks -> BOOLEAN] /\ shuttingdown'[t] /\ on_shutdown'[t] = <<>>
      /\ \A u \in Tasks \ {t} : /\ events'[u] = events[u] /\ on_shutdown'[u] = on_shutdown[u]
                                /\ shuttingdown'[u] = shuttingdown[u]
  BY <1>1, ShutdownIs
<1>4. \/ state[t] # "idle" /\ state' = state /\ call' = call
      \/ /\ state[t] = "idle" /\ state' = [state EXCEPT ![t] = "ready"]
         /\ call' = [call EXCEPT ![th] = [op |-> "ready", task |-> t, flag |-> FALSE]]
  BY <1>1 DEF task_shutdown, OwesReady
<1>5. state'[t] # "idle"
  BY <1>4 DEF QInv, TaskTypes
<1> QED BY <1>1, <1>2, <1>3, <1>4, <1>5, CallTouches

\* isc_task_create()
LEMMA CreateQ ==
    ASSUME IInv, QInv, NEW th \in Threads, NEW t \in Tasks, isc__task_create(th, t)
    PROVE  QInv'
<1>1. /\ state[t] = "unborn" /\ ~exiting
      /\ state' = [state EXCEPT ![t] = "idle"] /\ references' = [references EXCEPT ![t] = 1]
      /\ tasks' = tasks \cup {t}
      /\ UNCHANGED <<events, on_shutdown, shuttingdown, privileged, mgrlock, ready_tasks,
                     ready_priority_tasks, mode, pause_requested, exiting, excl, walk, pc, cur,
                     count, call, unsent>>
  BY DEF isc__task_create, readyqs, mgrflags, threads
<1>2. /\ references \in [Tasks -> Nat] /\ shuttingdown \in [Tasks -> BOOLEAN] /\ EventsOK
      /\ state \in [Tasks -> {"unborn", "idle", "ready", "running", "done", "freed"}]
      /\ privileged \in [Tasks -> BOOLEAN] /\ None \notin Tasks
      /\ Life(t) /\ Privilege(t) /\ ThreadTypes /\ excl \in Tasks \cup {None}
      /\ Lists /\ Pointers /\ Destroying
  BY ConstantAssumption DEF QInv, TaskTypes, ManagerTypes
<1>3. TaskTypes'
  BY <1>1, <1>2 DEF TaskTypes, EventsOK
<1>4. ManagerTypes' /\ ThreadTypes'
  BY <1>1 DEF QInv, ManagerTypes, ThreadTypes
<1>5. Lists'
  BY <1>1, <1>2 DEF Lists
<1>6. Pointers'
  BY <1>1, <1>2 DEF Pointers
<1>7. Destroying'
  BY <1>1, <1>2 DEF Destroying
<1>8. ASSUME NEW u \in Tasks \ {t} PROVE SameTask(u) /\ SameThreads(u)
  BY <1>1, <1>2, <1>8 DEF SameTask, SameThreads, InQueue, InPriority, Owes, Privs, Carries, Runs,
                          Finishes
<1>9. references[t] = 0
  BY <1>1, <1>2 DEF Life
<1>10. /\ ~InQueue(t) /\ \A u \in Threads : ~Owes(u, t)
       /\ \A w \in Workers : ~Carries(w, t) /\ ~Runs(w, t) /\ ~Finishes(w, t)
  BY <1>1, <1>2 DEF Life
<1>11. /\ ~InQueue(t)' /\ ~InPriority(t)' /\ \A u \in Threads : ~Owes(u, t)'
       /\ \A w \in Workers : ~Carries(w, t)' /\ ~Runs(w, t)' /\ ~Finishes(w, t)'
  <2>1. ~InPriority(t)
    BY <1>2, <1>10 DEF Privilege
  <2> QED BY <1>1, <1>10, <2>1 DEF InQueue, InPriority, Owes, Carries, Runs, Finishes
<1>12. state'[t] = "idle" /\ t \in tasks' /\ events'[t] = <<>>
       /\ (shuttingdown'[t] => on_shutdown'[t] = <<>>)
  BY <1>1, <1>2 DEF Life
<1>13. Life(t)'
  BY <1>11, <1>12 DEF Life
<1>14. Privilege(t)'
  BY <1>11 DEF Privilege
<1> QED BY <1>1, <1>3, <1>4, <1>5, <1>6, <1>7, <1>8, <1>13, <1>14, OneTask

\* isc_task_setprivilege(): first the flag
LEMMA SetprivilegeQ ==
    ASSUME IInv, QInv, NEW th \in Threads, NEW t \in Tasks, NEW priv \in BOOLEAN,
           isc__task_setprivilege(th, t, priv)
    PROVE  QInv'
<1> DEFINE r == [op |-> "priv", task |-> t, flag |-> priv]
<1>1. /\ Holds(th, t)
      /\ privileged' = [privileged EXCEPT ![t] = priv] /\ call' = [call EXCEPT ![th] = r]
      /\ UNCHANGED <<state, references, events, on_shutdown, shuttingdown, mgrlock, tasks, ready_tasks,
                     ready_priority_tasks, mode, pause_requested, exiting, excl, walk, pc, cur,
                     count, unsent>>
  BY DEF isc__task_setprivilege, mgrvars, mgrflags, readyqs
<1>2. /\ privileged \in [Tasks -> BOOLEAN] /\ call \in [Threads -> Call]
      /\ Life(t) /\ Privilege(t) /\ ThreadTypes /\ Lists /\ Pointers /\ Destroying
      /\ TaskTypes /\ ManagerTypes
  BY DEF QInv, TaskTypes, ThreadTypes
<1>3. r \in Call /\ r.op = "priv" /\ r.task = t
  BY DEF Call, CallKinds
<1> HIDE DEF r
<1>4. call' \in [Threads -> Call] /\ call'[th] = r /\ \A u \in Threads \ {th} : call'[u] = call[u]
  BY <1>1, <1>2, <1>3
<1>5. call[th].op = "none" /\ call[th].task = None /\ None \notin Tasks
  <2>1. call[th] = NoCall
    BY <1>1, HoldsIs
  <2> QED BY <2>1, ConstantAssumption DEF NoCall
<1>7. TaskTypes' /\ ManagerTypes' /\ ThreadTypes'
  <2>1. TaskTypes'
    BY <1>1, <1>2 DEF TaskTypes, EventsOK
  <2>2. ManagerTypes' /\ ThreadTypes'
    BY <1>1, <1>2, <1>4 DEF ManagerTypes, ThreadTypes
  <2> QED BY <2>1, <2>2
<1>8. Lists' /\ Pointers' /\ Destroying'
  BY <1>1, <1>2 DEF Lists, Pointers, Destroying
<1>9. ASSUME NEW s \in Tasks \ {t} PROVE SameTask(s) /\ SameThreads(s)
  <2>1. SameTask(s)
    BY <1>1, <1>2, <1>9 DEF SameTask, InQueue, InPriority
  <2>2. \A u \in Threads : \/ call'[u] = call[u] /\ Alike(pc, pc', u)
                           \/ call[u].task # s /\ call'[u].task # s
    BY <1>1, <1>3, <1>4, <1>5, <1>9 DEF Alike
  <2>3. \A w \in Workers : cur'[w] = cur[w] /\ Alike(pc, pc', w)
    BY <1>1 DEF Alike
  <2> QED BY <1>2, <2>1, <2>2, <2>3, ThreadsFrame
<1>10. /\ \A u \in Threads : Owes(u, t)' <=> Owes(u, t)
       /\ Privs(th, t)'
  BY <1>3, <1>4, <1>5 DEF Owes, Privs
<1>11. /\ \A w \in Workers : /\ Carries(w, t)' <=> Carries(w, t)
                             /\ Runs(w, t)' <=> Runs(w, t)
                             /\ Finishes(w, t)' <=> Finishes(w, t)
       /\ InQueue(t)' <=> InQueue(t)
       /\ InPriority(t)' <=> InPriority(t)
  BY <1>1 DEF Carries, Runs, Finishes, InQueue, InPriority
<1>12. Life(t)'
  BY <1>1, <1>2, <1>10, <1>11 DEF Life
<1>13. Privilege(t)'
  BY <1>2, <1>10, <1>11 DEF Privilege
<1> QED BY <1>1, <1>7, <1>8, <1>9, <1>12, <1>13, OneTask

-----------------------------------------------------------------------------
(* The rest of a call. *)

\* What a thread is inside of changes, or where the manager's pointer points,
\* and no task, but that it may gain a reference.
LEMMA RecallQ ==
    ASSUME QInv,
           UNCHANGED <<state, events, on_shutdown, shuttingdown, privileged, tasks, ready_tasks,
                       ready_priority_tasks, mode, pause_requested, exiting, walk, cur, count, unsent>>,
           references' \in [Tasks -> Nat], excl' \in Tasks \cup {None},
           mgrlock' \in Threads \cup {None}, call' \in [Threads -> Call],
           \A c \in Clients : mgrlock = c => mgrlock' = c,
           \A u \in Threads : Alike(pc, pc', u),
           \A s \in Tasks : references'[s] > 0 => state[s] \in {"idle", "ready", "running"},
           \A u \in Threads, s \in Tasks : Owes(u, s)' <=> Owes(u, s),
           \A s \in Tasks : \/ \A u \in Threads : Privs(u, s)' <=> Privs(u, s)
                            \/ privileged[s] <=> InPriority(s)
    PROVE  QInv'
<1>1. TaskTypes /\ ManagerTypes /\ ThreadTypes /\ Lists /\ Pointers /\ Destroying
  BY DEF QInv
<1>2. TaskTypes'
  BY <1>1 DEF TaskTypes, EventsOK
<1>3. ManagerTypes' /\ ThreadTypes'
  BY <1>1 DEF ManagerTypes, ThreadTypes
<1>4. Lists'
  BY <1>1 DEF Lists
<1>5. Pointers'
  BY <1>1 DEF Pointers, Alike, Threads
<1>6. Destroying'
  <2>1. walk \subseteq tasks /\ tasks \subseteq Tasks
    BY <1>1 DEF Destroying, ManagerTypes
  <2> QED BY <1>1, <2>1, DestroyFrame
<1>7. ASSUME NEW s \in Tasks PROVE Life(s)' /\ Privilege(s)'
  <2>1. Life(s) /\ Privilege(s)
    BY DEF QInv
  <2>2. \A w \in Workers : /\ Carries(w, s)' <=> Carries(w, s)
                           /\ Runs(w, s)' <=> Runs(w, s)
                           /\ Finishes(w, s)' <=> Finishes(w, s)
    BY DEF Carries, Runs, Finishes, Alike, Marked, Threads
  <2>3. (InQueue(s)' <=> InQueue(s)) /\ (InPriority(s)' <=> InPriority(s))
    BY DEF InQueue, InPriority
  <2>4. Life(s)'
    BY <2>1, <2>2, <2>3 DEF Life
  <2>5. Privilege(s)'
    BY <2>1, <2>3 DEF Privilege
  <2> QED BY <2>4, <2>5
<1> QED BY <1>2, <1>3, <1>4, <1>5, <1>6, <1>7 DEF QInv

\* No task gains a reference, even.
LEMMA ReferredIs ==
    ASSUME QInv
    PROVE  /\ references \in [Tasks -> Nat] /\ call \in [Threads -> Call]
           /\ excl \in Tasks \cup {None} /\ mgrlock \in Threads \cup {None}
           /\ \A s \in Tasks : references[s] > 0 => state[s] \in {"idle", "ready", "running"}
           /\ NoCall \in Call /\ NoCall.op = "none" /\ NoCall.task = None /\ None \notin Tasks
  BY ConstantAssumption DEF QInv, TaskTypes, ManagerTypes, ThreadTypes, Life, Call, NoCall

\* task_ready(): the thread still has to queue the task.
LEMMA ReadyQ ==
    ASSUME IInv, QInv, NEW th \in Threads, task_ready(th)
    PROVE  QInv'
<1> DEFINE r == [op |-> "push", task |-> call[th].task, flag |-> privileged[call[th].task]]
<1>1. /\ call[th].op = "ready" /\ call' = [call EXCEPT ![th] = r]
      /\ UNCHANGED <<state, references, events, on_shutdown, shuttingdown, privileged, mgrlock, tasks,
                     ready_tasks, ready_priority_tasks, mode, pause_requested, exiting, excl, walk,
                     pc, cur, count, unsent>>
  BY DEF task_ready, taskvars, mgrvars, mgrflags, readyqs, QInv, ThreadTypes
<1>2. privileged \in [Tasks -> BOOLEAN] /\ call \in [Threads -> Call]
  BY DEF QInv, TaskTypes, ThreadTypes
<1>3. call[th].task \in Tasks
  BY <1>1, <1>2 DEF Call, NoCall
<1>4. r \in Call /\ r.op = "push" /\ r.task = call[th].task
  BY <1>2, <1>3 DEF Call, CallKinds
<1> HIDE DEF r
<1>5. call' \in [Threads -> Call] /\ call'[th] = r /\ \A u \in Threads \ {th} : call'[u] = call[u]
  BY <1>1, <1>2, <1>4
<1>6. \A u \in Threads, s \in Tasks : (Owes(u, s)' <=> Owes(u, s)) /\ (Privs(u, s)' <=> Privs(u, s))
  BY <1>1, <1>4, <1>5 DEF Owes, Privs
<1>7. \A u \in Threads : Alike(pc, pc', u)
  BY <1>1 DEF Alike
<1> QED BY <1>1, <1>5, <1>6, <1>7, ReferredIs, RecallQ

\* isc_taskmgr_excltask(): the pointer is read ...
LEMMA ExcltaskQ ==
    ASSUME IInv, QInv, NEW th \in Threads, isc__taskmgr_excltask(th)
    PROVE  QInv'
<1> DEFINE r == [op |-> "excl", task |-> excl, flag |-> FALSE]
<1>1. /\ call[th].op \in {"none", "excl"} /\ excl # None /\ call' = [call EXCEPT ![th] = r]
      /\ UNCHANGED <<state, references, events, on_shutdown, shuttingdown, privileged, mgrlock, tasks,
                     ready_tasks, ready_priority_tasks, mode, pause_requested, exiting, excl, walk,
                     pc, cur, count, unsent>>
  BY DEF isc__taskmgr_excltask, InCode, NoCall, taskvars, mgrvars, mgrflags, readyqs
<1>2. r \in Call /\ r.op = "excl"
  BY <1>1, ReferredIs DEF Call, CallKinds
<1> HIDE DEF r
<1>3. /\ call' \in [Threads -> Call] /\ call'[th] = r /\ call[th].op \in {"none", "excl"}
      /\ \A u \in Threads \ {th} : call'[u] = call[u]
  BY <1>1, <1>2, ReferredIs
<1>4. \A u \in Threads, s \in Tasks : (Owes(u, s)' <=> Owes(u, s)) /\ (Privs(u, s)' <=> Privs(u, s))
  BY <1>2, <1>3 DEF Owes, Privs
<1>5. \A u \in Threads : Alike(pc, pc', u)
  BY <1>1 DEF Alike
<1> QED BY <1>1, <1>3, <1>4, <1>5, ReferredIs, RecallQ

\* ... and the task attached to, if it is still there.
LEMMA ExcltaskAttachQ ==
    ASSUME IInv, QInv, NEW th \in Threads, excltask_attach(th)
    PROVE  QInv'
<1>1. /\ call[th].op = "excl"
      /\ UNCHANGED <<state, events, on_shutdown, shuttingdown, privileged, mgrlock, tasks,
                     ready_tasks, ready_priority_tasks, mode, pause_requested, exiting, excl, walk,
                     pc, cur, count, unsent>>
  BY DEF excltask_attach, mgrvars, mgrflags, readyqs
<1>2. PICK t \in Tasks : t = call[th].task
  BY <1>1, ReferredIs DEF Call
<1>3. \/ /\ references[t] > 0 \/ (th \in Workers /\ Runs(th, t))
         /\ references' = [references EXCEPT ![t] = @ + 1]
         /\ call' = [call EXCEPT ![th] = NoCall]
      \/ /\ references' = references
         /\ call' = [call EXCEPT ![th].op = "stale"]
  BY <1>2 DEF excltask_attach, Runs
<1>4. /\ call' \in [Threads -> Call] /\ call'[th].op \in {"none", "stale"}
      /\ \A u \in Threads \ {th} : call'[u] = call[u]
  <2>1. CASE call' = [call EXCEPT ![th] = NoCall]
    BY <2>1, ReferredIs
  <2>2. CASE call' = [call EXCEPT ![th].op = "stale"]
    <3>1. call[th] \in [op : CallKinds, task : Tasks, flag : BOOLEAN]
      BY <1>1, ReferredIs DEF Call
    <3>2. [call[th] EXCEPT !.op = "stale"] \in Call /\ [call[th] EXCEPT !.op = "stale"].op = "stale"
      BY <3>1 DEF Call, CallKinds
    <3>3. call' = [call EXCEPT ![th] = [call[th] EXCEPT !.op = "stale"]]
      BY <2>2
    <3> QED BY <3>2, <3>3, ReferredIs
  <2> QED BY <1>3, <2>1, <2>2
<1>5. \A u \in Threads, s \in Tasks : (Owes(u, s)' <=> Owes(u, s)) /\ (Privs(u, s)' <=> Privs(u, s))
  BY <1>1, <1>4 DEF Owes, Privs
<1>6. \A u \in Threads : Alike(pc, pc', u)
  BY <1>1 DEF Alike
<1>7. /\ references' \in [Tasks -> Nat]
      /\ \A s \in Tasks : references'[s] > 0 => state[s] \in {"idle", "ready", "running"}
  <2>1. CASE references' = references
    BY <2>1, ReferredIs
  <2>2. CASE /\ references[t] > 0 \/ (th \in Workers /\ Runs(th, t))
             /\ references' = [references EXCEPT ![t] = @ + 1]
    <3>1. th \in Workers /\ Runs(th, t) => state[t] \in {"idle", "ready", "running"}
      BY DEF QInv, Life
    <3>2. state[t] \in {"idle", "ready", "running"}
      BY <2>2, <3>1, ReferredIs
    <3> QED BY <2>2, <3>2, ReferredIs
  <2> QED BY <1>3, <2>1, <2>2
<1> QED BY <1>1, <1>4, <1>5, <1>6, <1>7, ReferredIs, RecallQ

\* push_readyq() of a task that is in neither list.
LEMMA PushIs ==
    ASSUME QInv, NEW t \in Tasks, push_readyq(t), ~InQueue(t)
    PROVE  /\ ready_tasks' \in Seq(Tasks) /\ ready_priority_tasks' \in Seq(Tasks) /\ Lists'
           /\ InQueue(t)'
           /\ InPriority(t)' <=> privileged[t]
           /\ \A s \in Tasks \ {t} : /\ InQueue(s)' <=> InQueue(s)
                                     /\ InPriority(s)' <=> InPriority(s)
<1>1. /\ ready_tasks \in Seq(Tasks) /\ ready_priority_tasks \in Seq(Tasks)
      /\ Distinct(ready_tasks) /\ Distinct(ready_priority_tasks)
      /\ privileged[t] \in BOOLEAN
  BY DEF QInv, ManagerTypes, Lists, TaskTypes
<1>2. ~Linked(ready_tasks, t) /\ ~Linked(ready_priority_tasks, t)
  BY DEF QInv, Privilege, InQueue, InPriority
<1>3. ready_tasks' = Append(ready_tasks, t)
  BY DEF push_readyq
<1>4. /\ ready_tasks' \in Seq(Tasks) /\ Distinct(ready_tasks')
      /\ \A y : Linked(ready_tasks', y) <=> Linked(ready_tasks, y) \/ y = t
  BY <1>1, <1>2, <1>3, AppendIs
<1>5. CASE privileged[t]
  <2>1. ready_priority_tasks' = Append(ready_priority_tasks, t)
    BY <1>5 DEF push_readyq
  <2>2. /\ ready_priority_tasks' \in Seq(Tasks) /\ Distinct(ready_priority_tasks')
        /\ \A y : Linked(ready_priority_tasks', y) <=> Linked(ready_priority_tasks, y) \/ y = t
    BY <1>1, <1>2, <2>1, AppendIs
  <2> QED BY <1>4, <1>5, <2>2 DEF InQueue, InPriority, Lists
<1>6. CASE ~privileged[t]
  <2>1. ready_priority_tasks' = ready_priority_tasks
    BY <1>6 DEF push_readyq
  <2> QED BY <1>1, <1>2, <1>4, <1>6, <2>1 DEF InQueue, InPriority, Lists
<1> QED BY <1>1, <1>5, <1>6

\* task_ready(): the push
LEMMA ReadyPushQ ==
    ASSUME IInv, QInv, NEW th \in Threads, task_ready_push(th)
    PROVE  QInv'
<1>1. /\ call[th].op = "push" /\ push_readyq(call[th].task)
      /\ pc' \in Signal(pc, "wait", "top") \/ pc' = pc
      /\ call' = [call EXCEPT ![th] = NoCall]
      /\ UNCHANGED <<state, references, events, on_shutdown, shuttingdown, privileged, mgrlock, tasks,
                     mode, pause_requested, exiting, excl, walk, cur, count, unsent>>
  BY DEF task_ready_push, taskvars, mgrflags
<1>2. /\ call \in [Threads -> Call]
      /\ TaskTypes /\ ManagerTypes /\ ThreadTypes /\ Lists /\ Pointers /\ Destroying
  BY DEF QInv, ThreadTypes
<1>3. PICK t \in Tasks : t = call[th].task
  BY <1>1, <1>2 DEF Call, NoCall
<1>4. Life(t) /\ Privilege(t)
  BY DEF QInv
<1>5. Owes(th, t)
  BY <1>1, <1>3 DEF Owes
<1>6. /\ state[t] = "ready" /\ ~InQueue(t)
      /\ \A u \in Threads : Owes(u, t) => u = th
      /\ \A w \in Workers : ~Carries(w, t)
  BY <1>4, <1>5 DEF Life
<1>7. /\ ready_tasks' \in Seq(Tasks) /\ ready_priority_tasks' \in Seq(Tasks) /\ Lists'
      /\ InQueue(t)'
      /\ InPriority(t)' <=> privileged[t]
      /\ \A s \in Tasks \ {t} : /\ InQueue(s)' <=> InQueue(s)
                                /\ InPriority(s)' <=> InPriority(s)
  BY <1>1, <1>3, <1>6, PushIs
<1>8. \A u \in Threads : Alike(pc, pc', u)
  BY <1>1, SignalAlike DEF IInv, PlacesOK
<1>9. NoCall \in Call /\ NoCall.op = "none" /\ NoCall.task = None /\ None \notin Tasks
  BY ConstantAssumption DEF Call, NoCall
<1>10. call' \in [Threads -> Call] /\ call'[th] = NoCall
       /\ \A u \in Threads \ {th} : call'[u] = call[u]
  BY <1>1, <1>2, <1>9
<1>11. TaskTypes' /\ ManagerTypes' /\ ThreadTypes'
  <2>1. TaskTypes'
    BY <1>1, <1>2 DEF TaskTypes, EventsOK
  <2>2. ManagerTypes' /\ ThreadTypes'
    BY <1>1, <1>2, <1>7, <1>10 DEF ManagerTypes, ThreadTypes
  <2> QED BY <2>1, <2>2
<1>12. Pointers'
  BY <1>1, <1>2, <1>8 DEF Pointers, Alike, Threads
<1>13. Destroying'
  <2>1. walk \subseteq tasks /\ tasks \subseteq Tasks
    BY <1>2 DEF Destroying, ManagerTypes
  <2> QED BY <1>1, <1>2, <1>8, <2>1, DestroyFrame
<1>14. ASSUME NEW s \in Tasks \ {t} PROVE SameTask(s) /\ SameThreads(s)
  <2>1. SameTask(s)
    BY <1>1, <1>7, <1>14 DEF SameTask
  <2>2. \A u \in Threads : \/ call'[u] = call[u] /\ Alike(pc, pc', u)
                           \/ call[u].task # s /\ call'[u].task # s
    BY <1>3, <1>8, <1>9, <1>10, <1>14
  <2>3. \A w \in Workers : cur'[w] = cur[w] /\ Alike(pc, pc', w)
    BY <1>1, <1>8 DEF Threads
  <2> QED BY <1>2, <2>1, <2>2, <2>3, ThreadsFrame
<1>15. /\ \A u \in Threads : ~Owes(u, t)'
       /\ \A w \in Workers : ~Carries(w, t)' /\ (Runs(w, t)' <=> Runs(w, t))
                             /\ (Finishes(w, t)' <=> Finishes(w, t))
  <2>1. \A u \in Threads : ~Owes(u, t)'
    BY <1>6, <1>9, <1>10 DEF Owes
  <2>2. \A w \in Workers : Alike(pc, pc', w) /\ cur'[w] = cur[w]
    BY <1>1, <1>8 DEF Threads
  <2>3. \A w \in Workers : ~Carries(w, t)' /\ (Runs(w, t)' <=> Runs(w, t))
                             /\ (Finishes(w, t)' <=> Finishes(w, t))
    BY <1>6, <2>2 DEF Carries, Runs, Finishes, Alike, Marked
  <2> QED BY <2>1, <2>3
<1>16. Life(t)'
  BY <1>1, <1>4, <1>6, <1>7, <1>15 DEF Life
<1>17. Privilege(t)'
  BY <1>1, <1>7, <1>15 DEF Privilege
<1> QED BY <1>1, <1>7, <1>11, <1>12, <1>13, <1>14, <1>16, <1>17, OneTask

\* isc_task_setprivilege(): then the list of privileged tasks
LEMMA SetprivilegeQueueQ ==
    ASSUME IInv, QInv, PInv, NEW th \in Threads, setprivilege_queue(th)
    PROVE  QInv'
<1>1. /\ call[th].op = "priv"
      /\ ~(call[th].flag /\ InPriority(call[th].task))
      /\ call' = [call EXCEPT ![th] = NoCall]
      /\ UNCHANGED <<state, references, events, on_shutdown, shuttingdown, privileged, mgrlock, tasks,
                     ready_tasks, mode, pause_requested, exiting, excl, walk, pc, cur, count, unsent>>
  BY DEF setprivilege_queue, taskvars, mgrflags, InPriority
<1>2. /\ call \in [Threads -> Call]
      /\ TaskTypes /\ ManagerTypes /\ ThreadTypes /\ Lists /\ Pointers /\ Destroying
  BY DEF QInv, ThreadTypes
<1>3. PICK t \in Tasks : t = call[th].task
  BY <1>1, <1>2 DEF Call, NoCall
<1>4. Life(t) /\ Privilege(t) /\ privileged[t] \in BOOLEAN
  BY DEF QInv, TaskTypes
<1>5. Privs(th, t)
  BY <1>1, <1>3 DEF Privs
<1>6. /\ call[th].flag = privileged[t]
      /\ ~(privileged[t] /\ InPriority(t))
      /\ InPriority(t) => InQueue(t)
  BY <1>1, <1>3, <1>4, <1>5 DEF Privilege, PInv, PrivOK
<1> DEFINE q == ready_priority_tasks
           r == ready_priority_tasks'
<1>7. /\ q \in Seq(Tasks) /\ Distinct(q)
  BY <1>2 DEF ManagerTypes, Lists
<1>8. r = IF privileged[t] /\ InQueue(t) THEN Append(q, t)
          ELSE IF ~privileged[t] /\ InPriority(t) THEN Dequeue(q, t)
          ELSE q
  BY <1>3, <1>6 DEF setprivilege_queue, InQueue, InPriority
<1>9. /\ r \in Seq(Tasks) /\ Distinct(r)
      /\ Linked(r, t) <=> InQueue(t) /\ privileged[t]
      /\ \A s \in Tasks \ {t} : Linked(r, s) <=> Linked(q, s)
  <2>1. CASE privileged[t] /\ InQueue(t)
    <3>1. ~Linked(q, t) /\ r = Append(q, t)
      BY <1>6, <1>8, <2>1 DEF InPriority
    <3> QED BY <1>7, <2>1, <3>1, AppendIs
  <2>2. CASE ~privileged[t] /\ InPriority(t)
    <3>1. Linked(q, t) /\ r = Dequeue(q, t)
      BY <1>8, <2>2 DEF InPriority
    <3>2. /\ Dequeue(q, t) \in Seq(Tasks) /\ Distinct(Dequeue(q, t))
          /\ \A y : Linked(Dequeue(q, t), y) <=> Linked(q, y) /\ y # t
      BY <1>7, <3>1, DequeueIs
    <3> QED BY <2>2, <3>1, <3>2
  <2>3. CASE ~(privileged[t] /\ InQueue(t)) /\ ~(~privileged[t] /\ InPriority(t))
    <3>1. r = q /\ ~(InQueue(t) /\ privileged[t]) /\ ~InPriority(t)
      BY <1>4, <1>6, <1>8, <2>3
    <3> QED BY <1>7, <3>1 DEF InPriority
  <2> QED BY <2>1, <2>2, <2>3
<1> HIDE DEF q, r
<1>10. NoCall \in Call /\ NoCall.op = "none" /\ NoCall.task = None /\ None \notin Tasks
  BY ConstantAssumption DEF Call, NoCall
<1>11. call' \in [Threads -> Call] /\ call'[th] = NoCall
       /\ \A u \in Threads \ {th} : call'[u] = call[u]
  BY <1>1, <1>2, <1>10
<1>12. TaskTypes' /\ ManagerTypes' /\ ThreadTypes'
  <2>1. TaskTypes'
    BY <1>1, <1>2 DEF TaskTypes, EventsOK
  <2>2. ManagerTypes' /\ ThreadTypes'
    BY <1>1, <1>2, <1>9, <1>11 DEF ManagerTypes, ThreadTypes, r
  <2> QED BY <2>1, <2>2
<1>13. Lists' /\ Pointers' /\ Destroying'
  <2>1. Lists'
    BY <1>1, <1>2, <1>9 DEF Lists, r
  <2> QED BY <1>1, <1>2, <2>1 DEF Pointers, Destroying
<1>14. ASSUME NEW s \in Tasks \ {t} PROVE SameTask(s) /\ SameThreads(s)
  <2>1. SameTask(s)
    BY <1>1, <1>9, <1>14 DEF SameTask, InQueue, InPriority, q, r
  <2>2. \A u \in Threads : \/ call'[u] = call[u] /\ Alike(pc, pc', u)
                           \/ call[u].task # s /\ call'[u].task # s
    BY <1>1, <1>3, <1>10, <1>11, <1>14 DEF Alike
  <2>3. \A w \in Workers : cur'[w] = cur[w] /\ Alike(pc, pc', w)
    BY <1>1 DEF Alike
  <2> QED BY <1>2, <2>1, <2>2, <2>3, ThreadsFrame
<1>15. /\ \A u \in Threads : Owes(u, t)' <=> Owes(u, t)
       /\ \A w \in Workers : /\ Carries(w, t)' <=> Carries(w, t)
                             /\ Runs(w, t)' <=> Runs(w, t)
                             /\ Finishes(w, t)' <=> Finishes(w, t)
       /\ InQueue(t)' <=> InQueue(t)
  <2>1. \A u \in Threads : Owes(u, t)' <=> Owes(u, t)
    BY <1>1, <1>10, <1>11 DEF Owes
  <2> QED BY <1>1, <2>1 DEF Carries, Runs, Finishes, InQueue
<1>16. Life(t)'
  BY <1>1, <1>4, <1>15 DEF Life
<1>17. Privilege(t)'
  <2>1. InPriority(t)' <=> InQueue(t) /\ privileged[t]
    BY <1>9 DEF InPriority, r
  <2> QED BY <1>1, <1>15, <2>1 DEF Privilege
<1> QED BY <1>1, <1>12, <1>13, <1>14, <1>16, <1>17, OneTask

\* ... unless the task has been put into it meanwhile.
LEMMA RelinkQ ==
    ASSUME IInv, QInv, PInv, NEW th \in Threads, setprivilege_relink(th)
    PROVE  QInv'
<1> DEFINE r == [call[th] EXCEPT !.op = "relinked"]
<1>1. /\ call[th].op = "priv" /\ call[th].flag /\ InPriority(call[th].task)
      /\ mgrlock = None /\ mgrlock' = th /\ call' = [call EXCEPT ![th].op = "relinked"]
      /\ UNCHANGED <<state, references, events, on_shutdown, shuttingdown, privileged, tasks,
                     ready_tasks, ready_priority_tasks, mode, pause_requested, exiting, excl, walk,
                     pc, cur, count, unsent>>
  BY DEF setprivilege_relink, taskvars, readyqs, mgrflags, InPriority
<1>2. call[th] \in [op : CallKinds, task : Tasks, flag : BOOLEAN]
  BY <1>1, ReferredIs DEF Call
<1>3. r \in Call /\ r.op = "relinked" /\ call' = [call EXCEPT ![th] = r]
  BY <1>1, <1>2 DEF Call, CallKinds
<1> HIDE DEF r
<1>4. call' \in [Threads -> Call] /\ call'[th] = r /\ \A u \in Threads \ {th} : call'[u] = call[u]
  BY <1>3, ReferredIs
<1>5. \A u \in Threads, s \in Tasks : Owes(u, s)' <=> Owes(u, s)
  BY <1>1, <1>3, <1>4 DEF Owes
<1>6. ASSUME NEW s \in Tasks
      PROVE  \/ \A u \in Threads : Privs(u, s)' <=> Privs(u, s)
             \/ privileged[s] <=> InPriority(s)
  <2>1. CASE s = call[th].task
    BY <1>1, <2>1 DEF PInv, PrivOK, Privs
  <2>2. CASE s # call[th].task
    BY <1>3, <1>4, <2>2 DEF Privs
  <2> QED BY <2>1, <2>2
<1>7. \A u \in Threads : Alike(pc, pc', u)
  BY <1>1 DEF Alike
<1>8. mgrlock' \in Threads \cup {None} /\ \A c \in Clients : mgrlock # c
  BY <1>1, ConstantAssumption
<1> QED BY <1>1, <1>4, <1>5, <1>6, <1>7, <1>8, ReferredIs, RecallQ

\* The manager's pointer is cleared, and set.
LEMMA SetexclQ ==
    ASSUME IInv, QInv, NEW c \in Clients, excl_clear(c) \/ \E t \in Tasks : setexcl_attach(c, t)
    PROVE  QInv'
<1>1. PICK t \in Tasks \cup {None}, x \in {"app", "newexcl", "destroy"} :
        /\ pc[c] \in {"setexcl", "exclear", "newexcl"} /\ pc' = [pc EXCEPT ![c] = x] /\ excl' = t
        /\ \/ references' = references
           \/ t \in Tasks /\ references[t] > 0 /\ references' = [references EXCEPT ![t] = @ + 1]
        /\ UNCHANGED <<state, events, on_shutdown, shuttingdown, privileged, mgrlock, tasks,
                       ready_tasks, ready_priority_tasks, mode, pause_requested, exiting, walk,
                       cur, count, call, unsent>>
  <2>1. CASE excl_clear(c)
    BY <2>1 DEF excl_clear, taskvars, readyqs
  <2>2. ASSUME NEW t \in Tasks, setexcl_attach(c, t)
        PROVE  /\ pc[c] = "newexcl" /\ pc' = [pc EXCEPT ![c] = "app"] /\ excl' = t
               /\ references[t] > 0 /\ references' = [references EXCEPT ![t] = @ + 1]
               /\ UNCHANGED <<state, events, on_shutdown, shuttingdown, privileged, mgrlock, tasks,
                              ready_tasks, ready_priority_tasks, mode, pause_requested, exiting,
                              walk, cur, count, call, unsent>>
    BY <2>2, ConstantAssumption DEF setexcl_attach, readyqs
  <2> QED BY <2>1, <2>2
<1>2. c \in Threads /\ pc'[c] = x /\ \A u \in Threads \ {c} : pc'[u] = pc[u]
  BY <1>1 DEF IInv, PlacesOK, Placed, Threads
<1>3. \A u \in Threads : Alike(pc, pc', u)
  BY <1>1, <1>2 DEF Alike, Marked, ActionPCs, BusyPCs
<1>4. /\ references' \in [Tasks -> Nat]
      /\ \A s \in Tasks : references'[s] > 0 => state[s] \in {"idle", "ready", "running"}
  BY <1>1, ReferredIs
<1>5. \A u \in Threads, s \in Tasks : (Owes(u, s)' <=> Owes(u, s)) /\ (Privs(u, s)' <=> Privs(u, s))
  BY <1>1 DEF Owes, Privs
<1>6. call' \in [Threads -> Call] /\ mgrlock' \in Threads \cup {None} /\ excl' \in Tasks \cup {None}
  BY <1>1, ReferredIs
<1> QED BY <1>1, <1>3, <1>4, <1>5, <1>6, RecallQ

-----------------------------------------------------------------------------
(* dispatch() *)

\* The threads and their tasks when only the worker w moves.
Elsewhere(w) ==
    /\ \A v \in Workers \ {w} : cur'[v] = cur[v] /\ Alike(pc, pc', v)
    /\ \A c \in Clients : Alike(pc, pc', c)

LEMMA ElsewhereSame ==
    ASSUME QInv, NEW w \in Workers, NEW t \in Tasks, Elsewhere(w), call' = call,
           cur[w] # t /\ cur'[w] # t
    PROVE  SameThreads(t)
<1>1. \A v \in Workers : /\ Carries(v, t)' <=> Carries(v, t)
                         /\ Runs(v, t)' <=> Runs(v, t)
                         /\ Finishes(v, t)' <=> Finishes(v, t)
  BY DEF Carries, Runs, Finishes, Elsewhere, Alike, Marked
<1>2. \A th \in Threads : /\ Owes(th, t)' <=> Owes(th, t)
                          /\ Privs(th, t)' <=> Privs(th, t)
  BY DEF Owes, Privs, Elsewhere, Alike, Threads
<1> QED BY <1>1, <1>2 DEF SameThreads

\* While w is at the head of its loop it has no task, and it may have the lock.
LEMMA TopIs ==
    ASSUME IInv, QInv, NEW w \in Workers, AtTop(w)
    PROVE  /\ cur[w] = None /\ walk = {} /\ \A c \in Clients : pc[c] # "walk"
<1>1. cur[w] = None
  BY DEF QInv, Pointers, AtTop, BusyPCs, ActionPCs
<1>2. \A c \in Clients : pc[c] # "walk"
  BY ConstantAssumption DEF QInv, Destroying, AtTop
<1> QED BY <1>1, <1>2 DEF QInv, Destroying

\* A worker ends or waits.
LEMMA ExitWaitQ ==
    ASSUME IInv, QInv, NEW w \in Workers, dispatch_exit(w) \/ dispatch_wait(w)
    PROVE  QInv'
<1>1. PICK x \in {"exited", "wait"} :
        /\ AtTop(w) /\ pc' = [pc EXCEPT ![w] = x] /\ mgrlock' = None
        /\ x = "exited" => FINISHED
        /\ UNCHANGED <<state, references, events, on_shutdown, shuttingdown, privileged, tasks,
                       ready_tasks, ready_priority_tasks, mode, pause_requested, exiting, excl, walk,
                       cur, count, call, unsent>>
  BY DEF dispatch_exit, dispatch_wait, taskvars, mgrflags, readyqs
<1>2. TaskTypes /\ ManagerTypes /\ ThreadTypes /\ Lists /\ Pointers /\ Destroying
  BY DEF QInv
<1>3. cur[w] = None /\ walk = {} /\ (\A c \in Clients : pc[c] # "walk") /\ None \notin Tasks
  BY <1>1, TopIs, ConstantAssumption
<1>4. /\ pc'[w] = x /\ \A th \in Threads \ {w} : pc'[th] = pc[th]
      /\ pc[w] = "top" /\ w \notin Clients
  BY <1>1, ConstantAssumption DEF IInv, PlacesOK, Placed, AtTop, Threads
<1>5. TaskTypes' /\ ManagerTypes' /\ ThreadTypes'
  <2>1. TaskTypes'
    BY <1>1, <1>2 DEF TaskTypes, EventsOK
  <2>2. ManagerTypes' /\ ThreadTypes'
    BY <1>1, <1>2 DEF ManagerTypes, ThreadTypes
  <2> QED BY <2>1, <2>2
<1>6. Lists'
  BY <1>1, <1>2 DEF Lists
<1>7. Pointers'
  <2>1. pc'[w] \notin BusyPCs /\ pc[w] \notin BusyPCs
    BY <1>4 DEF BusyPCs, ActionPCs
  <2> QED BY <1>1, <1>2, <1>4, <2>1 DEF Pointers, Threads
<1>8. Destroying'
  <2>1. \A c \in Clients : pc'[c] = pc[c]
    BY <1>4 DEF Threads
  <2>2. \A v \in Workers : pc'[v] = "exited" => exiting /\ tasks = {}
    BY <1>1, <1>2, <1>4 DEF Destroying, FINISHED, Threads
  <2>3. \A c \in Clients : pc[c] = "destroyed" => pc[w] = "exited"
    BY <1>2 DEF Destroying
  <2> QED BY <1>1, <1>2, <1>3, <1>4, <2>1, <2>2, <2>3 DEF Destroying
<1>9. ASSUME NEW s \in Tasks PROVE SameTask(s) /\ SameThreads(s)
  <2>1. SameTask(s)
    BY <1>1 DEF SameTask, InQueue, InPriority
  <2>2. Elsewhere(w)
    BY <1>1, <1>4 DEF Elsewhere, Alike, Threads
  <2> QED BY <1>1, <1>3, <1>4, <2>1, <2>2, ElsewhereSame
<1> QED BY <1>1, <1>3, <1>5, <1>6, <1>7, <1>8, <1>9, OneTask

\* pop_readyq() takes a queued task out of both lists.
LEMMA PopIs ==
    ASSUME QInv, NEW t \in Tasks, pop_readyq(t), ~empty_readyq
    PROVE  /\ InQueue(t)
           /\ ready_tasks' \in Seq(Tasks) /\ ready_priority_tasks' \in Seq(Tasks) /\ Lists'
           /\ ~InQueue(t)' /\ ~InPriority(t)'
           /\ \A s \in Tasks \ {t} : /\ InQueue(s)' <=> InQueue(s)
                                     /\ InPriority(s)' <=> InPriority(s)
<1> DEFINE q == ready_priority_tasks
<1>1. /\ ready_tasks \in Seq(Tasks) /\ q \in Seq(Tasks)
      /\ Distinct(ready_tasks) /\ Distinct(q)
  BY DEF QInv, ManagerTypes, Lists
<1>2. InPriority(t) => InQueue(t)
  BY DEF QInv, Privilege
<1>3. InQueue(t)
  <2>1. CurrentQueue \in Seq(Tasks) /\ CurrentQueue # <<>> /\ t = Head(CurrentQueue)
    BY <1>1 DEF CurrentQueue, empty_readyq, pop_readyq
  <2>2. Linked(CurrentQueue, t)
    BY <2>1, HeadLinked
  <2> QED BY <1>2, <2>2 DEF CurrentQueue, InQueue, InPriority
<1>4. /\ ready_tasks' \in Seq(Tasks) /\ Distinct(ready_tasks')
      /\ \A y : Linked(ready_tasks', y) <=> Linked(ready_tasks, y) /\ y # t
  <2>1. ready_tasks' = Dequeue(ready_tasks, t) /\ Linked(ready_tasks, t)
    BY <1>3 DEF pop_readyq, InQueue
  <2> QED BY <1>1, <2>1, DequeueIs
<1>5. /\ q' \in Seq(Tasks) /\ Distinct(q')
      /\ \A y : Linked(q', y) <=> Linked(q, y) /\ y # t
  <2>1. CASE Linked(q, t)
    <3>1. q' = Dequeue(q, t)
      BY <2>1 DEF pop_readyq
    <3> QED BY <1>1, <2>1, <3>1, DequeueIs
  <2>2. CASE ~Linked(q, t)
    <3>1. q' = q
      BY <2>2 DEF pop_readyq
    <3> QED BY <1>1, <2>2, <3>1
  <2> QED BY <2>1, <2>2
<1> QED BY <1>3, <1>4, <1>5 DEF InQueue, InPriority, Lists

\* dispatch() takes a task.
LEMMA PopQ ==
    ASSUME IInv, QInv, NEW w \in Workers, dispatch_pop(w)
    PROVE  QInv'
<1>1. PICK t \in Tasks :
        /\ AtTop(w) /\ ~MustWait /\ pop_readyq(t) /\ cur' = [cur EXCEPT ![w] = t]
        /\ pc' = [pc EXCEPT ![w] = "popped"] /\ mgrlock' = None
        /\ UNCHANGED <<state, references, events, on_shutdown, shuttingdown, privileged, tasks,
                       mode, pause_requested, exiting, excl, walk, count, call, unsent>>
  BY DEF dispatch_pop, taskvars, mgrflags
<1>2. TaskTypes /\ ManagerTypes /\ ThreadTypes /\ Lists /\ Pointers /\ Destroying
      /\ Life(t) /\ Privilege(t)
  BY DEF QInv
<1>3. cur[w] = None /\ walk = {} /\ (\A c \in Clients : pc[c] # "walk") /\ None \notin Tasks
  BY <1>1, TopIs, ConstantAssumption
<1>4. /\ pc'[w] = "popped" /\ \A th \in Threads \ {w} : pc'[th] = pc[th]
      /\ pc[w] = "top" /\ w \notin Clients
  BY <1>1, ConstantAssumption DEF IInv, PlacesOK, Placed, AtTop, Threads
<1>5. /\ cur' \in [Workers -> Tasks \cup {None}] /\ cur'[w] = t
      /\ \A v \in Workers \ {w} : cur'[v] = cur[v]
  BY <1>1, <1>2 DEF ThreadTypes
<1>6. /\ InQueue(t)
      /\ ready_tasks' \in Seq(Tasks) /\ ready_priority_tasks' \in Seq(Tasks) /\ Lists'
      /\ ~InQueue(t)' /\ ~InPriority(t)'
      /\ \A s \in Tasks \ {t} : /\ InQueue(s)' <=> InQueue(s)
                                /\ InPriority(s)' <=> InPriority(s)
  BY <1>1, PopIs DEF MustWait
<1>7. TaskTypes' /\ ManagerTypes' /\ ThreadTypes'
  <2>1. TaskTypes'
    BY <1>1, <1>2 DEF TaskTypes, EventsOK
  <2>2. ManagerTypes' /\ ThreadTypes'
    BY <1>1, <1>2, <1>5, <1>6 DEF ManagerTypes, ThreadTypes
  <2> QED BY <2>1, <2>2
<1>8. Pointers'
  <2>1. pc'[w] \in BusyPCs
    BY <1>4 DEF BusyPCs, ActionPCs
  <2> QED BY <1>1, <1>2, <1>3, <1>4, <1>5, <2>1 DEF Pointers, Threads
<1>9. Destroying'
  <2>1. (\A c \in Clients : pc'[c] = pc[c]) /\ \A v \in Workers \ {w} : pc'[v] = pc[v]
    BY <1>4 DEF Threads
  <2>2. \A c \in Clients : pc[c] = "destroyed" => pc[w] = "exited"
    BY <1>2 DEF Destroying
  <2> QED BY <1>1, <1>2, <1>3, <1>4, <2>1, <2>2 DEF Destroying
<1>10. Elsewhere(w)
  BY <1>4, <1>5 DEF Elsewhere, Alike, Threads
<1>11. ASSUME NEW s \in Tasks \ {t} PROVE SameTask(s) /\ SameThreads(s)
  <2>1. SameTask(s)
    BY <1>1, <1>6, <1>11 DEF SameTask
  <2>2. cur[w] # s /\ cur'[w] # s /\ pc[w] # "exclusive"
    BY <1>3, <1>4, <1>5, <1>11
  <2> QED BY <1>1, <1>10, <2>1, <2>2, ElsewhereSame
<1>12. /\ state[t] = "ready" /\ \A th \in Threads : ~Owes(th, t)
       /\ \A v \in Workers : ~Carries(v, t) /\ ~Runs(v, t) /\ ~Finishes(v, t)
  BY <1>2, <1>6 DEF Life
<1>14. \A v \in Workers : /\ Carries(v, t)' <=> v = w
                          /\ ~Runs(v, t)' /\ ~Finishes(v, t)'
  <2>1. Carries(w, t)' /\ ~Runs(w, t)' /\ ~Finishes(w, t)'
    BY <1>4, <1>5 DEF Carries, Runs, Finishes, ActionPCs
  <2>2. \A v \in Workers \ {w} : ~Carries(v, t)' /\ ~Runs(v, t)' /\ ~Finishes(v, t)'
    BY <1>10, <1>12 DEF Carries, Runs, Finishes, Elsewhere, Alike, Marked
  <2> QED BY <2>1, <2>2
<1>15. \A th \in Threads : ~Owes(th, t)'
  BY <1>1, <1>12 DEF Owes
<1>16. Life(t)'
  BY <1>1, <1>2, <1>6, <1>12, <1>14, <1>15 DEF Life
<1>17. Privilege(t)'
  BY <1>6 DEF Privilege
<1> QED BY <1>1, <1>6, <1>7, <1>8, <1>9, <1>11, <1>16, <1>17, OneTask

\* The worker that has a task in hand, or is between two of its events.
LEMMA InHandIs ==
    ASSUME IInv, QInv, NEW w \in Workers,
           pc[w] \in {"popped", "requeue", "finish", "end"} \/ (pc[w] = "action" /\ call[w] = NoCall)
    PROVE  cur[w] \in Tasks
<1>1. pc[w] \in BusyPCs
  BY DEF BusyPCs, ActionPCs
<1> QED BY <1>1 DEF QInv, Pointers, ThreadTypes

\* One turn of dispatch()'s loop: w starts the next event of its task t, or
\* gives it up; what it leaves behind goes with the state it gives the task.
LEMMA LoopIs ==
    ASSUME QInv, NEW w \in Workers, NEW t \in Tasks, t = cur[w], NEW n \in Nat, dispatch_loop(w, n)
    PROVE  /\ \E s \in {"done", "idle", "ready", "running"}, x \in {"finish", "end", "requeue", "action"} :
                 /\ state' = [state EXCEPT ![t] = s] /\ pc' = [pc EXCEPT ![w] = x]
                 /\ s = "done" <=> x = "finish"
                 /\ s = "idle" <=> x = "end"
                 /\ s = "ready" <=> x = "requeue"
                 /\ s = "running" <=> x = "action"
                 /\ s \in {"done", "idle"} => events'[t] = <<>>
                 /\ s = "done" => shuttingdown'[t] /\ references[t] = 0
           /\ EventsOK' /\ shuttingdown' \in [Tasks -> BOOLEAN]
           /\ shuttingdown[t] => shuttingdown'[t]
           /\ shuttingdown'[t] => on_shutdown'[t] = <<>>
           /\ \A u \in Tasks \ {t} : /\ events'[u] = events[u] /\ on_shutdown'[u] = on_shutdown[u]
                                     /\ shuttingdown'[u] = shuttingdown[u]
           /\ count' \in [Workers -> Nat]
<1> DEFINE zombie == references[t] = 0 /\ events[t] = <<>> /\ ~shuttingdown[t]
           queue  == IF zombie THEN Reverse(on_shutdown[t]) ELSE events[t]
           over   == references[t] = 0 /\ (shuttingdown[t] \/ zombie)
           Goes(s, p, q) == /\ state'  = [state EXCEPT ![t] = s]
                            /\ pc'     = [pc EXCEPT ![w] = p]
                            /\ events' = [events EXCEPT ![t] = q]
<1>1. /\ zombie => /\ shuttingdown' = [shuttingdown EXCEPT ![t] = TRUE]
                   /\ on_shutdown' = [on_shutdown EXCEPT ![t] = <<>>]
      /\ ~zombie => UNCHANGED <<shuttingdown, on_shutdown>>
      /\ count' = [count EXCEPT ![w] = n]
      /\ \/ queue = <<>> /\ over  /\ Goes("done", "finish", <<>>)
         \/ queue = <<>> /\ ~over /\ Goes("idle", "end", <<>>)
         \/ queue # <<>> /\ Goes("ready", "requeue", queue)
         \/ queue # <<>> /\ Goes("running", "action", Tail(queue))
      /\ unsent' = unsent
  BY DEF dispatch_loop
<1>2. /\ shuttingdown \in [Tasks -> BOOLEAN] /\ EventsOK /\ Life(t) /\ count \in [Workers -> Nat]
  BY DEF QInv, TaskTypes, ThreadTypes
<1>3. queue \in Seq(Events)
  <2>1. Reverse(on_shutdown[t]) \in Seq(Events)
    BY <1>2, ReverseIs DEF EventsOK
  <2> HIDE DEF zombie
  <2> QED BY <1>2, <2>1 DEF EventsOK
<1>4. /\ shuttingdown' \in [Tasks -> BOOLEAN] /\ on_shutdown' \in [Tasks -> Seq(Events)]
      /\ shuttingdown[t] => shuttingdown'[t]
      /\ \A u \in Tasks \ {t} : on_shutdown'[u] = on_shutdown[u] /\ shuttingdown'[u] = shuttingdown[u]
      /\ zombie => shuttingdown'[t] /\ on_shutdown'[t] = <<>>
      /\ ~zombie => on_shutdown'[t] = on_shutdown[t] /\ shuttingdown'[t] = shuttingdown[t]
  <2> HIDE DEF zombie
  <2>1. CASE zombie
    <3>1. shuttingdown' = [shuttingdown EXCEPT ![t] = TRUE]
      BY <1>1, <2>1
    <3>2. on_shutdown' = [on_shutdown EXCEPT ![t] = <<>>] /\ <<>> \in Seq(Events)
      BY <1>1, <2>1
    <3>3. on_shutdown \in [Tasks -> Seq(Events)]
      BY <1>2 DEF EventsOK
    <3>4. /\ on_shutdown' \in [Tasks -> Seq(Events)] /\ on_shutdown'[t] = <<>>
          /\ \A u \in Tasks \ {t} : on_shutdown'[u] = on_shutdown[u]
      BY <3>2, <3>3
    <3>5. /\ shuttingdown' \in [Tasks -> BOOLEAN] /\ shuttingdown'[t]
          /\ \A u \in Tasks \ {t} : shuttingdown'[u] = shuttingdown[u]
      BY <1>2, <3>1
    <3> QED BY <2>1, <3>4, <3>5
  <2>2. CASE ~zombie
    BY <1>1, <1>2, <2>2 DEF EventsOK
  <2> QED BY <2>1, <2>2
<1>5. shuttingdown'[t] => on_shutdown'[t] = <<>>
  BY <1>2, <1>4 DEF Life
<1>6. over => shuttingdown'[t] /\ references[t] = 0
  BY <1>4
<1> HIDE DEF zombie, queue, over
<1>7. PICK q \in Seq(Events) : events' = [events EXCEPT ![t] = q]
  <2>1. queue # <<>> => Tail(queue) \in Seq(Events)
    BY <1>3
  <2> QED BY <1>1, <1>3, <2>1
<1>8. events' \in [Tasks -> Seq(Events)] /\ \A u \in Tasks \ {t} : events'[u] = events[u]
  BY <1>2, <1>7 DEF EventsOK
<1>9. EventsOK' /\ count' \in [Workers -> Nat]
  BY <1>1, <1>2, <1>4, <1>8 DEF EventsOK
<1>10. \E s \in {"done", "idle", "ready", "running"}, x \in {"finish", "end", "requeue", "action"} :
                 /\ state' = [state EXCEPT ![t] = s] /\ pc' = [pc EXCEPT ![w] = x]
                 /\ s = "done" <=> x = "finish"
                 /\ s = "idle" <=> x = "end"
                 /\ s = "ready" <=> x = "requeue"
                 /\ s = "running" <=> x = "action"
                 /\ s \in {"done", "idle"} => events'[t] = <<>>
                 /\ s = "done" => shuttingdown'[t] /\ references[t] = 0
  <2>1. CASE queue = <<>> /\ over  /\ Goes("done", "finish", <<>>)
    BY <1>2, <1>6, <2>1 DEF EventsOK
  <2>2. CASE queue = <<>> /\ ~over /\ Goes("idle", "end", <<>>)
    BY <1>2, <2>2 DEF EventsOK
  <2>3. CASE queue # <<>> /\ Goes("ready", "requeue", queue)
    BY <2>3
  <2>4. CASE queue # <<>> /\ Goes("running", "action", Tail(queue))
    BY <2>4
  <2> QED BY <1>1, <2>1, <2>2, <2>3, <2>4
<1> QED BY <1>4, <1>5, <1>8, <1>9, <1>10

LEMMA LoopQ ==
    ASSUME IInv, QInv, NEW w \in Workers, dispatch_start(w) \/ dispatch_next(w)
    PROVE  QInv'
<1>1. PICK n \in Nat : /\ pc[w] = "popped" \/ (pc[w] = "action" /\ call[w] = NoCall)
                       /\ dispatch_loop(w, n)
  BY DEF dispatch_start, dispatch_next, QInv, ThreadTypes
<1>2. TaskTypes /\ ManagerTypes /\ ThreadTypes /\ Lists /\ Pointers /\ Destroying
  BY DEF QInv
<1>3. PICK t \in Tasks : t = cur[w]
  BY <1>1, InHandIs
<1>4. UNCHANGED <<references, privileged, mgrlock, tasks, ready_tasks, ready_priority_tasks, mode,
                  pause_requested, exiting, excl, walk, cur, call, unsent>>
  BY <1>1 DEF dispatch_loop, mgrvars, mgrflags, readyqs
<1>5. PICK s \in {"done", "idle", "ready", "running"}, x \in {"finish", "end", "requeue", "action"} :
                 /\ state' = [state EXCEPT ![t] = s] /\ pc' = [pc EXCEPT ![w] = x]
                 /\ s = "done" <=> x = "finish"
                 /\ s = "idle" <=> x = "end"
                 /\ s = "ready" <=> x = "requeue"
                 /\ s = "running" <=> x = "action"
                 /\ s \in {"done", "idle"} => events'[t] = <<>>
                 /\ s = "done" => shuttingdown'[t] /\ references[t] = 0
  BY <1>1, <1>3, LoopIs
<1>6. /\ EventsOK' /\ shuttingdown' \in [Tasks -> BOOLEAN]
      /\ shuttingdown[t] => shuttingdown'[t]
      /\ shuttingdown'[t] => on_shutdown'[t] = <<>>
      /\ \A u \in Tasks \ {t} : /\ events'[u] = events[u] /\ on_shutdown'[u] = on_shutdown[u]
                                /\ shuttingdown'[u] = shuttingdown[u]
      /\ count' \in [Workers -> Nat]
  BY <1>1, <1>3, LoopIs
<1>7. /\ pc'[w] = x /\ \A th \in Threads \ {w} : pc'[th] = pc[th]
      /\ w \notin Clients
  BY <1>5, ConstantAssumption DEF IInv, PlacesOK, Placed, Threads
<1>8. /\ state' \in [Tasks -> {"unborn", "idle", "ready", "running", "done", "freed"}]
      /\ state'[t] = s /\ \A u \in Tasks \ {t} : state'[u] = state[u]
  BY <1>2, <1>5 DEF TaskTypes
<1>9. TaskTypes' /\ ManagerTypes' /\ ThreadTypes'
  <2>1. TaskTypes'
    BY <1>2, <1>4, <1>6, <1>8 DEF TaskTypes
  <2>2. ManagerTypes' /\ ThreadTypes'
    BY <1>2, <1>4, <1>6 DEF ManagerTypes, ThreadTypes
  <2> QED BY <2>1, <2>2
<1>10. Lists'
  BY <1>2, <1>4 DEF Lists
<1>11. Pointers'
  <2>1. pc'[w] \in BusyPCs /\ pc[w] \in BusyPCs
    BY <1>1, <1>7 DEF BusyPCs, ActionPCs
  <2> QED BY <1>2, <1>4, <1>7, <2>1 DEF Pointers, Threads
<1>12. Destroying'
  <2>1. (\A c \in Clients : pc'[c] = pc[c]) /\ \A v \in Workers \ {w} : pc'[v] = pc[v]
    BY <1>7 DEF Threads
  <2>2. \A c \in Clients : pc[c] # "destroyed"
    BY <1>1, <1>2 DEF Destroying
  <2>3. \A u \in Tasks : shuttingdown[u] => shuttingdown'[u]
    BY <1>6
  <2>4. tasks \subseteq Tasks
    BY <1>2 DEF ManagerTypes
  <2> QED BY <1>2, <1>4, <1>7, <2>1, <2>2, <2>3, <2>4 DEF Destroying
<1>13. Elsewhere(w)
  BY <1>4, <1>7 DEF Elsewhere, Alike, Threads
<1>14. ASSUME NEW u \in Tasks \ {t} PROVE SameTask(u) /\ SameThreads(u)
  <2>1. SameTask(u)
    BY <1>4, <1>6, <1>8, <1>14 DEF SameTask, InQueue, InPriority
  <2>2. cur[w] # u /\ cur'[w] # u /\ pc[w] # "exclusive"
    BY <1>1, <1>3, <1>4, <1>14
  <2> QED BY <1>4, <1>13, <2>1, <2>2, ElsewhereSame
<1>15. Life(t) /\ Privilege(t)
  BY DEF QInv
<1>16. Carries(w, t) \/ Runs(w, t)
  BY <1>1, <1>3 DEF Carries, Runs, ActionPCs
<1>17. /\ state[t] \in {"ready", "running"}
       /\ ~InQueue(t) /\ (\A th \in Threads : ~Owes(th, t))
       /\ \A v \in Workers : Carries(v, t) \/ Runs(v, t) => v = w
       /\ \A v \in Workers : ~Finishes(v, t)
       /\ t \in tasks
  BY <1>15, <1>16 DEF Life
<1>18. \A v \in Workers : /\ Carries(v, t)' <=> v = w /\ s = "ready"
                          /\ Runs(v, t)' <=> v = w /\ s = "running"
                          /\ Finishes(v, t)' <=> v = w /\ s = "done"
  <2>1. /\ Carries(w, t)' <=> s = "ready"
        /\ Runs(w, t)' <=> s = "running"
        /\ Finishes(w, t)' <=> s = "done"
    BY <1>3, <1>4, <1>5, <1>7 DEF Carries, Runs, Finishes, ActionPCs
  <2>2. \A v \in Workers \ {w} : ~Carries(v, t)' /\ ~Runs(v, t)' /\ ~Finishes(v, t)'
    BY <1>13, <1>17 DEF Carries, Runs, Finishes, Elsewhere, Alike, Marked
  <2> QED BY <2>1, <2>2
<1>19. /\ \A th \in Threads : ~Owes(th, t)'
       /\ ~InQueue(t)' /\ ~InPriority(t)'
  <2>1. ~InPriority(t)
    BY <1>15, <1>17 DEF Privilege
  <2> QED BY <1>4, <1>17, <2>1 DEF Owes, InQueue, InPriority
<1>20. Life(t)'
  BY <1>4, <1>5, <1>6, <1>8, <1>17, <1>18, <1>19 DEF Life
<1>21. Privilege(t)'
  BY <1>19 DEF Privilege
<1> QED BY <1>4, <1>9, <1>10, <1>11, <1>12, <1>14, <1>20, <1>21, OneTask

\* task_finished(): the task is unlinked and freed.
LEMMA FinishedQ ==
    ASSUME IInv, QInv, NEW w \in Workers, task_finished(w)
    PROVE  QInv'
<1> DEFINE p == [pc EXCEPT ![w] = "end"]
<1>1. /\ pc[w] = "finish" /\ mgrlock = None /\ tasks' = tasks \ {cur[w]}
      /\ pc' = p \/ pc' = Broadcast(p, "wait", "top")
      /\ state' = [state EXCEPT ![cur[w]] = "freed"]
      /\ UNCHANGED <<references, events, on_shutdown, shuttingdown, privileged, mgrlock, ready_tasks,
                     ready_priority_tasks, mode, pause_requested, exiting, excl, walk, cur, count,
                     call, unsent>>
  BY DEF task_finished, mgrflags, readyqs
<1>2. TaskTypes /\ ManagerTypes /\ ThreadTypes /\ Lists /\ Pointers /\ Destroying
  BY DEF QInv
<1>3. PICK t \in Tasks : t = cur[w]
  BY <1>1, InHandIs
<1>4. w \in Threads /\ w \notin Clients /\ Placed(pc)
  BY ConstantAssumption DEF IInv, PlacesOK, Threads
<1>5. /\ Placed(p) /\ p[w] = "end" /\ \A th \in Threads \ {w} : p[th] = pc[th]
  BY <1>4 DEF Placed, WorkerPCs, Threads
<1> HIDE DEF p
<1>6. \A th \in Threads : Alike(p, pc', th)
  BY <1>1, <1>5, SignalAlike
<1>7. pc'[w] = "end"
  BY <1>1, <1>4, <1>5 DEF Broadcast
<1>8. \A th \in Threads \ {w} : Alike(pc, pc', th)
  BY <1>5, <1>6 DEF Alike
<1>9. Life(t) /\ Privilege(t)
  BY DEF QInv
<1>10. /\ state[t] = "done" /\ events[t] = <<>> /\ on_shutdown[t] = <<>> /\ shuttingdown[t]
       /\ \A v \in Workers : ~Carries(v, t) /\ ~Runs(v, t) /\ (Finishes(v, t) => v = w)
       /\ ~InQueue(t) /\ ~InPriority(t) /\ \A th \in Threads : ~Owes(th, t)
       /\ ~(references[t] > 0)
  <2>1. Finishes(w, t)
    BY <1>1, <1>3 DEF Finishes
  <2> QED BY <1>3, <1>9, <2>1 DEF Life, Privilege
<1>11. walk = {}
  BY <1>1, <1>2, ConstantAssumption DEF Destroying
<1>12. /\ state' \in [Tasks -> {"unborn", "idle", "ready", "running", "done", "freed"}]
       /\ state'[t] = "freed" /\ \A u \in Tasks \ {t} : state'[u] = state[u]
  BY <1>1, <1>2, <1>3 DEF TaskTypes
<1>13. TaskTypes' /\ ManagerTypes' /\ ThreadTypes'
  <2>1. TaskTypes'
    BY <1>1, <1>2, <1>12 DEF TaskTypes, EventsOK
  <2>2. ManagerTypes' /\ ThreadTypes'
    BY <1>1, <1>2 DEF ManagerTypes, ThreadTypes
  <2> QED BY <2>1, <2>2
<1>14. Lists'
  BY <1>1, <1>2 DEF Lists
<1>15. Pointers'
  <2>1. pc'[w] \in BusyPCs /\ pc[w] \in BusyPCs
    BY <1>1, <1>7 DEF BusyPCs
  <2>2. \A v \in Workers : pc'[v] \in BusyPCs <=> pc[v] \in BusyPCs
    BY <1>8, <2>1 DEF Alike, Threads
  <2> QED BY <1>1, <1>2, <2>2 DEF Pointers
<1>16. Destroying'
  <2>1. \A c \in Clients : /\ pc'[c] = "walk" <=> pc[c] = "walk"
                           /\ pc'[c] = "destroyed" <=> pc[c] = "destroyed"
    BY <1>4, <1>8 DEF Alike, Marked, Threads
  <2>2. \A v \in Workers \ {w} : pc'[v] = "exited" <=> pc[v] = "exited"
    BY <1>8 DEF Alike, Marked, Threads
  <2>3. \A c \in Clients : pc[c] # "destroyed"
    BY <1>1, <1>2 DEF Destroying
  <2> QED BY <1>1, <1>2, <1>7, <1>11, <2>1, <2>2, <2>3 DEF Destroying
<1>17. Elsewhere(w)
  BY <1>1, <1>4, <1>8 DEF Elsewhere, Threads
<1>18. ASSUME NEW u \in Tasks \ {t} PROVE SameTask(u) /\ SameThreads(u)
  <2>1. SameTask(u)
    BY <1>1, <1>3, <1>12, <1>18 DEF SameTask, InQueue, InPriority
  <2>2. cur[w] # u /\ cur'[w] # u /\ pc[w] # "exclusive"
    BY <1>1, <1>3, <1>18
  <2> QED BY <1>1, <1>17, <2>1, <2>2, ElsewhereSame
<1>19. \A v \in Workers : ~Carries(v, t)' /\ ~Runs(v, t)' /\ ~Finishes(v, t)'
  <2>1. ~Carries(w, t)' /\ ~Runs(w, t)' /\ ~Finishes(w, t)'
    BY <1>7 DEF Carries, Runs, Finishes, ActionPCs
  <2>2. \A v \in Workers \ {w} : ~Carries(v, t)' /\ ~Runs(v, t)' /\ ~Finishes(v, t)'
    BY <1>10, <1>17 DEF Carries, Runs, Finishes, Elsewhere, Alike, Marked
  <2> QED BY <2>1, <2>2
<1>20. /\ \A th \in Threads : ~Owes(th, t)'
       /\ ~InQueue(t)' /\ ~InPriority(t)'
  BY <1>1, <1>10 DEF Owes, InQueue, InPriority
<1>21. Life(t)'
  BY <1>1, <1>3, <1>10, <1>12, <1>19, <1>20 DEF Life
<1>22. Privilege(t)'
  BY <1>20 DEF Privilege
<1> QED BY <1>1, <1>13, <1>14, <1>15, <1>16, <1>18, <1>21, <1>22, OneTask

\* Where the end of a task leaves the threads.
LEMMA EndMoves ==
    ASSUME IInv, NEW w \in Workers, dispatch_end(w)
    PROVE  pc'[w] = "top" /\ \A th \in Threads \ {w} : Alike(pc, pc', th)
<1> DEFINE m == [pc EXCEPT ![w] = "top"]
<1>1. PICK p \in EndSignal(m) : pc' = p \/ pc' = Broadcast(p, "wait", "top")
  BY DEF dispatch_end
<1>2. w \in Threads /\ Placed(pc)
  BY DEF IInv, PlacesOK, Threads
<1>3. /\ Placed(m) /\ m[w] = "top" /\ \A th \in Threads \ {w} : m[th] = pc[th]
  BY <1>2, ConstantAssumption DEF Placed, WorkerPCs, Threads
<1> HIDE DEF m
<1>4. \/ p \in Signal(m, "exwait", "exwoken")
      \/ p \in Signal(m, "pausewait", "pausewoken")
      \/ p = m
  BY <1>1 DEF EndSignal
<1>5. \A th \in Threads : Alike(m, p, th)
  BY <1>3, <1>4, SignalAlike
<1>6. Placed(p) /\ p[w] = "top"
  <2>1. CASE p = m
    BY <1>3, <2>1
  <2>2. CASE p # m
    <3>1. Woken(m, p) /\ \A th \in Threads : m[th] = "top" => p[th] = "top"
      BY <1>3, <1>4, <2>2, SignalWakes
    <3> QED BY <1>2, <1>3, <3>1 DEF Woken
  <2> QED BY <2>1, <2>2
<1>7. \A th \in Threads : Alike(p, pc', th)
  BY <1>1, <1>6, SignalAlike
<1>8. pc'[w] = "top"
  BY <1>1, <1>2, <1>6 DEF Broadcast
<1>9. ASSUME NEW th \in Threads \ {w} PROVE Alike(pc, pc', th)
  BY <1>3, <1>5, <1>7, <1>9 DEF Alike
<1> QED BY <1>8, <1>9

\* The end of a task: the worker puts it back if it has events left, and goes
\* to the head of its loop with the lock.
LEMMA EndQ ==
    ASSUME IInv, QInv, NEW w \in Workers, dispatch_end(w)
    PROVE  QInv'
<1>1. /\ pc[w] \in {"requeue", "end"} /\ mgrlock = None /\ mgrlock' = w
      /\ pc[w] = "requeue" => push_readyq(cur[w])
      /\ pc[w] = "end" => UNCHANGED <<ready_tasks, ready_priority_tasks>>
      /\ mode' \in {"normal", mode}
      /\ cur' = [cur EXCEPT ![w] = None]
      /\ UNCHANGED <<state, references, events, on_shutdown, shuttingdown, privileged, tasks,
                     pause_requested, exiting, excl, walk, count, call, unsent>>
  BY DEF dispatch_end, taskvars, readyqs
<1>2. TaskTypes /\ ManagerTypes /\ ThreadTypes /\ Lists /\ Pointers /\ Destroying
  BY DEF QInv
<1>3. PICK t \in Tasks : t = cur[w]
  BY <1>1, InHandIs
<1>4. pc'[w] = "top" /\ \A th \in Threads \ {w} : Alike(pc, pc', th)
  BY EndMoves
<1>5. w \in Threads /\ w \notin Clients /\ None \notin Tasks
  BY ConstantAssumption DEF Threads
<1>6. /\ cur' \in [Workers -> Tasks \cup {None}] /\ cur'[w] = None
      /\ \A v \in Workers \ {w} : cur'[v] = cur[v]
  BY <1>1, <1>2 DEF ThreadTypes
<1>7. Elsewhere(w)
  BY <1>4, <1>5, <1>6 DEF Elsewhere, Threads
<1>8. Life(t) /\ Privilege(t)
  BY DEF QInv
<1>9. Pointers'
  <2>1. pc'[w] \notin BusyPCs
    BY <1>4 DEF BusyPCs, ActionPCs
  <2>2. \A v \in Workers \ {w} : pc'[v] \in BusyPCs <=> pc[v] \in BusyPCs
    BY <1>4 DEF Alike, Threads
  <2> QED BY <1>1, <1>2, <1>6, <2>1, <2>2 DEF Pointers
<1>10. Destroying'
  <2>1. \A c \in Clients : /\ pc'[c] = "walk" <=> pc[c] = "walk"
                           /\ pc'[c] = "destroyed" <=> pc[c] = "destroyed"
    BY <1>4, <1>5 DEF Alike, Marked, Threads
  <2>2. \A v \in Workers \ {w} : pc'[v] = "exited" <=> pc[v] = "exited"
    BY <1>4 DEF Alike, Marked, Threads
  <2>3. \A c \in Clients : pc[c] # "destroyed" /\ pc[c] # "walk"
    BY <1>1, <1>2, ConstantAssumption DEF Destroying
  <2> QED BY <1>1, <1>2, <1>4, <2>1, <2>2, <2>3 DEF Destroying
<1>11. ThreadTypes' /\ TaskTypes'
  BY <1>1, <1>2, <1>6 DEF TaskTypes, ThreadTypes, EventsOK
<1>12. mode' \in {"normal", "privileged"} /\ mgrlock' \in Threads \cup {None}
  BY <1>1, <1>2, <1>5 DEF ManagerTypes
<1>13. /\ pc[w] # "exclusive" /\ \A u \in Tasks \ {t} : cur[w] # u /\ cur'[w] # u
  BY <1>1, <1>3, <1>5, <1>6
<1>14. \A u \in Tasks \ {t} : SameThreads(u)
  BY <1>1, <1>7, <1>13, ElsewhereSame
<1>15. \A th \in Threads : (Owes(th, t)' <=> Owes(th, t)) /\ (Privs(th, t)' <=> Privs(th, t))
  BY <1>1 DEF Owes, Privs
<1>16. /\ ~Carries(w, t)' /\ ~Runs(w, t)' /\ ~Finishes(w, t)' /\ ~Runs(w, t) /\ ~Finishes(w, t)
       /\ \A v \in Workers \ {w} : /\ Carries(v, t)' <=> Carries(v, t)
                                   /\ Runs(v, t)' <=> Runs(v, t)
                                   /\ Finishes(v, t)' <=> Finishes(v, t)
  <2>1. ~Carries(w, t)' /\ ~Runs(w, t)' /\ ~Finishes(w, t)' /\ ~Runs(w, t) /\ ~Finishes(w, t)
    BY <1>1, <1>4 DEF Carries, Runs, Finishes, ActionPCs
  <2> QED BY <1>7, <2>1 DEF Carries, Runs, Finishes, Elsewhere, Alike, Marked
<1>17. CASE pc[w] = "requeue"
  <2>1. Carries(w, t)
    BY <1>3, <1>17 DEF Carries
  <2>2. /\ state[t] = "ready" /\ ~InQueue(t)
        /\ \A th \in Threads : ~Owes(th, t)
        /\ \A v \in Workers : Carries(v, t) => v = w
    BY <1>8, <2>1 DEF Life
  <2>3. /\ ready_tasks' \in Seq(Tasks) /\ ready_priority_tasks' \in Seq(Tasks) /\ Lists'
        /\ InQueue(t)'
        /\ InPriority(t)' <=> privileged[t]
        /\ \A s \in Tasks \ {t} : /\ InQueue(s)' <=> InQueue(s)
                                  /\ InPriority(s)' <=> InPriority(s)
    BY <1>1, <1>3, <1>17, <2>2, PushIs
  <2>4. ManagerTypes'
    BY <1>1, <1>2, <1>12, <2>3 DEF ManagerTypes
  <2>5. \A s \in Tasks \ {t} : SameTask(s)
    BY <1>1, <2>3 DEF SameTask
  <2>6. Life(t)'
    BY <1>1, <1>8, <1>15, <1>16, <2>2, <2>3 DEF Life
  <2>7. Privilege(t)'
    BY <1>1, <1>15, <2>2, <2>3 DEF Privilege
  <2> QED BY <1>1, <1>9, <1>10, <1>11, <1>14, <2>3, <2>4, <2>5, <2>6, <2>7, OneTask
<1>18. CASE pc[w] = "end"
  <2>1. UNCHANGED <<ready_tasks, ready_priority_tasks>>
    BY <1>1, <1>18
  <2>2. ManagerTypes' /\ Lists'
    BY <1>1, <1>2, <1>12, <2>1 DEF ManagerTypes, Lists
  <2>3. \A s \in Tasks : SameTask(s)
    BY <1>1, <2>1 DEF SameTask, InQueue, InPriority
  <2>4. SameThreads(t)
    <3>1. ~Carries(w, t)
      BY <1>18 DEF Carries
    <3> QED BY <1>15, <1>16, <3>1 DEF SameThreads
  <2> QED BY <1>1, <1>5, <1>9, <1>10, <1>11, <1>14, <2>2, <2>3, <2>4, OneTask
<1> QED BY <1>1, <1>17, <1>18

-----------------------------------------------------------------------------
(* Waking up, exclusive access, mode, pause: no task is touched. *)

LEMMA StillKeeps ==
    ASSUME QInv, UNCHANGED <<taskvars, mgrlock, tasks, readyqs, exiting, excl, walk, cur, count, call,
                             unsent>>,
           mode' \in {"normal", "privileged"}, pause_requested' \in BOOLEAN,
           \A th \in Threads :
              /\ pc[th] \in ActionPCs <=> pc'[th] \in ActionPCs
              /\ pc[th] \in BusyPCs <=> pc'[th] \in BusyPCs
              /\ \A x \in Marked : pc[th] = x <=> pc'[th] = x
    PROVE  QInv'
<1> USE DEF taskvars, readyqs
<1>1. TaskTypes /\ ManagerTypes /\ ThreadTypes /\ Lists /\ Pointers /\ Destroying
  BY DEF QInv
<1>2. TaskTypes' /\ ManagerTypes' /\ ThreadTypes'
  <2>1. TaskTypes'
    BY <1>1 DEF TaskTypes, EventsOK
  <2>2. ManagerTypes' /\ ThreadTypes'
    BY <1>1 DEF ManagerTypes, ThreadTypes
  <2> QED BY <2>1, <2>2
<1>3. Lists' /\ Pointers'
  BY <1>1 DEF Lists, Pointers, Threads
<1>4. Destroying'
  <2>1. /\ \A c \in Clients : /\ pc'[c] = "walk" <=> pc[c] = "walk"
                              /\ pc'[c] = "destroyed" <=> pc[c] = "destroyed"
        /\ \A v \in Workers : pc'[v] = "exited" <=> pc[v] = "exited"
    BY DEF Marked, Threads
  <2> QED BY <1>1, <2>1 DEF Destroying
<1>5. ASSUME NEW s \in Tasks PROVE SameTask(s) /\ SameThreads(s)
  <2>1. SameTask(s)
    BY DEF SameTask, InQueue, InPriority
  <2>2. \A th \in Threads : /\ Owes(th, s)' <=> Owes(th, s)
                            /\ Privs(th, s)' <=> Privs(th, s)
    BY DEF Owes, Privs, NoCall
  <2>3. \A w \in Workers : /\ Carries(w, s)' <=> Carries(w, s)
                           /\ Runs(w, s)' <=> Runs(w, s)
                           /\ Finishes(w, s)' <=> Finishes(w, s)
    BY DEF Carries, Runs, Finishes, Marked, Threads
  <2> QED BY <2>1, <2>2, <2>3 DEF SameThreads
<1> QED BY <1>2, <1>3, <1>4, <1>5, ConstantAssumption, OneTask

LEMMA SpuriousQ ==
    ASSUME IInv, QInv, NEW th \in Threads, SpuriousWakeup(th)
    PROVE  QInv'
<1>1. mode \in {"normal", "privileged"} /\ pause_requested \in BOOLEAN
  BY DEF QInv, ManagerTypes
<1>2. UNCHANGED <<taskvars, mgrlock, tasks, readyqs, exiting, excl, walk, cur, count, call, unsent,
                  mode, pause_requested>>
  BY DEF SpuriousWakeup, mgrvars, mgrflags
<1>3. pc' \in {[pc EXCEPT ![th] = x] : x \in {"top", "exwoken", "pausewoken"}}
  BY DEF SpuriousWakeup
<1>4. pc \in [Threads -> WorkerPCs \cup ClientPCs]
  BY DEF IInv, PlacesOK, Placed
<1>5. \A u \in Threads : Alike(pc, pc', u)
  BY <1>4 DEF SpuriousWakeup, Alike, Marked, ActionPCs, BusyPCs
<1> QED BY <1>1, <1>2, <1>5, StillKeeps DEF Alike

LEMMA ExclusiveQ ==
    ASSUME IInv, QInv, NEW w \in Workers,
           \/ isc__task_beginexclusive(w) \/ beginexclusive_woken(w) \/ isc__task_endexclusive(w)
           \/ \E m \in {"normal", "privileged"} : isc__taskmgr_setmode(w, m)
    PROVE  QInv'
<1> USE DEF mgrvars, mgrflags, threads, isc__task_beginexclusive, beginexclusive_woken,
            isc__task_endexclusive, isc__taskmgr_setmode
<1>1. mode \in {"normal", "privileged"} /\ pause_requested \in BOOLEAN
  BY DEF QInv, ManagerTypes
<1>2. /\ UNCHANGED <<taskvars, mgrlock, tasks, readyqs, exiting, excl, walk, cur, count, call, unsent,
                     pause_requested>>
      /\ mode' \in {"normal", "privileged"}
  BY <1>1
<1>3. /\ pc \in [Threads -> WorkerPCs \cup ClientPCs] /\ Placed(pc) /\ w \in Threads
  BY DEF IInv, PlacesOK, Placed, Threads
<1>4. \/ /\ pc[w] \in {"action", "exwoken"}
         /\ pc' = [pc EXCEPT ![w] = "exwait"] \/ pc' = [pc EXCEPT ![w] = "exclusive"]
      \/ /\ pc[w] = "exclusive" /\ call[w] = NoCall
         /\ pc' = Broadcast([pc EXCEPT ![w] = "action"], "wait", "top")
      \/ pc' = pc
  BY DEF AwaitExclusive
<1> SUFFICES ASSUME NEW th \in Threads
             PROVE  /\ pc[th] \in ActionPCs <=> pc'[th] \in ActionPCs
                    /\ pc[th] \in BusyPCs <=> pc'[th] \in BusyPCs
                    /\ \A x \in Marked : pc[th] = x <=> pc'[th] = x
  BY <1>1, <1>2, StillKeeps
<1>5. CASE th = w /\ pc' # pc
  <2>1. pc'[w] \in {"exwait", "exclusive", "action"} /\ pc[w] \in {"action", "exwoken", "exclusive"}
    BY <1>3, <1>4, <1>5 DEF Broadcast
  <2> QED BY <1>5, <2>1 DEF ActionPCs, BusyPCs, Marked
<1>6. CASE th # w
  <2>1. pc'[th] = pc[th] \/ (pc[th] = "wait" /\ pc'[th] = "top")
    BY <1>3, <1>4, <1>6 DEF Broadcast
  <2> QED BY <2>1 DEF ActionPCs, BusyPCs, Marked
<1> QED BY <1>5, <1>6

LEMMA PauseQ ==
    ASSUME IInv, QInv, NEW c \in Clients, isc__taskmgr_pause(c) \/ isc__taskmgr_resume(c)
    PROVE  QInv'
<1> USE DEF mgrvars, mgrflags, threads, isc__taskmgr_pause, isc__taskmgr_resume
<1>1. mode \in {"normal", "privileged"} /\ pause_requested \in BOOLEAN
  BY DEF QInv, ManagerTypes
<1>2. /\ UNCHANGED <<taskvars, mgrlock, tasks, readyqs, exiting, excl, walk, cur, count, call, unsent,
                     mode>>
      /\ pause_requested' \in BOOLEAN
  BY <1>1 DEF PauseLoop
<1>3. /\ pc \in [Threads -> WorkerPCs \cup ClientPCs] /\ Placed(pc) /\ c \in Threads
      /\ pc[c] \in ClientPCs
  BY DEF IInv, PlacesOK, Placed, Threads
<1>4. \/ /\ pc[c] \in {"app", "action", "exclusive", "pausewoken"}
         /\ pc' = [pc EXCEPT ![c] = "pausewait"] \/ pc' = [pc EXCEPT ![c] = "app"]
      \/ pc' = Broadcast(pc, "wait", "top")
  BY DEF PauseLoop, InCode
<1>5. \A u \in Threads : Alike(pc, pc', u)
  <2>1. CASE pc' = Broadcast(pc, "wait", "top")
    BY <1>3, <2>1, SignalAlike
  <2>2. CASE pc' # Broadcast(pc, "wait", "top")
    <3>1. pc[c] \in {"app", "pausewoken"}
      BY <1>3, <1>4, <2>2 DEF ClientPCs
    <3>2. pc'[c] \in {"app", "pausewait"} /\ \A u \in Threads \ {c} : pc'[u] = pc[u]
      BY <1>3, <1>4, <2>2
    <3> QED BY <3>1, <3>2 DEF Alike, Marked, ActionPCs, BusyPCs
  <2> QED BY <2>1, <2>2
<1> QED BY <1>1, <1>2, <1>5, StillKeeps DEF Alike

-----------------------------------------------------------------------------
(* isc_taskmgr_destroy() *)

\* isc_taskmgr_setexcltask() and isc_taskmgr_destroy(): the manager's reference
\* is dropped, and the task may become ready.
LEMMA DetachExclQ ==
    ASSUME IInv, QInv, PInv, NEW c \in Clients,
           isc__taskmgr_setexcltask(c) \/ isc__taskmgr_destroy(c)
    PROVE  QInv'
<1>1. /\ InCode(c) /\ Alone(c)
      /\ UNCHANGED <<events, on_shutdown, shuttingdown, privileged, mgrlock, tasks, readyqs, mode,
                     pause_requested, exiting, excl, walk, cur, count, unsent>>
  BY DEF isc__taskmgr_setexcltask, isc__taskmgr_destroy, mgrvars, mgrflags
<1>2. /\ references \in [Tasks -> Nat] /\ shuttingdown \in [Tasks -> BOOLEAN] /\ EventsOK
      /\ state \in [Tasks -> {"unborn", "idle", "ready", "running", "done", "freed"}]
      /\ privileged \in [Tasks -> BOOLEAN] /\ None \notin Tasks
      /\ \A u \in Tasks : Life(u)
      /\ excl \in Tasks \cup {None}
  BY ConstantAssumption DEF QInv, TaskTypes, ManagerTypes
<1>3. /\ c \in Threads /\ call[c] = NoCall /\ pc[c] = "app"
  BY <1>1 DEF IInv, PlacesOK, Placed, InCode, ClientPCs, Threads
<1>4. \A u \in Threads : Alike(pc, pc', u)
  <2>1. PICK x \in {"exclear", "setexcl", "newexcl", "destroy"} : pc' = [pc EXCEPT ![c] = x]
    BY DEF isc__taskmgr_setexcltask, isc__taskmgr_destroy, DetachExcl
  <2>2. pc'[c] = x /\ \A u \in Threads \ {c} : pc'[u] = pc[u]
    BY <1>3, <2>1 DEF IInv, PlacesOK, Placed
  <2> QED BY <1>3, <2>2 DEF Alike, Marked, ActionPCs, BusyPCs
<1>5. EventsOK' /\ ManagerTypes'
  BY <1>1, <1>2 DEF QInv, EventsOK, ManagerTypes, readyqs
<1>6. CASE excl = None
  <2>1. UNCHANGED <<references, state, call>>
    BY <1>6 DEF isc__taskmgr_setexcltask, isc__taskmgr_destroy, DetachExcl
  <2> QED BY <1>1, <1>4, <2>1, StillKeeps DEF Alike, QInv, ManagerTypes, taskvars
<1>7. CASE excl # None
  <2>0. PICK x \in Tasks : x = excl /\ references[x] > 0
    BY <1>1, <1>2, <1>7, AloneHeld DEF PInv, ExclOK
  <2>1. task_detach(c, x)
    BY <1>7, <2>0 DEF isc__taskmgr_setexcltask, isc__taskmgr_destroy, DetachExcl
  <2>2. /\ references' \in [Tasks -> Nat] /\ references'[x] = references[x] - 1
        /\ \A u \in Tasks \ {x} : references'[u] = references[u]
    BY <1>2, <2>0, <2>1 DEF task_detach
  <2>3. \/ state' = state /\ call' = call
        \/ /\ state[x] = "idle" /\ state' = [state EXCEPT ![x] = "ready"]
           /\ call' = [call EXCEPT ![c] = [op |-> "ready", task |-> x, flag |-> FALSE]]
    BY <2>1 DEF task_detach, OwesReady
  <2>4. TaskTypes'
    BY <1>1, <1>2, <1>5, <2>2, <2>3 DEF TaskTypes
  <2>5. ThreadTypes'
    <3>1. [op |-> "ready", task |-> x, flag |-> FALSE] \in Call
      BY <2>0 DEF Call, CallKinds
    <3>2. call' \in [Threads -> Call]
      BY <2>3, <3>1 DEF QInv, ThreadTypes
    <3> QED BY <1>1, <3>2 DEF QInv, ThreadTypes
  <2>7. /\ state[x] = "idle" => events[x] = <<>>
        /\ shuttingdown[x] => on_shutdown[x] = <<>>
        /\ state[x] \in {"idle", "ready", "running"}
    BY <1>2, <2>0 DEF Life
  <2>9. \/ state'[x] = state[x] /\ call' = call
        \/ /\ state[x] = "idle" /\ state'[x] = "ready"
           /\ call' = [call EXCEPT ![c] = [op |-> "ready", task |-> x, flag |-> FALSE]]
    BY <1>2, <2>0, <2>3
  <2>10. \A u \in Tasks \ {x} :
            /\ state'[u] = state[u]
            /\ references'[u] > 0 => references[u] > 0
    BY <1>2, <2>2, <2>3
  <2>11. Touches(c, x)
    BY <1>1, <1>3, <1>4, <2>7, <2>9, <2>10 DEF Touches
  <2> QED BY <1>3, <1>5, <2>4, <2>5, <2>11, TouchesKeeps
<1> QED BY <1>6, <1>7

\* The walk starts, and ends; the workers are joined.
LEMMA DestroyMovesQ ==
    ASSUME IInv, QInv, NEW c \in Clients, destroy_begin(c) \/ destroy_unlock(c) \/ destroy_join(c)
    PROVE  QInv'
<1> USE DEF destroy_begin, destroy_unlock, destroy_join, mgrvars, mgrflags, readyqs, taskvars
<1>1. /\ UNCHANGED <<state, references, events, on_shutdown, shuttingdown, privileged, tasks,
                     ready_tasks, ready_priority_tasks, pause_requested, excl, cur, count, call, unsent>>
      /\ mode' \in {mode, "normal"} /\ mgrlock' \in {mgrlock, None, c}
      /\ walk' \in {walk, tasks} /\ exiting' \in {exiting, TRUE}
  OBVIOUS
<1>2. TaskTypes /\ ManagerTypes /\ ThreadTypes /\ Lists /\ Pointers /\ Destroying
  BY DEF QInv
<1>3. /\ c \in Threads /\ Placed(pc) /\ c \notin Workers /\ c # None
  BY ConstantAssumption DEF IInv, PlacesOK, Threads
<1>4. TaskTypes' /\ ManagerTypes' /\ ThreadTypes'
  <2>1. TaskTypes'
    BY <1>1, <1>2 DEF TaskTypes, EventsOK
  <2>2. ManagerTypes' /\ ThreadTypes'
    BY <1>1, <1>2, <1>3 DEF ManagerTypes, ThreadTypes
  <2> QED BY <2>1, <2>2
<1>5. \E x \in {"walk", "join", "destroyed"} :
         /\ pc[c] \in {"destroy", "walk", "join"} /\ pc'[c] = x
         /\ \A u \in Threads \ {c} : \/ pc'[u] = pc[u]
                                     \/ pc[u] = "wait" /\ pc'[u] = "top"
  BY <1>3 DEF Placed, Broadcast
<1>6. \A u \in Threads : /\ pc[u] \in ActionPCs <=> pc'[u] \in ActionPCs
                         /\ pc[u] \in BusyPCs <=> pc'[u] \in BusyPCs
                         /\ u # c => \A x \in Marked : pc[u] = x <=> pc'[u] = x
  BY <1>5 DEF ActionPCs, BusyPCs, Marked
<1>7. Lists' /\ Pointers'
  BY <1>1, <1>2, <1>6 DEF Lists, Pointers, Threads
<1>8. Destroying'
  <2>1. /\ \A d \in Clients \ {c} : /\ pc'[d] = "walk" <=> pc[d] = "walk"
                                    /\ pc'[d] = "destroyed" <=> pc[d] = "destroyed"
        /\ \A v \in Workers : pc'[v] = "exited" <=> pc[v] = "exited"
    BY <1>3, <1>6 DEF Marked, Threads
  <2>2. CASE destroy_begin(c)
    <3>1. /\ mgrlock = None /\ exiting' = TRUE /\ walk' = tasks /\ mgrlock' = c /\ pc'[c] = "walk"
      BY <1>3, <2>2 DEF Placed
    <3>2. \A d \in Clients : pc[d] # "walk"
      BY <1>2, <3>1, ConstantAssumption DEF Destroying
    <3> QED BY <1>1, <1>2, <2>1, <3>1, <3>2 DEF Destroying
  <2>3. CASE destroy_unlock(c)
    <3>1. /\ pc[c] = "walk" /\ walk = {} /\ walk' = walk /\ mgrlock' = None /\ exiting' = exiting
          /\ pc'[c] = "join"
      BY <1>3, <2>3 DEF Placed, Broadcast
    <3>2. \A d \in Clients \ {c} : pc[d] # "walk"
      BY <1>2, <3>1 DEF Destroying
    <3> QED BY <1>1, <1>2, <2>1, <3>1, <3>2 DEF Destroying
  <2>4. CASE destroy_join(c)
    <3>1. /\ pc[c] = "join" /\ walk' = walk /\ mgrlock' = mgrlock /\ exiting' = exiting
          /\ pc'[c] = "destroyed" /\ \A w \in Workers : pc[w] = "exited"
      BY <1>3, <2>4 DEF Placed
    <3> QED BY <1>1, <1>2, <2>1, <3>1 DEF Destroying
  <2> QED BY <2>2, <2>3, <2>4
<1>9. ASSUME NEW s \in Tasks PROVE SameTask(s) /\ SameThreads(s)
  <2>1. SameTask(s)
    BY <1>1 DEF SameTask, InQueue, InPriority
  <2>2. \A th \in Threads : /\ Owes(th, s)' <=> Owes(th, s)
                            /\ Privs(th, s)' <=> Privs(th, s)
    BY <1>1, <1>6 DEF Owes, Privs
  <2>3. \A w \in Workers : /\ Carries(w, s)' <=> Carries(w, s)
                           /\ Runs(w, s)' <=> Runs(w, s)
                           /\ Finishes(w, s)' <=> Finishes(w, s)
    BY <1>1, <1>3, <1>6 DEF Carries, Runs, Finishes, Marked, Threads
  <2> QED BY <2>1, <2>2, <2>3 DEF SameThreads
<1> QED BY <1>4, <1>7, <1>8, <1>9, ConstantAssumption, OneTask

\* The manager shuts a task down, and queues it itself if it was idle.
LEMMA WalkQ ==
    ASSUME IInv, QInv, NEW c \in Clients, NEW t \in Tasks, destroy_walk(c, t)
    PROVE  QInv'
<1>1. /\ pc[c] = "walk" /\ t \in walk /\ walk' = walk \ {t} /\ task_shutdown(t)
      /\ ~shuttingdown[t] /\ state[t] = "idle" => push_readyq(t)
      /\ ~(~shuttingdown[t] /\ state[t] = "idle") => UNCHANGED <<ready_tasks, ready_priority_tasks>>
      /\ UNCHANGED <<references, privileged, mgrlock, tasks, mode, pause_requested, exiting, excl, pc,
                     cur, count, call, unsent>>
  BY DEF destroy_walk, mgrflags, readyqs, threads
<1>2. /\ TaskTypes /\ ManagerTypes /\ ThreadTypes /\ Lists /\ Pointers /\ Destroying
      /\ Life(t) /\ Privilege(t)
      /\ state \in [Tasks -> {"unborn", "idle", "ready", "running", "done", "freed"}]
  BY DEF QInv, TaskTypes
<1>3. /\ EventsOK'
      /\ shuttingdown' \in [Tasks -> BOOLEAN] /\ shuttingdown'[t] /\ on_shutdown'[t] = <<>>
      /\ \A u \in Tasks \ {t} : /\ events'[u] = events[u] /\ on_shutdown'[u] = on_shutdown[u]
                                /\ shuttingdown'[u] = shuttingdown[u]
  BY <1>1, ShutdownIs
<1>4. /\ ~shuttingdown[t] /\ state[t] = "idle" => state' = [state EXCEPT ![t] = "ready"]
      /\ ~(~shuttingdown[t] /\ state[t] = "idle") => state' = state
      /\ shuttingdown[t] => events' = events
  BY <1>1 DEF task_shutdown
<1>5. /\ state' \in [Tasks -> {"unborn", "idle", "ready", "running", "done", "freed"}]
      /\ \A u \in Tasks \ {t} : state'[u] = state[u]
  BY <1>2, <1>4
<1>6. TaskTypes' /\ ThreadTypes'
  BY <1>1, <1>2, <1>3, <1>5 DEF TaskTypes, ThreadTypes
<1>7. Pointers'
  BY <1>1, <1>2 DEF Pointers
<1>8. Destroying'
  <2>1. \A u \in Tasks : shuttingdown[u] => shuttingdown'[u]
    BY <1>3
  <2>2. tasks \subseteq Tasks
    BY <1>2 DEF ManagerTypes
  <2> QED BY <1>1, <1>2, <1>3, <2>1, <2>2 DEF Destroying
<1>10. \A s \in Tasks : SameThreads(s)
  BY <1>1 DEF SameThreads, Owes, Privs, Carries, Runs, Finishes
<1>11. state[t] \notin {"unborn", "freed"} /\ t \in tasks
  BY <1>1, <1>2 DEF Destroying, Life
<1>12. CASE ~shuttingdown[t] /\ state[t] = "idle"
  <2>1. /\ ~InQueue(t) /\ (\A th \in Threads : ~Owes(th, t))
        /\ \A w \in Workers : ~Carries(w, t) /\ ~Runs(w, t) /\ ~Finishes(w, t)
    BY <1>2, <1>12 DEF Life
  <2>2. /\ ready_tasks' \in Seq(Tasks) /\ ready_priority_tasks' \in Seq(Tasks) /\ Lists'
        /\ InQueue(t)'
        /\ InPriority(t)' <=> privileged[t]
        /\ \A s \in Tasks \ {t} : /\ InQueue(s)' <=> InQueue(s)
                                  /\ InPriority(s)' <=> InPriority(s)
    BY <1>1, <1>12, <2>1, PushIs
  <2>3. ManagerTypes'
    BY <1>1, <1>2, <2>2 DEF ManagerTypes
  <2>4. \A s \in Tasks \ {t} : SameTask(s)
    BY <1>1, <1>3, <1>5, <2>2 DEF SameTask
  <2>5. state'[t] = "ready"
    BY <1>2, <1>4, <1>12
  <2>6. Life(t)'
    BY <1>1, <1>3, <1>10, <1>11, <2>1, <2>2, <2>5 DEF Life, SameThreads
  <2>7. Privilege(t)'
    BY <1>1, <2>2 DEF Privilege
  <2> QED BY <1>1, <1>6, <1>7, <1>8, <1>10, <2>2, <2>3, <2>4, <2>6, <2>7, OneTask
<1>13. CASE ~(~shuttingdown[t] /\ state[t] = "idle")
  <2>1. UNCHANGED <<ready_tasks, ready_priority_tasks, state>>
    BY <1>1, <1>4, <1>13
  <2>2. ManagerTypes' /\ Lists'
    BY <1>1, <1>2, <2>1 DEF ManagerTypes, Lists
  <2>3. \A s \in Tasks \ {t} : SameTask(s)
    BY <1>1, <1>3, <2>1 DEF SameTask, InQueue, InPriority
  <2>4. (InQueue(t)' <=> InQueue(t)) /\ (InPriority(t)' <=> InPriority(t))
    BY <2>1 DEF InQueue, InPriority
  <2>5. /\ state[t] = "idle" => events'[t] = <<>>
        /\ state[t] = "done" => events'[t] = <<>>
    BY <1>2, <1>4, <1>13 DEF Life
  <2>6. Life(t)'
    BY <1>1, <1>2, <1>3, <1>10, <1>11, <2>1, <2>4, <2>5 DEF Life, SameThreads
  <2>7. Privilege(t)'
    BY <1>1, <1>2, <1>10, <2>4 DEF Privilege, SameThreads
  <2> QED BY <1>1, <1>6, <1>7, <1>8, <1>10, <2>2, <2>3, <2>6, <2>7, OneTask
<1> QED BY <1>12, <1>13

-----------------------------------------------------------------------------
(* The invariant holds. *)

LEMMA InitQInv ==
    ASSUME Init
    PROVE  QInv
<1>1. /\ NoCall \in Call /\ NoCall.op = "none"
  BY DEF Call, NoCall
<1>2. TaskTypes
  BY DEF Init, TaskTypes, EventsOK
<1>3. ManagerTypes /\ ThreadTypes
  <2>1. ManagerTypes
    <3>1. pause_requested \in BOOLEAN /\ exiting \in BOOLEAN
      BY DEF Init
    <3>2. /\ mgrlock = None /\ tasks = {} /\ ready_tasks = <<>> /\ ready_priority_tasks = <<>>
          /\ mode = "normal" /\ excl = None /\ walk = {}
      BY DEF Init
    <3>3. ready_tasks \in Seq(Tasks) /\ ready_priority_tasks \in Seq(Tasks)
      BY <3>2
    <3> QED BY <3>1, <3>2, <3>3 DEF ManagerTypes
  <2>2. cur = [w \in Workers |-> None] /\ count = [w \in Workers |-> 0]
        /\ call = [th \in Threads |-> NoCall]
    BY DEF Init
  <2>3. call \in [Threads -> Call]
    BY <1>1, <2>2
  <2> QED BY <2>1, <2>2, <2>3 DEF ThreadTypes
<1>4. /\ \A w \in Workers : pc[w] = "top" /\ cur[w] = None
      /\ \A c \in Clients : pc[c] = "app"
      /\ \A th \in Threads : call[th] = NoCall
  BY ConstantAssumption DEF Init, Threads
<1>5. \A x : ~Linked(<<>>, x)
  BY DEF Linked
<1>6. ASSUME NEW t \in Tasks PROVE Life(t) /\ Privilege(t)
  <2>1. /\ ~InQueue(t) /\ ~InPriority(t)
        /\ \A th \in Threads : ~Owes(th, t) /\ ~Privs(th, t)
    BY <1>1, <1>4, <1>5 DEF Init, InQueue, InPriority, Owes, Privs
  <2>2. \A w \in Workers : ~Carries(w, t) /\ ~Runs(w, t) /\ ~Finishes(w, t)
    BY <1>4 DEF Carries, Runs, Finishes, ActionPCs
  <2>3. /\ state[t] = "unborn" /\ tasks = {} /\ references[t] = 0 /\ events[t] = <<>>
        /\ ~shuttingdown[t]
    BY DEF Init
  <2> QED BY <2>1, <2>2, <2>3 DEF Life, Privilege
<1>7. Lists
  BY DEF Init, Lists, Distinct
<1>8. Pointers
  <2>1. \A w \in Workers : pc[w] \notin BusyPCs
    BY <1>4 DEF BusyPCs, ActionPCs
  <2> QED BY <1>4, <2>1 DEF Init, Pointers
<1>9. Destroying
  BY <1>4 DEF Init, Destroying
<1> QED BY <1>2, <1>3, <1>6, <1>7, <1>8, <1>9 DEF QInv

LEMMA NextQInv ==
    ASSUME IInv, QInv, PInv, [Next]_vars
    PROVE  QInv'
<1>1. ASSUME NEW th \in Threads, NEW t \in Tasks, TaskCall(th, t) PROVE QInv'
  <2>1. CASE isc__task_create(th, t)
    BY <2>1, CreateQ
  <2>2. CASE isc__task_attach(th, t)
    BY <2>2, AttachQ
  <2>3. CASE isc__task_detach(th, t)
    BY <2>3, DetachQ
  <2>4. ASSUME NEW e \in Events, isc__task_send(th, t, e) \/ isc__task_sendanddetach(th, t, e)
        PROVE  QInv'
    BY <2>4, SendQ
  <2>5. ASSUME NEW e \in Events, isc__task_purgeevent(th, t, e) PROVE QInv'
    BY <2>5, WithdrawQ
  <2>6. ASSUME NEW e \in Events, isc__task_onshutdown(th, t, e) PROVE QInv'
    BY <2>6, OnshutdownQ
  <2>7. ASSUME NEW match \in SUBSET Events,
               isc__task_purgerange(th, t, match) \/ isc__task_unsendrange(th, t, match)
        PROVE  QInv'
    BY <2>7, WithdrawQ
  <2>8. CASE isc__task_shutdown(th, t)
    BY <2>8, ShutdownQ
  <2>9. ASSUME NEW priv \in BOOLEAN, isc__task_setprivilege(th, t, priv) PROVE QInv'
    BY <2>9, SetprivilegeQ
  <2> QED BY <1>1, <2>1, <2>2, <2>3, <2>4, <2>5, <2>6, <2>7, <2>8, <2>9 DEF TaskCall
<1>2. ASSUME NEW th \in Threads, CallStep(th) PROVE QInv'
  BY <1>2, ReadyQ, ReadyPushQ, SetprivilegeQueueQ, RelinkQ, ExcltaskAttachQ DEF CallStep
<1>3. ASSUME NEW th \in Threads, isc__taskmgr_excltask(th) \/ SpuriousWakeup(th) PROVE QInv'
  BY <1>3, ExcltaskQ, SpuriousQ
<1>4. ASSUME NEW w \in Workers, WorkerStep(w) \/ dispatch_next(w) PROVE QInv'
  BY <1>4, ExitWaitQ, PopQ, LoopQ, FinishedQ, EndQ, ExclusiveQ DEF WorkerStep
<1>5. ASSUME NEW w \in Workers,
             \/ isc__task_beginexclusive(w) \/ isc__task_endexclusive(w)
             \/ \E m \in {"normal", "privileged"} : isc__taskmgr_setmode(w, m)
      PROVE  QInv'
  BY <1>5, ExclusiveQ
<1>6. ASSUME NEW c \in Clients, isc__taskmgr_pause(c) \/ isc__taskmgr_resume(c) PROVE QInv'
  BY <1>6, PauseQ
<1>7. ASSUME NEW c \in Clients,
             \/ isc__taskmgr_setexcltask(c) \/ \E t \in Tasks : setexcl_attach(c, t)
             \/ isc__taskmgr_destroy(c) \/ DestroyStep(c)
      PROVE  QInv'
  BY <1>7, DetachExclQ, SetexclQ, DestroyMovesQ, WalkQ DEF DestroyStep
<1>8. CASE UNCHANGED vars
  <2>1. UNCHANGED <<taskvars, mgrlock, tasks, readyqs, exiting, excl, walk, cur, count, call, unsent,
                    mode, pause_requested, pc>>
    BY <1>8 DEF vars, mgrvars, mgrflags, threads
  <2>2. mode \in {"normal", "privileged"} /\ pause_requested \in BOOLEAN
    BY DEF QInv, ManagerTypes
  <2> QED BY <2>1, <2>2, StillKeeps
<1> QED BY <1>1, <1>2, <1>3, <1>4, <1>5, <1>6, <1>7, <1>8 DEF Next

-----------------------------------------------------------------------------
(* The references that isc_task_setprivilege() and the manager rely on. *)

LEMMA InitPInv ==
    ASSUME Init
    PROVE  PInv
<1>1. \A th \in Threads, t \in Tasks : ~Privs(th, t)
  BY DEF Init, Privs, NoCall
<1> QED BY <1>1 DEF Init, PInv, PrivOK, ExclOK

\* Nobody leaves the two places where the manager's reference is gone.
Stays(p, q) == \A c \in Clients : p[c] \in {"exclear", "setexcl"} => q[c] = p[c]

\* The steps that change no reference.
LEMMA SteadyP ==
    ASSUME QInv, PInv, UNCHANGED <<references, excl, privileged>>, Stays(pc, pc'),
           \A th \in Threads : call'[th] = call[th] \/ call'[th].op # "priv"
    PROVE  PInv'
<1>1. ExclHeld' => ExclHeld
  BY DEF Stays, ExclHeld
<1>2. ExclOK'
  BY <1>1 DEF PInv, ExclOK
<1>3. references \in [Tasks -> Nat]
  BY DEF QInv, TaskTypes
<1>4. \A t \in Tasks : CallersRefs(t) > 0 => CallersRefs(t)' > 0
  BY <1>1, <1>3 DEF CallersRefs
<1>5. PrivOK'
  BY <1>4 DEF PInv, PrivOK, Privs
<1> QED BY <1>2, <1>5 DEF PInv

\* The calls that change a reference: who is inside isc_task_setprivilege() keeps
\* one, and so does the manager.
LEMMA ReferP ==
    ASSUME IInv, QInv, PInv, NEW th \in Threads, NEW t \in Tasks,
           \/ isc__task_create(th, t) \/ isc__task_attach(th, t) \/ isc__task_detach(th, t)
           \/ \E e \in Events : isc__task_sendanddetach(th, t, e)
    PROVE  PInv'
<1>1. /\ UNCHANGED <<excl, privileged, pc>>
      /\ \A u \in Threads : call'[u] = call[u] \/ call'[u].op # "priv"
  <2>1. UNCHANGED <<excl, privileged, pc>>
    BY DEF isc__task_create, isc__task_attach, isc__task_detach, isc__task_sendanddetach, mgrvars,
           mgrflags, threads
  <2> DEFINE r == [op |-> "ready", task |-> t, flag |-> FALSE]
  <2>2. r.op # "priv"
    OBVIOUS
  <2> HIDE DEF r
  <2>3. call' = call \/ call' = [call EXCEPT ![th] = r]
    BY DEF isc__task_create, isc__task_attach, isc__task_detach, isc__task_sendanddetach, mgrvars,
           mgrflags, threads, task_detach, OwesReady, r
  <2> QED BY <2>1, <2>2, <2>3, ReferredIs
<1>2. ExclHeld' = ExclHeld
  BY <1>1 DEF ExclHeld
<1>3. \A s \in Tasks : Life(s)
  BY DEF QInv
<1>4. /\ references' \in [Tasks -> Nat]
      /\ \A s \in Tasks \ {t} : references'[s] = references[s]
      /\ \/ references'[t] > references[t]
         \/ CanDrop(t) /\ references'[t] = references[t] - 1
  <2>1. isc__task_create(th, t) => references[t] = 0 /\ references' = [references EXCEPT ![t] = 1]
    BY <1>3, ReferredIs DEF isc__task_create
  <2>2. isc__task_attach(th, t) => references' = [references EXCEPT ![t] = @ + 1]
    BY DEF isc__task_attach
  <2>3. ASSUME isc__task_detach(th, t) \/ \E e \in Events : isc__task_sendanddetach(th, t, e)
        PROVE  CanDrop(t) /\ references' = [references EXCEPT ![t] = @ - 1]
    BY <2>3 DEF isc__task_detach, isc__task_sendanddetach, task_detach
  <2>4. CanDrop(t) => references[t] > 0
    BY ReferredIs DEF CanDrop, CallersRefs
  <2> QED BY <2>1, <2>2, <2>3, <2>4, ReferredIs
<1>5. \A s \in Tasks : CallersRefs(s)' = references'[s] - (IF excl = s /\ ExclHeld THEN 1 ELSE 0)
  BY <1>1, <1>2 DEF CallersRefs
<1>6. ASSUME NEW s \in Tasks, NEW u \in Threads, Privs(u, s)
      PROVE  CallersRefs(s)' > 0
  <2>1. CallersRefs(s) > 0 /\ InSetprivilege(s)
    BY <1>6 DEF PInv, PrivOK, Privs, InSetprivilege
  <2>2. references[s] \in Nat /\ references'[s] \in Nat
    BY <1>4, ReferredIs
  <2>3. references'[s] >= references[s] \/ (CallersRefs(s) > 1 /\ references'[s] = references[s] - 1)
    BY <1>4, <2>1, <2>2 DEF CanDrop
  <2> QED BY <1>5, <2>1, <2>2, <2>3 DEF CallersRefs
<1>7. PrivOK'
  BY <1>1, <1>6 DEF PInv, PrivOK, Privs
<1>8. ExclOK'
  <2>1. ASSUME excl # None, ExclHeld PROVE references'[excl] > 0
    <3>1. excl \in Tasks /\ references[excl] > 0 /\ references[excl] \in Nat
      BY <2>1, ReferredIs DEF PInv, ExclOK
    <3>2. excl = t /\ CanDrop(t) => references[t] > 1
      BY <2>1, ReferredIs DEF CanDrop, CallersRefs
    <3> QED BY <1>4, <3>1, <3>2
  <2> QED BY <1>1, <1>2, <2>1 DEF ExclOK
<1> QED BY <1>7, <1>8 DEF PInv

\* isc_task_setprivilege()
LEMMA SetprivilegeP ==
    ASSUME IInv, QInv, PInv, NEW th \in Threads, NEW t \in Tasks, NEW priv \in BOOLEAN,
           isc__task_setprivilege(th, t, priv)
    PROVE  PInv'
<1> DEFINE r == [op |-> "priv", task |-> t, flag |-> priv]
<1>1. /\ ~InSetprivilege(t) /\ CallersRefs(t) > 0
      /\ privileged' = [privileged EXCEPT ![t] = priv] /\ call' = [call EXCEPT ![th] = r]
      /\ UNCHANGED <<references, excl, pc>>
  BY DEF isc__task_setprivilege, mgrvars, mgrflags
<1>2. privileged \in [Tasks -> BOOLEAN]
  BY DEF QInv, TaskTypes
<1>3. r.op = "priv" /\ r.task = t /\ r.flag = priv
  OBVIOUS
<1> HIDE DEF r
<1>4. call'[th] = r /\ \A u \in Threads \ {th} : call'[u] = call[u]
  BY <1>1, ReferredIs
<1>5. ExclHeld' = ExclHeld /\ \A s \in Tasks : CallersRefs(s)' = CallersRefs(s)
  BY <1>1 DEF ExclHeld, CallersRefs
<1>6. \A u \in Threads : ~Privs(u, t)
  BY <1>1 DEF InSetprivilege, Privs
<1>7. privileged'[t] = priv /\ \A s \in Tasks \ {t} : privileged'[s] = privileged[s]
  BY <1>1, <1>2
<1>8. ASSUME NEW u \in Threads, NEW s \in Tasks, Privs(u, s)'
      PROVE  CallersRefs(s)' > 0 /\ call'[u].flag = privileged'[s]
  <2>1. CASE u = th
    BY <1>1, <1>3, <1>4, <1>5, <1>7, <1>8, <2>1 DEF Privs
  <2>2. CASE u # th
    <3>1. Privs(u, s) /\ s # t
      BY <1>4, <1>6, <1>8, <2>2 DEF Privs
    <3> QED BY <1>4, <1>5, <1>7, <2>2, <3>1 DEF PInv, PrivOK
  <2> QED BY <2>1, <2>2
<1>9. PrivOK'
  BY <1>8 DEF PrivOK
<1> QED BY <1>1, <1>5, <1>9 DEF PInv, ExclOK

\* isc_taskmgr_excltask()
LEMMA ExcltaskAttachP ==
    ASSUME IInv, QInv, PInv, NEW th \in Threads, excltask_attach(th)
    PROVE  PInv'
<1>1. /\ UNCHANGED <<excl, privileged, pc>>
      /\ \/ references' = references
         \/ references' = [references EXCEPT ![call[th].task] = @ + 1]
      /\ \/ call' = [call EXCEPT ![th] = NoCall]
         \/ call' = [call EXCEPT ![th].op = "stale"]
  BY DEF excltask_attach, mgrvars, mgrflags
<1>2. \A u \in Threads : call'[u] = call[u] \/ call'[u].op # "priv"
  <2>1. CASE call' = [call EXCEPT ![th] = NoCall]
    BY <2>1, ReferredIs
  <2>2. CASE call' = [call EXCEPT ![th].op = "stale"]
    <3>1. call[th] \in [op : CallKinds, task : Tasks, flag : BOOLEAN]
      BY ReferredIs DEF excltask_attach, Call
    <3>2. [call[th] EXCEPT !.op = "stale"].op = "stale"
      BY <3>1
    <3> QED BY <2>2, <3>2, ReferredIs
  <2> QED BY <1>1, <2>1, <2>2
<1>3. \A s \in Tasks : references[s] \in Nat /\ references'[s] \in Nat /\ references'[s] >= references[s]
  BY <1>1, ReferredIs
<1>4. ExclHeld' = ExclHeld
  BY <1>1 DEF ExclHeld
<1>5. \A s \in Tasks : CallersRefs(s) > 0 => CallersRefs(s)' > 0
  BY <1>1, <1>3, <1>4 DEF CallersRefs
<1>6. PrivOK'
  BY <1>1, <1>2, <1>5 DEF PInv, PrivOK, Privs
<1>7. ExclOK'
  BY <1>1, <1>3, <1>4, ReferredIs DEF PInv, ExclOK
<1> QED BY <1>6, <1>7 DEF PInv

\* The manager's reference goes, the pointer goes, and a new one comes.
LEMMA ExclP ==
    ASSUME IInv, QInv, PInv, NEW c \in Clients,
           \/ isc__taskmgr_setexcltask(c) \/ isc__taskmgr_destroy(c) \/ excl_clear(c)
           \/ \E t \in Tasks : setexcl_attach(c, t)
    PROVE  PInv'
<1>0. c \in Threads /\ pc \in [Threads -> WorkerPCs \cup ClientPCs]
  BY DEF IInv, PlacesOK, Placed, Threads
<1>1. CASE isc__taskmgr_setexcltask(c) \/ isc__taskmgr_destroy(c)
  <2>1. /\ InCode(c) /\ Alone(c) /\ UNCHANGED <<excl, privileged>>
        /\ DetachExcl(c, "setexcl", "newexcl") \/ DetachExcl(c, "exclear", "destroy")
    BY <1>1 DEF isc__taskmgr_setexcltask, isc__taskmgr_destroy, mgrvars, mgrflags
  <2>2. ExclHeld
    BY <2>1, AloneHeld
  <2>3. CASE excl = None
    <3>1. UNCHANGED <<references, call>> /\ \E x : pc' = [pc EXCEPT ![c] = x]
      BY <2>1, <2>3 DEF DetachExcl
    <3>2. Stays(pc, pc')
      BY <2>2 DEF Stays, ExclHeld
    <3> QED BY <2>1, <3>1, <3>2, SteadyP
  <2>4. CASE excl # None
    <3>0. PICK x \in Tasks : x = excl /\ references[x] > 0
      BY <2>2, <2>4, ReferredIs DEF PInv, ExclOK
    <3>1. /\ task_detach(c, x)
          /\ pc' = [pc EXCEPT ![c] = "setexcl"] \/ pc' = [pc EXCEPT ![c] = "exclear"]
      BY <2>1, <2>4, <3>0 DEF DetachExcl
    <3>2. ~ExclHeld'
      BY <1>0, <3>1 DEF ExclHeld
    <3>3. \A s \in Tasks : CallersRefs(s)' = CallersRefs(s)
      <4>1. \A s \in Tasks : CallersRefs(s)' = references'[s] - 0
        BY <3>2 DEF CallersRefs
      <4>2. \A s \in Tasks : references'[s] = IF s = x THEN references[s] - 1 ELSE references[s]
        BY <3>1, ReferredIs DEF task_detach
      <4>3. \A s \in Tasks : references[s] \in Nat /\ references'[s] \in Int
        BY <4>2, ReferredIs
      <4> QED BY <2>2, <3>0, <4>1, <4>2, <4>3 DEF CallersRefs
    <3>4. \A u \in Threads : call'[u] = call[u] \/ call'[u].op # "priv"
      <4> DEFINE r == [op |-> "ready", task |-> x, flag |-> FALSE]
      <4>1. r.op # "priv"
        OBVIOUS
      <4> HIDE DEF r
      <4>2. call' = call \/ call' = [call EXCEPT ![c] = r]
        BY <3>1 DEF task_detach, OwesReady, r
      <4> QED BY <1>0, <4>1, <4>2, ReferredIs
    <3>5. PrivOK'
      BY <2>1, <3>3, <3>4 DEF PInv, PrivOK, Privs
    <3> QED BY <3>2, <3>5 DEF PInv, ExclOK
  <2> QED BY <2>3, <2>4
<1>2. CASE excl_clear(c)
  <2>1. excl' = None /\ UNCHANGED <<references, call, privileged>>
    BY <1>2 DEF excl_clear, taskvars
  <2>2. \A s \in Tasks : CallersRefs(s) > 0 => CallersRefs(s)' > 0
    BY <2>1, ReferredIs DEF CallersRefs
  <2> QED BY <2>1, <2>2 DEF PInv, PrivOK, ExclOK, Privs
<1>3. ASSUME NEW t \in Tasks, setexcl_attach(c, t) PROVE PInv'
  <2>1. /\ excl' = t /\ UNCHANGED <<call, privileged>>
        /\ references' = [references EXCEPT ![t] = @ + 1]
    BY <1>3 DEF setexcl_attach
  <2>2. /\ \A s \in Tasks : references[s] \in Nat /\ references'[s] \in Nat
        /\ references'[t] = references[t] + 1
        /\ \A s \in Tasks \ {t} : references'[s] = references[s]
    BY <2>1, ReferredIs
  <2>3. \A s \in Tasks : CallersRefs(s) > 0 => CallersRefs(s)' > 0
    BY <2>1, <2>2 DEF CallersRefs
  <2>4. references'[excl'] > 0
    BY <2>1, <2>2
  <2> QED BY <2>1, <2>3, <2>4 DEF PInv, PrivOK, ExclOK, Privs
<1> QED BY <1>1, <1>2, <1>3

\* The calls that change no reference.
LEMMA TaskCallP ==
    ASSUME IInv, QInv, PInv, NEW th \in Threads, NEW t \in Tasks, TaskCall(th, t)
    PROVE  PInv'
<1> DEFINE r == [op |-> "ready", task |-> t, flag |-> FALSE]
<1>1. r.op # "priv"
  OBVIOUS
<1>2. Stays(pc, pc)
  BY DEF Stays
<1>3. ASSUME UNCHANGED <<references, excl, privileged, pc>>, call' = call \/ call' = [call EXCEPT ![th] = r]
      PROVE  PInv'
  <2> HIDE DEF r
  <2>1. \A u \in Threads : call'[u] = call[u] \/ call'[u].op # "priv"
    BY <1>1, <1>3, ReferredIs
  <2>2. Stays(pc, pc')
    BY <1>2, <1>3
  <2> QED BY <1>3, <2>1, <2>2, SteadyP
<1> USE DEF mgrvars, mgrflags, threads
<1>4. ASSUME NEW e \in Events, isc__task_send(th, t, e) PROVE PInv'
  BY <1>3, <1>4 DEF isc__task_send, OwesReady
<1>5. ASSUME NEW e \in Events, isc__task_purgeevent(th, t, e) \/ isc__task_onshutdown(th, t, e)
      PROVE  PInv'
  BY <1>3, <1>5 DEF isc__task_purgeevent, isc__task_onshutdown
<1>6. ASSUME NEW m \in SUBSET Events, isc__task_purgerange(th, t, m) \/ isc__task_unsendrange(th, t, m)
      PROVE  PInv'
  BY <1>3, <1>6 DEF isc__task_purgerange, isc__task_unsendrange
<1>7. CASE isc__task_shutdown(th, t)
  BY <1>3, <1>7 DEF isc__task_shutdown, OwesReady
<1>8. ASSUME NEW priv \in BOOLEAN, isc__task_setprivilege(th, t, priv) PROVE PInv'
  BY <1>8, SetprivilegeP
<1> QED BY <1>4, <1>5, <1>6, <1>7, <1>8, ReferP DEF TaskCall

\* The rest of a call.
LEMMA CallStepP ==
    ASSUME IInv, QInv, PInv, NEW th \in Threads, CallStep(th) \/ isc__taskmgr_excltask(th)
    PROVE  PInv'
<1>1. ASSUME UNCHANGED <<references, excl, privileged>>, Stays(pc, pc'),
             NEW r, r.op # "priv", call' = [call EXCEPT ![th] = r]
      PROVE  PInv'
  <2>1. \A u \in Threads : call'[u] = call[u] \/ call'[u].op # "priv"
    BY <1>1, ReferredIs
  <2> QED BY <1>1, <2>1, SteadyP
<1>2. Stays(pc, pc)
  BY DEF Stays
<1> USE DEF mgrvars, mgrflags, taskvars
<1>3. CASE task_ready(th)
  <2> DEFINE r == [op |-> "push", task |-> call[th].task, flag |-> privileged[call[th].task]]
  <2>1. r.op # "priv"
    OBVIOUS
  <2>2. UNCHANGED <<references, excl, privileged, pc>> /\ call' = [call EXCEPT ![th] = r]
    BY <1>3, ReferredIs DEF task_ready
  <2> HIDE DEF r
  <2> QED BY <1>1, <1>2, <2>1, <2>2
<1>4. CASE task_ready_push(th)
  <2>1. UNCHANGED <<references, excl, privileged>> /\ call' = [call EXCEPT ![th] = NoCall]
    BY <1>4 DEF task_ready_push
  <2>2. Stays(pc, pc')
    BY <1>4 DEF task_ready_push, Signal, Stays, IInv, PlacesOK, Placed, Threads
  <2> QED BY <1>1, <2>1, <2>2, ReferredIs
<1>5. CASE setprivilege_queue(th)
  BY <1>1, <1>2, <1>5, ReferredIs DEF setprivilege_queue
<1>6. CASE setprivilege_relink(th)
  <2> DEFINE r == [call[th] EXCEPT !.op = "relinked"]
  <2>1. call[th] \in [op : CallKinds, task : Tasks, flag : BOOLEAN]
    BY <1>6, ReferredIs DEF setprivilege_relink, Call
  <2>2. r.op # "priv" /\ call' = [call EXCEPT ![th] = r]
    BY <1>6, <2>1 DEF setprivilege_relink
  <2>3. UNCHANGED <<references, excl, privileged, pc>>
    BY <1>6 DEF setprivilege_relink
  <2> HIDE DEF r
  <2> QED BY <1>1, <1>2, <2>2, <2>3
<1>7. CASE isc__taskmgr_excltask(th)
  <2> DEFINE r == [op |-> "excl", task |-> excl, flag |-> FALSE]
  <2>1. r.op # "priv"
    OBVIOUS
  <2>2. UNCHANGED <<references, excl, privileged, pc>> /\ call' = [call EXCEPT ![th] = r]
    BY <1>7 DEF isc__taskmgr_excltask
  <2> HIDE DEF r
  <2> QED BY <1>1, <1>2, <2>1, <2>2
<1> QED BY <1>3, <1>4, <1>5, <1>6, <1>7, ExcltaskAttachP DEF CallStep

\* The workers, and the rest of the clients.
LEMMA WorkerP ==
    ASSUME IInv, QInv, PInv, NEW w \in Workers,
           \/ WorkerStep(w) \/ dispatch_next(w)
           \/ isc__task_beginexclusive(w) \/ isc__task_endexclusive(w)
           \/ \E m \in {"normal", "privileged"} : isc__taskmgr_setmode(w, m)
    PROVE  PInv'
<1>0. /\ w \in Threads /\ w \notin Clients /\ Placed(pc) /\ Clients \subseteq Threads
      /\ pc \in [Threads -> WorkerPCs \cup ClientPCs]
  BY ConstantAssumption DEF IInv, PlacesOK, Placed, Threads
<1>1. ASSUME NEW x PROVE Stays(pc, [pc EXCEPT ![w] = x])
  BY <1>0 DEF Stays
<1>2. ASSUME NEW p \in [Threads -> WorkerPCs \cup ClientPCs], NEW q,
             \/ q \in Signal(p, "exwait", "exwoken")
             \/ q \in Signal(p, "pausewait", "pausewoken")
             \/ q = Broadcast(p, "wait", "top")
             \/ q = p,
             Stays(pc, p)
      PROVE  Stays(pc, q)
  <2>1. \A th \in Threads : p[th] \in {"exclear", "setexcl"} => q[th] = p[th]
    BY <1>2 DEF Signal, Broadcast
  <2> QED BY <1>0, <1>2, <2>1 DEF Stays
<1>3. /\ UNCHANGED <<references, excl, privileged, call>>
  BY DEF WorkerStep, dispatch_exit, dispatch_wait, dispatch_pop, dispatch_start, dispatch_next,
         dispatch_loop, task_finished, dispatch_end, beginexclusive_woken, isc__task_beginexclusive,
         isc__task_endexclusive, isc__taskmgr_setmode, mgrvars, mgrflags, taskvars, threads
<1>4. Stays(pc, pc')
  <2>1. CASE task_finished(w) \/ isc__task_endexclusive(w)
    <3>1. PICK x \in {"end", "action"} : pc' \in {[pc EXCEPT ![w] = x], Broadcast([pc EXCEPT ![w] = x], "wait", "top")}
      BY <2>1 DEF task_finished, isc__task_endexclusive
    <3>2. [pc EXCEPT ![w] = x] \in [Threads -> WorkerPCs \cup ClientPCs]
      BY <1>0 DEF WorkerPCs
    <3> QED BY <1>1, <1>2, <3>1, <3>2
  <2>2. CASE dispatch_end(w)
    <3> DEFINE m == [pc EXCEPT ![w] = "top"]
    <3>1. PICK p \in EndSignal(m) : pc' = p \/ pc' = Broadcast(p, "wait", "top")
      BY <2>2 DEF dispatch_end
    <3>2. m \in [Threads -> WorkerPCs \cup ClientPCs] /\ Stays(pc, m)
      BY <1>0, <1>1 DEF WorkerPCs
    <3> HIDE DEF m
    <3>3. \/ p \in Signal(m, "exwait", "exwoken")
          \/ p \in Signal(m, "pausewait", "pausewoken")
          \/ p = m
      BY <3>1 DEF EndSignal
    <3>4. Stays(pc, p)
      BY <1>2, <3>2, <3>3
    <3>5. p \in [Threads -> WorkerPCs \cup ClientPCs]
      BY <3>2, <3>3 DEF Signal, WorkerPCs, ClientPCs
    <3> QED BY <1>2, <3>1, <3>4, <3>5
  <2>3. CASE ~task_finished(w) /\ ~isc__task_endexclusive(w) /\ ~dispatch_end(w)
    <3>1. pc' = pc \/ \E x : pc' = [pc EXCEPT ![w] = x]
      BY <2>3
      DEF WorkerStep, dispatch_exit, dispatch_wait, dispatch_pop, dispatch_start, dispatch_next,
         dispatch_loop, beginexclusive_woken, isc__task_beginexclusive, AwaitExclusive,
         isc__taskmgr_setmode, threads
    <3> QED BY <1>1, <3>1 DEF Stays
  <2> QED BY <2>1, <2>2, <2>3
<1> QED BY <1>3, <1>4, SteadyP

LEMMA ClientP ==
    ASSUME IInv, QInv, PInv,
           \/ \E th \in Threads : SpuriousWakeup(th)
           \/ \E c \in Clients :
                 \/ isc__taskmgr_pause(c) \/ isc__taskmgr_resume(c)
                 \/ destroy_begin(c) \/ destroy_unlock(c) \/ destroy_join(c)
                 \/ \E t \in Tasks : destroy_walk(c, t)
           \/ UNCHANGED vars
    PROVE  PInv'
<1>0. Clients \subseteq Threads /\ pc \in [Threads -> WorkerPCs \cup ClientPCs]
      /\ \A c \in Clients : pc[c] \in ClientPCs
  BY DEF IInv, PlacesOK, Placed, Threads
<1>1. UNCHANGED <<references, excl, privileged, call>>
  BY DEF SpuriousWakeup, isc__taskmgr_pause, isc__taskmgr_resume, PauseLoop, destroy_begin,
         destroy_unlock, destroy_join, destroy_walk, vars, mgrvars, mgrflags, taskvars, threads
<1>2. ASSUME NEW th \in Threads, SpuriousWakeup(th) PROVE Stays(pc, pc')
  BY <1>0, <1>2 DEF SpuriousWakeup, Stays
<1>3. ASSUME NEW c \in Clients, isc__taskmgr_pause(c) \/ isc__taskmgr_resume(c) PROVE Stays(pc, pc')
  <2>1. CASE isc__taskmgr_resume(c)
    BY <1>0, <2>1 DEF isc__taskmgr_resume, Broadcast, Stays
  <2>2. CASE isc__taskmgr_pause(c)
    BY <1>0, <2>2 DEF isc__taskmgr_pause, PauseLoop, InCode, Stays
  <2> QED BY <1>3, <2>1, <2>2
<1>4. ASSUME NEW c \in Clients, destroy_begin(c) \/ destroy_unlock(c) \/ destroy_join(c)
      PROVE  Stays(pc, pc')
  BY <1>0, <1>4 DEF destroy_begin, destroy_unlock, destroy_join, Broadcast, Stays
<1>5. ASSUME pc' = pc PROVE Stays(pc, pc')
  BY <1>5 DEF Stays
<1>6. Stays(pc, pc')
  BY <1>2, <1>3, <1>4, <1>5 DEF destroy_walk, vars, threads
<1> QED BY <1>1, <1>6, SteadyP

LEMMA NextPInv ==
    ASSUME IInv, QInv, PInv, [Next]_vars
    PROVE  PInv'
  BY TaskCallP, CallStepP, WorkerP, ClientP, ExclP DEF Next, DestroyStep

-----------------------------------------------------------------------------
(* What the invariant says. *)

\* The variables keep their types.
LEMMA QInvTypes ==
    ASSUME IInv, QInv
    PROVE  TypeOK
<1>1. tasks_running \in Nat
  BY BusyFinite DEF IInv, RunningCounted, Busy
<1>2. /\ pc \in [Threads -> WorkerPCs \cup ClientPCs]
      /\ \A w \in Workers : pc[w] \in WorkerPCs
      /\ \A c \in Clients : pc[c] \in ClientPCs
      /\ exclusive_requested \in BOOLEAN
  BY DEF IInv, PlacesOK, Placed
<1>3. call \in [Threads -> [op : CallOps, task : Tasks \cup {None}, flag : BOOLEAN]]
  <2>1. Call \subseteq [op : CallOps, task : Tasks \cup {None}, flag : BOOLEAN]
    <3>1. NoCall \in [op : CallOps, task : Tasks \cup {None}, flag : BOOLEAN]
      BY DEF NoCall, CallOps
    <3>2. [op : CallKinds, task : Tasks, flag : BOOLEAN]
            \subseteq [op : CallOps, task : Tasks \cup {None}, flag : BOOLEAN]
      BY DEF CallOps, CallKinds
    <3> QED BY <3>1, <3>2 DEF Call
  <2> QED BY <2>1 DEF QInv, ThreadTypes
<1>4. TaskTypes /\ ManagerTypes /\ ThreadTypes
  BY DEF QInv
<1> QED BY <1>1, <1>2, <1>3, <1>4 DEF TypeOK, SchedulerOK, TaskTypes, ManagerTypes, ThreadTypes

LEMMA QInvScheduled ==
    ASSUME IInv, QInv
    PROVE  ScheduledOnce
<1>1. TypeOK
  BY QInvTypes
<1>2. \A i, j \in DOMAIN ready_tasks : ready_tasks[i] = ready_tasks[j] => i = j
  BY DEF QInv, Lists, Distinct
<1>3. ASSUME NEW t \in Tasks
      PROVE  LET places == (IF Linked(ready_tasks, t) THEN {<<"queue", None>>} ELSE {})
                         \cup {<<"owed", th>> : th \in {u \in Threads : Owes(u, t)}}
                         \cup {<<"held", w>> : w \in {v \in Workers : Carries(v, t)}}
             IN  /\ Cardinality(places) = IF state[t] = "ready" THEN 1 ELSE 0
                 /\ state[t] \in {"unborn", "idle"} => events[t] = <<>>
  <2> DEFINE Q == IF Linked(ready_tasks, t) THEN {<<"queue", None>>} ELSE {}
             O == {<<"owed", th>> : th \in {u \in Threads : Owes(u, t)}}
             H == {<<"held", w>> : w \in {v \in Workers : Carries(v, t)}}
  <2>1. Life(t)
    BY DEF QInv
  <2>2. /\ \A x : x \in Q <=> InQueue(t) /\ x = <<"queue", None>>
        /\ \A x : x \in O <=> \E th \in Threads : Owes(th, t) /\ x = <<"owed", th>>
        /\ \A x : x \in H <=> \E w \in Workers : Carries(w, t) /\ x = <<"held", w>>
    BY DEF InQueue
  <2> HIDE DEF Q, O, H
  <2>3. CASE state[t] # "ready"
    <3>1. Q \cup O \cup H = {}
      BY <2>1, <2>2, <2>3 DEF Life
    <3> QED BY <2>1, <2>3, <3>1, FS_EmptySet DEF Life, Q, O, H
  <2>4. CASE state[t] = "ready"
    <3>1. \E x : Q \cup O \cup H = {x}
      <4>1. CASE InQueue(t)
        <5>1. Q \cup O \cup H = {<<"queue", None>>}
          BY <2>1, <2>2, <4>1 DEF Life
        <5> QED BY <5>1
      <4>2. ASSUME NEW th \in Threads, Owes(th, t)
            PROVE  \E x : Q \cup O \cup H = {x}
        <5>1. Q \cup O \cup H = {<<"owed", th>>}
          BY <2>1, <2>2, <4>2 DEF Life
        <5> QED BY <5>1
      <4>3. ASSUME NEW w \in Workers, Carries(w, t)
            PROVE  \E x : Q \cup O \cup H = {x}
        <5>1. Q \cup O \cup H = {<<"held", w>>}
          BY <2>1, <2>2, <4>3 DEF Life
        <5> QED BY <5>1
      <4> QED BY <2>1, <2>4, <4>1, <4>2, <4>3 DEF Life
    <3>2. Cardinality(Q \cup O \cup H) = 1
      BY <3>1, FS_Singleton
    <3> QED BY <2>4, <3>2 DEF Q, O, H
  <2> QED BY <2>3, <2>4
<1> QED BY <1>1, <1>2, <1>3 DEF ScheduledOnce

LEMMA QInvAllocated ==
    ASSUME IInv, QInv, PInv
    PROVE  NoUseAfterFree
<1>1. tasks = {t \in Tasks : state[t] \notin {"unborn", "freed"}}
  BY DEF QInv, ManagerTypes, Life
<1>2. \A t \in Tasks : references[t] > 0 => state[t] \in {"idle", "ready", "running"}
  BY DEF QInv, Life
<1>3. ASSUME NEW i \in DOMAIN ready_priority_tasks PROVE ready_priority_tasks[i] \in tasks
  <2>1. PICK t \in Tasks : t = ready_priority_tasks[i]
    BY DEF QInv, ManagerTypes
  <2>2. InPriority(t)
    BY <2>1 DEF InPriority, Linked
  <2> QED BY <2>1, <2>2 DEF QInv, Life, Privilege
<1>4. ASSUME NEW w \in Workers, pc[w] \in BusyPCs \ {"end"} PROVE cur[w] \in tasks
  <2>1. PICK t \in Tasks : t = cur[w]
    BY <1>4 DEF QInv, Pointers, ThreadTypes
  <2>2. Carries(w, t) \/ Runs(w, t) \/ Finishes(w, t)
    BY <1>4, <2>1 DEF BusyPCs, Carries, Runs, Finishes
  <2> QED BY <2>1, <2>2 DEF QInv, Life
<1>5. excl # None /\ ExclHeld => references[excl] > 0
  BY DEF PInv, ExclOK
<1> QED BY <1>1, <1>2, <1>3, <1>4, <1>5 DEF NoUseAfterFree

LEMMA QInvPriority ==
    ASSUME QInv
    PROVE  PrioritySublist
  BY DEF QInv, Lists, Distinct, Privilege, Privs, InQueue, InPriority, PrioritySublist,
         InSetprivilege

LEMMA QInvDestroyed ==
    ASSUME IInv, QInv, PInv
    PROVE  DestroyedIsEmpty
<1>1. exiting => \A t \in tasks \ walk : shuttingdown[t]
  BY DEF QInv, Destroying
<1>2. ASSUME NEW c \in Clients, pc[c] = "destroyed"
      PROVE  /\ tasks = {} /\ ready_tasks = <<>> /\ tasks_running = 0
             /\ \A th \in Threads : call[th].op \notin {"ready", "push", "priv"}
  <2>1. \A w \in Workers : pc[w] = "exited"
    BY <1>2 DEF QInv, Destroying
  <2>2. tasks = {}
    BY <2>1, ConstantAssumption DEF QInv, Destroying
  <2>3. \A t \in Tasks : state[t] \in {"unborn", "freed"}
    BY <2>2 DEF QInv, Life
  <2>4. ready_tasks = <<>>
    <3>1. ready_tasks \in Seq(Tasks)
      BY DEF QInv, ManagerTypes
    <3>2. ASSUME ready_tasks # <<>> PROVE FALSE
      <4>1. Head(ready_tasks) \in Tasks /\ InQueue(Head(ready_tasks))
        BY <3>1, <3>2, HeadLinked DEF InQueue
      <4> QED BY <2>3, <4>1 DEF QInv, Life
    <3> QED BY <3>2
  <2>5. tasks_running = 0
    <3>1. {w \in Workers : pc[w] \in BusyPCs} = {}
      BY <2>1 DEF BusyPCs, ActionPCs
    <3> QED BY <3>1, FS_EmptySet DEF IInv, RunningCounted
  <2>6. ASSUME NEW th \in Threads, call[th].op \in {"ready", "push", "priv"} PROVE FALSE
    <3>1. PICK t \in Tasks : t = call[th].task
      BY <2>6 DEF QInv, ThreadTypes, Call, NoCall
    <3>2. Owes(th, t) \/ Privs(th, t)
      BY <2>6, <3>1 DEF Owes, Privs
    <3>3. ~Owes(th, t)
      BY <2>3 DEF QInv, Life
    <3>4. ~(references[t] > 0) /\ references[t] \in Nat
      BY <2>3 DEF QInv, Life, TaskTypes
    <3>5. ~(CallersRefs(t) > 0)
      BY <3>4 DEF CallersRefs
    <3> QED BY <3>2, <3>3, <3>5 DEF PInv, PrivOK
  <2> QED BY <2>2, <2>4, <2>5, <2>6
<1> QED BY <1>1, <1>2 DEF DestroyedIsEmpty

-----------------------------------------------------------------------------
(* IscTask implements TaskSpec. *)

\* The refinement mapping's functions: is the task allocated, and who runs it.
Alive  == [t \in Tasks |-> IF state[t] \in {"unborn", "freed"} THEN state[t] ELSE "alive"]
Runner == [t \in Tasks |-> {w \in Workers : pc[w] \in ActionPCs /\ cur[w] = t}]

LEMMA MappingIs ==
    /\ Abstract!Init <=> /\ Alive = [t \in Tasks |-> "unborn"]
                         /\ references = [t \in Tasks |-> 0]
                         /\ events = [t \in Tasks |-> <<>>]
                         /\ on_shutdown = [t \in Tasks |-> <<>>]
                         /\ shuttingdown = [t \in Tasks |-> FALSE]
                         /\ Runner = [t \in Tasks |-> {}]
                         /\ unsent = Events
  BY DEF Abstract!Init, Alive, Runner

LEMMA InitRefines ==
    ASSUME Init
    PROVE  Abstract!Init
<1>1. Alive = [t \in Tasks |-> "unborn"]
  BY DEF Init, Alive
<1>2. \A w \in Workers : pc[w] \notin ActionPCs
  BY DEF Init, Threads, ActionPCs
<1>3. Runner = [t \in Tasks |-> {}]
  BY <1>2 DEF Runner
<1> QED BY <1>1, <1>3, MappingIs DEF Init

\* A step that leaves a task as allocated and its events executed where they were.
LEMMA AliveKept ==
    ASSUME \A t \in Tasks : \/ state'[t] = state[t]
                            \/ {state'[t], state[t]} \cap {"unborn", "freed"} = {}
    PROVE  Alive' = Alive
  BY DEF Alive

LEMMA RunnerKept ==
    ASSUME \A t \in Tasks, w \in Workers : Runs(w, t)' <=> Runs(w, t)
    PROVE  Runner' = Runner
  BY DEF Runner, Runs

LEMMA StutterRefines ==
    ASSUME Alive' = Alive, Runner' = Runner,
           UNCHANGED <<references, events, on_shutdown, shuttingdown, unsent>>
    PROVE  UNCHANGED Abstract!vars
  BY DEF Abstract!vars, Alive, Runner

\* Who may use a task: as TaskSpec has it.
Usable(t) == Alive[t] = "alive" /\ (references[t] > 0 \/ Runner[t] # {})

\* A task gains a reference or loses one.
LEMMA ReferRefines ==
    ASSUME Alive' = Alive, Runner' = Runner,
           UNCHANGED <<events, on_shutdown, shuttingdown, unsent>>,
           NEW t \in Tasks,
           \/ Usable(t) /\ references' = [references EXCEPT ![t] = @ + 1]
           \/ references[t] > 0 /\ references' = [references EXCEPT ![t] = @ - 1]
    PROVE  Abstract!Next
<1>1. Usable(t) => Abstract!Usable(t)
  BY DEF Usable, Abstract!Usable, Alive, Runner
<1>2. Abstract!Refer
  BY <1>1 DEF Abstract!Refer, Alive, Runner
<1> QED BY <1>2 DEF Abstract!Next

LEMMA HoldsUsable ==
    ASSUME IInv, QInv, NEW th \in Threads, NEW t \in Tasks, Holds(th, t)
    PROVE  Usable(t)
<1>1. state[t] \in {"idle", "ready", "running"} /\ (references[t] > 0 \/ (th \in Workers /\ Runs(th, t)))
  BY HoldsIs
<1> QED BY <1>1 DEF Usable, Alive, Runner, Runs

\* The actions of TaskSpec under the mapping.
LEMMA Steps ==
    ASSUME NEW t \in Tasks
    PROVE  /\ Abstract!Create(t) <=>
                /\ Alive[t] = "unborn" /\ Alive' = [Alive EXCEPT ![t] = "alive"]
                /\ references' = [references EXCEPT ![t] = 1]
                /\ Runner' = Runner /\ UNCHANGED <<events, on_shutdown, shuttingdown, unsent>>
           /\ \A e, drop : Abstract!Send(t, e, drop) <=>
                /\ Usable(t) /\ e \in unsent /\ drop \in {0, 1} /\ drop <= references[t]
                /\ events' = [events EXCEPT ![t] = Append(@, e)]
                /\ unsent' = unsent \ {e}
                /\ references' = [references EXCEPT ![t] = @ - drop]
                /\ Alive' = Alive /\ Runner' = Runner /\ UNCHANGED <<on_shutdown, shuttingdown>>
           /\ \A gone : Abstract!Withdraw(t, gone) <=>
                /\ Usable(t) /\ events' = [events EXCEPT ![t] = Without(@, gone)]
                /\ \/ gone \cap NoPurge = {} /\ unsent' = unsent
                   \/ unsent' = unsent \cup gone
                /\ Alive' = Alive /\ Runner' = Runner
                /\ UNCHANGED <<references, on_shutdown, shuttingdown>>
           /\ \A e : Abstract!Purge(t, e) <=>
                /\ Usable(t) /\ Linked(events[t], e) /\ e \notin NoPurge
                /\ events' = [events EXCEPT ![t] = Dequeue(@, e)]
                /\ Alive' = Alive /\ Runner' = Runner
                /\ UNCHANGED <<references, on_shutdown, shuttingdown, unsent>>
           /\ \A e : Abstract!Register(t, e) <=>
                /\ Usable(t) /\ ~shuttingdown[t] /\ e \in unsent
                /\ on_shutdown' = [on_shutdown EXCEPT ![t] = Append(@, e)]
                /\ unsent' = unsent \ {e}
                /\ Alive' = Alive /\ Runner' = Runner
                /\ UNCHANGED <<references, events, shuttingdown>>
           /\ Abstract!Shutdown(t) <=>
                /\ Alive[t] = "alive" /\ ~shuttingdown[t]
                /\ events' = [events EXCEPT ![t] = @ \o Reverse(on_shutdown[t])]
                /\ on_shutdown' = [on_shutdown EXCEPT ![t] = <<>>]
                /\ shuttingdown' = [shuttingdown EXCEPT ![t] = TRUE]
                /\ Alive' = Alive /\ Runner' = Runner /\ UNCHANGED <<references, unsent>>
           /\ Abstract!Free(t) <=>
                /\ Alive[t] = "alive" /\ references[t] = 0 /\ shuttingdown[t]
                /\ events[t] = <<>> /\ on_shutdown[t] = <<>> /\ Runner[t] = {}
                /\ Alive' = [Alive EXCEPT ![t] = "freed"]
                /\ Runner' = Runner
                /\ UNCHANGED <<references, events, on_shutdown, shuttingdown, unsent>>
<1>1. Abstract!Usable(t) <=> Usable(t)
  BY DEF Abstract!Usable, Usable, Alive, Runner
<1>2. Abstract!Create(t) <=>
                /\ Alive[t] = "unborn" /\ Alive' = [Alive EXCEPT ![t] = "alive"]
                /\ references' = [references EXCEPT ![t] = 1]
                /\ Runner' = Runner /\ UNCHANGED <<events, on_shutdown, shuttingdown, unsent>>
  BY DEF Abstract!Create, Alive, Runner
<1>3. ASSUME NEW e, NEW drop
      PROVE  Abstract!Send(t, e, drop) <=>
                /\ Usable(t) /\ e \in unsent /\ drop \in {0, 1} /\ drop <= references[t]
                /\ events' = [events EXCEPT ![t] = Append(@, e)]
                /\ unsent' = unsent \ {e}
                /\ references' = [references EXCEPT ![t] = @ - drop]
                /\ Alive' = Alive /\ Runner' = Runner /\ UNCHANGED <<on_shutdown, shuttingdown>>
  BY <1>1 DEF Abstract!Send, Alive, Runner
<1>4. ASSUME NEW gone
      PROVE  Abstract!Withdraw(t, gone) <=>
                /\ Usable(t) /\ events' = [events EXCEPT ![t] = Without(@, gone)]
                /\ \/ gone \cap NoPurge = {} /\ unsent' = unsent
                   \/ unsent' = unsent \cup gone
                /\ Alive' = Alive /\ Runner' = Runner
                /\ UNCHANGED <<references, on_shutdown, shuttingdown>>
  BY <1>1 DEF Abstract!Withdraw, Alive, Runner, Without, Abstract!Without
<1>9. ASSUME NEW q, NEW e
      PROVE  Abstract!Dequeue(q, e) = Dequeue(q, e) /\ (Abstract!Linked(q, e) <=> Linked(q, e))
  BY DEF Dequeue, Linked, RemoveAt, Abstract!Dequeue, Abstract!Linked, Abstract!RemoveAt
<1>5. ASSUME NEW e
      PROVE  Abstract!Purge(t, e) <=>
                /\ Usable(t) /\ Linked(events[t], e) /\ e \notin NoPurge
                /\ events' = [events EXCEPT ![t] = Dequeue(@, e)]
                /\ Alive' = Alive /\ Runner' = Runner
                /\ UNCHANGED <<references, on_shutdown, shuttingdown, unsent>>
  BY <1>1, <1>9 DEF Abstract!Purge, Alive, Runner
<1>6. ASSUME NEW e
      PROVE  Abstract!Register(t, e) <=>
                /\ Usable(t) /\ ~shuttingdown[t] /\ e \in unsent
                /\ on_shutdown' = [on_shutdown EXCEPT ![t] = Append(@, e)]
                /\ unsent' = unsent \ {e}
                /\ Alive' = Alive /\ Runner' = Runner
                /\ UNCHANGED <<references, events, shuttingdown>>
  BY <1>1 DEF Abstract!Register, Alive, Runner
<1>7. Abstract!Shutdown(t) <=>
                /\ Alive[t] = "alive" /\ ~shuttingdown[t]
                /\ events' = [events EXCEPT ![t] = @ \o Reverse(on_shutdown[t])]
                /\ on_shutdown' = [on_shutdown EXCEPT ![t] = <<>>]
                /\ shuttingdown' = [shuttingdown EXCEPT ![t] = TRUE]
                /\ Alive' = Alive /\ Runner' = Runner /\ UNCHANGED <<references, unsent>>
  BY <1>1 DEF Abstract!Shutdown, Alive, Runner, Abstract!Reverse, Reverse
<1>8. Abstract!Free(t) <=>
                /\ Alive[t] = "alive" /\ references[t] = 0 /\ shuttingdown[t]
                /\ events[t] = <<>> /\ on_shutdown[t] = <<>> /\ Runner[t] = {}
                /\ Alive' = [Alive EXCEPT ![t] = "freed"]
                /\ Runner' = Runner
                /\ UNCHANGED <<references, events, on_shutdown, shuttingdown, unsent>>
  BY DEF Abstract!Free, Alive, Runner
<1> QED BY <1>2, <1>3, <1>4, <1>5, <1>6, <1>7, <1>8

\* A step that moves no worker into or out of an event action.
LEMMA SamePlaces ==
    ASSUME \A w \in Workers : \/ cur'[w] = cur[w] /\ (pc'[w] \in ActionPCs <=> pc[w] \in ActionPCs)
                              \/ pc[w] \notin ActionPCs /\ pc'[w] \notin ActionPCs
    PROVE  Runner' = Runner
<1>1. \A t \in Tasks, w \in Workers : Runs(w, t)' <=> Runs(w, t)
  BY DEF Runs
<1> QED BY <1>1, RunnerKept

\* The calls on a task.
LEMMA TaskCallRefines ==
    ASSUME IInv, QInv, NEW th \in Threads, NEW t \in Tasks, TaskCall(th, t)
    PROVE  Abstract!Next \/ UNCHANGED Abstract!vars
<1> USE DEF mgrvars, mgrflags, threads
<1>0. /\ references \in [Tasks -> Nat] /\ shuttingdown \in [Tasks -> BOOLEAN] /\ EventsOK
      /\ state \in [Tasks -> {"unborn", "idle", "ready", "running", "done", "freed"}]
      /\ None \notin Tasks
      /\ \A u \in Tasks : CanDrop(u) => references[u] > 0
  BY ConstantAssumption DEF QInv, TaskTypes, ManagerTypes, CanDrop, CallersRefs
<1>1. ASSUME pc' = pc, cur' = cur PROVE Runner' = Runner
  BY <1>1, SamePlaces
<1>2. ASSUME NEW u \in Tasks,
             \/ state' = state
             \/ state[u] \in {"idle"} /\ state' = [state EXCEPT ![u] = "ready"]
      PROVE  Alive' = Alive
  BY <1>0, <1>2, AliveKept
<1>3. CASE isc__task_create(th, t)
  <2>1. /\ state[t] = "unborn" /\ state' = [state EXCEPT ![t] = "idle"]
        /\ references' = [references EXCEPT ![t] = 1] /\ pc' = pc /\ cur' = cur
        /\ UNCHANGED <<events, on_shutdown, shuttingdown, unsent>>
    BY <1>3 DEF isc__task_create
  <2>2. Alive[t] = "unborn" /\ Alive' = [Alive EXCEPT ![t] = "alive"]
    BY <1>0, <2>1 DEF Alive
  <2>3. Abstract!Create(t)
    BY <1>1, <2>1, <2>2, Steps
  <2> QED BY <2>3 DEF Abstract!Next
<1>4. CASE isc__task_attach(th, t) \/ isc__task_detach(th, t)
  <2>1. Usable(t) /\ pc' = pc /\ cur' = cur /\ UNCHANGED <<events, on_shutdown, shuttingdown, unsent>>
    BY <1>4, HoldsUsable DEF isc__task_attach, isc__task_detach
  <2>2. \/ state' = state /\ references' = [references EXCEPT ![t] = @ + 1]
        \/ /\ CanDrop(t) /\ references' = [references EXCEPT ![t] = @ - 1]
           /\ \/ state' = state
              \/ state[t] \in {"idle"} /\ state' = [state EXCEPT ![t] = "ready"]
    BY <1>4 DEF isc__task_attach, isc__task_detach, task_detach
  <2>3. Runner' = Runner /\ Alive' = Alive
    BY <1>1, <1>2, <2>1, <2>2
  <2> QED BY <1>0, <2>1, <2>2, <2>3, ReferRefines
<1>5. ASSUME NEW e \in Events, isc__task_send(th, t, e) \/ isc__task_sendanddetach(th, t, e)
      PROVE  Abstract!Next
  <2>1. Usable(t) /\ pc' = pc /\ cur' = cur /\ UNCHANGED <<on_shutdown, shuttingdown>>
    BY <1>5, HoldsUsable DEF isc__task_send, isc__task_sendanddetach
  <2>2. /\ e \in unsent /\ unsent' = unsent \ {e}
        /\ events' = [events EXCEPT ![t] = Append(@, e)]
        /\ \/ state' = state
           \/ state[t] \in {"idle"} /\ state' = [state EXCEPT ![t] = "ready"]
    BY <1>5 DEF isc__task_send, isc__task_sendanddetach, task_send
  <2>3. Runner' = Runner /\ Alive' = Alive
    BY <1>1, <1>2, <2>1, <2>2
  <2>4. PICK drop \in {0, 1} : drop <= references[t] /\ references' = [references EXCEPT ![t] = @ - drop]
    <3>1. CASE isc__task_send(th, t, e)
      <4>1. references' = references
        BY <3>1 DEF isc__task_send
      <4>2. references = [references EXCEPT ![t] = @ - 0] /\ 0 <= references[t]
        BY <1>0
      <4> QED BY <4>1, <4>2
    <3>2. CASE isc__task_sendanddetach(th, t, e)
      <4>1. CanDrop(t) /\ references' = [references EXCEPT ![t] = @ - 1]
        BY <3>2 DEF isc__task_sendanddetach
      <4>2. 1 <= references[t]
        BY <1>0, <4>1
      <4> QED BY <4>1, <4>2
    <3> QED BY <1>5, <3>1, <3>2
  <2>5. Abstract!Send(t, e, drop)
    BY <2>1, <2>2, <2>3, <2>4, Steps
  <2> QED BY <2>5 DEF Abstract!Next
<1>6. ASSUME NEW e \in Events, isc__task_purgeevent(th, t, e)
      PROVE  Abstract!Next
  <2>1. /\ Usable(t) /\ pc' = pc /\ cur' = cur /\ state' = state
        /\ UNCHANGED <<references, on_shutdown, shuttingdown, unsent>>
    BY <1>6, HoldsUsable DEF isc__task_purgeevent
  <2>2. /\ Linked(events[t], e) /\ e \notin NoPurge
        /\ events' = [events EXCEPT ![t] = Dequeue(@, e)]
    BY <1>6 DEF isc__task_purgeevent
  <2>3. Runner' = Runner /\ Alive' = Alive
    BY <1>1, <1>2, <2>1
  <2>4. Abstract!Purge(t, e)
    BY <2>1, <2>2, <2>3, Steps
  <2> QED BY <2>4 DEF Abstract!Next
<1>7. ASSUME NEW e \in Events, isc__task_onshutdown(th, t, e)
      PROVE  Abstract!Next
  <2>1. /\ Usable(t) /\ pc' = pc /\ cur' = cur /\ state' = state
        /\ UNCHANGED <<references, events, shuttingdown>>
    BY <1>7, HoldsUsable DEF isc__task_onshutdown
  <2>2. /\ ~shuttingdown[t] /\ e \in unsent /\ unsent' = unsent \ {e}
        /\ on_shutdown' = [on_shutdown EXCEPT ![t] = Append(@, e)]
    BY <1>7 DEF isc__task_onshutdown
  <2>3. Runner' = Runner /\ Alive' = Alive
    BY <1>1, <1>2, <2>1
  <2>4. Abstract!Register(t, e)
    BY <2>1, <2>2, <2>3, Steps
  <2> QED BY <2>4 DEF Abstract!Next
<1>8. ASSUME NEW match \in SUBSET Events, NEW b \in BOOLEAN, Holds(th, t), dequeue_events(t, match, b),
             UNCHANGED <<pc, cur, state, references, on_shutdown, shuttingdown>>
      PROVE  Abstract!Next
  <2> DEFINE gone == {e \in match : Linked(events[t], e) /\ (b => e \notin NoPurge)}
  <2>1. /\ events' = [events EXCEPT ![t] = Without(@, gone)]
        /\ unsent' = IF b THEN unsent ELSE unsent \cup gone
    BY <1>8 DEF dequeue_events
  <2>2. gone \in SUBSET Abstract!ToSet(events[t])
    BY DEF Abstract!ToSet, Linked
  <2>3. b => gone \cap NoPurge = {}
    OBVIOUS
  <2> HIDE DEF gone
  <2>4. Runner' = Runner /\ Alive' = Alive /\ Usable(t)
    BY <1>1, <1>2, <1>8, HoldsUsable
  <2>5. Abstract!Withdraw(t, gone)
    BY <1>8, <2>1, <2>3, <2>4, Steps
  <2> QED BY <2>2, <2>5 DEF Abstract!Next
<1>9. ASSUME NEW match \in SUBSET Events,
             isc__task_purgerange(th, t, match) \/ isc__task_unsendrange(th, t, match)
      PROVE  Abstract!Next
  BY <1>8, <1>9 DEF isc__task_purgerange, isc__task_unsendrange
<1>10. CASE isc__task_shutdown(th, t)
  <2>1. /\ Usable(t) /\ pc' = pc /\ cur' = cur /\ ~shuttingdown[t] /\ task_shutdown(t)
        /\ UNCHANGED <<references, unsent>>
    BY <1>10, HoldsUsable DEF isc__task_shutdown
  <2>2. /\ events' = [events EXCEPT ![t] = @ \o Reverse(on_shutdown[t])]
        /\ on_shutdown' = [on_shutdown EXCEPT ![t] = <<>>]
        /\ shuttingdown' = [shuttingdown EXCEPT ![t] = TRUE]
        /\ \/ state' = state
           \/ state[t] \in {"idle"} /\ state' = [state EXCEPT ![t] = "ready"]
    BY <2>1 DEF task_shutdown
  <2>3. Runner' = Runner /\ Alive' = Alive
    BY <1>1, <1>2, <2>1, <2>2
  <2>4. Abstract!Shutdown(t)
    BY <2>1, <2>2, <2>3, Steps DEF Usable
  <2> QED BY <2>4 DEF Abstract!Next
<1>11. ASSUME NEW priv \in BOOLEAN, isc__task_setprivilege(th, t, priv)
       PROVE  UNCHANGED Abstract!vars
  <2>1. UNCHANGED <<state, references, events, on_shutdown, shuttingdown, unsent, pc, cur>>
    BY <1>11 DEF isc__task_setprivilege
  <2> QED BY <1>1, <1>2, <2>1, StutterRefines
<1> QED BY <1>3, <1>4, <1>5, <1>6, <1>7, <1>9, <1>10, <1>11 DEF TaskCall

\* Steps that change nothing a user of the tasks sees.
LEMMA HiddenRefines ==
    ASSUME IInv, QInv,
           \/ \E th \in Threads :
                 \/ task_ready(th) \/ task_ready_push(th)
                 \/ setprivilege_queue(th) \/ setprivilege_relink(th)
                 \/ isc__taskmgr_excltask(th) \/ SpuriousWakeup(th)
           \/ \E w \in Workers :
                 \/ dispatch_exit(w) \/ dispatch_wait(w) \/ dispatch_pop(w) \/ dispatch_end(w)
                 \/ beginexclusive_woken(w)
                 \/ isc__task_beginexclusive(w) \/ isc__task_endexclusive(w)
                 \/ \E m \in {"normal", "privileged"} : isc__taskmgr_setmode(w, m)
           \/ \E c \in Clients :
                 \/ isc__taskmgr_pause(c) \/ isc__taskmgr_resume(c)
                 \/ excl_clear(c)
                 \/ destroy_begin(c) \/ destroy_unlock(c) \/ destroy_join(c)
    PROVE  UNCHANGED Abstract!vars
<1> USE DEF mgrvars, mgrflags, threads, taskvars
<1>0. Placed(pc) /\ pc \in [Threads -> WorkerPCs \cup ClientPCs]
  BY DEF IInv, PlacesOK, Placed
<1>1. ASSUME \A w \in Workers : Alike(pc, pc', w), cur' = cur,
             UNCHANGED <<state, references, events, on_shutdown, shuttingdown, unsent>>
      PROVE  UNCHANGED Abstract!vars
  <2>1. Runner' = Runner
    BY <1>1, SamePlaces DEF Alike
  <2>2. Alive' = Alive
    BY <1>1, AliveKept
  <2> QED BY <1>1, <2>1, <2>2, StutterRefines
<1>2. ASSUME NEW w \in Workers, cur \in [Workers -> Tasks \cup {None}],
             \E x : cur' = [cur EXCEPT ![w] = x],
             pc[w] \notin ActionPCs, pc'[w] \notin ActionPCs,
             \A v \in Workers \ {w} : Alike(pc, pc', v),
             UNCHANGED <<state, references, events, on_shutdown, shuttingdown, unsent>>
      PROVE  UNCHANGED Abstract!vars
  <2>1. \A v \in Workers \ {w} : cur'[v] = cur[v]
    BY <1>2
  <2>2. Runner' = Runner
    BY <1>2, <2>1, SamePlaces DEF Alike
  <2>3. Alive' = Alive
    BY <1>2, AliveKept
  <2> QED BY <1>2, <2>2, <2>3, StutterRefines
<1>3. Workers \subseteq Threads
  BY DEF Threads
<1>4. ASSUME NEW th \in Threads,
             \/ task_ready(th) \/ task_ready_push(th)
             \/ setprivilege_queue(th) \/ setprivilege_relink(th)
             \/ isc__taskmgr_excltask(th)
      PROVE  UNCHANGED Abstract!vars
  <2>1. UNCHANGED <<cur, state, references, events, on_shutdown, shuttingdown, unsent>>
    BY <1>4 DEF task_ready, task_ready_push, setprivilege_queue, setprivilege_relink,
                isc__taskmgr_excltask
  <2>2. pc' = pc \/ pc' \in Signal(pc, "wait", "top")
    BY <1>4 DEF task_ready, task_ready_push, setprivilege_queue, setprivilege_relink,
                isc__taskmgr_excltask
  <2>3. \A u \in Threads : Alike(pc, pc', u)
    BY <1>0, <2>2, SignalAlike
  <2> QED BY <1>1, <1>3, <2>1, <2>3
<1>5. ASSUME NEW th \in Threads, SpuriousWakeup(th) PROVE UNCHANGED Abstract!vars
  <2>1. UNCHANGED <<cur, state, references, events, on_shutdown, shuttingdown, unsent>>
    BY <1>5 DEF SpuriousWakeup
  <2>2. \A u \in Threads : Alike(pc, pc', u)
    BY <1>0, <1>5 DEF SpuriousWakeup, Alike, Marked, ActionPCs, BusyPCs
  <2> QED BY <1>1, <1>3, <2>1, <2>2
<1>6. cur \in [Workers -> Tasks \cup {None}] /\ cur = [w \in Workers |-> cur[w]]
  BY DEF QInv, ThreadTypes
<1>7. ASSUME NEW w \in Workers, dispatch_exit(w) \/ dispatch_wait(w) \/ dispatch_pop(w)
      PROVE  UNCHANGED Abstract!vars
  <2>1. /\ UNCHANGED <<state, references, events, on_shutdown, shuttingdown, unsent>>
        /\ pc[w] = "top" /\ \E x \in {"exited", "wait", "popped"} : pc' = [pc EXCEPT ![w] = x]
        /\ cur' = cur \/ \E t \in Tasks : cur' = [cur EXCEPT ![w] = t]
    BY <1>7 DEF dispatch_exit, dispatch_wait, dispatch_pop, AtTop
  <2>2. /\ pc'[w] \in {"exited", "wait", "popped"} /\ \A v \in Workers \ {w} : pc'[v] = pc[v]
    BY <1>0, <1>3, <2>1
  <2>3. \E x : cur' = [cur EXCEPT ![w] = x]
    <3>1. cur = [cur EXCEPT ![w] = cur[w]]
      BY <1>6
    <3> QED BY <2>1, <3>1
  <2>4. pc[w] \notin ActionPCs /\ pc'[w] \notin ActionPCs /\ \A v \in Workers \ {w} : Alike(pc, pc', v)
    BY <2>1, <2>2 DEF ActionPCs, Alike
  <2> QED BY <1>2, <1>6, <2>1, <2>3, <2>4
<1>8. ASSUME NEW w \in Workers, dispatch_end(w) PROVE UNCHANGED Abstract!vars
  <2>1. pc'[w] = "top" /\ \A v \in Workers \ {w} : Alike(pc, pc', v)
    BY <1>3, <1>8, EndMoves
  <2>2. /\ UNCHANGED <<state, references, events, on_shutdown, shuttingdown, unsent>>
        /\ pc[w] \in {"requeue", "end"} /\ cur' = [cur EXCEPT ![w] = None]
    BY <1>8 DEF dispatch_end
  <2>3. pc[w] \notin ActionPCs /\ pc'[w] \notin ActionPCs
    BY <2>1, <2>2 DEF ActionPCs
  <2> QED BY <1>2, <1>6, <2>1, <2>2, <2>3
<1>9. ASSUME NEW w \in Workers,
             \/ beginexclusive_woken(w) \/ isc__task_beginexclusive(w) \/ isc__task_endexclusive(w)
             \/ \E m \in {"normal", "privileged"} : isc__taskmgr_setmode(w, m)
      PROVE  UNCHANGED Abstract!vars
  <2>1. /\ UNCHANGED <<cur, state, references, events, on_shutdown, shuttingdown, unsent>>
        /\ \/ /\ pc[w] \in {"action", "exwoken"}
              /\ pc' = [pc EXCEPT ![w] = "exwait"] \/ pc' = [pc EXCEPT ![w] = "exclusive"]
           \/ /\ pc[w] = "exclusive"
              /\ pc' = Broadcast([pc EXCEPT ![w] = "action"], "wait", "top")
           \/ pc' = pc
    BY <1>9 DEF AwaitExclusive, beginexclusive_woken, isc__task_beginexclusive,
                isc__task_endexclusive, isc__taskmgr_setmode
  <2>2. \A v \in Workers \ {w} : pc'[v] = pc[v] \/ (pc[v] = "wait" /\ pc'[v] = "top")
    BY <1>0, <1>3, <2>1 DEF Broadcast
  <2>3. pc'[w] = pc[w] \/ (pc'[w] \in ActionPCs /\ pc[w] \in ActionPCs)
    BY <1>0, <1>3, <2>1 DEF Broadcast, ActionPCs
  <2>4. \A v \in Workers : pc'[v] \in ActionPCs <=> pc[v] \in ActionPCs
    BY <2>2, <2>3 DEF ActionPCs
  <2>5. Runner' = Runner
    BY <2>1, <2>4, SamePlaces
  <2>6. Alive' = Alive
    BY <2>1, AliveKept
  <2> QED BY <2>1, <2>5, <2>6, StutterRefines
<1>10. ASSUME NEW c \in Clients,
              \/ isc__taskmgr_pause(c) \/ isc__taskmgr_resume(c) \/ excl_clear(c)
              \/ destroy_begin(c) \/ destroy_unlock(c) \/ destroy_join(c)
       PROVE  UNCHANGED Abstract!vars
  <2>0. c \notin Workers /\ c \in Threads
    BY ConstantAssumption DEF Threads
  <2>1. /\ UNCHANGED <<cur, state, references, events, on_shutdown, shuttingdown, unsent>>
        /\ \/ \E x : pc' = [pc EXCEPT ![c] = x]
           \/ \E x : pc' = Broadcast([pc EXCEPT ![c] = x], "wait", "top")
           \/ pc' = Broadcast(pc, "wait", "top")
    BY <1>10 DEF isc__taskmgr_pause, PauseLoop, isc__taskmgr_resume, excl_clear, destroy_begin,
                 destroy_unlock, destroy_join
  <2>2. \A v \in Workers : pc'[v] = pc[v] \/ (pc[v] = "wait" /\ pc'[v] = "top")
    BY <1>0, <1>3, <2>0, <2>1 DEF Broadcast
  <2>3. \A v \in Workers : pc'[v] \in ActionPCs <=> pc[v] \in ActionPCs
    BY <2>2 DEF ActionPCs
  <2>4. Runner' = Runner
    BY <2>1, <2>3, SamePlaces
  <2>5. Alive' = Alive
    BY <2>1, AliveKept
  <2> QED BY <2>1, <2>4, <2>5, StutterRefines
<1> QED BY <1>4, <1>5, <1>7, <1>8, <1>9, <1>10

\* The turns of a worker are the turns of its task.
LEMMA TurnRefines ==
    ASSUME IInv, QInv, NEW w \in Workers, dispatch_start(w) \/ dispatch_next(w)
    PROVE  Abstract!Next
<1>1. PICK n \in Nat : /\ pc[w] = "popped" \/ (pc[w] = "action" /\ call[w] = NoCall)
                       /\ dispatch_loop(w, n)
  BY DEF dispatch_start, dispatch_next, QInv, ThreadTypes
<1>2. PICK t \in Tasks : t = cur[w]
  BY <1>1, InHandIs
<1> DEFINE zombie == references[t] = 0 /\ events[t] = <<>> /\ ~shuttingdown[t]
           queue  == IF zombie THEN Reverse(on_shutdown[t]) ELSE events[t]
<1>3. /\ zombie => /\ shuttingdown' = [shuttingdown EXCEPT ![t] = TRUE]
                   /\ on_shutdown' = [on_shutdown EXCEPT ![t] = <<>>]
      /\ ~zombie => UNCHANGED <<shuttingdown, on_shutdown>>
      /\ \/ /\ queue = <<>> /\ events' = [events EXCEPT ![t] = <<>>]
            /\ \E s \in {"done", "idle"}, x \in {"finish", "end"} :
                  state' = [state EXCEPT ![t] = s] /\ pc' = [pc EXCEPT ![w] = x]
         \/ /\ events' = [events EXCEPT ![t] = queue]
            /\ state' = [state EXCEPT ![t] = "ready"] /\ pc' = [pc EXCEPT ![w] = "requeue"]
         \/ /\ queue # <<>> /\ events' = [events EXCEPT ![t] = Tail(queue)]
            /\ state' = [state EXCEPT ![t] = "running"] /\ pc' = [pc EXCEPT ![w] = "action"]
      /\ unsent' = unsent /\ references' = references /\ cur' = cur
  BY <1>1, <1>2 DEF dispatch_loop
<1>4. /\ shuttingdown \in [Tasks -> BOOLEAN] /\ on_shutdown \in [Tasks -> Seq(Events)] /\ Life(t)
      /\ state \in [Tasks -> {"unborn", "idle", "ready", "running", "done", "freed"}]
      /\ pc \in [Threads -> WorkerPCs \cup ClientPCs] /\ w \in Threads
      /\ cur \in [Workers -> Tasks \cup {None}]
      /\ \A u \in Tasks : Life(u)
  BY DEF QInv, TaskTypes, EventsOK, IInv, PlacesOK, Placed, Threads, ThreadTypes
<1>5. /\ on_shutdown' = [on_shutdown EXCEPT ![t] = IF zombie THEN <<>> ELSE @]
  <2>1. CASE zombie
    BY <1>3, <2>1
  <2>2. CASE ~zombie
    <3>1. on_shutdown = [on_shutdown EXCEPT ![t] = on_shutdown[t]]
      BY <1>4
    <3> QED BY <1>3, <2>2, <3>1
  <2> QED BY <2>1, <2>2
<1>6. /\ shuttingdown' = [shuttingdown EXCEPT ![t] = @ \/ zombie]
  <2>1. CASE zombie
    <3>1. (shuttingdown[t] \/ zombie) = TRUE
      BY <2>1
    <3> QED BY <1>3, <2>1, <3>1
  <2>2. CASE ~zombie
    <3>1. (shuttingdown[t] \/ zombie) = shuttingdown[t]
      <4>1. shuttingdown[t] \in BOOLEAN
        BY <1>4
      <4> QED BY <2>2, <4>1
    <3>2. shuttingdown = [shuttingdown EXCEPT ![t] = shuttingdown[t]]
      BY <1>4
    <3> QED BY <1>3, <2>2, <3>1, <3>2
  <2> QED BY <2>1, <2>2
<1>7. /\ state[t] \in {"ready", "running"} /\ \A v \in Workers : Runs(v, t) => v = w
  <2>1. Carries(w, t) \/ Runs(w, t)
    BY <1>1, <1>2 DEF Carries, Runs, ActionPCs
  <2> QED BY <1>4, <2>1 DEF Life
<1>8. Alive[t] = "alive" /\ Alive' = Alive
  <2>1. \A u \in Tasks : \/ state'[u] = state[u]
                         \/ {state'[u], state[u]} \cap {"unborn", "freed"} = {}
    BY <1>3, <1>4, <1>7
  <2> QED BY <1>7, <2>1, AliveKept DEF Alive
<1>9. Runner[t] \subseteq {w}
  BY <1>7 DEF Runner, Runs
<1>10. ASSUME NEW x, pc' = [pc EXCEPT ![w] = x]
       PROVE  /\ x \notin ActionPCs => Runner' = [Runner EXCEPT ![t] = {}]
              /\ x \in ActionPCs => Runner' = [Runner EXCEPT ![t] = {w}]
  <2>1. pc'[w] = x /\ \A v \in Workers \ {w} : pc'[v] = pc[v]
    BY <1>4, <1>10 DEF Threads
  <2>2. \A u \in Tasks \ {t} : Runner'[u] = Runner[u]
    BY <1>2, <1>3, <2>1 DEF Runner
  <2>3. x \notin ActionPCs => Runner'[t] = {}
    BY <1>3, <1>7, <2>1 DEF Runner, Runs
  <2>4. x \in ActionPCs => Runner'[t] = {w}
    BY <1>2, <1>3, <1>7, <2>1 DEF Runner, Runs
  <2>5. Runner' = [u \in Tasks |-> Runner'[u]] /\ Runner = [u \in Tasks |-> Runner[u]]
    BY DEF Runner
  <2> HIDE DEF zombie, queue
  <2> QED BY <2>2, <2>3, <2>4, <2>5
<1>11. \/ /\ queue # <<>> /\ events' = [events EXCEPT ![t] = Tail(queue)]
          /\ Runner' = [Runner EXCEPT ![t] = {w}]
       \/ /\ events' = [events EXCEPT ![t] = queue]
          /\ Runner' = [Runner EXCEPT ![t] = {}]
  <2> HIDE DEF zombie, queue
  <2> QED BY <1>3, <1>10 DEF ActionPCs
<1>12. Abstract!Turn(t, w)
  BY <1>3, <1>5, <1>6, <1>8, <1>9, <1>11 DEF Abstract!Turn, Alive, Runner, Abstract!Reverse, Reverse
<1> QED BY <1>12 DEF Abstract!Next

\* task_finished() frees a task that is empty.
LEMMA FreeRefines ==
    ASSUME IInv, QInv, NEW w \in Workers, task_finished(w)
    PROVE  Abstract!Next
<1>1. /\ pc[w] = "finish" /\ state' = [state EXCEPT ![cur[w]] = "freed"]
      /\ \/ pc' = [pc EXCEPT ![w] = "end"]
         \/ pc' = Broadcast([pc EXCEPT ![w] = "end"], "wait", "top")
      /\ UNCHANGED <<references, events, on_shutdown, shuttingdown, cur, unsent>>
  BY DEF task_finished
<1>2. PICK t \in Tasks : t = cur[w]
  BY <1>1, InHandIs
<1>3. /\ state \in [Tasks -> {"unborn", "idle", "ready", "running", "done", "freed"}]
      /\ pc \in [Threads -> WorkerPCs \cup ClientPCs] /\ Workers \subseteq Threads
      /\ Life(t) /\ references[t] \in Nat
  BY DEF QInv, TaskTypes, IInv, PlacesOK, Placed, Threads
<1>4. Finishes(w, t)
  BY <1>1, <1>2 DEF Finishes
<1>5. /\ state[t] = "done" /\ references[t] = 0 /\ shuttingdown[t]
      /\ events[t] = <<>> /\ on_shutdown[t] = <<>>
      /\ \A v \in Workers : ~Runs(v, t)
  BY <1>3, <1>4 DEF Life
<1>6. Alive[t] = "alive" /\ Alive' = [Alive EXCEPT ![t] = "freed"]
  BY <1>1, <1>2, <1>3, <1>5 DEF Alive
<1>7. Runner[t] = {}
  BY <1>5 DEF Runner, Runs
<1>8. Runner' = Runner
  <2>1. \A v \in Workers : \/ pc'[v] = pc[v]
                           \/ pc[v] = "finish" /\ pc'[v] = "end"
                           \/ pc[v] = "wait" /\ pc'[v] = "top"
    BY <1>1, <1>3 DEF Broadcast
  <2>2. \A v \in Workers : pc'[v] \in ActionPCs <=> pc[v] \in ActionPCs
    BY <2>1 DEF ActionPCs
  <2> QED BY <1>1, <2>2, SamePlaces
<1>9. Abstract!Free(t)
  BY <1>1, <1>5, <1>6, <1>7, <1>8, Steps
<1> QED BY <1>9 DEF Abstract!Next

\* The manager's own references, and its walk over the tasks.
LEMMA ManagerRefines ==
    ASSUME IInv, QInv, PInv,
           \/ \E th \in Threads : excltask_attach(th)
           \/ \E c \in Clients : \/ isc__taskmgr_setexcltask(c) \/ isc__taskmgr_destroy(c)
                                 \/ \E t \in Tasks : setexcl_attach(c, t) \/ destroy_walk(c, t)
    PROVE  Abstract!Next \/ UNCHANGED Abstract!vars
<1> USE DEF mgrvars, mgrflags, threads
<1>1. /\ references \in [Tasks -> Nat] /\ shuttingdown \in [Tasks -> BOOLEAN]
      /\ state \in [Tasks -> {"unborn", "idle", "ready", "running", "done", "freed"}]
      /\ None \notin Tasks /\ excl \in Tasks \cup {None}
      /\ \A t \in Tasks : Life(t)
      /\ events \in [Tasks -> Seq(Events)] /\ on_shutdown \in [Tasks -> Seq(Events)]
  BY ConstantAssumption DEF QInv, TaskTypes, ManagerTypes, EventsOK
<1>2. ASSUME NEW u \in Tasks,
             \/ state' = state
             \/ state[u] \in {"idle"} /\ state' = [state EXCEPT ![u] = "ready"]
      PROVE  Alive' = Alive
  BY <1>1, <1>2, AliveKept
<1>6. ASSUME NEW th \in Threads, excltask_attach(th)
      PROVE  Abstract!Next \/ UNCHANGED Abstract!vars
  <2>1. UNCHANGED <<state, events, on_shutdown, shuttingdown, unsent, pc, cur>> /\ call[th].op = "excl"
    BY <1>6 DEF excltask_attach
  <2>2. Runner' = Runner /\ Alive' = Alive
    BY <2>1, SamePlaces, AliveKept
  <2>3. PICK x \in Tasks : x = call[th].task
    BY <2>1, ReferredIs DEF Call
  <2>4. \/ references' = references
        \/ /\ references[x] > 0 \/ (th \in Workers /\ Runs(th, x))
           /\ references' = [references EXCEPT ![x] = @ + 1]
    BY <1>6, <2>3 DEF excltask_attach, Runs
  <2>5. CASE references' = references
    BY <2>1, <2>2, <2>5, StutterRefines
  <2>6. CASE /\ references[x] > 0 \/ (th \in Workers /\ Runs(th, x))
             /\ references' = [references EXCEPT ![x] = @ + 1]
    <3>1. state[x] \in {"idle", "ready", "running"}
      BY <1>1, <2>6 DEF QInv, Life
    <3>2. Usable(x)
      BY <2>6, <3>1 DEF Usable, Alive, Runner, Runs
    <3> QED BY <2>1, <2>2, <2>6, <3>2, ReferRefines
  <2> QED BY <2>4, <2>5, <2>6
<1>7. ASSUME NEW c \in Clients, NEW x \in Tasks, setexcl_attach(c, x) PROVE Abstract!Next
  <2>1. /\ UNCHANGED <<state, events, on_shutdown, shuttingdown, unsent, cur>>
        /\ references[x] > 0 /\ references' = [references EXCEPT ![x] = @ + 1]
        /\ pc' = [pc EXCEPT ![c] = "app"]
    BY <1>1, <1>7 DEF setexcl_attach
  <2>2. \A v \in Workers : pc'[v] = pc[v]
    BY <2>1, ConstantAssumption DEF IInv, PlacesOK, Placed, Threads
  <2>3. Runner' = Runner /\ Alive' = Alive
    BY <2>1, <2>2, SamePlaces, AliveKept
  <2>4. Usable(x)
    <3>1. state[x] \in {"idle", "ready", "running"}
      BY <1>1, <2>1 DEF Life
    <3> QED BY <2>1, <3>1 DEF Usable, Alive
  <2> QED BY <2>1, <2>3, <2>4, ReferRefines
<1>4. ASSUME NEW c \in Clients, isc__taskmgr_setexcltask(c) \/ isc__taskmgr_destroy(c)
      PROVE  Abstract!Next \/ UNCHANGED Abstract!vars
  <2>0. PICK p \in {"exclear", "setexcl", "newexcl", "destroy"} : pc' = [pc EXCEPT ![c] = p]
    BY <1>4 DEF isc__taskmgr_setexcltask, isc__taskmgr_destroy, DetachExcl
  <2>1. UNCHANGED <<events, on_shutdown, shuttingdown, unsent, cur>> /\ Alone(c)
    BY <1>4 DEF isc__taskmgr_setexcltask, isc__taskmgr_destroy
  <2>2. Runner' = Runner
    <3>1. \A v \in Workers : pc'[v] = pc[v]
      BY <2>0, ConstantAssumption DEF IInv, PlacesOK, Placed, Threads
    <3> QED BY <2>1, <3>1, SamePlaces
  <2>3. CASE excl = None
    <3>1. references' = references /\ state' = state
      BY <1>4, <2>3 DEF isc__taskmgr_setexcltask, isc__taskmgr_destroy, DetachExcl
    <3> QED BY <2>1, <2>2, <3>1, AliveKept, StutterRefines
  <2>4. CASE excl # None
    <3>1. PICK x \in Tasks : x = excl /\ references[x] > 0
      BY <1>1, <2>1, <2>4, AloneHeld DEF PInv, ExclOK
    <3>2. task_detach(c, x)
      BY <1>4, <2>4, <3>1 DEF isc__taskmgr_setexcltask, isc__taskmgr_destroy, DetachExcl
    <3>3. /\ references' = [references EXCEPT ![x] = @ - 1]
          /\ \/ state' = state
             \/ state[x] \in {"idle"} /\ state' = [state EXCEPT ![x] = "ready"]
      BY <3>2 DEF task_detach
    <3>6. Alive' = Alive
      BY <1>2, <3>3
    <3> QED BY <2>1, <2>2, <3>1, <3>3, <3>6, ReferRefines
  <2> QED BY <2>3, <2>4
<1>5. ASSUME NEW c \in Clients, NEW t \in Tasks, destroy_walk(c, t)
      PROVE  Abstract!Next \/ UNCHANGED Abstract!vars
  <2>1. /\ UNCHANGED <<references, unsent, pc, cur>> /\ task_shutdown(t) /\ t \in walk
    BY <1>5 DEF destroy_walk
  <2>2. Runner' = Runner
    BY <2>1, SamePlaces
  <2>3. state[t] \notin {"unborn", "freed"}
    BY <1>1, <2>1 DEF QInv, Destroying, Life
  <2>4. CASE shuttingdown[t]
    <3>1. state' = state /\ events' = events /\ on_shutdown' = on_shutdown
      BY <2>1, <2>4 DEF task_shutdown
    <3>2. shuttingdown' = shuttingdown
      <4>1. shuttingdown' = [shuttingdown EXCEPT ![t] = TRUE]
        BY <2>1 DEF task_shutdown
      <4>2. shuttingdown[t] = TRUE
        BY <1>1, <2>4
      <4> QED BY <1>1, <4>1, <4>2
    <3> QED BY <2>1, <2>2, <3>1, <3>2, AliveKept, StutterRefines
  <2>5. CASE ~shuttingdown[t]
    <3>1. /\ events' = [events EXCEPT ![t] = @ \o Reverse(on_shutdown[t])]
          /\ on_shutdown' = [on_shutdown EXCEPT ![t] = <<>>]
          /\ shuttingdown' = [shuttingdown EXCEPT ![t] = TRUE]
          /\ \/ state' = state
             \/ state[t] \in {"idle"} /\ state' = [state EXCEPT ![t] = "ready"]
      BY <2>1, <2>5 DEF task_shutdown
    <3>2. Alive' = Alive /\ Alive[t] = "alive"
      BY <1>2, <2>3, <3>1 DEF Alive
    <3>3. Abstract!Shutdown(t)
      BY <2>1, <2>2, <2>5, <3>1, <3>2, Steps
    <3> QED BY <3>3 DEF Abstract!Next
  <2> QED BY <2>4, <2>5
<1> QED BY <1>4, <1>5, <1>6, <1>7

LEMMA NextRefines ==
    ASSUME IInv, QInv, PInv, [Next]_vars
    PROVE  [Abstract!Next]_(Abstract!vars)
<1>1. ASSUME NEW th \in Threads, NEW t \in Tasks, TaskCall(th, t)
      PROVE  Abstract!Next \/ UNCHANGED Abstract!vars
  BY <1>1, TaskCallRefines
<1>2. ASSUME NEW th \in Threads, SpuriousWakeup(th) \/ isc__taskmgr_excltask(th)
      PROVE  UNCHANGED Abstract!vars
  BY <1>2, HiddenRefines
<1>3. ASSUME NEW th \in Threads, CallStep(th)
      PROVE  Abstract!Next \/ UNCHANGED Abstract!vars
  <2>1. CASE excltask_attach(th)
    BY <2>1, ManagerRefines
  <2>2. CASE \/ task_ready(th) \/ task_ready_push(th)
             \/ setprivilege_queue(th) \/ setprivilege_relink(th)
    BY <2>2, HiddenRefines
  <2> QED BY <1>3, <2>1, <2>2 DEF CallStep
<1>4. ASSUME NEW w \in Workers, WorkerStep(w) \/ dispatch_next(w)
      PROVE  Abstract!Next \/ UNCHANGED Abstract!vars
  <2>1. CASE dispatch_start(w) \/ dispatch_next(w)
    BY <2>1, TurnRefines
  <2>2. CASE task_finished(w)
    BY <2>2, FreeRefines
  <2>3. CASE \/ dispatch_exit(w) \/ dispatch_wait(w) \/ dispatch_pop(w) \/ dispatch_end(w)
             \/ beginexclusive_woken(w)
    BY <2>3, HiddenRefines
  <2> QED BY <1>4, <2>1, <2>2, <2>3 DEF WorkerStep
<1>5. ASSUME NEW w \in Workers,
             \/ isc__task_beginexclusive(w) \/ isc__task_endexclusive(w)
             \/ \E m \in {"normal", "privileged"} : isc__taskmgr_setmode(w, m)
      PROVE  UNCHANGED Abstract!vars
  BY <1>5, HiddenRefines
<1>6. ASSUME NEW c \in Clients,
             \/ isc__taskmgr_pause(c) \/ isc__taskmgr_resume(c) \/ isc__taskmgr_setexcltask(c)
             \/ isc__taskmgr_destroy(c) \/ DestroyStep(c) \/ \E t \in Tasks : setexcl_attach(c, t)
      PROVE  Abstract!Next \/ UNCHANGED Abstract!vars
  <2>1. CASE \/ isc__taskmgr_setexcltask(c) \/ isc__taskmgr_destroy(c)
             \/ \E t \in Tasks : setexcl_attach(c, t) \/ destroy_walk(c, t)
    BY <2>1, ManagerRefines
  <2>2. CASE \/ isc__taskmgr_pause(c) \/ isc__taskmgr_resume(c) \/ excl_clear(c)
             \/ destroy_begin(c) \/ destroy_unlock(c) \/ destroy_join(c)
    BY <2>2, HiddenRefines
  <2> QED BY <1>6, <2>1, <2>2 DEF DestroyStep
<1>7. CASE UNCHANGED vars
  <2>1. UNCHANGED <<state, references, events, on_shutdown, shuttingdown, unsent, pc, cur>>
    BY <1>7 DEF vars, taskvars, threads
  <2>2. Runner' = Runner /\ Alive' = Alive
    BY <2>1, SamePlaces, AliveKept
  <2>3. UNCHANGED Abstract!vars
    BY <2>1, <2>2, StutterRefines
  <2> QED BY <2>3
<1> QED BY <1>1, <1>2, <1>3, <1>4, <1>5, <1>6, <1>7 DEF Next

-----------------------------------------------------------------------------
(* No wakeup is lost. *)

\* A worker sleeps although workers may take tasks.
Sleepy ==
    /\ mode = "normal" /\ ~pause_requested /\ ~exclusive_requested
    /\ \A c \in Clients : pc[c] # "walk"
    /\ \E w \in Workers : pc[w] = "wait"

\* The workers f puts at the head of their loop.
Awake(f) == {w \in Workers : f[w] = "top"}

\* They are finitely many.
LEMMA AwakeFinite ==
    ASSUME NEW f
    PROVE  IsFiniteSet(Awake(f)) /\ Cardinality(Awake(f)) \in Nat
<1>1. Awake(f) \in SUBSET Workers
  BY DEF Awake
<1> QED BY <1>1, ConstantAssumption, FS_Subset, FS_CardinalityType

\* A step that queues nothing and after which no worker sleeps anew or has left
\* the head of its loop.
LEMMA WakeKept ==
    ASSUME NoLostWakeup, ready_tasks' = ready_tasks, ready_tasks \in Seq(Tasks),
           Sleepy' => Sleepy /\ \A w \in Workers : pc[w] = "top" => pc'[w] = "top"
    PROVE  NoLostWakeup'
<1>1. SUFFICES ASSUME Sleepy'
               PROVE  Len(ready_tasks') <= Cardinality(Awake(pc'))
  BY DEF NoLostWakeup, Sleepy, Awake
<1>2. Sleepy /\ \A w \in Workers : pc[w] = "top" => pc'[w] = "top"
  BY <1>1
<1>3. Len(ready_tasks) <= Cardinality(Awake(pc))
  BY <1>2 DEF NoLostWakeup, Sleepy, Awake
<1>4. Awake(pc) \subseteq Awake(pc')
  BY <1>2 DEF Awake
<1>5. Cardinality(Awake(pc)) <= Cardinality(Awake(pc'))
  BY <1>4, AwakeFinite, FS_Subset
<1>6. Len(ready_tasks) \in Nat
  BY LenProperties
<1> QED BY <1>3, <1>5, <1>6, AwakeFinite

\* A step that queues one task and puts one more worker to the head of its loop.
LEMMA WakeGrows ==
    ASSUME NoLostWakeup, ready_tasks \in Seq(Tasks), NEW t \in Tasks,
           ready_tasks' = Append(ready_tasks, t),
           NEW w \in Workers, pc[w] # "top", pc'[w] = "top",
           \A v \in Workers : pc[v] = "top" => pc'[v] = "top",
           Sleepy' => Sleepy
    PROVE  NoLostWakeup'
<1>1. SUFFICES ASSUME Sleepy'
               PROVE  Len(ready_tasks') <= Cardinality(Awake(pc'))
  BY DEF NoLostWakeup, Sleepy, Awake
<1>2. Len(ready_tasks) <= Cardinality(Awake(pc))
  BY <1>1 DEF NoLostWakeup, Sleepy, Awake
<1>3. Awake(pc) \cup {w} \subseteq Awake(pc') /\ w \notin Awake(pc)
  BY DEF Awake
<1>4. /\ Cardinality(Awake(pc) \cup {w}) = Cardinality(Awake(pc)) + 1
      /\ IsFiniteSet(Awake(pc) \cup {w})
  BY <1>3, AwakeFinite, FS_AddElement
<1>5. Cardinality(Awake(pc) \cup {w}) <= Cardinality(Awake(pc'))
  BY <1>3, <1>4, AwakeFinite, FS_Subset
<1>6. Len(ready_tasks) \in Nat /\ Len(ready_tasks') = Len(ready_tasks) + 1
  BY LenProperties, AppendProperties
<1> QED BY <1>2, <1>4, <1>5, <1>6, AwakeFinite

\* A step that takes one task from the queue and one worker from the head.
LEMMA WakeShrinks ==
    ASSUME NoLostWakeup, ready_tasks \in Seq(Tasks), Len(ready_tasks') = Len(ready_tasks) - 1,
           NEW w \in Workers, pc[w] = "top",
           \A v \in Workers \ {w} : pc[v] = "top" => pc'[v] = "top",
           Sleepy' => Sleepy
    PROVE  NoLostWakeup'
<1>1. SUFFICES ASSUME Sleepy'
               PROVE  Len(ready_tasks') <= Cardinality(Awake(pc'))
  BY DEF NoLostWakeup, Sleepy, Awake
<1>2. Len(ready_tasks) <= Cardinality(Awake(pc))
  BY <1>1 DEF NoLostWakeup, Sleepy, Awake
<1>3. Awake(pc) \ {w} \subseteq Awake(pc') /\ w \in Awake(pc)
  BY DEF Awake
<1>4. /\ Cardinality(Awake(pc) \ {w}) = Cardinality(Awake(pc)) - 1
      /\ IsFiniteSet(Awake(pc) \ {w})
  BY <1>3, AwakeFinite, FS_RemoveElement
<1>5. Cardinality(Awake(pc) \ {w}) <= Cardinality(Awake(pc'))
  BY <1>3, <1>4, AwakeFinite, FS_Subset
<1>6. Len(ready_tasks) \in Nat
  BY LenProperties
<1> QED BY <1>2, <1>4, <1>5, <1>6, AwakeFinite

\* An empty queue needs nobody.
LEMMA WakeEmpty ==
    ASSUME ready_tasks' = <<>>
    PROVE  NoLostWakeup'
<1>1. Len(ready_tasks') = 0 /\ Cardinality(Awake(pc')) \in Nat
  BY AwakeFinite
<1> QED BY <1>1 DEF NoLostWakeup, Awake

\* After BROADCAST(&manager->work_available) nobody sleeps.
LEMMA WakeAll ==
    ASSUME NEW p, pc' = Broadcast(p, "wait", "top")
    PROVE  NoLostWakeup'
<1>1. \A w \in Workers : pc'[w] # "wait"
  BY DEF Broadcast, Threads
<1> QED BY <1>1 DEF NoLostWakeup

\* DEQUEUE takes one element.
LEMMA DequeueLen ==
    ASSUME NEW S, NEW q \in Seq(S), NEW x, Linked(q, x)
    PROVE  Len(Dequeue(q, x)) = Len(q) - 1
<1> DEFINE i == CHOOSE h \in DOMAIN q : q[h] = x
<1>1. i \in 1 .. Len(q)
  BY DEF Linked
<1> HIDE DEF i
<1>2. Len(RemoveAt(q, i)) = Len(q) - 1
  BY <1>1, RemoveAtIs
<1> QED BY <1>2 DEF Dequeue, i

\* A step of the threads that sends nobody to sleep and lets nobody go by.
LEMMA WakeMoved ==
    ASSUME IInv, QInv, NoLostWakeup, ready_tasks' = ready_tasks,
           UNCHANGED <<mode, pause_requested, exclusive_requested>>,
           \A c \in Clients : pc[c] = "walk" => pc'[c] = "walk",
           \A w \in Workers : /\ pc'[w] = "wait" => pc[w] = "wait"
                              /\ pc[w] = "top" => pc'[w] = "top"
    PROVE  NoLostWakeup'
<1>1. Sleepy' => Sleepy
  BY DEF Sleepy
<1>2. ready_tasks \in Seq(Tasks)
  BY DEF QInv, ManagerTypes
<1> QED BY <1>1, <1>2, WakeKept

\* The operations on one task.
LEMMA TaskCallWake ==
    ASSUME IInv, QInv, NoLostWakeup, NEW th \in Threads, NEW t \in Tasks, TaskCall(th, t)
    PROVE  NoLostWakeup'
<1> DEFINE Same == UNCHANGED <<pc, ready_tasks, mode, pause_requested, exclusive_requested>>
<1> USE DEF mgrvars, mgrflags, threads, readyqs
<1>1. Same
  <2>1. CASE isc__task_create(th, t)
    BY <2>1 DEF isc__task_create
  <2>2. CASE isc__task_attach(th, t)
    BY <2>2 DEF isc__task_attach
  <2>3. CASE isc__task_detach(th, t)
    BY <2>3 DEF isc__task_detach
  <2>4. ASSUME NEW e \in Events, isc__task_send(th, t, e) PROVE Same
    BY <2>4 DEF isc__task_send
  <2>5. ASSUME NEW e \in Events, isc__task_sendanddetach(th, t, e) PROVE Same
    BY <2>5 DEF isc__task_sendanddetach
  <2>6. ASSUME NEW e \in Events, isc__task_purgeevent(th, t, e) PROVE Same
    BY <2>6 DEF isc__task_purgeevent
  <2>7. ASSUME NEW e \in Events, isc__task_onshutdown(th, t, e) PROVE Same
    BY <2>7 DEF isc__task_onshutdown
  <2>8. ASSUME NEW match \in SUBSET Events, isc__task_purgerange(th, t, match) PROVE Same
    BY <2>8 DEF isc__task_purgerange
  <2>9. ASSUME NEW match \in SUBSET Events, isc__task_unsendrange(th, t, match) PROVE Same
    BY <2>9 DEF isc__task_unsendrange
  <2>10. CASE isc__task_shutdown(th, t)
    BY <2>10 DEF isc__task_shutdown
  <2>11. ASSUME NEW priv \in BOOLEAN, isc__task_setprivilege(th, t, priv) PROVE Same
    BY <2>11 DEF isc__task_setprivilege
  <2> HIDE DEF Same
  <2> QED
    BY <2>1, <2>2, <2>3, <2>4, <2>5, <2>6, <2>7, <2>8, <2>9, <2>10, <2>11 DEF TaskCall
<1> QED BY <1>1, WakeMoved

\* The rest of a call: a push in normal mode comes with a signal.
LEMMA CallStepWake ==
    ASSUME IInv, QInv, NoLostWakeup, NEW th \in Threads, CallStep(th)
    PROVE  NoLostWakeup'
<1>1. CASE task_ready(th)
  BY <1>1, WakeMoved DEF task_ready, mgrvars, mgrflags, readyqs
<1>2. CASE setprivilege_queue(th)
  BY <1>2, WakeMoved DEF setprivilege_queue, mgrflags
<1>4. CASE setprivilege_relink(th)
  BY <1>4, WakeMoved DEF setprivilege_relink, mgrflags, readyqs
<1>5. CASE excltask_attach(th)
  BY <1>5, WakeMoved DEF excltask_attach, mgrvars, mgrflags, readyqs
<1>3. CASE task_ready_push(th)
  <2>1. SUFFICES ASSUME Sleepy' PROVE NoLostWakeup'
    BY DEF NoLostWakeup, Sleepy
  <2>2. /\ call[th].op = "push" /\ push_readyq(call[th].task)
        /\ mode = "normal" \/ call[th].flag => pc' \in Signal(pc, "wait", "top")
        /\ UNCHANGED <<mode, pause_requested, exclusive_requested>>
    BY <1>3 DEF task_ready_push, mgrflags
  <2>3. PICK t \in Tasks : t = call[th].task
    BY <2>2 DEF QInv, ThreadTypes, Call, NoCall
  <2>4. ready_tasks' = Append(ready_tasks, t) /\ ready_tasks \in Seq(Tasks)
    BY <2>2, <2>3 DEF push_readyq, QInv, ManagerTypes
  <2>5. pc' \in Signal(pc, "wait", "top") /\ Placed(pc)
    BY <2>1, <2>2 DEF Sleepy, IInv, PlacesOK
  <2>6. PICK v \in Workers : pc'[v] = "wait"
    BY <2>1 DEF Sleepy
  <2>7. {u \in Threads : pc[u] = "wait"} # {}
    BY <2>5, <2>6 DEF Signal, Threads
  <2>8. PICK u \in Threads : pc[u] = "wait" /\ pc' = [pc EXCEPT ![u] = "top"]
    BY <2>5, <2>7 DEF Signal
  <2>9. u \in Workers /\ pc'[u] = "top"
        /\ \A x \in Threads \ {u} : pc'[x] = pc[x]
    BY <2>5, <2>8 DEF Placed, Threads, ClientPCs
  <2>10. Sleepy
    BY <2>1, <2>2, <2>6, <2>8, <2>9 DEF Sleepy, Threads
  <2> QED BY <2>4, <2>8, <2>9, <2>10, WakeGrows DEF Threads
<1> QED BY <1>1, <1>2, <1>3, <1>4, <1>5 DEF CallStep

\* The head of the loop: a worker goes to sleep only when there is nothing to
\* take or nothing may be taken, and exits only when there are no tasks.
LEMMA TopWake ==
    ASSUME IInv, QInv, NoLostWakeup, NEW w \in Workers,
           dispatch_exit(w) \/ dispatch_wait(w) \/ dispatch_pop(w)
    PROVE  NoLostWakeup'
<1>1. w \in Threads /\ Placed(pc) /\ w \notin Clients
  BY ConstantAssumption DEF IInv, PlacesOK, Threads
<1>2. ready_tasks \in Seq(Tasks)
  BY DEF QInv, ManagerTypes
<1>3. CASE dispatch_exit(w)
  <2>1. tasks = {} /\ ready_tasks' = ready_tasks
    BY <1>3 DEF dispatch_exit, FINISHED, readyqs
  <2>2. ready_tasks # <<>> => FALSE
    <3>1. SUFFICES ASSUME ready_tasks # <<>> PROVE FALSE
      OBVIOUS
    <3>2. PICK t \in Tasks : Linked(ready_tasks, t)
      BY <1>2, <3>1, HeadLinked
    <3> QED BY <2>1, <3>2 DEF QInv, Life, InQueue
  <2> QED BY <2>1, <2>2, WakeEmpty
<1>4. CASE dispatch_wait(w)
  <2>1. /\ MustWait /\ ready_tasks' = ready_tasks
        /\ UNCHANGED <<mode, pause_requested, exclusive_requested>>
    BY <1>4 DEF dispatch_wait, readyqs, mgrflags
  <2>2. CASE ready_tasks = <<>>
    BY <2>1, <2>2, WakeEmpty
  <2>3. CASE ready_tasks # <<>>
    BY <2>1, <2>3 DEF NoLostWakeup, MustWait, empty_readyq, CurrentQueue
  <2> QED BY <2>2, <2>3
<1>5. CASE dispatch_pop(w)
  <2>1. PICK t \in Tasks : pop_readyq(t)
    BY <1>5 DEF dispatch_pop
  <2>2. /\ AtTop(w) /\ ~MustWait /\ pc' = [pc EXCEPT ![w] = "popped"]
        /\ UNCHANGED <<mode, pause_requested, exclusive_requested>>
    BY <1>5 DEF dispatch_pop, mgrflags
  <2>3. Linked(ready_tasks, t) /\ ready_tasks' = Dequeue(ready_tasks, t)
    BY <2>1, <2>2, PopIs DEF MustWait, InQueue, pop_readyq
  <2>4. Len(ready_tasks') = Len(ready_tasks) - 1
    BY <1>2, <2>3, DequeueLen
  <2>5. /\ pc'[w] = "popped" /\ pc[w] = "top"
        /\ \A x \in Threads \ {w} : pc'[x] = pc[x]
    BY <1>1, <2>2 DEF Placed, AtTop
  <2>6. Sleepy' => Sleepy
    BY <1>1, <2>2, <2>5 DEF Sleepy, Threads
  <2> QED BY <1>2, <2>4, <2>5, <2>6, WakeShrinks DEF Threads
<1> QED BY <1>3, <1>4, <1>5

\* The other steps of a worker that is not at the head of its loop.
LEMMA BusyWake ==
    ASSUME IInv, QInv, NoLostWakeup, NEW w \in Workers,
           \/ dispatch_start(w) \/ dispatch_next(w) \/ task_finished(w)
           \/ beginexclusive_woken(w) \/ isc__task_beginexclusive(w)
           \/ isc__task_endexclusive(w)
           \/ \E m \in {"normal", "privileged"} : isc__taskmgr_setmode(w, m)
    PROVE  NoLostWakeup'
<1>1. w \in Threads /\ Placed(pc) /\ w \notin Clients
  BY ConstantAssumption DEF IInv, PlacesOK, Threads
<1>2. ready_tasks \in Seq(Tasks)
  BY DEF QInv, ManagerTypes
<1> DEFINE Same == UNCHANGED <<ready_tasks, mode, pause_requested, exclusive_requested>>
<1>3. ASSUME NEW x, x # "wait", pc[w] # "top", pc' = [pc EXCEPT ![w] = x], Same
      PROVE  NoLostWakeup'
  <2>1. pc'[w] = x /\ \A u \in Threads \ {w} : pc'[u] = pc[u]
    BY <1>1, <1>3 DEF Placed
  <2>2. /\ \A c \in Clients : pc'[c] = pc[c]
        /\ \A v \in Workers \ {w} : pc'[v] = pc[v]
    BY <1>1, <2>1 DEF Threads
  <2>3. \A v \in Workers : /\ pc'[v] = "wait" => pc[v] = "wait"
                           /\ pc[v] = "top" => pc'[v] = "top"
    BY <1>3, <2>1, <2>2
  <2> QED BY <1>3, <2>2, <2>3, WakeMoved
<1>4. ASSUME NEW n, dispatch_loop(w, n), pc[w] # "top" PROVE NoLostWakeup'
  <2>1. Same
    BY <1>4 DEF dispatch_loop, mgrvars, mgrflags, readyqs
  <2>2. PICK x \in {"finish", "end", "requeue", "action"} : pc' = [pc EXCEPT ![w] = x]
    BY <1>4 DEF dispatch_loop
  <2> QED BY <1>3, <1>4, <2>1, <2>2
<1>5. CASE dispatch_start(w) \/ dispatch_next(w)
  BY <1>4, <1>5 DEF dispatch_start, dispatch_next
<1>6. CASE task_finished(w)
  <2>1. Same /\ pc[w] = "finish"
    BY <1>6 DEF task_finished, mgrflags, readyqs
  <2>2. \/ pc' = [pc EXCEPT ![w] = "end"]
        \/ pc' = Broadcast([pc EXCEPT ![w] = "end"], "wait", "top")
    BY <1>6 DEF task_finished
  <2> QED BY <1>3, <2>1, <2>2, WakeAll
<1>7. CASE beginexclusive_woken(w)
  <2>1. Same /\ pc[w] = "exwoken"
    BY <1>7 DEF beginexclusive_woken, mgrvars, mgrflags, readyqs
  <2>2. PICK x \in {"exwait", "exclusive"} : pc' = [pc EXCEPT ![w] = x]
    BY <1>7 DEF beginexclusive_woken, AwaitExclusive
  <2> QED BY <1>3, <2>1, <2>2
<1>8. CASE isc__task_beginexclusive(w)
  BY <1>8 DEF isc__task_beginexclusive, NoLostWakeup
<1>9. CASE isc__task_endexclusive(w)
  BY <1>9, WakeAll DEF isc__task_endexclusive
<1>10. ASSUME NEW m \in {"normal", "privileged"}, isc__taskmgr_setmode(w, m) PROVE NoLostWakeup'
  <2>1. pc[w] = "exclusive" /\ exclusive_requested' = exclusive_requested
    BY <1>10 DEF isc__taskmgr_setmode
  <2>2. exclusive_requested
    BY <2>1 DEF IInv, OneAsks, AskingPCs
  <2> QED BY <2>1, <2>2 DEF NoLostWakeup
<1> QED BY <1>5, <1>6, <1>7, <1>8, <1>9, <1>10

\* The end of a task: a task put back comes with a worker at the head of its
\* loop, and leaving privileged mode wakes everybody.
LEMMA EndWake ==
    ASSUME IInv, QInv, NoLostWakeup, NEW w \in Workers, dispatch_end(w)
    PROVE  NoLostWakeup'
<1> DEFINE m == [pc EXCEPT ![w] = "top"]
<1>1. PICK p \in EndSignal(m) :
        pc' = IF DropsMode /\ ready_tasks' # <<>> THEN Broadcast(p, "wait", "top") ELSE p
  BY DEF dispatch_end
<1>2. w \in Threads /\ Placed(pc) /\ w \notin Clients /\ ready_tasks \in Seq(Tasks)
  BY ConstantAssumption DEF IInv, PlacesOK, Threads, QInv, ManagerTypes
<1>3. /\ pc[w] \in {"requeue", "end"}
      /\ pc[w] = "requeue" => push_readyq(cur[w])
      /\ pc[w] = "end" => ready_tasks' = ready_tasks
      /\ mode' = IF DropsMode THEN "normal" ELSE mode
      /\ UNCHANGED <<pause_requested, exclusive_requested>>
  BY DEF dispatch_end, readyqs
<1>4. /\ m \in [Threads -> WorkerPCs \cup ClientPCs] /\ m[w] = "top"
      /\ \A th \in Threads \ {w} : m[th] = pc[th]
  BY <1>2 DEF Placed, WorkerPCs
<1> HIDE DEF m
<1>5. /\ \A c \in Clients : pc[c] = "walk" => p[c] = "walk"
      /\ \A v \in Workers : /\ p[v] = "wait" => pc[v] = "wait"
                            /\ pc[v] = "top" => p[v] = "top"
      /\ p[w] = "top"
  <2>1. \/ p = m
        \/ \E th \in Threads : m[th] = "exwait" /\ p = [m EXCEPT ![th] = "exwoken"]
        \/ \E th \in Threads : m[th] = "pausewait" /\ p = [m EXCEPT ![th] = "pausewoken"]
    BY <1>1 DEF EndSignal, Signal
  <2>2. \A th \in Threads : \/ p[th] = m[th]
                            \/ p[th] = "exwoken" /\ m[th] = "exwait"
                            \/ p[th] = "pausewoken" /\ m[th] = "pausewait"
    BY <1>4, <2>1
  <2> QED BY <1>2, <1>3, <1>4, <2>2 DEF Threads
<1>6. CASE DropsMode /\ ready_tasks' # <<>>
  BY <1>1, <1>6, WakeAll
<1>7. CASE ready_tasks' = <<>>
  BY <1>7, WakeEmpty
<1>8. CASE ~DropsMode
  <2>1. pc' = p /\ mode' = mode
    BY <1>1, <1>3, <1>8
  <2>2. CASE pc[w] = "end"
    BY <1>3, <1>5, <2>1, <2>2, WakeMoved
  <2>3. CASE pc[w] = "requeue"
    <3>1. PICK t \in Tasks : t = cur[w]
      BY <2>3, InHandIs
    <3>2. ready_tasks' = Append(ready_tasks, t)
      BY <1>3, <2>3, <3>1 DEF push_readyq
    <3>3. Sleepy' => Sleepy
      BY <1>3, <1>5, <2>1 DEF Sleepy
    <3> QED BY <1>2, <1>5, <2>1, <2>3, <3>2, <3>3, WakeGrows
  <2> QED BY <1>3, <2>2, <2>3
<1> QED BY <1>6, <1>7, <1>8

\* A spurious wakeup adds a worker to the awake ones.
LEMMA SpuriousWake ==
    ASSUME IInv, QInv, NoLostWakeup, NEW th \in Threads,
           SpuriousWakeup(th) \/ isc__taskmgr_excltask(th)
    PROVE  NoLostWakeup'
<1> USE DEF mgrvars, mgrflags, readyqs, threads
<1>1. CASE SpuriousWakeup(th)
  <2>1. Placed(pc) /\ UNCHANGED <<ready_tasks, mode, pause_requested, exclusive_requested>>
    BY <1>1 DEF SpuriousWakeup, IInv, PlacesOK
  <2>2. PICK x \in {"top", "exwoken", "pausewoken"} :
          pc' = [pc EXCEPT ![th] = x] /\ pc[th] \in {"wait", "exwait", "pausewait"}
    BY <1>1 DEF SpuriousWakeup
  <2>3. pc'[th] = x /\ \A u \in Threads \ {th} : pc'[u] = pc[u]
    BY <2>1, <2>2 DEF Placed
  <2>4. \A u \in Threads : /\ pc[u] = "walk" => pc'[u] = "walk"
                           /\ pc'[u] = "wait" => pc[u] = "wait"
                           /\ pc[u] = "top" => pc'[u] = "top"
    BY <2>2, <2>3
  <2> QED BY <2>1, <2>4, WakeMoved DEF Threads
<1>2. CASE isc__taskmgr_excltask(th)
  BY <1>2, WakeMoved DEF isc__taskmgr_excltask
<1> QED BY <1>1, <1>2

\* The operations of the clients on the manager.
LEMMA ClientWake ==
    ASSUME IInv, QInv, NoLostWakeup, NEW c \in Clients,
           \/ isc__taskmgr_pause(c) \/ isc__taskmgr_resume(c) \/ isc__taskmgr_setexcltask(c)
           \/ isc__taskmgr_destroy(c) \/ DestroyStep(c) \/ \E t \in Tasks : setexcl_attach(c, t)
    PROVE  NoLostWakeup'
<1>1. c \in Threads /\ Placed(pc) /\ c \notin Workers
  BY ConstantAssumption DEF IInv, PlacesOK, Threads
<1> DEFINE Same == UNCHANGED <<ready_tasks, mode, pause_requested, exclusive_requested>>
<1>2. ASSUME NEW x, pc' = [pc EXCEPT ![c] = x]
      PROVE  pc'[c] = x /\ \A u \in Threads \ {c} : pc'[u] = pc[u]
  BY <1>1, <1>2 DEF Placed
<1>3. ASSUME NEW x, pc[c] # "walk", pc' = [pc EXCEPT ![c] = x], Same
      PROVE  NoLostWakeup'
  <2>1. \A u \in Threads \ {c} : pc'[u] = pc[u]
    BY <1>2, <1>3
  <2>2. /\ \A d \in Clients : pc[d] = "walk" => pc'[d] = "walk"
        /\ \A w \in Workers : pc'[w] = pc[w]
    BY <1>1, <1>3, <2>1 DEF Threads
  <2> QED BY <1>3, <2>2, WakeMoved
<1> USE DEF mgrvars, mgrflags, readyqs, threads
<1>4. CASE isc__taskmgr_pause(c)
  <2>1. pc[c] # "walk" /\ UNCHANGED <<ready_tasks, mode, exclusive_requested>>
    BY <1>4 DEF isc__taskmgr_pause, InCode
  <2>2. CASE tasks_running > 0
    <3>1. pc' = [pc EXCEPT ![c] = "pausewait"] /\ UNCHANGED pause_requested
      BY <1>4, <2>2 DEF isc__taskmgr_pause, PauseLoop
    <3> QED BY <1>3, <2>1, <3>1
  <2>3. CASE ~(tasks_running > 0)
    <3>1. pause_requested'
      BY <1>4, <2>3 DEF isc__taskmgr_pause, PauseLoop
    <3> QED BY <3>1 DEF NoLostWakeup
  <2> QED BY <2>2, <2>3
<1>5. CASE isc__taskmgr_resume(c)
  BY <1>5, WakeAll DEF isc__taskmgr_resume
<1>6. CASE isc__taskmgr_setexcltask(c) \/ isc__taskmgr_destroy(c)
  <2>1. PICK x \in {"exclear", "setexcl", "newexcl", "destroy"} : pc' = [pc EXCEPT ![c] = x]
    BY <1>6 DEF isc__taskmgr_setexcltask, isc__taskmgr_destroy, DetachExcl
  <2>2. pc[c] # "walk" /\ Same
    BY <1>6 DEF isc__taskmgr_setexcltask, isc__taskmgr_destroy, InCode
  <2> QED BY <1>3, <2>1, <2>2
<1>11. CASE excl_clear(c)
  BY <1>3, <1>11 DEF excl_clear
<1>12. ASSUME NEW t \in Tasks, setexcl_attach(c, t) PROVE NoLostWakeup'
  BY <1>3, <1>12 DEF setexcl_attach
<1>7. CASE destroy_begin(c)
  <2>1. pc'[c] = "walk"
    BY <1>2, <1>7 DEF destroy_begin
  <2> QED BY <2>1 DEF NoLostWakeup
<1>8. ASSUME NEW t \in Tasks, destroy_walk(c, t) PROVE NoLostWakeup'
  BY <1>8 DEF destroy_walk, NoLostWakeup
<1>9. CASE destroy_unlock(c)
  BY <1>9, WakeAll DEF destroy_unlock
<1>10. CASE destroy_join(c)
  BY <1>3, <1>10 DEF destroy_join
<1> QED BY <1>4, <1>5, <1>6, <1>7, <1>8, <1>9, <1>10, <1>11, <1>12 DEF DestroyStep

\* NoLostWakeup is inductive on top of the two invariants.
LEMMA NextWake ==
    ASSUME IInv, QInv, NoLostWakeup, [Next]_vars
    PROVE  NoLostWakeup'
<1>1. ASSUME NEW th \in Threads,
             \/ \E t \in Tasks : TaskCall(th, t)
             \/ CallStep(th) \/ isc__taskmgr_excltask(th) \/ SpuriousWakeup(th)
      PROVE  NoLostWakeup'
  BY <1>1, TaskCallWake, CallStepWake, SpuriousWake
<1>2. ASSUME NEW w \in Workers,
             \/ WorkerStep(w) \/ dispatch_next(w)
             \/ isc__task_beginexclusive(w) \/ isc__task_endexclusive(w)
             \/ \E m \in {"normal", "privileged"} : isc__taskmgr_setmode(w, m)
      PROVE  NoLostWakeup'
  BY <1>2, TopWake, BusyWake, EndWake DEF WorkerStep
<1>3. ASSUME NEW c \in Clients,
             \/ isc__taskmgr_pause(c) \/ isc__taskmgr_resume(c) \/ isc__taskmgr_setexcltask(c)
             \/ isc__taskmgr_destroy(c) \/ DestroyStep(c) \/ \E t \in Tasks : setexcl_attach(c, t)
      PROVE  NoLostWakeup'
  BY <1>3, ClientWake
<1>4. CASE UNCHANGED vars
  <2>1. UNCHANGED <<ready_tasks, mode, pause_requested, exclusive_requested, pc>>
    BY <1>4 DEF vars, mgrvars, mgrflags, readyqs, threads
  <2> QED BY <2>1, WakeMoved
<1> QED BY <1>1, <1>2, <1>3, <1>4 DEF Next

-----------------------------------------------------------------------------
(* The theorems. *)

\* The three invariants hold together; QInv needs the counts of IInv, and the
\* references PInv speaks of.
LEMMA Invariants == Spec => [](IInv /\ QInv /\ PInv)
<1>1. Init => IInv /\ QInv /\ PInv
  BY InitIInv, InitQInv, InitPInv
<1>2. IInv /\ QInv /\ PInv /\ [Next]_vars => (IInv /\ QInv /\ PInv)'
  BY NextIInv, NextQInv, NextPInv
<1> QED
  BY <1>1, <1>2, PTL DEF Spec

\* The variables keep their types, and a ready task is in exactly one place: in
\* the ready queue, in the hand of the thread that has to queue it between the
\* two locks of isc_task_send(), detach or shutdown, or with a worker.  So no
\* event is left on a task nobody will run (task.c:588-598) and the INSIST at
\* task.c:1097 never fires.
THEOREM ReadyIsScheduled == Spec => []ScheduledOnce
<1>1. IInv /\ QInv => ScheduledOnce
  BY QInvScheduled
<1> QED
  BY <1>1, Invariants, PTL

\* task_finished() (task.c:304) frees only tasks nothing refers to: no
\* reference, queue, worker or owed call holds a freed task, and manager->excl,
\* read without a lock at task.c:1665, points to a task the manager keeps,
\* except between the drop of its reference (task.c:523) and the clearing of the
\* pointer (529), whoever reads, replaces or destroys meanwhile.
THEOREM AllocatedWhileReached == Spec => []NoUseAfterFree
<1>1. IInv /\ QInv /\ PInv => NoUseAfterFree
  BY QInvAllocated
<1> QED
  BY <1>1, Invariants, PTL

\* ready_priority_tasks is a sublist of ready_tasks without repetitions, so that
\* pop_readyq() (task.c:948) may unlink a task from both, up to the step that
\* breaks the list: isc_task_setprivilege() linking a task that was queued, by
\* the walk of isc_taskmgr_destroy() for one, between its two locks.
THEOREM PriorityIsSublist == Spec => []PrioritySublist
<1>1. QInv => PrioritySublist
  BY QInvPriority
<1> QED
  BY <1>1, Invariants, PTL

\* isc_taskmgr_destroy() (task.c:1456) leaves no task, no queue entry, no
\* running worker and no call in progress behind, whatever the other threads
\* were doing when it began; every task it has passed is shutting down.
THEOREM DestroyLeavesNothing == Spec => []DestroyedIsEmpty
<1>1. IInv /\ QInv /\ PInv => DestroyedIsEmpty
  BY QInvDestroyed
<1> QED
  BY <1>1, Invariants, PTL

\* No wakeup is lost in dispatch() (task.c:1059-1070): while workers may take
\* tasks, a worker sleeps on work_available only if for every queued task there
\* is an awake worker at the head of its loop, although requeueing a task, the
\* walk in isc_taskmgr_destroy() and a push in privileged mode signal nobody.
THEOREM NoWakeupIsLost == Spec => []NoLostWakeup
<1>1. Init => NoLostWakeup
  <2>1. SUFFICES ASSUME Init PROVE \A w \in Workers : pc[w] # "wait"
    BY DEF NoLostWakeup
  <2>2. pc = [th \in Threads |-> IF th \in Workers THEN "top" ELSE "app"]
    BY <2>1 DEF Init
  <2>3. \A w \in Workers : w \in Threads
    BY DEF Threads
  <2> QED BY <2>2, <2>3
<1>2. IInv /\ QInv /\ NoLostWakeup /\ [Next]_vars => NoLostWakeup'
  BY NextWake
<1> QED
  BY <1>1, <1>2, Invariants, PTL DEF Spec

\* The task system of task.c, with its two locks, worker threads, queues and
\* modes, implements the serial queue of TaskSpec for any number of tasks,
\* workers, clients and events: a task executes its events one at a time in the
\* order they were sent, shutdown events last, and is freed only when it is
\* empty and unreferenced.
THEOREM TaskSystemIsSerial == Spec => ImplementsTaskSpec
<1>1. Init => Abstract!Init
  BY InitRefines
<1>2. IInv /\ QInv /\ PInv /\ [Next]_vars => [Abstract!Next]_(Abstract!vars)
  BY NextRefines
<1> QED
  BY <1>1, <1>2, Invariants, PTL DEF Spec, ImplementsTaskSpec, Abstract!Spec
=============================================================================
