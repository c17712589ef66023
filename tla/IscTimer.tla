------------------------------ MODULE IscTimer ------------------------------
(***************************************************************************)
(* The timer manager of lib/isc/timer.c as it is built here (a thread of   *)
(* its own, run(), that serves all timers).                                *)
(*                                                                         *)
(* One action is one critical section.  A call that takes the time before  *)
(* it takes the manager lock is two actions, since the lock may come late. *)
(* run() has the manager lock while it is at "dispatch" or "fire"; the     *)
(* operations that need only a timer's own lock (touch, attach, the first  *)
(* half of detach) get in between.  Times are whole seconds, 0 is the      *)
(* epoch, which stands for "none".                                         *)
(***************************************************************************)
EXTENDS HeapOps

CONSTANTS
    Timers,     \* the identities of timers; each is allocated once
    Clients,    \* the threads that use them
    Settings,   \* the parameters callers choose: type, expires, interval
    Memory,     \* what an allocation may return: TRUE, or FALSE as well
    TimeMax,    \* the largest time that can be represented (UINT_MAX)
    Watchdog,   \* the 15 seconds after which schedule() suspects the thread
    MaxRefs,    \* bound on the references to a timer
    MaxResets   \* bound on the resets of all timers

\* What isc_timer_create() and isc_timer_reset() REQUIRE of the parameters,
\* which are times that can be represented.
Valid(s) ==
    /\ s.type \in {"ticker", "once", "limited", "inactive"}
    /\ s.expires \in 0 .. TimeMax /\ s.interval \in 0 .. TimeMax
    /\ s.type # "inactive" => s.expires # 0 \/ s.interval # 0
    /\ s.type = "limited" => s.expires # 0 /\ s.interval # 0

ASSUME TimerAssumption ==
    /\ IsFiniteSet(Timers) /\ IsFiniteSet(Clients)
    /\ \A s \in Settings : Valid(s)
    /\ Memory \subseteq BOOLEAN /\ TRUE \in Memory
    /\ TimeMax \in Nat \ {0} /\ Watchdog \in Nat
    /\ MaxRefs \in Nat \ {0} /\ MaxResets \in Nat

VARIABLES
    timers,     \* manager->timers: the timers that exist
    fresh,      \* identities not allocated yet
    refs,       \* timer->references
    setting,    \* timer->type, ->expires, ->interval
    idle,       \* timer->idle
    sched,      \* manager->heap, timer->due and manager->nscheduled
    mdue,       \* manager->due
    done,       \* manager->done
    clock,      \* the time of day
    pc,         \* where run() is
    now,        \* run()'s now, while it is in dispatch()
    verdict,    \* what dispatch() decided for the timer at the head
    call,       \* for each client what is left of the call it is inside
    queue,      \* what events are posted to the timers' task and not taken yet
    era,        \* history: how often the timer was reset
    purged      \* history: the era of the last reset that purged

timervars == <<timers, fresh, refs, setting, idle>>
runvars == <<mdue, now, verdict>>
history == <<era, purged>>
vars == <<timervars, sched, runvars, done, clock, pc, call, queue, history>>

Unset == [type |-> "inactive", expires |-> 0, interval |-> 0]

NoCall == [op |-> "none"]

Init ==
    /\ timers = {} /\ fresh = Timers
    /\ refs = [t \in Timers |-> 0]
    /\ setting = [t \in Timers |-> Unset]
    /\ idle = [t \in Timers |-> 0]
    /\ sched = [heap |-> [array |-> <<>>, index |-> [t \in Timers |-> 0]],
                due |-> [t \in Timers |-> 0], nscheduled |-> 0]
    /\ mdue = 0 /\ done = FALSE /\ clock = 1
    /\ pc = "top" /\ now = 0 /\ verdict = "none"
    /\ call = [c \in Clients |-> NoCall]
    /\ queue = {}
    /\ era = [t \in Timers |-> 0] /\ purged = [t \in Timers |-> 0]

-----------------------------------------------------------------------------
(* Helpers *)

\* isc_time_add() succeeds.
Fits(t, i) == t + i <= TimeMax

Earlier(a, b) == IF a < b THEN a ELSE b

\* The timer at the head of the heap; timer->index of any timer.
head == isc_heap_element(sched.heap, 1)
index(t) == sched.heap.index[t]

\* run() holds manager->lock.
ManagerBusy == pc \in {"dispatch", "fire"}

\* SIGNAL(&manager->wakeup)
signal(p) == IF p \in {"wait", "waituntil"} THEN "top" ELSE p

\* isc_task_purgerange(timer->task, timer, ...)
purgerange(t) == {e \in queue : e.timer # t}

\* timer->idle as create and reset set it.  A once timer with an interval
\* needs a time that can be represented.
IdleFails(s, n) == s.type = "once" /\ s.interval # 0 /\ ~Fits(n, s.interval)
IdleTime(s, n) == IF s.type = "once" /\ s.interval # 0 THEN n + s.interval ELSE 0

\* Mutant: the life time prevails over an idle time that comes first.
DueTime_life(s, idl, n) ==
    CASE s.type = "ticker"  -> n + s.interval
      [] s.type = "limited" -> Earlier(n + s.interval, s.expires)
      [] OTHER              -> IF s.expires = 0 THEN idl ELSE s.expires

\* schedule(): the new due time; a once timer that has both ends at the first.
DueTime(s, idl, n) ==
    CASE s.type = "ticker"  -> n + s.interval
      [] s.type = "limited" -> Earlier(n + s.interval, s.expires)
      [] OTHER              -> IF idl = 0 THEN s.expires
                               ELSE IF s.expires = 0 THEN idl ELSE Earlier(idl, s.expires)

\* schedule(): put t into the heap q, or move it; `room' tells whether the
\* heap could grow.  A failure leaves t where it was.
schedule(q, t, s, idl, n, room) ==
    LET d == DueTime(s, idl, n)
        new == [q.due EXCEPT ![t] = d]
        i == q.heap.index[t]
    IN  IF s.type # "once" /\ ~Fits(n, s.interval) THEN [ok |-> FALSE, q |-> q]
        ELSE IF i > 0
        THEN [ok |-> TRUE,
              q |-> [heap |-> IF d < q.due[t] THEN isc_heap_increased(q.heap, i, new)
                              ELSE IF d > q.due[t] THEN isc_heap_decreased(q.heap, i, new)
                              ELSE q.heap,
                     due |-> new, nscheduled |-> q.nscheduled]]
        ELSE IF ~room THEN [ok |-> FALSE, q |-> [q EXCEPT !.due = new]]
        ELSE [ok |-> TRUE,
              q |-> [heap |-> isc_heap_insert(q.heap, t, new), due |-> new,
                     nscheduled |-> q.nscheduled + 1]]

\* Mutant: the thread is told only of the first timer.
NeedSignal_first(r, t, n) == r.ok /\ r.q.nscheduled = 1

\* schedule(): the thread is told of a timer that became the head, or when it
\* seems to have overslept.
NeedSignal(r, t, n) ==
    /\ r.ok
    /\ \/ r.q.heap.index[t] = 1
       \/ sched.nscheduled > 0 /\ mdue # 0 /\ Fits(mdue, Watchdog) /\ mdue + Watchdog < n

\* Take t out of the heap, as dispatch() and deschedule() do.
Removed(q, t) ==
    [q EXCEPT !.heap = [isc_heap_delete(@, @.index[t], q.due) EXCEPT !.index[t] = 0],
              !.nscheduled = @ - 1]

deschedule(t) == IF index(t) > 0 THEN Removed(sched, t) ELSE sched

\* A caller has a reference that no other call under way relies on.
Holds(c, t) ==
    refs[t] > Cardinality({d \in Clients \ {c} : call[d].op = "reset" /\ call[d].timer = t})

-----------------------------------------------------------------------------
(* The operations of clients. *)

\* TIME_NOW(), which is not asked for an inactive timer.
TimeFor(s) == IF s.type = "inactive" THEN 0 ELSE clock

\* isc_timer_create() up to the manager lock ...
create_enter(c, t, s) ==
    /\ call[c] = NoCall /\ t \in fresh /\ ~done
    /\ \A d \in Clients : call[d].op = "create" => call[d].timer # t
    /\ call' = [call EXCEPT ![c] = [op |-> "create", timer |-> t, s |-> s, n |-> TimeFor(s)]]
    /\ UNCHANGED <<timervars, sched, runvars, done, clock, pc, queue, history>>

\* ... and from there on.  A timer that cannot be scheduled is not created.
isc__timer_create(c) ==
    /\ call[c].op = "create" /\ ~ManagerBusy
    /\ call' = [call EXCEPT ![c] = NoCall]
    /\ LET t == call[c].timer
           s == call[c].s
           n == call[c].n
           r(room) == IF s.type = "inactive" THEN [ok |-> TRUE, q |-> sched]
                      ELSE schedule(sched, t, s, IdleTime(s, n), n, room)
       IN  \E room \in Memory :
             \/ /\ ~IdleFails(s, n) /\ r(room).ok
                /\ timers' = timers \cup {t} /\ fresh' = fresh \ {t}
                /\ refs' = [refs EXCEPT ![t] = 1]
                /\ setting' = [setting EXCEPT ![t] = s]
                /\ idle' = [idle EXCEPT ![t] = IdleTime(s, n)]
                /\ sched' = r(room).q
                /\ pc' = IF s.type # "inactive" /\ NeedSignal(r(room), t, n)
                         THEN signal(pc) ELSE pc
             \/ /\ IdleFails(s, n) \/ ~r(room).ok
                /\ UNCHANGED <<timervars, sched, pc>>
    /\ UNCHANGED <<runvars, done, clock, queue, history>>

\* How often timers were reset or are being reset.
Resets == SumFunction(era) + Cardinality({c \in Clients : call[c].op = "reset"})

\* isc_timer_reset() up to the locks ...
reset_enter(c, t, s, purge) ==
    /\ call[c] = NoCall /\ Holds(c, t) /\ Resets < MaxResets
    /\ call' = [call EXCEPT ![c] = [op |-> "reset", timer |-> t, s |-> s, n |-> TimeFor(s),
                                    purge |-> purge]]
    /\ UNCHANGED <<timervars, sched, runvars, done, clock, pc, queue, history>>

\* ... and under them.  The parameters stay changed when scheduling fails.
isc__timer_reset(c) ==
    /\ call[c].op = "reset" /\ ~ManagerBusy
    /\ call' = [call EXCEPT ![c] = NoCall]
    /\ LET t == call[c].timer
           s == call[c].s
           n == call[c].n
           r(room) == schedule(sched, t, s, IdleTime(s, n), n, room)
       IN  /\ queue' = IF call[c].purge THEN purgerange(t) ELSE queue
           /\ era' = [era EXCEPT ![t] = @ + 1]
           /\ purged' = IF call[c].purge THEN [purged EXCEPT ![t] = era[t] + 1] ELSE purged
           /\ setting' = [setting EXCEPT ![t] = s]
           /\ \/ IdleFails(s, n) /\ UNCHANGED <<idle, sched, pc>>
              \/ /\ ~IdleFails(s, n)
                 /\ idle' = [idle EXCEPT ![t] = IdleTime(s, n)]
                 /\ \/ /\ s.type = "inactive"
                       /\ sched' = deschedule(t)
                       /\ pc' = IF index(t) = 1 THEN signal(pc) ELSE pc
                    \/ /\ s.type # "inactive"
                       /\ \E room \in Memory :
                            /\ sched' = r(room).q
                            /\ pc' = IF NeedSignal(r(room), t, n) THEN signal(pc) ELSE pc
    /\ UNCHANGED <<timers, fresh, refs, runvars, done, clock>>

\* Only the timer's own lock: the heap is not told.  Callers touch once timers
\* (timer.h), which the code would like to REQUIRE and cannot.
isc__timer_touch(c, t) ==
    /\ call[c] = NoCall /\ Holds(c, t) /\ setting[t].type = "once"
    /\ idle' = IF Fits(clock, setting[t].interval)
               THEN [idle EXCEPT ![t] = clock + setting[t].interval] ELSE idle
    /\ UNCHANGED <<timers, fresh, refs, setting, sched, runvars, done, clock, pc, call,
                   queue, history>>

isc__timer_attach(c, t) ==
    /\ call[c] = NoCall /\ Holds(c, t) /\ refs[t] < MaxRefs
    /\ refs' = [refs EXCEPT ![t] = @ + 1]
    /\ UNCHANGED <<timers, fresh, setting, idle, sched, runvars, done, clock, pc, call,
                   queue, history>>

isc__timer_detach(c, t) ==
    /\ call[c] = NoCall /\ Holds(c, t)
    /\ refs' = [refs EXCEPT ![t] = @ - 1]
    /\ call' = IF refs[t] = 1 THEN [call EXCEPT ![c] = [op |-> "destroy", timer |-> t]] ELSE call
    /\ UNCHANGED <<timers, fresh, setting, idle, sched, runvars, done, clock, pc, queue, history>>

\* Mutant: the events are not purged.
destroy_unpurged(c) ==
    /\ call[c].op = "destroy" /\ ~ManagerBusy
    /\ LET t == call[c].timer
       IN  /\ sched' = [deschedule(t) EXCEPT !.due[t] = 0]
           /\ timers' = timers \ {t}
           /\ setting' = [setting EXCEPT ![t] = Unset]
           /\ idle' = [idle EXCEPT ![t] = 0]
    /\ pc' = signal(pc)
    /\ call' = [call EXCEPT ![c] = NoCall]
    /\ UNCHANGED <<queue, fresh, refs, runvars, done, clock, history>>

\* destroy(): nobody has a reference, but run() knows the timer until it is
\* out of the heap.  Its fields go with its memory.
destroy(c) ==
    /\ call[c].op = "destroy" /\ ~ManagerBusy
    /\ LET t == call[c].timer
       IN  /\ queue' = purgerange(t)
           /\ sched' = [deschedule(t) EXCEPT !.due[t] = 0]
           /\ pc' = IF index(t) = 1 THEN signal(pc) ELSE pc
           /\ timers' = timers \ {t}
           /\ setting' = [setting EXCEPT ![t] = Unset]
           /\ idle' = [idle EXCEPT ![t] = 0]
    /\ call' = [call EXCEPT ![c] = NoCall]
    /\ UNCHANGED <<fresh, refs, runvars, done, clock, history>>

\* SIGNAL without the lock.  A spurious wakeup does the same.
isc__timermgr_poke ==
    /\ pc \in {"wait", "waituntil"}
    /\ pc' = signal(pc)
    /\ UNCHANGED <<timervars, sched, runvars, done, clock, call, queue, history>>

\* Called once, when there are no timers and nobody is creating one; then
\* waits for run() to end.
isc__timermgr_destroy(c) ==
    /\ call[c] = NoCall /\ ~ManagerBusy /\ ~done /\ timers = {}
    /\ \A d \in Clients : call[d] = NoCall
    /\ done' = TRUE
    /\ pc' = signal(pc)
    /\ call' = [call EXCEPT ![c] = [op |-> "join"]]
    /\ UNCHANGED <<timervars, sched, runvars, clock, queue, history>>

destroy_join(c) ==
    /\ call[c].op = "join" /\ pc = "exit"
    /\ call' = [call EXCEPT ![c] = NoCall]
    /\ UNCHANGED <<timervars, sched, runvars, done, clock, pc, queue, history>>

-----------------------------------------------------------------------------
(* run() *)

\* The head of the loop.
run_top ==
    /\ pc = "top"
    /\ IF done THEN pc' = "exit" /\ now' = 0
       ELSE pc' = "dispatch" /\ now' = clock
    /\ UNCHANGED <<timervars, sched, mdue, verdict, done, clock, call, queue, history>>

\* dispatch(): what is due at the head of the heap.  timer->idle is read under
\* the timer's lock, which is then released.
Verdict(t) ==
    LET s == setting[t]
        over(time) == time # 0 /\ now >= time
    IN  CASE s.type = "ticker" -> "TICK"
          [] s.type = "limited" -> IF now >= s.expires THEN "LIFE" ELSE "TICK"
          [] OTHER -> IF over(s.expires) THEN "LIFE"
                      ELSE IF over(idle[t]) THEN "IDLE" ELSE "touched"

dispatch_look ==
    /\ pc = "dispatch" /\ sched.nscheduled > 0 /\ now >= sched.due[head]
    /\ verdict' = Verdict(head)
    /\ pc' = "fire"
    /\ UNCHANGED <<timervars, sched, mdue, now, done, clock, call, queue, history>>

\* Mutant: the timer always returns to the heap.
dispatch_fire_again ==
    /\ pc = "fire"
    /\ LET t == head
           event == [timer |-> t, type |-> verdict, era |-> era[t]]
       IN  /\ queue' = IF verdict = "touched" THEN queue ELSE queue \cup {event}
           /\ sched' = schedule(Removed(sched, t), t, setting[t], idle[t], now, TRUE).q
    /\ pc' = "dispatch" /\ verdict' = "none"
    /\ UNCHANGED <<timervars, mdue, now, done, clock, call, history>>

\* dispatch(): the event is posted (unless it cannot be allocated), the timer
\* leaves the heap and returns to it if there is more to come.  schedule()
\* reads timer->idle without the timer's lock.
dispatch_fire ==
    /\ pc = "fire"
    /\ LET t == head
           event == [timer |-> t, type |-> verdict, era |-> era[t]]
           rest == Removed(sched, t)
       IN  /\ IF verdict = "touched" THEN queue' = queue
              ELSE \E ok \in Memory : queue' = IF ok THEN queue \cup {event} ELSE queue
           /\ sched' = IF verdict \in {"TICK", "touched"}
                       THEN schedule(rest, t, setting[t], idle[t], now, TRUE).q
                       ELSE rest
    /\ pc' = "dispatch" /\ verdict' = "none"
    /\ UNCHANGED <<timervars, mdue, now, done, clock, call, history>>

\* Nothing more is due: sleep, until the next timer is if there is one.
run_wait ==
    /\ pc = "dispatch"
    /\ \/ /\ sched.nscheduled = 0
          /\ pc' = "wait" /\ mdue' = mdue
       \/ /\ sched.nscheduled > 0 /\ now < sched.due[head]
          /\ pc' = "waituntil" /\ mdue' = sched.due[head]
    /\ now' = 0
    /\ UNCHANGED <<timervars, sched, verdict, done, clock, call, queue, history>>

\* pthread_cond_timedwait() returns because of the time.
timedout ==
    /\ pc = "waituntil" /\ clock >= mdue
    /\ pc' = "top"
    /\ UNCHANGED <<timervars, sched, runvars, done, clock, call, queue, history>>

-----------------------------------------------------------------------------
(* The world *)

Tick ==
    /\ clock < TimeMax
    /\ clock' = clock + 1
    /\ UNCHANGED <<timervars, sched, runvars, done, pc, call, queue, history>>

\* The timers' task takes the last event that is like e.
task_take ==
    /\ \E e \in queue : queue' = queue \ {e}
    /\ UNCHANGED <<timervars, sched, runvars, done, clock, pc, call, history>>

Run == run_top \/ dispatch_look \/ dispatch_fire \/ run_wait \/ timedout

CallStep(c) == isc__timer_create(c) \/ isc__timer_reset(c) \/ destroy(c) \/ destroy_join(c)

Call(c) ==
    \/ \E t \in Timers :
         \/ \E s \in Settings : \/ create_enter(c, t, s)
                                \/ \E purge \in BOOLEAN : reset_enter(c, t, s, purge)
         \/ isc__timer_touch(c, t) \/ isc__timer_attach(c, t) \/ isc__timer_detach(c, t)
    \/ isc__timermgr_destroy(c)

Next == Run \/ (\E c \in Clients : Call(c) \/ CallStep(c)) \/ isc__timermgr_poke \/ Tick \/ task_take

Spec == Init /\ [][Next]_vars

-----------------------------------------------------------------------------
(* Properties *)

Times == 0 .. TimeMax

TypeOK ==
    /\ timers \subseteq Timers /\ fresh \subseteq Timers
    /\ refs \in [Timers -> 0 .. MaxRefs]
    /\ setting \in [Timers -> Settings \cup {Unset}]
    /\ idle \in [Timers -> Times]
    /\ DOMAIN sched.heap.array = 1 .. sched.nscheduled
    /\ \A i \in DOMAIN sched.heap.array : sched.heap.array[i] \in Timers
    /\ sched.heap.index \in [Timers -> 0 .. Cardinality(Timers)]
    /\ sched.due \in [Timers -> Times]
    /\ mdue \in Times /\ now \in Times /\ clock \in 1 .. TimeMax /\ done \in BOOLEAN
    /\ pc \in {"top", "dispatch", "fire", "wait", "waituntil", "exit"}
    /\ verdict \in {"none", "TICK", "LIFE", "IDLE", "touched"}
    /\ queue \subseteq [timer : Timers, type : {"TICK", "LIFE", "IDLE"}, era : Nat]
    /\ era \in [Timers -> Nat] /\ purged \in [Timers -> Nat]

(* HEAPCONDITION (heap.c:59) holds for every element, and each timer knows  *)
(* where it is: schedule() and deschedule() use timer->index to find it.    *)
HeapConsistent ==
    /\ IsHeap(sched.heap, sched.due)
    /\ \A t \in Timers : index(t) > 0 =>
         index(t) <= Len(sched.heap.array) /\ sched.heap.array[index(t)] = t

(* What dispatch() finds in the heap exists and is active (the INSIST at    *)
(* timer.c:695), although timers are reset and destroyed at any time.       *)
OnlyActive ==
    \A t \in Timers : index(t) > 0 => t \in timers /\ setting[t].type # "inactive"

\* All heaps of up to six elements, three levels deep.
SmallHeapsKept == HeapOpsCorrect(6, 3)

(* The timers' heap stays ordered, every timer knows its place in it, and   *)
(* what dispatch() finds there exists and is active (the INSIST at          *)
(* timer.c:695), although timers are reset and destroyed at any time:       *)
(* float_up() and sink_down() restore HEAPCONDITION and tell every element  *)
(* that moved, also in heaps larger than the one of this instance.          *)
HeapKeepsOrder == TypeOK /\ HeapConsistent /\ OnlyActive /\ SmallHeapsKept

(* What is purged is gone: a timer that is destroyed leaves no event behind *)
(* whose sender it is, also if run() posted one after the last reference    *)
(* was gone (timer.h: "Any events already posted by the timer will be       *)
(* purged"), and after a reset that purges no event of an earlier setting   *)
(* is in the queue, nor does one come later.                                *)
PurgeIsFinal == \A e \in queue : e.timer \in timers /\ e.era >= purged[e.timer]

(* run() never sleeps past a timer: who makes a timer the next one wakes it.*)
(* Nor does it sleep once the manager is being destroyed: it ends.          *)
WakesInTime ==
    pc \in {"wait", "waituntil"} =>
        /\ ~done
        /\ \A t \in Timers : index(t) > 0 => pc = "waituntil" /\ mdue <= sched.due[t]

(* A scheduled timer is not due later than its parameters say, however it   *)
(* was reset and touched.  (Not when the clock is so late that a sum cannot *)
(* be represented: then a reset fails and the timer keeps its old time.)    *)
NotLate ==
    \A t \in Timers : index(t) > 0 /\ Fits(clock, setting[t].interval) =>
        LET s == setting[t]
        IN  /\ s.type # "once" => sched.due[t] <= clock + s.interval
            /\ s.type # "ticker" /\ s.expires # 0 => sched.due[t] <= s.expires
            /\ s.type = "once" /\ s.interval # 0 => sched.due[t] <= idle[t]

(* A life or idle timeout is the end: the timer is not scheduled again      *)
(* unless it is reset.                                                      *)
TimeoutIsLast ==
    \A e \in queue : e.type # "TICK" /\ e.era = era[e.timer] => index(e.timer) = 0
=============================================================================
