--------------------------- MODULE IscTimerProofs ---------------------------
(***************************************************************************)
(* Proofs about the timer manager of IscTimer, for any finite sets of      *)
(* timers and clients and any settings that isc_timer_create() accepts:    *)
(* the heap stays ordered and active, run() wakes in time, a timer is not  *)
(* late, what is purged is gone and a timeout is the last event.           *)
(*                                                                         *)
(* The inductive invariant is TInv.  Each critical section is summarized   *)
(* once (CreateIs, ResetIs, DestroyIs, FireIs: at most one timer moves,    *)
(* and run() is woken if it becomes the head); the parts of TInv are then  *)
(* proved from the summaries.                                              *)
(***************************************************************************)
EXTENDS IscTimer, DataProofs

-----------------------------------------------------------------------------
(* The invariant *)

QueueOK(q) ==
    /\ q = [heap |-> q.heap, due |-> q.due, nscheduled |-> q.nscheduled]
    /\ Sound(Timers, q.nscheduled, q.heap, q.due)
    /\ q.due \in [Timers -> Times]

CallOK(x) ==
    /\ x.op \in {"none", "create", "reset", "destroy", "join"}
    /\ x.op \in {"create", "reset"} => x.timer \in Timers /\ x.s \in Settings /\ x.n \in 0 .. clock
    /\ x.op = "reset" => x.purge \in BOOLEAN
    /\ x.op = "destroy" => x.timer \in Timers

Types ==
    /\ timers \subseteq Timers /\ fresh \subseteq Timers
    /\ refs \in [Timers -> 0 .. MaxRefs]
    /\ setting \in [Timers -> Settings \cup {Unset}]
    /\ idle \in [Timers -> Times]
    /\ QueueOK(sched)
    /\ mdue \in Times /\ now \in 0 .. clock /\ clock \in 1 .. TimeMax /\ done \in BOOLEAN
    /\ pc \in {"top", "dispatch", "fire", "wait", "waituntil", "exit"}
    /\ verdict \in {"none", "TICK", "LIFE", "IDLE", "touched"}
    /\ queue \subseteq [timer : Timers, type : {"TICK", "LIFE", "IDLE"}, era : Nat]
    /\ era \in [Timers -> Nat] /\ purged \in [Timers -> Nat]
    /\ DOMAIN call = Clients
    /\ \A c \in Clients : CallOK(call[c])

\* The calls of isc_timer_reset() for t that are under way.
Users(t) == {c \in Clients : call[c].op = "reset" /\ call[c].timer = t}

Handles ==
    /\ fresh \cap timers = {}
    /\ \A c \in Clients : call[c].op = "create" => call[c].timer \in fresh
    /\ \A c, d \in Clients : call[c].op = "create" /\ call[d].op = "create"
                             /\ call[c].timer = call[d].timer => c = d
    /\ \A t \in Timers : refs[t] > 0 => t \in timers
    /\ \A c \in Clients : call[c].op = "destroy" => call[c].timer \in timers /\ refs[call[c].timer] = 0
    /\ \A c, d \in Clients : call[c].op = "destroy" /\ call[d].op = "destroy"
                             /\ call[c].timer = call[d].timer => c = d
    /\ \A t \in Timers : Cardinality(Users(t)) <= refs[t]

\* run() does not end while the manager is not being destroyed ...
Alive == pc \in {"dispatch", "fire", "wait", "waituntil"} => ~done

\* and what dispatch() found is still there when it acts.
Firing ==
    pc = "fire" => sched.nscheduled > 0 /\ verdict # "none"

Eras ==
    /\ \A t \in Timers : purged[t] <= era[t]
    /\ \A e \in queue : e.era <= era[e.timer]

\* The time a once timer may be idle is not over yet when it is touched.
IdleFits ==
    \A t \in Timers : index(t) > 0 /\ Fits(clock, setting[t].interval)
                      /\ setting[t].type = "once" /\ setting[t].interval # 0 =>
        idle[t] > 0 /\ idle[t] <= clock + setting[t].interval

TInv == Types /\ Handles /\ OnlyActive /\ Alive /\ Firing /\ Eras /\ PurgeIsFinal /\ TimeoutIsLast
        /\ WakesInTime /\ IdleFits /\ NotLate

-----------------------------------------------------------------------------
(* schedule() and deschedule() *)

\* A queue in terms of its parts.
LEMMA QueueParts ==
    ASSUME NEW q, QueueOK(q)
    PROVE  /\ q.nscheduled \in Nat /\ q.heap \in Heaps(Timers, q.nscheduled)
           /\ q.heap.index \in [Timers -> Nat] /\ q.due \in [Timers -> Nat]
           /\ q.heap.array \in [1 .. q.nscheduled -> Timers]
  BY DEF QueueOK, Sound, Heaps

\* All timers but t are where they were.
Others(q, r, t) ==
    \A u \in Timers \ {t} : /\ r.heap.index[u] # 0 <=> q.heap.index[u] # 0
                            /\ r.due[u] = q.due[u]

\* A timer leaves the heap.
LEMMA RemovedIs ==
    ASSUME NEW q, QueueOK(q), NEW t \in Timers, q.heap.index[t] # 0
    PROVE  /\ QueueOK(Removed(q, t)) /\ Others(q, Removed(q, t), t)
           /\ Removed(q, t).heap.index[t] = 0 /\ Removed(q, t).due = q.due
<1>1. PICK h, due, n : q = [heap |-> h, due |-> due, nscheduled |-> n]
                       /\ h = q.heap /\ due = q.due /\ n = q.nscheduled
  BY DEF QueueOK
<1>2. Sound(Timers, n, h, due) /\ due \in [Timers -> Times] /\ h.index[t] # 0
  BY <1>1 DEF QueueOK
<1>3. PICK r : r = Forgotten(isc_heap_delete(h, h.index[t], due), t)
  OBVIOUS
<1>4. n > 0 /\ Sans(Timers, n - 1, r, due, h, t)
  BY <1>2, <1>3, DeleteIs
<1>5. Removed(q, t) = [heap |-> r, due |-> due, nscheduled |-> n - 1]
  <2>1. Removed(q, t) = [q EXCEPT !.heap = Forgotten(isc_heap_delete(q.heap, q.heap.index[t], q.due), t),
                                  !.nscheduled = q.nscheduled - 1]
    BY DEF Removed, Forgotten
  <2>2. Removed(q, t) = [q EXCEPT !.heap = r, !.nscheduled = n - 1]
    BY <1>1, <1>3, <2>1
  <2> QED BY <1>1, <2>2
<1>6. Sound(Timers, n - 1, r, due) /\ r.index[t] = 0
      /\ \A e \in Timers : e # t => (r.index[e] # 0 <=> h.index[e] # 0)
  BY <1>4 DEF Sans
<1> QED BY <1>1, <1>2, <1>5, <1>6 DEF QueueOK, Others

\* The times that schedule() chooses.
LEMMA DueIs ==
    ASSUME NEW s \in Settings, s.type # "inactive", NEW idl \in Times, NEW n \in Times,
           s.type = "once" \/ Fits(n, s.interval)
    PROVE  /\ DueTime(s, idl, n) \in Times
           /\ s.type # "once" => DueTime(s, idl, n) <= n + s.interval
           /\ s.type # "ticker" /\ s.expires # 0 => DueTime(s, idl, n) <= s.expires
           /\ s.type = "once" /\ idl # 0 => DueTime(s, idl, n) <= idl
<1>1. /\ s.type \in {"ticker", "once", "limited"} /\ TimeMax \in Nat
      /\ s.expires \in 0 .. TimeMax /\ s.interval \in 0 .. TimeMax
  BY TimerAssumption DEF Valid
<1>2. PICK d : d = DueTime(s, idl, n)
  OBVIOUS
<1>3. PICK x, i \in Nat : x = s.expires /\ i = s.interval /\ x <= TimeMax /\ i <= TimeMax
  BY <1>1
<1>4. idl \in Nat /\ n \in Nat /\ idl <= TimeMax
  BY <1>1 DEF Times
<1>5. CASE s.type = "ticker"
  <2>1. d = n + i /\ n + i <= TimeMax
    <3>1. d = n + i
      BY <1>2, <1>3, <1>5 DEF DueTime
    <3>2. n + i <= TimeMax
      BY <1>3, <1>5 DEF Fits
    <3> QED BY <3>1, <3>2
  <2> QED BY <1>1, <1>2, <1>3, <1>4, <1>5, <2>1 DEF Times
<1>6. CASE s.type = "limited"
  <2>1. d = (IF n + i < x THEN n + i ELSE x) /\ n + i <= TimeMax
    <3>1. d = IF n + i < x THEN n + i ELSE x
      BY <1>2, <1>3, <1>6 DEF DueTime, Earlier
    <3>2. n + i <= TimeMax
      BY <1>3, <1>6 DEF Fits
    <3> QED BY <3>1, <3>2
  <2> QED BY <1>1, <1>2, <1>3, <1>4, <1>6, <2>1 DEF Times
<1>7. CASE s.type = "once"
  <2>1. d = IF idl = 0 THEN x ELSE IF x = 0 THEN idl ELSE IF idl < x THEN idl ELSE x
    <3>1. CASE idl = 0
      BY <1>2, <1>3, <1>7, <3>1 DEF DueTime
    <3>2. CASE idl # 0 /\ x = 0
      BY <1>2, <1>3, <1>7, <3>2 DEF DueTime
    <3>3. CASE idl # 0 /\ x # 0
      BY <1>2, <1>3, <1>7, <3>3 DEF DueTime, Earlier
    <3> QED BY <3>1, <3>2, <3>3
  <2> QED BY <1>1, <1>2, <1>3, <1>4, <1>7, <2>1 DEF Times
<1> QED BY <1>1, <1>5, <1>6, <1>7

\* What schedule() returns.
Scheduled(q, r, t, s, idl, n) ==
    /\ QueueOK(r.q) /\ Others(q, r.q, t) /\ r.ok \in BOOLEAN
    /\ r.ok => /\ r.q.heap.index[t] # 0 /\ r.q.due[t] = DueTime(s, idl, n)
               /\ s.type # "once" => Fits(n, s.interval)
    /\ ~r.ok => /\ r.q.heap = q.heap
                /\ q.heap.index[t] # 0 => r.q = q /\ s.type # "once" /\ ~Fits(n, s.interval)

\* schedule() keeps the heap sound and moves no other timer.
LEMMA ScheduleIs ==
    ASSUME NEW q, QueueOK(q), NEW t \in Timers, NEW s \in Settings, s.type # "inactive",
           NEW idl \in Times, NEW n \in Times, NEW room \in BOOLEAN
    PROVE  Scheduled(q, schedule(q, t, s, idl, n, room), t, s, idl, n)
<1>1. PICK h, due, k : q = [heap |-> h, due |-> due, nscheduled |-> k]
                       /\ h = q.heap /\ due = q.due /\ k = q.nscheduled
  BY DEF QueueOK
<1>q. q = [heap |-> h, due |-> due, nscheduled |-> k]
  BY <1>1
<1>2. Sound(Timers, k, h, due) /\ due \in [Timers -> Times] /\ due \in [Timers -> Nat]
  BY <1>1, QueueParts DEF QueueOK
<1>i. h.index \in [Timers -> Nat]
  BY <1>1, QueueParts
<1>3. PICK r : r = schedule(q, t, s, idl, n, room)
  OBVIOUS
<1>4. PICK d : d = DueTime(s, idl, n)
  OBVIOUS
<1>5. PICK new : new = [due EXCEPT ![t] = d]
  OBVIOUS
<1>6. r = IF s.type # "once" /\ ~Fits(n, s.interval) THEN [ok |-> FALSE, q |-> q]
          ELSE IF h.index[t] > 0
          THEN [ok |-> TRUE,
                q |-> [heap |-> IF d < due[t] THEN isc_heap_increased(h, h.index[t], new)
                                ELSE IF d > due[t] THEN isc_heap_decreased(h, h.index[t], new)
                                ELSE h,
                       due |-> new, nscheduled |-> k]]
          ELSE IF ~room THEN [ok |-> FALSE, q |-> [q EXCEPT !.due = new]]
          ELSE [ok |-> TRUE,
                q |-> [heap |-> isc_heap_insert(h, t, new), due |-> new,
                       nscheduled |-> k + 1]]
  BY <1>1, <1>3, <1>4, <1>5 DEF schedule
<1>7. CASE s.type # "once" /\ ~Fits(n, s.interval)
  <2>1. r = [ok |-> FALSE, q |-> q]
    BY <1>6, <1>7
  <2>2. r.ok = FALSE /\ r.q = q
    BY <2>1
  <2> QED BY <1>3, <1>7, <2>2 DEF Scheduled, Others
<1>8. CASE s.type = "once" \/ Fits(n, s.interval)
  <2>1. d \in Times /\ d \in Nat
    BY <1>4, <1>8, DueIs, TimerAssumption DEF Times
  <2>2. /\ new \in [Timers -> Times] /\ Changed(Timers, due, new, t) /\ new[t] = d
        /\ \A u \in Timers \ {t} : new[u] = due[u]
    BY <1>2, <1>5, <2>1 DEF Changed
  <2>3. CASE h.index[t] # 0
    <3>1. PICK g : g = IF d < due[t] THEN isc_heap_increased(h, h.index[t], new)
                       ELSE IF d > due[t] THEN isc_heap_decreased(h, h.index[t], new) ELSE h
      OBVIOUS
    <3>2. r = [ok |-> TRUE, q |-> [heap |-> g, due |-> new, nscheduled |-> k]]
      <4>1. h.index[t] > 0
        BY <1>i, <2>3
      <4> QED BY <1>6, <1>8, <3>1, <4>1
    <3>3. With(Timers, k, g, new, h, t)
      <4>1. CASE d < due[t]
        BY <1>2, <2>2, <2>3, <3>1, <4>1, IncreasedIs
      <4>2. CASE d > due[t]
        <5>1. ~(d < due[t])
          BY <1>2, <2>1, <4>2
        <5> QED BY <1>2, <2>2, <2>3, <3>1, <4>2, <5>1, DecreasedIs
      <4>3. CASE d = due[t]
        <5>1. g = h /\ new = due
          BY <1>2, <1>5, <2>1, <3>1, <4>3
        <5> QED BY <1>2, <2>3, <5>1 DEF With
      <4> QED BY <1>2, <2>1, <4>1, <4>2, <4>3
    <3>4. /\ r.ok = TRUE /\ r.q = [heap |-> g, due |-> new, nscheduled |-> k]
          /\ r.q.heap = g /\ r.q.due = new /\ r.q.nscheduled = k
      BY <3>2
    <3>5. /\ Sound(Timers, k, g, new) /\ g.index[t] # 0
          /\ \A e \in Timers : e # t => (g.index[e] # 0 <=> h.index[e] # 0)
      BY <3>3 DEF With
    <3>6. QueueOK(r.q)
      BY <2>2, <3>4, <3>5 DEF QueueOK
    <3>7. Others(q, r.q, t)
      BY <1>1, <2>2, <3>4, <3>5 DEF Others
    <3> QED BY <1>3, <1>4, <1>8, <2>2, <3>4, <3>5, <3>6, <3>7 DEF Scheduled
  <2>4. CASE h.index[t] = 0 /\ ~room
    <3>1. r = [ok |-> FALSE, q |-> [heap |-> h, due |-> new, nscheduled |-> k]]
      <4>1. [q EXCEPT !.due = new] = [heap |-> h, due |-> new, nscheduled |-> k]
        BY <1>q
      <4>2. r = [ok |-> FALSE, q |-> [q EXCEPT !.due = new]]
        <5>1. ~(h.index[t] > 0)
          BY <2>4
        <5> QED BY <1>6, <1>8, <2>4, <5>1
      <4> QED BY <4>1, <4>2
    <3>2. /\ r.ok = FALSE /\ r.q = [heap |-> h, due |-> new, nscheduled |-> k]
          /\ r.q.heap = h /\ r.q.due = new /\ r.q.nscheduled = k
      BY <3>1
    <3>3. Sound(Timers, k, h, new)
      BY <1>2, <2>2, <2>4, SoundOther
    <3>4. QueueOK(r.q)
      BY <2>2, <3>2, <3>3 DEF QueueOK
    <3>5. Others(q, r.q, t)
      BY <1>1, <2>2, <3>2 DEF Others
    <3> QED BY <1>1, <1>3, <2>4, <3>2, <3>4, <3>5 DEF Scheduled
  <2>5. CASE h.index[t] = 0 /\ room
    <3>1. PICK g : g = isc_heap_insert(h, t, new)
      OBVIOUS
    <3>2. r = [ok |-> TRUE, q |-> [heap |-> g, due |-> new, nscheduled |-> k + 1]]
      BY <1>6, <1>8, <2>5, <3>1
    <3>3. /\ r.ok = TRUE /\ r.q = [heap |-> g, due |-> new, nscheduled |-> k + 1]
          /\ r.q.heap = g /\ r.q.due = new /\ r.q.nscheduled = k + 1
      BY <3>2
    <3>4. Sound(Timers, k, h, new)
      BY <1>2, <2>2, <2>5, SoundOther
    <3>5. With(Timers, k + 1, g, new, h, t)
      BY <2>5, <3>1, <3>4, InsertIs
    <3>6. /\ Sound(Timers, k + 1, g, new) /\ g.index[t] # 0
          /\ \A e \in Timers : e # t => (g.index[e] # 0 <=> h.index[e] # 0)
      BY <3>5 DEF With
    <3>7. QueueOK(r.q)
      BY <2>2, <3>3, <3>6 DEF QueueOK
    <3>8. Others(q, r.q, t)
      BY <1>1, <2>2, <3>3, <3>6 DEF Others
    <3> QED BY <1>3, <1>4, <1>8, <2>2, <3>3, <3>6, <3>7, <3>8 DEF Scheduled
  <2> QED BY <2>3, <2>4, <2>5
<1> QED BY <1>7, <1>8

-----------------------------------------------------------------------------
(* What the critical sections do to the heap. *)

\* At most t moves, and run() is woken if t becomes the head.
Moves(t) ==
    /\ QueueOK(sched') /\ Others(sched, sched', t)
    /\ pc' \in {pc, signal(pc)}
    /\ sched'.heap.index[t] = 1 => pc' = signal(pc) \/ sched' = sched

\* t is where the setting s says if n was the time.
Placed(t, s, idl, n) ==
    sched'.heap.index[t] # 0 =>
        /\ s.type # "inactive" /\ sched'.due[t] = DueTime(s, idl, n)
        /\ s.type # "once" => Fits(n, s.interval)

\* The idle time that create and reset set.
LEMMA IdleIs ==
    ASSUME NEW s \in Settings, NEW n \in Times, ~IdleFails(s, n)
    PROVE  /\ IdleTime(s, n) \in Times
           /\ s.type = "once" /\ s.interval # 0 =>
                IdleTime(s, n) = n + s.interval /\ IdleTime(s, n) > 0
<1>1. TimeMax \in Nat /\ s.interval \in 0 .. TimeMax
  BY TimerAssumption DEF Valid
<1>2. CASE s.type = "once" /\ s.interval # 0
  <2>1. IdleTime(s, n) = n + s.interval /\ n + s.interval <= TimeMax
    BY <1>2 DEF IdleTime, IdleFails, Fits
  <2> QED BY <1>1, <1>2, <2>1 DEF Times
<1>3. CASE ~(s.type = "once" /\ s.interval # 0)
  <2>1. IdleTime(s, n) = 0
    BY <1>3 DEF IdleTime
  <2> QED BY <1>1, <1>3, <2>1 DEF Times
<1> QED BY <1>2, <1>3

\* A call that has got as far as the locks.
LEMMA CallIs ==
    ASSUME Types, NEW c \in Clients, call[c].op \in {"create", "reset"}
    PROVE  /\ call[c].timer \in Timers /\ call[c].s \in Settings /\ call[c].n \in 0 .. clock
           /\ call[c].n \in Times
<1>1. CallOK(call[c]) /\ clock \in 1 .. TimeMax
  BY DEF Types
<1> QED BY <1>1, TimerAssumption DEF CallOK, Times

\* Putting a timer into the heap and telling run() of it.
LEMMA PutIs ==
    ASSUME Types, NEW t \in Timers, NEW s \in Settings, s.type # "inactive",
           NEW idl \in Times, NEW n \in Times, NEW room \in BOOLEAN, NEW r,
           r = schedule(sched, t, s, idl, n, room),
           sched' = r.q, pc' = IF NeedSignal(r, t, n) THEN signal(pc) ELSE pc
    PROVE  /\ Moves(t) /\ Scheduled(sched, r, t, s, idl, n)
           /\ r.ok => Placed(t, s, idl, n)
<1>1. PICK q : q = sched
  OBVIOUS
<1>2. QueueOK(q)
  BY <1>1 DEF Types
<1>3. Scheduled(q, r, t, s, idl, n)
  BY <1>1, <1>2, ScheduleIs
<1>4. QueueOK(r.q) /\ Others(q, r.q, t)
  BY <1>3 DEF Scheduled
<1>5. CASE r.ok
  <2>1. r.q.heap.index[t] = 1 => pc' = signal(pc)
    BY <1>5 DEF NeedSignal
  <2>2. r.q.due[t] = DueTime(s, idl, n) /\ (s.type # "once" => Fits(n, s.interval))
    BY <1>3, <1>5 DEF Scheduled
  <2> QED BY <1>1, <1>3, <1>4, <2>1, <2>2 DEF Moves, Placed
<1>6. CASE ~r.ok
  <2>1. r.q.heap = q.heap /\ (q.heap.index[t] # 0 => r.q = q)
    BY <1>3, <1>6 DEF Scheduled
  <2>2. pc' = pc
    BY <1>6 DEF NeedSignal
  <2> QED BY <1>1, <1>3, <1>4, <1>6, <2>1, <2>2 DEF Moves
<1> QED BY <1>5, <1>6

\* Taking a timer out of it.
LEMMA TakeIs ==
    ASSUME Types, NEW t \in Timers, NEW r, r = deschedule(t)
    PROVE  QueueOK(r) /\ Others(sched, r, t) /\ r.heap.index[t] = 0 /\ r.due = sched.due
<1>1. PICK q : q = sched
  OBVIOUS
<1>2. QueueOK(q) /\ q.heap.index \in [Timers -> Nat]
  BY <1>1, QueueParts DEF Types
<1>3. CASE q.heap.index[t] # 0
  <2>1. r = Removed(q, t)
    BY <1>1, <1>2, <1>3 DEF deschedule, index
  <2> QED BY <1>1, <1>2, <1>3, <2>1, RemovedIs
<1>4. CASE q.heap.index[t] = 0
  <2>1. r = q
    BY <1>1, <1>4 DEF deschedule, index
  <2> QED BY <1>1, <1>2, <1>4, <2>1 DEF Others
<1> QED BY <1>3, <1>4

\* isc_timer_create()
LEMMA CreateIs ==
    ASSUME TInv, NEW c \in Clients, isc__timer_create(c)
    PROVE  \E t \in Timers, s \in Settings, n \in 0 .. clock :
             /\ t = call[c].timer /\ t \in fresh /\ t \notin timers /\ sched.heap.index[t] = 0
             /\ n \in Times
             /\ \/ UNCHANGED <<timervars, sched, pc>>
                \/ /\ timers' = timers \cup {t} /\ fresh' = fresh \ {t}
                   /\ refs' = [refs EXCEPT ![t] = 1]
                   /\ setting' = [setting EXCEPT ![t] = s]
                   /\ idle' = [idle EXCEPT ![t] = IdleTime(s, n)]
                   /\ ~IdleFails(s, n)
                   /\ Moves(t) /\ Placed(t, s, IdleTime(s, n), n)
<1>0. call[c].op = "create"
  BY DEF isc__timer_create
<1>1. PICK t \in Timers, s \in Settings, n \in 0 .. clock :
        t = call[c].timer /\ s = call[c].s /\ n = call[c].n /\ n \in Times
  BY <1>0, CallIs DEF TInv
<1>2. t \in fresh /\ t \notin timers
  BY <1>0, <1>1 DEF TInv, Handles
<1>3. sched.heap.index[t] = 0
  <2>1. PICK q : q = sched
    OBVIOUS
  <2>2. QueueOK(q)
    BY <2>1 DEF TInv, Types
  <2>3. q.heap.index[t] \in Nat
    BY <2>2, QueueParts
  <2>4. ~(q.heap.index[t] > 0)
    BY <1>2, <2>1 DEF TInv, OnlyActive, index
  <2> QED BY <2>1, <2>3, <2>4
<1> DEFINE r(room) == IF s.type = "inactive" THEN [ok |-> TRUE, q |-> sched]
                      ELSE schedule(sched, t, s, IdleTime(s, n), n, room)
<1>4. PICK room \in Memory :
             \/ /\ ~IdleFails(s, n) /\ r(room).ok
                /\ timers' = timers \cup {t} /\ fresh' = fresh \ {t}
                /\ refs' = [refs EXCEPT ![t] = 1]
                /\ setting' = [setting EXCEPT ![t] = s]
                /\ idle' = [idle EXCEPT ![t] = IdleTime(s, n)]
                /\ sched' = r(room).q
                /\ pc' = IF s.type # "inactive" /\ NeedSignal(r(room), t, n)
                         THEN signal(pc) ELSE pc
             \/ /\ IdleFails(s, n) \/ ~r(room).ok
                /\ UNCHANGED <<timervars, sched, pc>>
  BY <1>1 DEF isc__timer_create
<1>5. CASE UNCHANGED <<timervars, sched, pc>>
  BY <1>1, <1>2, <1>3, <1>5
<1>6. CASE /\ ~IdleFails(s, n) /\ r(room).ok
           /\ timers' = timers \cup {t} /\ fresh' = fresh \ {t}
           /\ refs' = [refs EXCEPT ![t] = 1]
           /\ setting' = [setting EXCEPT ![t] = s]
           /\ idle' = [idle EXCEPT ![t] = IdleTime(s, n)]
           /\ sched' = r(room).q
           /\ pc' = IF s.type # "inactive" /\ NeedSignal(r(room), t, n)
                    THEN signal(pc) ELSE pc
  <2>1. Moves(t) /\ Placed(t, s, IdleTime(s, n), n)
    <3>1. CASE s.type = "inactive"
      <4>1. sched' = sched /\ pc' = pc
        BY <1>6, <3>1
      <4>2. QueueOK(sched)
        BY DEF TInv, Types
      <4>3. QueueOK(sched') /\ Others(sched, sched', t)
        BY <4>1, <4>2 DEF Others
      <4> QED BY <1>3, <4>1, <4>3 DEF Moves, Placed
    <3>2. CASE s.type # "inactive"
      <4>1. PICK x : x = schedule(sched, t, s, IdleTime(s, n), n, room)
        OBVIOUS
      <4>2. /\ x.ok /\ sched' = x.q
            /\ pc' = IF NeedSignal(x, t, n) THEN signal(pc) ELSE pc
        BY <1>6, <3>2, <4>1
      <4>3. IdleTime(s, n) \in Times /\ room \in BOOLEAN /\ Types
        BY <1>1, <1>6, IdleIs, TimerAssumption DEF TInv
      <4> QED BY <1>1, <3>2, <4>1, <4>2, <4>3, PutIs
    <3> QED BY <3>1, <3>2
  <2> QED BY <1>1, <1>2, <1>3, <1>6, <2>1
<1> QED BY <1>4, <1>5, <1>6

\* A timer that is being reset exists.
LEMMA UsedExists ==
    ASSUME TInv, NEW c \in Clients, call[c].op = "reset"
    PROVE  call[c].timer \in timers
<1>1. PICK t \in Timers : t = call[c].timer
  BY CallIs DEF TInv
<1>2. c \in Users(t)
  BY <1>1 DEF Users
<1>3. IsFiniteSet(Users(t))
  BY TimerAssumption, FS_Subset DEF Users
<1>4. Cardinality(Users(t)) # 0 /\ Cardinality(Users(t)) \in Nat
  BY <1>2, <1>3, FS_EmptySet, FS_CardinalityType
<1>5. Cardinality(Users(t)) <= refs[t] /\ refs[t] \in Nat
  BY TimerAssumption DEF TInv, Handles, Types
<1>6. refs[t] > 0
  BY <1>4, <1>5
<1> QED BY <1>1, <1>6 DEF TInv, Handles

\* isc_timer_reset()
LEMMA ResetIs ==
    ASSUME TInv, NEW c \in Clients, isc__timer_reset(c)
    PROVE  \E t \in Timers, s \in Settings, n \in 0 .. clock, idl \in Times :
             /\ t = call[c].timer /\ t \in timers /\ n \in Times
             /\ setting' = [setting EXCEPT ![t] = s]
             /\ idle' = [idle EXCEPT ![t] = idl]
             /\ Moves(t)
             /\ sched'.heap.index[t] # 0 => s.type # "inactive"
             /\ \/ ~Fits(n, s.interval) /\ UNCHANGED sched
                \/ ~IdleFails(s, n) /\ idl = IdleTime(s, n) /\ Placed(t, s, idl, n)
<1>0. call[c].op = "reset"
  BY DEF isc__timer_reset
<1>1. PICK t \in Timers, s \in Settings, n \in 0 .. clock :
        t = call[c].timer /\ s = call[c].s /\ n = call[c].n /\ n \in Times
  BY <1>0, CallIs DEF TInv
<1>2. t \in timers /\ Types
  BY <1>0, <1>1, UsedExists DEF TInv
<1>3. setting' = [setting EXCEPT ![t] = s]
  BY <1>1 DEF isc__timer_reset
<1> DEFINE r(room) == schedule(sched, t, s, IdleTime(s, n), n, room)
<1>4. \/ IdleFails(s, n) /\ UNCHANGED <<idle, sched, pc>>
      \/ /\ ~IdleFails(s, n)
         /\ idle' = [idle EXCEPT ![t] = IdleTime(s, n)]
         /\ \/ /\ s.type = "inactive"
               /\ sched' = deschedule(t)
               /\ pc' = IF index(t) = 1 THEN signal(pc) ELSE pc
            \/ /\ s.type # "inactive"
               /\ \E room \in Memory :
                    /\ sched' = r(room).q
                    /\ pc' = IF NeedSignal(r(room), t, n) THEN signal(pc) ELSE pc
  BY <1>1 DEF isc__timer_reset
<1>5. CASE IdleFails(s, n) /\ UNCHANGED <<idle, sched, pc>>
  <2>1. s.type = "once" /\ ~Fits(n, s.interval)
    BY <1>5 DEF IdleFails
  <2>2. idle[t] \in Times /\ idle' = [idle EXCEPT ![t] = idle[t]]
    BY <1>2, <1>5 DEF Types
  <2>3. Moves(t)
    <3>1. QueueOK(sched) /\ sched' = sched /\ pc' = pc
      BY <1>2, <1>5 DEF Types
    <3>2. QueueOK(sched') /\ Others(sched, sched', t)
      BY <3>1 DEF Others
    <3> QED BY <3>1, <3>2 DEF Moves
  <2> QED BY <1>1, <1>2, <1>3, <1>5, <2>1, <2>2, <2>3
<1>6. CASE /\ ~IdleFails(s, n)
           /\ idle' = [idle EXCEPT ![t] = IdleTime(s, n)]
           /\ s.type = "inactive"
           /\ sched' = deschedule(t)
           /\ pc' = IF index(t) = 1 THEN signal(pc) ELSE pc
  <2>1. PICK x : x = deschedule(t)
    OBVIOUS
  <2>2. QueueOK(x) /\ Others(sched, x, t) /\ x.heap.index[t] = 0
    BY <1>2, <2>1, TakeIs
  <2>3. sched' = x /\ pc' \in {pc, signal(pc)}
    BY <1>6, <2>1
  <2>4. Moves(t) /\ sched'.heap.index[t] = 0
    BY <2>2, <2>3 DEF Moves
  <2>5. IdleTime(s, n) \in Times
    BY <1>1, <1>6, IdleIs
  <2>6. Placed(t, s, IdleTime(s, n), n)
    BY <2>4 DEF Placed
  <2> QED BY <1>1, <1>2, <1>3, <1>6, <2>4, <2>5, <2>6
<1>7. CASE /\ ~IdleFails(s, n)
           /\ idle' = [idle EXCEPT ![t] = IdleTime(s, n)]
           /\ s.type # "inactive"
           /\ \E room \in Memory :
                /\ sched' = r(room).q
                /\ pc' = IF NeedSignal(r(room), t, n) THEN signal(pc) ELSE pc
  <2>1. PICK room \in Memory : /\ sched' = r(room).q
                               /\ pc' = IF NeedSignal(r(room), t, n) THEN signal(pc) ELSE pc
    BY <1>7
  <2>2. PICK x : x = r(room)
    OBVIOUS
  <2>3. IdleTime(s, n) \in Times /\ room \in BOOLEAN
    BY <1>1, <1>7, IdleIs, TimerAssumption
  <2>4. sched' = x.q /\ pc' = IF NeedSignal(x, t, n) THEN signal(pc) ELSE pc
    BY <2>1, <2>2
  <2>5. /\ Moves(t) /\ Scheduled(sched, x, t, s, IdleTime(s, n), n)
        /\ x.ok => Placed(t, s, IdleTime(s, n), n)
    BY <1>1, <1>2, <1>7, <2>2, <2>3, <2>4, PutIs
  <2>6. CASE x.ok
    BY <1>1, <1>2, <1>3, <1>7, <2>3, <2>5, <2>6
  <2>7. CASE ~x.ok /\ sched.heap.index[t] # 0
    <3>1. sched' = sched /\ ~Fits(n, s.interval)
      BY <2>4, <2>5, <2>7 DEF Scheduled
    <3> QED BY <1>1, <1>2, <1>3, <1>7, <2>3, <2>5, <3>1
  <2>8. CASE ~x.ok /\ sched.heap.index[t] = 0
    <3>1. sched'.heap.index[t] = 0
      BY <2>4, <2>5, <2>8 DEF Scheduled
    <3>2. Placed(t, s, IdleTime(s, n), n)
      BY <3>1 DEF Placed
    <3> QED BY <1>1, <1>2, <1>3, <1>7, <2>3, <2>5, <3>2
  <2> QED BY <2>6, <2>7, <2>8
<1> QED BY <1>4, <1>5, <1>6, <1>7

\* destroy()
LEMMA DestroyIs ==
    ASSUME TInv, NEW c \in Clients, destroy(c)
    PROVE  \E t \in Timers :
             /\ t = call[c].timer /\ t \in timers /\ refs[t] = 0
             /\ timers' = timers \ {t} /\ queue' = purgerange(t)
             /\ setting' = [setting EXCEPT ![t] = Unset]
             /\ idle' = [idle EXCEPT ![t] = 0]
             /\ Moves(t) /\ sched'.heap.index[t] = 0
<1>0. call[c].op = "destroy" /\ Types
  BY DEF destroy, TInv
<1>1. PICK t \in Timers : t = call[c].timer
  BY <1>0 DEF Types, CallOK
<1>2. t \in timers /\ refs[t] = 0
  BY <1>0, <1>1 DEF TInv, Handles
<1>3. /\ queue' = purgerange(t) /\ timers' = timers \ {t}
      /\ setting' = [setting EXCEPT ![t] = Unset] /\ idle' = [idle EXCEPT ![t] = 0]
      /\ sched' = [deschedule(t) EXCEPT !.due[t] = 0]
      /\ pc' \in {pc, signal(pc)}
  BY <1>1 DEF destroy
<1>4. PICK q : q = deschedule(t)
  OBVIOUS
<1>5. QueueOK(q) /\ Others(sched, q, t) /\ q.heap.index[t] = 0
  BY <1>0, <1>4, TakeIs
<1>6. PICK h, due, n : q = [heap |-> h, due |-> due, nscheduled |-> n]
                       /\ h = q.heap /\ due = q.due /\ n = q.nscheduled
  BY <1>5 DEF QueueOK
<1>7. PICK new : new = [due EXCEPT ![t] = 0]
  OBVIOUS
<1>8. sched' = [heap |-> h, due |-> new, nscheduled |-> n]
  <2>1. sched' = [q EXCEPT !.due = [q.due EXCEPT ![t] = 0]]
    BY <1>3, <1>4
  <2>2. sched' = [q EXCEPT !.due = new]
    BY <1>6, <1>7, <2>1
  <2> QED BY <1>6, <2>2
<1>9. due \in [Timers -> Times] /\ Sound(Timers, n, h, due)
  BY <1>5, <1>6 DEF QueueOK
<1>10. new \in [Timers -> Times] /\ Changed(Timers, due, new, t)
       /\ \A u \in Timers \ {t} : new[u] = due[u]
  BY <1>7, <1>9, TimerAssumption DEF Changed, Times
<1>11. Sound(Timers, n, h, new)
  BY <1>5, <1>6, <1>9, <1>10, SoundOther
<1>12. QueueOK(sched')
  BY <1>8, <1>10, <1>11 DEF QueueOK
<1>13. sched'.heap = h /\ sched'.due = new
  BY <1>8
<1>14. Others(sched, sched', t)
  BY <1>5, <1>6, <1>10, <1>13 DEF Others
<1>15. sched'.heap.index[t] = 0
  BY <1>5, <1>6, <1>13
<1>16. Moves(t)
  BY <1>3, <1>12, <1>14, <1>15 DEF Moves
<1> QED BY <1>1, <1>2, <1>3, <1>15, <1>16

\* The head of a heap that is not empty.
LEMMA HeadIs ==
    ASSUME TInv, sched.nscheduled > 0
    PROVE  /\ head \in Timers /\ index(head) = 1 /\ head \in timers
           /\ setting[head] \in Settings /\ setting[head].type # "inactive"
<1>1. PICK q : q = sched
  OBVIOUS
<1>2. QueueOK(q)
  BY <1>1 DEF TInv, Types
<1>n. PICK n \in Nat : n = q.nscheduled /\ 1 \in 1 .. n
  BY <1>1, <1>2, QueueParts
<1>3. PICK a \in [1 .. n -> Timers] : a = q.heap.array
  BY <1>2, <1>n, QueueParts
<1>4. a[1] \in Timers /\ q.heap.index[a[1]] = 1
  BY <1>2, <1>n, <1>3 DEF QueueOK, Sound
<1>5. head = a[1]
  BY <1>1, <1>3 DEF head, isc_heap_element
<1>6. head \in Timers /\ index(head) = 1
  BY <1>1, <1>4, <1>5 DEF index
<1>7. head \in timers /\ setting[head].type # "inactive"
  BY <1>6 DEF TInv, OnlyActive
<1>8. setting[head] \in Settings
  <2>1. setting[head] \in Settings \cup {Unset}
    BY <1>6 DEF TInv, Types
  <2> QED BY <1>7, <2>1 DEF Unset
<1> QED BY <1>6, <1>7, <1>8

\* dispatch()
LEMMA FireIs ==
    ASSUME TInv, dispatch_fire
    PROVE  \E t \in Timers :
             /\ t = head /\ sched.heap.index[t] = 1 /\ t \in timers
             /\ setting[t] \in Settings /\ setting[t].type # "inactive"
             /\ \/ queue' = queue
                \/ verdict # "touched" /\ queue' = queue \cup {[timer |-> t, type |-> verdict, era |-> era[t]]}
             /\ QueueOK(sched') /\ Others(sched, sched', t)
             /\ Placed(t, setting[t], idle[t], now)
             /\ verdict \notin {"TICK", "touched"} => sched'.heap.index[t] = 0
<1>1. PICK t \in Timers : t = head
  BY HeadIs DEF TInv, Firing, dispatch_fire
<1>2. /\ sched.heap.index[t] = 1 /\ t \in timers
      /\ setting[t] \in Settings /\ setting[t].type # "inactive"
  BY <1>1, HeadIs DEF TInv, Firing, dispatch_fire, index
<1>3. PICK q : q = sched
  OBVIOUS
<1>4. QueueOK(q) /\ q.heap.index[t] # 0
  BY <1>2, <1>3 DEF TInv, Types
<1>5. PICK x : x = Removed(q, t)
  OBVIOUS
<1>6. QueueOK(x) /\ Others(q, x, t) /\ x.heap.index[t] = 0
  BY <1>4, <1>5, RemovedIs
<1>7. \/ queue' = queue
      \/ verdict # "touched" /\ queue' = queue \cup {[timer |-> t, type |-> verdict, era |-> era[t]]}
  BY <1>1 DEF dispatch_fire
<1>8. sched' = IF verdict \in {"TICK", "touched"}
               THEN schedule(x, t, setting[t], idle[t], now, TRUE).q ELSE x
  BY <1>1, <1>3, <1>5 DEF dispatch_fire
<1>9. CASE verdict \in {"TICK", "touched"}
  <2>1. PICK r : r = schedule(x, t, setting[t], idle[t], now, TRUE)
    OBVIOUS
  <2>2. idle[t] \in Times /\ now \in Times
    BY TimerAssumption DEF TInv, Types, Times
  <2>3. Scheduled(x, r, t, setting[t], idle[t], now)
    <3>1. PICK s \in Settings, i \in Times, n \in Times : s = setting[t] /\ i = idle[t] /\ n = now
      BY <1>2, <2>2
    <3>2. r = schedule(x, t, s, i, n, TRUE) /\ s.type # "inactive"
      BY <1>2, <2>1, <3>1
    <3>3. Scheduled(x, r, t, s, i, n)
      BY <1>6, <3>2, ScheduleIs
    <3> QED BY <3>1, <3>3
  <2>4. sched' = r.q
    BY <1>8, <1>9, <2>1
  <2>5. QueueOK(sched') /\ Others(x, sched', t)
    BY <2>3, <2>4 DEF Scheduled
  <2>6. Others(sched, sched', t)
    BY <1>3, <1>6, <2>5 DEF Others
  <2>7. Placed(t, setting[t], idle[t], now)
    BY <1>2, <1>6, <2>3, <2>4 DEF Scheduled, Placed
  <2> QED BY <1>1, <1>2, <1>7, <1>9, <2>5, <2>6, <2>7
<1>10. CASE verdict \notin {"TICK", "touched"}
  <2>1. sched' = x
    BY <1>8, <1>10
  <2>2. Placed(t, setting[t], idle[t], now)
    BY <1>6, <2>1 DEF Placed
  <2> QED BY <1>1, <1>2, <1>3, <1>6, <1>7, <2>1, <2>2
<1> QED BY <1>9, <1>10

-----------------------------------------------------------------------------
(* The invariant holds initially and every step preserves it. *)

\* The calls that have not begun, or end, or only wait for locks.
LEMMA CallSet ==
    ASSUME Types, NEW c \in Clients, NEW v, CallOK(v), call' = [call EXCEPT ![c] = v],
           UNCHANGED clock
    PROVE  DOMAIN call' = Clients /\ \A d \in Clients : CallOK(call[d])'
<1>1. DOMAIN call' = Clients /\ call'[c] = v /\ \A d \in Clients \ {c} : call'[d] = call[d]
  BY DEF Types
<1> QED BY <1>1 DEF Types, CallOK

\* A client that is in no call.
LEMMA NoCallOK == CallOK(NoCall)
  BY DEF CallOK, NoCall

\* A new manager has no timers.
LEMMA InitTInv == Init => TInv
<1> SUFFICES ASSUME Init PROVE TInv
  OBVIOUS
<1> USE DEF Init
<1>1. PICK h : h = [array |-> <<>>, index |-> [t \in Timers |-> 0]]
  OBVIOUS
<1>2. sched = [heap |-> h, due |-> [t \in Timers |-> 0], nscheduled |-> 0]
  BY <1>1
<1>3. /\ sched.heap = h /\ sched.due = [t \in Timers |-> 0] /\ sched.nscheduled = 0
      /\ h.array = <<>> /\ h.index = [t \in Timers |-> 0]
  BY <1>1, <1>2
<1>4. 1 .. 0 = {} /\ 2 .. 0 = {} /\ TimeMax \in Nat \ {0}
  BY TimerAssumption
<1>5. h \in Heaps(Timers, 0)
  <2>1. <<>> \in [1 .. 0 -> Timers]
    OBVIOUS
  <2> QED BY <1>1, <2>1 DEF Heaps
<1>6. Sound(Timers, 0, h, sched.due)
  BY <1>3, <1>4, <1>5 DEF Sound, Ordered
<1>7. sched.due \in [Timers -> Times]
  BY <1>3, <1>4 DEF Times
<1>8. QueueOK(sched)
  BY <1>2, <1>3, <1>6, <1>7 DEF QueueOK
<1>9. Types
  <2>1. \A c \in Clients : CallOK(call[c])
    BY NoCallOK
  <2>2. /\ MaxRefs \in Nat /\ 0 \in Times /\ 0 \in 0 .. MaxRefs /\ clock \in 1 .. TimeMax /\ now \in 0 .. clock
    BY <1>4, TimerAssumption DEF Times
  <2>3. /\ refs \in [Timers -> 0 .. MaxRefs] /\ idle \in [Timers -> Times] /\ mdue \in Times
        /\ setting \in [Timers -> Settings \cup {Unset}]
        /\ era \in [Timers -> Nat] /\ purged \in [Timers -> Nat]
    BY <2>2
  <2>4. DOMAIN call = Clients /\ timers \subseteq Timers /\ fresh \subseteq Timers
    OBVIOUS
  <2>5. queue \subseteq [timer : Timers, type : {"TICK", "LIFE", "IDLE"}, era : Nat]
    OBVIOUS
  <2> QED BY <1>8, <2>1, <2>2, <2>3, <2>4, <2>5 DEF Types
<1>10. \A c \in Clients : call[c].op = "none"
  BY DEF NoCall
<1>11. Handles
  <2>1. ASSUME NEW t \in Timers PROVE Cardinality(Users(t)) <= refs[t]
    <3>1. Users(t) = {}
      BY <1>10 DEF Users
    <3> QED BY <3>1, FS_EmptySet
  <2> QED BY <1>10, <2>1 DEF Handles
<1>12. \A t \in Timers : index(t) = 0
  BY <1>3 DEF index
<1> QED BY <1>9, <1>11, <1>12 DEF TInv, OnlyActive, Alive, Firing, Eras, PurgeIsFinal,
                                  TimeoutIsLast, WakesInTime, IdleFits, NotLate

\* Types
LEMMA NextTypes == TInv /\ [Next]_vars => Types'
<1> SUFFICES ASSUME TInv, [Next]_vars PROVE Types'
  OBVIOUS
<1>0. Types
  BY DEF TInv
<1>t. /\ TimeMax \in Nat \ {0} /\ MaxRefs \in Nat \ {0} /\ 0 \in Times
      /\ \A x \in 0 .. clock : x \in Times
      /\ clock \in Times /\ clock \in Nat
  BY <1>0, TimerAssumption DEF Types, Times
<1>s. \A p \in {"top", "dispatch", "fire", "wait", "waituntil", "exit"} :
        signal(p) \in {"top", "dispatch", "fire", "wait", "waituntil", "exit"}
  BY DEF signal
<1>n. CallOK(NoCall)
  BY NoCallOK
<1>1. ASSUME NEW c \in Clients, NEW t \in Timers, NEW s \in Settings, create_enter(c, t, s)
      PROVE  Types'
  <2>1. PICK v : v = [op |-> "create", timer |-> t, s |-> s, n |-> TimeFor(s)]
    OBVIOUS
  <2>2. CallOK(v)
    BY <1>t, <2>1 DEF CallOK, TimeFor
  <2>3. call' = [call EXCEPT ![c] = v] /\ UNCHANGED clock
    BY <1>1, <2>1 DEF create_enter
  <2>4. DOMAIN call' = Clients /\ \A d \in Clients : CallOK(call[d])'
    BY <1>0, <2>2, <2>3, CallSet
  <2> QED BY <1>0, <1>1, <2>4 DEF create_enter, Types, timervars, runvars, history
<1>2. ASSUME NEW c \in Clients, NEW t \in Timers, NEW s \in Settings, NEW purge \in BOOLEAN,
             reset_enter(c, t, s, purge)
      PROVE  Types'
  <2>1. PICK v : v = [op |-> "reset", timer |-> t, s |-> s, n |-> TimeFor(s), purge |-> purge]
    OBVIOUS
  <2>2. CallOK(v)
    BY <1>t, <2>1 DEF CallOK, TimeFor
  <2>3. call' = [call EXCEPT ![c] = v] /\ UNCHANGED clock
    BY <1>2, <2>1 DEF reset_enter
  <2>4. DOMAIN call' = Clients /\ \A d \in Clients : CallOK(call[d])'
    BY <1>0, <2>2, <2>3, CallSet
  <2> QED BY <1>0, <1>2, <2>4 DEF reset_enter, Types, timervars, runvars, history
<1>3. ASSUME NEW c \in Clients, isc__timer_create(c) PROVE Types'
  <2>1. PICK t \in Timers, s \in Settings, n \in 0 .. clock :
             /\ n \in Times
             /\ \/ UNCHANGED <<timervars, sched, pc>>
                \/ /\ timers' = timers \cup {t} /\ fresh' = fresh \ {t}
                   /\ refs' = [refs EXCEPT ![t] = 1]
                   /\ setting' = [setting EXCEPT ![t] = s]
                   /\ idle' = [idle EXCEPT ![t] = IdleTime(s, n)]
                   /\ ~IdleFails(s, n)
                   /\ Moves(t)
    BY <1>3, CreateIs
  <2>2. /\ call' = [call EXCEPT ![c] = NoCall]
        /\ UNCHANGED <<runvars, done, clock, queue, history>>
    BY <1>3 DEF isc__timer_create
  <2>3. DOMAIN call' = Clients /\ \A d \in Clients : CallOK(call[d])'
    BY <1>0, <1>n, <2>2, CallSet
  <2>4. CASE UNCHANGED <<timervars, sched, pc>>
    BY <1>0, <2>2, <2>3, <2>4 DEF Types, timervars, runvars, history
  <2>5. CASE /\ timers' = timers \cup {t} /\ fresh' = fresh \ {t}
             /\ refs' = [refs EXCEPT ![t] = 1]
             /\ setting' = [setting EXCEPT ![t] = s]
             /\ idle' = [idle EXCEPT ![t] = IdleTime(s, n)]
             /\ ~IdleFails(s, n)
             /\ Moves(t)
    <3>1. IdleTime(s, n) \in Times
      BY <2>1, <2>5, IdleIs
    <3>2. timers' \subseteq Timers /\ fresh' \subseteq Timers
      BY <1>0, <2>5 DEF Types
    <3>3. refs' \in [Timers -> 0 .. MaxRefs]
      BY <1>0, <1>t, <2>5 DEF Types
    <3>4. setting' \in [Timers -> Settings \cup {Unset}] /\ idle' \in [Timers -> Times]
      BY <1>0, <2>5, <3>1 DEF Types
    <3>5. QueueOK(sched') /\ pc' \in {pc, signal(pc)}
      BY <2>5 DEF Moves
    <3>6. pc' \in {"top", "dispatch", "fire", "wait", "waituntil", "exit"}
      BY <1>0, <1>s, <3>5 DEF Types
    <3> QED BY <1>0, <2>2, <2>3, <3>2, <3>3, <3>4, <3>5, <3>6 DEF Types, runvars, history
  <2> QED BY <2>1, <2>4, <2>5
<1>4. ASSUME NEW c \in Clients, isc__timer_reset(c) PROVE Types'
  <2>1. PICK t \in Timers, s \in Settings, idl \in Times :
             /\ t = call[c].timer
             /\ setting' = [setting EXCEPT ![t] = s]
             /\ idle' = [idle EXCEPT ![t] = idl]
             /\ Moves(t)
    BY <1>4, ResetIs
  <2>2. /\ call' = [call EXCEPT ![c] = NoCall]
        /\ UNCHANGED <<timers, fresh, refs, runvars, done, clock>>
    BY <1>4 DEF isc__timer_reset
  <2>3. DOMAIN call' = Clients /\ \A d \in Clients : CallOK(call[d])'
    BY <1>0, <1>n, <2>2, CallSet
  <2>4. setting' \in [Timers -> Settings \cup {Unset}] /\ idle' \in [Timers -> Times]
    BY <1>0, <2>1 DEF Types
  <2>5. QueueOK(sched') /\ pc' \in {pc, signal(pc)}
    BY <2>1 DEF Moves
  <2>6. pc' \in {"top", "dispatch", "fire", "wait", "waituntil", "exit"}
    BY <1>0, <1>s, <2>5 DEF Types
  <2>7. queue' \subseteq queue
    BY <1>4 DEF isc__timer_reset, purgerange
  <2>8. era' = [era EXCEPT ![t] = @ + 1]
        /\ (purged' = purged \/ purged' = [purged EXCEPT ![t] = era[t] + 1])
    BY <1>4, <2>1 DEF isc__timer_reset
  <2>9. era' \in [Timers -> Nat] /\ purged' \in [Timers -> Nat]
    BY <1>0, <2>8 DEF Types
  <2>10. queue' \subseteq [timer : Timers, type : {"TICK", "LIFE", "IDLE"}, era : Nat]
    BY <1>0, <2>7 DEF Types
  <2> QED BY <1>0, <2>2, <2>3, <2>4, <2>5, <2>6, <2>9, <2>10 DEF Types, runvars
<1>5. ASSUME NEW c \in Clients, NEW t \in Timers, isc__timer_touch(c, t) PROVE Types'
  <2>1. idle' \in [Timers -> Times]
    <3>1. CASE ~Fits(clock, setting[t].interval)
      BY <1>0, <1>5, <3>1 DEF isc__timer_touch, Types
    <3>2. CASE Fits(clock, setting[t].interval)
      <4>1. setting[t] \in Settings \cup {Unset}
        BY <1>0 DEF Types
      <4>2. setting[t].interval \in Nat
        BY <4>1, TimerAssumption DEF Valid, Unset
      <4>3. clock + setting[t].interval \in Times
        BY <1>t, <3>2, <4>2 DEF Fits, Times
      <4> QED BY <1>0, <1>5, <3>2, <4>3 DEF isc__timer_touch, Types
    <3> QED BY <3>1, <3>2
  <2> QED BY <1>0, <1>5, <2>1 DEF isc__timer_touch, Types, CallOK, runvars, history
<1>6. ASSUME NEW c \in Clients, NEW t \in Timers, isc__timer_attach(c, t) PROVE Types'
  <2>1. refs' \in [Timers -> 0 .. MaxRefs]
    BY <1>0, <1>t, <1>6 DEF isc__timer_attach, Types
  <2> QED BY <1>0, <1>6, <2>1 DEF isc__timer_attach, Types, CallOK, runvars, history
<1>7. ASSUME NEW c \in Clients, NEW t \in Timers, isc__timer_detach(c, t) PROVE Types'
  <2>1. refs' \in [Timers -> 0 .. MaxRefs]
    <3>1. PICK k \in Nat : refs[t] > k
      <4>1. IsFiniteSet({d \in Clients \ {c} : call[d].op = "reset" /\ call[d].timer = t})
        BY TimerAssumption, FS_Subset
      <4> QED BY <1>7, <4>1, FS_CardinalityType DEF isc__timer_detach, Holds
    <3>2. refs[t] \in 0 .. MaxRefs /\ refs[t] - 1 \in 0 .. MaxRefs
      BY <1>0, <1>t, <3>1 DEF Types
    <3> QED BY <1>0, <1>7, <3>2 DEF isc__timer_detach, Types
  <2>2. DOMAIN call' = Clients /\ \A d \in Clients : CallOK(call[d])'
    <3>1. PICK v : v = [op |-> "destroy", timer |-> t]
      OBVIOUS
    <3>2. CallOK(v) /\ UNCHANGED clock
      BY <1>7, <3>1 DEF CallOK, isc__timer_detach
    <3>3. call' = [call EXCEPT ![c] = v] \/ call' = call
      BY <1>7, <3>1 DEF isc__timer_detach
    <3>4. CASE call' = [call EXCEPT ![c] = v]
      BY <1>0, <3>2, <3>4, CallSet
    <3>5. CASE call' = call
      BY <1>0, <3>2, <3>5 DEF Types, CallOK
    <3> QED BY <3>3, <3>4, <3>5
  <2> QED BY <1>0, <1>7, <2>1, <2>2 DEF isc__timer_detach, Types, runvars, history
<1>8. ASSUME NEW c \in Clients, destroy(c) PROVE Types'
  <2>1. PICK t \in Timers :
             /\ timers' = timers \ {t} /\ queue' = purgerange(t)
             /\ setting' = [setting EXCEPT ![t] = Unset]
             /\ idle' = [idle EXCEPT ![t] = 0]
             /\ Moves(t)
    BY <1>8, DestroyIs
  <2>2. /\ call' = [call EXCEPT ![c] = NoCall]
        /\ UNCHANGED <<fresh, refs, runvars, done, clock, history>>
    BY <1>8 DEF destroy
  <2>3. DOMAIN call' = Clients /\ \A d \in Clients : CallOK(call[d])'
    BY <1>0, <1>n, <2>2, CallSet
  <2>4. setting' \in [Timers -> Settings \cup {Unset}] /\ idle' \in [Timers -> Times]
    BY <1>0, <1>t, <2>1 DEF Types
  <2>5. QueueOK(sched') /\ pc' \in {pc, signal(pc)}
    BY <2>1 DEF Moves
  <2>6. pc' \in {"top", "dispatch", "fire", "wait", "waituntil", "exit"}
    BY <1>0, <1>s, <2>5 DEF Types
  <2>7. queue' \subseteq queue /\ timers' \subseteq timers
    BY <2>1 DEF purgerange
  <2>8. /\ queue' \subseteq [timer : Timers, type : {"TICK", "LIFE", "IDLE"}, era : Nat]
        /\ timers' \subseteq Timers
    BY <1>0, <2>7 DEF Types
  <2> QED BY <1>0, <2>2, <2>3, <2>4, <2>5, <2>6, <2>8 DEF Types, runvars, history
<1>9. CASE isc__timermgr_poke
  <2>1. pc' \in {"top", "dispatch", "fire", "wait", "waituntil", "exit"}
    BY <1>0, <1>s, <1>9 DEF isc__timermgr_poke, Types
  <2> QED BY <1>0, <1>9, <2>1 DEF isc__timermgr_poke, Types, CallOK, timervars, runvars, history
<1>10. ASSUME NEW c \in Clients, isc__timermgr_destroy(c) PROVE Types'
  <2>1. PICK v : v = [op |-> "join"]
    OBVIOUS
  <2>2. CallOK(v) /\ UNCHANGED clock
    BY <1>10, <2>1 DEF CallOK, isc__timermgr_destroy
  <2>3. DOMAIN call' = Clients /\ \A d \in Clients : CallOK(call[d])'
    BY <1>0, <1>10, <2>1, <2>2, CallSet DEF isc__timermgr_destroy
  <2>4. pc' \in {"top", "dispatch", "fire", "wait", "waituntil", "exit"}
    BY <1>0, <1>s, <1>10 DEF isc__timermgr_destroy, Types
  <2> QED BY <1>0, <1>10, <2>3, <2>4 DEF isc__timermgr_destroy, Types, timervars, runvars, history
<1>11. ASSUME NEW c \in Clients, destroy_join(c) PROVE Types'
  <2>1. DOMAIN call' = Clients /\ \A d \in Clients : CallOK(call[d])'
    BY <1>0, <1>n, <1>11, CallSet DEF destroy_join
  <2> QED BY <1>0, <1>11, <2>1 DEF destroy_join, Types, timervars, runvars, history
<1>12. CASE run_top
  BY <1>0, <1>t, <1>12 DEF run_top, Types, CallOK, timervars, history
<1>13. CASE dispatch_look
  <2>1. verdict' \in {"none", "TICK", "LIFE", "IDLE", "touched"}
    BY <1>13 DEF dispatch_look, Verdict
  <2> QED BY <1>0, <1>13, <2>1 DEF dispatch_look, Types, CallOK, timervars, history
<1>14. CASE dispatch_fire
  <2>1. PICK t \in Timers :
             /\ \/ queue' = queue
                \/ verdict # "touched" /\ queue' = queue \cup {[timer |-> t, type |-> verdict, era |-> era[t]]}
             /\ QueueOK(sched')
    BY <1>14, FireIs
  <2>2. queue' \subseteq [timer : Timers, type : {"TICK", "LIFE", "IDLE"}, era : Nat]
    <3>1. pc = "fire"
      BY <1>14 DEF dispatch_fire
    <3>2. verdict # "touched" => verdict \in {"TICK", "LIFE", "IDLE"}
      BY <1>0, <3>1 DEF TInv, Firing, Types
    <3>3. era[t] \in Nat
      BY <1>0 DEF Types
    <3> QED BY <1>0, <2>1, <3>2, <3>3 DEF Types
  <2> QED BY <1>0, <1>14, <2>1, <2>2 DEF dispatch_fire, Types, CallOK, timervars, history
<1>15. CASE run_wait
  <2>1. mdue' \in Times
    <3>1. CASE mdue' = mdue
      BY <1>0, <3>1 DEF Types
    <3>2. CASE sched.nscheduled > 0 /\ mdue' = sched.due[head]
      <4>1. head \in Timers
        BY <3>2, HeadIs
      <4>2. sched.due \in [Timers -> Times]
        BY <1>0 DEF Types, QueueOK
      <4> QED BY <3>2, <4>1, <4>2
    <3> QED BY <1>15, <3>1, <3>2 DEF run_wait
  <2> QED BY <1>0, <1>t, <1>15, <2>1 DEF run_wait, Types, CallOK, timervars, history
<1>16. CASE timedout
  BY <1>0, <1>16 DEF timedout, Types, CallOK, timervars, runvars, history
<1>17. CASE Tick
  <2>1. clock' = clock + 1 /\ clock' \in 1 .. TimeMax /\ \A x \in 0 .. clock : x \in 0 .. clock'
    BY <1>0, <1>t, <1>17 DEF Tick, Types
  <2>2. \A c \in Clients : CallOK(call[c])'
    BY <1>0, <1>17, <2>1 DEF Tick, Types, CallOK
  <2> QED BY <1>0, <1>17, <2>1, <2>2 DEF Tick, Types, timervars, runvars, history
<1>18. CASE task_take
  <2>1. queue' \subseteq [timer : Timers, type : {"TICK", "LIFE", "IDLE"}, era : Nat]
    BY <1>0, <1>18 DEF task_take, Types
  <2> QED BY <1>0, <1>18, <2>1 DEF task_take, Types, CallOK, timervars, runvars, history
<1>19. CASE UNCHANGED vars
  BY <1>0, <1>19 DEF vars, Types, CallOK, timervars, runvars, history
<1> QED BY <1>1, <1>2, <1>3, <1>4, <1>5, <1>6, <1>7, <1>8, <1>9, <1>10, <1>11, <1>12, <1>13,
           <1>14, <1>15, <1>16, <1>17, <1>18, <1>19 DEF Next, Run, Call, CallStep

\* The number of resets of a timer that are under way.
LEMMA UsersIs ==
    ASSUME NEW t \in Timers
    PROVE  /\ IsFiniteSet(Users(t)) /\ Cardinality(Users(t)) \in Nat
           /\ \A c \in Clients \ Users(t) : Cardinality(Users(t) \cup {c}) = Cardinality(Users(t)) + 1
           /\ \A T \in SUBSET Users(t) : Cardinality(T) <= Cardinality(Users(t)) /\ Cardinality(T) \in Nat
<1>1. IsFiniteSet(Users(t))
  BY TimerAssumption, FS_Subset DEF Users
<1> QED BY <1>1, FS_CardinalityType, FS_AddElement, FS_Subset

\* Who holds a timer has a reference of its own.
LEMMA HoldsIs ==
    ASSUME NEW t \in Timers, NEW c \in Clients, call[c] = NoCall, Holds(c, t)
    PROVE  Cardinality(Users(t)) < refs[t] /\ c \notin Users(t)
<1>1. call[c].op = "none"
  BY DEF NoCall
<1>2. Users(t) = {d \in Clients \ {c} : call[d].op = "reset" /\ call[d].timer = t}
  BY <1>1 DEF Users
<1>3. c \notin Users(t)
  BY <1>1 DEF Users
<1> QED BY <1>2, <1>3 DEF Holds

\* The call of c ends, or waits for run() to end, and no reference comes or goes.
Ends(c) ==
    /\ call'[c].op \in {"none", "join"}
    /\ \A d \in Clients \ {c} : call'[d] = call[d]
    /\ UNCHANGED refs

\* No reset begins and the other calls are still under way.
LEMMA EndsIs ==
    ASSUME TInv, NEW c \in Clients, Ends(c)
    PROVE  /\ \A t \in Timers : Cardinality(Users(t))' <= refs'[t]
           /\ \A d \in Clients : call'[d].op \in {"create", "destroy"} => call'[d] = call[d] /\ d # c
<1>1. /\ call'[c].op \in {"none", "join"} /\ UNCHANGED refs
      /\ \A d \in Clients \ {c} : call'[d] = call[d]
  BY DEF Ends
<1>2. ASSUME NEW t \in Timers PROVE Cardinality(Users(t))' <= refs'[t]
  <2>1. PICK T : T = Users(t)'
    OBVIOUS
  <2>2. T \in SUBSET Users(t)
    BY <1>1, <2>1 DEF Users
  <2>3. Cardinality(T) <= Cardinality(Users(t)) /\ Cardinality(T) \in Nat /\ Cardinality(Users(t)) \in Nat
    BY <2>2, UsersIs
  <2>4. Cardinality(Users(t)) <= refs[t] /\ refs[t] \in Nat
    BY TimerAssumption DEF TInv, Handles, Types
  <2> QED BY <1>1, <2>1, <2>3, <2>4
<1>3. ASSUME NEW d \in Clients, call'[d].op \in {"create", "destroy"} PROVE call'[d] = call[d] /\ d # c
  BY <1>1, <1>3
<1> QED BY <1>2, <1>3

\* Handles
LEMMA NextHandles == TInv /\ [Next]_vars => Handles'
<1> SUFFICES ASSUME TInv, [Next]_vars PROVE Handles'
  OBVIOUS
<1>0. Types /\ Handles /\ DOMAIN call = Clients
  BY DEF TInv, Types
<1>u. ASSUME UNCHANGED <<timers, fresh, refs, call>> PROVE Handles'
  BY <1>0, <1>u DEF Handles, Users
<1>h. /\ fresh \cap timers = {}
      /\ \A c \in Clients : call[c].op = "create" => call[c].timer \in fresh
      /\ \A c, d \in Clients : call[c].op = "create" /\ call[d].op = "create"
                               /\ call[c].timer = call[d].timer => c = d
      /\ \A t \in Timers : refs[t] > 0 => t \in timers
      /\ \A c \in Clients : call[c].op = "destroy" => call[c].timer \in timers /\ refs[call[c].timer] = 0
      /\ \A c, d \in Clients : call[c].op = "destroy" /\ call[d].op = "destroy"
                               /\ call[c].timer = call[d].timer => c = d
  BY <1>0 DEF Handles
<1>c. /\ \A t \in Timers : Cardinality(Users(t)) <= refs[t] /\ refs[t] \in Nat
      /\ refs \in [Timers -> Nat]
  BY <1>0, TimerAssumption DEF Handles, Types
<1>k. ASSUME NEW c \in Clients, Ends(c), UNCHANGED <<timers, fresh>> PROVE Handles'
  <2>1. UNCHANGED refs /\ UNCHANGED <<timers, fresh>>
    BY <1>k DEF Ends
  <2>2. /\ \A t \in Timers : Cardinality(Users(t))' <= refs'[t]
        /\ \A d \in Clients : call'[d].op \in {"create", "destroy"} => call'[d] = call[d] /\ d # c
    BY <1>k, EndsIs
  <2>3. /\ fresh' \cap timers' = {}
        /\ \A x \in Clients : call'[x].op = "create" => call'[x].timer \in fresh'
        /\ \A t \in Timers : refs'[t] > 0 => t \in timers'
        /\ \A x \in Clients : call'[x].op = "destroy" => call'[x].timer \in timers' /\ refs'[call'[x].timer] = 0
    BY <1>h, <2>1, <2>2
  <2>4. /\ \A x, y \in Clients : call'[x].op = "create" /\ call'[y].op = "create"
                               /\ call'[x].timer = call'[y].timer => x = y
        /\ \A x, y \in Clients : call'[x].op = "destroy" /\ call'[y].op = "destroy"
                               /\ call'[x].timer = call'[y].timer => x = y
    BY <1>h, <2>2
  <2> QED BY <2>2, <2>3, <2>4 DEF Handles
<1>n. NoCall.op = "none"
  BY DEF NoCall
<1>1. ASSUME NEW c \in Clients, NEW t \in Timers, NEW s \in Settings, create_enter(c, t, s)
      PROVE  Handles'
  <2>1. PICK v : v = [op |-> "create", timer |-> t, s |-> s, n |-> TimeFor(s)]
    OBVIOUS
  <2>2. v.op = "create" /\ v.timer = t /\ call' = [call EXCEPT ![c] = v]
        /\ UNCHANGED <<timers, fresh, refs>> /\ t \in fresh
        /\ \A d \in Clients : call[d].op = "create" => call[d].timer # t
    BY <1>1, <2>1 DEF create_enter, timervars
  <2>3. call'[c] = v /\ \A d \in Clients \ {c} : call'[d] = call[d]
    BY <1>0, <2>2
  <2>4. ASSUME NEW u \in Timers PROVE Cardinality(Users(u))' <= refs'[u]
    <3>1. call[c].op # "reset"
      BY <1>1, <1>n DEF create_enter
    <3>2. Users(u)' = Users(u)
      BY <2>2, <2>3, <3>1 DEF Users
    <3> QED BY <1>c, <2>2, <3>2
  <2> QED BY <1>h, <2>2, <2>3, <2>4 DEF Handles
<1>2. ASSUME NEW c \in Clients, NEW t \in Timers, NEW s \in Settings, NEW purge \in BOOLEAN,
             reset_enter(c, t, s, purge)
      PROVE  Handles'
  <2>1. PICK v : v = [op |-> "reset", timer |-> t, s |-> s, n |-> TimeFor(s), purge |-> purge]
    OBVIOUS
  <2>2. v.op = "reset" /\ v.timer = t /\ call' = [call EXCEPT ![c] = v]
        /\ UNCHANGED <<timers, fresh, refs>> /\ call[c] = NoCall /\ Holds(c, t)
    BY <1>2, <2>1 DEF reset_enter, timervars
  <2>3. call'[c] = v /\ \A d \in Clients \ {c} : call'[d] = call[d]
    BY <1>0, <2>2
  <2>4. ASSUME NEW u \in Timers PROVE Cardinality(Users(u))' <= refs'[u]
    <3>1. call[c].op # "reset"
      BY <1>n, <2>2
    <3>2. CASE u = t
      <4>1. Users(t)' = Users(t) \cup {c}
        BY <2>2, <2>3 DEF Users
      <4>2. Cardinality(Users(t)) < refs[t] /\ c \notin Users(t)
        BY <2>2, HoldsIs
      <4>3. Cardinality(Users(t) \cup {c}) = Cardinality(Users(t)) + 1 /\ Cardinality(Users(t)) \in Nat
        BY <4>2, UsersIs
      <4>4. Cardinality(Users(t) \cup {c}) <= refs[t]
        BY <1>c, <4>2, <4>3
      <4> QED BY <2>2, <3>2, <4>1, <4>4
    <3>3. CASE u # t
      <4>1. Users(u)' = Users(u)
        BY <2>2, <2>3, <3>1, <3>3 DEF Users
      <4> QED BY <1>c, <2>2, <4>1
    <3> QED BY <3>2, <3>3
  <2> QED BY <1>h, <2>2, <2>3, <2>4 DEF Handles
<1>3. ASSUME NEW c \in Clients, isc__timer_create(c) PROVE Handles'
  <2>1. PICK t \in Timers :
             /\ t = call[c].timer /\ t \in fresh /\ t \notin timers
             /\ \/ UNCHANGED <<timers, fresh, refs>>
                \/ /\ timers' = timers \cup {t} /\ fresh' = fresh \ {t}
                   /\ refs' = [refs EXCEPT ![t] = 1]
    BY <1>3, CreateIs DEF timervars
  <2>2. call' = [call EXCEPT ![c] = NoCall] /\ call[c].op = "create"
    BY <1>3 DEF isc__timer_create
  <2>3. call'[c] = NoCall /\ \A d \in Clients \ {c} : call'[d] = call[d]
    BY <1>0, <2>2
  <2>4. CASE UNCHANGED <<timers, fresh, refs>>
    <3>1. Ends(c)
      BY <1>n, <2>3, <2>4 DEF Ends
    <3> QED BY <1>k, <2>4, <3>1
  <2>5. CASE /\ timers' = timers \cup {t} /\ fresh' = fresh \ {t}
             /\ refs' = [refs EXCEPT ![t] = 1]
    <3>1. ASSUME NEW u \in Timers PROVE Cardinality(Users(u))' <= refs'[u]
      <4>1. Users(u)' = Users(u)
        BY <1>n, <2>2, <2>3 DEF Users
      <4>2. CASE u = t
        <5>1. Users(t) = {}
          <6>1. \A d \in Clients : call[d].op = "reset" => call[d].timer \in timers
            BY UsedExists
          <6> QED BY <2>1, <6>1 DEF Users
        <5>2. Cardinality(Users(t)) = 0 /\ refs'[t] = 1
          BY <1>c, <2>5, <5>1, FS_EmptySet
        <5> QED BY <4>1, <4>2, <5>2
      <4>3. CASE u # t
        BY <1>c, <2>5, <4>1, <4>3
      <4> QED BY <4>2, <4>3
    <3>2. \A d \in Clients : call'[d].op \in {"create", "destroy"} => call'[d] = call[d] /\ d # c
      BY <1>n, <2>3
    <3>3. \A d \in Clients : call[d].op = "create" /\ d # c => call[d].timer # t
      BY <1>h, <2>1, <2>2
    <3>4. \A d \in Clients : call[d].op = "destroy" => call[d].timer # t /\ call[d].timer \in Timers
      BY <1>0, <1>h, <2>1 DEF Types
    <3>5. \A u \in Timers : refs'[u] > 0 => u \in timers'
      BY <1>c, <1>h, <2>5
    <3>6. \A d \in Clients : call'[d].op = "destroy" => call'[d].timer \in timers' /\ refs'[call'[d].timer] = 0
      BY <1>c, <1>h, <2>5, <3>2, <3>4
    <3>7. fresh' \cap timers' = {} /\ \A d \in Clients : call'[d].op = "create" => call'[d].timer \in fresh'
      BY <1>h, <2>5, <3>2, <3>3
    <3>8. /\ \A x, y \in Clients : call'[x].op = "create" /\ call'[y].op = "create"
                               /\ call'[x].timer = call'[y].timer => x = y
          /\ \A x, y \in Clients : call'[x].op = "destroy" /\ call'[y].op = "destroy"
                               /\ call'[x].timer = call'[y].timer => x = y
      BY <1>h, <3>2
    <3> QED BY <3>1, <3>5, <3>6, <3>7, <3>8 DEF Handles
  <2> QED BY <2>1, <2>4, <2>5
<1>4. ASSUME NEW c \in Clients, isc__timer_reset(c) PROVE Handles'
  <2>1. call' = [call EXCEPT ![c] = NoCall] /\ UNCHANGED <<timers, fresh, refs>>
    BY <1>4 DEF isc__timer_reset
  <2>2. Ends(c)
    BY <1>0, <1>n, <2>1 DEF Ends
  <2> QED BY <1>k, <2>1, <2>2
<1>6. ASSUME NEW c \in Clients, NEW t \in Timers, isc__timer_attach(c, t) PROVE Handles'
  <2>1. /\ refs' = [refs EXCEPT ![t] = @ + 1] /\ UNCHANGED <<timers, fresh, call>>
        /\ Cardinality(Users(t)) < refs[t]
    BY <1>6, HoldsIs DEF isc__timer_attach
  <2>2. refs[t] > 0 /\ t \in timers
    BY <1>c, <1>h, <2>1, UsersIs
  <2>3. \A u \in Timers : refs'[u] = IF u = t THEN refs[u] + 1 ELSE refs[u]
    BY <1>c, <2>1
  <2>4. ASSUME NEW u \in Timers PROVE Cardinality(Users(u))' <= refs'[u]
    <3>1. Users(u)' = Users(u)
      BY <2>1 DEF Users
    <3> QED BY <1>c, <2>3, <3>1, UsersIs
  <2>5. \A d \in Clients : call'[d].op = "destroy" => refs'[call'[d].timer] = 0 /\ call'[d].timer \in timers'
    <3>1. \A d \in Clients : call[d].op = "destroy" => call[d].timer # t /\ call[d].timer \in Timers
      BY <1>0, <1>h, <2>2 DEF Types
    <3> QED BY <1>h, <2>1, <2>3, <3>1
  <2>6. \A u \in Timers : refs'[u] > 0 => u \in timers'
    BY <1>h, <2>1, <2>2, <2>3
  <2> QED BY <1>h, <2>1, <2>4, <2>5, <2>6 DEF Handles
<1>7. ASSUME NEW c \in Clients, NEW t \in Timers, isc__timer_detach(c, t) PROVE Handles'
  <2>1. /\ refs' = [refs EXCEPT ![t] = @ - 1] /\ UNCHANGED <<timers, fresh>>
        /\ Cardinality(Users(t)) < refs[t] /\ call[c].op = "none"
    BY <1>7, <1>n, HoldsIs DEF isc__timer_detach
  <2>2. refs[t] > 0 /\ t \in timers
    BY <1>c, <1>h, <2>1, UsersIs
  <2>3. PICK v : v = [op |-> "destroy", timer |-> t]
    OBVIOUS
  <2>4. /\ call' = IF refs[t] = 1 THEN [call EXCEPT ![c] = v] ELSE call
        /\ v.op = "destroy" /\ v.timer = t
    BY <1>7, <2>3 DEF isc__timer_detach
  <2>5. /\ \A d \in Clients \ {c} : call'[d] = call[d]
        /\ call'[c] = call[c] \/ (refs[t] = 1 /\ call'[c] = v)
    BY <1>0, <2>4
  <2>6. \A u \in Timers : refs'[u] = IF u = t THEN refs[u] - 1 ELSE refs[u]
    BY <1>c, <2>1
  <2>7. ASSUME NEW u \in Timers PROVE Cardinality(Users(u))' <= refs'[u]
    <3>1. Users(u)' = Users(u)
      BY <2>1, <2>4, <2>5 DEF Users
    <3> QED BY <1>c, <2>1, <2>6, <3>1, UsersIs
  <2>8. \A d \in Clients : call[d].op = "destroy" => call[d].timer # t /\ call[d].timer \in Timers
    BY <1>0, <1>h, <2>2 DEF Types
  <2>9. ASSUME NEW d \in Clients, call'[d].op = "destroy"
        PROVE  refs'[call'[d].timer] = 0 /\ call'[d].timer \in timers'
    <3>1. CASE call'[d] = call[d]
      BY <1>h, <2>1, <2>6, <2>8, <2>9, <3>1
    <3>2. CASE refs[t] = 1 /\ call'[d] = v
      BY <2>1, <2>2, <2>4, <2>6, <3>2
    <3> QED BY <2>5, <3>1, <3>2
  <2>10. \A u \in Timers : refs'[u] > 0 => u \in timers'
    BY <1>h, <2>1, <2>2, <2>6
  <2>11. \A d \in Clients : call'[d].op = "create" => call'[d] = call[d]
    BY <2>4, <2>5
  <2>12. \A x, y \in Clients : call'[x].op = "destroy" /\ call'[y].op = "destroy"
                               /\ call'[x].timer = call'[y].timer => x = y
    BY <1>h, <2>1, <2>4, <2>5, <2>8
  <2> QED BY <1>h, <2>1, <2>7, <2>9, <2>10, <2>11, <2>12 DEF Handles
<1>8. ASSUME NEW c \in Clients, destroy(c) PROVE Handles'
  <2>1. PICK t \in Timers : /\ t = call[c].timer /\ t \in timers /\ refs[t] = 0
                            /\ timers' = timers \ {t}
    BY <1>8, DestroyIs
  <2>2. call' = [call EXCEPT ![c] = NoCall] /\ call[c].op = "destroy" /\ UNCHANGED <<fresh, refs>>
    BY <1>8 DEF destroy
  <2>e. Ends(c)
    BY <1>0, <1>n, <2>2 DEF Ends
  <2>3. \A d \in Clients : call'[d].op \in {"create", "destroy"} => call'[d] = call[d] /\ d # c
    BY <2>e, EndsIs
  <2>4. \A u \in Timers : Cardinality(Users(u))' <= refs'[u]
    BY <2>e, EndsIs
  <2>5. \A d \in Clients : call'[d].op = "destroy" => refs'[call'[d].timer] = 0 /\ call'[d].timer \in timers'
    BY <1>h, <2>1, <2>2, <2>3
  <2>6. \A u \in Timers : refs'[u] > 0 => u \in timers'
    BY <1>h, <2>1, <2>2
  <2> QED BY <1>h, <2>1, <2>2, <2>3, <2>4, <2>5, <2>6 DEF Handles
<1>10. ASSUME NEW c \in Clients, isc__timermgr_destroy(c) PROVE Handles'
  <2>1. PICK v : v = [op |-> "join"]
    OBVIOUS
  <2>2. call' = [call EXCEPT ![c] = v] /\ v.op = "join" /\ UNCHANGED <<timers, fresh, refs>>
    BY <1>10, <2>1 DEF isc__timermgr_destroy, timervars
  <2>3. Ends(c)
    BY <1>0, <2>2 DEF Ends
  <2> QED BY <1>k, <2>2, <2>3
<1>11. ASSUME NEW c \in Clients, destroy_join(c) PROVE Handles'
  <2>1. call' = [call EXCEPT ![c] = NoCall] /\ UNCHANGED <<timers, fresh, refs>>
    BY <1>11 DEF destroy_join, timervars
  <2>2. Ends(c)
    BY <1>0, <1>n, <2>1 DEF Ends
  <2> QED BY <1>k, <2>1, <2>2
<1>12. ASSUME \/ run_top \/ dispatch_look \/ dispatch_fire \/ run_wait \/ timedout
              \/ isc__timermgr_poke \/ Tick \/ task_take \/ UNCHANGED vars
              \/ \E c \in Clients, t \in Timers : isc__timer_touch(c, t)
       PROVE  Handles'
  <2>1. UNCHANGED <<timers, fresh, refs, call>>
    BY <1>12 DEF run_top, dispatch_look, dispatch_fire, run_wait, timedout, isc__timermgr_poke,
                 Tick, task_take, vars, isc__timer_touch, timervars
  <2> QED BY <1>u, <2>1
<1> QED BY <1>1, <1>2, <1>3, <1>4, <1>6, <1>7, <1>8, <1>10, <1>11, <1>12
        DEF Next, Run, Call, CallStep

-----------------------------------------------------------------------------
(* The other parts of the invariant. *)

\* The steps that leave the timers and the heap alone.
Quiet ==
    \/ \E c \in Clients, t \in Timers, s \in Settings : create_enter(c, t, s)
    \/ \E c \in Clients, t \in Timers, s \in Settings, p \in BOOLEAN : reset_enter(c, t, s, p)
    \/ \E c \in Clients, t \in Timers :
         isc__timer_touch(c, t) \/ isc__timer_attach(c, t) \/ isc__timer_detach(c, t)
    \/ \E c \in Clients : isc__timermgr_destroy(c) \/ destroy_join(c)
    \/ isc__timermgr_poke \/ run_top \/ dispatch_look \/ run_wait \/ timedout \/ Tick \/ task_take
    \/ UNCHANGED vars

\* The others are the critical sections that create, reset and destroy, and dispatch().
LEMMA Steps ==
    ASSUME [Next]_vars
    PROVE  \/ Quiet \/ dispatch_fire
           \/ \E c \in Clients : isc__timer_create(c) \/ isc__timer_reset(c) \/ destroy(c)
  BY DEF Next, Run, Call, CallStep, Quiet

\* What such a step leaves.
LEMMA QuietIs ==
    ASSUME Quiet
    PROVE  /\ UNCHANGED <<timers, setting, sched, era, purged>> /\ queue' \subseteq queue
  BY DEF Quiet, create_enter, reset_enter, isc__timer_touch, isc__timer_attach, isc__timer_detach,
         isc__timermgr_destroy, destroy_join, isc__timermgr_poke, run_top, dispatch_look, run_wait,
         timedout, Tick, task_take, vars, timervars, runvars, history

\* index(t) in terms of the heap, before and after a step.
LEMMA IndexIs ==
    ASSUME TInv, Types'
    PROVE  \A t \in Timers : /\ index(t) = sched.heap.index[t] /\ index(t)' = sched'.heap.index[t]
                             /\ index(t) \in Nat /\ index(t)' \in Nat
                             /\ index(t) > 0 <=> sched.heap.index[t] # 0
                             /\ index(t)' > 0 <=> sched'.heap.index[t] # 0
<1>1. PICK q, r : q = sched /\ r = sched'
  OBVIOUS
<1>2. QueueOK(q) /\ QueueOK(r)
  BY <1>1 DEF TInv, Types
<1>3. q.heap.index \in [Timers -> Nat] /\ r.heap.index \in [Timers -> Nat]
  BY <1>2, QueueParts
<1> QED BY <1>1, <1>3 DEF index

\* OnlyActive
LEMMA NextActive == TInv /\ [Next]_vars => OnlyActive'
<1> SUFFICES ASSUME TInv, [Next]_vars PROVE OnlyActive'
  OBVIOUS
<1>0. OnlyActive /\ Types'
  BY NextTypes DEF TInv
<1>i. \A t \in Timers : /\ index(t) > 0 <=> sched.heap.index[t] # 0
                        /\ index(t)' > 0 <=> sched'.heap.index[t] # 0
  BY <1>0, IndexIs
<1>a. \A u \in Timers : sched.heap.index[u] # 0 => u \in timers /\ setting[u].type # "inactive"
  BY <1>0, <1>i DEF OnlyActive
<1>d. DOMAIN setting = Timers
  BY DEF TInv, Types
<1>g. SUFFICES ASSUME NEW u \in Timers, sched'.heap.index[u] # 0
               PROVE  u \in timers' /\ setting'[u].type # "inactive"
  BY <1>i DEF OnlyActive
<1>1. CASE Quiet
  BY <1>1, <1>a, <1>g, QuietIs
<1>2. CASE dispatch_fire
  <2>1. PICK t \in Timers : /\ t \in timers /\ setting[t].type # "inactive"
                            /\ Others(sched, sched', t)
    BY <1>2, FireIs
  <2>2. UNCHANGED <<timers, setting>>
    BY <1>2 DEF dispatch_fire, timervars
  <2>3. u # t => sched.heap.index[u] # 0
    BY <1>g, <2>1 DEF Others
  <2> QED BY <1>a, <2>1, <2>2, <2>3
<1>3. ASSUME NEW c \in Clients, isc__timer_create(c)
      PROVE  u \in timers' /\ setting'[u].type # "inactive"
  <2>1. PICK t \in Timers, s \in Settings, n \in 0 .. clock :
             \/ UNCHANGED <<timervars, sched, pc>>
             \/ /\ timers' = timers \cup {t}
                /\ setting' = [setting EXCEPT ![t] = s]
                /\ Moves(t) /\ Placed(t, s, IdleTime(s, n), n)
    BY <1>3, CreateIs
  <2>2. CASE UNCHANGED <<timervars, sched, pc>>
    BY <1>a, <1>g, <2>2 DEF timervars
  <2>3. CASE /\ timers' = timers \cup {t}
             /\ setting' = [setting EXCEPT ![t] = s]
             /\ Moves(t) /\ Placed(t, s, IdleTime(s, n), n)
    <3>1. CASE u = t
      BY <1>d, <1>g, <2>3, <3>1 DEF Placed
    <3>2. CASE u # t
      <4>1. sched.heap.index[u] # 0
        BY <1>g, <2>3, <3>2 DEF Moves, Others
      <4> QED BY <1>a, <1>d, <2>3, <3>2, <4>1
    <3> QED BY <3>1, <3>2
  <2> QED BY <2>1, <2>2, <2>3
<1>4. ASSUME NEW c \in Clients, isc__timer_reset(c)
      PROVE  u \in timers' /\ setting'[u].type # "inactive"
  <2>1. PICK t \in Timers, s \in Settings :
             /\ t \in timers /\ setting' = [setting EXCEPT ![t] = s] /\ Moves(t)
             /\ sched'.heap.index[t] # 0 => s.type # "inactive"
    BY <1>4, ResetIs
  <2>2. timers' = timers
    BY <1>4 DEF isc__timer_reset
  <2>3. CASE u = t
    BY <1>d, <1>g, <2>1, <2>2, <2>3
  <2>4. CASE u # t
    <3>1. sched.heap.index[u] # 0
      BY <1>g, <2>1, <2>4 DEF Moves, Others
    <3> QED BY <1>a, <1>d, <2>1, <2>2, <2>4, <3>1
  <2> QED BY <2>3, <2>4
<1>5. ASSUME NEW c \in Clients, destroy(c)
      PROVE  u \in timers' /\ setting'[u].type # "inactive"
  <2>1. PICK t \in Timers :
             /\ timers' = timers \ {t} /\ setting' = [setting EXCEPT ![t] = Unset]
             /\ Moves(t) /\ sched'.heap.index[t] = 0
    BY <1>5, DestroyIs
  <2>2. u # t /\ sched.heap.index[u] # 0
    BY <1>g, <2>1 DEF Moves, Others
  <2> QED BY <1>a, <1>d, <2>1, <2>2
<1> QED BY <1>1, <1>2, <1>3, <1>4, <1>5, Steps

\* What the steps do to run(): create, reset and destroy wake it at most.
LEMMA PcIs ==
    ASSUME TInv, NEW c \in Clients, isc__timer_create(c) \/ isc__timer_reset(c) \/ destroy(c)
    PROVE  /\ pc' \in {pc, signal(pc)} /\ pc \notin {"dispatch", "fire"}
           /\ UNCHANGED <<done, mdue, clock>>
<1>1. pc' \in {pc, signal(pc)}
  <2>1. CASE isc__timer_create(c)
    BY <2>1, CreateIs DEF Moves
  <2>2. CASE isc__timer_reset(c)
    BY <2>2, ResetIs DEF Moves
  <2>3. CASE destroy(c)
    BY <2>3, DestroyIs DEF Moves
  <2> QED BY <2>1, <2>2, <2>3
<1>2. pc \notin {"dispatch", "fire"} /\ UNCHANGED <<done, mdue, clock>>
  BY DEF isc__timer_create, isc__timer_reset, destroy, ManagerBusy, runvars
<1> QED BY <1>1, <1>2

\* Alive and Firing
LEMMA NextRun == TInv /\ [Next]_vars => Alive' /\ Firing'
<1> SUFFICES ASSUME TInv, [Next]_vars PROVE Alive' /\ Firing'
  OBVIOUS
<1>0. Alive /\ Firing
  BY DEF TInv
<1>1. CASE dispatch_fire
  BY <1>0, <1>1 DEF dispatch_fire, Alive, Firing
<1>2. ASSUME NEW c \in Clients, isc__timer_create(c) \/ isc__timer_reset(c) \/ destroy(c)
      PROVE  Alive' /\ Firing'
  <2>1. pc' \in {pc, signal(pc)} /\ pc \notin {"dispatch", "fire"} /\ UNCHANGED done
    BY <1>2, PcIs
  <2> QED BY <1>0, <2>1 DEF Alive, Firing, signal
<1>3. CASE Quiet
  <2>1. CASE run_top
    BY <1>0, <2>1 DEF run_top, Alive, Firing
  <2>2. CASE dispatch_look
    <3>1. verdict' # "none"
      BY <2>2 DEF dispatch_look, Verdict
    <3> QED BY <1>0, <2>2, <3>1 DEF dispatch_look, Alive, Firing
  <2>3. CASE run_wait
    BY <1>0, <2>3 DEF run_wait, Alive, Firing
  <2>4. CASE timedout \/ isc__timermgr_poke
    BY <1>0, <2>4 DEF timedout, isc__timermgr_poke, Alive, Firing, signal
  <2>5. ASSUME NEW c \in Clients, isc__timermgr_destroy(c) PROVE Alive' /\ Firing'
    BY <1>0, <2>5 DEF isc__timermgr_destroy, Alive, Firing, signal, ManagerBusy
  <2>6. CASE UNCHANGED <<pc, done, sched, verdict>>
    BY <1>0, <2>6 DEF Alive, Firing
  <2>7. \/ run_top \/ dispatch_look \/ run_wait \/ timedout \/ isc__timermgr_poke
        \/ \E c \in Clients : isc__timermgr_destroy(c)
        \/ UNCHANGED <<pc, done, sched, verdict>>
    BY <1>3 DEF Quiet, create_enter, reset_enter, isc__timer_touch, isc__timer_attach,
                isc__timer_detach, destroy_join, Tick, task_take, vars, runvars
  <2> QED BY <2>1, <2>2, <2>3, <2>4, <2>5, <2>6, <2>7
<1> QED BY <1>1, <1>2, <1>3, Steps

\* What is posted and purged.
LEMMA QueueIs ==
    ASSUME TInv, [Next]_vars
    PROVE  \/ queue' \subseteq queue /\ UNCHANGED <<era, purged>>
           \/ \E c \in Clients : isc__timer_reset(c)
           \/ dispatch_fire
<1>1. ASSUME NEW c \in Clients, isc__timer_create(c) PROVE queue' \subseteq queue /\ UNCHANGED <<era, purged>>
  BY <1>1 DEF isc__timer_create, history
<1>2. ASSUME NEW c \in Clients, destroy(c) PROVE queue' \subseteq queue /\ UNCHANGED <<era, purged>>
  BY <1>2 DEF destroy, history, purgerange
<1> QED BY <1>1, <1>2, Steps, QuietIs

\* The events of a reset.
LEMMA ResetEras ==
    ASSUME TInv, NEW c \in Clients, isc__timer_reset(c)
    PROVE  \E t \in Timers :
             /\ t = call[c].timer
             /\ era' = [era EXCEPT ![t] = era[t] + 1] /\ timers' = timers
             /\ \/ purged' = [purged EXCEPT ![t] = era[t] + 1] /\ queue' = purgerange(t)
                \/ purged' = purged /\ queue' = queue
<1>1. PICK t \in Timers : t = call[c].timer
  BY ResetIs
<1> QED BY <1>1 DEF isc__timer_reset

\* The event that dispatch() posts.
LEMMA FireEvent ==
    ASSUME TInv, dispatch_fire
    PROVE  \E t \in Timers :
             /\ t \in timers /\ sched.heap.index[t] = 1 /\ Others(sched, sched', t)
             /\ \A e \in queue' : e \in queue \/ /\ e.timer = t /\ e.era = era[t]
                                                 /\ e.type # "TICK" => sched'.heap.index[t] = 0
             /\ UNCHANGED <<era, purged, timers>>
<1>1. PICK t \in Timers :
             /\ sched.heap.index[t] = 1 /\ t \in timers
             /\ \/ queue' = queue
                \/ verdict # "touched" /\ queue' = queue \cup {[timer |-> t, type |-> verdict, era |-> era[t]]}
             /\ Others(sched, sched', t)
             /\ verdict \notin {"TICK", "touched"} => sched'.heap.index[t] = 0
  BY FireIs
<1>2. UNCHANGED <<era, purged, timers>>
  BY DEF dispatch_fire, history, timervars
<1>3. ASSUME NEW e \in queue', e \notin queue
      PROVE  e.timer = t /\ e.era = era[t] /\ (e.type # "TICK" => sched'.heap.index[t] = 0)
  <2>1. verdict # "touched" /\ e = [timer |-> t, type |-> verdict, era |-> era[t]]
    BY <1>1, <1>3
  <2> QED BY <1>1, <2>1
<1> QED BY <1>1, <1>2, <1>3

\* Eras
LEMMA NextEras == TInv /\ [Next]_vars => Eras'
<1> SUFFICES ASSUME TInv, [Next]_vars PROVE Eras'
  OBVIOUS
<1>0. Eras /\ era \in [Timers -> Nat] /\ purged \in [Timers -> Nat]
      /\ \A e \in queue : e.timer \in Timers /\ e.era \in Nat
  BY DEF TInv, Types
<1>1. CASE queue' \subseteq queue /\ UNCHANGED <<era, purged>>
  BY <1>0, <1>1 DEF Eras
<1>2. ASSUME NEW c \in Clients, isc__timer_reset(c) PROVE Eras'
  <2>1. PICK t \in Timers :
             /\ era' = [era EXCEPT ![t] = era[t] + 1]
             /\ \/ purged' = [purged EXCEPT ![t] = era[t] + 1] /\ queue' = purgerange(t)
                \/ purged' = purged /\ queue' = queue
    BY <1>2, ResetEras
  <2>2. queue' \subseteq queue
    BY <2>1 DEF purgerange
  <2>3. \A u \in Timers : era'[u] >= era[u] /\ purged'[u] <= era'[u] /\ era'[u] \in Nat
    BY <1>0, <2>1 DEF Eras
  <2>4. ASSUME NEW e \in queue' PROVE e.era <= era'[e.timer]
    <3>1. e.timer \in Timers /\ e.era \in Nat /\ e.era <= era[e.timer] /\ era[e.timer] \in Nat
      BY <1>0, <2>2 DEF Eras
    <3> QED BY <2>3, <3>1
  <2> QED BY <2>3, <2>4 DEF Eras
<1>3. CASE dispatch_fire
  <2>1. PICK t \in Timers :
             /\ \A e \in queue' : e \in queue \/ (e.timer = t /\ e.era = era[t])
             /\ UNCHANGED <<era, purged>>
    BY <1>3, FireEvent
  <2>2. ASSUME NEW e \in queue' PROVE e.era <= era[e.timer]
    BY <1>0, <2>1, <2>2 DEF Eras
  <2> QED BY <1>0, <2>1, <2>2 DEF Eras
<1> QED BY <1>1, <1>2, <1>3, QueueIs

\* PurgeIsFinal
LEMMA NextPurge == TInv /\ [Next]_vars => PurgeIsFinal'
<1> SUFFICES ASSUME TInv, [Next]_vars PROVE PurgeIsFinal'
  OBVIOUS
<1>0. PurgeIsFinal /\ Eras /\ era \in [Timers -> Nat] /\ purged \in [Timers -> Nat]
      /\ \A e \in queue : e.timer \in Timers /\ e.era \in Nat
  BY DEF TInv, Types
<1>1. CASE Quiet
  BY <1>0, <1>1, QuietIs DEF PurgeIsFinal
<1>2. ASSUME NEW c \in Clients, isc__timer_reset(c) PROVE PurgeIsFinal'
  <2>1. PICK t \in Timers :
             /\ timers' = timers
             /\ \/ purged' = [purged EXCEPT ![t] = era[t] + 1] /\ queue' = purgerange(t)
                \/ purged' = purged /\ queue' = queue
    BY <1>2, ResetEras
  <2>2. CASE purged' = purged /\ queue' = queue
    BY <1>0, <2>1, <2>2 DEF PurgeIsFinal
  <2>3. CASE purged' = [purged EXCEPT ![t] = era[t] + 1] /\ queue' = purgerange(t)
    <3>1. \A e \in queue' : e \in queue /\ e.timer # t
      BY <2>3 DEF purgerange
    <3>2. \A e \in queue' : purged'[e.timer] = purged[e.timer]
      BY <1>0, <2>3, <3>1
    <3> QED BY <1>0, <2>1, <3>1, <3>2 DEF PurgeIsFinal
  <2> QED BY <2>1, <2>2, <2>3
<1>3. CASE dispatch_fire
  <2>1. PICK t \in Timers :
             /\ t \in timers
             /\ \A e \in queue' : e \in queue \/ (e.timer = t /\ e.era = era[t])
             /\ UNCHANGED <<era, purged, timers>>
    BY <1>3, FireEvent
  <2>2. era[t] >= purged[t]
    BY <1>0 DEF Eras
  <2>3. ASSUME NEW e \in queue' PROVE e.timer \in timers /\ e.era >= purged[e.timer]
    BY <1>0, <2>1, <2>2, <2>3 DEF PurgeIsFinal
  <2> QED BY <2>1, <2>3 DEF PurgeIsFinal
<1>4. ASSUME NEW c \in Clients, isc__timer_create(c) PROVE PurgeIsFinal'
  <2>1. timers \subseteq timers'
    BY <1>4, CreateIs DEF timervars
  <2>2. UNCHANGED <<queue, purged>>
    BY <1>4 DEF isc__timer_create, history
  <2> QED BY <1>0, <2>1, <2>2 DEF PurgeIsFinal
<1>5. ASSUME NEW c \in Clients, destroy(c) PROVE PurgeIsFinal'
  <2>1. PICK t \in Timers : timers' = timers \ {t} /\ queue' = purgerange(t)
    BY <1>5, DestroyIs
  <2>2. UNCHANGED purged
    BY <1>5 DEF destroy, history
  <2> QED BY <1>0, <2>1, <2>2 DEF PurgeIsFinal, purgerange
<1> QED BY <1>1, <1>2, <1>3, <1>4, <1>5, Steps

\* TimeoutIsLast
LEMMA NextTimeout == TInv /\ [Next]_vars => TimeoutIsLast'
<1> SUFFICES ASSUME TInv, [Next]_vars PROVE TimeoutIsLast'
  OBVIOUS
<1>0. /\ PurgeIsFinal /\ Eras /\ Types' /\ era \in [Timers -> Nat]
      /\ \A e \in queue : e.timer \in Timers /\ e.era \in Nat /\ e.era <= era[e.timer]
      /\ \A e \in queue' : e.timer \in Timers
  BY NextTypes DEF TInv, Types, Eras
<1>i. \A t \in Timers : index(t) = sched.heap.index[t] /\ index(t)' = sched'.heap.index[t]
  BY <1>0, IndexIs
<1>a. \A e \in queue : e.type # "TICK" /\ e.era = era[e.timer] => sched.heap.index[e.timer] = 0
  BY <1>0, <1>i DEF TInv, TimeoutIsLast
<1>g. SUFFICES ASSUME NEW e \in queue', e.type # "TICK", e.era = era'[e.timer]
               PROVE  sched'.heap.index[e.timer] = 0
  BY <1>0, <1>i DEF TimeoutIsLast
<1>1. CASE Quiet
  BY <1>1, <1>a, <1>g, QuietIs
<1>2. ASSUME NEW c \in Clients, isc__timer_reset(c) PROVE sched'.heap.index[e.timer] = 0
  <2>1. PICK t \in Timers : t = call[c].timer /\ Moves(t)
    BY <1>2, ResetIs
  <2>2. era' = [era EXCEPT ![t] = era[t] + 1] /\ queue' \subseteq queue
    BY <1>2, <2>1, ResetEras DEF purgerange
  <2>3. e \in queue /\ e.timer \in Timers /\ e.era \in Nat /\ e.era <= era[e.timer]
    BY <1>0, <2>2
  <2>4. e.timer # t /\ era'[e.timer] = era[e.timer]
    BY <1>0, <1>g, <2>2, <2>3
  <2>5. sched.heap.index[e.timer] = 0
    BY <1>a, <1>g, <2>3, <2>4
  <2> QED BY <2>1, <2>3, <2>4, <2>5 DEF Moves, Others
<1>3. CASE dispatch_fire
  <2>1. PICK t \in Timers :
             /\ sched.heap.index[t] = 1 /\ Others(sched, sched', t)
             /\ \A x \in queue' : x \in queue \/ /\ x.timer = t /\ x.era = era[t]
                                                 /\ x.type # "TICK" => sched'.heap.index[t] = 0
             /\ UNCHANGED <<era, purged, timers>>
    BY <1>3, FireEvent
  <2>2. CASE e \in queue
    <3>1. sched.heap.index[e.timer] = 0 /\ e.timer \in Timers
      BY <1>0, <1>a, <1>g, <2>1, <2>2
    <3>2. e.timer # t
      BY <2>1, <3>1
    <3> QED BY <2>1, <3>1, <3>2 DEF Others
  <2>3. CASE e \notin queue
    BY <1>g, <2>1, <2>3
  <2> QED BY <2>2, <2>3
<1>4. ASSUME NEW c \in Clients, isc__timer_create(c) PROVE sched'.heap.index[e.timer] = 0
  <2>1. PICK t \in Timers : t \notin timers /\ (UNCHANGED sched \/ Moves(t))
    BY <1>4, CreateIs
  <2>2. UNCHANGED <<queue, era>>
    BY <1>4 DEF isc__timer_create, history
  <2>3. sched.heap.index[e.timer] = 0 /\ e.timer # t /\ e.timer \in Timers
    BY <1>0, <1>a, <1>g, <2>1, <2>2 DEF PurgeIsFinal
  <2> QED BY <2>1, <2>3 DEF Moves, Others
<1>5. ASSUME NEW c \in Clients, destroy(c) PROVE sched'.heap.index[e.timer] = 0
  <2>1. PICK t \in Timers : Moves(t) /\ sched'.heap.index[t] = 0 /\ queue' = purgerange(t)
    BY <1>5, DestroyIs
  <2>2. e \in queue /\ e.timer \in Timers /\ era' = era
    BY <1>0, <1>5, <2>1 DEF purgerange, destroy, history
  <2>3. sched.heap.index[e.timer] = 0
    BY <1>a, <1>g, <2>2
  <2> QED BY <2>1, <2>2, <2>3 DEF Moves, Others
<1> QED BY <1>1, <1>2, <1>3, <1>4, <1>5, Steps

\* run() sleeps until the head of the queue q is due, or as long as nobody wakes it.
Asleep(p, q, m) == \A t \in Timers : q.heap.index[t] # 0 => p = "waituntil" /\ m <= q.due[t]

\* While it sleeps, a timer that does not become the head leaves its sleep right.
LEMMA AsleepKept ==
    ASSUME NEW q, NEW r, QueueOK(q), QueueOK(r), NEW t \in Timers, Others(q, r, t),
           r.heap.index[t] # 1, NEW p, NEW m \in Nat, Asleep(p, q, m)
    PROVE  Asleep(p, r, m)
<1> SUFFICES ASSUME NEW u \in Timers, r.heap.index[u] # 0 PROVE p = "waituntil" /\ m <= r.due[u]
  BY DEF Asleep
<1>1. CASE u # t
  BY <1>1 DEF Asleep, Others
<1>2. CASE u = t
  <2>1. Sound(Timers, r.nscheduled, r.heap, r.due)
    BY DEF QueueOK
  <2>2. PICK v \in Timers : v # t /\ r.heap.index[v] = 1 /\ r.due[v] <= r.due[t]
    BY <1>2, <2>1, HeadIsLeast
  <2>3. p = "waituntil" /\ m <= r.due[v]
    BY <2>2 DEF Asleep, Others
  <2>4. r.due[v] \in Nat /\ r.due[t] \in Nat
    BY QueueParts
  <2> QED BY <1>2, <2>2, <2>3, <2>4
<1> QED BY <1>1, <1>2

\* WakesInTime
LEMMA NextWakes == TInv /\ [Next]_vars => WakesInTime'
<1> SUFFICES ASSUME TInv, [Next]_vars PROVE WakesInTime'
  OBVIOUS
<1>0. Types /\ Types' /\ Alive'
  BY NextTypes, NextRun DEF TInv
<1>m. mdue \in Nat /\ TimeMax \in Nat
  BY <1>0, TimerAssumption DEF Types, Times
<1>i. \A t \in Timers : /\ index(t) > 0 <=> sched.heap.index[t] # 0
                        /\ index(t)' > 0 <=> sched'.heap.index[t] # 0
  BY <1>0, IndexIs
<1>a. pc \in {"wait", "waituntil"} => Asleep(pc, sched, mdue)
  BY <1>i DEF TInv, WakesInTime, Asleep
<1>g. SUFFICES ASSUME pc' \in {"wait", "waituntil"} PROVE Asleep(pc', sched', mdue')
  BY <1>0, <1>i DEF WakesInTime, Asleep, Alive
<1>1. ASSUME NEW t \in Timers, Moves(t), UNCHANGED mdue PROVE Asleep(pc', sched', mdue')
  <2>1. pc' = pc /\ pc' # signal(pc)
    BY <1>1, <1>g DEF Moves, signal
  <2>2. sched'.heap.index[t] = 1 => sched' = sched
    BY <1>1, <2>1 DEF Moves
  <2>3. CASE sched' = sched
    BY <1>1, <1>a, <1>g, <2>1, <2>3
  <2>4. CASE sched'.heap.index[t] # 1
    <3>1. PICK q, r : q = sched /\ r = sched'
      OBVIOUS
    <3>2. PICK p, m : m \in Nat /\ p = pc /\ m = mdue
      BY <1>m
    <3>3. QueueOK(q) /\ QueueOK(r) /\ Others(q, r, t) /\ r.heap.index[t] # 1
      BY <1>0, <1>1, <2>4, <3>1 DEF Types, Moves
    <3>4. Asleep(p, q, m)
      BY <1>a, <1>g, <2>1, <3>1, <3>2
    <3>5. Asleep(p, r, m)
      BY <3>2, <3>3, <3>4, AsleepKept
    <3> QED BY <1>1, <2>1, <3>1, <3>2, <3>5
  <2> QED BY <2>2, <2>3, <2>4
<1>2. CASE UNCHANGED <<pc, sched, mdue>>
  BY <1>2, <1>a, <1>g
<1>3. CASE run_wait
  <2>1. PICK q : q = sched
    OBVIOUS
  <2>2. QueueOK(q) /\ q.nscheduled \in Nat
    BY <1>0, <2>1, QueueParts DEF Types
  <2>3. Sound(Timers, q.nscheduled, q.heap, q.due)
    BY <2>2 DEF QueueOK
  <2>4. ASSUME NEW t \in Timers, q.heap.index[t] # 0
        PROVE  q.nscheduled # 0 /\ q.due[q.heap.array[1]] <= q.due[t]
    BY <2>2, <2>3, <2>4, HeadIsLeast
  <2>5. sched' = q /\ (q.nscheduled # 0 => pc' = "waituntil" /\ mdue' = q.due[q.heap.array[1]])
    BY <1>3, <2>1, <2>2 DEF run_wait, head, isc_heap_element
  <2> QED BY <2>4, <2>5 DEF Asleep
<1>4. ASSUME NEW c \in Clients, isc__timer_create(c) PROVE Asleep(pc', sched', mdue')
  <2>1. UNCHANGED mdue
    BY <1>4, PcIs
  <2>2. PICK t \in Timers : UNCHANGED <<timervars, sched, pc>> \/ Moves(t)
    BY <1>4, CreateIs
  <2> QED BY <1>1, <1>2, <2>1, <2>2
<1>5. ASSUME NEW c \in Clients, isc__timer_reset(c) PROVE Asleep(pc', sched', mdue')
  <2>1. UNCHANGED mdue
    BY <1>5, PcIs
  <2>2. PICK t \in Timers : Moves(t)
    BY <1>5, ResetIs
  <2> QED BY <1>1, <2>1, <2>2
<1>6. ASSUME NEW c \in Clients, destroy(c) PROVE Asleep(pc', sched', mdue')
  <2>1. UNCHANGED mdue
    BY <1>6, PcIs
  <2>2. PICK t \in Timers : Moves(t)
    BY <1>6, DestroyIs
  <2> QED BY <1>1, <2>1, <2>2
<1>7. ~dispatch_fire
  BY <1>g DEF dispatch_fire
<1>8. CASE Quiet
  <2>1. UNCHANGED <<pc, sched, mdue>> \/ run_wait
    BY <1>8, <1>g DEF Quiet, create_enter, reset_enter, isc__timer_touch, isc__timer_attach,
             isc__timer_detach, destroy_join, Tick, task_take, vars, runvars, run_top, dispatch_look,
             timedout, isc__timermgr_poke, isc__timermgr_destroy, signal
  <2> QED BY <1>2, <1>3, <2>1
<1> QED BY <1>4, <1>5, <1>6, <1>7, <1>8, Steps

\* A timer with the setting s and the idle time i that is due at d is in time at k.
InTime(s, i, d, k) ==
    Fits(k, s.interval) =>
        /\ s.type # "once" => d <= k + s.interval
        /\ s.type # "ticker" /\ s.expires # 0 => d <= s.expires
        /\ s.type = "once" /\ s.interval # 0 => d <= i /\ i > 0 /\ i <= k + s.interval

\* schedule() has a timer in time if its idle time is right, and time only helps.
LEMMA InTimeIs ==
    ASSUME NEW s \in Settings, s.type # "inactive", NEW i \in Times, NEW n \in Times, NEW k \in Nat,
           n <= k, s.type # "once" => Fits(n, s.interval),
           Fits(k, s.interval) /\ s.type = "once" /\ s.interval # 0 => i > 0 /\ i <= k + s.interval
    PROVE  InTime(s, i, DueTime(s, i, n), k)
<1>1. TimeMax \in Nat /\ s.interval \in Nat /\ i \in Nat /\ n \in Nat
  BY TimerAssumption DEF Valid, Times
<1>2. PICK d : d = DueTime(s, i, n)
  OBVIOUS
<1>3. /\ d \in Times
      /\ s.type # "once" => d <= n + s.interval
      /\ s.type # "ticker" /\ s.expires # 0 => d <= s.expires
      /\ s.type = "once" /\ i # 0 => d <= i
  BY <1>2, DueIs
<1>4. d \in Nat
  BY <1>1, <1>3 DEF Times
<1>5. s.type # "once" => d <= k + s.interval
  BY <1>1, <1>3, <1>4
<1> QED BY <1>1, <1>2, <1>3, <1>5 DEF InTime

\* A timer that is in time stays in time as the clock ticks.
LEMMA InTimeLater ==
    ASSUME NEW s \in Settings, NEW i \in Times, NEW d \in Times, NEW k \in Nat, InTime(s, i, d, k)
    PROVE  InTime(s, i, d, k + 1)
<1>1. TimeMax \in Nat /\ s.interval \in Nat /\ i \in Nat /\ d \in Nat
  BY TimerAssumption DEF Valid, Times
<1> QED BY <1>1 DEF InTime, Fits

\* NotLate and IdleFits
LEMMA NextNotLate == TInv /\ [Next]_vars => NotLate' /\ IdleFits'
<1> SUFFICES ASSUME TInv, [Next]_vars PROVE NotLate' /\ IdleFits'
  OBVIOUS
<1>0. /\ Types /\ Types' /\ DOMAIN setting = Timers /\ idle \in [Timers -> Times]
      /\ sched.due \in [Timers -> Times]
      /\ clock \in Nat /\ TimeMax \in Nat /\ clock <= TimeMax
  BY NextTypes, TimerAssumption DEF TInv, Types, QueueOK
<1>i. \A t \in Timers : /\ index(t) > 0 <=> sched.heap.index[t] # 0
                        /\ index(t)' > 0 <=> sched'.heap.index[t] # 0
  BY <1>0, IndexIs
<1>a. \A u \in Timers : sched.heap.index[u] # 0 => InTime(setting[u], idle[u], sched.due[u], clock)
  BY <1>i DEF TInv, NotLate, IdleFits, InTime
<1>s. \A u \in Timers : sched.heap.index[u] # 0 => setting[u] \in Settings /\ setting[u].type # "inactive"
  <2>1. ASSUME NEW u \in Timers, sched.heap.index[u] # 0
        PROVE  setting[u] \in Settings /\ setting[u].type # "inactive"
    <3>1. setting[u].type # "inactive" /\ setting[u] \in Settings \cup {Unset}
      BY <1>0, <1>i, <2>1 DEF TInv, OnlyActive, Types
    <3> QED BY <3>1 DEF Unset
  <2> QED BY <2>1
<1>g. SUFFICES ASSUME NEW u \in Timers, sched'.heap.index[u] # 0
               PROVE  InTime(setting'[u], idle'[u], sched'.due[u], clock')
  BY <1>i DEF NotLate, IdleFits, InTime
\* A timer that a call sets and places.
<1>p. ASSUME NEW s \in Settings, NEW n \in 0 .. clock, n \in Times, ~IdleFails(s, n),
             setting'[u] = s, idle'[u] = IdleTime(s, n), Placed(u, s, IdleTime(s, n), n),
             UNCHANGED clock
      PROVE  InTime(setting'[u], idle'[u], sched'.due[u], clock')
  <2>1. PICK i : i = IdleTime(s, n)
    OBVIOUS
  <2>2. i \in Times /\ (s.type = "once" /\ s.interval # 0 => i = n + s.interval /\ i > 0)
    BY <1>p, <2>1, IdleIs
  <2>3. s.type # "inactive" /\ sched'.due[u] = DueTime(s, i, n) /\ (s.type # "once" => Fits(n, s.interval))
    BY <1>p, <1>g, <2>1 DEF Placed
  <2>4. s.interval \in Nat
    BY TimerAssumption DEF Valid
  <2>5. PICK k \in Nat : k = clock /\ n <= k /\ n \in Nat
    BY <1>0, <1>p
  <2>6. s.type = "once" /\ s.interval # 0 => i > 0 /\ i <= k + s.interval
    BY <2>2, <2>4, <2>5
  <2>7. InTime(s, i, DueTime(s, i, n), k)
    BY <1>p, <2>2, <2>3, <2>5, <2>6, InTimeIs
  <2> QED BY <1>p, <2>1, <2>3, <2>5, <2>7
\* A timer that the step leaves alone.
<1>k. ASSUME sched.heap.index[u] # 0, setting'[u] = setting[u], idle'[u] = idle[u],
             sched'.due[u] = sched.due[u], UNCHANGED clock
      PROVE  InTime(setting'[u], idle'[u], sched'.due[u], clock')
  BY <1>a, <1>k
<1>1. ASSUME NEW c \in Clients, isc__timer_create(c)
      PROVE  InTime(setting'[u], idle'[u], sched'.due[u], clock')
  <2>1. PICK t \in Timers, s \in Settings, n \in 0 .. clock :
             /\ n \in Times
             /\ \/ UNCHANGED <<timervars, sched, pc>>
                \/ /\ setting' = [setting EXCEPT ![t] = s]
                   /\ idle' = [idle EXCEPT ![t] = IdleTime(s, n)]
                   /\ ~IdleFails(s, n)
                   /\ Moves(t) /\ Placed(t, s, IdleTime(s, n), n)
    BY <1>1, CreateIs
  <2>2. UNCHANGED clock
    BY <1>1, PcIs
  <2>3. CASE UNCHANGED <<timervars, sched, pc>>
    BY <1>g, <1>k, <2>2, <2>3 DEF timervars
  <2>4. CASE /\ setting' = [setting EXCEPT ![t] = s]
             /\ idle' = [idle EXCEPT ![t] = IdleTime(s, n)]
             /\ ~IdleFails(s, n)
             /\ Moves(t) /\ Placed(t, s, IdleTime(s, n), n)
    <3>1. CASE u = t
      <4>1. setting'[u] = s /\ idle'[u] = IdleTime(s, n)
        BY <1>0, <2>4, <3>1
      <4> QED BY <1>p, <2>1, <2>2, <2>4, <3>1, <4>1
    <3>2. CASE u # t
      <4>1. setting'[u] = setting[u] /\ idle'[u] = idle[u]
        BY <1>0, <2>4, <3>2
      <4>2. sched.heap.index[u] # 0 /\ sched'.due[u] = sched.due[u]
        BY <1>g, <2>4, <3>2 DEF Moves, Others
      <4> QED BY <1>k, <2>2, <4>1, <4>2
    <3> QED BY <3>1, <3>2
  <2> QED BY <2>1, <2>3, <2>4
<1>2. ASSUME NEW c \in Clients, isc__timer_reset(c)
      PROVE  InTime(setting'[u], idle'[u], sched'.due[u], clock')
  <2>1. PICK t \in Timers, s \in Settings, n \in 0 .. clock, idl \in Times :
             /\ n \in Times
             /\ setting' = [setting EXCEPT ![t] = s]
             /\ idle' = [idle EXCEPT ![t] = idl]
             /\ Moves(t)
             /\ \/ ~Fits(n, s.interval) /\ UNCHANGED sched
                \/ ~IdleFails(s, n) /\ idl = IdleTime(s, n) /\ Placed(t, s, idl, n)
    BY <1>2, ResetIs
  <2>2. UNCHANGED clock
    BY <1>2, PcIs
  <2>3. CASE u # t
    <3>1. setting'[u] = setting[u] /\ idle'[u] = idle[u]
      BY <1>0, <2>1, <2>3
    <3>2. sched.heap.index[u] # 0 /\ sched'.due[u] = sched.due[u]
      BY <1>g, <2>1, <2>3 DEF Moves, Others
    <3> QED BY <1>k, <2>2, <3>1, <3>2
  <2>4. CASE u = t /\ ~Fits(n, s.interval)
    <3>1. setting'[u] = s
      BY <1>0, <2>1, <2>4
    <3>2. s.interval \in Nat
      BY TimerAssumption DEF Valid
    <3>3. ~Fits(clock, s.interval)
      BY <1>0, <2>4, <3>2 DEF Fits
    <3> QED BY <2>2, <3>1, <3>3 DEF InTime
  <2>5. CASE u = t /\ ~IdleFails(s, n) /\ idl = IdleTime(s, n) /\ Placed(t, s, idl, n)
    <3>1. setting'[u] = s /\ idle'[u] = IdleTime(s, n)
      BY <1>0, <2>1, <2>5
    <3> QED BY <1>p, <2>1, <2>2, <2>5, <3>1
  <2> QED BY <2>1, <2>3, <2>4, <2>5
<1>3. ASSUME NEW c \in Clients, destroy(c)
      PROVE  InTime(setting'[u], idle'[u], sched'.due[u], clock')
  <2>1. PICK t \in Timers :
             /\ setting' = [setting EXCEPT ![t] = Unset] /\ idle' = [idle EXCEPT ![t] = 0]
             /\ Moves(t) /\ sched'.heap.index[t] = 0
    BY <1>3, DestroyIs
  <2>2. u # t /\ UNCHANGED clock
    BY <1>3, <1>g, <2>1, PcIs
  <2>3. setting'[u] = setting[u] /\ idle'[u] = idle[u]
    BY <1>0, <2>1, <2>2
  <2>4. sched.heap.index[u] # 0 /\ sched'.due[u] = sched.due[u]
    BY <1>g, <2>1, <2>2 DEF Moves, Others
  <2> QED BY <1>k, <2>2, <2>3, <2>4
<1>4. CASE dispatch_fire
  <2>1. PICK t \in Timers :
             /\ sched.heap.index[t] = 1
             /\ setting[t] \in Settings /\ setting[t].type # "inactive"
             /\ Others(sched, sched', t) /\ Placed(t, setting[t], idle[t], now)
    BY <1>4, FireIs
  <2>2. UNCHANGED <<setting, idle, clock>>
    BY <1>4 DEF dispatch_fire, timervars
  <2>3. CASE u # t
    <3>1. sched.heap.index[u] # 0 /\ sched'.due[u] = sched.due[u]
      BY <1>g, <2>1, <2>3 DEF Others
    <3> QED BY <1>k, <2>2, <3>1
  <2>4. CASE u = t
    <3>1. PICK s, i : s = setting[t] /\ i = idle[t]
      OBVIOUS
    <3>2. PICK n, k \in Nat : n = now /\ k = clock /\ n <= k /\ n \in Times
      BY <1>0 DEF Types, Times
    <3>3. s \in Settings /\ s.type # "inactive" /\ i \in Times
      BY <1>0, <2>1, <3>1
    <3>4. sched'.due[u] = DueTime(s, i, n) /\ (s.type # "once" => Fits(n, s.interval))
      BY <1>g, <2>1, <2>4, <3>1, <3>2 DEF Placed
    <3>5. Fits(k, s.interval) /\ s.type = "once" /\ s.interval # 0 => i > 0 /\ i <= k + s.interval
      <4>1. InTime(s, i, sched.due[t], k)
        BY <1>a, <2>1, <3>1, <3>2
      <4> QED BY <4>1 DEF InTime
    <3>6. InTime(s, i, DueTime(s, i, n), k)
      BY <3>2, <3>3, <3>4, <3>5, InTimeIs
    <3> QED BY <2>2, <2>4, <3>1, <3>2, <3>4, <3>6
  <2> QED BY <2>3, <2>4
<1>5. CASE Tick
  <2>1. UNCHANGED <<sched, setting, idle>> /\ clock' = clock + 1
    BY <1>5 DEF Tick, timervars
  <2>2. PICK s \in Settings, i, d \in Times, k \in Nat :
          s = setting[u] /\ i = idle[u] /\ d = sched.due[u] /\ k = clock
    BY <1>0, <1>g, <1>s, <2>1
  <2>3. InTime(s, i, d, k)
    BY <1>a, <1>g, <2>1, <2>2
  <2>4. InTime(s, i, d, k + 1)
    BY <2>3, InTimeLater
  <2> QED BY <2>1, <2>2, <2>4
<1>6. ASSUME NEW c \in Clients, NEW t \in Timers, isc__timer_touch(c, t)
      PROVE  InTime(setting'[u], idle'[u], sched'.due[u], clock')
  <2>1. /\ UNCHANGED <<sched, setting, clock>>
        /\ idle' = IF Fits(clock, setting[t].interval)
                   THEN [idle EXCEPT ![t] = clock + setting[t].interval] ELSE idle
    BY <1>6 DEF isc__timer_touch
  <2>2. CASE u # t \/ ~Fits(clock, setting[t].interval)
    <3>1. idle'[u] = idle[u]
      BY <1>0, <2>1, <2>2
    <3> QED BY <1>g, <1>k, <2>1, <3>1
  <2>3. CASE u = t /\ Fits(clock, setting[t].interval)
    <3>1. PICK s \in Settings, i, d \in Times, k \in Nat :
            s = setting[u] /\ i = idle[u] /\ d = sched.due[u] /\ k = clock
      BY <1>0, <1>g, <1>s, <2>1
    <3>2. idle'[u] = k + s.interval /\ s.interval \in Nat /\ i \in Nat /\ d \in Nat
      BY <1>0, <2>1, <2>3, <3>1, TimerAssumption DEF Valid, Times
    <3>3. InTime(s, i, d, k)
      BY <1>a, <1>g, <2>1, <3>1
    <3>4. InTime(s, k + s.interval, d, k)
      BY <3>2, <3>3 DEF InTime
    <3> QED BY <2>1, <3>1, <3>2, <3>4
  <2> QED BY <2>2, <2>3
<1>7. CASE Quiet
  <2>1. \/ Tick \/ \E c \in Clients, t \in Timers : isc__timer_touch(c, t)
        \/ UNCHANGED <<sched, setting, idle, clock>>
    BY <1>7 DEF Quiet, create_enter, reset_enter, isc__timer_attach,
             isc__timer_detach, destroy_join, task_take, vars, runvars, run_top, dispatch_look,
             run_wait, timedout, isc__timermgr_poke, isc__timermgr_destroy, timervars
  <2>2. CASE UNCHANGED <<sched, setting, idle, clock>>
    BY <1>g, <1>k, <2>2
  <2> QED BY <1>5, <1>6, <2>1, <2>2
<1> QED BY <1>1, <1>2, <1>3, <1>4, <1>7, Steps

-----------------------------------------------------------------------------
(* The theorems *)

\* TInv is inductive.
LEMMA NextTInv == TInv /\ [Next]_vars => TInv'
<1> SUFFICES ASSUME TInv /\ [Next]_vars PROVE TInv'
  OBVIOUS
<1>1. Types' /\ Handles' /\ OnlyActive'
  BY NextTypes, NextHandles, NextActive
<1>2. Alive' /\ Firing' /\ Eras' /\ PurgeIsFinal' /\ TimeoutIsLast'
  BY NextRun, NextEras, NextPurge, NextTimeout
<1>3. WakesInTime' /\ IdleFits' /\ NotLate'
  BY NextWakes, NextNotLate
<1> QED BY <1>1, <1>2, <1>3 DEF TInv

\* TInv is an invariant.
LEMMA Invariance == Spec => []TInv
<1>1. Init => TInv
  BY InitTInv
<1>2. TInv /\ [Next]_vars => TInv'
  BY NextTInv
<1> QED BY <1>1, <1>2, PTL DEF Spec

(* PurgeIsFinal: destroy() and a purging reset take the events of a timer   *)
(* out of its task's queue (isc_task_purgerange), and dispatch() posts no   *)
(* event of a timer that is gone or of a setting that was purged.           *)
THEOREM PurgedIsGone == Spec => []PurgeIsFinal
<1>1. TInv => PurgeIsFinal
  BY DEF TInv
<1> QED BY <1>1, Invariance, PTL

(* WakesInTime: while run() waits at timer.c's WAIT or WAITUNTIL every      *)
(* timer in the heap is due at or after manager->due, since schedule() and  *)
(* deschedule() signal it whenever the head changes; and it does not wait   *)
(* once isc_timermgr_destroy() has set manager->done.                       *)
THEOREM RunWakesInTime == Spec => []WakesInTime
<1>1. TInv => WakesInTime
  BY DEF TInv
<1> QED BY <1>1, Invariance, PTL

(* NotLate: however create, reset, touch and dispatch() interleave, also    *)
(* with the time taken before the locks, timer->due is within what the      *)
(* timer's parameters and timer->idle say.                                  *)
THEOREM TimersAreNotLate == Spec => []NotLate
<1>1. TInv => NotLate
  BY DEF TInv
<1> QED BY <1>1, Invariance, PTL

(* TimeoutIsLast: after dispatch() has posted a life or idle timeout the    *)
(* timer stays out of the heap until isc_timer_reset() is called.           *)
THEOREM TimeoutsAreLast == Spec => []TimeoutIsLast
<1>1. TInv => TimeoutIsLast
  BY DEF TInv
<1> QED BY <1>1, Invariance, PTL

\* What the invariant says of the heap.
LEMMA QueueMeans ==
    ASSUME NEW q, QueueOK(q)
    PROVE  /\ DOMAIN q.heap.array = 1 .. q.nscheduled
           /\ \A i \in DOMAIN q.heap.array : q.heap.array[i] \in Timers
           /\ q.heap.index \in [Timers -> 0 .. Cardinality(Timers)]
           /\ q.due \in [Timers -> Times]
           /\ IsHeap(q.heap, q.due)
           /\ \A t \in Timers : q.heap.index[t] > 0 =>
                q.heap.index[t] <= Len(q.heap.array) /\ q.heap.array[q.heap.index[t]] = t
<1>1. PICK h, n, due : h = q.heap /\ n = q.nscheduled /\ due = q.due
  OBVIOUS
<1>2. Sound(Timers, n, h, due) /\ due \in [Timers -> Times]
  BY <1>1 DEF QueueOK
<1>3. PICK a \in [1 .. n -> Timers], x \in [Timers -> Nat] :
              /\ n \in Nat /\ a = h.array /\ x = h.index /\ Len(a) = n
              /\ \A e \in Timers : x[e] # 0 => x[e] \in 1 .. n /\ a[x[e]] = e
              /\ \A j, k \in 1 .. n : a[j] = a[k] => j = k
  BY <1>2, SoundParts
<1>4. IsHeap(h, due)
  BY <1>2, SoundMeans
<1>5. n <= Cardinality(Timers) /\ Cardinality(Timers) \in Nat
  <2>1. a \in Injection(1 .. n, Timers)
    BY <1>3 DEF Injection, IsInjective
  <2>2. Cardinality(1 .. n) <= Cardinality(Timers)
    BY <2>1, FS_Injection, TimerAssumption
  <2>3. Cardinality(1 .. n) = n
    BY <1>3, FS_Interval
  <2> QED BY <2>2, <2>3, FS_CardinalityType, TimerAssumption
<1>6. ASSUME NEW t \in Timers PROVE x[t] \in 0 .. Cardinality(Timers)
  BY <1>3, <1>5
<1>7. x \in [Timers -> 0 .. Cardinality(Timers)]
  BY <1>3, <1>6
<1>8. \A t \in Timers : x[t] > 0 => x[t] <= n /\ a[x[t]] = t
  BY <1>3
<1> QED BY <1>1, <1>2, <1>3, <1>4, <1>7, <1>8

(* HeapKeepsOrder: types, HEAPCONDITION of the timers' heap, every index    *)
(* right, only active timers inside (the INSIST at timer.c:695), and the    *)
(* heap operations correct on their own.                                    *)
THEOREM HeapIsKept == Spec => []HeapKeepsOrder
<1>1. TInv => HeapKeepsOrder
  <2> SUFFICES ASSUME TInv PROVE HeapKeepsOrder
    OBVIOUS
  <2>1. PICK q : q = sched
    OBVIOUS
  <2>2. QueueOK(q)
    BY <2>1 DEF TInv, Types
  <2>3. /\ DOMAIN q.heap.array = 1 .. q.nscheduled
        /\ \A i \in DOMAIN q.heap.array : q.heap.array[i] \in Timers
        /\ q.heap.index \in [Timers -> 0 .. Cardinality(Timers)]
        /\ q.due \in [Timers -> Times]
        /\ IsHeap(q.heap, q.due)
        /\ \A t \in Timers : q.heap.index[t] > 0 =>
             q.heap.index[t] <= Len(q.heap.array) /\ q.heap.array[q.heap.index[t]] = t
    BY <2>2, QueueMeans
  <2>4. now \in Times
    BY TimerAssumption DEF TInv, Types, Times
  <2>5. TypeOK
    BY <2>1, <2>3, <2>4 DEF TInv, Types, TypeOK
  <2>6. HeapConsistent
    BY <2>1, <2>3 DEF HeapConsistent, index
  <2>7. SmallHeapsKept
    BY HeapOpsAreCorrect DEF SmallHeapsKept
  <2> QED BY <2>5, <2>6, <2>7 DEF TInv, HeapKeepsOrder
<1> QED BY <1>1, Invariance, PTL
=============================================================================
