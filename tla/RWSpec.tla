------------------------------- MODULE RWSpec -------------------------------
(***************************************************************************)
(* What lib/isc/rwlock.c promises its callers, without counters, wakeups   *)
(* or intermediate states: any number of readers or one writer; writers    *)
(* that wait are served first come, first served (rwlock.c:184-193); a     *)
(* successful trylock or tryupgrade goes ahead of all of them              *)
(* (rwlock.c:395-402).  Each operation takes effect in one step.           *)
(***************************************************************************)
EXTENDS FiniteSets

CONSTANT Threads

VARIABLES
    readers,    \* who has the read lock
    writer,     \* who has the write lock: nobody or one thread
    waiting,    \* who waits for the write lock
    ahead       \* ahead[t]: who waits and asked before t did

vars == <<readers, writer, waiting, ahead>>

Idle(t) == t \notin readers \cup writer \cup waiting

\* Nobody is queued behind t any more.
Forget(t) == [u \in Threads |-> ahead[u] \ {t}]

Init ==
    /\ readers = {}
    /\ writer = {}
    /\ waiting = {}
    /\ ahead = [t \in Threads |-> {}]

\* isc_rwlock_lock(read), trylock(read)
EnterRead(t) ==
    /\ Idle(t) /\ writer = {}
    /\ readers' = readers \cup {t}
    /\ UNCHANGED <<writer, waiting, ahead>>

LeaveRead(t) ==
    /\ t \in readers
    /\ readers' = readers \ {t}
    /\ UNCHANGED <<writer, waiting, ahead>>

\* isc_rwlock_lock(write): behind everyone who waits, then in turn.
AskWrite(t) ==
    /\ Idle(t)
    /\ waiting' = waiting \cup {t}
    /\ ahead' = [ahead EXCEPT ![t] = waiting]
    /\ UNCHANGED <<readers, writer>>

GrantWrite(t) ==
    /\ t \in waiting /\ ahead[t] = {}
    /\ readers = {} /\ writer = {}
    /\ writer' = {t}
    /\ waiting' = waiting \ {t}
    /\ ahead' = Forget(t)
    /\ UNCHANGED readers

LeaveWrite(t) ==
    /\ t \in writer
    /\ writer' = {}
    /\ UNCHANGED <<readers, waiting, ahead>>

\* trylock(write)
TryWrite(t) ==
    /\ Idle(t) /\ readers = {} /\ writer = {}
    /\ writer' = {t}
    /\ UNCHANGED <<readers, waiting, ahead>>

\* tryupgrade()
Upgrade(t) ==
    /\ readers = {t} /\ writer = {}
    /\ readers' = {}
    /\ writer' = {t}
    /\ UNCHANGED <<waiting, ahead>>

\* downgrade()
Downgrade(t) ==
    /\ t \in writer
    /\ readers' = {t}
    /\ writer' = {}
    /\ UNCHANGED <<waiting, ahead>>

Next == \E t \in Threads :
    \/ EnterRead(t) \/ LeaveRead(t)
    \/ AskWrite(t) \/ GrantWrite(t) \/ LeaveWrite(t) \/ TryWrite(t)
    \/ Upgrade(t) \/ Downgrade(t)

Spec == Init /\ [][Next]_vars
=============================================================================
