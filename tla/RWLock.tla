------------------------------- MODULE RWLock -------------------------------
(***************************************************************************)
(* The reader-writer lock of lib/isc/rwlock.c in the variant that is built *)
(* here (ISC_PLATFORM_HAVEXADD and ISC_PLATFORM_HAVECMPXCHG): atomic       *)
(* counters decide who has the lock, a mutex and two condition variables   *)
(* put the losers to sleep.                                                *)
(*                                                                         *)
(* Every atomic operation and every unlocked read the code branches on is  *)
(* a step of its own; a comparison of write_requests and write_completions *)
(* is two reads, in either order.  A critical section of rwl->lock is one  *)
(* step, but for the one that makes such a comparison.                     *)
(*                                                                         *)
(* cnt_and_flag is kept as its two members, reader_count and writer_flag   *)
(* ("a kind of structure with two members"), which each operation reads or *)
(* changes together.  write_requests and write_completions are             *)
(* isc_int32_t and wrap around; they are only compared for equality.       *)
(***************************************************************************)
EXTENDS Integers, FiniteSets

CONSTANTS
    Threads,
    Wrap,         \* the counters count modulo Wrap (2^32 in the code)
    write_quota,
    FirstRead,    \* which operand of a comparison the compiled code reads first
    Ops           \* the operations each thread of this instance uses

ASSUME RWLockAssumption ==
    /\ IsFiniteSet(Threads)
    /\ Wrap \in Nat /\ Wrap > Cardinality(Threads) + 1
    /\ write_quota \in Nat \ {0}
    /\ FirstRead \subseteq {"requests", "completions"}

VARIABLES
    write_requests,
    write_completions,
    reader_count,      \* cnt_and_flag / READER_INCR
    writer_flag,       \* cnt_and_flag & WRITER_ACTIVE
    readers_waiting,
    write_granted,     \* up to write_quota, which is all that is tested
    pc,
    ticket,            \* isc_rwlock_lock()'s "prev_writer", 0 out of its scope
    seen               \* the counter a comparison has read first, with its value

counters == <<write_requests, write_completions>>
cntflag  == <<reader_count, writer_flag>>
vars     == <<counters, cntflag, readers_waiting, write_granted, pc, ticket, seen>>

\* The thread has added READER_INCR and not taken it back.
CountedPCs == {"r_test", "r_slow2", "r_wait2", "r_woken2", "r_reset", "reading",
               "tr_cancel", "dg_flag", "dg_comp", "dg_wake"}
\* The thread has set WRITER_ACTIVE and not cleared it.
FlaggedPCs == {"w_granted", "tw_comp", "tu_comp", "writing", "dg_flag"}
\* The thread has a ticket and no lock yet.
QueuedPCs  == {"w_turn", "w_slow", "w_wait", "w_cas", "w_slow2", "w_wait2"}
OtherPCs   == {"free", "r_check", "r_slow", "r_wait", "r_woken", "r_incr", "ru_check",
               "ru_wake", "tr_incr", "wu_comp", "wu_quota", "wu_equal", "wu_count",
               "wu_readers", "wu_writers", "wu_wake", "tr_check"}
\* The thread compares write_requests and write_completions.
ComparePCs == {"r_check", "r_slow", "ru_check", "wu_equal", "wu_writers", "tr_check"}

Unread == <<"none", 0>>

\* Between a successful isc_rwlock_lock() and the unlock.
ReadHeld(t)  == pc[t] \in {"reading", "r_reset", "dg_comp", "dg_wake"}
WriteHeld(t) == pc[t] \in {"writing", "w_granted", "tw_comp", "tu_comp"}

(* Threads and counters are within their ranges.                            *)
TypeOK ==
    /\ write_requests \in 0 .. Wrap - 1
    /\ write_completions \in 0 .. Wrap - 1
    /\ reader_count \in Nat
    /\ writer_flag \in BOOLEAN
    /\ readers_waiting \in Nat
    /\ write_granted \in 0 .. write_quota
    /\ pc \in [Threads -> CountedPCs \cup FlaggedPCs \cup QueuedPCs \cup OtherPCs]
    /\ ticket \in [Threads -> 0 .. Wrap - 1]
    /\ seen \in [Threads -> {"none", "requests", "completions"} \X (0 .. Wrap - 1)]

-----------------------------------------------------------------------------
Offers(t, op) == op \in Ops[t]

Goto(t, p) == pc' = [pc EXCEPT ![t] = p]

\* Nobody else is between the two reads under rwl->lock.
MutexFree(t) == \A u \in Threads \ {t} : pc[u] = "r_slow" => seen[u] = Unread

Plus(n, d) == (n + d + Wrap) % Wrap

NoWriter == write_requests = write_completions

\* The first read of a comparison, then what the second one finds.
peek(t) ==
    /\ pc[t] \in ComparePCs
    /\ seen[t] = Unread
    /\ pc[t] = "r_slow" => MutexFree(t)
    /\ \E c \in FirstRead :
          seen' = [seen EXCEPT ![t] =
                     <<c, IF c = "requests" THEN write_requests ELSE write_completions>>]
    /\ UNCHANGED <<counters, cntflag, readers_waiting, write_granted, pc, ticket>>

SeesNoWriter(t) ==
    IF seen[t][1] = "requests" THEN seen[t][2] = write_completions
                               ELSE seen[t][2] = write_requests

Compare(t, equal, differ) ==
    /\ seen[t] # Unread
    /\ seen' = [seen EXCEPT ![t] = Unread]
    /\ Goto(t, IF SeesNoWriter(t) THEN equal ELSE differ)

\* BROADCAST(&rwl->readable): a reader that is woken has to take the mutex to
\* decrement readers_waiting.
BroadcastReadable(p) ==
    [u \in Threads |-> CASE p[u] = "r_wait"  -> "r_woken"
                         [] p[u] = "r_wait2" -> "r_woken2"
                         [] OTHER            -> p[u]]

\* BROADCAST(&rwl->writeable): a writer that is woken tests again.
BroadcastWriteable(p) ==
    [u \in Threads |-> CASE p[u] = "w_wait"  -> "w_turn"
                         [] p[u] = "w_wait2" -> "w_cas"
                         [] OTHER            -> p[u]]

-----------------------------------------------------------------------------
(* isc_rwlock_lock(rwl, isc_rwlocktype_read) *)

lock_read(t) ==
    /\ Offers(t, "read") /\ pc[t] = "free"
    /\ Goto(t, "r_check")
    /\ UNCHANGED <<counters, cntflag, readers_waiting, write_granted, ticket, seen>>

read_check(t) ==
    /\ pc[t] = "r_check"
    /\ Compare(t, "r_incr", "r_slow")
    /\ UNCHANGED <<counters, cntflag, readers_waiting, write_granted, ticket>>

\* Mutant: no second check under the mutex.
read_sleep_unchecked(t) ==
    /\ pc[t] = "r_slow"
    /\ Compare(t, "r_wait", "r_wait")
    /\ readers_waiting' = readers_waiting + 1
    /\ UNCHANGED <<counters, cntflag, write_granted, ticket>>

read_sleep(t) ==
    /\ pc[t] = "r_slow"
    /\ Compare(t, "r_incr", "r_wait")
    /\ readers_waiting' = IF SeesNoWriter(t) THEN readers_waiting ELSE readers_waiting + 1
    /\ UNCHANGED <<counters, cntflag, write_granted, ticket>>

read_woken(t) ==
    /\ \/ pc[t] = "r_woken"  /\ Goto(t, "r_incr")
       \/ pc[t] = "r_woken2" /\ Goto(t, "r_test")
    /\ readers_waiting' = readers_waiting - 1
    /\ MutexFree(t)
    /\ UNCHANGED <<counters, cntflag, write_granted, ticket, seen>>

read_incr(t) ==
    /\ pc[t] = "r_incr"
    /\ reader_count' = reader_count + 1
    /\ Goto(t, "r_test")
    /\ UNCHANGED <<counters, writer_flag, readers_waiting, write_granted, ticket, seen>>

\* Mutant: the reader does not test the flag.
read_test_never(t) ==
    /\ pc[t] = "r_test"
    /\ Goto(t, "r_reset")
    /\ UNCHANGED <<counters, cntflag, readers_waiting, write_granted, ticket, seen>>

read_test(t) ==
    /\ pc[t] = "r_test"
    /\ Goto(t, IF writer_flag THEN "r_slow2" ELSE "r_reset")
    /\ UNCHANGED <<counters, cntflag, readers_waiting, write_granted, ticket, seen>>

read_sleep2(t) ==
    /\ pc[t] = "r_slow2"
    /\ IF writer_flag
         THEN Goto(t, "r_wait2") /\ readers_waiting' = readers_waiting + 1
         ELSE Goto(t, "r_test") /\ UNCHANGED readers_waiting
    /\ MutexFree(t)
    /\ UNCHANGED <<counters, cntflag, write_granted, ticket, seen>>

read_reset(t) ==
    /\ pc[t] = "r_reset"
    /\ write_granted' = 0
    /\ Goto(t, "reading")
    /\ UNCHANGED <<counters, cntflag, readers_waiting, ticket, seen>>

-----------------------------------------------------------------------------
(* isc_rwlock_lock(rwl, isc_rwlocktype_write) *)

lock_write(t) ==
    /\ Offers(t, "write") /\ pc[t] = "free"
    /\ ticket' = [ticket EXCEPT ![t] = write_requests]
    /\ write_requests' = Plus(write_requests, 1)
    /\ Goto(t, "w_turn")
    /\ UNCHANGED <<write_completions, cntflag, readers_waiting, write_granted, seen>>

write_turn(t) ==
    /\ pc[t] = "w_turn"
    /\ Goto(t, IF write_completions = ticket[t] THEN "w_cas" ELSE "w_slow")
    /\ UNCHANGED <<counters, cntflag, readers_waiting, write_granted, ticket, seen>>

write_sleep(t) ==
    /\ pc[t] = "w_slow"
    /\ Goto(t, IF write_completions = ticket[t] THEN "w_cas" ELSE "w_wait")
    /\ MutexFree(t)
    /\ UNCHANGED <<counters, cntflag, readers_waiting, write_granted, ticket, seen>>

\* Mutant: the flag is tested, the reader count is not.
write_cas_flag_only(t) ==
    /\ pc[t] = "w_cas"
    /\ IF ~writer_flag
         THEN /\ writer_flag' = TRUE
              /\ Goto(t, "w_granted")
              /\ ticket' = [ticket EXCEPT ![t] = 0]
         ELSE /\ Goto(t, "w_slow2")
              /\ UNCHANGED <<writer_flag, ticket>>
    /\ UNCHANGED <<counters, reader_count, readers_waiting, write_granted, seen>>

write_cas(t) ==
    /\ pc[t] = "w_cas"
    /\ IF reader_count = 0 /\ ~writer_flag
         THEN /\ writer_flag' = TRUE
              /\ Goto(t, "w_granted")
              /\ ticket' = [ticket EXCEPT ![t] = 0]
         ELSE /\ Goto(t, "w_slow2")
              /\ UNCHANGED <<writer_flag, ticket>>
    /\ UNCHANGED <<counters, reader_count, readers_waiting, write_granted, seen>>

write_sleep2(t) ==
    /\ pc[t] = "w_slow2"
    /\ Goto(t, IF reader_count # 0 \/ writer_flag THEN "w_wait2" ELSE "w_cas")
    /\ MutexFree(t)
    /\ UNCHANGED <<counters, cntflag, readers_waiting, write_granted, ticket, seen>>

write_grant(t) ==
    /\ pc[t] = "w_granted"
    /\ write_granted' = IF write_granted < write_quota THEN write_granted + 1
                                                       ELSE write_granted
    /\ Goto(t, "writing")
    /\ UNCHANGED <<counters, cntflag, readers_waiting, ticket, seen>>

-----------------------------------------------------------------------------
(* isc_rwlock_unlock(rwl, isc_rwlocktype_read) *)

\* What the thread that takes READER_INCR back does next: the last reader
\* looks for writers to wake.
AfterRead(t) == Goto(t, IF reader_count = 1 /\ ~writer_flag THEN "ru_check" ELSE "free")

unlock_read(t) ==
    /\ pc[t] = "reading"
    /\ reader_count' = reader_count - 1
    /\ AfterRead(t)
    /\ UNCHANGED <<counters, writer_flag, readers_waiting, write_granted, ticket, seen>>

unlock_read_check(t) ==
    /\ pc[t] = "ru_check"
    /\ Compare(t, "free", "ru_wake")
    /\ UNCHANGED <<counters, cntflag, readers_waiting, write_granted, ticket>>

\* Mutant: no broadcast.
unlock_wake_silent(t) ==
    /\ pc[t] \in {"ru_wake", "wu_wake"}
    /\ Goto(t, "free")
    /\ MutexFree(t)
    /\ UNCHANGED <<counters, cntflag, readers_waiting, write_granted, ticket, seen>>

unlock_wake(t) ==
    /\ pc[t] \in {"ru_wake", "wu_wake"}
    /\ pc' = BroadcastWriteable([pc EXCEPT ![t] = "free"])
    /\ MutexFree(t)
    /\ UNCHANGED <<counters, cntflag, readers_waiting, write_granted, ticket, seen>>

-----------------------------------------------------------------------------
(* isc_rwlock_unlock(rwl, isc_rwlocktype_write) *)

unlock_write(t) ==
    /\ pc[t] = "writing"
    /\ writer_flag' = FALSE
    /\ Goto(t, "wu_comp")
    /\ UNCHANGED <<counters, reader_count, readers_waiting, write_granted, ticket, seen>>

unlock_complete(t) ==
    /\ pc[t] = "wu_comp"
    /\ write_completions' = Plus(write_completions, 1)
    /\ Goto(t, "wu_quota")
    /\ UNCHANGED <<write_requests, cntflag, readers_waiting, write_granted, ticket, seen>>

\* Mutant: the writer quota is not tested.
unlock_prefer_no_quota(t) ==
    /\ \/ pc[t] = "wu_quota"
          /\ Goto(t, "wu_equal")
          /\ UNCHANGED seen
       \/ pc[t] = "wu_equal"
          /\ Compare(t, "wu_readers", "wu_count")
       \/ pc[t] = "wu_count"
          /\ Goto(t, IF reader_count # 0 THEN "wu_readers" ELSE "wu_writers")
          /\ UNCHANGED seen
    /\ UNCHANGED <<counters, cntflag, readers_waiting, write_granted, ticket>>

\* The three tests that decide whether readers are preferred, in turn.
unlock_prefer(t) ==
    /\ \/ pc[t] = "wu_quota"
          /\ Goto(t, IF write_granted >= write_quota THEN "wu_readers" ELSE "wu_equal")
          /\ UNCHANGED seen
       \/ pc[t] = "wu_equal"
          /\ Compare(t, "wu_readers", "wu_count")
       \/ pc[t] = "wu_count"
          /\ Goto(t, IF reader_count # 0 THEN "wu_readers" ELSE "wu_writers")
          /\ UNCHANGED seen
    /\ UNCHANGED <<counters, cntflag, readers_waiting, write_granted, ticket>>

unlock_readers(t) ==
    /\ pc[t] = "wu_readers"
    /\ IF readers_waiting > 0
         THEN pc' = BroadcastReadable([pc EXCEPT ![t] = "free"])
         ELSE Goto(t, "wu_writers")
    /\ MutexFree(t)
    /\ UNCHANGED <<counters, cntflag, readers_waiting, write_granted, ticket, seen>>

unlock_writers(t) ==
    /\ pc[t] = "wu_writers"
    /\ Compare(t, "free", "wu_wake")
    /\ UNCHANGED <<counters, cntflag, readers_waiting, write_granted, ticket>>

-----------------------------------------------------------------------------
(* isc_rwlock_trylock() *)

try_read(t) ==
    /\ Offers(t, "tryread") /\ pc[t] = "free"
    /\ Goto(t, "tr_check")
    /\ UNCHANGED <<counters, cntflag, readers_waiting, write_granted, ticket, seen>>

try_read_check(t) ==
    /\ pc[t] = "tr_check"
    /\ Compare(t, "tr_incr", "free")
    /\ UNCHANGED <<counters, cntflag, readers_waiting, write_granted, ticket>>

try_read_incr(t) ==
    /\ pc[t] = "tr_incr"
    /\ reader_count' = reader_count + 1
    /\ Goto(t, IF writer_flag THEN "tr_cancel" ELSE "reading")
    /\ UNCHANGED <<counters, writer_flag, readers_waiting, write_granted, ticket, seen>>

\* Mutant: the failed attempt is not taken back.
try_read_cancel_forgets(t) ==
    /\ pc[t] = "tr_cancel"
    /\ AfterRead(t)
    /\ UNCHANGED <<counters, cntflag, readers_waiting, write_granted, ticket, seen>>

try_read_cancel(t) ==
    /\ pc[t] = "tr_cancel"
    /\ reader_count' = reader_count - 1
    /\ AfterRead(t)
    /\ UNCHANGED <<counters, writer_flag, readers_waiting, write_granted, ticket, seen>>

try_write(t) ==
    /\ Offers(t, "trywrite") /\ pc[t] = "free"
    /\ reader_count = 0 /\ ~writer_flag
    /\ writer_flag' = TRUE
    /\ Goto(t, "tw_comp")
    /\ UNCHANGED <<counters, reader_count, readers_waiting, write_granted, ticket, seen>>

\* Mutant: write_completions is not pushed back.
jump_queue_not(t) ==
    /\ \/ pc[t] = "tw_comp" /\ Goto(t, "w_granted")
       \/ pc[t] = "tu_comp" /\ Goto(t, "writing")
    /\ UNCHANGED <<counters, cntflag, readers_waiting, write_granted, ticket, seen>>

\* Into the writers' queue from the front: trylock, then tryupgrade.
jump_queue(t) ==
    /\ \/ pc[t] = "tw_comp" /\ Goto(t, "w_granted")
       \/ pc[t] = "tu_comp" /\ Goto(t, "writing")
    /\ write_completions' = Plus(write_completions, -1)
    /\ UNCHANGED <<write_requests, cntflag, readers_waiting, write_granted, ticket, seen>>

isc_rwlock_tryupgrade(t) ==
    /\ Offers(t, "upgrade") /\ pc[t] = "reading"
    /\ reader_count = 1 /\ ~writer_flag
    /\ reader_count' = 0
    /\ writer_flag' = TRUE
    /\ Goto(t, "tu_comp")
    /\ UNCHANGED <<counters, readers_waiting, write_granted, ticket, seen>>

(* isc_rwlock_downgrade(): four steps *)
isc_rwlock_downgrade(t) ==
    /\ Offers(t, "downgrade") /\ pc[t] = "writing"
    /\ reader_count' = reader_count + 1
    /\ Goto(t, "dg_flag")
    /\ UNCHANGED <<counters, writer_flag, readers_waiting, write_granted, ticket, seen>>

downgrade_flag(t) ==
    /\ pc[t] = "dg_flag"
    /\ writer_flag' = FALSE
    /\ Goto(t, "dg_comp")
    /\ UNCHANGED <<counters, reader_count, readers_waiting, write_granted, ticket, seen>>

downgrade_complete(t) ==
    /\ pc[t] = "dg_comp"
    /\ write_completions' = Plus(write_completions, 1)
    /\ Goto(t, "dg_wake")
    /\ UNCHANGED <<write_requests, cntflag, readers_waiting, write_granted, ticket, seen>>

downgrade_wake(t) ==
    /\ pc[t] = "dg_wake"
    /\ LET p == [pc EXCEPT ![t] = "reading"]
       IN  pc' = IF readers_waiting > 0 THEN BroadcastReadable(p) ELSE p
    /\ MutexFree(t)
    /\ UNCHANGED <<counters, cntflag, readers_waiting, write_granted, ticket, seen>>

-----------------------------------------------------------------------------
\* pthread_cond_wait() may return without a broadcast.  An instance without
\* it assumes that this does not happen again and again for ever.
SpuriousWakeup(t) ==
    /\ Offers(t, "spurious")
    /\ \/ pc[t] = "r_wait"  /\ Goto(t, "r_woken")
       \/ pc[t] = "r_wait2" /\ Goto(t, "r_woken2")
       \/ pc[t] = "w_wait"  /\ Goto(t, "w_turn")
       \/ pc[t] = "w_wait2" /\ Goto(t, "w_cas")
    /\ UNCHANGED <<counters, cntflag, readers_waiting, write_granted, ticket, seen>>

(* isc_rwlock_init() *)
Init ==
    /\ write_requests = 0
    /\ write_completions = 0
    /\ reader_count = 0
    /\ writer_flag = FALSE
    /\ readers_waiting = 0
    /\ write_granted = 0
    /\ pc = [t \in Threads |-> "free"]
    /\ ticket = [t \in Threads |-> 0]
    /\ seen = [t \in Threads |-> Unread]

\* The caller's own moves: asking for the lock, or changing what it holds.
Ask(t) == \/ lock_read(t) \/ lock_write(t) \/ try_read(t) \/ try_write(t)
          \/ isc_rwlock_tryupgrade(t) \/ isc_rwlock_downgrade(t)

\* A thread that has the lock gives it back.
Release(t) == unlock_read(t) \/ unlock_write(t)

\* A thread inside an operation.
Step(t) ==
    \/ peek(t) \/ read_check(t) \/ read_sleep(t) \/ read_woken(t) \/ read_incr(t)
    \/ read_test(t) \/ read_sleep2(t) \/ read_reset(t)
    \/ write_turn(t) \/ write_sleep(t) \/ write_cas(t) \/ write_sleep2(t)
    \/ write_grant(t)
    \/ unlock_read_check(t) \/ unlock_wake(t)
    \/ unlock_complete(t) \/ unlock_prefer(t)
    \/ unlock_readers(t) \/ unlock_writers(t)
    \/ try_read_check(t) \/ try_read_incr(t) \/ try_read_cancel(t) \/ jump_queue(t)
    \/ downgrade_flag(t) \/ downgrade_complete(t) \/ downgrade_wake(t)

Next == \E t \in Threads : Ask(t) \/ Release(t) \/ Step(t) \/ SpuriousWakeup(t)

Spec == Init /\ [][Next]_vars

(* A thread inside an operation keeps going, and who holds the lock does    *)
(* release it in the end.                                                   *)
Fairness == \A t \in Threads : WF_vars(Step(t)) /\ SF_vars(Release(t))

FairSpec == Spec /\ Fairness

-----------------------------------------------------------------------------
(* While a thread may write no other may read or write.  Readers announce   *)
(* themselves before they test the flag and writers set it only when the    *)
(* whole word is zero; upgrade, downgrade and a failed trylock change the   *)
(* word in several steps.                                                   *)
MutualExclusion ==
    \A t, u \in Threads : t # u /\ WriteHeld(t) => ~WriteHeld(u) /\ ~ReadHeld(u)

(* The two halves of cnt_and_flag say how many threads have announced       *)
(* themselves as readers, and whether there is a writer.                    *)
WordIsExact ==
    /\ reader_count = Cardinality({t \in Threads : pc[t] \in CountedPCs})
    /\ writer_flag <=> \E t \in Threads : pc[t] \in FlaggedPCs

(* INSIST of tryupgrade (rwlock.c:425): a thread that reads never finds the *)
(* writer flag set, nor the reader count zero.                              *)
ReaderKeepsWriterOut ==
    \A t \in Threads : pc[t] = "reading" => reader_count > 0 /\ ~writer_flag

(* readers_waiting counts the readers that sleep or were just woken: a      *)
(* writer that finds it zero leaves none asleep.                            *)
WaitersCounted ==
    readers_waiting =
        Cardinality({t \in Threads : pc[t] \in {"r_wait", "r_woken", "r_wait2", "r_woken2"}})

(* No wakeup is lost between the atomic counters and the condition         *)
(* variables: a thread sleeps only while another one holds the lock or is   *)
(* inside an operation that will look for sleepers.  When nobody is, the    *)
(* lock is as isc_rwlock_destroy() REQUIREs it (rwlock.c:157).              *)
NoSleeperLeft ==
    (\A t \in Threads : pc[t] \in {"free", "r_wait", "r_wait2", "w_wait", "w_wait2"}) =>
        /\ \A t \in Threads : pc[t] = "free"
        /\ NoWriter /\ reader_count = 0 /\ ~writer_flag /\ readers_waiting = 0

(* The lock as its callers see it.  A thread writes from the moment         *)
(* WRITER_ACTIVE is set for it, and reads from the moment it has seen the   *)
(* flag clear; a queued writer is behind those with an older ticket.        *)
Age(t) == Plus(write_requests, -ticket[t])

Abstract == INSTANCE RWSpec WITH
    readers <- {t \in Threads : ReadHeld(t)},
    writer  <- {t \in Threads : pc[t] \in FlaggedPCs},
    waiting <- {t \in Threads : pc[t] \in QueuedPCs},
    ahead   <- [t \in Threads |->
                  {u \in Threads : /\ pc[t] \in QueuedPCs /\ pc[u] \in QueuedPCs
                                   /\ Age(u) > Age(t)}]

(* Every behaviour of the algorithm, seen like this, is one of the simple   *)
(* lock: in particular writers are served in the order in which they asked, *)
(* although trylock and tryupgrade push write_completions back under those  *)
(* that already compare it with their ticket (rwlock.c:184-193, 395-402).   *)
ImplementsRWSpec == Abstract!Spec

(* "In order to prevent readers from starving, however, the algorithm also  *)
(* introduces the writer quota" (rwlock.c:212-216): when a reader asks for  *)
(* the lock a reader gets it, however many writers come.  It need not be    *)
(* the same one: who gets in resets write_granted (rwlock.c:308, 498) and   *)
(* the quota starts anew for the others, so that a reader may be passed by  *)
(* readers and writers for ever.                                            *)
ReadersGetIn ==
    \A t \in Threads : pc[t] = "r_check" ~> \E u \in Threads : pc[u] = "reading"

(* A writer that has drawn a ticket gets the lock: writers are served in    *)
(* turn and readers give way (rwlock.c:184-193).                            *)
WriterGetsIn == \A t \in Threads : pc[t] = "w_turn" ~> pc[t] = "writing"
=============================================================================
