---------------------------- MODULE RWLockProofs ----------------------------
(***************************************************************************)
(* Proofs about the reader-writer lock of RWLock, for any number of        *)
(* threads, any counter width and any writer quota.                        *)
(*                                                                         *)
(* Exclusion rests on cnt_and_flag being exact (WordIsExact), which has to *)
(* be strengthened by two facts about the threads: at most one of them has *)
(* set the flag, and none of them has while another one reads.             *)
(*                                                                         *)
(* The rest needs a second invariant, JInv, about the writers' queue and   *)
(* about the watch over the sleepers: whoever sleeps, a thread that is not *)
(* asleep will look for it.  With it no sleeper is left, and the algorithm *)
(* implements RWSpec.                                                      *)
(***************************************************************************)
EXTENDS RWLock, DataProofs

PCs        == CountedPCs \cup FlaggedPCs \cup QueuedPCs \cup OtherPCs
ReadingPCs == {"reading", "r_reset", "dg_comp", "dg_wake"}
WaitingPCs == {"r_wait", "r_woken", "r_wait2", "r_woken2"}

\* Only the thread that set WRITER_ACTIVE is inside the writers' part.
OneFlag ==
    \A t, u \in Threads : pc[t] \in FlaggedPCs /\ pc[u] \in FlaggedPCs => t = u

\* A thread that reads keeps the flag from being set.
ReadersAlone ==
    \A t, u \in Threads : ~(pc[t] \in ReadingPCs /\ pc[u] \in FlaggedPCs)

\* The inductive invariant.
IInv == TypeOK /\ WordIsExact /\ WaitersCounted /\ OneFlag /\ ReadersAlone

-----------------------------------------------------------------------------
(* Counting the threads of a class. *)

\* The threads that f puts into the class C.
In(f, C) == {u \in Threads : f[u] \in C}

\* A class of threads is finite.
LEMMA InFinite ==
    ASSUME NEW f, NEW C
    PROVE  IsFiniteSet(In(f, C)) /\ Cardinality(In(f, C)) \in Nat
<1>1. IsFiniteSet(Threads)
  BY RWLockAssumption
<1>2. In(f, C) \in SUBSET Threads
  BY DEF In
<1> QED
  BY <1>1, <1>2, FS_Subset, FS_CardinalityType

\* When only t moves, the class C grows or shrinks by t.
LEMMA Count ==
    ASSUME NEW t \in Threads, NEW f, NEW g, NEW C,
           \A u \in Threads \ {t} : f[u] \in C <=> g[u] \in C
    PROVE  /\ f[t] \in C /\ g[t] \in C => In(g, C) = In(f, C)
           /\ f[t] \notin C /\ g[t] \notin C => In(g, C) = In(f, C)
           /\ f[t] \notin C /\ g[t] \in C =>
                Cardinality(In(g, C)) = Cardinality(In(f, C)) + 1
           /\ f[t] \in C /\ g[t] \notin C =>
                Cardinality(In(g, C)) = Cardinality(In(f, C)) - 1
<1>1. /\ f[t] \in C /\ g[t] \in C => In(g, C) = In(f, C)
      /\ f[t] \notin C /\ g[t] \notin C => In(g, C) = In(f, C)
  BY DEF In
<1>2. ASSUME f[t] \notin C, g[t] \in C
      PROVE  Cardinality(In(g, C)) = Cardinality(In(f, C)) + 1
  <2>1. In(g, C) = In(f, C) \cup {t} /\ t \notin In(f, C)
    BY <1>2 DEF In
  <2> QED
    BY <2>1, InFinite, FS_AddElement
<1>3. ASSUME f[t] \in C, g[t] \notin C
      PROVE  Cardinality(In(g, C)) = Cardinality(In(f, C)) - 1
  <2>1. In(g, C) = In(f, C) \ {t} /\ t \in In(f, C)
    BY <1>3 DEF In
  <2> QED
    BY <2>1, InFinite, FS_RemoveElement
<1> QED
  BY <1>1, <1>2, <1>3

\* A class of no threads, or of one known thread, holds no other.
LEMMA FewIn ==
    ASSUME NEW f, NEW C
    PROVE  /\ Cardinality(In(f, C)) = 0 => \A u \in Threads : f[u] \notin C
           /\ \A t \in Threads :
                f[t] \in C =>
                  /\ Cardinality(In(f, C)) > 0
                  /\ Cardinality(In(f, C)) = 1 => \A u \in Threads \ {t} : f[u] \notin C
<1>1. Cardinality(In(f, C)) = 0 => In(f, C) = {}
  BY InFinite, FS_EmptySet
<1>2. ASSUME Cardinality(In(f, C)) = 0
      PROVE  \A u \in Threads : f[u] \notin C
  BY <1>1, <1>2 DEF In
<1>3. ASSUME NEW t \in Threads, f[t] \in C
      PROVE  /\ Cardinality(In(f, C)) > 0
             /\ Cardinality(In(f, C)) = 1 => \A u \in Threads \ {t} : f[u] \notin C
  <2>1. t \in In(f, C)
    BY <1>3 DEF In
  <2>2. Cardinality(In(f, C)) # 0
    BY <1>1, <2>1
  <2>3. Cardinality(In(f, C)) > 0
    BY <2>2, InFinite
  <2>4. ASSUME Cardinality(In(f, C)) = 1
        PROVE  \A u \in Threads \ {t} : f[u] \notin C
    <3>1. IsFiniteSet(In(f, C) \ {t}) /\ Cardinality(In(f, C) \ {t}) = 0
      BY <2>1, <2>4, InFinite, FS_RemoveElement
    <3>2. In(f, C) \ {t} = {}
      BY <3>1, FS_EmptySet
    <3> QED
      BY <3>2 DEF In
  <2> QED
    BY <2>3, <2>4
<1> QED
  BY <1>2, <1>3
-----------------------------------------------------------------------------
(* What every step of a thread t has in common. *)

\* The variables that no safety property speaks about.
RestOK ==
    /\ write_requests \in 0 .. Wrap - 1
    /\ write_completions \in 0 .. Wrap - 1
    /\ write_granted \in 0 .. write_quota
    /\ ticket \in [Threads -> 0 .. Wrap - 1]
    /\ seen \in [Threads -> {"none", "requests", "completions"} \X (0 .. Wrap - 1)]

\* A broadcast may move other threads, but only within their classes.
OthersStay(t) ==
    \A u \in Threads \ {t} :
        /\ pc[u] \in CountedPCs <=> pc'[u] \in CountedPCs
        /\ pc[u] \in WaitingPCs <=> pc'[u] \in WaitingPCs
        /\ pc[u] \in FlaggedPCs <=> pc'[u] \in FlaggedPCs
        /\ pc[u] \in ReadingPCs <=> pc'[u] \in ReadingPCs

One(b) == IF b THEN 1 ELSE 0

\* The counts follow the classes t leaves and enters; t enters the writers'
\* part only when the word is free but for t itself, and reads only when the
\* flag is clear or its own.
Orderly(t) ==
    /\ pc' \in [Threads -> PCs]
    /\ OthersStay(t)
    /\ reader_count' =
         (reader_count + One(pc'[t] \in CountedPCs)) - One(pc[t] \in CountedPCs)
    /\ readers_waiting' =
         (readers_waiting + One(pc'[t] \in WaitingPCs)) - One(pc[t] \in WaitingPCs)
    /\ writer_flag' \in BOOLEAN
    /\ writer_flag' <=> pc'[t] \in FlaggedPCs \/ (writer_flag /\ pc[t] \notin FlaggedPCs)
    /\ pc'[t] \in FlaggedPCs /\ pc[t] \notin FlaggedPCs =>
         ~writer_flag /\ \A u \in Threads \ {t} : pc[u] \notin CountedPCs
    /\ pc'[t] \in ReadingPCs /\ pc[t] \notin ReadingPCs =>
         ~writer_flag \/ pc[t] \in FlaggedPCs

\* Zero is a value of the counters.
LEMMA RWLockWrap == Wrap \in Nat /\ 0 \in 0 .. Wrap - 1
<1>1. Cardinality(Threads) \in Nat
  BY RWLockAssumption, FS_CardinalityType
<1> QED
  BY <1>1, RWLockAssumption

\* Counting modulo Wrap stays in range.
LEMMA PlusType ==
    ASSUME NEW n \in 0 .. Wrap - 1, NEW d \in {-1, 1}
    PROVE  Plus(n, d) \in 0 .. Wrap - 1
<1>1. Wrap \in Nat /\ Wrap > 0
  BY RWLockWrap
<1>2. n + d + Wrap \in Int
  BY <1>1
<1>3. \A a \in Int : a % Wrap \in 0 .. Wrap - 1
  BY <1>1
<1> QED
  BY <1>2, <1>3 DEF Plus

\* A step that is orderly keeps the invariant.
LEMMA OrderlyKeeps ==
    ASSUME IInv, NEW t \in Threads, Orderly(t), RestOK'
    PROVE  IInv'
<1> USE DEF Orderly, OthersStay
<1>1. /\ reader_count = Cardinality(In(pc, CountedPCs))
      /\ readers_waiting = Cardinality(In(pc, WaitingPCs))
  BY DEF IInv, WordIsExact, WaitersCounted, In, WaitingPCs
<1>2. reader_count' = Cardinality(In(pc', CountedPCs))
  BY <1>1, InFinite, Count DEF One
<1>3. readers_waiting' = Cardinality(In(pc', WaitingPCs))
  BY <1>1, InFinite, Count DEF One
<1>4. WaitersCounted'
  BY <1>3 DEF WaitersCounted, In, WaitingPCs
<1>5. OneFlag'
  BY DEF IInv, WordIsExact, OneFlag
<1>6. writer_flag' <=> \E u \in Threads : pc'[u] \in FlaggedPCs
  BY DEF IInv, WordIsExact, OneFlag
<1>7. WordIsExact'
  BY <1>2, <1>6 DEF WordIsExact, In
<1>8. ReadingPCs \subseteq CountedPCs /\ ReadingPCs \cap FlaggedPCs = {}
  BY DEF ReadingPCs, CountedPCs, FlaggedPCs
<1>9. ReadersAlone'
  BY <1>8 DEF IInv, WordIsExact, OneFlag, ReadersAlone
<1>10. TypeOK'
  <2>1. reader_count' \in Nat /\ readers_waiting' \in Nat
    BY <1>2, <1>3, InFinite
  <2> QED
    BY <2>1 DEF TypeOK, RestOK, PCs
<1> QED
  BY <1>4, <1>5, <1>7, <1>9, <1>10 DEF IInv

\* A step that moves t alone.
LEMMA GotoStays ==
    ASSUME IInv, NEW t \in Threads, NEW p \in PCs, Goto(t, p)
    PROVE  pc' \in [Threads -> PCs] /\ OthersStay(t) /\ pc'[t] = p
BY DEF IInv, TypeOK, PCs, Goto, OthersStay

\* A step that broadcasts: sleepers stay in their classes.
LEMMA BroadcastStays ==
    ASSUME IInv, NEW t \in Threads, NEW p \in {"free", "reading"},
           \/ pc' = BroadcastReadable([pc EXCEPT ![t] = p])
           \/ pc' = BroadcastWriteable([pc EXCEPT ![t] = p])
    PROVE  pc' \in [Threads -> PCs] /\ OthersStay(t) /\ pc'[t] = p
<1> USE DEF CountedPCs, FlaggedPCs, QueuedPCs, OtherPCs, WaitingPCs, ReadingPCs, PCs
<1>1. pc \in [Threads -> PCs]
  BY DEF IInv, TypeOK
<1>2. CASE pc' = BroadcastReadable([pc EXCEPT ![t] = p])
  BY <1>1, <1>2 DEF BroadcastReadable, OthersStay
<1>3. CASE pc' = BroadcastWriteable([pc EXCEPT ![t] = p])
  BY <1>1, <1>3 DEF BroadcastWriteable, OthersStay
<1> QED
  BY <1>2, <1>3

\* What cnt_and_flag says about the threads.
LEMMA WordSays ==
    ASSUME IInv
    PROVE  /\ reader_count = 0 => \A u \in Threads : pc[u] \notin CountedPCs
           /\ \A t \in Threads :
                pc[t] \in CountedPCs /\ reader_count = 1 =>
                  \A u \in Threads \ {t} : pc[u] \notin CountedPCs
           /\ \A t \in Threads : pc[t] \in FlaggedPCs => writer_flag
<1>1. reader_count = Cardinality(In(pc, CountedPCs))
  BY DEF IInv, WordIsExact, In
<1>2. \A t \in Threads : pc[t] \in FlaggedPCs => writer_flag
  BY DEF IInv, WordIsExact
<1> QED
  BY <1>1, <1>2, FewIn

\* Asking for the lock is orderly.
LEMMA AskOrderly ==
    ASSUME IInv, NEW t \in Threads, Ask(t)
    PROVE  Orderly(t) /\ RestOK'
<1> USE DEF CountedPCs, FlaggedPCs, QueuedPCs, OtherPCs, WaitingPCs, ReadingPCs, PCs, One
<1>0. TypeOK
  BY DEF IInv
<1>1. CASE lock_read(t)
  BY <1>0, <1>1, GotoStays
    DEF lock_read, TypeOK, Orderly, RestOK, counters, cntflag
<1>2. CASE lock_write(t)
  BY <1>0, <1>2, GotoStays, PlusType
    DEF lock_write, TypeOK, Orderly, RestOK, counters, cntflag
<1>3. CASE try_read(t)
  BY <1>0, <1>3, GotoStays
    DEF try_read, TypeOK, Orderly, RestOK, counters, cntflag
<1>4. CASE try_write(t)
  BY <1>0, <1>4, GotoStays, WordSays
    DEF try_write, TypeOK, Orderly, RestOK, counters, cntflag
<1>5. CASE isc_rwlock_tryupgrade(t)
  BY <1>0, <1>5, GotoStays, WordSays
    DEF isc_rwlock_tryupgrade, TypeOK, Orderly, RestOK, counters, cntflag
<1>6. CASE isc_rwlock_downgrade(t)
  <2>1. pc' \in [Threads -> PCs] /\ OthersStay(t) /\ pc'[t] = "dg_flag"
    BY <1>6, GotoStays DEF isc_rwlock_downgrade
  <2>2. /\ writer_flag' \in BOOLEAN
        /\ writer_flag' <=> pc'[t] \in FlaggedPCs \/ (writer_flag /\ pc[t] \notin FlaggedPCs)
    BY <1>0, <1>6, <2>1, WordSays DEF isc_rwlock_downgrade, TypeOK, cntflag
  <2>3. RestOK'
    BY <1>0, <1>6, PlusType, RWLockWrap, RWLockAssumption DEF isc_rwlock_downgrade, RestOK, TypeOK, counters
  <2> QED
    BY <1>0, <1>6, <2>1, <2>2, <2>3, WordSays DEF isc_rwlock_downgrade, Orderly, TypeOK, cntflag
<1> QED
  BY <1>1, <1>2, <1>3, <1>4, <1>5, <1>6 DEF Ask

\* Releasing the lock is orderly.
LEMMA ReleaseOrderly ==
    ASSUME IInv, NEW t \in Threads, Release(t)
    PROVE  Orderly(t) /\ RestOK'
<1> USE DEF CountedPCs, FlaggedPCs, QueuedPCs, OtherPCs, WaitingPCs, ReadingPCs, PCs, One
<1>0. TypeOK
  BY DEF IInv
<1>1. CASE unlock_read(t)
  BY <1>0, <1>1, GotoStays
    DEF unlock_read, TypeOK, Orderly, RestOK, counters, cntflag, AfterRead
<1>2. CASE unlock_write(t)
  <2>1. pc' \in [Threads -> PCs] /\ OthersStay(t) /\ pc'[t] = "wu_comp"
    BY <1>2, GotoStays DEF unlock_write
  <2>2. /\ writer_flag' \in BOOLEAN
        /\ writer_flag' <=> pc'[t] \in FlaggedPCs \/ (writer_flag /\ pc[t] \notin FlaggedPCs)
    BY <1>0, <1>2, <2>1, WordSays DEF unlock_write, TypeOK, cntflag
  <2>3. RestOK'
    BY <1>0, <1>2, PlusType, RWLockWrap, RWLockAssumption DEF unlock_write, RestOK, TypeOK, counters
  <2> QED
    BY <1>0, <1>2, <2>1, <2>2, <2>3, WordSays DEF unlock_write, Orderly, TypeOK, cntflag
<1> QED
  BY <1>1, <1>2 DEF Release

\* A step inside an operation is orderly.
LEMMA StepOrderly ==
    ASSUME IInv, NEW t \in Threads, Step(t)
    PROVE  Orderly(t) /\ RestOK'
<1> USE DEF CountedPCs, FlaggedPCs, QueuedPCs, OtherPCs, WaitingPCs, ReadingPCs, PCs, One
<1>0. TypeOK
  BY DEF IInv
<1>1. CASE peek(t)
  <2>1. pc' \in [Threads -> PCs] /\ OthersStay(t) /\ pc'[t] = pc[t]
    BY <1>1, <1>0 DEF peek, OthersStay, TypeOK
  <2>2. /\ writer_flag' \in BOOLEAN
        /\ writer_flag' <=> pc'[t] \in FlaggedPCs \/ (writer_flag /\ pc[t] \notin FlaggedPCs)
    BY <1>0, <1>1, <2>1, WordSays DEF peek, TypeOK, cntflag
  <2>3. RestOK'
    BY <1>0, <1>1, PlusType, RWLockWrap, RWLockAssumption DEF peek, RestOK, TypeOK, counters
  <2> QED
    BY <1>0, <1>1, <2>1, <2>2, <2>3, WordSays DEF peek, Orderly, TypeOK, cntflag
<1>2. CASE read_check(t)
  BY <1>0, <1>2, GotoStays, RWLockWrap
    DEF read_check, TypeOK, Orderly, RestOK, counters, cntflag, Compare, Unread
<1>3. CASE read_sleep(t)
  BY <1>0, <1>3, GotoStays, RWLockWrap
    DEF read_sleep, TypeOK, Orderly, RestOK, counters, cntflag, Compare, Unread
<1>4. CASE read_woken(t)
  BY <1>0, <1>4, GotoStays
    DEF read_woken, TypeOK, Orderly, RestOK, counters, cntflag
<1>5. CASE read_incr(t)
  BY <1>0, <1>5, GotoStays
    DEF read_incr, TypeOK, Orderly, RestOK, counters, cntflag
<1>6. CASE read_test(t)
  BY <1>0, <1>6, GotoStays
    DEF read_test, TypeOK, Orderly, RestOK, counters, cntflag
<1>7. CASE read_sleep2(t)
  BY <1>0, <1>7, GotoStays
    DEF read_sleep2, TypeOK, Orderly, RestOK, counters, cntflag
<1>8. CASE read_reset(t)
  BY <1>0, <1>8, GotoStays, RWLockAssumption, RWLockWrap
    DEF read_reset, TypeOK, Orderly, RestOK, counters, cntflag
<1>9. CASE write_turn(t)
  BY <1>0, <1>9, GotoStays
    DEF write_turn, TypeOK, Orderly, RestOK, counters, cntflag
<1>10. CASE write_sleep(t)
  BY <1>0, <1>10, GotoStays
    DEF write_sleep, TypeOK, Orderly, RestOK, counters, cntflag
<1>11. CASE write_cas(t)
  <2>1. pc' \in [Threads -> PCs] /\ OthersStay(t) /\ pc'[t] = (IF reader_count = 0 /\ ~writer_flag THEN "w_granted" ELSE "w_slow2")
    BY <1>11, GotoStays DEF write_cas
  <2>2. /\ writer_flag' \in BOOLEAN
        /\ writer_flag' <=> pc'[t] \in FlaggedPCs \/ (writer_flag /\ pc[t] \notin FlaggedPCs)
    BY <1>0, <1>11, <2>1, WordSays DEF write_cas, TypeOK, cntflag
  <2>3. RestOK'
    BY <1>0, <1>11, PlusType, RWLockWrap, RWLockAssumption DEF write_cas, RestOK, TypeOK, counters
  <2> QED
    BY <1>0, <1>11, <2>1, <2>2, <2>3, WordSays DEF write_cas, Orderly, TypeOK, cntflag
<1>12. CASE write_sleep2(t)
  BY <1>0, <1>12, GotoStays
    DEF write_sleep2, TypeOK, Orderly, RestOK, counters, cntflag
<1>13. CASE write_grant(t)
  <2>1. pc' \in [Threads -> PCs] /\ OthersStay(t) /\ pc'[t] = "writing"
    BY <1>13, GotoStays DEF write_grant
  <2>2. /\ writer_flag' \in BOOLEAN
        /\ writer_flag' <=> pc'[t] \in FlaggedPCs \/ (writer_flag /\ pc[t] \notin FlaggedPCs)
    BY <1>0, <1>13, <2>1, WordSays DEF write_grant, TypeOK, cntflag
  <2>3. RestOK'
    BY <1>0, <1>13, PlusType, RWLockWrap, RWLockAssumption DEF write_grant, RestOK, TypeOK, counters
  <2> QED
    BY <1>0, <1>13, <2>1, <2>2, <2>3, WordSays DEF write_grant, Orderly, TypeOK, cntflag
<1>14. CASE unlock_read_check(t)
  BY <1>0, <1>14, GotoStays, RWLockWrap
    DEF unlock_read_check, TypeOK, Orderly, RestOK, counters, cntflag, Compare, Unread
<1>15. CASE unlock_wake(t)
  <2>1. pc' \in [Threads -> PCs] /\ OthersStay(t) /\ pc'[t] = "free"
    BY <1>15, BroadcastStays DEF unlock_wake
  <2>2. /\ writer_flag' \in BOOLEAN
        /\ writer_flag' <=> pc'[t] \in FlaggedPCs \/ (writer_flag /\ pc[t] \notin FlaggedPCs)
    BY <1>0, <1>15, <2>1, WordSays DEF unlock_wake, TypeOK, cntflag
  <2>3. RestOK'
    BY <1>0, <1>15, PlusType, RWLockWrap, RWLockAssumption DEF unlock_wake, RestOK, TypeOK, counters
  <2>4. pc[t] \in {"ru_wake", "wu_wake"} /\ UNCHANGED <<reader_count, readers_waiting>>
    BY <1>15 DEF unlock_wake, cntflag
  <2> QED
    BY <1>0, <2>1, <2>2, <2>3, <2>4 DEF Orderly, TypeOK
<1>16. CASE unlock_complete(t)
  BY <1>0, <1>16, GotoStays, PlusType
    DEF unlock_complete, TypeOK, Orderly, RestOK, counters, cntflag
<1>17. CASE unlock_prefer(t)
  <2>1. pc' \in [Threads -> PCs] /\ OthersStay(t) /\ pc'[t] \in {"wu_equal", "wu_count", "wu_readers", "wu_writers"}
    BY <1>17, GotoStays DEF unlock_prefer, Compare
  <2>2. /\ writer_flag' \in BOOLEAN
        /\ writer_flag' <=> pc'[t] \in FlaggedPCs \/ (writer_flag /\ pc[t] \notin FlaggedPCs)
    BY <1>0, <1>17, <2>1, WordSays DEF unlock_prefer, TypeOK, cntflag
  <2>3. RestOK'
    BY <1>0, <1>17, PlusType, RWLockWrap, RWLockAssumption DEF unlock_prefer, RestOK, TypeOK, counters, Compare, Unread
  <2> QED
    BY <1>0, <1>17, <2>1, <2>2, <2>3, WordSays DEF unlock_prefer, Orderly, TypeOK, cntflag
<1>18. CASE unlock_readers(t)
  <2>1. pc' \in [Threads -> PCs] /\ OthersStay(t) /\ pc'[t] \in {"free", "wu_writers"}
    BY <1>18, GotoStays, BroadcastStays DEF unlock_readers
  <2>2. /\ writer_flag' \in BOOLEAN
        /\ writer_flag' <=> pc'[t] \in FlaggedPCs \/ (writer_flag /\ pc[t] \notin FlaggedPCs)
    BY <1>0, <1>18, <2>1, WordSays DEF unlock_readers, TypeOK, cntflag
  <2>3. RestOK'
    BY <1>0, <1>18, PlusType, RWLockWrap, RWLockAssumption DEF unlock_readers, RestOK, TypeOK, counters
  <2> QED
    BY <1>0, <1>18, <2>1, <2>2, <2>3, WordSays DEF unlock_readers, Orderly, TypeOK, cntflag
<1>19. CASE unlock_writers(t)
  BY <1>0, <1>19, GotoStays, RWLockWrap
    DEF unlock_writers, TypeOK, Orderly, RestOK, counters, cntflag, Compare, Unread
<1>20. CASE try_read_check(t)
  BY <1>0, <1>20, GotoStays, RWLockWrap
    DEF try_read_check, TypeOK, Orderly, RestOK, counters, cntflag, Compare, Unread
<1>21. CASE try_read_incr(t)
  BY <1>0, <1>21, GotoStays
    DEF try_read_incr, TypeOK, Orderly, RestOK, counters, cntflag
<1>22. CASE try_read_cancel(t)
  BY <1>0, <1>22, GotoStays
    DEF try_read_cancel, TypeOK, Orderly, RestOK, counters, cntflag, AfterRead
<1>23. CASE jump_queue(t)
  <2>1. pc' \in [Threads -> PCs] /\ OthersStay(t) /\ pc'[t] \in {"w_granted", "writing"}
    BY <1>23, GotoStays DEF jump_queue
  <2>2. /\ writer_flag' \in BOOLEAN
        /\ writer_flag' <=> pc'[t] \in FlaggedPCs \/ (writer_flag /\ pc[t] \notin FlaggedPCs)
    BY <1>0, <1>23, <2>1, WordSays DEF jump_queue, TypeOK, cntflag
  <2>3. RestOK'
    BY <1>0, <1>23, PlusType, RWLockWrap, RWLockAssumption DEF jump_queue, RestOK, TypeOK, counters
  <2> QED
    BY <1>0, <1>23, <2>1, <2>2, <2>3, WordSays DEF jump_queue, Orderly, TypeOK, cntflag
<1>24. CASE downgrade_flag(t)
  <2>1. pc' \in [Threads -> PCs] /\ OthersStay(t) /\ pc'[t] = "dg_comp"
    BY <1>24, GotoStays DEF downgrade_flag
  <2>2. /\ writer_flag' \in BOOLEAN
        /\ writer_flag' <=> pc'[t] \in FlaggedPCs \/ (writer_flag /\ pc[t] \notin FlaggedPCs)
    BY <1>0, <1>24, <2>1, WordSays DEF downgrade_flag, TypeOK, cntflag
  <2>3. RestOK'
    BY <1>0, <1>24, PlusType, RWLockWrap, RWLockAssumption DEF downgrade_flag, RestOK, TypeOK, counters
  <2> QED
    BY <1>0, <1>24, <2>1, <2>2, <2>3, WordSays DEF downgrade_flag, Orderly, TypeOK, cntflag
<1>25. CASE downgrade_complete(t)
  BY <1>0, <1>25, GotoStays, PlusType
    DEF downgrade_complete, TypeOK, Orderly, RestOK, counters, cntflag
<1>26. CASE downgrade_wake(t)
  <2>1. pc' \in [Threads -> PCs] /\ OthersStay(t) /\ pc'[t] = "reading"
    BY <1>26, GotoStays, BroadcastStays DEF downgrade_wake, Goto
  <2>2. /\ writer_flag' \in BOOLEAN
        /\ writer_flag' <=> pc'[t] \in FlaggedPCs \/ (writer_flag /\ pc[t] \notin FlaggedPCs)
    BY <1>0, <1>26, <2>1, WordSays DEF downgrade_wake, TypeOK, cntflag
  <2>3. RestOK'
    BY <1>0, <1>26, PlusType, RWLockWrap, RWLockAssumption DEF downgrade_wake, RestOK, TypeOK, counters
  <2>4. pc[t] = "dg_wake" /\ UNCHANGED <<reader_count, readers_waiting>>
    BY <1>26 DEF downgrade_wake, cntflag
  <2> QED
    BY <1>0, <2>1, <2>2, <2>3, <2>4 DEF Orderly, TypeOK
<1> QED
  BY <1>1, <1>2, <1>3, <1>4, <1>5, <1>6, <1>7, <1>8, <1>9, <1>10, <1>11, <1>12, <1>13, <1>14, <1>15, <1>16, <1>17, <1>18, <1>19, <1>20, <1>21, <1>22, <1>23, <1>24, <1>25, <1>26 DEF Step

\* A spurious wakeup is orderly.
LEMMA WakeupOrderly ==
    ASSUME IInv, NEW t \in Threads, SpuriousWakeup(t)
    PROVE  Orderly(t) /\ RestOK'
<1> USE DEF CountedPCs, FlaggedPCs, QueuedPCs, OtherPCs, WaitingPCs, ReadingPCs, PCs, One
<1>0. TypeOK
  BY DEF IInv
<1> QED
  BY <1>0, GotoStays
    DEF SpuriousWakeup, TypeOK, Orderly, RestOK, counters, cntflag

-----------------------------------------------------------------------------
(* The theorems about the word. *)

\* The lock as isc_rwlock_init() leaves it satisfies the invariant.
LEMMA InitIInv ==
    ASSUME Init
    PROVE  IInv
<1>1. TypeOK
  <2>1. "free" \in OtherPCs
    BY DEF OtherPCs
  <2>2. Unread \in {"none", "requests", "completions"} \X (0 .. Wrap - 1)
    BY RWLockWrap DEF Unread
  <2>3. seen \in [Threads -> {"none", "requests", "completions"} \X (0 .. Wrap - 1)]
    BY <2>2 DEF Init
  <2>4. pc \in [Threads -> CountedPCs \cup FlaggedPCs \cup QueuedPCs \cup OtherPCs]
    BY <2>1 DEF Init
  <2>5. ticket \in [Threads -> 0 .. Wrap - 1]
    BY RWLockWrap DEF Init
  <2>6. /\ write_requests \in 0 .. Wrap - 1
        /\ write_completions \in 0 .. Wrap - 1
        /\ reader_count \in Nat
        /\ readers_waiting \in Nat
        /\ write_granted \in 0 .. write_quota
    BY RWLockAssumption, RWLockWrap DEF Init
  <2>7. writer_flag \in BOOLEAN
    BY DEF Init
  <2> QED
    BY <2>3, <2>4, <2>5, <2>6, <2>7 DEF TypeOK
<1>2. {t \in Threads : pc[t] \in CountedPCs} = {}
  BY DEF Init, CountedPCs
<1>3. {t \in Threads : pc[t] \in WaitingPCs} = {}
  BY DEF Init, WaitingPCs
<1>4. \A t \in Threads : pc[t] \notin FlaggedPCs
  BY DEF Init, FlaggedPCs
<1>5. WordIsExact
  BY <1>2, <1>4, FS_EmptySet DEF Init, WordIsExact
<1>6. WaitersCounted
  BY <1>3, FS_EmptySet DEF Init, WaitersCounted, WaitingPCs
<1> QED
  BY <1>1, <1>4, <1>5, <1>6 DEF IInv, OneFlag, ReadersAlone

\* Every step of every thread keeps the invariant.
LEMMA NextIInv ==
    ASSUME IInv, [Next]_vars
    PROVE  IInv'
<1>1. ASSUME NEW t \in Threads, Ask(t) \/ Release(t) \/ Step(t) \/ SpuriousWakeup(t)
      PROVE  IInv'
  <2>1. Orderly(t) /\ RestOK'
    BY <1>1, AskOrderly, ReleaseOrderly, StepOrderly, WakeupOrderly
  <2> QED
    BY <2>1, OrderlyKeeps
<1>2. CASE UNCHANGED vars
  BY <1>2 DEF IInv, TypeOK, WordIsExact, WaitersCounted, OneFlag, ReadersAlone,
              vars, counters, cntflag
<1> QED
  BY <1>1, <1>2 DEF Next

\* The invariant implies what the lock promises.
LEMMA IInvImplies ==
    ASSUME IInv
    PROVE  MutualExclusion /\ ReaderKeepsWriterOut
<1>1. MutualExclusion
  <2>1. SUFFICES ASSUME NEW t \in Threads, NEW u \in Threads, t # u, WriteHeld(t)
                 PROVE  ~WriteHeld(u) /\ ~ReadHeld(u)
    BY DEF MutualExclusion
  <2>2. OneFlag /\ ReadersAlone
    BY DEF IInv
  <2>3. ~WriteHeld(u)
    BY <2>1, <2>2 DEF OneFlag, WriteHeld, FlaggedPCs
  <2>4. ~ReadHeld(u)
    BY <2>1, <2>2 DEF ReadersAlone, WriteHeld, ReadHeld, FlaggedPCs, ReadingPCs
  <2> QED
    BY <2>3, <2>4
<1>2. ReaderKeepsWriterOut
  <2>1. SUFFICES ASSUME NEW t \in Threads, pc[t] = "reading"
                 PROVE  reader_count > 0 /\ ~writer_flag
    BY DEF ReaderKeepsWriterOut
  <2>2. pc[t] \in CountedPCs /\ pc[t] \in ReadingPCs
    BY <2>1 DEF CountedPCs, ReadingPCs
  <2>3. reader_count > 0
    BY <2>2, FewIn DEF IInv, WordIsExact, In
  <2>4. ~writer_flag
    BY <2>2 DEF IInv, WordIsExact, ReadersAlone
  <2> QED
    BY <2>3, <2>4
<1> QED
  BY <1>1, <1>2

\* cnt_and_flag and readers_waiting of isc_rwlock_lock(), _unlock(), _trylock(),
\* _tryupgrade() and _downgrade() always are what the threads have made them:
\* every reader that announced itself is counted once, the flag is set while
\* one writer has it, and no sleeping reader is forgotten.
THEOREM CountsExact == Spec => [](TypeOK /\ WordIsExact /\ WaitersCounted)
<1>1. Init => IInv
  BY InitIInv
<1>2. IInv /\ [Next]_vars => IInv'
  BY NextIInv
<1>3. IInv => TypeOK /\ WordIsExact /\ WaitersCounted
  BY DEF IInv
<1> QED
  BY <1>1, <1>2, <1>3, PTL DEF Spec

\* However many threads lock, try, upgrade, downgrade and unlock (rwlock.c),
\* while one may write no other may read or write.
THEOREM Exclusion == Spec => []MutualExclusion
<1>1. Init => IInv
  BY InitIInv
<1>2. IInv /\ [Next]_vars => IInv'
  BY NextIInv
<1>3. IInv => MutualExclusion
  BY IInvImplies
<1> QED
  BY <1>1, <1>2, <1>3, PTL DEF Spec

\* The INSIST of isc_rwlock_tryupgrade() (rwlock.c:425) never fails for a
\* thread that holds the read lock.
THEOREM UpgradeInsist == Spec => []ReaderKeepsWriterOut
<1>1. Init => IInv
  BY InitIInv
<1>2. IInv /\ [Next]_vars => IInv'
  BY NextIInv
<1>3. IInv => ReaderKeepsWriterOut
  BY IInvImplies
<1> QED
  BY <1>1, <1>2, <1>3, PTL DEF Spec

-----------------------------------------------------------------------------
(* The second invariant: the queue and the watch. *)

\* The thread is one of those that write_requests is ahead of write_completions
\* for, and no longer queued.
OwnerPCs == {"w_granted", "writing", "dg_flag", "dg_comp", "wu_comp"}
\* The thread has found that it is its turn.
HeadPCs  == {"w_cas", "w_slow2", "w_wait2"}

Queued == In(pc, QueuedPCs)
Waits  == Cardinality(Queued)
Owns   == Cardinality(In(pc, OwnerPCs))

\* The counters are apart by the writers that are queued or own the lock; the
\* tickets of the queued ones are the last to have been drawn, each by one of
\* them; and who has found that it is its turn has the oldest.
Turns ==
    /\ Plus(write_requests, -write_completions) = Waits + Owns
    /\ \A t \in Queued : Age(t) \in 1 .. Waits
    /\ \A t, u \in Queued : Age(t) = Age(u) => t = u
    /\ \A k \in 1 .. Waits : \E t \in Queued : Age(t) = k
    /\ \A t \in Threads : pc[t] \in HeadPCs => Age(t) = Waits

\* Nothing is kept from a comparison once it is made.
Reads == \A t \in Threads : pc[t] \notin ComparePCs => seen[t] = Unread

\* A reader sleeps on the flag only while it is set, or while the thread that
\* cleared it has still to look for readers.
ReaderWakers == {"wu_comp", "wu_quota", "wu_equal", "wu_count", "wu_readers", "dg_comp",
                 "dg_wake"}

FlagWatched ==
    \A t \in Threads : pc[t] = "r_wait2" =>
        \E u \in Threads : pc[u] \in FlaggedPCs \cup ReaderWakers

\* A writer that sleeps although it is its turn is watched by a thread that has
\* still to look for writers, and that will see this one when it does.
WriterWakers == (CountedPCs \ {"r_wait2"}) \cup FlaggedPCs
                  \cup {"wu_comp", "wu_quota", "wu_equal", "wu_count", "wu_readers",
                        "wu_writers", "wu_wake", "ru_check", "ru_wake", "r_woken", "r_incr"}

Awake(u) ==
    /\ pc[u] \in WriterWakers
    /\ pc[u] \in {"wu_writers", "ru_check"} /\ seen[u] # Unread =>
         IF seen[u][1] = "requests" THEN seen[u][2] # write_completions
                                    ELSE seen[u][2] = write_completions

DueAsleep(t) == pc[t] = "w_wait2" \/ (pc[t] = "w_wait" /\ write_completions = ticket[t])

TurnWatched == (\E t \in Threads : DueAsleep(t)) => \E u \in Threads : Awake(u)

\* When there is no writer, a reader that sleeps, or is about to under the mutex,
\* is watched by the writer that left last.
Sinks(t) == \/ pc[t] = "r_wait"
            \/ pc[t] = "r_slow" /\ seen[t] # Unread /\ ~SeesNoWriter(t)

Calls(u) == \/ pc[u] \in {"wu_quota", "wu_readers", "dg_wake"}
            \/ pc[u] = "wu_equal" /\ (seen[u] = Unread \/ SeesNoWriter(u))

QuietWatched == NoWriter /\ (\E t \in Threads : Sinks(t)) => \E u \in Threads : Calls(u)

JInv == Turns /\ Reads /\ FlagWatched /\ TurnWatched /\ QuietWatched

-----------------------------------------------------------------------------
(* Counting modulo Wrap. *)

LEMMA PlusIs ==
    ASSUME NEW a \in 0 .. Wrap - 1, NEW b \in 0 .. Wrap - 1
    PROVE  /\ Plus(a, -b) = IF a >= b THEN a - b ELSE (a - b) + Wrap
           /\ Plus(a, 1) = IF a = Wrap - 1 THEN 0 ELSE a + 1
           /\ Plus(a, -1) = IF a = 0 THEN Wrap - 1 ELSE a - 1
<1>1. Wrap \in Nat /\ Wrap > 1
  <2>1. Cardinality(Threads) \in Nat
    BY RWLockAssumption, FS_CardinalityType
  <2> QED BY <2>1, RWLockAssumption
<1>2. \A x \in 0 .. 2 * Wrap - 1 : x % Wrap = IF x < Wrap THEN x ELSE x - Wrap
  BY <1>1, ModIs
<1>3. Plus(a, -b) = IF a >= b THEN a - b ELSE (a - b) + Wrap
  <2>1. (a + (-b)) + Wrap \in 0 .. 2 * Wrap - 1
    BY <1>1
  <2> QED BY <1>1, <1>2, <2>1 DEF Plus
<1>4. Plus(a, 1) = IF a = Wrap - 1 THEN 0 ELSE a + 1
  <2>1. (a + 1) + Wrap \in 0 .. 2 * Wrap - 1 \/ a = Wrap - 1
    BY <1>1
  <2>2. CASE a = Wrap - 1
    <3>1. (2 * Wrap) % Wrap = 0
      BY <1>1
    <3> QED BY <1>1, <2>2, <3>1 DEF Plus
  <2> QED BY <1>1, <1>2, <2>1, <2>2 DEF Plus
<1>5. Plus(a, -1) = IF a = 0 THEN Wrap - 1 ELSE a - 1
  <2>1. (a + (-1)) + Wrap \in 0 .. 2 * Wrap - 1
    BY <1>1
  <2> QED BY <1>1, <1>2, <2>1 DEF Plus
<1> QED BY <1>3, <1>4, <1>5

\* How the distance between two counters changes with them.
LEMMA Distance ==
    ASSUME NEW a \in 0 .. Wrap - 1, NEW b \in 0 .. Wrap - 1
    PROVE  /\ Plus(a, -b) \in 0 .. Wrap - 1
           /\ Plus(a, -b) = 0 <=> a = b
           /\ Plus(a, -b) < Wrap - 1 => /\ Plus(Plus(a, 1), -b) = Plus(a, -b) + 1
                                        /\ Plus(a, -Plus(b, -1)) = Plus(a, -b) + 1
           /\ Plus(a, -b) > 0 => Plus(a, -Plus(b, 1)) = Plus(a, -b) - 1
           /\ Plus(Plus(a, 1), -a) = 1
           /\ \A c \in 0 .. Wrap - 1 : Plus(a, -b) = Plus(a, -c) => b = c
<1>1. Wrap \in Nat /\ Wrap > 1
  <2>1. Cardinality(Threads) \in Nat
    BY RWLockAssumption, FS_CardinalityType
  <2> QED BY <2>1, RWLockAssumption
<1>2. Plus(a, 1) \in 0 .. Wrap - 1 /\ Plus(b, 1) \in 0 .. Wrap - 1 /\ Plus(b, -1) \in 0 .. Wrap - 1
  BY PlusType
<1> QED BY <1>1, <1>2, PlusIs

\* There are fewer queued writers and owners than the counters can tell apart.
LEMMA Few ==
    ASSUME NEW f
    PROVE  /\ Cardinality(In(f, QueuedPCs)) \in Nat /\ Cardinality(In(f, OwnerPCs)) \in Nat
           /\ Cardinality(In(f, QueuedPCs)) + Cardinality(In(f, OwnerPCs)) < Wrap - 1
<1> DEFINE Q == In(f, QueuedPCs)
           O == In(f, OwnerPCs)
<1>1. /\ IsFiniteSet(Q) /\ IsFiniteSet(O) /\ Cardinality(Q) \in Nat /\ Cardinality(O) \in Nat
  BY InFinite
<1>2. Q \cap O = {} /\ Q \cup O \in SUBSET Threads
  BY DEF In, QueuedPCs, OwnerPCs
<1> HIDE DEF Q, O
<1>3. IsFiniteSet(Threads) /\ Cardinality(Threads) \in Nat
  BY RWLockAssumption, FS_CardinalityType
<1>4. Cardinality(Q \cup O) = Cardinality(Q) + Cardinality(O)
  <2>1. Cardinality(Q \cup O) = Cardinality(Q) + Cardinality(O) - Cardinality(Q \cap O)
    BY <1>1, FS_Union
  <2> QED BY <1>1, <1>2, <2>1, FS_EmptySet
<1>5. Cardinality(Q \cup O) <= Cardinality(Threads)
  BY <1>2, <1>3, FS_Subset
<1> QED BY <1>1, <1>3, <1>4, <1>5, RWLockAssumption DEF Q, O

-----------------------------------------------------------------------------
(* The writers' queue. *)

\* Nobody enters or leaves it.
LEMMA TurnsSame ==
    ASSUME IInv, Turns, UNCHANGED counters,
           \A u \in Threads : /\ pc[u] \in QueuedPCs <=> pc'[u] \in QueuedPCs
                              /\ pc[u] \in OwnerPCs <=> pc'[u] \in OwnerPCs
                              /\ pc[u] \in QueuedPCs => ticket'[u] = ticket[u]
                              /\ pc'[u] \in HeadPCs =>
                                   \/ pc[u] \in HeadPCs
                                   \/ pc[u] \in QueuedPCs /\ write_completions = ticket[u]
    PROVE  Turns'
<1>1. Queued' = Queued /\ Waits' = Waits /\ Owns' = Owns
  BY DEF Queued, Waits, Owns, In
<1>2. \A u \in Queued : Age(u)' = Age(u)
  BY DEF Age, counters, Queued, In
<1>3. ASSUME NEW u \in Threads, pc'[u] \in HeadPCs PROVE Age(u)' = Waits
  <2>1. CASE pc[u] \in HeadPCs
    <3>1. u \in Queued
      BY <2>1 DEF Queued, In, HeadPCs, QueuedPCs
    <3> QED BY <1>2, <2>1, <3>1 DEF Turns
  <2>2. CASE pc[u] \in QueuedPCs /\ write_completions = ticket[u]
    <3>1. u \in Queued /\ Age(u) = Waits + Owns
      BY <2>2 DEF Turns, Age, Queued, In
    <3>2. Age(u) \in 1 .. Waits /\ Waits \in Nat /\ Owns \in Nat
      BY <3>1, Few DEF Turns, Waits, Owns, Queued
    <3> QED BY <1>2, <3>1, <3>2
  <2> QED BY <1>3, <2>1, <2>2
<1>4. Plus(write_requests, -write_completions)' = Plus(write_requests, -write_completions)
  BY DEF counters, Plus
<1> QED BY <1>1, <1>2, <1>3, <1>4 DEF Turns

\* isc_rwlock_lock() draws a ticket.
LEMMA TurnsAsk ==
    ASSUME IInv, Turns, NEW t \in Threads, lock_write(t)
    PROVE  Turns'
<1>0. /\ write_requests \in 0 .. Wrap - 1 /\ write_completions \in 0 .. Wrap - 1
      /\ \A u \in Threads : ticket[u] \in 0 .. Wrap - 1
  BY DEF IInv, TypeOK
<1>1. /\ write_requests' = Plus(write_requests, 1) /\ write_completions' = write_completions
      /\ pc[t] = "free" /\ pc'[t] = "w_turn" /\ ticket'[t] = write_requests
      /\ \A u \in Threads \ {t} : pc'[u] = pc[u] /\ ticket'[u] = ticket[u]
  BY DEF lock_write, Goto, IInv, TypeOK
<1>2. Queued' = Queued \cup {t} /\ t \notin Queued /\ Queued \subseteq Threads
  BY <1>1 DEF Queued, In, QueuedPCs
<1>3. Waits' = Waits + 1 /\ Owns' = Owns
  BY <1>1, Count DEF Waits, Owns, Queued, QueuedPCs, OwnerPCs
<1>4. Waits \in Nat /\ Owns \in Nat /\ Waits + Owns < Wrap - 1 /\ Wrap \in Nat
  BY Few, RWLockWrap DEF Waits, Owns, Queued
<1>5. Age(t)' = 1
  BY <1>0, <1>1, Distance DEF Age
<1>6. ASSUME NEW u \in Queued PROVE Age(u)' = Age(u) + 1 /\ Age(u) \in 1 .. Waits
  <2>1. Age(u) \in 1 .. Waits /\ u \in Threads \ {t}
    BY <1>2 DEF Turns
  <2>2. Age(u)' = Plus(Plus(write_requests, 1), -ticket[u])
    BY <1>1, <2>1 DEF Age
  <2>3. Age(u) < Wrap - 1
    BY <1>4, <2>1
  <2> QED BY <1>0, <2>1, <2>2, <2>3, Distance DEF Age
<1>7. Plus(write_requests', -write_completions') = Waits' + Owns'
  <2>1. Plus(write_requests, -write_completions) = Waits + Owns
    BY DEF Turns
  <2>2. Plus(Plus(write_requests, 1), -write_completions) = Plus(write_requests, -write_completions) + 1
    <3>1. Plus(write_requests, -write_completions) < Wrap - 1
      BY <1>4, <2>1
    <3> QED BY <1>0, <3>1, Distance
  <2> QED BY <1>1, <1>3, <1>4, <2>1, <2>2
<1>8. \A u \in Queued' : Age(u)' \in 1 .. Waits'
  BY <1>2, <1>3, <1>4, <1>5, <1>6
<1>9. \A u, v \in Queued' : Age(u)' = Age(v)' => u = v
  BY <1>2, <1>4, <1>5, <1>6 DEF Turns
<1>10. ASSUME NEW k \in 1 .. Waits' PROVE \E u \in Queued' : Age(u)' = k
  <2>1. CASE k = 1
    BY <1>2, <1>5, <2>1
  <2>2. CASE k # 1
    <3>1. k - 1 \in 1 .. Waits
      BY <1>3, <1>4, <2>2
    <3>2. PICK u \in Queued : Age(u) = k - 1
      BY <3>1 DEF Turns
    <3> QED BY <1>2, <1>6, <3>1, <3>2
  <2> QED BY <2>1, <2>2
<1>11. ASSUME NEW u \in Threads, pc'[u] \in HeadPCs PROVE Age(u)' = Waits'
  <2>1. u # t /\ pc[u] \in HeadPCs /\ u \in Queued
    BY <1>1, <1>11 DEF HeadPCs, QueuedPCs, Queued, In
  <2> QED BY <1>3, <1>6, <2>1 DEF Turns
<1> QED BY <1>7, <1>8, <1>9, <1>10, <1>11 DEF Turns

\* The oldest of them gets the lock.
LEMMA TurnsTake ==
    ASSUME IInv, Turns, NEW t \in Threads, write_cas(t), pc'[t] = "w_granted"
    PROVE  Turns'
<1>1. /\ write_requests' = write_requests /\ write_completions' = write_completions
      /\ pc[t] = "w_cas" /\ \A u \in Threads \ {t} : pc'[u] = pc[u] /\ ticket'[u] = ticket[u]
  BY DEF write_cas, Goto, IInv, TypeOK, counters
<1>2. Queued' = Queued \ {t} /\ t \in Queued /\ Queued \subseteq Threads /\ Age(t) = Waits
  BY <1>1 DEF Queued, In, QueuedPCs, HeadPCs, Turns
<1>3. Waits' = Waits - 1 /\ Owns' = Owns + 1
  BY <1>1, Count DEF Waits, Owns, Queued, QueuedPCs, OwnerPCs
<1>4. Waits \in Nat /\ Owns \in Nat
  BY Few DEF Waits, Owns, Queued
<1>5. ASSUME NEW u \in Queued' PROVE Age(u)' = Age(u) /\ u \in Queued /\ Age(u) \in 1 .. Waits /\ Age(u) # Waits
  BY <1>1, <1>2 DEF Age, Turns
<1>6. Plus(write_requests', -write_completions') = Waits' + Owns'
  BY <1>1, <1>3, <1>4 DEF Turns
<1>7. \A u \in Queued' : Age(u)' \in 1 .. Waits'
  BY <1>3, <1>4, <1>5
<1>8. \A u, v \in Queued' : Age(u)' = Age(v)' => u = v
  BY <1>5 DEF Turns
<1>9. ASSUME NEW k \in 1 .. Waits' PROVE \E u \in Queued' : Age(u)' = k
  <2>1. k \in 1 .. Waits /\ k # Waits
    BY <1>3, <1>4
  <2>2. PICK u \in Queued : Age(u) = k
    BY <2>1 DEF Turns
  <2> QED BY <1>2, <1>5, <2>1, <2>2
<1>10. ASSUME NEW u \in Threads, pc'[u] \in HeadPCs PROVE Age(u)' = Waits'
  <2>1. u # t
    BY <1>10 DEF HeadPCs
  <2>2. u \in Queued' /\ pc[u] \in HeadPCs
    BY <1>1, <1>2, <1>10, <2>1 DEF HeadPCs, QueuedPCs, Queued, In
  <2> QED BY <1>5, <2>2 DEF Turns
<1> QED BY <1>6, <1>7, <1>8, <1>9, <1>10 DEF Turns

\* A writer completes, or jumps the queue.
LEMMA TurnsCount ==
    ASSUME IInv, Turns, NEW t \in Threads,
           unlock_complete(t) \/ downgrade_complete(t) \/ jump_queue(t)
    PROVE  Turns'
<1>0. /\ write_requests \in 0 .. Wrap - 1 /\ write_completions \in 0 .. Wrap - 1
  BY DEF IInv, TypeOK
<1>1. /\ write_requests' = write_requests /\ ticket' = ticket
      /\ \A u \in Threads \ {t} : pc'[u] = pc[u]
      /\ pc[t] \notin QueuedPCs /\ pc'[t] \notin QueuedPCs
      /\ \/ pc[t] \in OwnerPCs /\ pc'[t] \notin OwnerPCs /\ write_completions' = Plus(write_completions, 1)
         \/ pc[t] \notin OwnerPCs /\ pc'[t] \in OwnerPCs /\ write_completions' = Plus(write_completions, -1)
  BY DEF unlock_complete, downgrade_complete, jump_queue, Goto, IInv, TypeOK, QueuedPCs, OwnerPCs
<1>2. Queued' = Queued /\ Waits' = Waits /\ Queued \subseteq Threads
  BY <1>1 DEF Queued, Waits, In
<1>3. \A u \in Threads : Age(u)' = Age(u)
  BY <1>1 DEF Age
<1>4. Waits \in Nat /\ Owns \in Nat /\ Waits + Owns < Wrap - 1 /\ Wrap \in Nat
  BY Few, RWLockWrap DEF Waits, Owns, Queued
<1>5. Plus(write_requests', -write_completions') = Waits' + Owns'
  <2>1. Plus(write_requests, -write_completions) = Waits + Owns
    BY DEF Turns
  <2>2. CASE pc[t] \in OwnerPCs /\ pc'[t] \notin OwnerPCs /\ write_completions' = Plus(write_completions, 1)
    <3>1. Owns' = Owns - 1 /\ Owns > 0
      BY <1>1, <2>2, Count, FewIn DEF Owns
    <3>2. Plus(write_requests, -Plus(write_completions, 1)) = Plus(write_requests, -write_completions) - 1
      BY <1>0, <1>4, <2>1, <3>1, Distance
    <3> QED BY <1>1, <1>2, <1>4, <2>1, <2>2, <3>1, <3>2
  <2>3. CASE pc[t] \notin OwnerPCs /\ pc'[t] \in OwnerPCs /\ write_completions' = Plus(write_completions, -1)
    <3>1. Owns' = Owns + 1
      BY <1>1, <2>3, Count DEF Owns
    <3>2. Plus(write_requests, -Plus(write_completions, -1)) = Plus(write_requests, -write_completions) + 1
      BY <1>0, <1>4, <2>1, Distance
    <3> QED BY <1>1, <1>2, <1>4, <2>1, <2>3, <3>1, <3>2
  <2> QED BY <1>1, <2>2, <2>3
<1>6. \A u \in Threads : pc'[u] \in HeadPCs => pc[u] \in HeadPCs
  BY <1>1 DEF HeadPCs, QueuedPCs
<1> QED BY <1>2, <1>3, <1>5, <1>6 DEF Turns

-----------------------------------------------------------------------------
(* The watch over the sleepers. *)

\* A thread other than t will look for the writers.
OtherAwake(t) == \E u \in Threads \ {t} : Awake(u)

\* While the word is not free somebody will look: a reader that is counted and
\* asleep is itself watched.
LEMMA WordAwake ==
    ASSUME IInv, FlagWatched, NEW t \in Threads, pc[t] \notin FlaggedPCs \cup ReaderWakers,
           writer_flag \/ \E u \in Threads \ {t} : pc[u] \in CountedPCs
    PROVE  OtherAwake(t)
<1>1. ASSUME NEW u \in Threads, pc[u] \in FlaggedPCs \cup ReaderWakers
      PROVE  OtherAwake(t)
  <2>1. Awake(u) /\ u # t
    BY <1>1 DEF Awake, WriterWakers, CountedPCs, FlaggedPCs, ReaderWakers
  <2> QED BY <2>1 DEF OtherAwake
<1>2. CASE writer_flag
  BY <1>1, <1>2 DEF IInv, WordIsExact
<1>3. ASSUME NEW u \in Threads \ {t}, pc[u] \in CountedPCs
      PROVE  OtherAwake(t)
  <2>1. CASE pc[u] = "r_wait2"
    BY <1>1, <2>1 DEF FlagWatched
  <2>2. CASE pc[u] # "r_wait2"
    <3>1. Awake(u)
      BY <1>3, <2>2 DEF Awake, WriterWakers, CountedPCs
    <3> QED BY <3>1 DEF OtherAwake
  <2> QED BY <2>1, <2>2
<1> QED BY <1>2, <1>3

\* A step of t that changes no counter and wakes nobody.
Plain(t) ==
    /\ UNCHANGED <<write_requests, write_completions>>
    /\ \A u \in Threads \ {t} : pc'[u] = pc[u] /\ seen'[u] = seen[u] /\ ticket'[u] = ticket[u]

\* What t has to see to itself: its place in the queue,
KeepsTurn(t) ==
    /\ pc[t] \in QueuedPCs <=> pc'[t] \in QueuedPCs
    /\ pc[t] \in OwnerPCs <=> pc'[t] \in OwnerPCs
    /\ pc[t] \in QueuedPCs => ticket'[t] = ticket[t]
    /\ pc'[t] \in HeadPCs => \/ pc[t] \in HeadPCs
                             \/ pc[t] \in QueuedPCs /\ write_completions = ticket[t]
\* its reads, the readers that wait for the flag,
KeepsFlag(t) ==
    /\ pc'[t] \notin ComparePCs => seen'[t] = Unread
    /\ pc'[t] = "r_wait2" => writer_flag /\ pc[t] = "r_slow2"
    /\ pc[t] \in FlaggedPCs \cup ReaderWakers =>
         \/ pc'[t] \in FlaggedPCs \cup ReaderWakers
         \/ \A u \in Threads : pc'[u] # "r_wait2"
\* the writers
KeepsDue(t) ==
    /\ DueAsleep(t)' => OtherAwake(t)
    /\ Awake(t) => Awake(t)' \/ OtherAwake(t) \/ \A u \in Threads : ~DueAsleep(u)'
\* and the readers that wait for them.
KeepsQuiet(t) ==
    NoWriter => /\ Sinks(t)' => Sinks(t)
                /\ Calls(t) => Calls(t)' \/ \A u \in Threads : ~Sinks(u)'

Keeps(t) == KeepsTurn(t) /\ KeepsFlag(t) /\ KeepsDue(t) /\ KeepsQuiet(t)

LEMMA PlainKeeps ==
    ASSUME IInv, JInv, NEW t \in Threads, Plain(t), Keeps(t)
    PROVE  JInv'
<1> USE DEF Plain, Keeps
<1>1. Turns'
  <2>1. UNCHANGED counters
    BY DEF counters
  <2> QED BY <2>1, TurnsSame DEF KeepsTurn, JInv
<1>2. Reads'
  BY DEF JInv, Reads, KeepsFlag
<1>3. FlagWatched'
  <2> SUFFICES ASSUME NEW u \in Threads, pc'[u] = "r_wait2"
               PROVE  \E v \in Threads : pc'[v] \in FlaggedPCs \cup ReaderWakers
    BY DEF FlagWatched
  <2>1. CASE u = t
    <3>1. pc[t] = "r_slow2" /\ writer_flag
      BY <2>1 DEF KeepsFlag
    <3>2. PICK v \in Threads : pc[v] \in FlaggedPCs
      BY <3>1 DEF IInv, WordIsExact
    <3>3. v # t
      BY <3>1, <3>2 DEF FlaggedPCs
    <3> QED BY <3>2, <3>3
  <2>2. CASE u # t
    <3>1. PICK v \in Threads : pc[v] \in FlaggedPCs \cup ReaderWakers
      BY <2>2 DEF FlagWatched, JInv
    <3> QED BY <3>1 DEF KeepsFlag
  <2> QED BY <2>1, <2>2
<1>4. \A u \in Threads \ {t} : Awake(u) => Awake(u)'
  BY DEF Awake
<1>5. TurnWatched'
  <2> SUFFICES ASSUME NEW u \in Threads, DueAsleep(u)'
               PROVE  \E v \in Threads : Awake(v)'
    BY DEF TurnWatched
  <2>1. CASE OtherAwake(t)
    BY <1>4, <2>1 DEF OtherAwake
  <2>2. CASE u # t
    <3>1. DueAsleep(u)
      BY <2>2 DEF DueAsleep
    <3>2. PICK v \in Threads : Awake(v)
      BY <3>1 DEF JInv, TurnWatched
    <3> QED BY <1>4, <2>1, <3>2 DEF KeepsDue
  <2> QED BY <2>1, <2>2 DEF KeepsDue
<1>6. QuietWatched'
  <2> SUFFICES ASSUME NEW u \in Threads, Sinks(u)', NoWriter
               PROVE  \E v \in Threads : Calls(v)'
    BY DEF QuietWatched, NoWriter
  <2>1. Sinks(u)
    <3>1. CASE u = t
      BY <3>1 DEF KeepsQuiet
    <3>2. CASE u # t
      BY <3>2 DEF Sinks, SeesNoWriter
    <3> QED BY <3>1, <3>2
  <2>2. PICK v \in Threads : Calls(v)
    BY <2>1 DEF JInv, QuietWatched
  <2>3. CASE v = t
    BY <2>2, <2>3 DEF KeepsQuiet
  <2>4. CASE v # t
    BY <2>2, <2>4 DEF Calls, SeesNoWriter
  <2> QED BY <2>3, <2>4
<1> QED BY <1>1, <1>2, <1>3, <1>5, <1>6 DEF JInv

\* A queued writer keeps the counters apart.
LEMMA QueueSeen ==
    ASSUME IInv, Turns, NEW u \in Threads, pc[u] \in QueuedPCs \cup OwnerPCs
    PROVE  ~NoWriter
<1>1. Waits \in Nat /\ Owns \in Nat
  BY Few DEF Waits, Owns, Queued
<1>2. Waits > 0 \/ Owns > 0
  BY FewIn DEF Waits, Owns, Queued
<1>3. Plus(write_requests, -write_completions) # 0
  BY <1>1, <1>2 DEF Turns
<1> QED BY <1>3, Distance DEF IInv, TypeOK, NoWriter

\* The first read of a comparison.
LEMMA PeekPlain ==
    ASSUME IInv, JInv, NEW t \in Threads, peek(t)
    PROVE  Plain(t) /\ Keeps(t)
<1>0. seen \in [Threads -> {"none", "requests", "completions"} \X (0 .. Wrap - 1)]
  BY DEF IInv, TypeOK
<1>1. /\ UNCHANGED <<write_requests, write_completions, pc, ticket>>
      /\ pc[t] \in ComparePCs /\ seen[t] = Unread
      /\ \/ seen'[t] = <<"requests", write_requests>>
         \/ seen'[t] = <<"completions", write_completions>>
      /\ \A u \in Threads \ {t} : seen'[u] = seen[u]
  BY <1>0, RWLockAssumption DEF peek, counters
<1>2. Plain(t)
  BY <1>1 DEF Plain
<1>3. KeepsTurn(t) /\ KeepsFlag(t)
  BY <1>1 DEF KeepsTurn, KeepsFlag, ComparePCs
<1>4. KeepsDue(t)
  <2>1. ~DueAsleep(t)'
    BY <1>1 DEF DueAsleep, ComparePCs
  <2>2. ASSUME Awake(t), NEW u \in Threads, DueAsleep(u)' PROVE Awake(t)'
    <3>1. pc[u] \in QueuedPCs
      BY <1>1, <2>2 DEF DueAsleep, QueuedPCs
    <3>2. write_requests # write_completions
      BY <3>1, QueueSeen DEF NoWriter, JInv
    <3> QED BY <1>1, <2>2, <3>2 DEF Awake
  <2> QED BY <2>1, <2>2 DEF KeepsDue
<1>5. KeepsQuiet(t)
  <2>1. NoWriter => SeesNoWriter(t)'
    BY <1>1 DEF NoWriter, SeesNoWriter
  <2> QED BY <1>1, <2>1 DEF KeepsQuiet, Sinks, Calls
<1> QED BY <1>2, <1>3, <1>4, <1>5 DEF Keeps

\* A step of t that changes no counter, only t's place and what it has read.
LEMMA GotoPlain ==
    ASSUME IInv, JInv, NEW t \in Threads, NEW p, Goto(t, p),
           UNCHANGED <<write_requests, write_completions, ticket>>,
           seen' = seen \/ seen' = [seen EXCEPT ![t] = Unread]
    PROVE  /\ Plain(t) /\ pc'[t] = p /\ ticket'[t] = ticket[t]
           /\ seen'[t] = seen[t] \/ seen'[t] = Unread
           /\ pc[t] \notin ComparePCs => seen[t] = Unread /\ seen'[t] = Unread
<1>0. pc \in [Threads -> PCs] /\ Reads /\ seen \in [Threads -> {"none", "requests", "completions"} \X (0 .. Wrap - 1)]
  BY DEF IInv, TypeOK, PCs, JInv
<1>1. CASE seen' = seen
  BY <1>0, <1>1 DEF Plain, Goto, Reads
<1>2. CASE seen' = [seen EXCEPT ![t] = Unread]
  BY <1>0, <1>2 DEF Plain, Goto, Reads
<1> QED BY <1>1, <1>2

\* Steps of t that no sleeper depends on: t keeps its place in the queue and
\* remains, or becomes, one that will look.
Easy(a, b) ==
    \/ a = "free" /\ b \in {"r_check", "tr_check", "tw_comp"}
    \/ a = "r_check" /\ b \in {"r_incr", "r_slow"}
    \/ a = "r_slow" /\ b = "r_incr"
    \/ a = "r_woken" /\ b = "r_incr"
    \/ a \in {"r_incr", "r_woken2", "r_slow2"} /\ b = "r_test"
    \/ a = "r_test" /\ b \in {"r_slow2", "r_reset"}
    \/ a = "r_reset" /\ b = "reading"
    \/ a = "reading" /\ b = "tu_comp"
    \/ a = "w_cas" /\ b = "w_slow2"
    \/ a = "w_slow2" /\ b = "w_cas"
    \/ a = "w_granted" /\ b = "writing"
    \/ a = "writing" /\ b \in {"wu_comp", "dg_flag"}
    \/ a = "dg_flag" /\ b = "dg_comp"
    \/ a = "tr_check" /\ b \in {"tr_incr", "free"}
    \/ a = "tr_incr" /\ b \in {"tr_cancel", "reading"}
    \/ a = "r_wait" /\ b = "r_woken"
    \/ a = "r_wait2" /\ b = "r_woken2"
    \/ a = "w_wait" /\ b = "w_turn"
    \/ a = "w_wait2" /\ b = "w_cas"

LEMMA EasyKeeps ==
    ASSUME IInv, JInv, NEW t \in Threads, Plain(t), ticket'[t] = ticket[t],
           seen'[t] = Unread, Easy(pc[t], pc'[t])
    PROVE  Keeps(t)
<1> USE DEF Easy
<1>1. KeepsTurn(t)
  BY DEF KeepsTurn, QueuedPCs, OwnerPCs, HeadPCs
<1>2. KeepsFlag(t)
  BY DEF KeepsFlag, FlaggedPCs, ReaderWakers
<1>3. KeepsDue(t)
  <2>1. ~DueAsleep(t)'
    BY DEF DueAsleep
  <2>2. pc[t] \in WriterWakers => Awake(t)'
    BY DEF Awake, WriterWakers, CountedPCs, FlaggedPCs
  <2> QED BY <2>1, <2>2 DEF KeepsDue, Awake
<1>4. KeepsQuiet(t)
  <2>1. ~Sinks(t)'
    BY DEF Sinks
  <2>2. ~Calls(t)
    BY DEF Calls
  <2> QED BY <2>1, <2>2 DEF KeepsQuiet
<1> QED BY <1>1, <1>2, <1>3, <1>4 DEF Keeps

\* A comparison leaves nothing read; elsewhere nothing is.
LEMMA EasySteps ==
    ASSUME IInv, JInv, NEW t \in Threads,
           \/ lock_read(t) \/ read_check(t) \/ read_woken(t) \/ read_incr(t) \/ read_test(t)
           \/ read_reset(t) \/ write_grant(t) \/ unlock_write(t) \/ try_read(t)
           \/ try_read_check(t) \/ try_read_incr(t) \/ try_write(t)
           \/ isc_rwlock_tryupgrade(t) \/ isc_rwlock_downgrade(t) \/ downgrade_flag(t)
           \/ SpuriousWakeup(t)
    PROVE  Plain(t) /\ Keeps(t)
<1> SUFFICES Plain(t) /\ ticket'[t] = ticket[t] /\ seen'[t] = Unread /\ Easy(pc[t], pc'[t])
  BY EasyKeeps
<1>1. ASSUME read_check(t) \/ try_read_check(t) PROVE Plain(t) /\ ticket'[t] = ticket[t] /\ seen'[t] = Unread /\ Easy(pc[t], pc'[t])
  <2>1. seen' = [seen EXCEPT ![t] = Unread] /\ seen'[t] = Unread
    BY <1>1 DEF read_check, try_read_check, Compare, IInv, TypeOK
  <2> QED BY <1>1, <2>1, GotoPlain DEF read_check, try_read_check, Compare, counters, Easy
<1>2. CASE lock_read(t) \/ read_woken(t) \/ read_incr(t) \/ read_test(t) \/ read_reset(t)
  BY <1>2, GotoPlain DEF lock_read, read_woken, read_incr, read_test, read_reset, counters, Easy, ComparePCs
<1>3. CASE write_grant(t) \/ unlock_write(t) \/ try_read(t) \/ try_read_incr(t) \/ try_write(t)
  BY <1>3, GotoPlain DEF write_grant, unlock_write, try_read, try_read_incr, try_write, counters, Easy, ComparePCs
<1>4. CASE isc_rwlock_tryupgrade(t) \/ isc_rwlock_downgrade(t) \/ downgrade_flag(t)
  BY <1>4, GotoPlain DEF isc_rwlock_tryupgrade, isc_rwlock_downgrade, downgrade_flag, counters, Easy, ComparePCs
<1>5. CASE SpuriousWakeup(t)
  BY <1>5, GotoPlain DEF SpuriousWakeup, counters, Easy, ComparePCs
<1> QED BY <1>1, <1>2, <1>3, <1>4, <1>5

\* A reader goes to sleep under the mutex.
LEMMA ReadSleeps ==
    ASSUME IInv, JInv, NEW t \in Threads, read_sleep(t) \/ read_sleep2(t)
    PROVE  Plain(t) /\ Keeps(t)
<1>1. ASSUME read_sleep(t) PROVE Plain(t) /\ Keeps(t)
  <2>1. seen' = [seen EXCEPT ![t] = Unread] /\ seen'[t] = Unread /\ seen[t] # Unread /\ pc[t] = "r_slow"
    BY <1>1 DEF read_sleep, Compare, IInv, TypeOK
  <2>2. Plain(t) /\ ticket'[t] = ticket[t] /\ pc'[t] = IF SeesNoWriter(t) THEN "r_incr" ELSE "r_wait"
    BY <1>1, <2>1, GotoPlain DEF read_sleep, Compare, counters
  <2>3. CASE pc'[t] = "r_incr"
    BY <2>1, <2>2, <2>3, EasyKeeps DEF Easy
  <2>4. CASE pc'[t] = "r_wait" /\ ~SeesNoWriter(t)
    <3>1. KeepsTurn(t) /\ KeepsFlag(t)
      BY <2>1, <2>2, <2>4 DEF KeepsTurn, KeepsFlag, QueuedPCs, OwnerPCs, HeadPCs, FlaggedPCs, ReaderWakers
    <3>2. KeepsDue(t)
      BY <2>1, <2>4 DEF KeepsDue, DueAsleep, Awake, WriterWakers, CountedPCs, FlaggedPCs
    <3>3. KeepsQuiet(t)
      BY <2>1, <2>4 DEF KeepsQuiet, Sinks, Calls
    <3> QED BY <2>2, <3>1, <3>2, <3>3 DEF Keeps
  <2> QED BY <2>2, <2>3, <2>4
<1>2. ASSUME read_sleep2(t) PROVE Plain(t) /\ Keeps(t)
  <2>1. /\ Plain(t) /\ ticket'[t] = ticket[t] /\ seen'[t] = Unread /\ pc[t] = "r_slow2"
        /\ pc'[t] = "r_test" \/ (pc'[t] = "r_wait2" /\ writer_flag)
    BY <1>2, GotoPlain DEF read_sleep2, counters, ComparePCs
  <2>2. CASE pc'[t] = "r_test"
    BY <2>1, <2>2, EasyKeeps DEF Easy
  <2>3. CASE pc'[t] = "r_wait2" /\ writer_flag
    <3>1. KeepsTurn(t) /\ KeepsFlag(t)
      BY <2>1, <2>3 DEF KeepsTurn, KeepsFlag, QueuedPCs, OwnerPCs, HeadPCs, FlaggedPCs, ReaderWakers
    <3>2. OtherAwake(t)
      BY <2>1, <2>3, WordAwake DEF JInv, FlaggedPCs, ReaderWakers
    <3>3. KeepsDue(t)
      BY <2>3, <3>2 DEF KeepsDue, DueAsleep
    <3>4. KeepsQuiet(t)
      BY <2>1, <2>3 DEF KeepsQuiet, Sinks, Calls
    <3> QED BY <2>1, <3>1, <3>3, <3>4 DEF Keeps
  <2> QED BY <2>1, <2>2, <2>3
<1> QED BY <1>1, <1>2

\* A queued writer tests whether it is its turn, whether the word is free, and
\* goes to sleep.
LEMMA WriteSleeps ==
    ASSUME IInv, JInv, NEW t \in Threads,
           \/ write_turn(t) \/ write_sleep(t) \/ write_sleep2(t)
           \/ write_cas(t) /\ pc'[t] # "w_granted"
    PROVE  Plain(t) /\ Keeps(t)
<1>1. ASSUME write_turn(t) \/ write_sleep(t) PROVE Plain(t) /\ Keeps(t)
  <2>1. /\ Plain(t) /\ ticket'[t] = ticket[t] /\ seen'[t] = Unread /\ pc[t] \in {"w_turn", "w_slow"}
        /\ \/ pc'[t] = "w_cas" /\ write_completions = ticket[t]
           \/ pc'[t] \in {"w_slow", "w_wait"} /\ write_completions # ticket[t]
    BY <1>1, GotoPlain DEF write_turn, write_sleep, counters, ComparePCs
  <2>2. KeepsTurn(t) /\ KeepsFlag(t)
    BY <2>1 DEF KeepsTurn, KeepsFlag, QueuedPCs, OwnerPCs, HeadPCs, FlaggedPCs, ReaderWakers
  <2>3. KeepsDue(t)
    BY <2>1 DEF KeepsDue, DueAsleep, Awake, WriterWakers, CountedPCs, FlaggedPCs, Plain
  <2>4. KeepsQuiet(t)
    BY <2>1 DEF KeepsQuiet, Sinks, Calls
  <2> QED BY <2>1, <2>2, <2>3, <2>4 DEF Keeps
<1>2. ASSUME write_sleep2(t) PROVE Plain(t) /\ Keeps(t)
  <2>1. /\ Plain(t) /\ ticket'[t] = ticket[t] /\ seen'[t] = Unread /\ pc[t] = "w_slow2"
        /\ \/ pc'[t] = "w_cas"
           \/ pc'[t] = "w_wait2" /\ (reader_count # 0 \/ writer_flag)
    BY <1>2, GotoPlain DEF write_sleep2, counters, ComparePCs
  <2>2. CASE pc'[t] = "w_cas"
    BY <2>1, <2>2, EasyKeeps DEF Easy
  <2>3. CASE pc'[t] = "w_wait2" /\ (reader_count # 0 \/ writer_flag)
    <3>1. KeepsTurn(t) /\ KeepsFlag(t)
      BY <2>1, <2>3 DEF KeepsTurn, KeepsFlag, QueuedPCs, OwnerPCs, HeadPCs, FlaggedPCs, ReaderWakers
    <3>2. reader_count # 0 => \E u \in Threads \ {t} : pc[u] \in CountedPCs
      <4>1. reader_count = Cardinality(In(pc, CountedPCs))
        BY DEF IInv, WordIsExact, In
      <4>2. In(pc, CountedPCs) = {} => reader_count = 0
        BY <4>1, FS_EmptySet
      <4> QED BY <2>1, <4>2 DEF In, CountedPCs
    <3>3. OtherAwake(t)
      BY <2>1, <2>3, <3>2, WordAwake DEF JInv, FlaggedPCs, ReaderWakers
    <3>4. KeepsDue(t)
      BY <2>3, <3>3 DEF KeepsDue
    <3>5. KeepsQuiet(t)
      BY <2>1, <2>3 DEF KeepsQuiet, Sinks, Calls
    <3> QED BY <2>1, <3>1, <3>4, <3>5 DEF Keeps
  <2> QED BY <2>1, <2>2, <2>3
<1>3. ASSUME write_cas(t), pc'[t] # "w_granted" PROVE Plain(t) /\ Keeps(t)
  <2>1. Goto(t, "w_slow2") /\ pc[t] = "w_cas" /\ UNCHANGED <<write_requests, write_completions, ticket, seen>>
    BY <1>3 DEF write_cas, counters, Goto, IInv, TypeOK
  <2>2. Plain(t) /\ ticket'[t] = ticket[t] /\ seen'[t] = Unread /\ pc'[t] = "w_slow2"
    BY <2>1, GotoPlain DEF ComparePCs
  <2> QED BY <2>1, <2>2, EasyKeeps DEF Easy
<1> QED BY <1>1, <1>2, <1>3

\* A reader leaves: the last one looks, the others know one that will.
LEMMA ReadLeaves ==
    ASSUME IInv, JInv, NEW t \in Threads, unlock_read(t) \/ try_read_cancel(t)
    PROVE  Plain(t) /\ Keeps(t)
<1>1. /\ Plain(t) /\ ticket'[t] = ticket[t] /\ seen'[t] = Unread /\ pc[t] \in {"reading", "tr_cancel"}
      /\ pc'[t] = IF reader_count = 1 /\ ~writer_flag THEN "ru_check" ELSE "free"
  BY GotoPlain DEF unlock_read, try_read_cancel, AfterRead, counters, ComparePCs
<1>2. KeepsTurn(t) /\ KeepsFlag(t)
  BY <1>1 DEF KeepsTurn, KeepsFlag, QueuedPCs, OwnerPCs, HeadPCs, FlaggedPCs, ReaderWakers
<1>3. KeepsDue(t)
  <2>1. ~DueAsleep(t)'
    BY <1>1 DEF DueAsleep
  <2>2. CASE reader_count = 1 /\ ~writer_flag
    <3>1. Awake(t)'
      BY <1>1, <2>2 DEF Awake, WriterWakers
    <3> QED BY <2>1, <3>1 DEF KeepsDue
  <2>3. CASE ~(reader_count = 1 /\ ~writer_flag)
    <3>1. reader_count # 1 => \E u \in Threads \ {t} : pc[u] \in CountedPCs
      <4> SUFFICES ASSUME \A u \in Threads \ {t} : pc[u] \notin CountedPCs PROVE reader_count = 1
        OBVIOUS
      <4>1. In(pc, CountedPCs) = {t}
        BY <1>1 DEF In, CountedPCs
      <4> QED BY <4>1, FS_Singleton DEF IInv, WordIsExact, In
    <3>2. OtherAwake(t)
      BY <1>1, <2>3, <3>1, WordAwake DEF JInv, FlaggedPCs, ReaderWakers
    <3> QED BY <2>1, <3>2 DEF KeepsDue
  <2> QED BY <2>2, <2>3
<1>4. KeepsQuiet(t)
  BY <1>1 DEF KeepsQuiet, Sinks, Calls
<1> QED BY <1>1, <1>2, <1>3, <1>4 DEF Keeps

\* Who looks for writers finds the ones that are due.
LEMMA WritersFound ==
    ASSUME IInv, JInv, NEW t \in Threads, unlock_read_check(t) \/ unlock_writers(t)
    PROVE  Plain(t) /\ Keeps(t)
<1>1. /\ seen' = [seen EXCEPT ![t] = Unread] /\ seen'[t] = Unread /\ seen[t] # Unread
      /\ pc[t] \in {"ru_check", "wu_writers"}
  BY DEF unlock_read_check, unlock_writers, Compare, IInv, TypeOK
<1>2. /\ Plain(t) /\ ticket'[t] = ticket[t]
      /\ pc'[t] \in {"free", "ru_wake", "wu_wake"} /\ (~SeesNoWriter(t) => pc'[t] # "free")
  <2>1. PICK p \in {"free", "ru_wake", "wu_wake"} : Goto(t, p) /\ (~SeesNoWriter(t) => p # "free")
    BY DEF unlock_read_check, unlock_writers, Compare
  <2>2. UNCHANGED <<write_requests, write_completions, ticket>>
    BY DEF unlock_read_check, unlock_writers, counters
  <2> QED BY <1>1, <2>1, <2>2, GotoPlain
<1>3. KeepsTurn(t) /\ KeepsFlag(t)
  BY <1>1, <1>2 DEF KeepsTurn, KeepsFlag, QueuedPCs, OwnerPCs, HeadPCs, FlaggedPCs, ReaderWakers
<1>4. KeepsDue(t)
  <2>1. ~DueAsleep(t)'
    BY <1>2 DEF DueAsleep
  <2>2. ASSUME Awake(t), NEW u \in Threads, DueAsleep(u)' PROVE Awake(t)'
    <3>1. u # t /\ pc[u] \in QueuedPCs
      BY <1>2, <2>1, <2>2 DEF DueAsleep, QueuedPCs, Plain
    <3>2. write_requests # write_completions
      BY <3>1, QueueSeen DEF NoWriter, JInv
    <3>3. ~SeesNoWriter(t)
      BY <1>1, <2>2, <3>2 DEF Awake, SeesNoWriter
    <3> QED BY <1>2, <3>3 DEF Awake, WriterWakers
  <2> QED BY <2>1, <2>2 DEF KeepsDue
<1>5. KeepsQuiet(t)
  BY <1>1, <1>2 DEF KeepsQuiet, Sinks, Calls
<1> QED BY <1>2, <1>3, <1>4, <1>5 DEF Keeps

\* The three tests of a writer that leaves.
LEMMA Prefers ==
    ASSUME IInv, JInv, NEW t \in Threads, unlock_prefer(t)
    PROVE  Plain(t) /\ Keeps(t)
<1>0. seen \in [Threads -> {"none", "requests", "completions"} \X (0 .. Wrap - 1)]
  BY DEF IInv, TypeOK
<1>1. /\ Plain(t) /\ ticket'[t] = ticket[t] /\ seen'[t] = Unread
      /\ \/ pc[t] = "wu_quota" /\ pc'[t] \in {"wu_readers", "wu_equal"}
         \/ /\ pc[t] = "wu_equal" /\ seen[t] # Unread
            /\ pc'[t] = IF SeesNoWriter(t) THEN "wu_readers" ELSE "wu_count"
         \/ pc[t] = "wu_count" /\ pc'[t] = "wu_readers"
         \/ pc[t] = "wu_count" /\ pc'[t] = "wu_writers" /\ reader_count = 0
  <2>1. CASE pc[t] = "wu_equal"
    <3>1. seen' = [seen EXCEPT ![t] = Unread] /\ seen'[t] = Unread /\ seen[t] # Unread
      BY <1>0, <2>1 DEF unlock_prefer, Compare
    <3> QED BY <2>1, <3>1, GotoPlain DEF unlock_prefer, Compare, counters
  <2>2. CASE pc[t] # "wu_equal"
    BY <2>2, GotoPlain DEF unlock_prefer, counters, ComparePCs
  <2> QED BY <2>1, <2>2
<1>2. KeepsTurn(t)
  BY <1>1 DEF KeepsTurn, QueuedPCs, OwnerPCs, HeadPCs
<1>3. KeepsFlag(t)
  <2>1. CASE pc'[t] = "wu_writers"
    <3>1. reader_count = 0
      BY <1>1, <2>1
    <3>2. \A u \in Threads : pc'[u] # "r_wait2"
      BY <1>1, <2>1, <3>1, WordSays DEF CountedPCs, Plain
    <3> QED BY <1>1, <2>1, <3>2 DEF KeepsFlag
  <2>2. CASE pc'[t] # "wu_writers"
    BY <1>1, <2>2 DEF KeepsFlag, FlaggedPCs, ReaderWakers
  <2> QED BY <2>1, <2>2
<1>4. KeepsDue(t)
  BY <1>1 DEF KeepsDue, DueAsleep, Awake, WriterWakers
<1>5. KeepsQuiet(t)
  BY <1>1 DEF KeepsQuiet, Sinks, Calls
<1> QED BY <1>1, <1>2, <1>3, <1>4, <1>5 DEF Keeps

\* Nobody waits: the count of sleeping readers is exact.
LEMMA NobodyWaits ==
    ASSUME IInv, readers_waiting = 0
    PROVE  \A u \in Threads : pc[u] \notin WaitingPCs
<1>1. Cardinality(In(pc, WaitingPCs)) = 0
  BY DEF IInv, WaitersCounted, In, WaitingPCs
<1> QED BY <1>1, FewIn

LEMMA SomebodyWaits ==
    ASSUME IInv, readers_waiting > 0
    PROVE  \E u \in Threads : pc[u] \in WaitingPCs
<1> SUFFICES ASSUME \A u \in Threads : pc[u] \notin WaitingPCs PROVE FALSE
  OBVIOUS
<1>1. In(pc, WaitingPCs) = {}
  BY DEF In
<1>2. readers_waiting = 0
  BY <1>1, FS_EmptySet DEF IInv, WaitersCounted, In, WaitingPCs
<1> QED BY <1>2

\* Under the mutex nobody is about to sleep.
LEMMA NobodySinks ==
    ASSUME NEW t \in Threads, MutexFree(t), \A u \in Threads : pc[u] # "r_wait", pc[t] # "r_slow"
    PROVE  \A u \in Threads : ~Sinks(u)
  BY DEF MutexFree, Sinks

\* Nobody is there to be woken.
LEMMA ReadersNotFound ==
    ASSUME IInv, JInv, NEW t \in Threads, unlock_readers(t) \/ downgrade_wake(t),
           ~(readers_waiting > 0)
    PROVE  Plain(t) /\ Keeps(t)
<1>0. pc \in [Threads -> PCs] /\ readers_waiting = 0
  BY DEF IInv, TypeOK, PCs
<1>1. Goto(t, "wu_writers") \/ Goto(t, "reading")
  BY <1>0 DEF unlock_readers, downgrade_wake, Goto
<1>2. /\ Plain(t) /\ ticket'[t] = ticket[t] /\ seen'[t] = Unread /\ MutexFree(t)
      /\ pc[t] \in {"wu_readers", "dg_wake"}
      /\ pc'[t] = "wu_writers" \/ pc'[t] = "reading"
  BY <1>1, GotoPlain DEF unlock_readers, downgrade_wake, counters, ComparePCs
<1>3. \A u \in Threads : pc[u] \notin WaitingPCs
  BY <1>0, NobodyWaits
<1>4. KeepsTurn(t) /\ KeepsFlag(t)
  BY <1>2, <1>3 DEF KeepsTurn, KeepsFlag, QueuedPCs, OwnerPCs, HeadPCs, FlaggedPCs, ReaderWakers,
                    WaitingPCs, Plain
<1>5. KeepsDue(t)
  BY <1>2 DEF KeepsDue, DueAsleep, Awake, WriterWakers, CountedPCs
<1>6. KeepsQuiet(t)
  <2>1. \A u \in Threads : ~Sinks(u)
    BY <1>2, <1>3, NobodySinks DEF WaitingPCs
  <2>2. ~Sinks(t)' /\ \A u \in Threads \ {t} : ~Sinks(u)'
    BY <1>2, <2>1 DEF Sinks, Plain, SeesNoWriter
  <2> QED BY <2>2 DEF KeepsQuiet
<1> QED BY <1>2, <1>4, <1>5, <1>6 DEF Keeps

-----------------------------------------------------------------------------
(* The steps that wake others or move a counter. *)

\* BROADCAST(&rwl->writeable)
LEMMA WritersWoken ==
    ASSUME IInv, JInv, NEW t \in Threads, unlock_wake(t)
    PROVE  JInv'
<1>0. pc \in [Threads -> PCs]
  BY DEF IInv, TypeOK, PCs
<1>1. /\ UNCHANGED <<write_requests, write_completions, ticket, seen>>
      /\ pc[t] \in {"ru_wake", "wu_wake"} /\ pc'[t] = "free"
      /\ \A u \in Threads \ {t} : pc'[u] = CASE pc[u] = "w_wait"  -> "w_turn"
                                             [] pc[u] = "w_wait2" -> "w_cas"
                                             [] OTHER             -> pc[u]
  BY <1>0 DEF unlock_wake, counters, BroadcastWriteable
<1>2. Turns'
  <2>1. UNCHANGED counters
    BY <1>1 DEF counters
  <2>2. \A u \in Threads : /\ pc[u] \in QueuedPCs <=> pc'[u] \in QueuedPCs
                           /\ pc[u] \in OwnerPCs <=> pc'[u] \in OwnerPCs
                           /\ pc'[u] \in HeadPCs => pc[u] \in HeadPCs
    BY <1>1 DEF QueuedPCs, OwnerPCs, HeadPCs
  <2> QED BY <1>1, <2>1, <2>2, TurnsSame DEF JInv
<1>3. Reads'
  BY <1>1 DEF JInv, Reads, ComparePCs
<1>4. FlagWatched'
  <2> SUFFICES ASSUME NEW u \in Threads, pc'[u] = "r_wait2"
               PROVE  \E v \in Threads : pc'[v] \in FlaggedPCs \cup ReaderWakers
    BY DEF FlagWatched
  <2>1. pc[u] = "r_wait2"
    BY <1>1
  <2>2. PICK v \in Threads : pc[v] \in FlaggedPCs \cup ReaderWakers
    BY <2>1 DEF JInv, FlagWatched
  <2>3. pc'[v] = pc[v]
    BY <1>1, <2>2 DEF FlaggedPCs, ReaderWakers
  <2> QED BY <2>2, <2>3
<1>5. TurnWatched'
  BY <1>1 DEF TurnWatched, DueAsleep
<1>6. QuietWatched'
  <2> SUFFICES ASSUME NEW u \in Threads, Sinks(u)', NoWriter'
               PROVE  \E v \in Threads : Calls(v)'
    BY DEF QuietWatched
  <2>1. Sinks(u) /\ NoWriter
    BY <1>1 DEF Sinks, NoWriter, SeesNoWriter
  <2>2. PICK v \in Threads : Calls(v)
    BY <2>1 DEF JInv, QuietWatched
  <2>3. pc'[v] = pc[v]
    BY <1>1, <2>2 DEF Calls
  <2> QED BY <1>1, <2>2, <2>3 DEF Calls, SeesNoWriter
<1> QED BY <1>2, <1>3, <1>4, <1>5, <1>6 DEF JInv

\* BROADCAST(&rwl->readable): a woken reader takes over the watch.
LEMMA ReadersWoken ==
    ASSUME IInv, JInv, NEW t \in Threads, unlock_readers(t) \/ downgrade_wake(t),
           readers_waiting > 0
    PROVE  JInv'
<1>0. pc \in [Threads -> PCs]
  BY DEF IInv, TypeOK, PCs
<1>1. /\ UNCHANGED <<write_requests, write_completions, ticket, seen>> /\ MutexFree(t)
      /\ pc[t] \in {"wu_readers", "dg_wake"} /\ pc'[t] \in {"free", "reading"}
      /\ \A u \in Threads \ {t} : pc'[u] = CASE pc[u] = "r_wait"  -> "r_woken"
                                             [] pc[u] = "r_wait2" -> "r_woken2"
                                             [] OTHER             -> pc[u]
  BY <1>0 DEF unlock_readers, downgrade_wake, counters, BroadcastReadable
<1>2. Turns'
  <2>1. UNCHANGED counters
    BY <1>1 DEF counters
  <2>2. \A u \in Threads : /\ pc[u] \in QueuedPCs <=> pc'[u] \in QueuedPCs
                           /\ pc[u] \in OwnerPCs <=> pc'[u] \in OwnerPCs
                           /\ pc'[u] \in HeadPCs => pc[u] \in HeadPCs
    BY <1>1 DEF QueuedPCs, OwnerPCs, HeadPCs
  <2> QED BY <1>1, <2>1, <2>2, TurnsSame DEF JInv
<1>3. Reads'
  BY <1>1 DEF JInv, Reads, ComparePCs
<1>4. FlagWatched'
  BY <1>1 DEF FlagWatched
<1>5. TurnWatched'
  <2>1. PICK u \in Threads : pc[u] \in WaitingPCs
    BY SomebodyWaits
  <2>2. pc'[u] \in {"r_woken", "r_woken2"}
    BY <1>1, <2>1 DEF WaitingPCs
  <2>3. Awake(u)'
    BY <2>2 DEF Awake, WriterWakers, CountedPCs
  <2> QED BY <2>3 DEF TurnWatched
<1>6. QuietWatched'
  <2>1. \A u \in Threads : ~Sinks(u)'
    BY <1>1 DEF Sinks, MutexFree
  <2> QED BY <2>1 DEF QuietWatched
<1> QED BY <1>2, <1>3, <1>4, <1>5, <1>6 DEF JInv

\* The counters move: a thread that completes or jumps the queue is the one that
\* will look, a new ticket leaves the watch as it is.
LEMMA CountersMove ==
    ASSUME IInv, JInv, NEW t \in Threads,
           \/ lock_write(t) \/ unlock_complete(t) \/ downgrade_complete(t) \/ jump_queue(t)
           \/ write_cas(t) /\ pc'[t] = "w_granted"
    PROVE  JInv'
<1>0. pc \in [Threads -> PCs] /\ ticket \in [Threads -> 0 .. Wrap - 1] /\ TypeOK
  BY DEF IInv, TypeOK, PCs
<1>1. /\ \A u \in Threads \ {t} : pc'[u] = pc[u] /\ ticket'[u] = ticket[u]
      /\ seen' = seen /\ pc[t] \notin ComparePCs /\ pc'[t] \notin ComparePCs
      /\ pc'[t] \notin {"r_wait", "r_wait2", "w_wait", "w_wait2"}
      /\ pc[t] \notin {"wu_quota", "wu_equal", "wu_readers", "dg_wake"}
  BY <1>0 DEF lock_write, unlock_complete, downgrade_complete, jump_queue, write_cas, Goto, ComparePCs
<1>2. \/ lock_write(t) /\ pc[t] = "free" /\ pc'[t] = "w_turn" /\ write_completions' = write_completions
      \/ pc[t] \in {"wu_comp", "dg_comp"} /\ pc'[t] \in {"wu_quota", "dg_wake"}
      \/ pc[t] \in {"tw_comp", "tu_comp", "w_cas"} /\ pc'[t] \in {"w_granted", "writing"}
  BY <1>0 DEF lock_write, unlock_complete, downgrade_complete, jump_queue, write_cas, Goto
<1>3. Turns'
  BY TurnsAsk, TurnsTake, TurnsCount DEF JInv
<1>4. Reads'
  BY <1>1 DEF JInv, Reads
<1>5. pc[t] \in FlaggedPCs \cup ReaderWakers => pc'[t] \in FlaggedPCs \cup ReaderWakers
  BY <1>2 DEF FlaggedPCs, ReaderWakers
<1>6. FlagWatched'
  <2> SUFFICES ASSUME NEW u \in Threads, pc'[u] = "r_wait2"
               PROVE  \E v \in Threads : pc'[v] \in FlaggedPCs \cup ReaderWakers
    BY DEF FlagWatched
  <2>1. pc[u] = "r_wait2"
    BY <1>1
  <2>2. PICK v \in Threads : pc[v] \in FlaggedPCs \cup ReaderWakers
    BY <2>1 DEF JInv, FlagWatched
  <2> QED BY <1>1, <1>5, <2>2
<1>7. TurnWatched'
  <2>1. CASE lock_write(t) /\ pc[t] = "free" /\ pc'[t] = "w_turn" /\ write_completions' = write_completions
    <3> SUFFICES ASSUME NEW u \in Threads, DueAsleep(u)'
                 PROVE  \E v \in Threads : Awake(v)'
      BY DEF TurnWatched
    <3>1. DueAsleep(u)
      BY <1>1, <2>1 DEF DueAsleep
    <3>2. PICK v \in Threads : Awake(v)
      BY <3>1 DEF JInv, TurnWatched
    <3>3. v # t
      BY <2>1, <3>2 DEF Awake, WriterWakers, CountedPCs, FlaggedPCs
    <3> QED BY <1>1, <2>1, <3>2, <3>3 DEF Awake
  <2>2. CASE pc'[t] \in {"wu_quota", "dg_wake", "w_granted", "writing"}
    <3>1. Awake(t)'
      BY <2>2 DEF Awake, WriterWakers, CountedPCs, FlaggedPCs
    <3> QED BY <3>1 DEF TurnWatched
  <2> QED BY <1>2, <2>1, <2>2
<1>8. QuietWatched'
  <2>1. CASE pc'[t] \in {"wu_quota", "dg_wake"}
    BY <2>1 DEF QuietWatched, Calls
  <2>2. CASE pc'[t] \in {"w_turn", "w_granted", "writing"}
    <3>1. Waits' > 0 \/ Owns' > 0
      BY <2>2, FewIn DEF Waits, Owns, Queued, QueuedPCs, OwnerPCs
    <3>2. Waits' \in Nat /\ Owns' \in Nat
      BY Few DEF Waits, Owns, Queued
    <3>3. Plus(write_requests', -write_completions') # 0
      BY <1>3, <3>1, <3>2 DEF Turns
    <3>4. write_requests' \in 0 .. Wrap - 1 /\ write_completions' \in 0 .. Wrap - 1
      <4>1. [Next]_vars
        BY DEF Next, Ask, Step
      <4> QED BY <4>1, NextIInv DEF IInv, TypeOK
    <3>5. ~NoWriter'
      BY <3>3, <3>4, Distance DEF NoWriter
    <3> QED BY <3>5 DEF QuietWatched
  <2> QED BY <1>2, <2>1, <2>2
<1> QED BY <1>3, <1>4, <1>6, <1>7, <1>8 DEF JInv

-----------------------------------------------------------------------------
(* The invariant holds. *)

LEMMA InitJInv ==
    ASSUME Init
    PROVE  JInv
<1>1. \A u \in Threads : pc[u] = "free" /\ seen[u] = Unread
  BY DEF Init
<1>2. Queued = {} /\ In(pc, OwnerPCs) = {}
  BY <1>1 DEF Queued, In, QueuedPCs, OwnerPCs
<1>3. Waits = 0 /\ Owns = 0
  BY <1>2, FS_EmptySet DEF Waits, Owns
<1>4. Plus(write_requests, -write_completions) = 0
  BY RWLockWrap, Distance DEF Init
<1>5. Turns
  BY <1>1, <1>2, <1>3, <1>4 DEF Turns, HeadPCs
<1>6. Reads /\ FlagWatched
  BY <1>1 DEF Reads, FlagWatched
<1>7. TurnWatched /\ QuietWatched
  BY <1>1 DEF TurnWatched, QuietWatched, DueAsleep, Sinks
<1> QED BY <1>5, <1>6, <1>7 DEF JInv

LEMMA NextJInv ==
    ASSUME IInv, JInv, [Next]_vars
    PROVE  JInv'
<1>1. ASSUME NEW t \in Threads, Ask(t) \/ Release(t) \/ SpuriousWakeup(t) PROVE JInv'
  <2>1. CASE lock_write(t)
    BY <2>1, CountersMove
  <2>2. CASE unlock_read(t)
    BY <2>2, ReadLeaves, PlainKeeps
  <2>3. CASE \/ lock_read(t) \/ try_read(t) \/ try_write(t) \/ isc_rwlock_tryupgrade(t)
             \/ isc_rwlock_downgrade(t) \/ unlock_write(t) \/ SpuriousWakeup(t)
    BY <2>3, EasySteps, PlainKeeps
  <2> QED BY <1>1, <2>1, <2>2, <2>3 DEF Ask, Release
<1>2. ASSUME NEW t \in Threads, Step(t) PROVE JInv'
  <2>1. CASE peek(t)
    BY <2>1, PeekPlain, PlainKeeps
  <2>2. CASE \/ read_check(t) \/ read_woken(t) \/ read_incr(t) \/ read_test(t) \/ read_reset(t)
             \/ write_grant(t) \/ try_read_check(t) \/ try_read_incr(t) \/ downgrade_flag(t)
    BY <2>2, EasySteps, PlainKeeps
  <2>3. CASE read_sleep(t) \/ read_sleep2(t)
    BY <2>3, ReadSleeps, PlainKeeps
  <2>4. CASE write_turn(t) \/ write_sleep(t) \/ write_sleep2(t)
    BY <2>4, WriteSleeps, PlainKeeps
  <2>5. CASE write_cas(t)
    BY <2>5, WriteSleeps, PlainKeeps, CountersMove
  <2>6. CASE try_read_cancel(t)
    BY <2>6, ReadLeaves, PlainKeeps
  <2>7. CASE unlock_read_check(t) \/ unlock_writers(t)
    BY <2>7, WritersFound, PlainKeeps
  <2>8. CASE unlock_prefer(t)
    BY <2>8, Prefers, PlainKeeps
  <2>9. CASE unlock_readers(t) \/ downgrade_wake(t)
    BY <2>9, ReadersNotFound, PlainKeeps, ReadersWoken
  <2>10. CASE unlock_wake(t)
    BY <2>10, WritersWoken
  <2>11. CASE unlock_complete(t) \/ downgrade_complete(t) \/ jump_queue(t)
    BY <2>11, CountersMove
  <2> QED BY <1>2, <2>1, <2>2, <2>3, <2>4, <2>5, <2>6, <2>7, <2>8, <2>9, <2>10, <2>11 DEF Step
<1>3. CASE UNCHANGED vars
  <2>1. UNCHANGED <<write_requests, write_completions, pc, ticket, seen>>
    BY <1>3 DEF vars, counters
  <2>2. Turns'
    BY <2>1, TurnsSame DEF JInv, counters
  <2>3. Reads' /\ FlagWatched'
    BY <2>1 DEF JInv, Reads, FlagWatched
  <2>4. TurnWatched'
    BY <2>1 DEF JInv, TurnWatched, DueAsleep, Awake
  <2>5. QuietWatched'
    BY <2>1 DEF JInv, QuietWatched, Sinks, Calls, SeesNoWriter, NoWriter
  <2> QED BY <2>2, <2>3, <2>4, <2>5 DEF JInv
<1> QED BY <1>1, <1>2, <1>3 DEF Next

\* A sleeper is watched by a thread that is awake.
LEMMA JInvWakes ==
    ASSUME IInv, JInv
    PROVE  NoSleeperLeft
<1> SUFFICES ASSUME \A t \in Threads : pc[t] \in {"free", "r_wait", "r_wait2", "w_wait", "w_wait2"}
             PROVE  /\ \A t \in Threads : pc[t] = "free"
                    /\ NoWriter /\ reader_count = 0 /\ ~writer_flag /\ readers_waiting = 0
  BY DEF NoSleeperLeft
<1>1. \A t \in Threads : pc[t] # "r_wait2"
  BY DEF JInv, FlagWatched, FlaggedPCs, ReaderWakers
<1>2. \A t \in Threads : pc[t] \notin OwnerPCs
  BY DEF OwnerPCs
<1>3. Owns = 0 /\ Waits \in Nat
  <2>1. In(pc, OwnerPCs) = {}
    BY <1>2 DEF In
  <2> QED BY <2>1, FS_EmptySet, Few DEF Owns, Waits, Queued
<1>4. \A t \in Threads : ~DueAsleep(t)
  BY DEF JInv, TurnWatched, Awake, WriterWakers, CountedPCs, FlaggedPCs
<1>5. Waits = 0
  <2> SUFFICES ASSUME Waits # 0 PROVE FALSE
    OBVIOUS
  <2>1. PICK t \in Queued : Age(t) = Waits
    BY <1>3 DEF JInv, Turns
  <2>2. t \in Threads /\ pc[t] \in {"w_wait", "w_wait2"}
    BY <2>1 DEF Queued, In, QueuedPCs
  <2>3. Plus(write_requests, -ticket[t]) = Plus(write_requests, -write_completions)
    BY <1>3, <2>1 DEF JInv, Turns, Age
  <2>4. write_completions = ticket[t]
    BY <2>2, <2>3, Distance DEF IInv, TypeOK
  <2> QED BY <1>4, <2>2, <2>4 DEF DueAsleep
<1>6. \A t \in Threads : pc[t] \notin QueuedPCs
  BY <1>5, FewIn DEF Waits, Queued
<1>7. NoWriter
  <2>1. Plus(write_requests, -write_completions) = 0
    BY <1>3, <1>5 DEF JInv, Turns
  <2> QED BY <2>1, Distance DEF IInv, TypeOK, NoWriter
<1>8. \A t \in Threads : pc[t] # "r_wait"
  BY <1>7 DEF JInv, QuietWatched, Sinks, Calls
<1>9. \A t \in Threads : pc[t] = "free"
  BY <1>1, <1>6, <1>8 DEF QueuedPCs
<1>10. ~writer_flag
  BY <1>9 DEF IInv, WordIsExact, FlaggedPCs
<1>11. {t \in Threads : pc[t] \in CountedPCs} = {} /\ {t \in Threads : pc[t] \in {"r_wait", "r_woken", "r_wait2", "r_woken2"}} = {}
  BY <1>9 DEF CountedPCs
<1>12. reader_count = 0 /\ readers_waiting = 0
  BY <1>11, FS_EmptySet DEF IInv, WordIsExact, WaitersCounted
<1> QED BY <1>7, <1>9, <1>10, <1>12

-----------------------------------------------------------------------------
(* RWLock implements RWSpec. *)

\* The refinement mapping.
Readers == {u \in Threads : ReadHeld(u)}
Writer  == {u \in Threads : pc[u] \in FlaggedPCs}
Waiting == {u \in Threads : pc[u] \in QueuedPCs}
Ahead   == [u \in Threads |->
              {v \in Threads : /\ pc[u] \in QueuedPCs /\ pc[v] \in QueuedPCs
                               /\ Age(v) > Age(u)}]

\* What every step of RWSpec does, under the mapping.
LEMMA Maps ==
    ASSUME NEW t \in Threads
    PROVE  /\ /\ Readers' = Readers /\ Writer' = Writer /\ Waiting' = Waiting /\ Ahead' = Ahead
              => UNCHANGED Abstract!vars
           /\ /\ t \notin Readers \cup Writer \cup Waiting /\ Writer = {}
              /\ Readers' = Readers \cup {t}
              /\ Writer' = Writer /\ Waiting' = Waiting /\ Ahead' = Ahead
              => Abstract!Next
           /\ /\ t \in Readers /\ Readers' = Readers \ {t}
              /\ Writer' = Writer /\ Waiting' = Waiting /\ Ahead' = Ahead
              => Abstract!Next
           /\ /\ t \notin Readers \cup Writer \cup Waiting
              /\ Waiting' = Waiting \cup {t} /\ Ahead' = [Ahead EXCEPT ![t] = Waiting]
              /\ Readers' = Readers /\ Writer' = Writer
              => Abstract!Next
           /\ /\ t \in Waiting /\ Ahead[t] = {} /\ Readers = {} /\ Writer = {}
              /\ Writer' = {t} /\ Waiting' = Waiting \ {t}
              /\ Ahead' = [u \in Threads |-> Ahead[u] \ {t}] /\ Readers' = Readers
              => Abstract!Next
           /\ /\ t \in Writer /\ Writer' = {}
              /\ Readers' = Readers /\ Waiting' = Waiting /\ Ahead' = Ahead
              => Abstract!Next
           /\ /\ t \notin Readers \cup Writer \cup Waiting /\ Readers = {} /\ Writer = {}
              /\ Writer' = {t}
              /\ Readers' = Readers /\ Waiting' = Waiting /\ Ahead' = Ahead
              => Abstract!Next
           /\ /\ Readers = {t} /\ Writer = {} /\ Readers' = {} /\ Writer' = {t}
              /\ Waiting' = Waiting /\ Ahead' = Ahead
              => Abstract!Next
           /\ /\ t \in Writer /\ Readers' = {t} /\ Writer' = {}
              /\ Waiting' = Waiting /\ Ahead' = Ahead
              => Abstract!Next
<1> USE DEF Readers, Writer, Waiting, Ahead
<1>1. /\ Readers' = Readers /\ Writer' = Writer /\ Waiting' = Waiting /\ Ahead' = Ahead
      => UNCHANGED Abstract!vars
  BY DEF Abstract!vars
<1>2. /\ t \notin Readers \cup Writer \cup Waiting /\ Writer = {}
      /\ Readers' = Readers \cup {t}
      /\ Writer' = Writer /\ Waiting' = Waiting /\ Ahead' = Ahead
      => Abstract!EnterRead(t)
  BY DEF Abstract!EnterRead, Abstract!Idle
<1>3. /\ t \in Readers /\ Readers' = Readers \ {t}
      /\ Writer' = Writer /\ Waiting' = Waiting /\ Ahead' = Ahead
      => Abstract!LeaveRead(t)
  BY DEF Abstract!LeaveRead
<1>4. /\ t \notin Readers \cup Writer \cup Waiting
      /\ Waiting' = Waiting \cup {t} /\ Ahead' = [Ahead EXCEPT ![t] = Waiting]
      /\ Readers' = Readers /\ Writer' = Writer
      => Abstract!AskWrite(t)
  BY DEF Abstract!AskWrite, Abstract!Idle
<1>5. /\ t \in Waiting /\ Ahead[t] = {} /\ Readers = {} /\ Writer = {}
      /\ Writer' = {t} /\ Waiting' = Waiting \ {t}
      /\ Ahead' = [u \in Threads |-> Ahead[u] \ {t}] /\ Readers' = Readers
      => Abstract!GrantWrite(t)
  BY DEF Abstract!GrantWrite, Abstract!Forget
<1>6. /\ t \in Writer /\ Writer' = {}
      /\ Readers' = Readers /\ Waiting' = Waiting /\ Ahead' = Ahead
      => Abstract!LeaveWrite(t)
  BY DEF Abstract!LeaveWrite
<1>7. /\ t \notin Readers \cup Writer \cup Waiting /\ Readers = {} /\ Writer = {}
      /\ Writer' = {t}
      /\ Readers' = Readers /\ Waiting' = Waiting /\ Ahead' = Ahead
      => Abstract!TryWrite(t)
  BY DEF Abstract!TryWrite, Abstract!Idle
<1>8. /\ Readers = {t} /\ Writer = {} /\ Readers' = {} /\ Writer' = {t}
      /\ Waiting' = Waiting /\ Ahead' = Ahead
      => Abstract!Upgrade(t)
  BY DEF Abstract!Upgrade
<1>9. /\ t \in Writer /\ Readers' = {t} /\ Writer' = {}
      /\ Waiting' = Waiting /\ Ahead' = Ahead
      => Abstract!Downgrade(t)
  BY DEF Abstract!Downgrade
<1> HIDE DEF Readers, Writer, Waiting, Ahead
<1>10. \/ Abstract!EnterRead(t) \/ Abstract!LeaveRead(t) \/ Abstract!AskWrite(t)
       \/ Abstract!GrantWrite(t) \/ Abstract!LeaveWrite(t) \/ Abstract!TryWrite(t)
       \/ Abstract!Upgrade(t) \/ Abstract!Downgrade(t)
       => Abstract!Next
  BY DEF Abstract!Next
<1> QED BY <1>1, <1>2, <1>3, <1>4, <1>5, <1>6, <1>7, <1>8, <1>9, <1>10

LEMMA InitMaps ==
    ASSUME Init
    PROVE  Abstract!Init
<1>1. \A u \in Threads : pc[u] = "free"
  BY DEF Init
<1>2. Readers = {} /\ Writer = {} /\ Waiting = {}
  BY <1>1 DEF Readers, Writer, Waiting, ReadHeld, FlaggedPCs, QueuedPCs
<1>3. Ahead = [u \in Threads |-> {}]
  BY <1>1 DEF Ahead, QueuedPCs
<1> QED BY <1>2, <1>3 DEF Abstract!Init, Readers, Writer, Waiting, Ahead

\* The queue as RWSpec sees it, when nobody enters or leaves it.
LEMMA QueueMaps ==
    ASSUME write_requests' = write_requests,
           \A u \in Threads : /\ pc[u] \in QueuedPCs <=> pc'[u] \in QueuedPCs
                              /\ pc[u] \in QueuedPCs => ticket'[u] = ticket[u]
    PROVE  Waiting' = Waiting /\ Ahead' = Ahead
<1>1. Waiting' = Waiting
  BY DEF Waiting
<1>2. \A u \in Threads : pc[u] \in QueuedPCs => Age(u)' = Age(u)
  BY DEF Age
<1> QED BY <1>1, <1>2 DEF Ahead

\* Who holds the lock, when only t may have changed that.
LEMMA HoldersMap ==
    ASSUME NEW t \in Threads,
           \A u \in Threads \ {t} : /\ pc[u] \in ReadingPCs <=> pc'[u] \in ReadingPCs
                                    /\ pc[u] \in FlaggedPCs <=> pc'[u] \in FlaggedPCs
    PROVE  /\ Readers' = IF pc'[t] \in ReadingPCs THEN Readers \cup {t} ELSE Readers \ {t}
           /\ Writer' = IF pc'[t] \in FlaggedPCs THEN Writer \cup {t} ELSE Writer \ {t}
           /\ t \in Readers <=> pc[t] \in ReadingPCs
           /\ t \in Writer <=> pc[t] \in FlaggedPCs
           /\ t \in Waiting <=> pc[t] \in QueuedPCs
<1>1. Readers = {u \in Threads : pc[u] \in ReadingPCs} /\ Readers' = {u \in Threads : pc'[u] \in ReadingPCs}
  BY DEF Readers, ReadHeld, ReadingPCs
<1>2. Readers' = IF pc'[t] \in ReadingPCs THEN Readers \cup {t} ELSE Readers \ {t}
  BY <1>1
<1>3. Writer' = IF pc'[t] \in FlaggedPCs THEN Writer \cup {t} ELSE Writer \ {t}
  BY DEF Writer
<1> QED BY <1>1, <1>2, <1>3 DEF Writer, Waiting

LEMMA PlainMaps ==
    ASSUME NEW t \in Threads, Plain(t), Keeps(t)
    PROVE  /\ Waiting' = Waiting /\ Ahead' = Ahead
           /\ Readers' = IF pc'[t] \in ReadingPCs THEN Readers \cup {t} ELSE Readers \ {t}
           /\ Writer' = IF pc'[t] \in FlaggedPCs THEN Writer \cup {t} ELSE Writer \ {t}
           /\ t \in Readers <=> pc[t] \in ReadingPCs
           /\ t \in Writer <=> pc[t] \in FlaggedPCs
           /\ t \in Waiting <=> pc[t] \in QueuedPCs
<1>1. \A u \in Threads : /\ pc[u] \in QueuedPCs <=> pc'[u] \in QueuedPCs
                         /\ pc[u] \in QueuedPCs => ticket'[u] = ticket[u]
  BY DEF Plain, Keeps, KeepsTurn
<1>2. Waiting' = Waiting /\ Ahead' = Ahead
  BY <1>1, QueueMaps DEF Plain
<1> QED BY <1>2, HoldersMap DEF Plain

\* A step inside an operation that neither takes nor gives up the lock.
LEMMA HiddenMaps ==
    ASSUME NEW t \in Threads, Plain(t), Keeps(t),
           pc[t] \in ReadingPCs <=> pc'[t] \in ReadingPCs,
           pc[t] \in FlaggedPCs <=> pc'[t] \in FlaggedPCs
    PROVE  UNCHANGED Abstract!vars
<1>1. Waiting' = Waiting /\ Ahead' = Ahead /\ Readers' = Readers /\ Writer' = Writer
  BY PlainMaps
<1> QED BY <1>1, Maps

\* The word tells who holds the lock.
LEMMA WordMaps ==
    ASSUME IInv
    PROVE  /\ ~writer_flag => Writer = {}
           /\ reader_count = 0 => Readers = {}
           /\ \A t \in Threads : /\ pc[t] \in FlaggedPCs => Writer = {t} /\ Readers = {}
                                 /\ pc[t] \in ReadingPCs /\ reader_count = 1 => Readers = {t}
<1>1. Readers = {u \in Threads : pc[u] \in ReadingPCs}
  BY DEF Readers, ReadHeld, ReadingPCs
<1>2. ReadingPCs \subseteq CountedPCs
  BY DEF ReadingPCs, CountedPCs
<1>3. ~writer_flag => Writer = {}
  BY DEF IInv, WordIsExact, Writer
<1>4. reader_count = 0 => Readers = {}
  BY <1>1, <1>2, WordSays
<1>5. ASSUME NEW t \in Threads, pc[t] \in FlaggedPCs PROVE Writer = {t} /\ Readers = {}
  BY <1>1, <1>5 DEF IInv, OneFlag, ReadersAlone, Writer
<1>6. ASSUME NEW t \in Threads, pc[t] \in ReadingPCs, reader_count = 1 PROVE Readers = {t}
  BY <1>1, <1>2, <1>6, WordSays
<1> QED BY <1>3, <1>4, <1>5, <1>6

\* The steps that take or give up the lock without the queue.
LEMMA TakesMap ==
    ASSUME IInv, JInv, NEW t \in Threads,
           \/ read_test(t) \/ try_read_incr(t) \/ unlock_read(t) \/ unlock_write(t)
           \/ try_write(t) \/ isc_rwlock_tryupgrade(t) \/ downgrade_flag(t)
    PROVE  Abstract!Next \/ UNCHANGED Abstract!vars
<1>0. pc \in [Threads -> PCs]
  BY DEF IInv, TypeOK, PCs
<1>1. Plain(t) /\ Keeps(t)
  BY EasySteps, ReadLeaves
<1> USE DEF ReadingPCs, FlaggedPCs, QueuedPCs
<1>2. ASSUME read_test(t) \/ try_read_incr(t) PROVE Abstract!Next \/ UNCHANGED Abstract!vars
  <2>1. /\ pc[t] \in {"r_test", "tr_incr"}
        /\ \/ pc'[t] \in {"r_reset", "reading"} /\ ~writer_flag
           \/ pc'[t] \in {"r_slow2", "tr_cancel"}
    BY <1>0, <1>2 DEF read_test, try_read_incr, Goto
  <2>2. CASE pc'[t] \in {"r_reset", "reading"} /\ ~writer_flag
    <3>1. /\ t \notin Readers \cup Writer \cup Waiting /\ Writer = {}
          /\ Readers' = Readers \cup {t} /\ Writer' = Writer /\ Waiting' = Waiting /\ Ahead' = Ahead
      BY <1>1, <2>1, <2>2, PlainMaps, WordMaps
    <3> QED BY <3>1, Maps
  <2>3. CASE pc'[t] \in {"r_slow2", "tr_cancel"}
    BY <1>1, <2>1, <2>3, HiddenMaps
  <2> QED BY <2>1, <2>2, <2>3
<1>3. CASE unlock_read(t)
  <2>1. pc[t] = "reading" /\ pc'[t] \in {"ru_check", "free"}
    BY <1>0, <1>3 DEF unlock_read, AfterRead, Goto
  <2>2. /\ t \in Readers /\ Readers' = Readers \ {t}
        /\ Writer' = Writer /\ Waiting' = Waiting /\ Ahead' = Ahead
    BY <1>1, <2>1, PlainMaps
  <2> QED BY <2>2, Maps
<1>4. CASE unlock_write(t)
  <2>1. pc[t] = "writing" /\ pc'[t] = "wu_comp"
    BY <1>0, <1>4 DEF unlock_write, Goto
  <2>2. /\ t \in Writer /\ Writer' = {}
        /\ Readers' = Readers /\ Waiting' = Waiting /\ Ahead' = Ahead
    BY <1>1, <2>1, PlainMaps, WordMaps
  <2> QED BY <2>2, Maps
<1>5. CASE try_write(t)
  <2>1. pc[t] = "free" /\ pc'[t] = "tw_comp" /\ reader_count = 0 /\ ~writer_flag
    BY <1>0, <1>5 DEF try_write, Goto
  <2>2. /\ t \notin Readers \cup Writer \cup Waiting /\ Readers = {} /\ Writer = {}
        /\ Writer' = {t} /\ Readers' = Readers /\ Waiting' = Waiting /\ Ahead' = Ahead
    BY <1>1, <2>1, PlainMaps, WordMaps
  <2> QED BY <2>2, Maps
<1>6. CASE isc_rwlock_tryupgrade(t)
  <2>1. pc[t] = "reading" /\ pc'[t] = "tu_comp" /\ reader_count = 1 /\ ~writer_flag
    BY <1>0, <1>6 DEF isc_rwlock_tryupgrade, Goto
  <2>2. /\ Readers = {t} /\ Writer = {} /\ Readers' = {} /\ Writer' = {t}
        /\ Waiting' = Waiting /\ Ahead' = Ahead
    BY <1>1, <2>1, PlainMaps, WordMaps
  <2> QED BY <2>2, Maps
<1>7. CASE downgrade_flag(t)
  <2>1. pc[t] = "dg_flag" /\ pc'[t] = "dg_comp"
    BY <1>0, <1>7 DEF downgrade_flag, Goto
  <2>2. /\ t \in Writer /\ Readers' = {t} /\ Writer' = {}
        /\ Waiting' = Waiting /\ Ahead' = Ahead
    BY <1>1, <2>1, PlainMaps, WordMaps
  <2> QED BY <2>2, Maps
<1> QED BY <1>2, <1>3, <1>4, <1>5, <1>6, <1>7

\* The other steps of a thread inside an operation.
LEMMA InsideMaps ==
    ASSUME IInv, JInv, NEW t \in Threads,
           \/ peek(t) \/ lock_read(t) \/ read_check(t) \/ read_woken(t) \/ read_incr(t)
           \/ read_reset(t) \/ write_grant(t) \/ try_read(t) \/ try_read_check(t)
           \/ isc_rwlock_downgrade(t) \/ SpuriousWakeup(t) \/ read_sleep(t) \/ read_sleep2(t)
           \/ write_turn(t) \/ write_sleep(t) \/ write_sleep2(t)
           \/ write_cas(t) /\ pc'[t] # "w_granted"
           \/ try_read_cancel(t) \/ unlock_read_check(t) \/ unlock_writers(t) \/ unlock_prefer(t)
    PROVE  UNCHANGED Abstract!vars
<1>0. pc \in [Threads -> PCs]
  BY DEF IInv, TypeOK, PCs
<1>1. Plain(t) /\ Keeps(t)
  BY PeekPlain, EasySteps, ReadSleeps, WriteSleeps, ReadLeaves, WritersFound, Prefers
<1>2. /\ pc[t] \in ReadingPCs <=> pc'[t] \in ReadingPCs
      /\ pc[t] \in FlaggedPCs <=> pc'[t] \in FlaggedPCs
  <2> USE DEF Goto, Compare, ReadingPCs, FlaggedPCs
  <2>1. CASE peek(t) \/ lock_read(t) \/ read_check(t) \/ read_woken(t) \/ read_incr(t) \/ read_reset(t)
    BY <1>0, <2>1 DEF peek, lock_read, read_check, read_woken, read_incr, read_reset
  <2>2. CASE write_grant(t) \/ try_read(t) \/ try_read_check(t) \/ isc_rwlock_downgrade(t) \/ SpuriousWakeup(t)
    BY <1>0, <2>2 DEF write_grant, try_read, try_read_check, isc_rwlock_downgrade, SpuriousWakeup
  <2>3. CASE read_sleep(t) \/ read_sleep2(t) \/ write_turn(t) \/ write_sleep(t) \/ write_sleep2(t)
    BY <1>0, <2>3 DEF read_sleep, read_sleep2, write_turn, write_sleep, write_sleep2
  <2>4. CASE write_cas(t) /\ pc'[t] # "w_granted"
    BY <1>0, <2>4 DEF write_cas
  <2>5. CASE try_read_cancel(t) \/ unlock_read_check(t) \/ unlock_writers(t) \/ unlock_prefer(t)
    BY <1>0, <2>5 DEF try_read_cancel, AfterRead, unlock_read_check, unlock_writers, unlock_prefer
  <2> QED BY <2>1, <2>2, <2>3, <2>4, <2>5
<1> QED BY <1>1, <1>2, HiddenMaps

\* The broadcasts, and the steps of write_completions.
LEMMA WakesMap ==
    ASSUME IInv, JInv, NEW t \in Threads,
           \/ unlock_wake(t) \/ unlock_readers(t) \/ downgrade_wake(t)
           \/ unlock_complete(t) \/ downgrade_complete(t) \/ jump_queue(t)
    PROVE  UNCHANGED Abstract!vars
<1>0. pc \in [Threads -> PCs]
  BY DEF IInv, TypeOK, PCs
<1>1. write_requests' = write_requests /\ ticket' = ticket
  BY DEF unlock_wake, unlock_readers, downgrade_wake, unlock_complete, downgrade_complete,
         jump_queue, counters
<1>2. ASSUME NEW u \in Threads
      PROVE  /\ pc[u] \in QueuedPCs <=> pc'[u] \in QueuedPCs
             /\ pc[u] \in ReadingPCs <=> pc'[u] \in ReadingPCs
             /\ pc[u] \in FlaggedPCs <=> pc'[u] \in FlaggedPCs
  <2> USE DEF QueuedPCs, ReadingPCs, FlaggedPCs
  <2>1. CASE unlock_wake(t)
    BY <1>0, <2>1 DEF unlock_wake, BroadcastWriteable
  <2>2. CASE unlock_readers(t)
    BY <1>0, <2>2 DEF unlock_readers, BroadcastReadable, Goto
  <2>3. CASE downgrade_wake(t)
    BY <1>0, <2>3 DEF downgrade_wake, BroadcastReadable
  <2>4. CASE unlock_complete(t) \/ downgrade_complete(t) \/ jump_queue(t)
    BY <1>0, <2>4 DEF unlock_complete, downgrade_complete, jump_queue, Goto
  <2> QED BY <2>1, <2>2, <2>3, <2>4
<1>3. Waiting' = Waiting /\ Ahead' = Ahead
  BY <1>1, <1>2, QueueMaps
<1>4. Readers' = Readers /\ Writer' = Writer
  BY <1>2, HoldersMap
<1> QED BY <1>3, <1>4, Maps

\* A new ticket is behind all others.
LEMMA AskMaps ==
    ASSUME IInv, JInv, NEW t \in Threads, lock_write(t)
    PROVE  Abstract!Next
<1>0. /\ write_requests \in 0 .. Wrap - 1
      /\ \A u \in Threads : ticket[u] \in 0 .. Wrap - 1
  BY DEF IInv, TypeOK
<1>1. /\ write_requests' = Plus(write_requests, 1)
      /\ pc[t] = "free" /\ pc'[t] = "w_turn" /\ ticket'[t] = write_requests
      /\ \A u \in Threads \ {t} : pc'[u] = pc[u] /\ ticket'[u] = ticket[u]
  BY DEF lock_write, Goto, IInv, TypeOK
<1>2. Waits \in Nat /\ Owns \in Nat /\ Waits + Owns < Wrap - 1 /\ Wrap \in Nat
  BY Few, RWLockWrap DEF Waits, Owns, Queued
<1>3. Age(t)' = 1
  BY <1>0, <1>1, Distance DEF Age
<1>4. ASSUME NEW u \in Threads, pc[u] \in QueuedPCs
      PROVE  Age(u)' = Age(u) + 1 /\ Age(u) \in 1 .. Waits /\ u # t
  <2>1. Age(u) \in 1 .. Waits /\ u \in Threads \ {t}
    BY <1>1, <1>4 DEF JInv, Turns, Queued, In, QueuedPCs
  <2>2. Age(u)' = Plus(Plus(write_requests, 1), -ticket[u])
    BY <1>1, <2>1 DEF Age
  <2>3. Age(u) < Wrap - 1
    BY <1>2, <2>1
  <2> QED BY <1>0, <2>1, <2>2, <2>3, Distance DEF Age
<1>5. pc[t] \notin QueuedPCs /\ pc'[t] \in QueuedPCs
  BY <1>1 DEF QueuedPCs
<1>6. Waiting' = Waiting \cup {t}
  BY <1>1, <1>5 DEF Waiting
<1>7. Ahead' = [Ahead EXCEPT ![t] = Waiting]
  <2>1. ASSUME NEW u \in Threads
        PROVE  {v \in Threads : /\ pc'[u] \in QueuedPCs /\ pc'[v] \in QueuedPCs
                                /\ Age(v)' > Age(u)'}
                 = IF u = t THEN Waiting ELSE Ahead[u]
    <3>1. CASE u = t
      BY <1>1, <1>2, <1>3, <1>4, <1>5, <3>1 DEF Waiting
    <3>2. CASE u # t
      BY <1>1, <1>2, <1>3, <1>4, <1>5, <3>2 DEF Ahead
    <3> QED BY <3>1, <3>2
  <2> QED BY <2>1 DEF Ahead
<1>8. /\ t \notin Readers \cup Writer \cup Waiting
      /\ Readers' = Readers /\ Writer' = Writer
  BY <1>1, <1>5, HoldersMap DEF ReadingPCs, FlaggedPCs
<1> QED BY <1>6, <1>7, <1>8, Maps

\* The lock goes to the writer that nobody is ahead of.
LEMMA GrantMaps ==
    ASSUME IInv, JInv, NEW t \in Threads, write_cas(t), pc'[t] = "w_granted"
    PROVE  Abstract!Next
<1>1. /\ write_requests' = write_requests /\ reader_count = 0 /\ ~writer_flag
      /\ pc[t] = "w_cas" /\ \A u \in Threads \ {t} : pc'[u] = pc[u] /\ ticket'[u] = ticket[u]
  BY DEF write_cas, Goto, IInv, TypeOK, counters
<1>2. pc[t] \in QueuedPCs /\ pc'[t] \notin QueuedPCs
  BY <1>1 DEF QueuedPCs
<1>3. Age(t) = Waits /\ Waits \in Nat
  BY <1>1, Few DEF JInv, Turns, HeadPCs, Waits, Queued
<1>4. \A u \in Threads : pc[u] \in QueuedPCs => Age(u) \in 1 .. Waits
  BY DEF JInv, Turns, Queued, In
<1>5. Ahead[t] = {}
  BY <1>3, <1>4 DEF Ahead
<1>6. \A u \in Threads \ {t} : Age(u)' = Age(u)
  BY <1>1 DEF Age
<1>7. Ahead' = [u \in Threads |-> Ahead[u] \ {t}]
  <2>1. ASSUME NEW u \in Threads
        PROVE  {v \in Threads : /\ pc'[u] \in QueuedPCs /\ pc'[v] \in QueuedPCs
                                /\ Age(v)' > Age(u)'}
                 = Ahead[u] \ {t}
    <3>1. CASE u = t
      BY <1>2, <1>5, <3>1
    <3>2. CASE u # t
      BY <1>1, <1>2, <1>6, <3>2 DEF Ahead
    <3> QED BY <3>1, <3>2
  <2> QED BY <2>1 DEF Ahead
<1>8. Waiting' = Waiting \ {t} /\ t \in Waiting
  BY <1>1, <1>2 DEF Waiting
<1>9. Readers = {} /\ Writer = {} /\ Writer' = {t} /\ Readers' = Readers
  BY <1>1, WordMaps, HoldersMap DEF ReadingPCs, FlaggedPCs
<1> QED BY <1>5, <1>7, <1>8, <1>9, Maps

LEMMA NextMaps ==
    ASSUME IInv, JInv, [Next]_vars
    PROVE  [Abstract!Next]_(Abstract!vars)
<1>1. ASSUME NEW t \in Threads, Ask(t) \/ Release(t) \/ Step(t) \/ SpuriousWakeup(t)
      PROVE  Abstract!Next \/ UNCHANGED Abstract!vars
  <2>1. CASE \/ read_test(t) \/ try_read_incr(t) \/ unlock_read(t) \/ unlock_write(t)
             \/ try_write(t) \/ isc_rwlock_tryupgrade(t) \/ downgrade_flag(t)
    BY <2>1, TakesMap
  <2>2. CASE \/ unlock_wake(t) \/ unlock_readers(t) \/ downgrade_wake(t)
             \/ unlock_complete(t) \/ downgrade_complete(t) \/ jump_queue(t)
    BY <2>2, WakesMap
  <2>3. CASE lock_write(t)
    BY <2>3, AskMaps
  <2>4. CASE write_cas(t)
    BY <2>4, GrantMaps, InsideMaps
  <2>5. CASE \/ peek(t) \/ lock_read(t) \/ read_check(t) \/ read_woken(t) \/ read_incr(t)
             \/ read_reset(t) \/ write_grant(t) \/ try_read(t) \/ try_read_check(t)
             \/ isc_rwlock_downgrade(t) \/ SpuriousWakeup(t) \/ read_sleep(t) \/ read_sleep2(t)
             \/ write_turn(t) \/ write_sleep(t) \/ write_sleep2(t)
             \/ try_read_cancel(t) \/ unlock_read_check(t) \/ unlock_writers(t) \/ unlock_prefer(t)
    BY <2>5, InsideMaps
  <2> QED BY <1>1, <2>1, <2>2, <2>3, <2>4, <2>5 DEF Ask, Release, Step
<1>2. CASE UNCHANGED vars
  <2>1. UNCHANGED <<write_requests, pc, ticket>>
    BY <1>2 DEF vars, counters
  <2>2. Waiting' = Waiting /\ Ahead' = Ahead
    BY <2>1, QueueMaps
  <2>3. Readers' = Readers /\ Writer' = Writer
    BY <2>1 DEF Readers, Writer, ReadHeld
  <2> QED BY <2>2, <2>3 DEF Abstract!vars, Waiting, Ahead, Readers, Writer
<1> QED BY <1>1, <1>2 DEF Next

-----------------------------------------------------------------------------
(* The theorems. *)

\* The two invariants hold together.
LEMMA Invariants == Spec => [](IInv /\ JInv)
<1>1. Init => IInv /\ JInv
  BY InitIInv, InitJInv
<1>2. IInv /\ JInv /\ [Next]_vars => (IInv /\ JInv)'
  BY NextIInv, NextJInv
<1> QED
  BY <1>1, <1>2, PTL DEF Spec

\* No wakeup is lost in isc_rwlock_lock(), _unlock(), _downgrade() and a failed
\* _trylock() (rwlock.c), although the counters change outside the mutex: when
\* every thread is outside the lock or asleep in it, none is asleep, and the
\* lock is as isc_rwlock_destroy() requires it.
THEOREM NobodySleepsForever == Spec => []NoSleeperLeft
<1>1. IInv /\ JInv => NoSleeperLeft
  BY JInvWakes
<1> QED
  BY <1>1, Invariants, PTL

\* rwlock.c implements the lock of RWSpec for any number of threads and any
\* width of its counters that exceeds their number: readers share, a writer is
\* alone, and writers that queue are served in the order of their tickets, also
\* when trylock and tryupgrade move write_completions back (rwlock.c:395-402).
THEOREM LockServesInTurn == Spec => ImplementsRWSpec
<1>1. Init => Abstract!Init
  BY InitMaps
<1>2. IInv /\ JInv /\ [Next]_vars => [Abstract!Next]_(Abstract!vars)
  BY NextMaps
<1> QED
  BY <1>1, <1>2, Invariants, PTL DEF Spec, ImplementsRWSpec, Abstract!Spec
=============================================================================
