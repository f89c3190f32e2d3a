----------------------- MODULE ReaderWriterMutexProofs -----------------------
(***************************************************************************)
(* Theorems about ReaderWriterMutex, for any finite set of threads and     *)
(* both classes.                                                           *)
(***************************************************************************)
EXTENDS ReaderWriterMutex, FiniteSetTheorems, TLAPS

Readers        == At({"reading", "wait_upgrade"})
Writers        == At({"writing"})
Upgraders      == At({"wait_upgrade"})
Notifiers      == At({"notify"})
WaitingReaders == At({"wait_read"})
WaitingWriters == At({"wait_readers", "wait_writer"})

\* The counters and flags count threads, and readers exclude the writer.
CountInv ==
  /\ num_readers = Cardinality(Readers)
  /\ Cardinality(Writers) = IF current_writer THEN 1 ELSE 0
  /\ Cardinality(Upgraders) = IF pending_upgrade THEN 1 ELSE 0
  /\ ~reader_first => /\ pending_readers = Cardinality(WaitingReaders)
                      /\ num_pending_writers = Cardinality(WaitingWriters)
  /\ current_writer => num_readers = 0

\* Behind its first loop a writer of ReaderWriterMutex need not look at the readers again:
\* as long as it waits no reader enters.
QueueInv == ~reader_first /\ At({"wait_writer"}) # {} => ~ReadersRemain

\* Where a thread sleeps, and that it does so for a reason.
Justified(t) ==
  /\ sleeps_on[t] = "cv_readers" =>
       \/ pc[t] = "wait_readers" /\ ReadersRemain
       \/ pc[t] = "wait_upgrade" /\ num_readers > 1
  /\ sleeps_on[t] = "cv_writer_finished" =>
       \/ pc[t] = "wait_read"   /\ (ReadBlocked  \/ Notifiers # {})
       \/ pc[t] = "wait_writer" /\ (WriteBlocked \/ Notifiers # {})
WakeInv == \A t \in Threads : Justified(t)

IInv == TypeOK /\ CountInv /\ QueueInv /\ WakeInv
-----------------------------------------------------------------------------
(***************************************************************************)
(* What a step of one thread does to the sets that are counted.            *)
(***************************************************************************)
LEMMA AtFinite ==
  ASSUME NEW P
  PROVE  IsFiniteSet(At(P)) /\ Cardinality(At(P)) \in Nat
<1>1. At(P) \subseteq Threads
  BY DEF At
<1> QED BY <1>1, ThreadsAssumption, FS_Subset, FS_CardinalityType

LEMMA Moved ==
  ASSUME TypeOK, NEW t \in Threads, NEW w, Goto(t, w), NEW P
  PROVE  /\ At(P)' = IF w \in P THEN At(P) \cup {t} ELSE At(P) \ {t}
         /\ Cardinality(At(P))' = Cardinality(At(P)) + (IF w \in P THEN 1 ELSE 0)
                                                     - (IF pc[t] \in P THEN 1 ELSE 0)
<1>1. At(P)' = IF w \in P THEN At(P) \cup {t} ELSE At(P) \ {t}
  BY DEF At, Goto, TypeOK
<1>2. t \in At(P) <=> pc[t] \in P
  BY DEF At
<1>3. Cardinality(At(P) \cup {t}) = IF pc[t] \in P THEN Cardinality(At(P))
                                    ELSE Cardinality(At(P)) + 1
  BY <1>2, AtFinite, FS_AddElement
<1>4. Cardinality(At(P) \ {t}) = IF pc[t] \in P THEN Cardinality(At(P)) - 1
                                 ELSE Cardinality(At(P))
  BY <1>2, AtFinite, FS_RemoveElement
<1>5. Cardinality(At(P)) \in Nat
  BY AtFinite
<1> QED
  <2>1. CASE w \in P
    BY <2>1, <1>1, <1>3, <1>5
  <2>2. CASE w \notin P
    BY <2>2, <1>1, <1>4, <1>5
  <2> QED BY <2>1, <2>2

\* The same for the sets of the invariant.
In(place, places) == IF place \in places THEN 1 ELSE 0
Shift(t, w) ==
  /\ Cardinality(Readers)' = Cardinality(Readers)
       + In(w, {"reading", "wait_upgrade"}) - In(pc[t], {"reading", "wait_upgrade"})
  /\ Cardinality(Writers)' = Cardinality(Writers)
       + In(w, {"writing"}) - In(pc[t], {"writing"})
  /\ Cardinality(Upgraders)' = Cardinality(Upgraders)
       + In(w, {"wait_upgrade"}) - In(pc[t], {"wait_upgrade"})
  /\ Cardinality(WaitingReaders)' = Cardinality(WaitingReaders)
       + In(w, {"wait_read"}) - In(pc[t], {"wait_read"})
  /\ Cardinality(WaitingWriters)' = Cardinality(WaitingWriters)
       + In(w, {"wait_readers", "wait_writer"})
       - In(pc[t], {"wait_readers", "wait_writer"})
LEMMA Counts ==
  ASSUME TypeOK, NEW t \in Threads, NEW w, Goto(t, w)
  PROVE  Shift(t, w)
BY Moved DEF Shift, Readers, Writers, Upgraders, WaitingReaders, WaitingWriters, In

LEMMA Naturals ==
  /\ Cardinality(Readers) \in Nat /\ Cardinality(Writers) \in Nat
  /\ Cardinality(Upgraders) \in Nat /\ Cardinality(WaitingReaders) \in Nat
  /\ Cardinality(WaitingWriters) \in Nat
BY AtFinite DEF Readers, Writers, Upgraders, WaitingReaders, WaitingWriters

\* A set that counts a thread is not empty.
LEMMA Counted ==
  ASSUME NEW t \in Threads, NEW P, pc[t] \in P
  PROVE  Cardinality(At(P)) >= 1
<1>1. t \in At(P)
  BY DEF At
<1>2. At(P) # {} /\ IsFiniteSet(At(P)) /\ Cardinality(At(P)) \in Nat
  BY <1>1, AtFinite
<1>3. Cardinality(At(P)) # 0
  BY <1>2, FS_EmptySet
<1> QED BY <1>2, <1>3
-----------------------------------------------------------------------------
(***************************************************************************)
(* The initial states.                                                     *)
(***************************************************************************)
LEMMA InitIInv == Init => IInv
<1> SUFFICES ASSUME Init PROVE IInv
  OBVIOUS
<1>1. TypeOK
  BY DEF Init, TypeOK, Pc, Waiting
<1>2. /\ Readers = {} /\ Writers = {} /\ Upgraders = {} /\ WaitingReaders = {}
      /\ WaitingWriters = {} /\ At({"wait_writer"}) = {}
  BY DEF Init, At, Readers, Writers, Upgraders, WaitingReaders, WaitingWriters
<1>3. CountInv
  BY <1>2, FS_EmptySet DEF Init, CountInv
<1>4. QueueInv
  BY <1>2 DEF QueueInv
<1>5. WakeInv
  BY DEF Init, WakeInv, Justified
<1> QED BY <1>1, <1>3, <1>4, <1>5 DEF IInv
-----------------------------------------------------------------------------
(***************************************************************************)
(* The counters stay exact.                                                *)
(***************************************************************************)
\* A waiting writer that gets past both loops finds no readers.
LEMMA WriterPasses ==
  ASSUME IInv, NEW t \in Threads, ResumeWriteLock(t)
  PROVE  LET pending == Pending(num_pending_writers, -1)
         IN  \/ TakeWriteLock(t, pending) /\ num_readers = 0 /\ ~WriteBlocked
             \/ WaitForWriter(t, pending) /\ WriteBlocked
             \/ WaitForReaders(t, pending) /\ ReadersRemain
<1> DEFINE pending == Pending(num_pending_writers, -1)
<1>1. ASSUME ~ReadersRemain, ~WriteBlocked
      PROVE  num_readers = 0
  BY <1>1 DEF IInv, TypeOK, ReadersRemain, WriteBlocked
<1>2. CASE Awake(t, "wait_readers") /\ PassReaders(t, pending)
  BY <1>1, <1>2 DEF PassReaders
<1>3. CASE Awake(t, "wait_writer") /\ PassWriter(t, pending)
  <2>1. ~reader_first => ~ReadersRemain
    BY <1>3 DEF IInv, QueueInv, Awake, At
  <2> QED BY <1>1, <1>3, <2>1 DEF PassWriter, PassReaders
<1> QED BY <1>2, <1>3 DEF ResumeWriteLock

LEMMA CountAcquire ==
  ASSUME IInv, NEW t \in Threads, Acquire(t)
  PROVE  CountInv'
<1> USE DEF CountInv, In, flags, counters
<1>0. TypeOK /\ CountInv /\ UNCHANGED reader_first
  BY DEF IInv, Acquire
<1>1. CASE AcquireReadLock(t)
  <2>1. CASE ReadBlocked
    <3>1. Shift(t, "wait_read") /\ pc[t] = "idle"
      BY <1>0, <1>1, <2>1, Counts DEF AcquireReadLock, Sleep
    <3> QED BY <1>0, <1>1, <2>1, <3>1, Naturals DEF AcquireReadLock, Pending, Shift
  <2>2. CASE ~ReadBlocked
    <3>1. Shift(t, "reading") /\ pc[t] = "idle"
      BY <1>0, <1>1, <2>2, Counts DEF AcquireReadLock
    <3> QED BY <1>0, <1>1, <2>2, <3>1, Naturals DEF AcquireReadLock, ReadBlocked, Shift
  <2> QED BY <2>1, <2>2
<1>2. CASE AcquireWriteLock(t)
  <2>0. pc[t] = "idle" /\ UNCHANGED <<pending_readers, num_readers, pending_upgrade>>
    BY <1>2 DEF AcquireWriteLock
  <2>1. CASE TakeWriteLock(t, num_pending_writers) /\ ~ReadersRemain /\ ~WriteBlocked
    <3>1. Shift(t, "writing")
      BY <1>0, <2>1, Counts DEF TakeWriteLock
    <3>2. ~current_writer /\ ~pending_upgrade /\ num_readers = 0
      BY <1>0, <2>1, Naturals DEF ReadersRemain, WriteBlocked
    <3> QED BY <1>0, <2>0, <2>1, <3>1, <3>2, Naturals DEF TakeWriteLock, Shift
  <2>2. CASE WaitForWriter(t, num_pending_writers)
    <3>1. Shift(t, "wait_writer")
      BY <1>0, <2>2, Counts DEF WaitForWriter, Sleep
    <3> QED BY <1>0, <2>0, <2>2, <3>1, Naturals DEF WaitForWriter, Pending, Shift
  <2>3. CASE WaitForReaders(t, num_pending_writers)
    <3>1. Shift(t, "wait_readers")
      BY <1>0, <2>3, Counts DEF WaitForReaders, Sleep
    <3> QED BY <1>0, <2>0, <2>3, <3>1, Naturals DEF WaitForReaders, Pending, Shift
  <2> QED BY <1>2, <2>1, <2>2, <2>3 DEF AcquireWriteLock, PassReaders
<1>3. CASE UpgradeToWriteLock(t)
  <2>0. /\ pc[t] = "reading" /\ num_readers >= 1 /\ ~current_writer
        /\ UNCHANGED <<pending_readers, num_pending_writers>>
    BY <1>0, <1>3, Counted, Naturals DEF UpgradeToWriteLock, Readers
  <2>1. CASE FailUpgrade(t)
    <3>1. Shift(t, "idle")
      BY <1>0, <2>1, Counts DEF FailUpgrade
    <3> QED BY <1>0, <2>0, <2>1, <3>1, Naturals DEF FailUpgrade, Shift
  <2>2. CASE ~pending_upgrade /\ num_readers > 1 /\ WaitToUpgrade(t)
    <3>1. Shift(t, "wait_upgrade")
      BY <1>0, <2>2, Counts DEF WaitToUpgrade, Sleep
    <3> QED BY <1>0, <2>0, <2>2, <3>1, Naturals DEF WaitToUpgrade, Shift
  <2>3. CASE ~pending_upgrade /\ num_readers <= 1 /\ FinishUpgrade(t)
    <3>1. Shift(t, "writing")
      BY <1>0, <2>3, Counts DEF FinishUpgrade
    <3> QED BY <1>0, <2>0, <2>3, <3>1, Naturals DEF FinishUpgrade, Shift
  <2> QED BY <1>3, <2>1, <2>2, <2>3 DEF UpgradeToWriteLock
<1> QED BY <1>1, <1>2, <1>3 DEF Acquire

LEMMA CountResume ==
  ASSUME IInv, NEW t \in Threads, Resume(t)
  PROVE  CountInv'
<1> USE DEF CountInv, In, flags, counters
<1>0. TypeOK /\ CountInv /\ UNCHANGED reader_first
  BY DEF IInv, Resume
<1>1. CASE ResumeReadLock(t)
  <2>1. CASE ReadBlocked
    <3>1. Shift(t, "wait_read") /\ pc[t] = "wait_read"
      BY <1>0, <1>1, <2>1, Counts DEF ResumeReadLock, Awake, Sleep
    <3> QED BY <1>0, <1>1, <2>1, <3>1, Naturals DEF ResumeReadLock, Shift
  <2>2. CASE ~ReadBlocked
    <3>1. Shift(t, "reading") /\ pc[t] = "wait_read"
      BY <1>0, <1>1, <2>2, Counts DEF ResumeReadLock, Awake
    <3> QED BY <1>0, <1>1, <2>2, <3>1, Naturals
            DEF ResumeReadLock, ReadBlocked, Pending, Shift
  <2> QED BY <2>1, <2>2
<1>2. CASE ResumeWriteLock(t)
  <2> DEFINE pending == Pending(num_pending_writers, -1)
  <2>0. /\ pc[t] \in {"wait_readers", "wait_writer"}
        /\ UNCHANGED <<pending_readers, num_readers, pending_upgrade>>
    BY <1>2 DEF ResumeWriteLock, Awake
  <2>1. \/ TakeWriteLock(t, pending) /\ num_readers = 0 /\ ~WriteBlocked
        \/ WaitForWriter(t, pending)
        \/ WaitForReaders(t, pending)
    BY <1>2, WriterPasses DEF IInv
  <2>2. CASE TakeWriteLock(t, pending) /\ num_readers = 0 /\ ~WriteBlocked
    <3>1. Shift(t, "writing")
      BY <1>0, <2>2, Counts DEF TakeWriteLock
    <3>2. /\ ~current_writer /\ current_writer' /\ num_readers' = 0
          /\ ~reader_first => num_pending_writers' = num_pending_writers - 1
      BY <1>0, <2>0, <2>2, Naturals DEF TakeWriteLock, WriteBlocked, Pending
    <3> QED BY <1>0, <2>0, <3>1, <3>2, Naturals DEF Shift
  <2>3. CASE WaitForWriter(t, pending)
    <3>1. Shift(t, "wait_writer")
      BY <1>0, <2>3, Counts DEF WaitForWriter, Sleep
    <3> QED BY <1>0, <2>0, <2>3, <3>1, Naturals DEF WaitForWriter, Pending, Shift
  <2>4. CASE WaitForReaders(t, pending)
    <3>1. Shift(t, "wait_readers")
      BY <1>0, <2>4, Counts DEF WaitForReaders, Sleep
    <3> QED BY <1>0, <2>0, <2>4, <3>1, Naturals DEF WaitForReaders, Pending, Shift
  <2> QED BY <2>1, <2>2, <2>3, <2>4
<1>3. CASE ResumeUpgrade(t)
  <2>0. /\ pc[t] = "wait_upgrade" /\ num_readers >= 1 /\ ~current_writer /\ pending_upgrade
        /\ UNCHANGED <<pending_readers, num_pending_writers>>
    <3>1. pc[t] = "wait_upgrade"
      BY <1>3 DEF ResumeUpgrade, Awake
    <3>2. Cardinality(Readers) >= 1 /\ Cardinality(Upgraders) >= 1
      BY <3>1, Counted DEF Readers, Upgraders
    <3> QED BY <1>0, <1>3, <3>1, <3>2, Naturals DEF ResumeUpgrade
  <2>1. CASE num_readers > 1
    <3>1. Shift(t, "wait_upgrade")
      BY <1>0, <1>3, <2>1, Counts DEF ResumeUpgrade, Sleep
    <3> QED BY <1>0, <1>3, <2>0, <2>1, <3>1, Naturals DEF ResumeUpgrade, Shift
  <2>2. CASE ~(num_readers > 1)
    <3>1. Shift(t, "writing") /\ FinishUpgrade(t)
      BY <1>0, <1>3, <2>2, Counts DEF ResumeUpgrade, FinishUpgrade
    <3>2. num_readers = 1
      BY <1>0, <2>0, <2>2, Naturals
    <3>3. num_readers' = 0 /\ ~pending_upgrade' /\ current_writer'
      BY <3>1, <3>2 DEF FinishUpgrade
    <3> QED BY <1>0, <2>0, <3>1, <3>2, <3>3, Naturals DEF Shift
  <2> QED BY <2>1, <2>2
<1> QED BY <1>1, <1>2, <1>3 DEF Resume

LEMMA CountRelease ==
  ASSUME IInv, NEW t \in Threads, Release(t)
  PROVE  CountInv'
<1> USE DEF CountInv, In, flags, counters
<1>0. TypeOK /\ CountInv /\ UNCHANGED reader_first
  BY DEF IInv, Release
<1>1. CASE ReleaseReadLock(t)
  <2>1. Shift(t, "idle") /\ pc[t] = "reading"
    BY <1>0, <1>1, Counts DEF ReleaseReadLock
  <2>2. num_readers >= 1
    BY <1>0, <2>1, Counted, Naturals DEF Readers
  <2> QED BY <1>0, <1>1, <2>1, <2>2, Naturals DEF ReleaseReadLock, Shift
<1>2. CASE ReleaseWriteLock(t)
  <2>1. Shift(t, "notify") /\ pc[t] = "writing"
    BY <1>0, <1>2, Counts DEF ReleaseWriteLock
  <2>2. Cardinality(Writers) >= 1
    BY <2>1, Counted DEF Writers
  <2> QED BY <1>0, <1>2, <2>1, <2>2, Naturals DEF ReleaseWriteLock, Shift
<1>3. CASE NotifyWriterFinished(t)
  <2>1. Shift(t, "idle") /\ pc[t] = "notify"
    BY <1>0, <1>3, Counts DEF NotifyWriterFinished
  <2> QED BY <1>0, <1>3, <2>1, Naturals DEF NotifyWriterFinished, Shift
<1> QED BY <1>1, <1>2, <1>3 DEF Release

LEMMA CountStep ==
  ASSUME IInv, [Next]_vars
  PROVE  CountInv'
<1>1. ASSUME NEW t \in Threads, SpuriousWakeup(t)
      PROVE  CountInv'
  BY <1>1 DEF IInv, SpuriousWakeup, CountInv, counters, flags, At, Readers, Writers, Upgraders,
              WaitingReaders, WaitingWriters
<1>2. CASE UNCHANGED vars
  BY <1>2 DEF IInv, vars, CountInv, counters, flags, At, Readers, Writers, Upgraders,
              WaitingReaders, WaitingWriters
<1> QED BY <1>1, <1>2, CountAcquire, CountResume, CountRelease DEF Next
-----------------------------------------------------------------------------
(***************************************************************************)
(* The types.                                                              *)
(***************************************************************************)
LEMMA NaturalsNext ==
  /\ Cardinality(Readers)' \in Nat
  /\ Cardinality(WaitingReaders)' \in Nat
  /\ Cardinality(WaitingWriters)' \in Nat
<1>1. Readers' \subseteq Threads /\ WaitingReaders' \subseteq Threads
      /\ WaitingWriters' \subseteq Threads
  BY DEF Readers, WaitingReaders, WaitingWriters, At
<1> QED BY <1>1, ThreadsAssumption, FS_Subset, FS_CardinalityType

LEMMA TypeStep ==
  ASSUME IInv, [Next]_vars, CountInv'
  PROVE  TypeOK'
<1> USE DEF TypeOK, flags, counters
<1>0. TypeOK /\ num_readers' \in Nat
      /\ (~reader_first' => pending_readers' \in Nat /\ num_pending_writers' \in Nat)
  BY NaturalsNext DEF IInv, CountInv
<1>1. ASSUME NEW t \in Threads, NEW w \in Pc, Goto(t, w)
      PROVE  pc' \in [Threads -> Pc]
  BY <1>0, <1>1 DEF Goto
<1>2. ASSUME NEW t \in Threads, Acquire(t)
      PROVE  TypeOK'
  <2>1. CASE AcquireReadLock(t)
    BY <1>0, <1>1, <1>2, <2>1 DEF Acquire, AcquireReadLock, Sleep, Pending, Pc, Waiting
  <2>2. CASE AcquireWriteLock(t)
    BY <1>0, <1>1, <1>2, <2>2
       DEF Acquire, AcquireWriteLock, PassReaders, WaitForReaders, WaitForWriter,
           TakeWriteLock, Sleep, Pending, Pc, Waiting
  <2>3. CASE UpgradeToWriteLock(t)
    BY <1>0, <1>1, <1>2, <2>3
       DEF Acquire, UpgradeToWriteLock, FailUpgrade, WaitToUpgrade, FinishUpgrade,
           NotifyAll, Sleep, Pc, Waiting
  <2> QED BY <1>2, <2>1, <2>2, <2>3 DEF Acquire
<1>3. ASSUME NEW t \in Threads, Resume(t)
      PROVE  TypeOK'
  <2>1. CASE ResumeReadLock(t)
    BY <1>0, <1>1, <1>3, <2>1 DEF Resume, ResumeReadLock, Sleep, Pending, Pc, Waiting
  <2>2. CASE ResumeWriteLock(t)
    BY <1>0, <1>1, <1>3, <2>2, WriterPasses
       DEF Resume, ResumeWriteLock, WaitForReaders, WaitForWriter,
           TakeWriteLock, Sleep, Pending, Pc, Waiting
  <2>3. CASE ResumeUpgrade(t)
    BY <1>0, <1>1, <1>3, <2>3
       DEF Resume, ResumeUpgrade, FinishUpgrade, NotifyAll, Sleep, Pc, Waiting
  <2> QED BY <1>3, <2>1, <2>2, <2>3 DEF Resume
<1>4. ASSUME NEW t \in Threads, Release(t)
      PROVE  TypeOK'
  BY <1>0, <1>1, <1>4 DEF Release, ReleaseReadLock, ReleaseWriteLock, NotifyWriterFinished,
                          NotifyAll, Pc, Waiting
<1>5. ASSUME NEW t \in Threads, SpuriousWakeup(t)
      PROVE  TypeOK'
  BY <1>0, <1>5 DEF SpuriousWakeup
<1>6. CASE UNCHANGED vars
  BY <1>0, <1>6 DEF vars
<1> QED BY <1>2, <1>3, <1>4, <1>5, <1>6 DEF Next
-----------------------------------------------------------------------------
(***************************************************************************)
(* No reader overtakes a writer behind its first loop.                     *)
(***************************************************************************)
LEMMA QueueStep ==
  ASSUME IInv, [Next]_vars
  PROVE  QueueInv'
<1> SUFFICES ASSUME ~reader_first', NEW u \in Threads, pc'[u] = "wait_writer"
             PROVE  ~ReadersRemain'
  BY DEF QueueInv, At
<1> USE DEF flags, counters
<1>0. TypeOK /\ CountInv /\ ~reader_first
  BY DEF IInv, Next, Acquire, Resume, Release, SpuriousWakeup, vars
<1>1. pc[u] = "wait_writer" => ~ReadersRemain /\ num_pending_writers # 0
  <2>1. pc[u] = "wait_writer" => ~ReadersRemain
    BY <1>0 DEF IInv, QueueInv, At
  <2>2. pc[u] = "wait_writer" => Cardinality(WaitingWriters) >= 1
    BY Counted DEF WaitingWriters
  <2> QED BY <1>0, <2>1, <2>2, Naturals DEF CountInv
<1>2. ASSUME NEW t \in Threads, NEW w, Goto(t, w), w # "wait_writer"
      PROVE  pc[u] = "wait_writer"
  BY <1>0, <1>2 DEF Goto, TypeOK
<1>3. ASSUME NEW t \in Threads, Acquire(t)
      PROVE  ~ReadersRemain'
  <2>1. CASE AcquireReadLock(t)
    <3>1. pc[u] = "wait_writer"
      BY <1>2, <2>1 DEF AcquireReadLock, Sleep
    <3>2. ReadBlocked
      BY <1>0, <1>1, <3>1 DEF ReadBlocked
    <3> QED BY <1>1, <2>1, <3>1, <3>2 DEF AcquireReadLock, ReadersRemain
  <2>2. CASE AcquireWriteLock(t)
    <3>1. num_readers' = num_readers /\ pending_upgrade' = pending_upgrade
      BY <2>2 DEF AcquireWriteLock
    <3>2. ~ReadersRemain \/ pc[u] = "wait_writer"
      BY <1>2, <2>2 DEF AcquireWriteLock, PassReaders, WaitForReaders, Sleep
    <3> QED BY <1>1, <3>1, <3>2 DEF ReadersRemain
  <2>3. CASE UpgradeToWriteLock(t)
    <3>1. pc[u] = "wait_writer"
      BY <1>2, <2>3 DEF UpgradeToWriteLock, FailUpgrade, WaitToUpgrade, FinishUpgrade, Sleep
    <3>2. ~ReadersRemain
      BY <1>1, <3>1
    <3> QED BY <1>0, <2>3, <3>2 DEF TypeOK, UpgradeToWriteLock, FailUpgrade, WaitToUpgrade,
                                    FinishUpgrade, ReadersRemain
  <2> QED BY <1>3, <2>1, <2>2, <2>3 DEF Acquire
<1>4. ASSUME NEW t \in Threads, Resume(t)
      PROVE  ~ReadersRemain'
  <2>1. CASE ResumeReadLock(t)
    <3>1. pc[u] = "wait_writer"
      BY <1>2, <2>1 DEF ResumeReadLock, Sleep
    <3>2. ReadBlocked
      BY <1>0, <1>1, <3>1 DEF ReadBlocked
    <3> QED BY <1>1, <2>1, <3>1, <3>2 DEF ResumeReadLock, ReadersRemain
  <2>2. CASE ResumeWriteLock(t)
    <3>1. num_readers' = num_readers /\ pending_upgrade' = pending_upgrade
      BY <2>2 DEF ResumeWriteLock
    <3>2. ~ReadersRemain \/ pc[u] = "wait_writer"
      <4>1. CASE u = t
        <5>1. Awake(t, "wait_readers") /\ pc[u] # "wait_writer" => ~ReadersRemain
          BY <1>0, <2>2, <4>1
             DEF ResumeWriteLock, Awake, PassReaders, WaitForReaders, Sleep, Goto, TypeOK
        <5> QED BY <2>2, <4>1, <5>1 DEF ResumeWriteLock, Awake
      <4>2. CASE u # t
        BY <1>0, <2>2, <4>2, WriterPasses
           DEF WaitForReaders, WaitForWriter, TakeWriteLock, Sleep, Goto, TypeOK
      <4> QED BY <4>1, <4>2
    <3> QED BY <1>1, <3>1, <3>2 DEF ReadersRemain
  <2>3. CASE ResumeUpgrade(t)
    <3>1. pc[u] = "wait_writer"
      BY <1>2, <2>3 DEF ResumeUpgrade, FinishUpgrade, Sleep
    <3>2. ~ReadersRemain
      BY <1>1, <3>1
    <3> QED BY <1>0, <2>3, <3>2 DEF TypeOK, ResumeUpgrade, FinishUpgrade, ReadersRemain
  <2> QED BY <1>4, <2>1, <2>2, <2>3 DEF Resume
<1>5. ASSUME NEW t \in Threads, Release(t)
      PROVE  ~ReadersRemain'
  <2>1. pc[u] = "wait_writer"
    BY <1>2, <1>5 DEF Release, ReleaseReadLock, ReleaseWriteLock, NotifyWriterFinished
  <2>2. ~ReadersRemain
    BY <1>1, <2>1
  <2> QED BY <1>0, <1>5, <2>2 DEF TypeOK, Release, ReleaseReadLock, ReleaseWriteLock,
                                  NotifyWriterFinished, ReadersRemain
<1>6. ASSUME NEW t \in Threads, SpuriousWakeup(t)
      PROVE  ~ReadersRemain'
  BY <1>1, <1>6 DEF SpuriousWakeup, ReadersRemain
<1>7. CASE UNCHANGED vars
  BY <1>1, <1>7 DEF vars, ReadersRemain
<1> QED BY <1>3, <1>4, <1>5, <1>6, <1>7 DEF Next
-----------------------------------------------------------------------------
(***************************************************************************)
(* No sleeper is forgotten.                                                *)
(***************************************************************************)
LEMMA NotifiersStay ==
  ASSUME TypeOK, NEW t \in Threads, NEW w, Goto(t, w), pc[t] # "notify"
  PROVE  Notifiers # {} => Notifiers' # {}
BY Moved DEF Notifiers, At

\* A thread goes to sleep, and changes nothing the others wait for.
LEMMA WakeSleep ==
  ASSUME IInv, NEW t \in Threads, pc[t] # "notify",
         \/ Sleep(t, "cv_writer_finished", "wait_read") /\ ReadBlocked
         \/ Sleep(t, "cv_writer_finished", "wait_writer") /\ WriteBlocked
         \/ Sleep(t, "cv_readers", "wait_readers") /\ ReadersRemain
         \/ Sleep(t, "cv_readers", "wait_upgrade") /\ num_readers > 1,
         UNCHANGED <<reader_first, current_writer, num_readers>>,
         ~reader_first /\ num_pending_writers # 0 => num_pending_writers' # 0,
         pending_upgrade => pending_upgrade',
         ReadersRemain => ReadersRemain'
  PROVE  WakeInv'
<1> SUFFICES ASSUME NEW u \in Threads PROVE Justified(u)'
  BY DEF WakeInv
<1> USE DEF TypeOK
<1>1. TypeOK /\ Justified(u) /\ (Notifiers # {} => Notifiers' # {})
  BY NotifiersStay DEF IInv, WakeInv, Sleep
<1>2. (ReadBlocked => ReadBlocked') /\ (WriteBlocked => WriteBlocked')
  BY <1>1 DEF ReadBlocked, WriteBlocked
<1>3. CASE u = t
  BY <1>1, <1>2, <1>3 DEF Justified, Sleep, Goto
<1>4. CASE u # t
  BY <1>1, <1>2, <1>4 DEF Justified, Sleep, Goto
<1> QED BY <1>3, <1>4

\* A thread goes on that is awake, and leaves the sleepers alone.
LEMMA WakeGo ==
  ASSUME IInv, NEW t \in Threads, NEW w, Goto(t, w), pc[t] # "notify",
         sleeps_on[t] = "none", UNCHANGED sleeps_on,
         ReadersRemain => ReadersRemain',
         pending_upgrade /\ num_readers > 1 => num_readers' > 1,
         ReadBlocked \/ Notifiers # {} => ReadBlocked' \/ Notifiers' # {},
         WriteBlocked \/ Notifiers # {} => WriteBlocked' \/ Notifiers' # {}
  PROVE  WakeInv'
<1> SUFFICES ASSUME NEW u \in Threads PROVE Justified(u)'
  BY DEF WakeInv
<1>1. TypeOK /\ Justified(u)
  BY DEF IInv, WakeInv
<1>2. CASE u = t
  BY <1>2 DEF Justified
<1>3. CASE u # t
  <2>1. pc[u] = "wait_upgrade" => pending_upgrade
    BY Counted DEF IInv, CountInv, Upgraders
  <2> QED BY <1>1, <1>3, <2>1 DEF Justified, Goto, TypeOK
<1> QED BY <1>2, <1>3

\* All threads that sleep on one of the condition variables wake up.
LEMMA WakeReaders ==
  ASSUME IInv, NEW t \in Threads, NEW w, Goto(t, w), sleeps_on[t] = "none",
         NotifyAll("cv_readers"),
         ReadBlocked \/ Notifiers # {} => ReadBlocked' \/ Notifiers' # {},
         WriteBlocked \/ Notifiers # {} => WriteBlocked' \/ Notifiers' # {}
  PROVE  WakeInv'
<1> SUFFICES ASSUME NEW u \in Threads PROVE Justified(u)'
  BY DEF WakeInv
<1>1. TypeOK /\ Justified(u)
  BY DEF IInv, WakeInv
<1>2. sleeps_on'[u] = IF sleeps_on[u] = "cv_readers" THEN "none" ELSE sleeps_on[u]
  BY DEF NotifyAll
<1>3. CASE u = t
  BY <1>2, <1>3 DEF Justified
<1>4. CASE u # t
  BY <1>1, <1>2, <1>4 DEF Justified, Goto, TypeOK
<1> QED BY <1>3, <1>4

LEMMA WakeAfterWriter ==
  ASSUME IInv, NEW t \in Threads, NotifyWriterFinished(t)
  PROVE  WakeInv'
<1> SUFFICES ASSUME NEW u \in Threads PROVE Justified(u)'
  BY DEF WakeInv
<1>1. TypeOK /\ Justified(u) /\ Justified(t)
  BY DEF IInv, WakeInv
<1>2. sleeps_on'[u] = IF sleeps_on[u] = "cv_writer_finished" THEN "none" ELSE sleeps_on[u]
  BY DEF NotifyWriterFinished, NotifyAll
<1>3. sleeps_on'[u] # "cv_writer_finished"
  BY <1>2
<1>4. sleeps_on'[u] = "cv_readers" => pc'[u] = pc[u] /\ sleeps_on[u] = "cv_readers"
  BY <1>1, <1>2 DEF Justified, NotifyWriterFinished, Goto, TypeOK
<1>5. UNCHANGED <<num_readers, pending_upgrade>>
  BY DEF NotifyWriterFinished, counters, flags
<1> QED BY <1>1, <1>3, <1>4, <1>5 DEF Justified, ReadersRemain

LEMMA WakeStep ==
  ASSUME IInv, [Next]_vars
  PROVE  WakeInv'
<1> USE DEF flags, counters
<1>0. TypeOK /\ CountInv /\ WakeInv
  BY DEF IInv
<1>1. ASSUME NEW t \in Threads, pc[t] \notin Waiting
      PROVE  sleeps_on[t] = "none"
  BY <1>0, <1>1 DEF WakeInv, Justified, Waiting, TypeOK
<1>2. ASSUME NEW t \in Threads, FinishUpgrade(t), num_readers = 1, sleeps_on[t] = "none"
      PROVE  WakeInv'
  <2>1. Goto(t, "writing") /\ NotifyAll("cv_readers") /\ current_writer'
    BY <1>2 DEF FinishUpgrade
  <2> QED BY <1>2, <2>1, WakeReaders DEF ReadBlocked, WriteBlocked
<1>3. ASSUME NEW t \in Threads, Acquire(t)
      PROVE  WakeInv'
  <2>1. CASE AcquireReadLock(t)
    <3>1. pc[t] = "idle" /\ sleeps_on[t] = "none" /\ UNCHANGED reader_first
      BY <1>1, <1>3, <2>1 DEF Acquire, AcquireReadLock, Waiting
    <3>2. CASE ReadBlocked
      <4>1. Sleep(t, "cv_writer_finished", "wait_read") /\ UNCHANGED num_readers
            /\ UNCHANGED <<num_pending_writers, current_writer, pending_upgrade>>
        BY <2>1, <3>2 DEF AcquireReadLock
      <4> QED BY <3>1, <3>2, <4>1, WakeSleep DEF ReadersRemain
    <3>3. CASE ~ReadBlocked
      <4>1. /\ Goto(t, "reading") /\ UNCHANGED sleeps_on /\ num_readers' = num_readers + 1
            /\ UNCHANGED <<num_pending_writers, current_writer, pending_upgrade>>
        BY <2>1, <3>3 DEF AcquireReadLock
      <4>2. Notifiers # {} => Notifiers' # {}
        BY <1>0, <3>1, <4>1, NotifiersStay
      <4> QED BY <1>0, <3>1, <4>1, <4>2, WakeGo
              DEF TypeOK, ReadersRemain, ReadBlocked, WriteBlocked
    <3> QED BY <3>2, <3>3
  <2>2. CASE AcquireWriteLock(t)
    <3>1. /\ pc[t] = "idle" /\ sleeps_on[t] = "none"
          /\ UNCHANGED <<reader_first, num_readers, pending_upgrade>>
      BY <1>1, <1>3, <2>2 DEF Acquire, AcquireWriteLock, Waiting
    <3>2. CASE TakeWriteLock(t, num_pending_writers)
      <4>1. Goto(t, "writing") /\ UNCHANGED sleeps_on /\ current_writer'
        BY <3>2 DEF TakeWriteLock
      <4> QED BY <3>1, <4>1, WakeGo DEF ReadersRemain, ReadBlocked, WriteBlocked
    <3>3. ASSUME num_pending_writers' = Pending(num_pending_writers, 1), ~reader_first
          PROVE  num_pending_writers' # 0
      BY <1>0, <3>3 DEF TypeOK, Pending
    <3>4. CASE WaitForWriter(t, num_pending_writers) /\ WriteBlocked
      BY <3>1, <3>3, <3>4, WakeSleep DEF WaitForWriter, ReadersRemain
    <3>5. CASE WaitForReaders(t, num_pending_writers) /\ ReadersRemain
      BY <3>1, <3>3, <3>5, WakeSleep DEF WaitForReaders, ReadersRemain
    <3> QED BY <2>2, <3>2, <3>4, <3>5 DEF AcquireWriteLock, PassReaders
  <2>3. CASE UpgradeToWriteLock(t)
    <3>1. /\ pc[t] = "reading" /\ sleeps_on[t] = "none" /\ num_readers >= 1
          /\ UNCHANGED <<reader_first, num_pending_writers>>
      BY <1>0, <1>1, <1>3, <2>3, Counted, Naturals
         DEF Acquire, UpgradeToWriteLock, Waiting, CountInv, Readers
    <3>2. CASE pending_upgrade /\ FailUpgrade(t)
      <4>1. /\ Goto(t, "idle") /\ num_readers' = num_readers - 1
            /\ UNCHANGED <<current_writer, pending_upgrade>>
        BY <3>2 DEF FailUpgrade
      <4>2. Notifiers # {} => Notifiers' # {}
        BY <1>0, <3>1, <4>1, NotifiersStay
      <4>3. CASE LastUpgradeFails
        BY <3>1, <3>2, <4>1, <4>2, <4>3, WakeReaders DEF FailUpgrade, ReadBlocked, WriteBlocked
      <4>4. CASE ~LastUpgradeFails
        <5>1. UNCHANGED sleeps_on /\ (num_readers > 1 => num_readers' > 1)
          BY <1>0, <3>2, <4>1, <4>4 DEF FailUpgrade, LastUpgradeFails, TypeOK
        <5> QED BY <3>1, <3>2, <4>1, <4>2, <5>1, WakeGo
                DEF ReadersRemain, ReadBlocked, WriteBlocked
      <4> QED BY <4>3, <4>4
    <3>3. CASE num_readers > 1 /\ WaitToUpgrade(t)
      BY <3>1, <3>3, WakeSleep DEF WaitToUpgrade, ReadersRemain
    <3>4. CASE num_readers <= 1 /\ FinishUpgrade(t)
      BY <1>0, <1>2, <3>1, <3>4 DEF TypeOK
    <3> QED BY <2>3, <3>2, <3>3, <3>4 DEF UpgradeToWriteLock
  <2> QED BY <1>3, <2>1, <2>2, <2>3 DEF Acquire
<1>4. ASSUME NEW t \in Threads, Resume(t)
      PROVE  WakeInv'
  <2>1. CASE ResumeReadLock(t)
    <3>1. pc[t] = "wait_read" /\ sleeps_on[t] = "none" /\ UNCHANGED reader_first
      BY <1>4, <2>1 DEF Resume, ResumeReadLock, Awake
    <3>2. CASE ReadBlocked
      <4>1. Sleep(t, "cv_writer_finished", "wait_read") /\ UNCHANGED num_readers
            /\ UNCHANGED <<num_pending_writers, current_writer, pending_upgrade>>
        BY <2>1, <3>2 DEF ResumeReadLock
      <4> QED BY <3>1, <3>2, <4>1, WakeSleep DEF ReadersRemain
    <3>3. CASE ~ReadBlocked
      <4>1. /\ Goto(t, "reading") /\ UNCHANGED sleeps_on /\ num_readers' = num_readers + 1
            /\ UNCHANGED <<num_pending_writers, current_writer, pending_upgrade>>
        BY <2>1, <3>3 DEF ResumeReadLock
      <4>2. Notifiers # {} => Notifiers' # {}
        BY <1>0, <3>1, <4>1, NotifiersStay
      <4> QED BY <1>0, <3>1, <4>1, <4>2, WakeGo
              DEF TypeOK, ReadersRemain, ReadBlocked, WriteBlocked
    <3> QED BY <3>2, <3>3
  <2>2. CASE ResumeWriteLock(t)
    <3> DEFINE pending == Pending(num_pending_writers, -1)
    <3>1. /\ pc[t] \in {"wait_readers", "wait_writer"} /\ sleeps_on[t] = "none"
          /\ UNCHANGED <<reader_first, num_readers, pending_upgrade>>
      BY <1>4, <2>2 DEF Resume, ResumeWriteLock, Awake
    <3>2. CASE TakeWriteLock(t, pending)
      <4>1. Goto(t, "writing") /\ UNCHANGED sleeps_on /\ current_writer'
        BY <3>2 DEF TakeWriteLock
      <4> QED BY <3>1, <4>1, WakeGo DEF ReadersRemain, ReadBlocked, WriteBlocked
    <3>3. Pending(pending, 1) = num_pending_writers
      BY <1>0 DEF TypeOK, Pending
    <3>4. CASE WaitForWriter(t, pending) /\ WriteBlocked
      BY <3>1, <3>3, <3>4, WakeSleep DEF WaitForWriter, ReadersRemain
    <3>5. CASE WaitForReaders(t, pending) /\ ReadersRemain
      BY <3>1, <3>3, <3>5, WakeSleep DEF WaitForReaders, ReadersRemain
    <3> QED BY <2>2, <3>2, <3>4, <3>5, WriterPasses
  <2>3. CASE ResumeUpgrade(t)
    <3>1. /\ pc[t] = "wait_upgrade" /\ sleeps_on[t] = "none"
          /\ UNCHANGED <<reader_first, num_pending_writers>>
      BY <1>4, <2>3 DEF Resume, ResumeUpgrade, Awake
    <3>2. CASE num_readers > 1
      BY <2>3, <3>1, <3>2, WakeSleep DEF ResumeUpgrade, ReadersRemain
    <3>3. CASE ~(num_readers > 1)
      <4>1. num_readers = 1
        BY <1>0, <3>1, <3>3, Counted, Naturals DEF CountInv, Readers
      <4> QED BY <1>2, <2>3, <3>1, <3>3, <4>1 DEF ResumeUpgrade
    <3> QED BY <3>2, <3>3
  <2> QED BY <1>4, <2>1, <2>2, <2>3 DEF Resume
<1>5. ASSUME NEW t \in Threads, Release(t)
      PROVE  WakeInv'
  <2>1. CASE ReleaseReadLock(t)
    <3>1. /\ pc[t] = "reading" /\ sleeps_on[t] = "none" /\ num_readers >= 1
          /\ Goto(t, "idle") /\ num_readers' = num_readers - 1
          /\ UNCHANGED <<reader_first, num_pending_writers, current_writer, pending_upgrade>>
      BY <1>0, <1>1, <1>5, <2>1, Counted, Naturals
         DEF Release, ReleaseReadLock, Waiting, CountInv, Readers
    <3>2. Notifiers # {} => Notifiers' # {}
      BY <1>0, <3>1, NotifiersStay
    <3>3. CASE LastReader(num_readers - 1)
      BY <2>1, <3>1, <3>2, <3>3, WakeReaders DEF ReleaseReadLock, ReadBlocked, WriteBlocked
    <3>4. CASE ~LastReader(num_readers - 1)
      <4>1. /\ UNCHANGED sleeps_on /\ (ReadersRemain => ReadersRemain')
            /\ (pending_upgrade /\ num_readers > 1 => num_readers' > 1)
        BY <1>0, <2>1, <3>1, <3>4 DEF ReleaseReadLock, LastReader, TypeOK, ReadersRemain
      <4> QED BY <3>1, <3>2, <4>1, WakeGo DEF ReadBlocked, WriteBlocked
    <3> QED BY <3>3, <3>4
  <2>2. CASE ReleaseWriteLock(t)
    <3>1. /\ pc[t] = "writing" /\ sleeps_on[t] = "none" /\ Goto(t, "notify")
          /\ UNCHANGED <<sleeps_on, num_readers, pending_upgrade>>
      BY <1>1, <2>2 DEF ReleaseWriteLock, Waiting
    <3>2. Notifiers' # {}
      BY <1>0, <3>1, Moved DEF Notifiers
    <3> QED BY <3>1, <3>2, WakeGo DEF ReadersRemain
  <2>3. CASE NotifyWriterFinished(t)
    BY <2>3, WakeAfterWriter
  <2> QED BY <1>5, <2>1, <2>2, <2>3 DEF Release
<1>6. ASSUME NEW t \in Threads, SpuriousWakeup(t), NEW u \in Threads
      PROVE  Justified(u)'
  BY <1>0, <1>6 DEF SpuriousWakeup, WakeInv, Justified, TypeOK, ReadersRemain, ReadBlocked,
                    WriteBlocked, Notifiers, At
<1>7. CASE UNCHANGED vars
  BY <1>0, <1>7 DEF vars, WakeInv, Justified, ReadersRemain, ReadBlocked, WriteBlocked,
                    Notifiers, At
<1> QED BY <1>3, <1>4, <1>5, <1>6, <1>7 DEF Next, WakeInv
-----------------------------------------------------------------------------
(***************************************************************************)
(* The theorems.                                                           *)
(***************************************************************************)
LEMMA Inductive == Spec => []IInv
<1>1. IInv /\ [Next]_vars => IInv'
  BY CountStep, TypeStep, QueueStep, WakeStep DEF IInv
<1> QED BY <1>1, InitIInv, PTL DEF Spec

\* The mutex keeps its types: in particular no counter ever falls below zero, on any path
\* through failed upgrades and repeated waits.
THEOREM TypeCorrect == Spec => []TypeOK
<1>1. IInv => TypeOK
  BY DEF IInv
<1> QED BY <1>1, Inductive, PTL

LEMMA Emptiness ==
  ASSUME NEW P
  PROVE  At(P) = {} <=> Cardinality(At(P)) = 0
BY AtFinite, FS_EmptySet

\* The counters and flags of the mutex count its readers, writers and waiting threads.
THEOREM CountersCorrect == Spec => []CountersExact
<1>1. IInv => CountersExact
  BY Emptiness DEF IInv, CountInv, CountersExact, TypeOK, Readers, Writers, Upgraders,
                   WaitingReaders, WaitingWriters
<1> QED BY <1>1, Inductive, PTL

\* No thread sleeps on a condition variable without a reason, so every notification that
\* is needed is made: by the last reader, by an upgrade that succeeds or fails, by a writer.
THEOREM WakeupsCorrect == Spec => []NoLostWakeup
<1>1. ASSUME IInv, NEW t \in Threads
      PROVE  /\ sleeps_on[t] = "cv_readers" => StillBlocked(t)
             /\ sleeps_on[t] = "cv_writer_finished" => StillBlocked(t) \/ At({"notify"}) # {}
  <2>1. Justified(t)
    BY <1>1 DEF IInv, WakeInv
  <2>2. /\ pc[t] = "wait_read"    => (StillBlocked(t) <=> ReadBlocked)
        /\ pc[t] = "wait_readers" => (StillBlocked(t) <=> ReadersRemain)
        /\ pc[t] = "wait_writer"  => (StillBlocked(t) <=> WriteBlocked)
        /\ pc[t] = "wait_upgrade" => (StillBlocked(t) <=> num_readers > 1)
    BY DEF StillBlocked
  <2> QED BY <2>1, <2>2 DEF Justified, Notifiers
<1>2. IInv => NoLostWakeup
  BY <1>1 DEF NoLostWakeup
<1> QED BY <1>2, Inductive, PTL

\* isInUse of ReaderWriterMutex overlooks no thread, which MapManager::releaseMap relies on
\* before it destroys the mutex.
THEOREM InUseCorrect == Spec => []InUseComplete
<1>1. ASSUME IInv, ~reader_first, ~IsInUse, NEW t \in Threads,
             pc[t] \in Waiting \cup {"reading", "writing"}
      PROVE  FALSE
  <2>1. /\ Cardinality(Readers) = 0 /\ Cardinality(Writers) = 0
        /\ Cardinality(WaitingReaders) = 0 /\ Cardinality(WaitingWriters) = 0
    BY <1>1 DEF IInv, CountInv, TypeOK, IsInUse
  <2> QED BY <1>1, <2>1, Counted
          DEF Waiting, Readers, Writers, WaitingReaders, WaitingWriters
<1>2. IInv => InUseComplete
  BY <1>1 DEF InUseComplete, At
<1> QED BY <1>2, Inductive, PTL

\* The counters and the answer of isInUse are right at once, in both classes as far as
\* each keeps count.
THEOREM UsersCounted == Spec => []UsersKnown
BY CountersCorrect, InUseCorrect, PTL DEF UsersKnown
-----------------------------------------------------------------------------
(***************************************************************************)
(* Refinement: every step is a step of the abstract lock, or a stutter.    *)
(***************************************************************************)
LEMMA OnlyOne ==
  ASSUME NEW P, NEW t \in At(P), Cardinality(At(P)) = 1
  PROVE  At(P) = {t}
BY AtFinite, FS_Singleton

LEMMA LockStep ==
  ASSUME IInv, [Next]_vars
  PROVE  [Lock!Next]_<<Readers, Writers>>
<1> USE DEF flags, counters
<1>0. TypeOK /\ CountInv
  BY DEF IInv
<1>1. ASSUME NEW t \in Threads, NEW w, Goto(t, w)
      PROVE  /\ Readers' = IF w \in {"reading", "wait_upgrade"} THEN Readers \cup {t}
                                                                ELSE Readers \ {t}
             /\ Writers' = IF w = "writing" THEN Writers \cup {t} ELSE Writers \ {t}
  <2>1. ASSUME NEW P
        PROVE  At(P)' = IF w \in P THEN At(P) \cup {t} ELSE At(P) \ {t}
    BY <1>0, <1>1, Moved
  <2>2. Readers' = IF w \in {"reading", "wait_upgrade"} THEN Readers \cup {t}
                                                       ELSE Readers \ {t}
    BY <2>1 DEF Readers
  <2>3. Writers' = IF w \in {"writing"} THEN Writers \cup {t} ELSE Writers \ {t}
    BY <2>1 DEF Writers
  <2> QED BY <2>2, <2>3
<1>2. ASSUME NEW t \in Threads
      PROVE  /\ t \in Readers <=> pc[t] \in {"reading", "wait_upgrade"}
             /\ t \in Writers <=> pc[t] = "writing"
  BY DEF Readers, Writers, At
<1>3. /\ num_readers = 0 => Readers = {}
      /\ ~current_writer => Writers = {}
  BY <1>0, Emptiness DEF CountInv, Readers, Writers
<1>4. ASSUME NEW t \in Readers, num_readers = 1
      PROVE  Readers = {t}
  BY <1>0, <1>4, OnlyOne DEF CountInv, Readers
<1>5. ASSUME NEW t \in Writers
      PROVE  Writers = {t}
  <2>1. t \in Threads /\ pc[t] \in {"writing"}
    BY <1>5 DEF Writers, At
  <2>2. Cardinality(Writers) = 1
    BY <1>0, <2>1, Counted DEF CountInv, Writers
  <2> QED BY <1>5, <2>2, OnlyOne DEF Writers
<1>6. ASSUME NEW t \in Threads, FinishUpgrade(t), num_readers = 1, t \in Readers
      PROVE  Lock!Upgrade(t)
  <2>1. ~current_writer
    BY <1>0, <1>6 DEF CountInv
  <2>2. Readers = {t} /\ Writers = {} /\ Goto(t, "writing")
    BY <1>3, <1>4, <1>6, <2>1 DEF FinishUpgrade
  <2>3. Readers' = {} /\ Writers' = {t}
    BY <1>1, <2>2
  <2> QED BY <2>2, <2>3 DEF Lock!Upgrade, Readers, Writers
<1>7. ASSUME NEW t \in Threads, Goto(t, "writing"), pc[t] \notin {"reading", "wait_upgrade"},
             ~current_writer, num_readers = 0
      PROVE  Lock!StartWriting(t)
  <2>1. Readers = {} /\ Writers = {}
    BY <1>3, <1>7
  <2>2. Readers' = Readers /\ Writers' = {t}
    BY <1>1, <1>7, <2>1
  <2> QED BY <2>1, <2>2 DEF Lock!StartWriting, Readers, Writers
<1>8. ASSUME NEW t \in Threads, Goto(t, "reading"), pc[t] \notin {"reading", "wait_upgrade"},
             pc[t] # "writing", ~current_writer
      PROVE  Lock!StartReading(t)
  <2>1. t \notin Readers /\ Writers = {}
    BY <1>2, <1>3, <1>8
  <2>2. Readers' = Readers \cup {t} /\ Writers' = Writers
    BY <1>1, <1>8, <2>1
  <2> QED BY <2>1, <2>2 DEF Lock!StartReading, Readers, Writers
<1>9. ASSUME NEW t \in Threads, Goto(t, "idle"), pc[t] = "reading"
      PROVE  Lock!StopReading(t)
  <2>1. t \in Readers /\ t \notin Writers
    BY <1>2, <1>9
  <2>2. Readers' = Readers \ {t} /\ Writers' = Writers
    BY <1>1, <1>9, <2>1
  <2> QED BY <2>1, <2>2 DEF Lock!StopReading, Readers, Writers
<1>10. ASSUME NEW t \in Threads, NEW w, Goto(t, w), w # "writing", pc[t] # "writing",
              w \in {"reading", "wait_upgrade"} <=> pc[t] \in {"reading", "wait_upgrade"}
       PROVE  Readers' = Readers /\ Writers' = Writers
  BY <1>1, <1>2, <1>10
<1> DEFINE Step(t) == Lock!StartReading(t) \/ Lock!StopReading(t) \/ Lock!StartWriting(t)
                        \/ Lock!StopWriting(t) \/ Lock!Upgrade(t)
<1> DEFINE Same == Readers' = Readers /\ Writers' = Writers
<1>11. ASSUME NEW t \in Threads, Acquire(t)
       PROVE  Step(t) \/ Same
  <2>1. CASE AcquireReadLock(t)
    BY <1>8, <1>10, <2>1 DEF AcquireReadLock, Sleep, ReadBlocked
  <2>2. CASE AcquireWriteLock(t)
    <3>1. CASE TakeWriteLock(t, num_pending_writers) /\ ~ReadersRemain /\ ~WriteBlocked
      <4>1. num_readers = 0 /\ ~current_writer
        BY <1>0, <3>1 DEF ReadersRemain, WriteBlocked, TypeOK
      <4> QED BY <1>7, <2>2, <3>1, <4>1 DEF AcquireWriteLock, TakeWriteLock
    <3> QED BY <1>10, <2>2, <3>1
            DEF AcquireWriteLock, PassReaders, WaitForReaders, WaitForWriter, Sleep
  <2>3. CASE UpgradeToWriteLock(t)
    <3>1. pc[t] = "reading" /\ t \in Readers
      BY <1>2, <2>3 DEF UpgradeToWriteLock
    <3>2. num_readers <= 1 => num_readers = 1
      BY <1>0, <3>1, Counted, Naturals DEF CountInv, Readers
    <3> QED BY <1>6, <1>9, <1>10, <2>3, <3>1, <3>2
            DEF UpgradeToWriteLock, FailUpgrade, WaitToUpgrade, Sleep
  <2> QED BY <1>11, <2>1, <2>2, <2>3 DEF Acquire
<1>12. ASSUME NEW t \in Threads, Resume(t)
       PROVE  Step(t) \/ Same
  <2>1. CASE ResumeReadLock(t)
    BY <1>8, <1>10, <2>1 DEF ResumeReadLock, Awake, Sleep, ReadBlocked
  <2>2. CASE ResumeWriteLock(t)
    <3> DEFINE pending == Pending(num_pending_writers, -1)
    <3>1. pc[t] \in {"wait_readers", "wait_writer"}
      BY <2>2 DEF ResumeWriteLock, Awake
    <3>2. CASE TakeWriteLock(t, pending) /\ num_readers = 0 /\ ~WriteBlocked
      BY <1>7, <3>1, <3>2 DEF TakeWriteLock, WriteBlocked
    <3>3. CASE WaitForReaders(t, pending) \/ WaitForWriter(t, pending)
      BY <1>10, <3>1, <3>3 DEF WaitForReaders, WaitForWriter, Sleep
    <3> QED BY <2>2, <3>2, <3>3, WriterPasses
  <2>3. CASE ResumeUpgrade(t)
    <3>1. pc[t] = "wait_upgrade" /\ t \in Readers
      BY <1>2, <2>3 DEF ResumeUpgrade, Awake
    <3>2. ~(num_readers > 1) => num_readers = 1
      BY <1>0, <3>1, Counted, Naturals DEF CountInv, Readers
    <3> QED BY <1>6, <1>10, <2>3, <3>1, <3>2 DEF ResumeUpgrade, Sleep
  <2> QED BY <1>12, <2>1, <2>2, <2>3 DEF Resume
<1>13. ASSUME NEW t \in Threads, Release(t)
       PROVE  Step(t) \/ Same
  <2>1. CASE ReleaseReadLock(t)
    BY <1>9, <2>1 DEF ReleaseReadLock
  <2>2. CASE ReleaseWriteLock(t)
    <3>1. t \notin Readers /\ Writers = {t}
      BY <1>2, <1>5, <2>2 DEF ReleaseWriteLock
    <3>2. Readers' = Readers /\ Writers' = {}
      BY <1>1, <2>2, <3>1 DEF ReleaseWriteLock
    <3> QED BY <3>1, <3>2 DEF Lock!StopWriting, Readers, Writers
  <2>3. CASE NotifyWriterFinished(t)
    BY <1>10, <2>3 DEF NotifyWriterFinished
  <2> QED BY <1>13, <2>1, <2>2, <2>3 DEF Release
<1>14. ASSUME UNCHANGED pc
       PROVE  Same
  BY <1>14 DEF Readers, Writers, At
<1>15. ASSUME NEW t \in Threads, Step(t)
       PROVE  Lock!Next
  BY <1>15 DEF Lock!Next
<1> QED BY <1>11, <1>12, <1>13, <1>14, <1>15 DEF Next, SpuriousWakeup, vars

\* Whatever threads do with the mutex, and however often they upgrade: either any number of
\* threads reads or a single one writes, and the reader that becomes the writer lets nobody
\* write in between.
THEOREM ImplementsLock == Spec => IsReaderWriterLock
<1>1. Init => Lock!Init
  BY DEF Init, Lock!Init, At
<1>2. IInv /\ [Next]_vars => [Lock!Next]_<<At({"reading", "wait_upgrade"}), At({"writing"})>>
  BY LockStep DEF Readers, Writers
<1> QED BY <1>1, <1>2, Inductive, PTL DEF Spec, IsReaderWriterLock, Lock!Spec
=============================================================================
