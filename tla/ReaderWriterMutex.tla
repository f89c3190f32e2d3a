-------------------------- MODULE ReaderWriterMutex --------------------------
(***************************************************************************)
(* aslam::ReaderWriterMutex, which guards the container of the map manager *)
(* and every map in it, and its variant ReaderFirstReaderWriterMutex.      *)
(*                                                                         *)
(* Source: aslam_cv2/aslam_cv_common/src/reader-writer-lock.cc and         *)
(* reader-first-reader-writer-lock.cc.                                     *)
(*                                                                         *)
(* A step is what a thread does while it holds mutex_: from the call, or   *)
(* from waking up, to the return or to the next wait on a condition        *)
(* variable.  Only releaseWriteLock notifies after it has let mutex_ go,   *)
(* so it takes two steps.                                                  *)
(***************************************************************************)
EXTENDS Integers, FiniteSets

CONSTANT Threads

ASSUME ThreadsAssumption == IsFiniteSet(Threads)

VARIABLES reader_first,         \* the class is ReaderFirstReaderWriterMutex
          pc,                   \* where each thread is
          sleeps_on,            \* the condition variable it sleeps on, if any
          pending_readers, num_readers, num_pending_writers,
          current_writer, pending_upgrade

counters == <<pending_readers, num_readers, num_pending_writers>>
flags    == <<current_writer, pending_upgrade>>
vars     == <<reader_first, pc, sleeps_on, counters, flags>>

Waiting == {"wait_read", "wait_readers", "wait_writer", "wait_upgrade"}
Pc      == {"idle", "reading", "writing", "notify"} \cup Waiting

Init == /\ reader_first \in BOOLEAN
        /\ pc = [t \in Threads |-> "idle"]
        /\ sleeps_on = [t \in Threads |-> "none"]
        /\ pending_readers = 0 /\ num_readers = 0 /\ num_pending_writers = 0
        /\ current_writer = FALSE /\ pending_upgrade = FALSE
-----------------------------------------------------------------------------
(***************************************************************************)
(* The conditions of the wait loops.                                       *)
(***************************************************************************)
ReadBlocked ==
  current_writer \/ (~reader_first /\ (num_pending_writers # 0 \/ pending_upgrade))

ReadersRemain == num_readers > (IF pending_upgrade THEN 1 ELSE 0)
WriteBlocked  == current_writer \/ pending_upgrade

\* The variant keeps no account of the threads that wait.
Pending(n, by) == IF reader_first THEN n ELSE n + by

Goto(t, where) == pc' = [pc EXCEPT ![t] = where]

\* Woken threads run on when they get mutex_ again.
Sleep(t, cv, where) == /\ sleeps_on' = [sleeps_on EXCEPT ![t] = cv]
                       /\ Goto(t, where)
NotifyAll(cv) == sleeps_on' = [t \in Threads |-> IF sleeps_on[t] = cv
                                                 THEN "none" ELSE sleeps_on[t]]
Awake(t, where) == pc[t] = where /\ sleeps_on[t] = "none"
-----------------------------------------------------------------------------
(***************************************************************************)
(* acquireReadLock and releaseReadLock                                     *)
(***************************************************************************)
AcquireReadLock(t) ==
  /\ pc[t] = "idle"
  /\ IF ReadBlocked
     THEN /\ Sleep(t, "cv_writer_finished", "wait_read")
          /\ pending_readers' = Pending(pending_readers, 1)
          /\ UNCHANGED num_readers
     ELSE /\ Goto(t, "reading")
          /\ num_readers' = num_readers + 1
          /\ UNCHANGED <<sleeps_on, pending_readers>>
  /\ UNCHANGED <<num_pending_writers, flags>>

ResumeReadLock(t) ==
  /\ Awake(t, "wait_read")
  /\ IF ReadBlocked
     THEN /\ Sleep(t, "cv_writer_finished", "wait_read")
          /\ UNCHANGED <<pending_readers, num_readers>>
     ELSE /\ Goto(t, "reading")
          /\ pending_readers' = Pending(pending_readers, -1)
          /\ num_readers' = num_readers + 1
          /\ UNCHANGED sleeps_on
  /\ UNCHANGED <<num_pending_writers, flags>>

LastReaderOfAll(readers) == readers = 0
LastReader(readers) == readers = (IF pending_upgrade THEN 1 ELSE 0)

ReleaseReadLock(t) ==
  /\ pc[t] = "reading"
  /\ Goto(t, "idle")
  /\ num_readers' = num_readers - 1
  /\ IF LastReader(num_readers - 1)
     THEN NotifyAll("cv_readers") ELSE UNCHANGED sleeps_on
  /\ UNCHANGED <<pending_readers, num_pending_writers, flags>>
-----------------------------------------------------------------------------
(***************************************************************************)
(* acquireWriteLock and releaseWriteLock.  pending is the number of        *)
(* pending writers without this thread.                                    *)
(***************************************************************************)
TakeWriteLockUncounted(t, pending) ==
  /\ Goto(t, "writing")
  /\ current_writer' = TRUE
  /\ num_pending_writers' = num_pending_writers - 1
  /\ UNCHANGED sleeps_on
TakeWriteLock(t, pending) ==
  /\ Goto(t, "writing")
  /\ current_writer' = TRUE
  /\ num_pending_writers' = pending
  /\ UNCHANGED sleeps_on

WaitForReaders(t, pending) ==
  /\ Sleep(t, "cv_readers", "wait_readers")
  /\ num_pending_writers' = Pending(pending, 1)
  /\ UNCHANGED current_writer

WaitForWriter(t, pending) ==
  /\ Sleep(t, "cv_writer_finished", "wait_writer")
  /\ num_pending_writers' = Pending(pending, 1)
  /\ UNCHANGED current_writer

\* The first loop waits until the readers are gone, the second until the writer is.
PassReaders(t, pending) ==
  \/ ReadersRemain /\ WaitForReaders(t, pending)
  \/ ~ReadersRemain /\ WriteBlocked /\ WaitForWriter(t, pending)
  \/ ~ReadersRemain /\ ~WriteBlocked /\ TakeWriteLock(t, pending)

AcquireWriteLock(t) ==
  /\ pc[t] = "idle"
  /\ PassReaders(t, num_pending_writers)
  /\ UNCHANGED <<pending_readers, num_readers, pending_upgrade>>

\* Behind the second loop the variant tests the readers again.
PassWriterOnce(t, pending) ==
  IF WriteBlocked THEN WaitForWriter(t, pending) ELSE TakeWriteLock(t, pending)
PassWriter(t, pending) ==
  IF WriteBlocked THEN WaitForWriter(t, pending)
  ELSE IF reader_first THEN PassReaders(t, pending) ELSE TakeWriteLock(t, pending)

ResumeWriteLock(t) ==
  LET pending == Pending(num_pending_writers, -1)
  IN  /\ \/ Awake(t, "wait_readers") /\ PassReaders(t, pending)
         \/ Awake(t, "wait_writer") /\ PassWriter(t, pending)
      /\ UNCHANGED <<pending_readers, num_readers, pending_upgrade>>

ReleaseWriteLock(t) ==
  /\ pc[t] = "writing"
  /\ Goto(t, "notify")
  /\ current_writer' = FALSE
  /\ UNCHANGED <<sleeps_on, counters, pending_upgrade>>

NotifyWriterFinished(t) ==
  /\ pc[t] = "notify"
  /\ Goto(t, "idle")
  /\ NotifyAll("cv_writer_finished")
  /\ UNCHANGED <<counters, flags>>
-----------------------------------------------------------------------------
(***************************************************************************)
(* upgradeToWriteLock: the second thread that wants to upgrade gives up    *)
(* its read access instead.                                                *)
(***************************************************************************)
LastUpgradeFailsUnnoticed == FALSE
LastUpgradeFails == num_readers - 1 = 1

FailUpgrade(t) ==
  /\ Goto(t, "idle")
  /\ num_readers' = num_readers - 1
  /\ IF LastUpgradeFails THEN NotifyAll("cv_readers") ELSE UNCHANGED sleeps_on
  /\ UNCHANGED flags

FinishUpgradeStillReader(t) ==
  /\ Goto(t, "writing")
  /\ pending_upgrade' = FALSE
  /\ current_writer' = TRUE
  /\ UNCHANGED <<num_readers, sleeps_on>>
FinishUpgrade(t) ==
  /\ Goto(t, "writing")
  /\ pending_upgrade' = FALSE
  /\ current_writer' = TRUE
  /\ num_readers' = num_readers - 1
  /\ IF num_readers' = 0 THEN NotifyAll("cv_readers") ELSE UNCHANGED sleeps_on

WaitToUpgrade(t) ==
  /\ Sleep(t, "cv_readers", "wait_upgrade")
  /\ pending_upgrade' = TRUE
  /\ UNCHANGED <<num_readers, current_writer>>

UpgradeToWriteLock(t) ==
  /\ pc[t] = "reading"
  /\ \/ pending_upgrade /\ FailUpgrade(t)
     \/ ~pending_upgrade /\ num_readers > 1 /\ WaitToUpgrade(t)
     \/ ~pending_upgrade /\ num_readers <= 1 /\ FinishUpgrade(t)
  /\ UNCHANGED <<pending_readers, num_pending_writers>>

ResumeUpgrade(t) ==
  /\ Awake(t, "wait_upgrade")
  /\ IF num_readers > 1
     THEN Sleep(t, "cv_readers", "wait_upgrade") /\ UNCHANGED <<num_readers, flags>>
     ELSE FinishUpgrade(t)
  /\ UNCHANGED <<pending_readers, num_pending_writers>>

IsInUse == \/ pending_readers > 0 \/ num_readers > 0 \/ num_pending_writers > 0
           \/ current_writer \/ pending_upgrade
-----------------------------------------------------------------------------
\* A condition variable may wake a thread for no reason.
SpuriousWakeup(t) ==
  /\ sleeps_on[t] # "none"
  /\ sleeps_on' = [sleeps_on EXCEPT ![t] = "none"]
  /\ UNCHANGED <<reader_first, pc, counters, flags>>

Resume(t)  == /\ ResumeReadLock(t) \/ ResumeWriteLock(t) \/ ResumeUpgrade(t)
              /\ UNCHANGED reader_first
Release(t) == /\ ReleaseReadLock(t) \/ ReleaseWriteLock(t) \/ NotifyWriterFinished(t)
              /\ UNCHANGED reader_first
Acquire(t) == /\ AcquireReadLock(t) \/ AcquireWriteLock(t) \/ UpgradeToWriteLock(t)
              /\ UNCHANGED reader_first

Next == \E t \in Threads : Acquire(t) \/ Resume(t) \/ Release(t) \/ SpuriousWakeup(t)

\* A woken thread gets mutex_ eventually, and every access is given back: accesses
\* are held by the scope of ScopedReadLock and ScopedWriteLock objects.
Fairness == \A t \in Threads : WF_vars(Resume(t)) /\ WF_vars(Release(t))

Spec     == Init /\ [][Next]_vars
FairSpec == Spec /\ Fairness
-----------------------------------------------------------------------------
At(places) == {t \in Threads : pc[t] \in places}

TypeOK ==
  /\ reader_first \in BOOLEAN
  /\ pc \in [Threads -> Pc]
  /\ sleeps_on \in [Threads -> {"none", "cv_readers", "cv_writer_finished"}]
  /\ pending_readers \in Nat /\ num_readers \in Nat /\ num_pending_writers \in Nat
  /\ current_writer \in BOOLEAN /\ pending_upgrade \in BOOLEAN

\* The mutex is a reader-writer lock: a thread that waits to upgrade is a reader
\* still, and a thread that has yet to notify is a writer no more.
Lock == INSTANCE ReaderWriterLock
          WITH readers <- At({"reading", "wait_upgrade"}), writers <- At({"writing"})
IsReaderWriterLock == Lock!Spec

\* The counters and flags that decide who may enter are exact, on every path through
\* failed and successful upgrades.
CountersExact ==
  /\ num_readers = Cardinality(At({"reading", "wait_upgrade"}))
  /\ current_writer <=> At({"writing"}) # {}
  /\ pending_upgrade <=> At({"wait_upgrade"}) # {}
  /\ ~reader_first =>
       /\ pending_readers = Cardinality(At({"wait_read"}))
       /\ num_pending_writers = Cardinality(At({"wait_readers", "wait_writer"}))

\* No lost wakeup: a thread sleeps only as long as the condition of its loop holds, or
\* a thread that has released the write lock is about to notify it.
StillBlocked(t) ==
  CASE pc[t] = "wait_read"    -> ReadBlocked
    [] pc[t] = "wait_readers" -> ReadersRemain
    [] pc[t] = "wait_writer"  -> WriteBlocked
    [] pc[t] = "wait_upgrade" -> num_readers > 1
NoLostWakeup ==
  \A t \in Threads :
    /\ sleeps_on[t] = "cv_readers" => StillBlocked(t)
    /\ sleeps_on[t] = "cv_writer_finished" => StillBlocked(t) \/ At({"notify"}) # {}

\* isInUse "returns true if there are any active readers, writers, or threads that are
\* waiting for read or write access": so it is for ReaderWriterMutex.
InUseComplete ==
  ~reader_first /\ ~IsInUse => At(Waiting \cup {"reading", "writing"}) = {}

\* What the mutex knows of its users is right, for those who enter and for those who
\* ask whether it is in use.
UsersKnown == CountersExact /\ InUseComplete

\* The variant inherits isInUse and its promise, but keeps no account of who waits.
ReaderFirstInUseComplete ==
  reader_first /\ ~IsInUse => At(Waiting \cup {"reading", "writing"}) = {}

\* Every thread that waits gets its turn once the others stop asking for the lock, so
\* no notification is missing on any path (a failed upgrade among them).
Calm == <>[][\A t \in Threads : ~Acquire(t)]_vars
WaitersServed ==
  Calm => \A t \in Threads : pc[t] \in Waiting ~> pc[t] \notin Waiting

\* Readers that keep coming cannot starve the writers: as soon as one waits, some thread
\* gets write access, however often the others ask for read access.  The variant lets
\* them starve.
WritersNotStarved ==
  ~reader_first /\ At({"wait_readers", "wait_writer"}) # {} ~> At({"writing"}) # {}

\* Both, for a thread may be kept waiting by a notification that is missing or by
\* others that overtake it.
NobodyStarves == WaitersServed /\ WritersNotStarved
=============================================================================
