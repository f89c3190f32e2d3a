----------------------------- MODULE ThreadPool -----------------------------
(***************************************************************************)
(* aslam::ThreadPool, which runs the loading tasks of the maplab server,   *)
(* the delivery of messages and the stages of the visual pipeline.         *)
(*                                                                         *)
(* Source: aslam_cv2/aslam_cv_common/include/aslam/common/thread-pool.h    *)
(* and src/thread-pool.cc.                                                 *)
(*                                                                         *)
(* A step is what a thread does while it holds tasks_mutex_, or one access *)
(* to stop_ or the condition variable outside of it.  The only condition   *)
(* variable, tasks_queue_change_, is shared by the workers and the threads *)
(* in waitForEmptyQueue.                                                   *)
(***************************************************************************)
EXTENDS Integers, Sequences, FiniteSets, SequencesExt

CONSTANTS Workers,
          Tasks,         \* each is enqueued once, by a thread of its own
          Groups,        \* the exclusivity groups
          GroupOf,       \* the group of a task, or NonExclusive
          NonExclusive,  \* kGroupdIdNonExclusiveTask
          Waiters,       \* threads that call waitForEmptyQueue once
          Stoppable,     \* somebody calls stop()
          NoTask

ASSUME ConstantsAssumption ==
  /\ IsFiniteSet(Workers) /\ IsFiniteSet(Tasks)
  /\ NonExclusive \notin Groups
  /\ GroupOf \in [Tasks -> Groups \cup {NonExclusive}]
  /\ Stoppable \in BOOLEAN
  /\ NoTask \notin Tasks

VARIABLES
  serialized,      \* the callers of the pool exclude one another
  tasks,           \* groupid_tasks_
  guards,          \* groupid_exclusivity_guards_: a function on the groups seen
  num_nonexclusive,\* num_queued_nonexclusive_tasks
  active_threads,
  stop,
  worker,          \* where each worker is
  runs,            \* the task a worker runs
  call,            \* progress of the call of enqueueOrdered for each task
  waiter,          \* where each thread in waitForEmptyQueue is
  destructor,      \* progress of ~ThreadPool
  finished         \* the tasks that have run (history)

vars == <<serialized, tasks, guards, num_nonexclusive, active_threads, stop, worker, runs, call,
          waiter, destructor, finished>>

Init == /\ serialized \in BOOLEAN
        /\ tasks = <<>> /\ guards = [g \in {} |-> FALSE]
        /\ num_nonexclusive = 0 /\ active_threads = 0 /\ stop = FALSE
        /\ worker = [w \in Workers |-> "awake"]
        /\ runs = [w \in Workers |-> NoTask]
        /\ call = [t \in Tasks |-> "new"]
        /\ waiter = [x \in Waiters |-> "new"]
        /\ destructor = "no"
        /\ finished = {}
-----------------------------------------------------------------------------
(***************************************************************************)
(* The callers.  The maplab server calls its pool with mutex_ held, so one *)
(* call is over before the next begins; the message dispatcher does not.   *)
(***************************************************************************)
Enqueuing == {t \in Tasks : call[t] \in {"checked", "pushed"}}
Inside    == {x \in Waiters : waiter[x] \in {"awake", "asleep"}}

MayCall == /\ destructor = "no"
           /\ serialized => Enqueuing = {} /\ Inside = {}
-----------------------------------------------------------------------------
(***************************************************************************)
(* tasks_queue_change_                                                     *)
(***************************************************************************)
NotifyAll ==
  /\ worker' = [w \in Workers |-> IF worker[w] = "asleep" THEN "awake" ELSE worker[w]]
  /\ waiter' = [x \in Waiters |-> IF waiter[x] = "asleep" THEN "awake" ELSE waiter[x]]

Asleep == {w \in Workers : worker[w] = "asleep"} \cup
          {x \in Waiters : waiter[x] = "asleep"}

\* notify_one picks any of the threads that sleep, a worker or a waiter.
NotifyOneIfFirst ==
  IF Len(tasks) = 1 THEN NotifyAll ELSE UNCHANGED <<worker, waiter>>
NotifyOne ==
  \/ \E w \in Workers : /\ worker[w] = "asleep"
                        /\ worker' = [worker EXCEPT ![w] = "awake"]
                        /\ UNCHANGED waiter
  \/ \E x \in Waiters : /\ waiter[x] = "asleep"
                        /\ waiter' = [waiter EXCEPT ![x] = "awake"]
                        /\ UNCHANGED worker
  \/ Asleep = {} /\ UNCHANGED <<worker, waiter>>

SpuriousWakeup ==
  /\ Asleep # {}
  /\ NotifyOne
  /\ UNCHANGED <<tasks, guards, num_nonexclusive, active_threads, stop, runs, call,
                 destructor, finished>>
-----------------------------------------------------------------------------
(***************************************************************************)
(* enqueueOrdered: stop_ is read without the mutex.                        *)
(***************************************************************************)
EnqueueCheckStop(t) ==
  /\ call[t] = "new"
  /\ MayCall
  /\ call' = [call EXCEPT ![t] = IF stop THEN "rejected" ELSE "checked"]
  /\ UNCHANGED <<tasks, guards, num_nonexclusive, active_threads, stop, worker, runs,
                 waiter, destructor, finished>>

WithGuardReset(g) ==
  IF g = NonExclusive THEN guards
  ELSE [h \in DOMAIN guards \cup {g} |-> IF h # g THEN guards[h] ELSE FALSE]
WithGuard(g) ==
  IF g = NonExclusive THEN guards
  ELSE [h \in DOMAIN guards \cup {g} |->
          IF h \in DOMAIN guards THEN guards[h] ELSE FALSE]

EnqueuePush(t) ==
  /\ call[t] = "checked"
  /\ tasks' = Append(tasks, t)
  /\ num_nonexclusive' = num_nonexclusive + (IF GroupOf[t] = NonExclusive THEN 1 ELSE 0)
  /\ guards' = WithGuard(GroupOf[t])
  /\ call' = [call EXCEPT ![t] = "pushed"]
  /\ UNCHANGED <<active_threads, stop, worker, runs, waiter, destructor, finished>>

EnqueueNotify(t) ==
  /\ call[t] = "pushed"
  /\ NotifyOne
  /\ call' = [call EXCEPT ![t] = "accepted"]
  /\ UNCHANGED <<tasks, guards, num_nonexclusive, active_threads, stop, runs,
                 destructor, finished>>
-----------------------------------------------------------------------------
(***************************************************************************)
(* run: a worker that holds the mutex selects a task, or sleeps, or ends.  *)
(***************************************************************************)
AllGuardsActive == \A g \in DOMAIN guards : guards[g]

\* The task at position i is not held back by the guard of its group.
Free(i) == LET g == GroupOf[tasks[i]] IN g # NonExclusive => ~guards[g]

WorthScanning == ~AllGuardsActive \/ num_nonexclusive > 0

SelectableLast(i) ==
  WorthScanning /\ Free(i) /\ \A j \in (i + 1) .. Len(tasks) : ~Free(j)
Selectable(i) ==
  WorthScanning /\ Free(i) /\ \A j \in 1 .. (i - 1) : ~Free(j)

CountTaken(t) == num_nonexclusive - (IF GroupOf[t] = NonExclusive THEN 1 ELSE 0)

TakeTask(w) ==
  /\ worker[w] = "awake"
  /\ \E i \in DOMAIN tasks :
       /\ Selectable(i)
       /\ tasks' = RemoveAt(tasks, i)
       /\ num_nonexclusive' = CountTaken(tasks[i])
       /\ guards' = IF GroupOf[tasks[i]] = NonExclusive THEN guards
                    ELSE [guards EXCEPT ![GroupOf[tasks[i]]] = TRUE]
       /\ runs' = [runs EXCEPT ![w] = tasks[i]]
  /\ active_threads' = active_threads + 1
  /\ worker' = [worker EXCEPT ![w] = "running"]
  /\ UNCHANGED <<stop, call, waiter, destructor, finished>>

MayExit == stop /\ tasks = <<>>

FindNothing(w) ==
  /\ worker[w] = "awake"
  /\ \A i \in DOMAIN tasks : ~Selectable(i)
  /\ worker' = [worker EXCEPT ![w] = IF MayExit THEN "exited" ELSE "asleep"]
  /\ UNCHANGED <<tasks, guards, num_nonexclusive, active_threads, stop, runs, call,
                 waiter, destructor, finished>>

\* Wakes everybody, for the group is free again and the queue may be empty.
WakeAfterTaskOne(w) == /\ worker' = [worker EXCEPT ![w] = "awake"]
                       /\ UNCHANGED waiter
WakeAfterTask(w) ==
  /\ worker' = [v \in Workers |-> IF v = w \/ worker[v] = "asleep"
                                  THEN "awake" ELSE worker[v]]
  /\ waiter' = [x \in Waiters |-> IF waiter[x] = "asleep" THEN "awake" ELSE waiter[x]]

FinishTask(w) ==
  /\ worker[w] = "running"
  /\ guards' = IF GroupOf[runs[w]] = NonExclusive THEN guards
               ELSE [guards EXCEPT ![GroupOf[runs[w]]] = FALSE]
  /\ active_threads' = active_threads - 1
  /\ WakeAfterTask(w)
  /\ finished' = finished \cup {runs[w]}
  /\ runs' = [runs EXCEPT ![w] = NoTask]
  /\ UNCHANGED <<tasks, num_nonexclusive, stop, call, destructor>>
-----------------------------------------------------------------------------
(***************************************************************************)
(* stop, waitForEmptyQueue and ~ThreadPool                                 *)
(***************************************************************************)
Stop ==
  /\ Stoppable
  /\ ~stop
  /\ MayCall
  /\ stop' = TRUE
  /\ UNCHANGED <<tasks, guards, num_nonexclusive, active_threads, worker, runs, call,
                 waiter, destructor, finished>>

IdleWhenEmpty == tasks = <<>>
Idle == active_threads = 0 /\ tasks = <<>>

WaitForEmptyQueue(x) ==
  /\ (waiter[x] = "new" /\ MayCall) \/ waiter[x] = "awake"
  /\ waiter' = [waiter EXCEPT ![x] = IF Idle THEN "returned" ELSE "asleep"]
  /\ UNCHANGED <<tasks, guards, num_nonexclusive, active_threads, stop, worker, runs,
                 call, destructor, finished>>

\* Nobody may be inside a member function when the pool is destroyed.
DestructorStop ==
  /\ destructor = "no"
  /\ Enqueuing = {} /\ Inside = {}
  /\ stop' = TRUE
  /\ destructor' = "stopped"
  /\ UNCHANGED <<tasks, guards, num_nonexclusive, active_threads, worker, runs, call,
                 waiter, finished>>

DestructorWakes == NotifyAll

DestructorNotify ==
  /\ destructor = "stopped"
  /\ DestructorWakes
  /\ destructor' = "joining"
  /\ UNCHANGED <<tasks, guards, num_nonexclusive, active_threads, stop, runs, call,
                 finished>>

DestructorJoin ==
  /\ destructor = "joining"
  /\ \A w \in Workers : worker[w] = "exited"
  /\ destructor' = "done"
  /\ UNCHANGED <<tasks, guards, num_nonexclusive, active_threads, stop, worker, runs,
                 call, waiter, finished>>

Done == destructor = "done" /\ UNCHANGED vars
-----------------------------------------------------------------------------
EnqueueNext(t) == (EnqueuePush(t) \/ EnqueueNotify(t)) /\ UNCHANGED serialized
WorkerNext(w)  == (TakeTask(w) \/ FindNothing(w) \/ FinishTask(w)) /\ UNCHANGED serialized
WaiterNext(x)  == waiter[x] = "awake" /\ WaitForEmptyQueue(x) /\ UNCHANGED serialized
DestructorNext == (DestructorNotify \/ DestructorJoin) /\ UNCHANGED serialized

Calls == /\ \/ \E t \in Tasks : EnqueueCheckStop(t)
            \/ \E x \in Waiters : waiter[x] = "new" /\ WaitForEmptyQueue(x)
            \/ Stop \/ DestructorStop \/ SpuriousWakeup
         /\ UNCHANGED serialized

Next == \/ \E t \in Tasks : EnqueueNext(t)
        \/ \E w \in Workers : WorkerNext(w)
        \/ \E x \in Waiters : WaiterNext(x)
        \/ DestructorNext \/ Calls \/ Done

\* Threads keep running and tasks come to an end; nobody need call the pool.
Fairness ==
  /\ \A t \in Tasks : WF_vars(EnqueueNext(t))
  /\ \A w \in Workers : WF_vars(WorkerNext(w))
  /\ \A x \in Waiters : WF_vars(WaiterNext(x))
  /\ WF_vars(DestructorNext)

Spec     == Init /\ [][Next]_vars
FairSpec == Spec /\ Fairness
-----------------------------------------------------------------------------
TypeOK ==
  /\ serialized \in BOOLEAN
  /\ tasks \in Seq(Tasks)
  /\ DOMAIN guards \subseteq Groups /\ \A g \in DOMAIN guards : guards[g] \in BOOLEAN
  /\ num_nonexclusive \in Nat /\ active_threads \in Nat /\ stop \in BOOLEAN
  /\ worker \in [Workers -> {"awake", "asleep", "running", "exited"}]
  /\ runs \in [Workers -> Tasks \cup {NoTask}]
  /\ call \in [Tasks -> {"new", "checked", "pushed", "accepted", "rejected"}]
  /\ waiter \in [Waiters -> {"new", "awake", "asleep", "returned"}]
  /\ destructor \in {"no", "stopped", "joining", "done"}
  /\ finished \subseteq Tasks

\* The pool runs the tasks of a group one at a time and in order, and starts the
\* others in order, as its comments promise.
Running == {runs[w] : w \in {v \in Workers : worker[v] = "running"}}
Executor == INSTANCE GroupExecutor WITH waiting <- tasks, running <- Running
IsGroupExecutor == Executor!Spec

\* The counters and guards by which tasks are selected agree with what is queued and
\* what runs.
CountersExact ==
  /\ num_nonexclusive = Cardinality({i \in DOMAIN tasks : GroupOf[tasks[i]] = NonExclusive})
  /\ active_threads = Cardinality({w \in Workers : worker[w] = "running"})
  /\ \A g \in DOMAIN guards : guards[g] <=> \E t \in Running : GroupOf[t] = g

\* The counters and guards count what they are said to, in every state.
StateExact == TypeOK /\ CountersExact

\* No thread sleeps through a task it could run: a task that can start has a
\* notification under way or a worker awake, or all workers are busy.  This is so until
\* somebody calls waitForEmptyQueue, for a thread in it takes notifications, too, or
\* stop() overtakes a call of enqueueOrdered.
WorkConserved ==
  /\ serialized \/ ~stop
  /\ \A x \in Waiters : waiter[x] = "new"
  /\ \E i \in DOMAIN tasks : Free(i)
  => \/ \E t \in Tasks : call[t] = "pushed"
     \/ \E w \in Workers : worker[w] = "awake"
     \/ \A w \in Workers : worker[w] = "running"

\* The workers do not leave a task behind that the pool has accepted.  With callers
\* that overlap, a call may pass the test of stop_ before stop() and queue its task after
\* the workers have ended.
TaskStranded == (\A w \in Workers : worker[w] = "exited") /\ tasks # <<>>
NoTaskStranded == serialized => ~TaskStranded

\* No accepted task is forgotten, by workers that sleep or by workers that have ended.
NoTaskForgotten == NoTaskStranded /\ WorkConserved
\* The same of callers that overlap.
NoTaskStrandedByOverlap == ~TaskStranded

\* A thread that returns from waitForEmptyQueue leaves no task unfinished that was
\* in the queue before: what it is for.
WaitMeansDone ==
  [][\A x \in Waiters : waiter[x] # "returned" /\ waiter'[x] = "returned"
       => \A t \in Tasks : call[t] \in {"pushed", "accepted"} => t \in finished]_vars
-----------------------------------------------------------------------------
\* A task that the pool accepts is run, and "this method blocks until the queue is empty"
\* but not forever: there are no more than the given tasks.  Both need callers that exclude
\* one another, for a thread in waitForEmptyQueue takes notifications from the workers.
AcceptedTaskRuns ==
  \A t \in Tasks : serialized /\ call[t] = "pushed" ~> t \in finished
WaitReturns ==
  \A x \in Waiters : serialized /\ waiter[x] = "asleep" ~> waiter[x] = "returned"

\* "This method blocks until the queue is empty", whoever else calls the pool.
OverlappingWaitReturns ==
  \A x \in Waiters : waiter[x] = "asleep" ~> waiter[x] = "returned"

\* The destructor joins all workers.
DestructorReturns == destructor = "stopped" ~> destructor = "done"

\* Every blocking call of the pool comes to its end, and every task to its turn.
PoolGoesOn == AcceptedTaskRuns /\ WaitReturns /\ DestructorReturns
=============================================================================
