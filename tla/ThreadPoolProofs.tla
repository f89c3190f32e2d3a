-------------------------- MODULE ThreadPoolProofs --------------------------
(***************************************************************************)
(* Theorems about ThreadPool for every finite set of workers and tasks and *)
(* all groups.                                                             *)
(***************************************************************************)
EXTENDS ThreadPool, FiniteSetTheorems, FunctionTheorems, SequenceTheorems, TLAPS

-----------------------------------------------------------------------------
(***************************************************************************)
(* The inductive invariant.                                                *)
(***************************************************************************)
Waiting == {t \in Tasks : \E i \in DOMAIN tasks : tasks[i] = t}
Busy    == {w \in Workers : worker[w] = "running"}

\* A task is at one place, and there once: in the queue, with a worker, or finished.
PlaceInv ==
  /\ \A i, j \in DOMAIN tasks : tasks[i] = tasks[j] => i = j
  /\ \A t \in Tasks : \/ t \notin Waiting /\ t \notin finished
                      \/ t \notin Waiting /\ t \notin Running
                      \/ t \notin Running /\ t \notin finished
  /\ \A t \in Tasks : call[t] \in {"pushed", "accepted"}
                        <=> t \in Waiting \/ t \in Running \/ t \in finished
  /\ \A w \in Workers : worker[w] = "running" <=> runs[w] \in Tasks
  /\ \A v, w \in Busy : runs[v] = runs[w] => v = w

\* A guard is set while a worker runs a task of its group, and there is one such worker.
GuardInv ==
  /\ \A t \in Waiting : GroupOf[t] # NonExclusive => GroupOf[t] \in DOMAIN guards
  /\ \A w \in Busy : GroupOf[runs[w]] # NonExclusive =>
       GroupOf[runs[w]] \in DOMAIN guards /\ guards[GroupOf[runs[w]]]
  /\ \A g \in DOMAIN guards : guards[g] => \E w \in Busy : GroupOf[runs[w]] = g
  /\ \A v, w \in Busy : GroupOf[runs[v]] # NonExclusive
                        /\ GroupOf[runs[v]] = GroupOf[runs[w]] => v = w

\* The counters, with the tasks in the place of their positions in the queue.
CountInv ==
  /\ num_nonexclusive = Cardinality({t \in Waiting : GroupOf[t] = NonExclusive})
  /\ active_threads = Cardinality(Busy)

\* Callers that exclude one another queue nothing after stop(), so that workers which end
\* leave an empty queue.
StopInv ==
  /\ serialized /\ stop => \A t \in Tasks : call[t] \notin {"checked", "pushed"}
  /\ \A w \in Workers : worker[w] = "exited" => stop
  /\ serialized /\ (\E w \in Workers : worker[w] = "exited") => tasks = <<>>

\* What can be started at the same time: tasks without a group, and one task of each group
\* whose guard is free.
Claim(t) == IF GroupOf[t] = NonExclusive THEN <<"task", t>> ELSE <<"group", GroupOf[t]>>
Ready(t) == t \in Waiting /\ (GroupOf[t] # NonExclusive => ~guards[GroupOf[t]])
Claims   == {Claim(t) : t \in {u \in Tasks : Ready(u)}}
Awake    == {w \in Workers : worker[w] = "awake"}
Notices  == {t \in Tasks : call[t] = "pushed"}
Helpers  == Cardinality(Awake) + Cardinality(Notices)

\* While a worker sleeps, there are as many workers awake and notifications under way as
\* there are claims: a weaker count would let the last of them start a task and leave
\* another one behind.
WakeInv ==
  /\ \A x \in Waiters : waiter[x] = "new"
  /\ \E w \in Workers : worker[w] = "asleep"
  => Helpers >= Cardinality(Claims)

IInv == TypeOK /\ PlaceInv /\ GuardInv /\ CountInv /\ StopInv /\ WakeInv
-----------------------------------------------------------------------------
(***************************************************************************)
(* Sequences and least elements.                                           *)
(***************************************************************************)
LEMMA RemoveFrom ==
  ASSUME NEW S, NEW s \in Seq(S), NEW i \in DOMAIN s
  PROVE  /\ RemoveAt(s, i) \in Seq(S)
         /\ RemoveAt(s, i) = [j \in 1 .. (Len(s) - 1) |-> s[IF j < i THEN j ELSE j + 1]]
<1> DEFINE a == SubSeq(s, 1, i - 1)
           b == SubSeq(s, i + 1, Len(s))
<1>1. Len(s) \in Nat /\ DOMAIN s = 1 .. Len(s) /\ i \in 1 .. Len(s)
      /\ \A j \in 1 .. Len(s) : s[j] \in S
  BY LenProperties, ElementOfSeq
<1>2. /\ a \in Seq(S) /\ Len(a) = i - 1
      /\ \A j \in 1 .. (i - 1) : a[j] = s[j]
  <2>1. \A j \in 1 .. (i - 1) : s[j] \in S
    BY <1>1
  <2>2. /\ a \in Seq(S)
        /\ Len(a) = IF 1 <= i - 1 THEN i - 1 - 1 + 1 ELSE 0
        /\ \A j \in 1 .. i - 1 - 1 + 1 : a[j] = s[1 + j - 1]
    BY <1>1, <2>1, SubSeqProperties
  <2> HIDE DEF a
  <2> QED BY <1>1, <2>2
<1>3. /\ b \in Seq(S) /\ Len(b) = Len(s) - i
      /\ \A j \in 1 .. (Len(s) - i) : b[j] = s[i + j]
  <2>1. \A j \in (i + 1) .. Len(s) : s[j] \in S
    BY <1>1
  <2>2. /\ b \in Seq(S)
        /\ Len(b) = IF i + 1 <= Len(s) THEN Len(s) - (i + 1) + 1 ELSE 0
        /\ \A j \in 1 .. Len(s) - (i + 1) + 1 : b[j] = s[i + 1 + j - 1]
    BY <1>1, <2>1, SubSeqProperties
  <2>3. /\ Len(s) - (i + 1) + 1 = Len(s) - i /\ \A j \in Nat : i + 1 + j - 1 = i + j
        /\ (IF i + 1 <= Len(s) THEN Len(s) - (i + 1) + 1 ELSE 0) = Len(s) - i
    BY <1>1
  <2>4. ASSUME NEW j \in 1 .. (Len(s) - i)
        PROVE  j \in Nat /\ s[i + 1 + j - 1] = s[i + j]
    <3>1. j \in Nat /\ i + 1 + j - 1 = i + j
      BY <1>1
    <3> QED BY <3>1, Zenon
  <2> HIDE DEF b
  <2> QED BY <2>2, <2>3, <2>4
<1>4. RemoveAt(s, i) = a \o b
  BY DEF RemoveAt
<1> HIDE DEF a, b
<1>5. /\ a \o b \in Seq(S) /\ Len(a \o b) = Len(a) + Len(b)
      /\ \A j \in 1 .. (Len(a) + Len(b)) :
           (a \o b)[j] = IF j <= Len(a) THEN a[j] ELSE b[j - Len(a)]
  BY <1>2, <1>3, ConcatProperties
<1>6. Len(a) + Len(b) = Len(s) - 1
  BY <1>1, <1>2, <1>3
<1>7. ASSUME NEW j \in 1 .. (Len(s) - 1)
      PROVE  (a \o b)[j] = s[IF j < i THEN j ELSE j + 1]
  <2>1. CASE j < i
    BY <1>1, <1>2, <1>5, <1>6, <2>1
  <2>2. CASE j >= i
    <3>1. j - Len(a) \in 1 .. (Len(s) - i) /\ i + (j - Len(a)) = j + 1
      BY <1>1, <1>2, <2>2
    <3>2. (a \o b)[j] = b[j - Len(a)]
      BY <1>1, <1>2, <1>5, <1>6, <2>2
    <3> QED BY <1>1, <1>3, <2>2, <3>1, <3>2
  <2>3. j < i \/ j >= i
    BY <1>1
  <2> QED BY <2>1, <2>2, <2>3
<1>8. a \o b \in [1 .. (Len(s) - 1) -> S]
  BY <1>5, <1>6, LenProperties
<1> DEFINE c == a \o b
<1> HIDE DEF c
<1>9. c = [j \in 1 .. (Len(s) - 1) |-> s[IF j < i THEN j ELSE j + 1]]
  BY <1>7, <1>8 DEF c
<1> QED BY <1>4, <1>5, <1>9 DEF c

LEMMA LeastElement ==
  ASSUME NEW F \in SUBSET Nat, F # {}
  PROVE  \E i \in F : \A j \in F : ~(j < i)
<1> DEFINE T == {1 .. i : i \in F}
<1>1. T # {}
  OBVIOUS
<1>2. T \subseteq FiniteSubsetsOf(Nat)
  <2>1. ASSUME NEW i \in F PROVE 1 .. i \subseteq Nat /\ IsFiniteSet(1 .. i)
    BY FS_Interval
  <2> QED BY <2>1 DEF FiniteSubsetsOf
<1>3. PICK x \in T : \A y \in T : <<y, x>> \notin StrictSubsetOrdering(Nat)
  <2> HIDE DEF T
  <2> QED BY <1>1, <1>2, WFMin, FS_StrictSubsetOrderingWellFounded
<1>4. PICK i \in F : x = 1 .. i
  OBVIOUS
<1>5. ASSUME NEW j \in F, j < i PROVE FALSE
  <2>1. 1 .. j \subseteq 1 .. i /\ i \in 1 .. i /\ i \notin 1 .. j
    BY <1>5
  <2>2. 1 .. j \in SUBSET Nat /\ 1 .. i \in SUBSET Nat
    OBVIOUS
  <2>3. <<1 .. j, 1 .. i>> \in StrictSubsetOrdering(Nat)
    BY <2>1, <2>2 DEF StrictSubsetOrdering
  <2> QED BY <1>3, <1>4, <2>3
<1> QED BY <1>5
-----------------------------------------------------------------------------
(***************************************************************************)
(* What is queued after a task was pushed or taken.                        *)
(***************************************************************************)
LEMMA Pushed ==
  ASSUME TypeOK, NEW t \in Tasks, tasks' = Append(tasks, t)
  PROVE  /\ tasks' \in Seq(Tasks) /\ tasks' # <<>>
         /\ Waiting' = Waiting \cup {t}
         /\ PlaceInv /\ t \notin Waiting =>
              \A i, j \in DOMAIN tasks' : tasks'[i] = tasks'[j] => i = j
<1>1. /\ tasks \in Seq(Tasks) /\ Len(tasks) \in Nat /\ DOMAIN tasks = 1 .. Len(tasks)
      /\ \A i \in DOMAIN tasks : tasks[i] \in Tasks
  BY ElementOfSeq, LenProperties DEF TypeOK
<1>2. /\ tasks' \in Seq(Tasks) /\ tasks' # <<>>
      /\ DOMAIN tasks' = 1 .. (Len(tasks) + 1)
      /\ \A i \in 1 .. Len(tasks) : tasks'[i] = tasks[i]
      /\ tasks'[Len(tasks) + 1] = t
  BY <1>1, AppendProperties, LenProperties
<1>3. Waiting' = Waiting \cup {t}
  BY <1>1, <1>2 DEF Waiting
<1>4. ASSUME PlaceInv, t \notin Waiting,
             NEW i \in DOMAIN tasks', NEW j \in DOMAIN tasks', tasks'[i] = tasks'[j]
      PROVE  i = j
  <2>1. \A k \in DOMAIN tasks : tasks[k] # t
    BY <1>4 DEF Waiting
  <2> QED BY <1>1, <1>2, <1>4, <2>1 DEF PlaceInv
<1> QED BY <1>2, <1>3, <1>4

LEMMA Taken ==
  ASSUME TypeOK, PlaceInv, NEW i \in DOMAIN tasks, tasks' = RemoveAt(tasks, i)
  PROVE  /\ tasks' \in Seq(Tasks)
         /\ tasks[i] \in Waiting
         /\ Waiting' = Waiting \ {tasks[i]}
         /\ \A j, k \in DOMAIN tasks' : tasks'[j] = tasks'[k] => j = k
<1>1. /\ tasks \in Seq(Tasks) /\ Len(tasks) \in Nat /\ DOMAIN tasks = 1 .. Len(tasks)
      /\ \A j \in DOMAIN tasks : tasks[j] \in Tasks
  BY ElementOfSeq, LenProperties DEF TypeOK
<1>2. /\ tasks' \in Seq(Tasks)
      /\ tasks' = [j \in 1 .. (Len(tasks) - 1) |-> tasks[IF j < i THEN j ELSE j + 1]]
  BY <1>1, RemoveFrom
<1>3. \A j, k \in DOMAIN tasks : tasks[j] = tasks[k] => j = k
  BY DEF PlaceInv
<1>4. ASSUME NEW j \in DOMAIN tasks'
      PROVE  /\ (IF j < i THEN j ELSE j + 1) \in DOMAIN tasks \ {i}
             /\ tasks'[j] = tasks[IF j < i THEN j ELSE j + 1]
  BY <1>1, <1>2
<1>5. ASSUME NEW k \in DOMAIN tasks \ {i}
      PROVE  \E j \in DOMAIN tasks' : tasks'[j] = tasks[k]
  <2>1. CASE k < i
    <3>1. k \in DOMAIN tasks' /\ tasks'[k] = tasks[k]
      BY <1>1, <1>2, <2>1
    <3> QED BY <3>1
  <2>2. CASE k > i
    <3>1. k - 1 \in DOMAIN tasks' /\ tasks'[k - 1] = tasks[k]
      BY <1>1, <1>2, <2>2
    <3> QED BY <3>1
  <2> QED BY <1>1, <2>1, <2>2
<1>6. \A j, k \in DOMAIN tasks' : tasks'[j] = tasks'[k] => j = k
  BY <1>1, <1>2, <1>3, <1>4
<1>7. tasks[i] \in Waiting
  BY <1>1 DEF Waiting
<1>8. Waiting' = Waiting \ {tasks[i]}
  BY <1>1, <1>3, <1>4, <1>5 DEF Waiting
<1> QED BY <1>2, <1>6, <1>7, <1>8
-----------------------------------------------------------------------------
(***************************************************************************)
(* Types.  A counter that is decremented counts the task or worker at hand.*)
(***************************************************************************)
LEMMA NotifyTypes ==
  ASSUME TypeOK, NotifyOne \/ NotifyAll
  PROVE  /\ worker' \in [Workers -> {"awake", "asleep", "running", "exited"}]
         /\ waiter' \in [Waiters -> {"new", "awake", "asleep", "returned"}]
         /\ \A w \in Workers : worker'[w] = worker[w]
                               \/ (worker[w] = "asleep" /\ worker'[w] = "awake")
         /\ \A x \in Waiters : waiter'[x] = waiter[x]
                               \/ (waiter[x] = "asleep" /\ waiter'[x] = "awake")
<1>0. /\ worker \in [Workers -> {"awake", "asleep", "running", "exited"}]
      /\ waiter \in [Waiters -> {"new", "awake", "asleep", "returned"}]
  BY DEF TypeOK
<1>1. ASSUME NEW w \in Workers, worker[w] = "asleep",
             worker' = [worker EXCEPT ![w] = "awake"], UNCHANGED waiter
      PROVE  /\ worker' \in [Workers -> {"awake", "asleep", "running", "exited"}]
             /\ \A v \in Workers : worker'[v] = worker[v]
                                    \/ (worker[v] = "asleep" /\ worker'[v] = "awake")
  BY <1>0, <1>1
<1>2. ASSUME NEW x \in Waiters, waiter[x] = "asleep",
             waiter' = [waiter EXCEPT ![x] = "awake"], UNCHANGED worker
      PROVE  /\ waiter' \in [Waiters -> {"new", "awake", "asleep", "returned"}]
             /\ \A y \in Waiters : waiter'[y] = waiter[y]
                                    \/ (waiter[y] = "asleep" /\ waiter'[y] = "awake")
  BY <1>0, <1>2
<1>3. CASE NotifyOne
  BY <1>0, <1>1, <1>2, <1>3 DEF NotifyOne
<1>4. CASE NotifyAll
  <2>1. /\ worker' \in [Workers -> {"awake", "asleep", "running", "exited"}]
        /\ \A w \in Workers : worker'[w] = worker[w]
                               \/ (worker[w] = "asleep" /\ worker'[w] = "awake")
    BY <1>0, <1>4 DEF NotifyAll
  <2>2. /\ waiter' \in [Waiters -> {"new", "awake", "asleep", "returned"}]
        /\ \A x \in Waiters : waiter'[x] = waiter[x]
                               \/ (waiter[x] = "asleep" /\ waiter'[x] = "awake")
    BY <1>0, <1>4 DEF NotifyAll
  <2> QED BY <2>1, <2>2
<1> QED BY <1>3, <1>4

LEMMA NextType == ASSUME TypeOK, PlaceInv, CountInv, [Next]_vars PROVE TypeOK'
<1>1. ASSUME NEW t \in Tasks, EnqueueCheckStop(t), UNCHANGED serialized PROVE TypeOK'
  BY <1>1 DEF TypeOK, EnqueueCheckStop
<1>2. ASSUME NEW t \in Tasks, EnqueuePush(t), UNCHANGED serialized PROVE TypeOK'
  <2>1. tasks' \in Seq(Tasks)
    BY <1>2, Pushed DEF EnqueuePush
  <2>2. DOMAIN guards' \subseteq Groups /\ \A g \in DOMAIN guards' : guards'[g] \in BOOLEAN
    BY <1>2, ConstantsAssumption DEF EnqueuePush, WithGuard, TypeOK
  <2>3. num_nonexclusive' \in Nat
    BY <1>2 DEF EnqueuePush, TypeOK
  <2> QED BY <1>2, <2>1, <2>2, <2>3 DEF EnqueuePush, TypeOK
<1>3. ASSUME NEW t \in Tasks, EnqueueNotify(t), UNCHANGED serialized PROVE TypeOK'
  BY <1>3, NotifyTypes DEF TypeOK, EnqueueNotify
<1>4. ASSUME NEW w \in Workers, TakeTask(w), UNCHANGED serialized PROVE TypeOK'
  <2>1. PICK i \in DOMAIN tasks :
          /\ tasks' = RemoveAt(tasks, i)
          /\ num_nonexclusive' = CountTaken(tasks[i])
          /\ guards' = IF GroupOf[tasks[i]] = NonExclusive THEN guards
                       ELSE [guards EXCEPT ![GroupOf[tasks[i]]] = TRUE]
          /\ runs' = [runs EXCEPT ![w] = tasks[i]]
    BY <1>4 DEF TakeTask
  <2>2. tasks' \in Seq(Tasks) /\ tasks[i] \in Waiting
    BY <2>1, Taken
  <2>3. num_nonexclusive' \in Nat
    <3> DEFINE S == {t \in Waiting : GroupOf[t] = NonExclusive}
    <3>1. IsFiniteSet(S) /\ Cardinality(S) \in Nat
      BY ConstantsAssumption, FS_Subset, FS_CardinalityType DEF Waiting
    <3>2. CASE GroupOf[tasks[i]] = NonExclusive
      <4>1. Cardinality(S) # 0
        BY <2>2, <3>1, <3>2, FS_EmptySet
      <4> QED BY <2>1, <3>1, <3>2, <4>1 DEF CountTaken, CountInv
    <3>3. CASE GroupOf[tasks[i]] # NonExclusive
      BY <2>1, <3>3 DEF CountTaken, TypeOK
    <3> QED BY <3>2, <3>3
  <2>4. DOMAIN guards' \subseteq Groups /\ \A g \in DOMAIN guards' : guards'[g] \in BOOLEAN
    BY <2>1 DEF TypeOK
  <2>5. runs' \in [Workers -> Tasks \cup {NoTask}]
    BY <2>1, <2>2 DEF TypeOK, Waiting
  <2>6. worker' \in [Workers -> {"awake", "asleep", "running", "exited"}]
        /\ active_threads' \in Nat
    BY <1>4 DEF TakeTask, TypeOK
  <2>7. UNCHANGED <<serialized, stop, call, waiter, destructor, finished>>
    BY <1>4 DEF TakeTask
  <2> QED BY <2>2, <2>3, <2>4, <2>5, <2>6, <2>7 DEF TypeOK
<1>5. ASSUME NEW w \in Workers, FindNothing(w), UNCHANGED serialized PROVE TypeOK'
  BY <1>5 DEF TypeOK, FindNothing
<1>6. ASSUME NEW w \in Workers, FinishTask(w), UNCHANGED serialized PROVE TypeOK'
  <2>1. active_threads' \in Nat
    <3>1. IsFiniteSet(Busy) /\ Cardinality(Busy) \in Nat /\ w \in Busy
      BY <1>6, ConstantsAssumption, FS_Subset, FS_CardinalityType DEF Busy, FinishTask
    <3>2. Cardinality(Busy) # 0
      BY <3>1, FS_EmptySet
    <3> QED BY <1>6, <3>1, <3>2 DEF FinishTask, CountInv
  <2>2. DOMAIN guards' \subseteq Groups /\ \A g \in DOMAIN guards' : guards'[g] \in BOOLEAN
    BY <1>6 DEF TypeOK, FinishTask
  <2>3. runs[w] \in Tasks
    BY <1>6 DEF FinishTask, PlaceInv
  <2>4. /\ worker' \in [Workers -> {"awake", "asleep", "running", "exited"}]
        /\ waiter' \in [Waiters -> {"new", "awake", "asleep", "returned"}]
        /\ runs' \in [Workers -> Tasks \cup {NoTask}]
        /\ finished' \subseteq Tasks
    BY <1>6, <2>3 DEF TypeOK, FinishTask, WakeAfterTask
  <2> QED BY <1>6, <2>1, <2>2, <2>4 DEF TypeOK, FinishTask
<1>7. ASSUME NEW x \in Waiters, WaitForEmptyQueue(x), UNCHANGED serialized PROVE TypeOK'
  BY <1>7 DEF TypeOK, WaitForEmptyQueue
<1>8. CASE (Stop \/ DestructorStop \/ DestructorJoin) /\ UNCHANGED serialized
  BY <1>8 DEF TypeOK, Stop, DestructorStop, DestructorJoin
<1>9. CASE (SpuriousWakeup \/ DestructorNotify) /\ UNCHANGED serialized
  BY <1>9, NotifyTypes DEF TypeOK, SpuriousWakeup, DestructorNotify, DestructorWakes
<1>10. CASE UNCHANGED vars
  BY <1>10 DEF TypeOK, vars
<1> QED BY <1>1, <1>2, <1>3, <1>4, <1>5, <1>6, <1>7, <1>8, <1>9, <1>10
        DEF Next, EnqueueNext, WorkerNext, WaiterNext, DestructorNext, Calls, Done
-----------------------------------------------------------------------------
(***************************************************************************)
(* Most steps move no task.                                                *)
(***************************************************************************)
Quiet == /\ UNCHANGED <<tasks, guards, num_nonexclusive, active_threads, runs, finished>>
         /\ \A w \in Workers : worker'[w] = "running" <=> worker[w] = "running"
         /\ \A t \in Tasks : call'[t] \in {"pushed", "accepted"}
                               <=> call[t] \in {"pushed", "accepted"}

LEMMA MostStepsAreQuiet ==
  ASSUME TypeOK, [Next]_vars
  PROVE  \/ Quiet
         \/ \E t \in Tasks : EnqueuePush(t)
         \/ \E w \in Workers : TakeTask(w) \/ FinishTask(w)
<1>1. ASSUME NEW t \in Tasks, EnqueueCheckStop(t) PROVE Quiet
  BY <1>1 DEF TypeOK, EnqueueCheckStop, Quiet
<1>2. ASSUME NEW t \in Tasks, EnqueueNotify(t) PROVE Quiet
  BY <1>2, NotifyTypes DEF TypeOK, EnqueueNotify, Quiet
<1>3. ASSUME NEW w \in Workers, FindNothing(w) PROVE Quiet
  BY <1>3 DEF TypeOK, FindNothing, Quiet
<1>4. ASSUME NEW x \in Waiters, WaitForEmptyQueue(x) PROVE Quiet
  BY <1>4 DEF WaitForEmptyQueue, Quiet
<1>5. CASE Stop \/ DestructorStop \/ DestructorJoin
  BY <1>5 DEF Stop, DestructorStop, DestructorJoin, Quiet
<1>6. CASE SpuriousWakeup \/ DestructorNotify
  BY <1>6, NotifyTypes DEF SpuriousWakeup, DestructorNotify, DestructorWakes, Quiet
<1>7. CASE UNCHANGED vars
  BY <1>7 DEF Quiet, vars
<1> QED BY <1>1, <1>2, <1>3, <1>4, <1>5, <1>6, <1>7
        DEF Next, EnqueueNext, WorkerNext, WaiterNext, DestructorNext, Calls, Done
-----------------------------------------------------------------------------
LEMMA QuietSets ==
  ASSUME Quiet
  PROVE  Waiting' = Waiting /\ Busy' = Busy /\ Running' = Running
BY DEF Quiet, Waiting, Busy, Running

LEMMA TakeSets ==
  ASSUME TypeOK, PlaceInv, NEW w \in Workers, NEW i \in DOMAIN tasks, worker[w] = "awake",
         worker' = [worker EXCEPT ![w] = "running"],
         tasks' = RemoveAt(tasks, i),
         runs' = [runs EXCEPT ![w] = tasks[i]]
  PROVE  /\ tasks[i] \in Waiting /\ tasks[i] \in Tasks /\ w \notin Busy
         /\ Waiting' = Waiting \ {tasks[i]}
         /\ Busy' = Busy \cup {w}
         /\ Running' = Running \cup {tasks[i]}
         /\ runs'[w] = tasks[i] /\ \A v \in Busy : runs'[v] = runs[v]
<1>1. tasks[i] \in Waiting /\ Waiting' = Waiting \ {tasks[i]}
  BY Taken
<1>2. /\ worker \in [Workers -> {"awake", "asleep", "running", "exited"}]
      /\ runs \in [Workers -> Tasks \cup {NoTask}]
  BY DEF TypeOK
<1>3. w \notin Busy /\ Busy' = Busy \cup {w}
  BY <1>2 DEF Busy
<1>4. runs'[w] = tasks[i] /\ \A v \in Busy : runs'[v] = runs[v]
  BY <1>2, <1>3 DEF Busy
<1>5. Running' = Running \cup {tasks[i]}
  BY <1>3, <1>4 DEF Running, Busy
<1>6. tasks[i] \in Tasks
  BY <1>1 DEF Waiting
<1> QED BY <1>1, <1>3, <1>4, <1>5, <1>6

LEMMA FinishSets ==
  ASSUME TypeOK, PlaceInv, NEW w \in Workers, FinishTask(w)
  PROVE  /\ w \in Busy /\ runs[w] \in Tasks /\ runs[w] \in Running
         /\ Waiting' = Waiting
         /\ Busy' = Busy \ {w}
         /\ Running' = Running \ {runs[w]}
         /\ \A v \in Busy \ {w} : runs'[v] = runs[v]
         /\ runs'[w] = NoTask
<1>1. /\ worker \in [Workers -> {"awake", "asleep", "running", "exited"}]
      /\ runs \in [Workers -> Tasks \cup {NoTask}]
  BY DEF TypeOK
<1>2. w \in Busy /\ runs[w] \in Tasks /\ Waiting' = Waiting
  BY DEF FinishTask, Busy, PlaceInv, Waiting
<1>3. Busy' = Busy \ {w}
  BY <1>1 DEF FinishTask, WakeAfterTask, Busy
<1>4. runs'[w] = NoTask /\ \A v \in Busy \ {w} : runs'[v] = runs[v]
  BY <1>1 DEF FinishTask, Busy
<1>5. \A v \in Busy : runs[v] = runs[w] => v = w
  BY <1>2 DEF PlaceInv
<1>6. Running' = Running \ {runs[w]} /\ runs[w] \in Running
  BY <1>2, <1>3, <1>4, <1>5 DEF Running, Busy
<1> QED BY <1>2, <1>3, <1>4, <1>6
-----------------------------------------------------------------------------
LEMMA NextPlace == ASSUME TypeOK, PlaceInv, [Next]_vars PROVE PlaceInv'
<1>1. CASE Quiet
  <2>1. UNCHANGED <<tasks, runs, finished>>
    BY <1>1 DEF Quiet
  <2>2. \A w \in Workers : worker'[w] = "running" <=> worker[w] = "running"
    BY <1>1 DEF Quiet
  <2>3. \A t \in Tasks : call'[t] \in {"pushed", "accepted"}
                           <=> call[t] \in {"pushed", "accepted"}
    BY <1>1 DEF Quiet
  <2> QED BY <1>1, <2>1, <2>2, <2>3, QuietSets DEF PlaceInv
<1>2. ASSUME NEW t \in Tasks, EnqueuePush(t) PROVE PlaceInv'
  <2>1. t \notin Waiting /\ t \notin Running /\ t \notin finished
    BY <1>2 DEF EnqueuePush, PlaceInv
  <2>2. /\ Waiting' = Waiting \cup {t}
        /\ \A i, j \in DOMAIN tasks' : tasks'[i] = tasks'[j] => i = j
    BY <1>2, <2>1, Pushed DEF EnqueuePush
  <2>3. Busy' = Busy /\ Running' = Running /\ UNCHANGED <<runs, worker, finished>>
    BY <1>2 DEF EnqueuePush, Busy, Running
  <2>4. \A u \in Tasks : call'[u] = IF u = t THEN "pushed" ELSE call[u]
    BY <1>2 DEF EnqueuePush, TypeOK
  <2>5. \A u \in Tasks : call'[u] \in {"pushed", "accepted"}
                        <=> u \in Waiting' \/ u \in Running' \/ u \in finished'
    BY <2>1, <2>2, <2>3, <2>4 DEF PlaceInv
  <2>6. \A u \in Tasks : \/ u \notin Waiting' /\ u \notin finished'
                         \/ u \notin Waiting' /\ u \notin Running'
                         \/ u \notin Running' /\ u \notin finished'
    BY <2>1, <2>2, <2>3 DEF PlaceInv
  <2>7. /\ \A w \in Workers : worker'[w] = "running" <=> runs'[w] \in Tasks
        /\ \A v, w \in Busy' : runs'[v] = runs'[w] => v = w
    BY <2>3 DEF PlaceInv
  <2> QED BY <2>2, <2>5, <2>6, <2>7 DEF PlaceInv
<1>3. ASSUME NEW w \in Workers, TakeTask(w) PROVE PlaceInv'
  <2>1. PICK i \in DOMAIN tasks :
          /\ tasks' = RemoveAt(tasks, i)
          /\ runs' = [runs EXCEPT ![w] = tasks[i]]
    BY <1>3 DEF TakeTask
  <2> DEFINE t == tasks[i]
  <2>2. /\ worker[w] = "awake" /\ worker' = [worker EXCEPT ![w] = "running"]
        /\ UNCHANGED <<call, finished>>
    BY <1>3 DEF TakeTask
  <2>3. /\ t \in Waiting /\ t \in Tasks /\ w \notin Busy
        /\ Waiting' = Waiting \ {t} /\ Busy' = Busy \cup {w}
        /\ Running' = Running \cup {t}
        /\ runs'[w] = t /\ \A v \in Busy : runs'[v] = runs[v]
    BY <2>1, <2>2, TakeSets
  <2>4. \A i1, j \in DOMAIN tasks' : tasks'[i1] = tasks'[j] => i1 = j
    BY <2>1, Taken
  <2> HIDE DEF t
  <2>5. \A u \in Tasks : call'[u] \in {"pushed", "accepted"}
                        <=> u \in Waiting' \/ u \in Running' \/ u \in finished'
    BY <2>2, <2>3 DEF PlaceInv
  <2>6. \A u \in Tasks : \/ u \notin Waiting' /\ u \notin finished'
                         \/ u \notin Waiting' /\ u \notin Running'
                         \/ u \notin Running' /\ u \notin finished'
    BY <2>2, <2>3 DEF PlaceInv
  <2>7. \A v \in Workers : worker'[v] = "running" <=> runs'[v] \in Tasks
    BY <2>1, <2>2, <2>3 DEF PlaceInv, TypeOK
  <2>8. \A v \in Busy : runs[v] # t
    <3>1. t \notin Running
      BY <2>3 DEF PlaceInv
    <3> QED BY <3>1 DEF Running, Busy
  <2>9. \A u, v \in Busy' : runs'[u] = runs'[v] => u = v
    BY <2>3, <2>8 DEF PlaceInv
  <2> QED BY <2>4, <2>5, <2>6, <2>7, <2>9 DEF PlaceInv
<1>4. ASSUME NEW w \in Workers, FinishTask(w) PROVE PlaceInv'
  <2> DEFINE t == runs[w]
  <2>1. /\ w \in Busy /\ t \in Tasks /\ t \in Running
        /\ Waiting' = Waiting /\ Busy' = Busy \ {w} /\ Running' = Running \ {t}
        /\ \A v \in Busy \ {w} : runs'[v] = runs[v]
        /\ runs'[w] = NoTask
    BY <1>4, FinishSets
  <2>2. UNCHANGED <<tasks, call>> /\ finished' = finished \cup {t}
    BY <1>4 DEF FinishTask
  <2>3. \A u \in Tasks : call'[u] \in {"pushed", "accepted"}
                        <=> u \in Waiting' \/ u \in Running' \/ u \in finished'
    BY <2>1, <2>2 DEF PlaceInv
  <2>4. \A u \in Tasks : \/ u \notin Waiting' /\ u \notin finished'
                         \/ u \notin Waiting' /\ u \notin Running'
                         \/ u \notin Running' /\ u \notin finished'
    BY <2>1, <2>2 DEF PlaceInv
  <2>5. \A v \in Workers : worker'[v] = "running" <=> runs'[v] \in Tasks
    <3>1. \A v \in Workers : v # w => runs'[v] = runs[v] /\ (v \in Busy' <=> v \in Busy)
      BY <1>4, <2>1 DEF FinishTask, TypeOK
    <3>2. w \notin Busy' /\ runs'[w] \notin Tasks
      BY <2>1, ConstantsAssumption
    <3> QED BY <3>1, <3>2 DEF PlaceInv, Busy
  <2>6. \A u, v \in Busy' : runs'[u] = runs'[v] => u = v
    BY <2>1 DEF PlaceInv
  <2>7. \A i, j \in DOMAIN tasks' : tasks'[i] = tasks'[j] => i = j
    BY <2>2 DEF PlaceInv
  <2> QED BY <2>3, <2>4, <2>5, <2>6, <2>7 DEF PlaceInv
<1> QED BY <1>1, <1>2, <1>3, <1>4, MostStepsAreQuiet
-----------------------------------------------------------------------------
LEMMA NextGuards ==
  ASSUME TypeOK, PlaceInv, GuardInv, [Next]_vars
  PROVE  GuardInv'
<1>1. CASE Quiet
  BY <1>1, QuietSets DEF Quiet, GuardInv
<1>2. ASSUME NEW t \in Tasks, EnqueuePush(t) PROVE GuardInv'
  <2>1. Waiting' = Waiting \cup {t}
    BY <1>2, Pushed DEF EnqueuePush
  <2>2. Busy' = Busy /\ UNCHANGED runs
    BY <1>2 DEF EnqueuePush, Busy
  <2>3. /\ GroupOf[t] # NonExclusive => GroupOf[t] \in DOMAIN guards'
        /\ \A g \in DOMAIN guards : g \in DOMAIN guards' /\ guards'[g] = guards[g]
        /\ \A g \in DOMAIN guards' : g \in DOMAIN guards \/ ~guards'[g]
    BY <1>2 DEF EnqueuePush, WithGuard
  <2>4. \A g \in DOMAIN guards' : guards'[g] => \E w \in Busy' : GroupOf[runs'[w]] = g
    BY <2>2, <2>3 DEF GuardInv
  <2>5. \A u \in Waiting' : GroupOf[u] # NonExclusive => GroupOf[u] \in DOMAIN guards'
    BY <2>1, <2>3 DEF GuardInv
  <2>6. \A w \in Busy' : GroupOf[runs'[w]] # NonExclusive =>
          GroupOf[runs'[w]] \in DOMAIN guards' /\ guards'[GroupOf[runs'[w]]]
    BY <2>2, <2>3 DEF GuardInv
  <2> QED BY <2>2, <2>4, <2>5, <2>6 DEF GuardInv
<1>3. ASSUME NEW w \in Workers, TakeTask(w) PROVE GuardInv'
  <2>1. PICK i \in DOMAIN tasks :
          /\ Selectable(i)
          /\ tasks' = RemoveAt(tasks, i)
          /\ runs' = [runs EXCEPT ![w] = tasks[i]]
          /\ guards' = IF GroupOf[tasks[i]] = NonExclusive THEN guards
                       ELSE [guards EXCEPT ![GroupOf[tasks[i]]] = TRUE]
    BY <1>3 DEF TakeTask
  <2> DEFINE t == tasks[i]
             g == GroupOf[t]
  <2>2. worker[w] = "awake" /\ worker' = [worker EXCEPT ![w] = "running"]
    BY <1>3 DEF TakeTask
  <2>3. /\ t \in Waiting /\ w \notin Busy
        /\ Waiting' = Waiting \ {t} /\ Busy' = Busy \cup {w}
        /\ runs'[w] = t /\ \A v \in Busy : runs'[v] = runs[v]
    BY <2>1, <2>2, TakeSets
  <2>4. g # NonExclusive => g \in DOMAIN guards /\ ~guards[g]
    BY <2>1, <2>3 DEF Selectable, Free, GuardInv
  <2>5. g # NonExclusive => \A v \in Busy : GroupOf[runs[v]] # g
    BY <2>4 DEF GuardInv
  <2>6. /\ DOMAIN guards' = DOMAIN guards
        /\ \A h \in DOMAIN guards : h # g => guards'[h] = guards[h]
        /\ g # NonExclusive => guards'[g]
        /\ g = NonExclusive => guards' = guards
    BY <2>1, <2>4
  <2> HIDE DEF t, g
  <2>7. /\ \A u \in Waiting' : GroupOf[u] # NonExclusive => GroupOf[u] \in DOMAIN guards'
        /\ \A u, v \in Busy' : GroupOf[runs'[u]] # NonExclusive
                            /\ GroupOf[runs'[u]] = GroupOf[runs'[v]] => u = v
    BY <2>3, <2>5, <2>6 DEF GuardInv, g
  <2>8. \A v \in Busy' : GroupOf[runs'[v]] # NonExclusive =>
          GroupOf[runs'[v]] \in DOMAIN guards' /\ guards'[GroupOf[runs'[v]]]
    BY <2>3, <2>4, <2>5, <2>6 DEF GuardInv, g
  <2>9. \A h \in DOMAIN guards' : guards'[h] => \E v \in Busy' : GroupOf[runs'[v]] = h
    BY <2>3, <2>6 DEF GuardInv, g
  <2> QED BY <2>7, <2>8, <2>9 DEF GuardInv
<1>4. ASSUME NEW w \in Workers, FinishTask(w) PROVE GuardInv'
  <2> DEFINE g == GroupOf[runs[w]]
  <2>1. /\ w \in Busy /\ Waiting' = Waiting /\ Busy' = Busy \ {w}
        /\ \A v \in Busy \ {w} : runs'[v] = runs[v]
    BY <1>4, FinishSets
  <2>2. /\ DOMAIN guards' = DOMAIN guards
        /\ \A h \in DOMAIN guards : h # g => guards'[h] = guards[h]
        /\ g # NonExclusive => g \in DOMAIN guards /\ ~guards'[g]
        /\ g = NonExclusive => guards' = guards
    BY <1>4, <2>1 DEF FinishTask, GuardInv
  <2>3. \A v \in Busy' : GroupOf[runs[v]] # NonExclusive => GroupOf[runs[v]] # g
    BY <2>1 DEF GuardInv
  <2>4. NonExclusive \notin DOMAIN guards
    BY ConstantsAssumption DEF TypeOK
  <2> HIDE DEF g
  <2>5. /\ \A u \in Waiting' : GroupOf[u] # NonExclusive => GroupOf[u] \in DOMAIN guards'
        /\ \A u, v \in Busy' : GroupOf[runs'[u]] # NonExclusive
                            /\ GroupOf[runs'[u]] = GroupOf[runs'[v]] => u = v
    BY <2>1, <2>2 DEF GuardInv
  <2>6. \A v \in Busy' : GroupOf[runs'[v]] # NonExclusive =>
          GroupOf[runs'[v]] \in DOMAIN guards' /\ guards'[GroupOf[runs'[v]]]
    BY <2>1, <2>2, <2>3 DEF GuardInv
  <2>7. \A h \in DOMAIN guards' : guards'[h] => \E v \in Busy' : GroupOf[runs'[v]] = h
    BY <2>1, <2>2, <2>4 DEF GuardInv, g
  <2> QED BY <2>5, <2>6, <2>7 DEF GuardInv
<1> QED BY <1>1, <1>2, <1>3, <1>4, MostStepsAreQuiet
-----------------------------------------------------------------------------
LEMMA NextCounters ==
  ASSUME TypeOK, PlaceInv, CountInv, [Next]_vars
  PROVE  CountInv'
<1> DEFINE Loose == {t \in Waiting : GroupOf[t] = NonExclusive}
<1>1. /\ IsFiniteSet(Loose) /\ IsFiniteSet(Busy)
      /\ Cardinality(Loose) \in Nat /\ Cardinality(Busy) \in Nat
  <2>1. Loose \in SUBSET Tasks /\ Busy \in SUBSET Workers
    BY DEF Waiting, Busy
  <2> QED BY <2>1, ConstantsAssumption, FS_Subset, FS_CardinalityType
<1>2. num_nonexclusive = Cardinality(Loose) /\ active_threads = Cardinality(Busy)
  BY DEF CountInv
<1>3. CASE Quiet
  BY <1>3, QuietSets DEF Quiet, CountInv
<1>4. ASSUME NEW t \in Tasks, EnqueuePush(t) PROVE CountInv'
  <2>1. t \notin Waiting
    BY <1>4 DEF EnqueuePush, PlaceInv
  <2>2. Waiting' = Waiting \cup {t} /\ Busy' = Busy
    BY <1>4, Pushed DEF EnqueuePush, Busy
  <2>3. Loose' = IF GroupOf[t] = NonExclusive THEN Loose \cup {t} ELSE Loose
    BY <2>2
  <2>4. t \notin Loose
    BY <2>1
  <2> HIDE DEF Loose
  <2>5. num_nonexclusive' = Cardinality(Loose')
    <3>1. Cardinality(Loose \cup {t}) = Cardinality(Loose) + 1
      BY <1>1, <2>4, FS_AddElement
    <3>2. CASE GroupOf[t] = NonExclusive
      BY <1>2, <1>4, <2>3, <3>1, <3>2 DEF EnqueuePush
    <3>3. CASE GroupOf[t] # NonExclusive
      BY <1>1, <1>2, <1>4, <2>3, <3>3 DEF EnqueuePush
    <3> QED BY <3>2, <3>3
  <2> QED BY <1>2, <1>4, <2>2, <2>5 DEF EnqueuePush, CountInv, Loose
<1>5. ASSUME NEW w \in Workers, TakeTask(w) PROVE CountInv'
  <2>1. PICK i \in DOMAIN tasks :
          /\ tasks' = RemoveAt(tasks, i)
          /\ num_nonexclusive' = CountTaken(tasks[i])
          /\ runs' = [runs EXCEPT ![w] = tasks[i]]
    BY <1>5 DEF TakeTask
  <2> DEFINE t == tasks[i]
  <2>2. worker[w] = "awake" /\ worker' = [worker EXCEPT ![w] = "running"]
    BY <1>5 DEF TakeTask
  <2>3. /\ t \in Waiting /\ w \notin Busy
        /\ Waiting' = Waiting \ {t} /\ Busy' = Busy \cup {w}
    BY <2>1, <2>2, TakeSets
  <2> HIDE DEF t
  <2>4. Loose' = Loose \ {t} /\ (t \in Loose <=> GroupOf[t] = NonExclusive)
    BY <2>3
  <2> HIDE DEF Loose
  <2>5. num_nonexclusive' = Cardinality(Loose')
    <3>1. Cardinality(Loose \ {t})
            = IF t \in Loose THEN Cardinality(Loose) - 1 ELSE Cardinality(Loose)
      BY <1>1, FS_RemoveElement
    <3>2. CASE t \in Loose
      BY <1>2, <2>1, <2>4, <3>1, <3>2 DEF CountTaken, t
    <3>3. CASE t \notin Loose
      BY <1>1, <1>2, <2>1, <2>4, <3>1, <3>3 DEF CountTaken, t
    <3> QED BY <3>2, <3>3
  <2>6. active_threads' = Cardinality(Busy')
    BY <1>1, <1>2, <1>5, <2>3, FS_AddElement DEF TakeTask
  <2> QED BY <2>5, <2>6 DEF CountInv, Loose
<1>6. ASSUME NEW w \in Workers, FinishTask(w) PROVE CountInv'
  <2>1. w \in Busy /\ Waiting' = Waiting /\ Busy' = Busy \ {w}
    BY <1>6, FinishSets
  <2>2. active_threads' = Cardinality(Busy')
    BY <1>1, <1>2, <1>6, <2>1, FS_RemoveElement DEF FinishTask
  <2> QED BY <1>6, <2>1, <2>2 DEF FinishTask, CountInv
<1> QED BY <1>3, <1>4, <1>5, <1>6, MostStepsAreQuiet
-----------------------------------------------------------------------------
(***************************************************************************)
(* Stopping.                                                               *)
(***************************************************************************)
LEMMA StopKept ==
  ASSUME StopInv, UNCHANGED serialized, UNCHANGED stop, UNCHANGED tasks,
         \A t \in Tasks : call'[t] \in {"checked", "pushed"}
                            => call[t] \in {"checked", "pushed"} \/ ~stop,
         \A w \in Workers : worker'[w] = "exited" => worker[w] = "exited"
  PROVE  StopInv'
BY DEF StopInv

LEMMA NextStop == ASSUME TypeOK, StopInv, [Next]_vars PROVE StopInv'
<1>0. /\ worker \in [Workers -> {"awake", "asleep", "running", "exited"}]
      /\ call \in [Tasks -> {"new", "checked", "pushed", "accepted", "rejected"}]
  BY DEF TypeOK
<1>1. ASSUME NEW t \in Tasks, EnqueueCheckStop(t), UNCHANGED serialized PROVE StopInv'
  BY <1>0, <1>1, StopKept DEF EnqueueCheckStop
<1>2. ASSUME NEW t \in Tasks, EnqueuePush(t), UNCHANGED serialized PROVE StopInv'
  <2>1. UNCHANGED <<stop, worker>> /\ call[t] = "checked"
        /\ \A u \in Tasks : call'[u] = IF u = t THEN "pushed" ELSE call[u]
    BY <1>0, <1>2 DEF EnqueuePush
  <2> QED BY <1>2, <2>1 DEF StopInv
<1>3. ASSUME NEW t \in Tasks, EnqueueNotify(t), UNCHANGED serialized PROVE StopInv'
  <2>1. \A w \in Workers : worker'[w] = "exited" => worker[w] = "exited"
    BY <1>3, NotifyTypes DEF EnqueueNotify
  <2> QED BY <1>0, <1>3, <2>1, StopKept DEF EnqueueNotify
<1>4. ASSUME NEW w \in Workers, TakeTask(w), UNCHANGED serialized PROVE StopInv'
  <2>1. UNCHANGED <<stop, call>> /\ tasks # <<>>
        /\ \A v \in Workers : worker'[v] = "exited" => worker[v] = "exited"
    BY <1>0, <1>4 DEF TakeTask
  <2> QED BY <1>4, <2>1 DEF StopInv
<1>5. ASSUME NEW w \in Workers, FindNothing(w), UNCHANGED serialized PROVE StopInv'
  <2>1. UNCHANGED <<stop, call, tasks>>
    BY <1>5 DEF FindNothing
  <2>2. \A v \in Workers : v # w => worker'[v] = worker[v]
    BY <1>0, <1>5 DEF FindNothing
  <2>3. worker'[w] = "exited" => MayExit
    <3>1. worker'[w] = IF MayExit THEN "exited" ELSE "asleep"
      BY <1>0, <1>5 DEF FindNothing
    <3> QED BY <3>1
  <2>4. CASE MayExit
    BY <1>5, <2>1, <2>4 DEF StopInv, MayExit
  <2>5. CASE ~MayExit
    BY <1>5, <2>1, <2>2, <2>3, <2>5, StopKept
  <2> QED BY <2>4, <2>5
<1>6. ASSUME NEW w \in Workers, FinishTask(w), UNCHANGED serialized PROVE StopInv'
  <2>1. \A v \in Workers : worker'[v] = "exited" => worker[v] = "exited"
    BY <1>0, <1>6 DEF FinishTask, WakeAfterTask
  <2> QED BY <1>6, <2>1, StopKept DEF FinishTask
<1>7. ASSUME NEW x \in Waiters, WaitForEmptyQueue(x), UNCHANGED serialized PROVE StopInv'
  BY <1>7, StopKept DEF WaitForEmptyQueue
<1>8. CASE (Stop \/ DestructorStop) /\ UNCHANGED serialized
  <2>1. serialized => \A t \in Tasks : call[t] \notin {"checked", "pushed"}
    BY <1>8 DEF Stop, DestructorStop, MayCall, Enqueuing
  <2> QED BY <1>8, <2>1 DEF Stop, DestructorStop, StopInv
<1>9. CASE DestructorJoin /\ UNCHANGED serialized
  BY <1>9, StopKept DEF DestructorJoin
<1>10. CASE (SpuriousWakeup \/ DestructorNotify) /\ UNCHANGED serialized
  <2>1. \A w \in Workers : worker'[w] = "exited" => worker[w] = "exited"
    BY <1>10, NotifyTypes DEF SpuriousWakeup, DestructorNotify, DestructorWakes
  <2> QED BY <1>10, <2>1, StopKept DEF SpuriousWakeup, DestructorNotify
<1>11. CASE UNCHANGED vars
  BY <1>11, StopKept DEF vars
<1> QED BY <1>1, <1>2, <1>3, <1>4, <1>5, <1>6, <1>7, <1>8, <1>9, <1>10, <1>11
        DEF Next, EnqueueNext, WorkerNext, WaiterNext, DestructorNext, Calls, Done
-----------------------------------------------------------------------------
(***************************************************************************)
(* Notifications.  Pushing a task adds at most one claim and one notice;   *)
(* the notice wakes a worker; a worker that starts a task takes a claim    *)
(* with it; and one that falls asleep has seen that there is no claim.     *)
(***************************************************************************)
WakeCounts ==
  /\ IsFiniteSet(Awake) /\ Cardinality(Awake) \in Nat
  /\ IsFiniteSet(Notices) /\ Cardinality(Notices) \in Nat
  /\ IsFiniteSet(Claims) /\ Cardinality(Claims) \in Nat

LEMMA WakeFinite == WakeCounts
<1>1. Awake \in SUBSET Workers /\ Notices \in SUBSET Tasks
  BY DEF Awake, Notices
<1> DEFINE S == {t \in Tasks : Ready(t)}
           f == [t \in S |-> Claim(t)]
<1>2. IsFiniteSet(S)
  BY ConstantsAssumption, FS_Subset
<1>3. f \in Surjection(S, Claims)
  BY DEF Surjection, Claims
<1> HIDE DEF S, f
<1>4. IsFiniteSet(Claims)
  BY <1>2, <1>3, FS_Surjection
<1> QED BY <1>1, <1>4, ConstantsAssumption, FS_Subset, FS_CardinalityType DEF WakeCounts

LEMMA WakeFiniteNext == WakeCounts'
BY WakeFinite, PTL

LEMMA ClaimsDiffer ==
  ASSUME NEW t \in Tasks, NEW u \in Tasks
  PROVE  Claim(t) = Claim(u) <=> t = u \/ (GroupOf[t] # NonExclusive /\ GroupOf[t] = GroupOf[u])
BY DEF Claim

\* A step that starts nothing, and neither puts a worker to sleep nor takes a notice back.
LEMMA WakeKept ==
  ASSUME TypeOK, WakeInv, UNCHANGED <<tasks, guards>>,
         \A x \in Waiters : waiter'[x] = "new" => waiter[x] = "new",
         \A w \in Workers : /\ worker'[w] = "asleep" => worker[w] = "asleep"
                            /\ worker[w] = "awake" => worker'[w] = "awake",
         \A t \in Tasks : call[t] = "pushed" => call'[t] = "pushed"
  PROVE  WakeInv'
<1>1. Claims' = Claims
  BY DEF Claims, Claim, Ready, Waiting
<1>2. Awake \in SUBSET Awake' /\ Notices \in SUBSET Notices'
  BY DEF Awake, Notices
<1>3. Cardinality(Awake) <= Cardinality(Awake') /\ Cardinality(Notices) <= Cardinality(Notices')
  BY <1>2, WakeFiniteNext, FS_Subset DEF WakeCounts
<1>4. Helpers' >= Helpers
  BY <1>3, WakeFinite, WakeFiniteNext DEF Helpers, WakeCounts
<1> QED BY <1>1, <1>4, WakeFinite, WakeFiniteNext DEF WakeInv, WakeCounts, Helpers

\* A worker that finds nothing to select overlooks nothing: the test of the guards and of the
\* counter before the scan of the queue rules out no task that is free.
LEMMA NoClaimUnseen ==
  ASSUME TypeOK, GuardInv, CountInv, \A i \in DOMAIN tasks : ~Selectable(i)
  PROVE  \A i \in DOMAIN tasks : ~Free(i)
<1> SUFFICES ASSUME NEW i \in DOMAIN tasks, Free(i) PROVE FALSE
  OBVIOUS
<1>1. /\ DOMAIN tasks = 1 .. Len(tasks) /\ Len(tasks) \in Nat
      /\ \A j \in DOMAIN tasks : tasks[j] \in Waiting
  BY LenProperties, ElementOfSeq DEF TypeOK, Waiting
<1>2. WorthScanning
  <2>1. CASE GroupOf[tasks[i]] = NonExclusive
    <3> DEFINE S == {t \in Waiting : GroupOf[t] = NonExclusive}
    <3>1. S \in SUBSET Tasks /\ tasks[i] \in S
      BY <1>1, <2>1 DEF Waiting
    <3> HIDE DEF S
    <3>2. IsFiniteSet(S) /\ Cardinality(S) \in Nat /\ Cardinality(S) # 0
      BY <3>1, ConstantsAssumption, FS_Subset, FS_CardinalityType, FS_EmptySet
    <3> QED BY <3>2 DEF WorthScanning, CountInv, S
  <2>2. CASE GroupOf[tasks[i]] # NonExclusive
    BY <1>1, <2>2 DEF Free, GuardInv, WorthScanning, AllGuardsActive
  <2> QED BY <2>1, <2>2
<1> DEFINE F == {j \in DOMAIN tasks : Free(j)}
<1>3. PICK k \in F : \A j \in F : ~(j < k)
  <2>1. F \in SUBSET Nat /\ F # {}
    BY <1>1
  <2> HIDE DEF F
  <2> QED BY <2>1, LeastElement
<1>4. \A j \in 1 .. (k - 1) : ~Free(j)
  BY <1>1, <1>3
<1>5. Selectable(k)
  BY <1>2, <1>3, <1>4 DEF Selectable
<1> QED BY <1>3, <1>5

LEMMA ClaimsOpen ==
  ASSUME TypeOK
  PROVE  Claims = {} <=> \A i \in DOMAIN tasks : ~Free(i)
<1>1. \A i \in DOMAIN tasks : tasks[i] \in Waiting /\ tasks[i] \in Tasks
  BY ElementOfSeq, LenProperties DEF TypeOK, Waiting
<1>2. \A i \in DOMAIN tasks : Free(i) <=> Ready(tasks[i])
  BY <1>1 DEF Free, Ready
<1>3. ASSUME NEW t \in Tasks, Ready(t) PROVE \E i \in DOMAIN tasks : Free(i)
  BY <1>2, <1>3 DEF Ready, Waiting
<1> QED BY <1>1, <1>2, <1>3 DEF Claims
-----------------------------------------------------------------------------
LEMMA NextWake ==
  ASSUME TypeOK, PlaceInv, GuardInv, CountInv, WakeInv, [Next]_vars
  PROVE  WakeInv'
<1> USE WakeFinite, WakeFiniteNext DEF WakeCounts
<1>0. /\ worker \in [Workers -> {"awake", "asleep", "running", "exited"}]
      /\ waiter \in [Waiters -> {"new", "awake", "asleep", "returned"}]
      /\ call \in [Tasks -> {"new", "checked", "pushed", "accepted", "rejected"}]
  BY DEF TypeOK
<1>1. ASSUME NEW t \in Tasks, EnqueueCheckStop(t) PROVE WakeInv'
  BY <1>0, <1>1, WakeKept DEF EnqueueCheckStop
<1>2. ASSUME NEW t \in Tasks, EnqueuePush(t) PROVE WakeInv'
  <2>1. Waiting' = Waiting \cup {t} /\ UNCHANGED <<worker, waiter>>
        /\ t \notin Notices /\ Notices' = Notices \cup {t} /\ Awake' = Awake
    BY <1>0, <1>2, Pushed DEF EnqueuePush, Notices, Awake
  <2>2. ASSUME NEW u \in Tasks, Ready(u)' PROVE u = t \/ Ready(u)
    <3>1. \A g \in DOMAIN guards : guards'[g] = guards[g]
      BY <1>2 DEF EnqueuePush, WithGuard
    <3> QED BY <2>1, <2>2, <3>1 DEF Ready, GuardInv
  <2>3. Claims' \in SUBSET (Claims \cup {Claim(t)})
    BY <2>2 DEF Claims, Claim
  <2>4. Cardinality(Claims') <= Cardinality(Claims) + 1
    <3>1. /\ IsFiniteSet(Claims \cup {Claim(t)})
          /\ Cardinality(Claims \cup {Claim(t)}) \in Nat
          /\ Cardinality(Claims \cup {Claim(t)}) <= Cardinality(Claims) + 1
      <4>1. /\ IsFiniteSet(Claims \cup {Claim(t)})
            /\ Cardinality(Claims \cup {Claim(t)})
                 = IF Claim(t) \in Claims THEN Cardinality(Claims) ELSE Cardinality(Claims) + 1
        BY FS_AddElement
      <4> QED BY <4>1
    <3>2. Cardinality(Claims') <= Cardinality(Claims \cup {Claim(t)})
      BY <2>3, <3>1, FS_Subset
    <3> QED BY <3>1, <3>2
  <2>5. Cardinality(Notices') = Cardinality(Notices) + 1
    BY <2>1, FS_AddElement
  <2>6. Helpers' = Helpers + 1
    BY <2>1, <2>5 DEF Helpers
  <2> QED BY <2>1, <2>4, <2>6 DEF WakeInv, Helpers
<1>3. ASSUME NEW t \in Tasks, EnqueueNotify(t) PROVE WakeInv'
  <2> SUFFICES ASSUME \A x \in Waiters : waiter'[x] = "new",
                      \E w \in Workers : worker'[w] = "asleep"
               PROVE  Helpers' >= Cardinality(Claims')
    BY DEF WakeInv
  <2>1. PICK w \in Workers : /\ worker[w] = "asleep"
                             /\ worker' = [worker EXCEPT ![w] = "awake"]
                             /\ UNCHANGED waiter
    <3>1. \A x \in Waiters : waiter[x] = "new"
      BY <1>3, NotifyTypes DEF EnqueueNotify
    <3>2. Asleep # {}
      BY <1>3, NotifyTypes DEF EnqueueNotify, Asleep
    <3> QED BY <1>3, <3>1, <3>2 DEF EnqueueNotify, NotifyOne
  <2>2. Awake' = Awake \cup {w} /\ w \notin Awake
    BY <1>0, <2>1 DEF Awake
  <2>3. Notices' = Notices \ {t} /\ t \in Notices
    BY <1>0, <1>3 DEF EnqueueNotify, Notices
  <2>4. Cardinality(Awake') = Cardinality(Awake) + 1
        /\ Cardinality(Notices') = Cardinality(Notices) - 1
    BY <2>2, <2>3, FS_AddElement, FS_RemoveElement
  <2>5. Claims' = Claims
    BY <1>3 DEF EnqueueNotify, Claims, Claim, Ready, Waiting
  <2> QED BY <2>1, <2>4, <2>5 DEF Helpers, WakeInv
<1>4. ASSUME NEW w \in Workers, TakeTask(w) PROVE WakeInv'
  <2>1. PICK i \in DOMAIN tasks :
          /\ Selectable(i)
          /\ tasks' = RemoveAt(tasks, i)
          /\ runs' = [runs EXCEPT ![w] = tasks[i]]
          /\ guards' = IF GroupOf[tasks[i]] = NonExclusive THEN guards
                       ELSE [guards EXCEPT ![GroupOf[tasks[i]]] = TRUE]
    BY <1>4 DEF TakeTask
  <2> DEFINE t == tasks[i]
  <2>2. /\ worker[w] = "awake" /\ worker' = [worker EXCEPT ![w] = "running"]
        /\ UNCHANGED <<call, waiter>>
    BY <1>4 DEF TakeTask
  <2>3. t \in Waiting /\ t \in Tasks /\ Waiting' = Waiting \ {t}
    BY <2>1, <2>2, TakeSets
  <2>4. Ready(t)
    BY <2>1, <2>3 DEF Ready, Selectable, Free
  <2>5. /\ Awake' = Awake \ {w} /\ w \in Awake /\ Notices' = Notices
        /\ \A v \in Workers : worker'[v] = "asleep" => worker[v] = "asleep"
    BY <1>0, <2>2 DEF Awake, Notices
  <2>6. DOMAIN guards' = DOMAIN guards
        /\ \A g \in DOMAIN guards :
             guards'[g] = IF g = GroupOf[t] /\ g # NonExclusive THEN TRUE ELSE guards[g]
    BY <2>1, <2>3 DEF GuardInv
  <2> HIDE DEF t
  <2>7. ASSUME NEW u \in Tasks, Ready(u)' PROVE Ready(u) /\ Claim(u) # Claim(t)
    <3>1. u \in Waiting /\ u # t
      BY <2>3, <2>7 DEF Ready
    <3>2. GroupOf[u] # NonExclusive =>
            GroupOf[u] \in DOMAIN guards /\ ~guards'[GroupOf[u]]
      BY <2>7, <3>1 DEF Ready, GuardInv
    <3>3. GroupOf[u] # NonExclusive => GroupOf[u] # GroupOf[t] /\ ~guards[GroupOf[u]]
      BY <2>6, <3>2
    <3> QED BY <2>3, <3>1, <3>3, ClaimsDiffer DEF Ready
  <2>8. Claims' \in SUBSET (Claims \ {Claim(t)}) /\ Claim(t) \in Claims
    BY <2>3, <2>4, <2>7 DEF Claims, Claim
  <2>9. Cardinality(Claims') <= Cardinality(Claims) - 1
    <3>1. IsFiniteSet(Claims \ {Claim(t)})
          /\ Cardinality(Claims \ {Claim(t)}) = Cardinality(Claims) - 1
      BY <2>8, FS_RemoveElement
    <3> QED BY <2>8, <3>1, FS_Subset
  <2>10. Helpers' = Helpers - 1
    <3>1. Cardinality(Awake') = Cardinality(Awake) - 1
      BY <2>5, FS_RemoveElement
    <3> QED BY <2>5, <3>1 DEF Helpers
  <2> QED BY <2>2, <2>5, <2>9, <2>10 DEF WakeInv, Helpers
<1>5. ASSUME NEW w \in Workers, FindNothing(w) PROVE WakeInv'
  <2>1. \A i \in DOMAIN tasks : ~Free(i)
    BY <1>5, NoClaimUnseen DEF FindNothing
  <2>2. Claims = {} /\ Claims' = Claims
    BY <1>5, <2>1, ClaimsOpen DEF FindNothing, Claims, Claim, Ready, Waiting
  <2>3. Cardinality(Claims') = 0
    BY <2>2, FS_EmptySet
  <2> QED BY <2>3 DEF WakeInv, Helpers
<1>6. ASSUME NEW w \in Workers, FinishTask(w) PROVE WakeInv'
  <2>1. \A v \in Workers : worker'[v] # "asleep"
    BY <1>0, <1>6 DEF FinishTask, WakeAfterTask
  <2> QED BY <2>1 DEF WakeInv
<1>7. ASSUME NEW x \in Waiters, WaitForEmptyQueue(x) PROVE WakeInv'
  BY <1>0, <1>7, WakeKept DEF WaitForEmptyQueue
<1>8. CASE Stop \/ DestructorStop \/ DestructorJoin
  BY <1>0, <1>8, WakeKept DEF Stop, DestructorStop, DestructorJoin
<1>9. CASE SpuriousWakeup \/ DestructorNotify
  <2>1. /\ \A x \in Waiters : waiter'[x] = "new" => waiter[x] = "new"
        /\ \A w \in Workers : /\ worker'[w] = "asleep" => worker[w] = "asleep"
                              /\ worker[w] = "awake" => worker'[w] = "awake"
    BY <1>9, NotifyTypes DEF SpuriousWakeup, DestructorNotify, DestructorWakes
  <2> QED BY <1>9, <2>1, WakeKept DEF SpuriousWakeup, DestructorNotify
<1>10. CASE UNCHANGED vars
  BY <1>10, WakeKept DEF vars
<1> QED BY <1>1, <1>2, <1>3, <1>4, <1>5, <1>6, <1>7, <1>8, <1>9, <1>10
        DEF Next, EnqueueNext, WorkerNext, WaiterNext, DestructorNext, Calls, Done
-----------------------------------------------------------------------------
LEMMA InitInv == Init => IInv
<1> SUFFICES ASSUME Init PROVE IInv
  OBVIOUS
<1>1. /\ Waiting = {} /\ Busy = {} /\ Running = {}
      /\ \A w \in Workers : worker[w] = "awake"
  BY DEF Init, Waiting, Busy, Running
<1>2. TypeOK
  BY EmptySeq, ConstantsAssumption DEF Init, TypeOK
<1>3. PlaceInv
  BY <1>1, ConstantsAssumption DEF Init, PlaceInv
<1>4. GuardInv
  BY <1>1 DEF Init, GuardInv
<1>5. CountInv
  BY <1>1, FS_EmptySet DEF Init, CountInv
<1>6. StopInv /\ WakeInv
  BY <1>1 DEF Init, StopInv, WakeInv
<1> QED BY <1>2, <1>3, <1>4, <1>5, <1>6 DEF IInv

LEMMA NextInv == IInv /\ [Next]_vars => IInv'
BY NextType, NextPlace, NextGuards, NextCounters, NextStop, NextWake DEF IInv

LEMMA Inductive == Spec => []IInv
BY InitInv, NextInv, PTL DEF Spec
-----------------------------------------------------------------------------
\* The counters of the pool are natural numbers, and guards exist for exclusivity groups
\* only, whichever threads call it.
THEOREM TypeCorrect == Spec => []TypeOK
<1>1. IInv => TypeOK
  BY DEF IInv
<1> QED BY <1>1, Inductive, PTL

LEMMA CountersFollow ==
  ASSUME TypeOK, PlaceInv, GuardInv, CountInv
  PROVE  CountersExact
<1> DEFINE S == {i \in DOMAIN tasks : GroupOf[tasks[i]] = NonExclusive}
           T == {t \in Waiting : GroupOf[t] = NonExclusive}
           f == [i \in S |-> tasks[i]]
<1>1. /\ DOMAIN tasks = 1 .. Len(tasks) /\ Len(tasks) \in Nat
      /\ \A i \in DOMAIN tasks : tasks[i] \in Waiting
  BY LenProperties, ElementOfSeq DEF TypeOK, Waiting
<1>2. IsFiniteSet(S)
  <2>1. S \in SUBSET (1 .. Len(tasks)) /\ IsFiniteSet(1 .. Len(tasks))
    BY <1>1, FS_Interval
  <2> QED BY <2>1, FS_Subset
<1>3. f \in Bijection(S, T)
  <2>1. f \in [S -> T]
    BY <1>1
  <2>2. \A i, j \in S : f[i] = f[j] => i = j
    BY DEF PlaceInv
  <2>3. \A t \in T : \E i \in S : f[i] = t
    BY DEF Waiting
  <2> HIDE DEF S, T, f
  <2> QED BY <2>1, <2>2, <2>3, Fun_IsBij
<1>4. Cardinality(T) = Cardinality(S)
  <2> HIDE DEF S, T, f
  <2> QED BY <1>2, <1>3, FS_Bijection DEF ExistsBijection
<1>5. num_nonexclusive = Cardinality(S)
  BY <1>4 DEF CountInv
<1>6. active_threads = Cardinality({w \in Workers : worker[w] = "running"})
  BY DEF CountInv, Busy
<1>7. ASSUME NEW g \in DOMAIN guards
      PROVE  guards[g] <=> \E t \in Running : GroupOf[t] = g
  <2>1. g # NonExclusive
    BY ConstantsAssumption DEF TypeOK
  <2>2. Running = {runs[w] : w \in Busy}
    BY DEF Running, Busy
  <2> QED BY <2>1, <2>2 DEF GuardInv
<1> QED BY <1>5, <1>6, <1>7 DEF CountersExact

\* num_queued_nonexclusive_tasks, active_threads_ and the guards agree with the queue and with
\* the tasks that run.
THEOREM CountersCorrect == Spec => []StateExact
<1>1. IInv => StateExact
  BY CountersFollow DEF IInv, StateExact
<1> QED BY <1>1, Inductive, PTL

LEMMA WorkFollows ==
  ASSUME TypeOK, StopInv, WakeInv
  PROVE  WorkConserved
<1> SUFFICES ASSUME serialized \/ ~stop,
                    \A x \in Waiters : waiter[x] = "new",
                    NEW i \in DOMAIN tasks, Free(i),
                    \A t \in Tasks : call[t] # "pushed",
                    \A w \in Workers : worker[w] # "awake"
             PROVE  \A w \in Workers : worker[w] = "running"
  BY DEF WorkConserved
<1>1. Notices = {} /\ Awake = {} /\ Claims # {}
  BY ClaimsOpen DEF Notices, Awake
<1>2. Helpers = 0 /\ Cardinality(Claims) \in Nat \ {0}
  BY <1>1, FS_EmptySet, WakeFinite DEF Helpers, WakeCounts
<1>3. \A w \in Workers : worker[w] # "asleep"
  BY <1>2 DEF WakeInv
<1>4. tasks # <<>>
  OBVIOUS
<1>5. \A w \in Workers : worker[w] # "exited"
  BY <1>4 DEF StopInv
<1> QED BY <1>3, <1>5 DEF TypeOK

\* No task that was accepted is left to workers that sleep or have ended.  A pool without
\* workers, which the constructor does not refuse, runs nothing.
THEOREM NothingForgotten ==
  ASSUME Workers # {}
  PROVE  Spec => []NoTaskForgotten
<1>1. IInv => NoTaskForgotten
  <2>1. IInv => NoTaskStranded
    BY DEF IInv, StopInv, NoTaskStranded, TaskStranded
  <2> QED BY <2>1, WorkFollows DEF IInv, NoTaskForgotten
<1> QED BY <1>1, Inductive, PTL

\* Who returns from waitForEmptyQueue leaves no task behind that was queued before.
THEOREM WaitCorrect == Spec => WaitMeansDone
<1> DEFINE Complete == \A x \in Waiters : waiter[x] # "returned" /\ waiter'[x] = "returned"
                      => \A t \in Tasks : call[t] \in {"pushed", "accepted"} => t \in finished
<1>1. IInv /\ [Next]_vars => [Complete]_vars
  <2> SUFFICES ASSUME IInv, Next, NEW x \in Waiters,
                      waiter[x] # "returned", waiter'[x] = "returned",
                      NEW t \in Tasks, call[t] \in {"pushed", "accepted"}
               PROVE  t \in finished
    OBVIOUS
  <2>0. waiter \in [Waiters -> {"new", "awake", "asleep", "returned"}] /\ TypeOK
    BY DEF IInv, TypeOK
  <2>1. PICK y \in Waiters : WaitForEmptyQueue(y)
    <3>1. ~(NotifyOne \/ NotifyAll)
      BY <2>0, NotifyTypes
    <3>2. \A w \in Workers : ~FinishTask(w)
      BY <2>0 DEF FinishTask, WakeAfterTask
    <3>3. waiter' # waiter
      OBVIOUS
    <3> QED BY <3>1, <3>2, <3>3
            DEF Next, EnqueueNext, WorkerNext, WaiterNext, DestructorNext, Calls, Done, vars,
                EnqueuePush, EnqueueNotify, TakeTask, FindNothing, DestructorNotify,
                DestructorWakes, DestructorJoin, EnqueueCheckStop, Stop, DestructorStop,
                SpuriousWakeup
  <2>2. Idle
    BY <2>0, <2>1 DEF WaitForEmptyQueue
  <2>3. IsFiniteSet(Busy)
    BY ConstantsAssumption, FS_Subset DEF Busy
  <2>4. Busy = {} /\ tasks = <<>>
    BY <2>2, <2>3, FS_EmptySet DEF Idle, IInv, CountInv
  <2>5. t \notin Waiting /\ t \notin Running
    BY <2>4 DEF Waiting, Running, Busy
  <2> QED BY <2>5 DEF IInv, PlaceInv
<1> QED BY <1>1, Inductive, PTL DEF Spec, WaitMeansDone
-----------------------------------------------------------------------------
\* The pool runs the tasks of a group one at a time and in order, and starts the others in
\* order: it implements GroupExecutor.
THEOREM ImplementsExecutor == Spec => IsGroupExecutor
<1>1. Init => Executor!Init
  BY DEF Init, Executor!Init, Running
<1>2. IInv /\ [Next]_vars => [Executor!Next]_<<tasks, Running, finished>>
  <2> SUFFICES ASSUME IInv, [Next]_vars
               PROVE  Executor!Next \/ UNCHANGED <<tasks, Running, finished>>
    OBVIOUS
  <2>0. TypeOK /\ PlaceInv /\ GuardInv
    BY DEF IInv
  <2>1. CASE Quiet
    BY <2>1, QuietSets DEF Quiet
  <2>2. ASSUME NEW t \in Tasks, EnqueuePush(t) PROVE Executor!Enqueue(t)
    <3>1. t \notin Waiting /\ t \notin Running /\ t \notin finished
      BY <2>0, <2>2 DEF EnqueuePush, PlaceInv
    <3>2. Running' = Running
      BY <2>2 DEF EnqueuePush, Running
    <3> QED BY <2>2, <3>1, <3>2 DEF EnqueuePush, Executor!Enqueue, Waiting
  <2>3. ASSUME NEW w \in Workers, TakeTask(w)
        PROVE  \E i \in DOMAIN tasks : Executor!Start(i)
    <3>1. PICK i \in DOMAIN tasks :
            /\ Selectable(i)
            /\ tasks' = RemoveAt(tasks, i)
            /\ runs' = [runs EXCEPT ![w] = tasks[i]]
      BY <2>3 DEF TakeTask
    <3>2. /\ worker[w] = "awake" /\ worker' = [worker EXCEPT ![w] = "running"]
          /\ UNCHANGED finished
      BY <2>3 DEF TakeTask
    <3>3. Running' = Running \cup {tasks[i]} /\ tasks[i] \in Waiting
      BY <2>0, <3>1, <3>2, TakeSets
    <3>4. tasks' = [j \in 1 .. (Len(tasks) - 1) |-> tasks[IF j < i THEN j ELSE j + 1]]
      BY <2>0, <3>1, RemoveFrom DEF TypeOK
    <3>5. \A j \in 1 .. (i - 1) : GroupOf[tasks[j]] # GroupOf[tasks[i]]
      BY <3>1 DEF Selectable, Free
    <3>6. GroupOf[tasks[i]] # NonExclusive =>
            \A u \in Running : GroupOf[u] # GroupOf[tasks[i]]
      <4>1. GroupOf[tasks[i]] # NonExclusive =>
              GroupOf[tasks[i]] \in DOMAIN guards /\ ~guards[GroupOf[tasks[i]]]
        BY <2>0, <3>1, <3>3 DEF Selectable, Free, GuardInv
      <4> QED BY <2>0, <4>1 DEF GuardInv, Running, Busy
    <3> QED BY <3>2, <3>3, <3>4, <3>5, <3>6 DEF Executor!Start
  <2>4. ASSUME NEW w \in Workers, FinishTask(w) PROVE \E t \in Tasks : Executor!Finish(t)
    <3>1. runs[w] \in Tasks /\ runs[w] \in Running /\ Running' = Running \ {runs[w]}
      BY <2>0, <2>4, FinishSets
    <3> QED BY <2>4, <3>1 DEF FinishTask, Executor!Finish
  <2> QED BY <2>0, <2>1, <2>2, <2>3, <2>4, MostStepsAreQuiet DEF Executor!Next
<1> QED BY <1>1, <1>2, Inductive, PTL DEF Spec, IsGroupExecutor, Executor!Spec
=============================================================================
