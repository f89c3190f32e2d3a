---------------------------- MODULE GroupExecutor ----------------------------
(***************************************************************************)
(* What aslam::ThreadPool promises about the order in which tasks run      *)
(* (the comments of enqueueOrdered and enqueue in thread-pool.h): tasks of *)
(* one exclusivity group are executed one at a time in the order they were *)
(* enqueued; tasks without a group are started in the order they were      *)
(* enqueued and may overlap.  Nothing is said of threads, guards or        *)
(* counters.                                                               *)
(***************************************************************************)
EXTENDS Integers, Sequences

CONSTANTS Tasks, GroupOf, NonExclusive

VARIABLES waiting,   \* the tasks that have been enqueued and not started
          running,
          finished

Init == waiting = <<>> /\ running = {} /\ finished = {}

\* A task is enqueued once.
Enqueue(t) == /\ t \notin running \cup finished
              /\ \A i \in DOMAIN waiting : waiting[i] # t
              /\ waiting' = Append(waiting, t)
              /\ UNCHANGED <<running, finished>>

\* The first task of its group may start if none of its group is running.
Start(i) == LET t == waiting[i]
            IN  /\ \A j \in 1 .. (i - 1) : GroupOf[waiting[j]] # GroupOf[t]
                /\ GroupOf[t] # NonExclusive =>
                     \A u \in running : GroupOf[u] # GroupOf[t]
                /\ waiting' = [j \in 1 .. (Len(waiting) - 1) |->
                                 waiting[IF j < i THEN j ELSE j + 1]]
                /\ running' = running \cup {t}
                /\ UNCHANGED finished

Finish(t) == /\ t \in running
             /\ running' = running \ {t}
             /\ finished' = finished \cup {t}
             /\ UNCHANGED waiting

Next == \/ \E t \in Tasks : Enqueue(t) \/ Finish(t)
        \/ \E i \in DOMAIN waiting : Start(i)

Spec == Init /\ [][Next]_<<waiting, running, finished>>
=============================================================================
