---------------------------- MODULE MultiSession ----------------------------
(***************************************************************************)
(* "process.sh multisession": the reconstruction of several recordings, at *)
(* most Jobs of them at a time, and then one joint map of all of them.     *)
(*                                                                         *)
(* Sources: tools/sensor-recorder-multisession/run_multisession_full.sh    *)
(* and run_multisession.sh.                                                *)
(*                                                                         *)
(* The reconstruction of one session is the sfm of SessionStages; here it  *)
(* either succeeds or fails.  A map is abstracted to the reconstructions   *)
(* that are in it: the k-th reconstruction of session s is <<s, k>>.       *)
(***************************************************************************)
EXTENDS Integers, Sequences, FiniteSets

CONSTANTS Order,        \* the sessions, in the order of --data
          Jobs,
          MaxCalls,     \* a bound on the calls of the command
          MaxFaults     \* a bound on failures and kills

\* The script refuses fewer than two sessions and a number of jobs below one.

VARIABLES results,   \* of each session its reconstruction, 0 if there is none
          working,   \* the sessions being reconstructed in the background
          joint,     \* the joint maps 22, 23 and 24; {} if there is none
          script,    \* the state of the script
          calls, faults

vars == <<results, working, joint, script, calls, faults>>

Sessions == {Order[i] : i \in 1 .. Len(Order)}
Current  == {<<s, results[s]>> : s \in Sessions}

NoScript == [pc |-> "idle", next |-> 1, batch |-> {}, failed |-> FALSE, force |-> FALSE]

Init ==
  /\ results = [s \in Sessions |-> 0]
  /\ working = {}
  /\ joint = [m22 |-> {}, m23 |-> {}, m24 |-> {}]
  /\ script = NoScript
  /\ calls = 0 /\ faults = 0

Start ==
  /\ script.pc = "idle" /\ working = {}
  /\ calls < MaxCalls
  /\ calls' = calls + 1
  /\ \E force \in BOOLEAN :
       script' = [NoScript EXCEPT !.pc = "launch", !.force = force]
  /\ UNCHANGED <<results, working, joint, faults>>
-----------------------------------------------------------------------------
\* run_session in the background, until the batch is full or no session is left.
LaunchSession ==
  /\ script.pc = "launch" /\ script.next <= Len(Order)
  /\ LET s == Order[script.next]
         batch == script.batch \cup {s}
     IN  /\ working' = working \cup {s}
         /\ script' = [script EXCEPT
                         !.next = @ + 1, !.batch = batch,
                         !.pc = IF Cardinality(batch) >= Jobs THEN "wait" ELSE "launch"]
  /\ UNCHANGED <<results, joint, calls, faults>>

LastBatch ==
  /\ script.pc = "launch" /\ script.next > Len(Order)
  /\ script' = [script EXCEPT !.pc = "wait"]
  /\ UNCHANGED <<results, working, joint, calls, faults>>

\* sfm without --force is refused where a reconstruction exists.
Refused(s) == results[s] # 0 /\ ~script.force

SessionSucceeds(s) ==
  /\ s \in working /\ ~Refused(s)
  /\ working' = working \ {s}
  /\ results' = [results EXCEPT ![s] = calls]
  /\ UNCHANGED <<joint, script, calls, faults>>

\* A forced reconstruction removes the old one before it fails.
SessionFails(s) ==
  /\ s \in working
  /\ \/ Refused(s) /\ UNCHANGED <<results, faults>>
     \/ /\ ~Refused(s) /\ faults < MaxFaults
        /\ faults' = faults + 1
        /\ results' = [results EXCEPT ![s] = 0]
  /\ working' = working \ {s}
  /\ script' = [script EXCEPT !.failed = TRUE]
  /\ UNCHANGED <<joint, calls>>

\* wait_batch waits for every job of the batch, whatever happened to the others.
WaitBatch ==
  /\ script.pc = "wait" /\ script.batch \cap working = {}
  /\ script' = IF script.next <= Len(Order)
               THEN [script EXCEPT !.batch = {}, !.pc = "launch"]
               ELSE IF script.failed THEN NoScript
                    ELSE [script EXCEPT !.batch = {}, !.pc = "merge"]
  /\ UNCHANGED <<results, working, joint, calls, faults>>
-----------------------------------------------------------------------------
\* run_multisession.sh: its directories are made with mkdir -p and never removed.
Joins(from, to, changed) ==
  /\ script.pc = from
  /\ joint' = changed
  /\ script' = [script EXCEPT !.pc = to]
  /\ UNCHANGED <<results, working, calls, faults>>

\* cp -a into a directory that exists puts the copy below it.
Copied(map, onto) == IF onto = {} THEN map ELSE onto

\* The merge overwrites what is there.
MergeSessions == Joins("merge", "search", [joint EXCEPT !.m22 = Current])

SearchCrossLoops ==
  \/ Joins("search", "relax", joint)
  \/ /\ script.pc = "search"
     /\ script' = NoScript
     /\ UNCHANGED <<results, working, joint, calls, faults>>

RelaxJoint == Joins("relax", "fuse", [joint EXCEPT !.m23 = Copied(joint.m22, @)])
FuseObservations == Joins("fuse", "ba", [joint EXCEPT !.m24 = Copied(joint.m23, @)])
JointBA == Joins("ba", "complete", joint)

Complete ==
  /\ script.pc = "complete"
  /\ script' = NoScript
  /\ UNCHANGED <<results, working, joint, calls, faults>>

ToolFails ==
  /\ script.pc \in {"merge", "search", "relax", "fuse", "ba"}
  /\ faults < MaxFaults
  /\ faults' = faults + 1
  /\ script' = NoScript
  /\ UNCHANGED <<results, working, joint, calls>>

SessionEnds == \E s \in Sessions : SessionSucceeds(s) \/ SessionFails(s)

ScriptStep ==
  \/ LaunchSession \/ LastBatch \/ WaitBatch
  \/ MergeSessions \/ SearchCrossLoops \/ RelaxJoint \/ FuseObservations
  \/ JointBA \/ Complete

Next == Start \/ SessionEnds \/ ScriptStep \/ ToolFails

Spec == Init /\ [][Next]_vars

\* The shell goes on with its script, and a reconstruction ends.
FairSpec == Spec /\ WF_vars(ScriptStep) /\ WF_vars(SessionEnds)
-----------------------------------------------------------------------------
Reconstructions == Sessions \X (0 .. MaxCalls)

TypeOK ==
  /\ results \in [Sessions -> 0 .. MaxCalls]
  /\ working \subseteq Sessions
  /\ joint \in [{"m22", "m23", "m24"} -> SUBSET Reconstructions]
  /\ script.pc \in {"idle", "launch", "wait", "merge", "search", "relax", "fuse",
                    "ba", "complete"}
  /\ script.next \in 1 .. Len(Order) + 1 /\ script.batch \subseteq Sessions
  /\ Cardinality(working) <= Jobs
  /\ calls \in 0 .. MaxCalls /\ faults \in 0 .. MaxFaults

\* The sessions are joined only when this call has reconstructed every one of them
\* and nothing works on them any more: no failure of one of several background jobs,
\* in whatever batch and order it ends, is lost.
JoinsFreshSessions ==
  script.pc \in {"merge", "search", "relax", "fuse", "ba", "complete"}
    => working = {} /\ \A s \in Sessions : results[s] = calls

\* "... and joint VI-BA": when the script says that it is complete, the joint map is
\* made of the reconstructions that it was called to join.
JointMapCurrent == script.pc = "complete" => joint.m24 = Current

\* A call ends, however its jobs end.
CallEnds == script.pc = "launch" ~> script.pc = "idle"
=============================================================================
