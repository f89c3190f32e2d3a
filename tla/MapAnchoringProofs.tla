-------------------------- MODULE MapAnchoringProofs -------------------------
(***************************************************************************)
(* Proofs about MapAnchoring: what a call of anchorAllMissions answers is  *)
(* what it has done, nothing that it needs drops out of view, and every    *)
(* round of its loop uses up a trial, for all missions and all matches.    *)
(***************************************************************************)
EXTENDS MapAnchoring, FiniteSetTheorems, FunctionTheorems, SequenceTheorems, TLAPS

-----------------------------------------------------------------------------
(***************************************************************************)
(* The inductive invariant.                                                *)
(***************************************************************************)
\* The missions that were unknown at the call, those of the work list, and those that
\* have been anchored since.
Unknown  == DOMAIN remaining_trials
Waiting  == ToSet(missions_to_anchor)
Anchored == Unknown \cap known

\* The missions that a mission can be localized in.
Anchors == all_missions \cap known

\* Every mission that was unknown waits, is anchored or is given up.
Sorted ==
  /\ Unknown \subseteq all_missions
  /\ all_missions \ Unknown \subseteq known
  /\ Unknown = Waiting \cup Anchored \cup abandoned_missions
  /\ known \cap (Waiting \cup abandoned_missions) = {}
  /\ Waiting \cap abandoned_missions = {}
  /\ \A i, j \in 1 .. Len(missions_to_anchor) :
       missions_to_anchor[i] = missions_to_anchor[j] => i = j
  /\ \A m \in Waiting : remaining_trials[m] >= 1
  /\ \A m \in abandoned_missions : remaining_trials[m] < kTrialsPerMission

\* What is over when the loop is left.
Finished ==
  /\ result = "none" /\ ~in_loop => all_missions = {}
  /\ result # "none" => ~in_loop
  /\ result = "success" => missions_to_anchor = <<>> /\ abandoned_missions = {}
  /\ result = "failure" => missions_to_anchor = <<>> \/ Anchors = {}

\* The narrowed selection still shows what the loop detector needs.
Narrowed ==
  in_loop => /\ Anchors \subseteq InView /\ InView \subseteq all_missions
             /\ database \subseteq Anchors
             /\ initial_mission_added => all_missions \ Unknown \subseteq database

\* A mission that matches one that was known at the call never fails.
NeverFails ==
  reliable => \A m \in Unknown : MayMatch(m, all_missions \ Unknown) =>
                remaining_trials[m] = kTrialsPerMission /\ m \notin abandoned_missions

\* A mission is given up without a match, or with all its trials used up.
GivenUp ==
  reliable /\ add_anchored => \A m \in abandoned_missions :
    remaining_trials[m] = 0 \/ (missions_to_anchor = <<>> /\ ~MayMatch(m, Anchors))

\* Nothing that waits or is given up matches anything.
Stuck == \A m \in Waiting \cup abandoned_missions : ~MayMatch(m, Anchors)

\* The list consists of those that failed since a mission was last anchored, behind
\* those that did not: each has failed at most once per mission anchored, and once more.
Rounds ==
  \E p \in 0 .. Len(missions_to_anchor) : \A i \in 1 .. Len(missions_to_anchor) :
    LET failed == kTrialsPerMission - remaining_trials[missions_to_anchor[i]]
    IN  IF i <= p THEN failed <= Cardinality(Anchored)
        ELSE failed <= Cardinality(Anchored) + 1 /\ ~MayMatch(missions_to_anchor[i], Anchors)

FewTrials ==
  reliable /\ add_anchored /\ Cardinality(Unknown) <= kTrialsPerMission =>
    Stuck \/ (abandoned_missions = {} /\ Rounds)

AnchoringInv ==
  TypeOK /\ Sorted /\ Finished /\ Narrowed /\ NeverFails /\ GivenUp /\ FewTrials
-----------------------------------------------------------------------------
(***************************************************************************)
(* Lists without duplicates.                                               *)
(***************************************************************************)
Distinct(s) == \A i, j \in 1 .. Len(s) : s[i] = s[j] => i = j

\* The elements of a sequence are its values at its positions.
LEMMA Elements ==
  ASSUME NEW S, NEW s \in Seq(S)
  PROVE  /\ ToSet(s) \subseteq S
         /\ \A x : x \in ToSet(s) <=> \E i \in 1 .. Len(s) : s[i] = x
         /\ ToSet(s) = {} <=> s = <<>>
<1>1. DOMAIN s = 1 .. Len(s) /\ Len(s) \in Nat /\ \A i \in 1 .. Len(s) : s[i] \in S
  BY LenProperties, ElementOfSeq
<1>2. s # <<>> => 1 \in 1 .. Len(s)
  BY <1>1, EmptySeq
<1>3. s = <<>> => ToSet(s) = {}
  BY DEF ToSet
<1> QED
  BY <1>1, <1>2, <1>3 DEF ToSet

\* An order of the elements of a finite set.
LEMMA OrdersOfASet ==
  ASSUME NEW S, IsFiniteSet(S), NEW s \in SetToSeqs(S)
  PROVE  /\ s \in Seq(S) /\ Distinct(s)
         /\ ToSet(s) = S
         /\ Len(s) = Cardinality(S)
<1> DEFINE n == Cardinality(S)
<1>1. n \in Nat
  BY FS_CardinalityType
<1>2. s \in [1 .. n -> S] /\ \A i, j \in 1 .. n : i # j => s[i] # s[j]
  BY DEF SetToSeqs
<1>3. s \in Seq(S) /\ Len(s) = n
  BY <1>1, <1>2
<1>4. Distinct(s)
  BY <1>2, <1>3 DEF Distinct
<1>5. s \in Injection(1 .. n, S)
  BY <1>2, Fun_IsInj
<1>6. IsFiniteSet(1 .. n) /\ Cardinality(1 .. n) = n
  BY <1>1, FS_Interval
<1>7. s \in Surjection(1 .. n, S)
  <2> HIDE DEF n
  <2>1. Cardinality(1 .. n) = Cardinality(S)
    BY <1>6 DEF n
  <2> QED
    BY <1>5, <2>1, FS_Injection
<1>8. \A x \in S : \E i \in 1 .. n : s[i] = x
  BY <1>7 DEF Surjection
<1>9. ToSet(s) = S
  BY <1>2, <1>8 DEF ToSet
<1> QED
  BY <1>3, <1>4, <1>9

\* The rest of a list of distinct elements.
LEMMA RestOfList ==
  ASSUME NEW S, NEW s \in Seq(S), s # <<>>, Distinct(s)
  PROVE  /\ Head(s) \in ToSet(s) /\ Head(s) \in S /\ Head(s) = s[1]
         /\ Tail(s) \in Seq(S) /\ Distinct(Tail(s))
         /\ Len(s) \in Nat /\ Len(s) >= 1 /\ Len(Tail(s)) = Len(s) - 1
         /\ \A i \in 1 .. Len(Tail(s)) : Tail(s)[i] = s[i + 1]
         /\ ToSet(Tail(s)) = ToSet(s) \ {Head(s)}
<1>1. /\ Head(s) \in S /\ Tail(s) \in Seq(S) /\ Len(Tail(s)) = Len(s) - 1
      /\ \A i \in 1 .. Len(Tail(s)) : Tail(s)[i] = s[i + 1]
  BY HeadTailProperties
<1>2. Len(s) \in Nat /\ Len(s) >= 1
  BY EmptySeq
<1>3. Head(s) = s[1]
  BY <1>2
<1>4. Head(s) \in ToSet(s)
  BY <1>2, <1>3, Elements
<1>5. Distinct(Tail(s))
  BY <1>1, <1>2 DEF Distinct
<1>6. \A x : x \in ToSet(Tail(s)) <=> \E i \in 1 .. Len(s) - 1 : s[i + 1] = x
  <2> DEFINE r == Tail(s)
  <2>1. r \in Seq(S) /\ Len(r) = Len(s) - 1 /\ \A i \in 1 .. Len(r) : r[i] = s[i + 1]
    BY <1>1
  <2> HIDE DEF r
  <2>2. \A x : x \in ToSet(r) <=> \E i \in 1 .. Len(r) : r[i] = x
    BY <2>1, Elements
  <2>3. \A x : x \in ToSet(r) <=> \E i \in 1 .. Len(s) - 1 : s[i + 1] = x
    BY <2>1, <2>2
  <2> QED
    BY <2>3 DEF r
<1>7. \A x : x \in ToSet(s) <=> \E i \in 1 .. Len(s) : s[i] = x
  BY Elements
<1>8. ASSUME NEW x \in ToSet(Tail(s)) PROVE x \in ToSet(s) \ {Head(s)}
  <2>1. PICK i \in 1 .. Len(s) - 1 : s[i + 1] = x
    BY <1>6
  <2>2. i + 1 \in 1 .. Len(s) /\ i + 1 # 1 /\ 1 \in 1 .. Len(s)
    BY <1>2
  <2> QED
    BY <2>1, <2>2, <1>3, <1>7 DEF Distinct
<1>9. ASSUME NEW x \in ToSet(s), x # Head(s) PROVE x \in ToSet(Tail(s))
  <2>1. PICK i \in 1 .. Len(s) : s[i] = x
    BY <1>7
  <2>2. i # 1
    BY <2>1, <1>3, <1>9
  <2>3. i - 1 \in 1 .. Len(s) - 1 /\ (i - 1) + 1 = i
    BY <2>2, <1>2
  <2> QED
    BY <2>1, <2>3, <1>6
<1> QED
  BY <1>1, <1>2, <1>3, <1>4, <1>5, <1>8, <1>9

\* A position is the last one or one of the positions before it.
LEMMA LastOrBefore == \A n \in Nat : \A i \in 1 .. n : i = n \/ i \in 1 .. n - 1
  OBVIOUS

\* The first element of such a list put behind the others.
LEMMA RotatedList ==
  ASSUME NEW S, NEW s \in Seq(S), s # <<>>, Distinct(s), NEW t, t = Append(Tail(s), Head(s))
  PROVE  /\ t \in Seq(S) /\ t # <<>> /\ Distinct(t) /\ Len(t) = Len(s)
         /\ \A i \in 1 .. Len(s) - 1 : t[i] = s[i + 1]
         /\ t[Len(s)] = Head(s)
         /\ ToSet(t) = ToSet(s)
<1> DEFINE r == Tail(s)
           n == Len(s)
<1>1. /\ Head(s) \in ToSet(s) /\ Head(s) \in S /\ r \in Seq(S) /\ Distinct(r)
      /\ n \in Nat /\ n >= 1 /\ Len(r) = n - 1
      /\ \A i \in 1 .. Len(r) : r[i] = s[i + 1]
      /\ ToSet(r) = ToSet(s) \ {Head(s)}
  BY RestOfList
<1>2. /\ t \in Seq(S) /\ t # <<>> /\ Len(t) = Len(r) + 1
      /\ \A i \in 1 .. Len(r) : t[i] = r[i]
      /\ t[Len(r) + 1] = Head(s)
  BY <1>1, AppendProperties
<1>3. Len(t) = n /\ t[n] = Head(s) /\ \A i \in 1 .. n - 1 : t[i] = r[i] /\ t[i] = s[i + 1]
  <2> HIDE DEF r, n
  <2> QED
    BY <1>1, <1>2
<1>4. \A i \in 1 .. n - 1 : r[i] \in ToSet(r) /\ r[i] # Head(s)
  BY <1>1, Elements
<1>5. \A i \in 1 .. n : i = n \/ i \in 1 .. n - 1
  BY <1>1, LastOrBefore
<1>6. Distinct(t)
  <2>1. \A i, j \in 1 .. n - 1 : r[i] = r[j] => i = j
    BY <1>1 DEF Distinct
  <2> HIDE DEF r, n
  <2> QED
    BY <1>3, <1>4, <1>5, <2>1 DEF Distinct
<1>7. \A x : x \in ToSet(t) <=> \E i \in 1 .. n : t[i] = x
  BY <1>2, <1>3, Elements
<1>8. \A x : x \in ToSet(r) <=> \E i \in 1 .. n - 1 : r[i] = x
  BY <1>1, Elements
<1>9. n \in 1 .. n /\ \A i \in 1 .. n - 1 : i \in 1 .. n
  BY <1>1
<1>10. \A x : x \in ToSet(t) <=> x \in ToSet(r) \/ x = Head(s)
  <2> HIDE DEF r, n
  <2> QED
    BY <1>3, <1>5, <1>7, <1>8, <1>9
<1>11. ToSet(t) = ToSet(s)
  BY <1>1, <1>10
<1> QED
  BY <1>2, <1>3, <1>6, <1>11
-----------------------------------------------------------------------------
(***************************************************************************)
(* The invariant holds at first, and no command disturbs it.               *)
(***************************************************************************)
\* Before the first call there is nothing to sort.
LEMMA AnchoringStart == Init => AnchoringInv
<1> SUFFICES ASSUME Init PROVE AnchoringInv
  OBVIOUS
<1> USE DEF Init
<1>1. Unknown = {} /\ Waiting = {} /\ Len(missions_to_anchor) = 0
  BY DEF Unknown, Waiting, ToSet
<1>2. TypeOK
  <2>1. <<>> \in Seq(Missions) /\ DOMAIN remaining_trials = {}
    BY <1>1, EmptySeq DEF Unknown
  <2> QED
    BY <2>1 DEF TypeOK
<1>3. Sorted
  BY <1>1 DEF Sorted, Anchored
<1>4. Finished /\ Narrowed
  BY DEF Finished, Narrowed
<1>5. NeverFails /\ GivenUp /\ FewTrials
  BY <1>1 DEF NeverFails, GivenUp, FewTrials, Stuck
<1> QED
  BY <1>2, <1>3, <1>4, <1>5 DEF AnchoringInv

\* A command forgets the last call.
LEMMA CommandForgets ==
  ASSUME AnchoringInv, NEW name, Command(name),
         known' \subseteq Missions, selected' \subseteq Missions
  PROVE  AnchoringInv'
<1> USE DEF Command
<1>1. /\ Unknown' = {} /\ Waiting' = {} /\ Len(missions_to_anchor') = 0
      /\ Anchored' = {} /\ Anchors' = {}
  BY DEF Unknown, Waiting, ToSet, Anchored, Anchors
<1>2. TypeOK'
  <2>1. <<>> \in Seq(Missions) /\ DOMAIN remaining_trials' = {}
    BY <1>1, EmptySeq DEF Unknown
  <2> QED
    BY <2>1 DEF AnchoringInv, TypeOK, given
<1>3. Sorted'
  BY <1>1 DEF Sorted
<1>4. Finished' /\ Narrowed'
  BY DEF Finished, Narrowed
<1>5. NeverFails' /\ GivenUp' /\ FewTrials'
  BY <1>1 DEF NeverFails, GivenUp, FewTrials, Stuck
<1> QED
  BY <1>2, <1>3, <1>4, <1>5 DEF AnchoringInv

\* A call waits for all that is unknown; it fails at once only when nothing is known.
LEMMA CallSorts ==
  ASSUME AnchoringInv, NEW list \in SetToSeqs(InView \ known), CallAnchorAll(list)
  PROVE  AnchoringInv'
<1> DEFINE S == InView \ known
<1> USE DEF kTrialsPerMission
<1>1. TypeOK /\ InView \subseteq Missions /\ S \subseteq Missions
  BY DEF AnchoringInv, TypeOK, InView
<1>2. IsFiniteSet(InView) /\ IsFiniteSet(S)
  BY <1>1, MissionsAssumption, FS_Subset
<1>3. list \in Seq(S) /\ Distinct(list) /\ ToSet(list) = S /\ Len(list) = Cardinality(S)
  BY <1>2, OrdersOfASet
<1>4. list \in Seq(Missions) /\ Len(list) \in Nat /\ (S = {} <=> list = <<>>)
  BY <1>1, <1>3, SeqMonotonic, Elements, LenProperties
<1>5. /\ all_missions' = InView /\ missions_to_anchor' = list /\ abandoned_missions' = {}
      /\ remaining_trials' = [m \in S |-> 3]
      /\ database' = {} /\ initial_mission_added' = FALSE
      /\ given' = given /\ known' = known /\ selected' = selected
  BY DEF CallAnchorAll
<1>6. \/ Len(list) = Cardinality(InView) /\ result' = "failure" /\ in_loop' = in_loop
      \/ list = <<>> /\ result' = "success" /\ in_loop' = in_loop
      \/ result' = "none" /\ in_loop' = TRUE
  BY DEF CallAnchorAll
<1>7. ~in_loop
  BY DEF CallAnchorAll
<1>8. Unknown' = S /\ Waiting' = S /\ Anchored' = {} /\ Anchors' = InView \cap known
  BY <1>3, <1>5 DEF Unknown, Waiting, Anchored, Anchors
<1>9. InView' = InView
  BY <1>5 DEF InView
<1>10. Len(list) = Cardinality(InView) => S = InView
  <2>1. S \in SUBSET InView
    OBVIOUS
  <2> HIDE DEF S
  <2> QED
    BY <1>2, <1>3, <2>1, FS_Subset
<1>11. \A m \in S : remaining_trials'[m] = 3
  BY <1>5
<1>12. matches' = matches /\ reliable' = reliable /\ add_anchored' = add_anchored
  BY <1>5 DEF given
<1> HIDE DEF S
<1>13. TypeOK'
  <2>1. \A m \in DOMAIN remaining_trials' : remaining_trials'[m] \in 0 .. 3
    BY <1>8, <1>11 DEF Unknown
  <2>2. DOMAIN remaining_trials' \subseteq Missions
    BY <1>1, <1>8 DEF Unknown
  <2> QED
    BY <1>1, <1>4, <1>5, <1>6, <1>7, <1>12, <2>1, <2>2 DEF TypeOK
<1>14. Sorted'
  <2>1. Unknown' \subseteq all_missions' /\ all_missions' \ Unknown' \subseteq known'
    BY <1>5, <1>8 DEF S
  <2>2. Distinct(missions_to_anchor')
    BY <1>3, <1>5
  <2>3. \A m \in Waiting' : remaining_trials'[m] >= 1
    BY <1>8, <1>11
  <2>4. known' \cap (Waiting' \cup abandoned_missions') = {}
    BY <1>5, <1>8 DEF S
  <2> QED
    BY <1>5, <1>8, <2>1, <2>2, <2>3, <2>4 DEF Sorted, Distinct
<1>15. Finished'
  BY <1>5, <1>6, <1>7, <1>8, <1>10 DEF Finished, S, AnchoringInv
<1>16. Narrowed'
  BY <1>5, <1>8, <1>9 DEF Narrowed
<1>17. NeverFails' /\ GivenUp'
  BY <1>5, <1>8, <1>11 DEF NeverFails, GivenUp
<1>18. FewTrials'
  <2>1. Cardinality(Anchored') = 0
    BY <1>8, FS_EmptySet
  <2>2. Len(list) \in 0 .. Len(list) /\ \A i \in 1 .. Len(list) : i <= Len(list) /\ list[i] \in S
    BY <1>3, <1>4, ElementOfSeq
  <2>3. \A i \in 1 .. Len(list) : 3 - remaining_trials'[list[i]] = 0
    BY <1>11, <2>2
  <2>4. Rounds'
    <3> SUFFICES \E p \in 0 .. Len(list) : \A i \in 1 .. Len(list) :
                   i <= p /\ 3 - remaining_trials'[list[i]] <= Cardinality(Anchored')
      BY <1>5 DEF Rounds
    <3>1. Len(list) \in 0 .. Len(list)
      BY <2>2
    <3> WITNESS Len(list) \in 0 .. Len(list)
    <3> QED
      BY <2>1, <2>2, <2>3
  <2> QED
    BY <1>5, <2>4 DEF FewTrials
<1> QED
  BY <1>13, <1>14, <1>15, <1>16, <1>17, <1>18 DEF AnchoringInv

\* The loop is left when nothing waits any more.
LEMMA ReturnFinishes ==
  ASSUME AnchoringInv, ReturnFromLoop
  PROVE  AnchoringInv'
<1> USE DEF ReturnFromLoop, locals, given
<1>1. Unknown' = Unknown /\ Waiting' = Waiting /\ Anchored' = Anchored /\ Anchors' = Anchors
  BY DEF Unknown, Waiting, Anchored, Anchors
<1>2. TypeOK'
  BY DEF AnchoringInv, TypeOK, Outcome
<1>3. Sorted'
  BY <1>1 DEF AnchoringInv, Sorted
<1>4. Finished'
  BY DEF AnchoringInv, Finished, Outcome
<1>5. Narrowed'
  BY DEF Narrowed
<1>6. NeverFails' /\ GivenUp'
  BY <1>1 DEF AnchoringInv, NeverFails, GivenUp, MayMatch
<1>7. FewTrials'
  BY <1>1 DEF AnchoringInv, FewTrials, Stuck, Rounds, MayMatch
<1> QED
  BY <1>2, <1>3, <1>4, <1>5, <1>6, <1>7 DEF AnchoringInv
-----------------------------------------------------------------------------
(***************************************************************************)
(* A round of the loop.                                                    *)
(***************************************************************************)
\* The mission that is tried waits, and the loop detector sees all that was known at the
\* call and nothing out of view.
LEMMA ProbeSees ==
  ASSUME AnchoringInv, NEW m, Probe(m)
  PROVE  /\ m = Head(missions_to_anchor) /\ m \in Waiting /\ m \in Unknown
         /\ m \in Missions /\ m \in all_missions /\ m \notin known
         /\ m \notin abandoned_missions /\ remaining_trials[m] \in 1 .. kTrialsPerMission
         /\ database' \subseteq Anchors /\ initial_mission_added' = TRUE
         /\ all_missions \ Unknown \subseteq database'
         /\ (add_anchored => database' = Anchors)
         /\ InView' = {m} \cup Anchors /\ selected' = {m} \cup Anchors
<1>1. in_loop /\ missions_to_anchor # <<>> /\ m = Head(missions_to_anchor)
  BY DEF Probe
<1>2. missions_to_anchor \in Seq(Missions) /\ Distinct(missions_to_anchor)
  BY DEF AnchoringInv, TypeOK, Sorted, Distinct
<1>3. m \in Waiting /\ m \in Missions
  BY <1>1, <1>2, RestOfList DEF Waiting
<1>4. m \in Unknown /\ m \in all_missions /\ m \notin known /\ m \notin abandoned_missions
  BY <1>3 DEF AnchoringInv, Sorted
<1>5. remaining_trials[m] \in 1 .. kTrialsPerMission
  <2>1. remaining_trials[m] >= 1
    BY <1>3 DEF AnchoringInv, Sorted
  <2>2. remaining_trials[m] \in 0 .. 3
    BY <1>4 DEF AnchoringInv, TypeOK, Unknown, kTrialsPerMission
  <2> QED
    BY <2>1, <2>2 DEF kTrialsPerMission
<1>6. known \cap InView = Anchors
  BY <1>1 DEF AnchoringInv, Narrowed, Anchors
<1>7. /\ database \subseteq Anchors
      /\ initial_mission_added => all_missions \ Unknown \subseteq database
  BY <1>1 DEF AnchoringInv, Narrowed
<1>8. all_missions \ Unknown \subseteq Anchors
  BY DEF AnchoringInv, Sorted, Anchors
<1>9. database' = IF add_anchored \/ ~initial_mission_added THEN Anchors ELSE database
  BY <1>6, <1>7 DEF Probe, DatabaseForProbe, WithKnown
<1>10. selected' = {m} \cup Anchors /\ initial_mission_added' = TRUE
  BY <1>6 DEF Probe, SelectForProbe
<1>11. InView' = {m} \cup Anchors
  BY <1>10 DEF InView
<1> QED
  BY <1>1, <1>3, <1>4, <1>5, <1>7, <1>8, <1>9, <1>10, <1>11

\* The trials of one mission are counted down.
LEMMA TrialsCounted ==
  ASSUME AnchoringInv, NEW m, Probe(m), remaining_trials' = TrialsReduced(m)
  PROVE  /\ Unknown' = Unknown
         /\ remaining_trials'[m] = remaining_trials[m] - 1
         /\ \A n \in Unknown \ {m} : remaining_trials'[n] = remaining_trials[n]
         /\ \A n \in Unknown : remaining_trials'[n] \in 0 .. kTrialsPerMission
<1>1. m \in Unknown /\ remaining_trials[m] \in 1 .. kTrialsPerMission
  BY ProbeSees
<1>2. \A n \in Unknown : remaining_trials[n] \in 0 .. 3
  BY DEF AnchoringInv, TypeOK, Unknown, kTrialsPerMission
<1>3. /\ Unknown' = Unknown /\ remaining_trials'[m] = remaining_trials[m] - 1
      /\ \A n \in Unknown \ {m} : remaining_trials'[n] = remaining_trials[n]
  BY <1>1 DEF TrialsReduced, Unknown
<1>4. remaining_trials'[m] \in 0 .. 3
  BY <1>1, <1>3 DEF kTrialsPerMission
<1> QED
  BY <1>2, <1>3, <1>4 DEF kTrialsPerMission

\* The mission of a probe that succeeds is anchored, and all may be tried once more.
LEMMA SuccessAnchors ==
  ASSUME AnchoringInv, NEW m, ProbeSucceeds(m),
         UNCHANGED <<given, in_loop, all_missions, result>>
  PROVE  AnchoringInv'
<1> DEFINE r == Tail(missions_to_anchor)
<1>1. Probe(m) /\ in_loop /\ missions_to_anchor # <<>>
  BY DEF ProbeSucceeds, Probe
<1>2. /\ m = Head(missions_to_anchor) /\ m \in Waiting /\ m \in Unknown
      /\ m \in Missions /\ m \in all_missions /\ m \notin known
      /\ m \notin abandoned_missions
      /\ database' \subseteq Anchors /\ initial_mission_added' = TRUE
      /\ all_missions \ Unknown \subseteq database'
      /\ (add_anchored => database' = Anchors)
      /\ InView' = {m} \cup Anchors /\ selected' = {m} \cup Anchors
  BY <1>1, ProbeSees
<1>3. missions_to_anchor \in Seq(Missions) /\ Distinct(missions_to_anchor)
  BY DEF AnchoringInv, TypeOK, Sorted, Distinct
<1>4. /\ r \in Seq(Missions) /\ Distinct(r) /\ ToSet(r) = Waiting \ {m}
      /\ Len(missions_to_anchor) \in Nat /\ Len(r) = Len(missions_to_anchor) - 1
      /\ \A i \in 1 .. Len(r) : r[i] = missions_to_anchor[i + 1]
  BY <1>1, <1>2, <1>3, RestOfList DEF Waiting
<1>5. /\ missions_to_anchor' = r /\ known' = known \cup {m}
      /\ remaining_trials' = remaining_trials /\ abandoned_missions' = abandoned_missions
      /\ MayMatch(m, database')
  BY DEF ProbeSucceeds
<1>6. /\ matches' = matches /\ reliable' = reliable /\ add_anchored' = add_anchored
      /\ in_loop' = in_loop /\ all_missions' = all_missions /\ result' = result
  BY DEF given
<1>7. /\ Unknown' = Unknown /\ Waiting' = Waiting \ {m}
      /\ Anchored' = Anchored \cup {m} /\ Anchors' = Anchors \cup {m}
  BY <1>2, <1>4, <1>5, <1>6 DEF Unknown, Waiting, Anchored, Anchors
<1>8. Anchors \subseteq Missions /\ Anchors \subseteq all_missions
  BY DEF Anchors, AnchoringInv, TypeOK
<1> HIDE DEF r
<1>9. TypeOK'
  BY <1>2, <1>4, <1>5, <1>6, <1>8 DEF AnchoringInv, TypeOK
<1>10. Sorted'
  <2>1. Distinct(missions_to_anchor')
    BY <1>4, <1>5
  <2> QED
    BY <1>2, <1>5, <1>6, <1>7, <2>1 DEF AnchoringInv, Sorted, Distinct
<1>11. Finished'
  BY <1>1, <1>6 DEF AnchoringInv, Finished
<1>12. Narrowed'
  BY <1>2, <1>6, <1>7, <1>8 DEF Narrowed
<1>13. NeverFails'
  BY <1>5, <1>6, <1>7 DEF AnchoringInv, NeverFails, MayMatch
<1>14. GivenUp'
  <2> SUFFICES ASSUME reliable, add_anchored, NEW n \in abandoned_missions
               PROVE  remaining_trials[n] = 0
    BY <1>5, <1>6 DEF GivenUp
  <2> QED
    BY <1>1 DEF AnchoringInv, GivenUp
<1>15. FewTrials'
  <2> SUFFICES ASSUME reliable, add_anchored, Cardinality(Unknown) <= kTrialsPerMission
               PROVE  abandoned_missions' = {} /\ Rounds'
    BY <1>6, <1>7 DEF FewTrials
  <2>1. ~Stuck
    BY <1>2, <1>5 DEF Stuck
  <2>2. abandoned_missions = {} /\ Rounds
    BY <2>1 DEF AnchoringInv, FewTrials
  <2>3. Cardinality(Anchored') = Cardinality(Anchored) + 1 /\ Cardinality(Anchored) \in Nat
    <3>1. IsFiniteSet(Anchored) /\ m \notin Anchored
      BY <1>2, MissionsAssumption, FS_Subset DEF AnchoringInv, TypeOK, Anchored
    <3> QED
      BY <1>7, <3>1, FS_AddElement, FS_CardinalityType
  <2>4. \A i \in 1 .. Len(r) : /\ r[i] \in Unknown
                               /\ 3 - remaining_trials[r[i]] <= Cardinality(Anchored')
    <3> TAKE i \in 1 .. Len(r)
    <3>1. i + 1 \in 1 .. Len(missions_to_anchor)
      BY <1>4
    <3>2. r[i] = missions_to_anchor[i + 1] /\ r[i] \in Waiting
      BY <1>4, <3>1, Elements
    <3>3. r[i] \in Unknown /\ remaining_trials[r[i]] \in 0 .. 3
      BY <3>2 DEF AnchoringInv, Sorted, TypeOK, Unknown, kTrialsPerMission
    <3>4. 3 - remaining_trials[r[i]] <= Cardinality(Anchored) + 1
      BY <2>2, <2>3, <3>1, <3>2, <3>3 DEF Rounds, kTrialsPerMission
    <3> QED
      BY <2>3, <3>3, <3>4
  <2>5. Rounds'
    <3> SUFFICES \E p \in 0 .. Len(r) : \A i \in 1 .. Len(r) :
                   i <= p /\ 3 - remaining_trials[r[i]] <= Cardinality(Anchored')
      BY <1>5 DEF Rounds, kTrialsPerMission
    <3>1. Len(r) \in Nat /\ Len(r) \in 0 .. Len(r) /\ \A i \in 1 .. Len(r) : i <= Len(r)
      BY <1>4, LenProperties
    <3> WITNESS Len(r) \in 0 .. Len(r)
    <3> QED
      BY <2>4, <3>1
  <2> QED
    BY <1>5, <2>2, <2>5
<1> QED
  BY <1>9, <1>10, <1>11, <1>12, <1>13, <1>14, <1>15 DEF AnchoringInv

\* The mission of a probe that fails goes to the end of the list while it has trials left.
LEMMA FailureCounts ==
  ASSUME AnchoringInv, NEW m, ProbeFails(m),
         UNCHANGED <<given, in_loop, all_missions, result>>
  PROVE  AnchoringInv'
<1> DEFINE l == missions_to_anchor
           r == Tail(l)
           t == Append(r, m)
<1> USE DEF kTrialsPerMission
<1>1. Probe(m) /\ in_loop /\ l # <<>>
  BY DEF ProbeFails, Probe
<1>2. /\ m = Head(l) /\ m \in Waiting /\ m \in Unknown
      /\ m \in Missions /\ m \in all_missions /\ m \notin known
      /\ m \notin abandoned_missions /\ remaining_trials[m] \in 1 .. 3
      /\ database' \subseteq Anchors /\ initial_mission_added' = TRUE
      /\ all_missions \ Unknown \subseteq database'
      /\ (add_anchored => database' = Anchors)
      /\ InView' = {m} \cup Anchors /\ selected' = {m} \cup Anchors
  BY <1>1, ProbeSees
<1>3. l \in Seq(Missions) /\ Distinct(l)
  BY DEF AnchoringInv, TypeOK, Sorted, Distinct
<1>4. /\ r \in Seq(Missions) /\ Distinct(r) /\ ToSet(r) = Waiting \ {m}
      /\ Len(l) \in Nat /\ Len(l) >= 1 /\ Len(r) = Len(l) - 1
      /\ l[1] = m
  BY <1>1, <1>2, <1>3, RestOfList DEF Waiting
<1>5. /\ t \in Seq(Missions) /\ Distinct(t) /\ ToSet(t) = Waiting /\ Len(t) = Len(l)
      /\ \A i \in 1 .. Len(l) - 1 : t[i] = l[i + 1]
      /\ t[Len(l)] = m
  <2>1. t = Append(Tail(l), Head(l)) /\ l # <<>> /\ Waiting = ToSet(l) /\ Head(l) = m
    BY <1>1, <1>2 DEF Waiting
  <2> HIDE DEF l, t
  <2> QED
    BY <1>3, <2>1, RotatedList
<1>6. /\ known' = known /\ remaining_trials' = TrialsReduced(m)
      /\ MayFail(m, database')
  BY DEF ProbeFails
<1>7. \/ /\ r # <<>> /\ remaining_trials[m] > 1
         /\ missions_to_anchor' = t /\ abandoned_missions' = abandoned_missions
      \/ /\ r = <<>> \/ remaining_trials[m] = 1
         /\ missions_to_anchor' = r /\ abandoned_missions' = abandoned_missions \cup {m}
  <2>1. remaining_trials[m] - 1 > 0 <=> remaining_trials[m] > 1
    BY <1>2
  <2>2. ~(remaining_trials[m] > 1) => remaining_trials[m] = 1
    BY <1>2
  <2> QED
    BY <2>1, <2>2 DEF ProbeFails, Retry
<1>8. /\ matches' = matches /\ reliable' = reliable /\ add_anchored' = add_anchored
      /\ in_loop' = in_loop /\ all_missions' = all_missions /\ result' = result
  BY DEF given
<1>9. /\ Unknown' = Unknown /\ remaining_trials'[m] = remaining_trials[m] - 1
      /\ \A n \in Unknown \ {m} : remaining_trials'[n] = remaining_trials[n]
      /\ \A n \in Unknown : remaining_trials'[n] \in 0 .. 3
  BY <1>1, <1>6, TrialsCounted
<1> HIDE DEF l, r, t
<1>10. /\ Anchored' = Anchored /\ Anchors' = Anchors
       /\ Waiting' \cup abandoned_missions' = Waiting \cup abandoned_missions
       /\ Waiting' \subseteq Waiting
       /\ abandoned_missions' \subseteq abandoned_missions \cup {m}
       /\ Waiting' \cap abandoned_missions' = {}
  <2>1. Anchored' = Anchored /\ Anchors' = Anchors
    BY <1>6, <1>8, <1>9 DEF Anchored, Anchors
  <2>2. Waiting \cap abandoned_missions = {}
    BY DEF AnchoringInv, Sorted
  <2>3. Waiting' = IF missions_to_anchor' = t THEN Waiting ELSE ToSet(missions_to_anchor')
    BY <1>5 DEF Waiting
  <2> QED
    BY <1>2, <1>4, <1>5, <1>7, <2>1, <2>2 DEF Waiting
<1>11. Anchors \subseteq Missions /\ Anchors \subseteq all_missions
  BY DEF Anchors, AnchoringInv, TypeOK
<1>12. Distinct(missions_to_anchor') /\ missions_to_anchor' \in Seq(Missions)
  BY <1>4, <1>5, <1>7
<1>13. /\ Waiting \subseteq Unknown /\ abandoned_missions \subseteq Unknown
       /\ Unknown \subseteq Missions
  BY DEF AnchoringInv, Sorted, TypeOK, Unknown
<1>14. \A n \in Unknown : remaining_trials[n] \in 0 .. 3
  BY DEF AnchoringInv, TypeOK, Unknown
<1>15. TypeOK'
  <2>1. \A n \in DOMAIN remaining_trials' : remaining_trials'[n] \in 0 .. 3
    BY <1>9 DEF Unknown
  <2>2. DOMAIN remaining_trials' \subseteq Missions
    BY <1>9, <1>13 DEF Unknown
  <2>3. /\ matches' \in Relations /\ known' \subseteq Missions /\ selected' \subseteq Missions
        /\ in_loop' \in BOOLEAN /\ initial_mission_added' \in BOOLEAN
        /\ all_missions' \subseteq Missions
        /\ abandoned_missions' \subseteq Missions /\ database' \subseteq Missions
        /\ result' \in {"none", "success", "failure"}
    BY <1>2, <1>6, <1>7, <1>8, <1>11, <1>13 DEF AnchoringInv, TypeOK
  <2> QED
    BY <1>12, <2>1, <2>2, <2>3 DEF TypeOK
<1>16. Sorted'
  <2>1. \A n \in Waiting' : remaining_trials'[n] >= 1
    <3> TAKE n \in Waiting'
    <3>1. n \in Waiting /\ n \in Unknown /\ remaining_trials[n] >= 1
      BY <1>10, <1>13 DEF AnchoringInv, Sorted
    <3>2. CASE n # m
      BY <3>1, <3>2, <1>9
    <3>3. CASE n = m
      <4>1. remaining_trials[m] > 1
        BY <3>3, <1>4, <1>7 DEF Waiting
      <4> QED
        BY <4>1, <3>3, <1>2, <1>9
    <3> QED
      BY <3>2, <3>3
  <2>2. \A n \in abandoned_missions' : remaining_trials'[n] < 3
    <3> TAKE n \in abandoned_missions'
    <3>1. CASE n # m
      <4>1. n \in abandoned_missions /\ n \in Unknown /\ remaining_trials[n] < 3
        BY <3>1, <1>10, <1>13 DEF AnchoringInv, Sorted
      <4> QED
        BY <4>1, <3>1, <1>9
    <3>2. CASE n = m
      BY <3>2, <1>2, <1>9
    <3> QED
      BY <3>1, <3>2
  <2>3. /\ Unknown' \subseteq all_missions' /\ all_missions' \ Unknown' \subseteq known'
        /\ Unknown' = Waiting' \cup Anchored' \cup abandoned_missions'
        /\ known' \cap (Waiting' \cup abandoned_missions') = {}
    BY <1>6, <1>8, <1>9, <1>10 DEF AnchoringInv, Sorted
  <2> QED
    BY <1>10, <1>12, <2>1, <2>2, <2>3 DEF Sorted, Distinct
<1>17. Finished'
  BY <1>1, <1>8 DEF AnchoringInv, Finished
<1>18. Narrowed'
  BY <1>2, <1>8, <1>9, <1>10, <1>11 DEF Narrowed
<1>19. NeverFails'
  <2> SUFFICES ASSUME reliable, NEW n \in Unknown, MayMatch(n, all_missions \ Unknown)
               PROVE  remaining_trials'[n] = 3 /\ n \notin abandoned_missions'
    BY <1>8, <1>9 DEF NeverFails, MayMatch
  <2>1. remaining_trials[n] = 3 /\ n \notin abandoned_missions
    BY DEF AnchoringInv, NeverFails
  <2>2. n # m
    BY <1>2, <1>6 DEF MayFail, MayMatch
  <2> QED
    BY <2>1, <2>2, <1>9, <1>10
<1>20. reliable /\ add_anchored => ~MayMatch(m, Anchors)
  BY <1>2, <1>6 DEF MayFail
<1>21. GivenUp'
  <2> SUFFICES ASSUME reliable, add_anchored, NEW n \in abandoned_missions'
               PROVE  \/ remaining_trials'[n] = 0
                      \/ missions_to_anchor' = <<>> /\ ~MayMatch(n, Anchors)
    BY <1>8, <1>10 DEF GivenUp, MayMatch
  <2>1. CASE n \in abandoned_missions
    <3>1. remaining_trials[n] = 0 /\ n # m /\ n \in Unknown
      BY <2>1, <1>1, <1>2, <1>13 DEF AnchoringInv, GivenUp, l
    <3> QED
      BY <3>1, <1>9
  <2>2. CASE n \notin abandoned_missions
    <3>1. n = m
      BY <2>2, <1>10
    <3>2. (r = <<>> /\ missions_to_anchor' = r) \/ remaining_trials[m] = 1
      BY <2>2, <3>1, <1>7
    <3> QED
      BY <3>1, <3>2, <1>9, <1>20
  <2> QED
    BY <2>1, <2>2
<1>22. FewTrials'
  <2> SUFFICES ASSUME reliable, add_anchored, Cardinality(Unknown) <= 3, ~Stuck'
               PROVE  abandoned_missions' = {} /\ Rounds'
    BY <1>8, <1>9 DEF FewTrials
  <2> DEFINE s == Cardinality(Anchored)
  <2>1. ~Stuck
    BY <1>8, <1>10 DEF Stuck, MayMatch
  <2>2. abandoned_missions = {} /\ Rounds
    BY <2>1 DEF AnchoringInv, FewTrials
  <2>3. s \in Nat /\ IsFiniteSet(Anchored) /\ IsFiniteSet(Unknown)
    BY <1>13, MissionsAssumption, FS_Subset, FS_CardinalityType DEF Anchored
  <2>4. PICK p \in 0 .. Len(l) : \A i \in 1 .. Len(l) :
          IF i <= p THEN 3 - remaining_trials[l[i]] <= s
          ELSE 3 - remaining_trials[l[i]] <= s + 1 /\ ~MayMatch(l[i], Anchors)
    BY <2>2 DEF Rounds, l
  <2>5. p \in Nat /\ p <= Len(l) /\ 1 \in 1 .. Len(l)
    BY <1>4, <2>4
  <2>6. p >= 1
    <3> SUFFICES ASSUME p = 0 PROVE FALSE
      BY <2>5
    <3>1. \A i \in 1 .. Len(l) : ~(i <= p)
      OBVIOUS
    <3>2. \A i \in 1 .. Len(l) : ~MayMatch(l[i], Anchors)
      BY <2>4, <3>1
    <3>3. \A n \in Waiting : ~MayMatch(n, Anchors)
      BY <3>2, <1>3, Elements DEF Waiting, l
    <3> QED
      BY <3>3, <2>1, <2>2 DEF Stuck
  <2>7. 3 - remaining_trials[m] <= s
    BY <2>4, <2>5, <2>6, <1>4
  <2>8. r # <<>>
    <3> SUFFICES ASSUME r = <<>> PROVE FALSE
      OBVIOUS
    <3>1. ToSet(r) = {}
      <4>1. r \in Seq(Missions)
        BY <1>4
      <4> HIDE DEF r
      <4> QED
        BY <4>1, Elements
    <3>2. Waiting \subseteq {m}
      BY <1>4, <3>1
    <3> QED
      BY <3>2, <2>1, <2>2, <1>20 DEF Stuck
  <2>9. remaining_trials[m] # 1
    <3> SUFFICES ASSUME remaining_trials[m] = 1 PROVE FALSE
      OBVIOUS
    <3>1. s >= 2
      BY <2>3, <2>7
    <3>2. PICK n \in ToSet(r) : n # m
      BY <2>8, <1>4, Elements
    <3>3. n \in Waiting /\ m \in Waiting /\ n # m /\ m \notin Anchored /\ n \notin Anchored
      BY <3>2, <1>2, <1>4 DEF AnchoringInv, Sorted, Anchored
    <3>4. Cardinality(Anchored \cup {m}) = s + 1 /\ IsFiniteSet(Anchored \cup {m})
      BY <2>3, <3>3, FS_AddElement
    <3>5. Cardinality((Anchored \cup {m}) \cup {n}) = s + 2
      <4>1. n \notin Anchored \cup {m}
        BY <3>3
      <4>2. Cardinality((Anchored \cup {m}) \cup {n}) = Cardinality(Anchored \cup {m}) + 1
        BY <4>1, <3>4, FS_AddElement
      <4> QED
        BY <4>2, <3>4, <2>3
    <3>6. (Anchored \cup {m}) \cup {n} \in SUBSET Unknown
      BY <3>3, <1>13 DEF Anchored
    <3>7. Cardinality((Anchored \cup {m}) \cup {n}) <= Cardinality(Unknown)
      BY <3>6, <2>3, FS_Subset
    <3> QED
      BY <3>1, <3>5, <3>7, <2>3, FS_CardinalityType
  <2>10. /\ missions_to_anchor' = t /\ abandoned_missions' = abandoned_missions
         /\ remaining_trials[m] > 1
    BY <1>7, <2>8, <2>9
  <2>11. p - 1 \in 0 .. Len(l)
    BY <2>5, <2>6, <1>4
  <2>12. ASSUME NEW i \in 1 .. Len(l) - 1
         PROVE  IF i <= p - 1 THEN 3 - remaining_trials'[t[i]] <= s
                ELSE 3 - remaining_trials'[t[i]] <= s + 1 /\ ~MayMatch(t[i], Anchors)
    <3>1. i + 1 \in 1 .. Len(l) /\ i + 1 # 1 /\ (i <= p - 1 <=> i + 1 <= p)
      BY <1>4, <2>5
    <3>2. t[i] = l[i + 1] /\ t[i] # m
      BY <3>1, <2>5, <1>3, <1>4, <1>5 DEF Distinct
    <3>3. t[i] \in Waiting
      BY <3>1, <3>2, <1>3, Elements DEF Waiting, l
    <3>4. remaining_trials'[t[i]] = remaining_trials[t[i]]
      BY <3>2, <3>3, <1>9, <1>13
    <3> QED
      BY <3>1, <3>2, <3>4, <2>4
  <2>13. 3 - remaining_trials'[t[Len(l)]] <= s + 1 /\ ~MayMatch(t[Len(l)], Anchors)
    BY <1>2, <1>5, <1>9, <1>20, <2>3, <2>7
  <2>14. ~(Len(l) <= p - 1)
    BY <1>4, <2>5
  <2>15. \A i \in 1 .. Len(l) : i = Len(l) \/ i \in 1 .. Len(l) - 1
    BY <1>4, LastOrBefore
  <2>16. \A i \in 1 .. Len(l) :
           IF i <= p - 1 THEN 3 - remaining_trials'[t[i]] <= s
           ELSE 3 - remaining_trials'[t[i]] <= s + 1 /\ ~MayMatch(t[i], Anchors)
    BY <2>12, <2>13, <2>14, <2>15
  <2>17. Rounds'
    <3> HIDE DEF s
    <3> SUFFICES \E q \in 0 .. Len(l) : \A i \in 1 .. Len(l) :
                   IF i <= q THEN 3 - remaining_trials'[t[i]] <= s
                   ELSE 3 - remaining_trials'[t[i]] <= s + 1 /\ ~MayMatch(t[i], Anchors)
      BY <1>5, <1>8, <1>10, <2>10 DEF Rounds, MayMatch, s
    <3> QED
      BY <2>11, <2>16
  <2> QED
    BY <2>2, <2>10, <2>17
<1> QED
  BY <1>15, <1>16, <1>17, <1>18, <1>19, <1>21, <1>22 DEF AnchoringInv
-----------------------------------------------------------------------------
(***************************************************************************)
(* The theorems.                                                           *)
(***************************************************************************)
\* Every step keeps the missions sorted.
LEMMA AnchoringStep ==
  ASSUME AnchoringInv, [Next]_vars
  PROVE  AnchoringInv'
<1>1. ASSUME NEW missions \in SUBSET Missions, SelectMissions(missions) PROVE AnchoringInv'
  BY <1>1, CommandForgets DEF SelectMissions, AnchoringInv, TypeOK
<1>2. ASSUME NEW m \in Missions, NEW b \in BOOLEAN, SetMissionBaseframeKnownState(m, b)
      PROVE  AnchoringInv'
  <2>1. Command("set_known") /\ known' \subseteq Missions /\ selected' \subseteq Missions
    BY <1>2 DEF SetMissionBaseframeKnownState, AnchoringInv, TypeOK
  <2> QED
    BY <2>1, CommandForgets
<1>3. ASSUME SetMissionBaseframeToKnownIfHasAbs6DoFConstraints PROVE AnchoringInv'
  <2>1. Command("constraints") /\ known' \subseteq Missions /\ selected' \subseteq Missions
    BY <1>3, ConstrainedAssumption
    DEF SetMissionBaseframeToKnownIfHasAbs6DoFConstraints, AnchoringInv, TypeOK
  <2> QED
    BY <2>1, CommandForgets
<1>4. ASSUME NEW m \in Missions, AnchorMission(m) PROVE AnchoringInv'
  <2>1. Command("anchor") /\ known' \subseteq Missions /\ selected' \subseteq Missions
    BY <1>4 DEF AnchorMission, AnchoringInv, TypeOK
  <2> QED
    BY <2>1, CommandForgets
<1>5. ASSUME NEW list \in SetToSeqs(InView \ known), CallAnchorAll(list) PROVE AnchoringInv'
  BY <1>5, CallSorts
<1>6. ASSUME TryMission PROVE AnchoringInv'
  <2>1. UNCHANGED <<given, in_loop, all_missions, result>>
    BY <1>6 DEF TryMission
  <2>2. PICK m : ProbeSucceeds(m) \/ ProbeFails(m)
    BY <1>6 DEF TryMission
  <2> QED
    BY <2>1, <2>2, SuccessAnchors, FailureCounts
<1>7. ASSUME ReturnFromLoop PROVE AnchoringInv'
  BY <1>7, ReturnFinishes
<1>8. ASSUME UNCHANGED vars PROVE AnchoringInv'
  <2>1. /\ matches' = matches /\ reliable' = reliable /\ add_anchored' = add_anchored
        /\ known' = known /\ selected' = selected /\ in_loop' = in_loop /\ result' = result
        /\ all_missions' = all_missions /\ missions_to_anchor' = missions_to_anchor
        /\ remaining_trials' = remaining_trials /\ database' = database
        /\ abandoned_missions' = abandoned_missions
        /\ initial_mission_added' = initial_mission_added
    BY <1>8 DEF vars, given, locals
  <2>2. /\ Unknown' = Unknown /\ Waiting' = Waiting /\ Anchored' = Anchored
        /\ Anchors' = Anchors /\ InView' = InView
    BY <2>1 DEF Unknown, Waiting, Anchored, Anchors, InView
  <2>3. TypeOK' /\ Sorted' /\ Finished' /\ Narrowed'
    BY <2>1, <2>2 DEF AnchoringInv, TypeOK, Sorted, Finished, Narrowed
  <2>4. NeverFails' /\ GivenUp'
    BY <2>1, <2>2 DEF AnchoringInv, NeverFails, GivenUp, MayMatch
  <2>5. FewTrials'
    BY <2>1, <2>2 DEF AnchoringInv, FewTrials, Stuck, Rounds, MayMatch
  <2> QED
    BY <2>3, <2>4, <2>5 DEF AnchoringInv
<1> QED
  BY <1>1, <1>2, <1>3, <1>4, <1>5, <1>6, <1>7, <1>8 DEF Next

\* The invariant holds in every state.
THEOREM AnchoringIsSorted == Spec => []AnchoringInv
<1>1. Init => AnchoringInv
  BY AnchoringStart
<1>2. AnchoringInv /\ [Next]_vars => AnchoringInv'
  BY AnchoringStep
<1> QED
  BY <1>1, <1>2, PTL DEF Spec

\* A call is answered with success only when all that it saw is known.
LEMMA AnswersHonestly == AnchoringInv => ResultHonest
<1> SUFFICES ASSUME AnchoringInv, result = "success" PROVE all_missions \subseteq known
  BY DEF ResultHonest
<1>1. Waiting = {} /\ abandoned_missions = {}
  BY DEF AnchoringInv, Finished, Waiting, ToSet
<1> QED
  BY <1>1 DEF AnchoringInv, Sorted, Anchored

\* What a call leaves behind was given up, unless nothing at all was known.
LEMMA LeftBehind ==
  ASSUME AnchoringInv, result = "failure", NEW m \in all_missions \ known, MayMatch(m, Anchors)
  PROVE  missions_to_anchor = <<>> /\ Waiting = {} /\ m \in abandoned_missions
<1>1. missions_to_anchor = <<>>
  BY DEF AnchoringInv, Finished, MayMatch
<1>2. Waiting = {}
  BY <1>1 DEF Waiting, ToSet
<1> QED
  BY <1>1, <1>2 DEF AnchoringInv, Sorted, Anchored

\* What a call answers is right in every state of the invariant.
LEMMA AnswersRightly == AnchoringInv => ResultRight
<1> SUFFICES ASSUME AnchoringInv PROVE ResultRight
  OBVIOUS
<1>1. GivenUpForGood
  <2> SUFFICES ASSUME result = "failure", reliable, add_anchored,
                      NEW m \in all_missions \ known, MayMatch(m, Anchors)
               PROVE  remaining_trials[m] = 0
    BY DEF GivenUpForGood, Anchors
  <2> QED
    BY LeftBehind DEF AnchoringInv, GivenUp
<1>2. NobodyLeftBehind
  <2> SUFFICES ASSUME result = "failure", reliable, add_anchored,
                      Cardinality(Unknown) <= kTrialsPerMission,
                      NEW m \in all_missions \ known, MayMatch(m, Anchors)
               PROVE  FALSE
    BY DEF NobodyLeftBehind, Anchors, Unknown
  <2>1. m \in abandoned_missions
    BY LeftBehind
  <2> QED
    BY <2>1 DEF AnchoringInv, FewTrials, Stuck
<1>3. DirectMatchAnchored
  <2> SUFFICES ASSUME result # "none", reliable, NEW m \in Unknown,
                      MayMatch(m, all_missions \ Unknown), m \notin known
               PROVE  FALSE
    BY DEF DirectMatchAnchored, Unknown
  <2>1. m \in all_missions \ known /\ all_missions \ Unknown \subseteq Anchors
    BY DEF AnchoringInv, Sorted, Anchors
  <2>2. MayMatch(m, Anchors)
    BY <2>1 DEF MayMatch
  <2>3. result = "failure"
    BY <2>1, AnswersHonestly DEF ResultHonest, AnchoringInv, TypeOK
  <2>4. m \in abandoned_missions
    BY <2>1, <2>2, <2>3, LeftBehind
  <2> QED
    BY <2>4 DEF AnchoringInv, NeverFails
<1> QED
  BY <1>1, <1>2, <1>3, AnswersHonestly DEF ResultRight, AnchoringInv

\* anchorAllMissions answers "all missions anchored" only when none that it saw is left;
\* what it gives up has no match or no trials left; with at most three unknown missions it
\* leaves none behind that a chain of matches reaches; and what matches a mission that was
\* known at the call is anchored. For all missions, matches and orders of the work list.
THEOREM AnswersAreRight == Spec => []ResultRight
<1>1. AnchoringInv => ResultRight
  BY AnswersRightly
<1> QED
  BY <1>1, AnchoringIsSorted, PTL

\* While the loop narrows the selection of the map, the missions that it localizes in
\* stay in view.
THEOREM DatabaseStaysInView == Spec => []DatabaseInView
<1>1. AnchoringInv => DatabaseInView
  BY DEF AnchoringInv, Narrowed, DatabaseInView, Anchors
<1> QED
  BY <1>1, AnchoringIsSorted, PTL

\* The trials that a round removes are not those that it leaves.
LEMMA RoundUsesTrial ==
  ASSUME AnchoringInv, TryMission
  PROVE  TrialsLeft' \subseteq TrialsLeft /\ TrialsLeft' # TrialsLeft
<1> USE DEF kTrialsPerMission
<1>1. PICK m : ProbeSucceeds(m) \/ ProbeFails(m)
  BY DEF TryMission
<1>2. Probe(m) /\ missions_to_anchor # <<>>
  BY <1>1 DEF ProbeSucceeds, ProbeFails, Probe
<1>3. /\ m = Head(missions_to_anchor) /\ m \in Waiting /\ m \in Unknown /\ m \in Missions
      /\ remaining_trials[m] \in 1 .. 3
  BY <1>2, ProbeSees
<1>4. missions_to_anchor \in Seq(Missions) /\ Distinct(missions_to_anchor)
  BY DEF AnchoringInv, TypeOK, Sorted, Distinct
<1>5. Waiting \subseteq Unknown /\ \A n \in Unknown : remaining_trials[n] \in 0 .. 3
  BY DEF AnchoringInv, TypeOK, Sorted, Unknown
<1>6. ToSet(Tail(missions_to_anchor)) = Waiting \ {m}
  BY <1>2, <1>3, <1>4, RestOfList DEF Waiting
<1>7. ToSet(Append(Tail(missions_to_anchor), Head(missions_to_anchor))) = Waiting
  BY <1>2, <1>4, RotatedList DEF Waiting
<1> DEFINE last == <<m, remaining_trials[m]>>
<1>8. last \in TrialsLeft
  BY <1>3 DEF TrialsLeft, Waiting
<1>9. CASE ProbeSucceeds(m)
  <2>1. Waiting' = Waiting \ {m} /\ remaining_trials' = remaining_trials
    BY <1>6, <1>9 DEF ProbeSucceeds, Waiting
  <2>2. TrialsLeft' \subseteq TrialsLeft /\ last \notin TrialsLeft'
    BY <2>1 DEF TrialsLeft, Waiting
  <2> QED
    BY <1>8, <2>2
<1>10. CASE ProbeFails(m)
  <2>1. Waiting' \subseteq Waiting
    BY <1>3, <1>6, <1>7, <1>10 DEF ProbeFails, Waiting
  <2>2. /\ remaining_trials'[m] = remaining_trials[m] - 1
        /\ \A n \in Unknown \ {m} : remaining_trials'[n] = remaining_trials[n]
    BY <1>2, <1>10, TrialsCounted DEF ProbeFails
  <2>3. \A n \in Waiting : \A i \in 1 .. 3 : i <= remaining_trials'[n] => i <= remaining_trials[n]
    <3> TAKE n \in Waiting
    <3>1. CASE n = m
      BY <1>3, <2>2, <3>1
    <3>2. CASE n # m
      BY <1>5, <2>2, <3>2
    <3> QED
      BY <3>1, <3>2
  <2>4. TrialsLeft' \subseteq TrialsLeft
    BY <2>1, <2>3 DEF TrialsLeft, Waiting
  <2>5. ~(remaining_trials[m] <= remaining_trials'[m])
    BY <1>3, <2>2
  <2>6. last \notin TrialsLeft'
    BY <2>5 DEF TrialsLeft
  <2> QED
    BY <1>8, <2>4, <2>6
<1> QED
  BY <1>1, <1>9, <1>10

\* A mission has finitely many trials.
LEMMA TrialsAreFinite == IsFiniteSet(1 .. kTrialsPerMission)
<1>1. 1 \in Int /\ kTrialsPerMission \in Int
  BY DEF kTrialsPerMission
<1> QED
  BY <1>1, FS_Interval

\* Every round of the loop uses up a trial or a mission, so that the loop ends however many
\* probes fail and in whatever order the missions are tried.
THEOREM EveryRoundShrinks == Spec => WorkShrinks
<1>1. ASSUME AnchoringInv, [Next]_vars
      PROVE  in_loop /\ in_loop' =>
               Cardinality(TrialsLeft') < Cardinality(TrialsLeft) \/ UNCHANGED vars
  <2> SUFFICES ASSUME in_loop, in_loop', Next
               PROVE  Cardinality(TrialsLeft') < Cardinality(TrialsLeft)
    BY <1>1
  <2>1. TryMission
    BY DEF Next, SelectMissions, SetMissionBaseframeKnownState, AnchorMission, Command,
           SetMissionBaseframeToKnownIfHasAbs6DoFConstraints, CallAnchorAll, ReturnFromLoop
  <2>2. TrialsLeft' \in SUBSET TrialsLeft /\ TrialsLeft' # TrialsLeft
    BY <1>1, <2>1, RoundUsesTrial
  <2>3. IsFiniteSet(TrialsLeft)
    <3>1. IsFiniteSet(Missions \X (1 .. kTrialsPerMission))
      BY TrialsAreFinite, MissionsAssumption, FS_Product
    <3> QED
      BY <3>1, FS_Subset DEF TrialsLeft
  <2>4. /\ Cardinality(TrialsLeft) \in Nat /\ Cardinality(TrialsLeft') \in Nat
        /\ Cardinality(TrialsLeft') <= Cardinality(TrialsLeft)
        /\ Cardinality(TrialsLeft') # Cardinality(TrialsLeft)
    BY <2>2, <2>3, FS_Subset, FS_CardinalityType
  <2> QED
    BY <2>4
<1>2. ASSUME AnchoringInv, [Next]_vars
      PROVE  [in_loop /\ in_loop' => Cardinality(TrialsLeft') < Cardinality(TrialsLeft)]_vars
  BY <1>1, <1>2
<1> QED
  BY <1>2, AnchoringIsSorted, PTL DEF Spec, WorkShrinks
=============================================================================
