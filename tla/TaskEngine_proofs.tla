-------------------------- MODULE TaskEngine_proofs --------------------------
(***************************************************************************)
(* Proofs about the task engine for any graph, width and number of runs:   *)
(* the inductive invariant and what follows from it, the results that are  *)
(* final, and the refinement of DagRun.                                    *)
(***************************************************************************)
EXTENDS TaskEngine, FiniteSetTheorems, WellFoundedInduction, TLAPS

(* ------------------------- prefixes of a sorted set --------------------- *)

\* A non-empty set of naturals has a least element.
LEMMA LeastElement ==
  ASSUME NEW S, S \subseteq Nat, S # {}
  PROVE  \E x \in S : \A y \in S : x <= y
<1>1. \E x \in S : \A y \in S : ~(<<y, x>> \in OpToRel(<, Nat))
  BY NatLessThanWellFounded, WFMin
<1>2. ASSUME NEW x \in Nat, NEW y \in Nat, y < x PROVE <<y, x>> \in OpToRel(<, Nat)
  <2>1. <<y, x>> \in Nat \X Nat /\ <<y, x>>[1] < <<y, x>>[2]
    BY <1>2
  <2> QED
  BY <2>1, Zenon DEF OpToRel
<1>3. PICK x \in S : \A y \in S : ~(<<y, x>> \in OpToRel(<, Nat))
  BY <1>1
<1>4. \A y \in S : ~(y < x)
  BY <1>3, <1>2
<1>5. \A y \in S : y \in Nat /\ x \in Nat
   OBVIOUS
<1>6. \A y \in S : x <= y
  <2> TAKE y \in S
  <2>1. y \in Nat /\ x \in Nat /\ ~(y < x)
    BY <1>4, <1>5
  <2> QED BY <2>1
<1> QED
  BY <1>6

\* The engine always has room for one node.
LEMMA SlotsPositive == Slots \in Nat /\ Slots >= 1
  BY WidthAssumption DEF Slots, Width, MaxFrontier, AtLeastOne

\* A slice with room for one node leaves nothing only of an empty list.
LEMMA FirstOfNonEmpty ==
  ASSUME NEW S \in SUBSET Nodes, NEW k \in Int, k >= 1, FirstOf(S, k) = {}
  PROVE  S = {}
<1> SUFFICES ASSUME S # {} PROVE FALSE
    OBVIOUS
<1>0. S \subseteq Nat
  BY NodesAssumption
<1>1. PICK x \in S : \A y \in S : x <= y
  BY <1>0, LeastElement
<1>2. ASSUME NEW m \in S, m < x PROVE FALSE
  <2>1. m \in Nat /\ x \in Nat /\ x <= m
    BY <1>0, <1>1
  <2> QED BY <2>1, <1>2
<1>3. {m \in S : m < x} = {}
  BY <1>2
<1> QED
  BY <1>3, FS_EmptySet DEF FirstOf

\* A slice is never longer than asked for: behind its highest-ranked member
\* there are only members that rank lower.
LEMMA FirstOfBound ==
  ASSUME NEW S \in SUBSET Nodes, NEW k \in Int
  PROVE  Cardinality(FirstOf(S, k)) <= (IF k > 0 THEN k ELSE 0)
<1> DEFINE Below(x) == {m \in S : m < x}
           Rank(x) == Cardinality(Below(x))
           F == FirstOf(S, k)
<1>0. \A x \in S : x \in Nat
  BY NodesAssumption
<1>1. \A x \in S : IsFiniteSet(Below(x)) /\ Rank(x) \in Nat /\ x \notin Below(x)
  <2>1. IsFiniteSet(S)
    BY NodesAssumption, FS_Subset
  <2>2. \A x \in S : x \notin Below(x)
    BY <1>0
  <2> QED
    BY <2>1, <2>2, FS_Subset, FS_CardinalityType
<1>2. F \subseteq S /\ \A x \in F : Rank(x) < k
  BY DEF FirstOf
<1>3. CASE F = {}
  BY <1>3, FS_EmptySet
<1>4. CASE F # {}
  <2> HIDE DEF Rank, F
  <2> DEFINE Gaps == {k - Rank(x) : x \in F}
  <2>1. Gaps \subseteq Nat /\ Gaps # {}
    <3>1. ASSUME NEW x \in F PROVE k - Rank(x) \in Nat
      <4>1. Rank(x) \in Nat /\ Rank(x) < k
        BY <1>1, <1>2
      <4> QED
        BY <4>1
    <3> QED
      BY <3>1, <1>4
  <2> HIDE DEF Gaps
  <2>2. PICK g \in Gaps : \A h \in Gaps : g <= h
    BY <2>1, LeastElement
  <2>3. PICK x \in F : g = k - Rank(x)
    BY DEF Gaps
  <2>4. x \in S /\ x \in Nat /\ Rank(x) \in Nat /\ Rank(x) < k
    BY <2>3, <1>0, <1>1, <1>2
  <2>5. Cardinality(Below(x) \cup {x}) = Rank(x) + 1 /\ IsFiniteSet(Below(x) \cup {x})
    BY <2>4, <1>1, FS_AddElement DEF Rank
  <2>6. ASSUME NEW y \in F PROVE ~(x < y)
    <3> SUFFICES ASSUME x < y PROVE FALSE
      OBVIOUS
    <3>1. y \in S /\ y \in Nat /\ Rank(y) \in Nat
      BY <1>0, <1>1, <1>2
    <3>2. Below(x) \cup {x} \subseteq Below(y)
      <4>1. ASSUME NEW m \in S, m < x PROVE m < y
        <5>1. m \in Nat
          BY <1>0
        <5> QED
          BY <4>1, <5>1, <2>4, <3>1
      <4> QED
        BY <4>1, <2>4, <3>1
    <3>3. Rank(x) + 1 <= Rank(y)
      BY <1>1, <2>5, <3>1, <3>2, FS_Subset DEF Rank
    <3>4. k - Rank(x) <= k - Rank(y)
      BY <2>2, <2>3 DEF Gaps
    <3> QED
      BY <2>4, <3>1, <3>3, <3>4
  <2>7. F \subseteq Below(x) \cup {x}
    BY <1>0, <1>2, <2>4, <2>6
  <2>8. Cardinality(F) <= Rank(x) + 1 /\ Cardinality(F) \in Nat
    BY <2>5, <2>7, FS_Subset, FS_CardinalityType
  <2> QED
    BY <2>4, <2>8 DEF F
<1> QED
  BY <1>3, <1>4

(* ------------------------- the scheduler's invariant -------------------- *)

\* Before it returns, run() accounts for every node exactly once.
Partition ==
    pc # "returned" =>
        /\ \A n \in Nodes : n \in pending \/ n \in running \/ results[n] # "none"
        /\ \A n \in Nodes : n \in pending => n \notin running /\ results[n] = "none"
        /\ \A n \in Nodes : n \in running => results[n] = "none"

\* The running dict and the tasks agree.
TasksMatch ==
    /\ \A n \in running : task[n] \in Live \cup Returned
    /\ \A n \in Nodes : task[n] \in Live => n \in running
    /\ \A n \in pending : task[n] = "none"
    /\ pc \in {"validate", "returned"} => running = {}

OutcomeAtReturn == pc # "returned" => outcome = "none"

\* Until a run fails for good, a skipped node has a failed dependency or there
\* is a failed critical node.
StrictCause ==
    outcome \in Resumable \cup {"none"} =>
        \A n \in Nodes : results[n] = "skipped" =>
            \/ \E d \in spec.deps[n] : results[d] \in FailedDependency
            \/ CriticalFailed(spec, results)

\* The inductive invariant of the scheduler, without the width bound.
EngineInv ==
    /\ TypeOK
    /\ Partition
    /\ TasksMatch
    /\ DependenciesGateLaunch
    /\ OutcomeAtReturn
    /\ StrictCause
    /\ SkipHasCause

\* A frozen spec has a graph and node sets over the job's nodes.
LEMMA SpecFields ==
  ASSUME TypeOK
  PROVE  /\ spec.deps \in [Nodes -> SUBSET Nodes]
         /\ spec.critical \in SUBSET Nodes
         /\ spec.isolated \in SUBSET Nodes
  BY SpecsAssumption DEF TypeOK, JobSpec

\* The invariant holds in the initial states.
THEOREM InitEngineInv == Init => EngineInv
<1> SUFFICES ASSUME Init PROVE EngineInv
    OBVIOUS
<1>1. TypeOK
  BY DEF Init, TypeOK, Control, TaskState, NodeStatus, TerminalNode, Phase, JobOutcome
<1>2. Partition /\ TasksMatch /\ OutcomeAtReturn
  BY DEF Init, Partition, TasksMatch, OutcomeAtReturn, Live
<1>3. DependenciesGateLaunch /\ StrictCause /\ SkipHasCause
  BY DEF Init, DependenciesGateLaunch, StrictCause, SkipHasCause
<1> QED
  BY <1>1, <1>2, <1>3 DEF EngineInv

USE DEF TerminalNode, FailedDependency, StoppedJob, NodeStatus, Returned, JobOutcome,
        Resumable, Live, TaskState, Phase, Stopping, Control, InLoop, Over

\* Every step preserves the invariant.
THEOREM StepEngineInv == EngineInv /\ [Next]_vars => EngineInv'
<1> SUFFICES ASSUME EngineInv, [Next]_vars PROVE EngineInv'
    OBVIOUS
<1>0. /\ spec.deps \in [Nodes -> SUBSET Nodes]
      /\ spec.critical \in SUBSET Nodes
      /\ spec.isolated \in SUBSET Nodes
  BY SpecFields DEF EngineInv
<1> USE <1>0 DEF EngineInv, TypeOK, Partition, TasksMatch, DependenciesGateLaunch,
        OutcomeAtReturn, StrictCause, SkipHasCause, Settled,
        DependenciesMet, CriticalFailed, Finish
<1>1. CASE Validate
  BY <1>1 DEF Validate
<1>2. CASE ReadControl
  BY <1>2 DEF ReadControl
<1>3. CASE LoopExit
  BY <1>3 DEF LoopExit, DeriveStatus
<1>4. CASE StopBranch
  <2>1. TypeOK' /\ OutcomeAtReturn'
    BY <1>4 DEF StopBranch, Put, OpenNodes, CancelRunning
  <2>2. Partition' /\ TasksMatch'
    BY <1>4 DEF StopBranch, Put, OpenNodes, CancelRunning
  <2>3. \A n \in Nodes : results[n] # "none" => results'[n] = results[n]
    BY <1>4 DEF StopBranch, Put, OpenNodes
  <2>4. DependenciesGateLaunch'
    BY <1>4, <2>3 DEF StopBranch, Put, CancelRunning
  <2>5. /\ \A n \in Nodes : results'[n] = "skipped" => results[n] = "skipped"
        /\ outcome = "none" /\ spec' = spec
    BY <1>4 DEF StopBranch, Put
  <2>6. StrictCause' /\ SkipHasCause'
    BY <2>3, <2>5
  <2> QED
    BY <2>1, <2>2, <2>4, <2>6
<1>5. CASE PausedReturn
  BY <1>5 DEF PausedReturn
<1>6. CASE PausedCollect
  <2>1. TypeOK' /\ OutcomeAtReturn'
    BY <1>6 DEF PausedCollect, Collected, Finished, Take
  <2>2. Partition' /\ TasksMatch'
    BY <1>6 DEF PausedCollect, Collected, Finished, Take
  <2>3. \A n \in Nodes : results[n] # "none" => results'[n] = results[n]
    BY <1>6 DEF PausedCollect, Collected, Finished, Take
  <2>4. DependenciesGateLaunch'
    BY <1>6, <2>3 DEF PausedCollect, Finished
  <2>5. /\ \A n \in Nodes : results'[n] = "skipped" => results[n] = "skipped"
        /\ outcome = "none" /\ spec' = spec
    BY <1>6 DEF PausedCollect, Collected, Finished, Take
  <2>6. StrictCause' /\ SkipHasCause'
    BY <2>3, <2>5
  <2> QED
    BY <2>1, <2>2, <2>4, <2>6
<1>7. CASE Launch
  <2>1. TypeOK' /\ OutcomeAtReturn'
    BY <1>7 DEF Launch, Put, Launched, FirstOf, Ready, Skipped, DependencyFailed
  <2>2. Partition' /\ TasksMatch'
    BY <1>7 DEF Launch, Put, Launched, FirstOf, Ready, Skipped, DependencyFailed
  <2>3. \A n \in Nodes : results[n] # "none" => results'[n] = results[n]
    BY <1>7 DEF Launch, Put, Skipped
  <2>4. DependenciesGateLaunch'
    BY <1>7, <2>3 DEF Launch, Put, Launched, FirstOf, Ready
  <2>5. \A n \in Skipped : \E d \in spec.deps[n] : results[d] \in FailedDependency
    BY <1>7 DEF Skipped, DependencyFailed
  <2>6. /\ \A n \in Nodes : results'[n] = "skipped" => results[n] = "skipped" \/ n \in Skipped
        /\ outcome = "none" /\ spec' = spec
    BY <1>7 DEF Launch, Put, Skipped
  <2>7. StrictCause' /\ SkipHasCause'
    BY <2>3, <2>5, <2>6
  <2> QED
    BY <2>1, <2>2, <2>4, <2>7
<1>8. CASE NotConverged
  <2>1. TypeOK' /\ Partition' /\ OutcomeAtReturn' /\ StrictCause'
    BY <1>8 DEF NotConverged, Put
  <2>2. \A n \in Nodes : results[n] # "none" => results'[n] = results[n]
    BY <1>8 DEF NotConverged, Put
  <2>3. TasksMatch' /\ DependenciesGateLaunch'
    BY <1>8, <2>2 DEF NotConverged, Put
  <2>4. Ready = {}
    <3>1. running = {} /\ Launched = {}
      BY <1>8 DEF NotConverged
    <3>2. Ready \in SUBSET Nodes
      BY DEF Ready
    <3>3. FirstOf(Ready, Slots - 0) = {}
      BY <3>1, FS_EmptySet DEF Launched
    <3> QED
      BY <3>2, <3>3, FirstOfNonEmpty, SlotsPositive
  <2>5. \A n \in pending : \E d \in spec.deps[n] : results'[d] \in FailedDependency \cup StoppedJob
    BY <1>8, <2>4 DEF NotConverged, Ready, Put
  <2>6. SkipHasCause'
    BY <1>8, <2>2, <2>5 DEF NotConverged, Put
  <2> QED
    BY <2>1, <2>2, <2>3, <2>4, <2>5, <2>6
<1>9. CASE Converged
  <2>1. TypeOK' /\ Partition' /\ OutcomeAtReturn'
    BY <1>9 DEF Converged, Put, DeriveStatus
  <2>2. \A n \in Nodes : results[n] # "none" => results'[n] = results[n]
    BY <1>9 DEF Converged, Put, Skipped
  <2>3. TasksMatch' /\ DependenciesGateLaunch'
    BY <1>9, <2>2 DEF Converged, Put
  <2>4. \A n \in Skipped : \E d \in spec.deps[n] : results[d] \in FailedDependency
    BY DEF Skipped, DependencyFailed
  <2>5. /\ \A n \in Nodes : results'[n] = "skipped" => results[n] = "skipped" \/ n \in Skipped
        /\ outcome = "none" /\ spec' = spec
    BY <1>9 DEF Converged, Put
  <2>6. StrictCause' /\ SkipHasCause'
    BY <2>2, <2>4, <2>5
  <2> QED
    BY <2>1, <2>3, <2>6
<1>10. CASE WaitTimeout
  BY <1>10 DEF WaitTimeout
<1>11. CASE CollectStopped
  <2>1. TypeOK' /\ OutcomeAtReturn'
    BY <1>11 DEF CollectStopped, Collected, Finished, Take, Put, CancelRunning
  <2>2. Partition' /\ TasksMatch'
    BY <1>11 DEF CollectStopped, Collected, Finished, Take, Put, CancelRunning
  <2>3. \A n \in Nodes : results[n] # "none" => results'[n] = results[n]
    BY <1>11 DEF CollectStopped, Collected, Finished, Take
  <2>4. DependenciesGateLaunch'
    BY <1>11, <2>3 DEF CollectStopped, Finished, Put, CancelRunning
  <2>5. /\ \A n \in Nodes : results'[n] = "skipped" => results[n] = "skipped"
        /\ outcome = "none" /\ spec' = spec
    BY <1>11 DEF CollectStopped, Collected, Finished, Take
  <2>6. StrictCause' /\ SkipHasCause'
    BY <2>3, <2>5
  <2> QED
    BY <2>1, <2>2, <2>4, <2>6
<1>12. CASE CollectCritical
  <2>1. TypeOK' /\ OutcomeAtReturn'
    BY <1>12 DEF CollectCritical, Finished, Put, Take, CancelRunning
  <2>2. Partition' /\ TasksMatch'
    BY <1>12 DEF CollectCritical, Finished, Put, Take, CancelRunning
  <2>3. \A n \in Nodes : results[n] # "none" => results'[n] = results[n]
    BY <1>12 DEF CollectCritical, Finished, Put, Take
  <2>4. DependenciesGateLaunch'
    <3>1. /\ \A n \in Nodes : task'[n] # "none" => task[n] # "none"
          /\ spec' = spec
      BY <1>12 DEF CollectCritical, Put, CancelRunning
    <3> QED
      BY <2>3, <3>1
  <2>5. CriticalFailed(spec', results') /\ outcome' = "failed"
    BY <1>12 DEF CollectCritical, Finished, Put, Take
  <2>6. StrictCause' /\ SkipHasCause'
    BY <2>5
  <2> QED
    BY <2>1, <2>2, <2>4, <2>6
<1>13. CASE CollectContinue
  <2>1. TypeOK' /\ OutcomeAtReturn'
    BY <1>13 DEF CollectContinue, Collected, Finished, Take
  <2>2. Partition' /\ TasksMatch'
    BY <1>13 DEF CollectContinue, Collected, Finished, Take
  <2>3. \A n \in Nodes : results[n] # "none" => results'[n] = results[n]
    BY <1>13 DEF CollectContinue, Collected, Finished, Take
  <2>4. DependenciesGateLaunch'
    BY <1>13, <2>3 DEF CollectContinue, Finished
  <2>5. /\ \A n \in Nodes : results'[n] = "skipped" => results[n] = "skipped"
        /\ outcome = "none" /\ spec' = spec
    BY <1>13 DEF CollectContinue, Collected, Finished, Take
  <2>6. StrictCause' /\ SkipHasCause'
    BY <2>3, <2>5
  <2> QED
    BY <2>1, <2>2, <2>4, <2>6
<1>14. ASSUME NEW n \in Nodes, TaskBegin(n) PROVE EngineInv'
  BY <1>14 DEF TaskBegin
<1>15. ASSUME NEW n \in Nodes, TaskFinish(n) PROVE EngineInv'
  BY <1>15 DEF TaskFinish
<1>16. CASE ControlChange
  BY <1>16 DEF ControlChange
<1>17. CASE Rerun
  <2>0. PICK approved \in Approvals : results' = PriorResults(approved)
    BY <1>17 DEF Rerun
  <2>1. TypeOK' /\ Partition' /\ OutcomeAtReturn'
    BY <1>17, <2>0 DEF Rerun, PriorResults
  <2>2. TasksMatch' /\ DependenciesGateLaunch'
    BY <1>17, <2>0 DEF Rerun, PriorResults
  <2>3. /\ \A n \in Nodes : results[n] \in TerminalNode => results'[n] = results[n]
        /\ \A n \in Nodes : results'[n] = "skipped" => results[n] = "skipped"
        /\ outcome \in Resumable /\ spec' = spec
    BY <1>17, <2>0 DEF Rerun, PriorResults
  <2>4. StrictCause' /\ SkipHasCause'
    BY <2>3
  <2> QED
    BY <2>1, <2>2, <2>4
<1>18. CASE Raise
  <2>1. PICK S \in SUBSET Launched :
             /\ task' = Put(task, S, "created")
             /\ phase' = Put(phase, S, "ready")
             /\ running' = running \cup S
             /\ pending' = pending \ S
    BY <1>18 DEF Raise, FirstOf
  <2>2. /\ pc' = "raised" /\ pc # "returned" /\ pc # "validate"
        /\ UNCHANGED <<spec, control, seen, results, outcome, runs>>
    BY <1>18 DEF Raise
  <2>3. \A n \in S : n \in pending /\ DependenciesMet(spec, results, n)
    BY <2>1 DEF Launched, FirstOf, Ready
  <2>4. TypeOK' /\ OutcomeAtReturn' /\ StrictCause' /\ SkipHasCause'
    BY <2>1, <2>2, <2>3 DEF Put
  <2>5. Partition' /\ TasksMatch'
    BY <2>1, <2>2, <2>3 DEF Put
  <2>6. DependenciesGateLaunch'
    BY <2>1, <2>2, <2>3 DEF Put
  <2> QED
    BY <2>4, <2>5, <2>6
<1>19. CASE UNCHANGED vars
  BY <1>19 DEF vars
<1> QED
  BY <1>1, <1>2, <1>3, <1>4, <1>5, <1>6, <1>7, <1>8, <1>9, <1>10, <1>11, <1>12,
     <1>13, <1>14, <1>15, <1>16, <1>17, <1>18, <1>19 DEF Next, Engine

(* ------------------------------ the width ------------------------------- *)

\* What the pass launches never exceeds the slots the running tasks leave.
RunningBounded == Cardinality(running) <= Slots

\* A pass launches at most as many nodes as there are free slots.
LEMMA LaunchBounded ==
  ASSUME TypeOK, RunningBounded
  PROVE  Cardinality(running \cup Launched) <= Slots
<1> DEFINE free == Slots - Cardinality(running)
<1>1. IsFiniteSet(running) /\ Cardinality(running) \in Nat
  BY NodesAssumption, FS_Subset, FS_CardinalityType DEF TypeOK
<1>2. free \in Int /\ free >= 0 /\ Slots \in Nat
  BY <1>1, SlotsPositive DEF RunningBounded
<1>3. Ready \in SUBSET Nodes /\ Launched \subseteq Nodes
  BY DEF TypeOK, Ready, Launched, FirstOf
<1>4. IsFiniteSet(Launched) /\ Cardinality(Launched) \in Nat
  BY <1>3, NodesAssumption, FS_Subset, FS_CardinalityType
<1>5. Cardinality(Launched) <= free
  BY <1>2, <1>3, FirstOfBound DEF Launched
<1>6. Cardinality(running \cup Launched)
        = Cardinality(running) + Cardinality(Launched) - Cardinality(running \cap Launched)
  BY <1>1, <1>4, FS_Union
<1>7. Cardinality(running \cap Launched) \in Nat
  BY <1>1, FS_Intersection, FS_CardinalityType
<1> QED
  BY <1>1, <1>2, <1>4, <1>5, <1>6, <1>7

\* No step runs more tasks than the width allows.
LEMMA StepRunningBounded ==
  ASSUME TypeOK, RunningBounded, [Next]_vars
  PROVE  RunningBounded'
<1>1. CASE Launch \/ Raise
  <2>1. running' \subseteq running \cup Launched
    BY <1>1 DEF Launch, Raise, FirstOf
  <2>2. IsFiniteSet(running \cup Launched)
    BY NodesAssumption, FS_Subset DEF TypeOK, Launched, FirstOf, Ready
  <2>3. /\ Cardinality(running') <= Cardinality(running \cup Launched)
        /\ Cardinality(running') \in Nat
        /\ Cardinality(running \cup Launched) \in Nat
    BY <2>1, <2>2, FS_Subset, FS_CardinalityType
  <2> QED
    BY <2>3, LaunchBounded, SlotsPositive DEF RunningBounded, Slots, Width, MaxFrontier
<1>2. CASE ~(Launch \/ Raise)
  <2>1. running' \subseteq running
    BY <1>2 DEF Next, Engine, Validate, ReadControl, LoopExit, StopBranch, PausedReturn,
       PausedCollect, NotConverged, Converged, WaitTimeout, CollectStopped,
       CollectCritical, CollectContinue, TaskBegin, TaskFinish, ControlChange, Rerun,
       Finish, vars
  <2>2. IsFiniteSet(running)
    BY NodesAssumption, FS_Subset DEF TypeOK
  <2>3. Cardinality(running') <= Cardinality(running) /\ Cardinality(running') \in Nat
        /\ Cardinality(running) \in Nat
    BY <2>1, <2>2, FS_Subset, FS_CardinalityType
  <2> QED
    BY <2>3, SlotsPositive DEF RunningBounded
<1> QED
  BY <1>1, <1>2

(* ------------------------------- theorems ------------------------------- *)

\* The invariant holds in every reachable state.
THEOREM EngineInvariance == Spec => [](EngineInv /\ RunningBounded)
<1>1. Init => RunningBounded
  BY FS_EmptySet, SlotsPositive DEF Init, RunningBounded
<1>2. EngineInv /\ RunningBounded /\ [Next]_vars => RunningBounded'
  BY StepRunningBounded DEF EngineInv
<1> QED
  BY <1>1, <1>2, InitEngineInv, StepEngineInv, PTL DEF Spec

\* The variables keep their types.
THEOREM EngineTypeCorrect == Spec => []TypeOK
<1>1. EngineInv => TypeOK
  BY DEF EngineInv
<1> QED
  BY <1>1, EngineInvariance, PTL

\* run() never loses or duplicates a node, whatever the job graph.
THEOREM EveryNodeAccountedHolds == Spec => []EveryNodeAccounted
<1>1. EngineInv => EveryNodeAccounted
  BY DEF EngineInv, TypeOK, Partition, EveryNodeAccounted, InLoop, Settled
<1> QED
  BY <1>1, EngineInvariance, PTL

\* A node's task exists only behind dependencies that allow it.
THEOREM DependenciesGateLaunchHolds == Spec => []DependenciesGateLaunch
<1>1. EngineInv => DependenciesGateLaunch
  BY DEF EngineInv
<1> QED
  BY <1>1, EngineInvariance, PTL

\* Never more live node tasks than both width arguments allow.
THEOREM BoundedConcurrencyHolds == Spec => []BoundedConcurrency
<1>1. EngineInv /\ RunningBounded => BoundedConcurrency
  <2> SUFFICES ASSUME EngineInv, RunningBounded PROVE BoundedConcurrency
      OBVIOUS
  <2> DEFINE live == {n \in Nodes : task[n] \in Live}
  <2>1. live \subseteq running /\ running \subseteq Nodes
    BY DEF EngineInv, TasksMatch, TypeOK
  <2>2. IsFiniteSet(running)
    BY <2>1, NodesAssumption, FS_Subset
  <2>3. /\ Cardinality(live) <= Cardinality(running)
        /\ Cardinality(live) \in Nat /\ Cardinality(running) \in Nat
    BY <2>1, <2>2, FS_Subset, FS_CardinalityType
  <2> QED
    BY <2>3, SlotsPositive DEF BoundedConcurrency, RunningBounded
<1> QED
  BY <1>1, EngineInvariance, PTL

\* No node task outlives the call of run() that created it.
THEOREM NoTaskOutlivesRunHolds == Spec => []NoTaskOutlivesRun
<1>1. EngineInv => NoTaskOutlivesRun
  BY DEF EngineInv, TasksMatch, NoTaskOutlivesRun
<1> QED
  BY <1>1, EngineInvariance, PTL

\* A skipped node always has a cause.
THEOREM SkipHasCauseHolds == Spec => []SkipHasCause
<1>1. EngineInv => SkipHasCause
  BY DEF EngineInv
<1> QED
  BY <1>1, EngineInvariance, PTL

\* Before run() returns no step changes a recorded result, no step ever
\* changes a terminal one, and only open nodes are launched.
LEMMA StepKeepsResults ==
  ASSUME EngineInv, [Next]_vars, NEW n \in Nodes
  PROVE  /\ pc # "returned" /\ results[n] # "none" => results'[n] = results[n]
         /\ results[n] \in TerminalNode => results'[n] = results[n]
         /\ results[n] # "none" /\ task'[n] = "created" => task[n] = "created"
<1> USE DEF EngineInv, TypeOK, Partition, TasksMatch, Finish
<1>1. CASE StopBranch \/ NotConverged \/ Converged
  BY <1>1 DEF StopBranch, NotConverged, Converged, Put, Skipped, OpenNodes, CancelRunning
<1>2. CASE PausedCollect \/ CollectContinue
  BY <1>2 DEF PausedCollect, CollectContinue, Collected, Finished, Take
<1>3. CASE Launch
  BY <1>3 DEF Launch, Put, Launched, FirstOf, Ready, Skipped
<1>4. CASE CollectStopped \/ CollectCritical
  BY <1>4 DEF CollectStopped, CollectCritical, Collected, Finished, Take, Put, CancelRunning
<1>5. CASE Validate \/ ReadControl \/ LoopExit \/ PausedReturn \/ WaitTimeout
  BY <1>5 DEF Validate, ReadControl, LoopExit, PausedReturn, WaitTimeout
<1>6. CASE \E m \in Nodes : TaskBegin(m) \/ TaskFinish(m)
  BY <1>6 DEF TaskBegin, TaskFinish
<1>7. CASE ControlChange \/ Rerun
  <2>1. CASE ControlChange
    BY <2>1 DEF ControlChange
  <2>2. CASE Rerun
    <3>1. PICK approved \in Approvals : results' = PriorResults(approved)
      BY <2>2 DEF Rerun
    <3> QED
      BY <2>2, <3>1 DEF Rerun, PriorResults
  <2> QED
    BY <1>7, <2>1, <2>2
<1>8. CASE Raise
  BY <1>8 DEF Raise, Put, Launched, FirstOf, Ready
<1>9. CASE UNCHANGED vars
  BY <1>9 DEF vars
<1> QED
  BY <1>1, <1>2, <1>3, <1>4, <1>5, <1>6, <1>7, <1>8, <1>9 DEF Next, Engine

\* A result, once recorded, is final for the rest of the run.
THEOREM ResultsAreFinalHolds == Spec => ResultsAreFinal
<1>1. EngineInv /\ [Next]_vars
        => [pc # "returned" =>
              \A n \in Nodes : results[n] # "none" => results'[n] = results[n]]_vars
  BY StepKeepsResults
<1> QED
  BY <1>1, EngineInvariance, PTL DEF Spec, ResultsAreFinal

\* A completed node is never executed again, in this run or a later one.
THEOREM CompletedIsForeverHolds == Spec => CompletedIsForever
<1>1. EngineInv /\ [Next]_vars
        => [\A n \in Nodes : results[n] = "completed" =>
              /\ results'[n] = "completed"
              /\ task'[n] = "created" => task[n] = "created"]_vars
  <2> SUFFICES ASSUME EngineInv, [Next]_vars, NEW n \in Nodes, results[n] = "completed"
               PROVE  /\ results'[n] = "completed"
                      /\ task'[n] = "created" => task[n] = "created"
    OBVIOUS
  <2> QED
    BY StepKeepsResults
<1> QED
  BY <1>1, EngineInvariance, PTL DEF Spec, CompletedIsForever

(* ------------------------------ refinement ------------------------------ *)

\* The abstract state of a node, as the refinement mapping defines it.
NodeView == [n \in Nodes |-> IF n \in running THEN "active"
                             ELSE IF results[n] \in TerminalNode THEN "settled"
                             ELSE "open"]

\* Every initial state maps to one of the abstract run.
LEMMA InitRefines == Init => Abstract!Init
<1> SUFFICES ASSUME Init PROVE Abstract!Init
    OBVIOUS
<1>1. TypeOK
  BY InitEngineInv DEF EngineInv
<1> QED
  BY <1>1, SpecFields DEF Init, Abstract!Init

\* The abstract module counts as this one does.
LEMMA SameCardinality == \A S : Abstract!Cardinality(S) = Cardinality(S)
  BY Zenon DEF Abstract!Cardinality, Cardinality

\* A step before the return that keeps terminal results, launches only behind
\* met dependencies and stays within the width is an abstract Advance.
LEMMA AdvanceRefines ==
  ASSUME EngineInv, RunningBounded', TypeOK', spec' = spec, pc # "returned",
         pc' = "returned" => running' = {},
         \A n \in Nodes : results[n] \in TerminalNode
                             => results'[n] = results[n] /\ n \notin running',
         \A n \in running' \ running : DependenciesMet(spec, results, n)
  PROVE  Abstract!Advance
<1>1. NodeView' \in [Nodes -> {"open", "active", "settled"}]
  BY DEF NodeView
<1>2. \A n \in Nodes : NodeView[n] = "settled" => NodeView'[n] = "settled"
  BY DEF NodeView
<1>3. ASSUME NEW n \in Nodes, NodeView[n] # "active", NodeView'[n] = "active",
             NEW d \in spec.deps[n]
      PROVE  NodeView[d] = "settled"
  <2>1. n \in running' \ running
    BY <1>3 DEF NodeView
  <2>2. d \in Nodes /\ results[d] \in TerminalNode
    BY <2>1, SpecFields DEF DependenciesMet, EngineInv
  <2>3. d \notin running
    BY <2>2 DEF EngineInv, Partition
  <2> QED
    BY <2>2, <2>3 DEF NodeView
<1>4. {n \in Nodes : NodeView'[n] = "active"} = running'
  BY DEF NodeView, TypeOK
<1>5. Cardinality({n \in Nodes : NodeView'[n] = "active"}) <= Slots
  BY <1>4 DEF RunningBounded, Slots, Width, MaxFrontier
<1>6. (pc' = "returned") => {n \in Nodes : NodeView'[n] = "active"} = {}
  BY <1>4
<1>7. (pc' = "returned") \in BOOLEAN
  OBVIOUS
<1> QED
  BY <1>1, <1>2, <1>3, <1>5, <1>6, <1>7, SameCardinality, Zenon
     DEF Abstract!Advance, Abstract!ActiveIn, Abstract!NodeState, NodeView

\* Every step of the engine, of a task and of the control plane is an
\* abstract step or a stutter.
LEMMA StepRefines ==
  ASSUME EngineInv, EngineInv', RunningBounded', [Next]_vars
  PROVE  [Abstract!Next]_(Abstract!vars)
<1>1. \A n \in Nodes : results[n] \in TerminalNode => results'[n] = results[n]
  BY StepKeepsResults
<1>2. CASE Engine \/ Raise
  <2>1. spec' = spec /\ pc # "returned"
    BY <1>2 DEF Raise, Engine, Validate, ReadControl, LoopExit, StopBranch, PausedReturn,
       PausedCollect, Launch, NotConverged, Converged, WaitTimeout, CollectStopped,
       CollectCritical, CollectContinue
  <2>2. pc' = "returned" => running' = {}
    BY DEF EngineInv, TasksMatch
  <2>3. \A n \in running' \ running : DependenciesMet(spec, results, n)
    BY <1>2 DEF Raise, Engine, Validate, ReadControl, LoopExit, StopBranch, PausedReturn,
       PausedCollect, Launch, NotConverged, Converged, WaitTimeout, CollectStopped,
       CollectCritical, CollectContinue, Finish, Launched, FirstOf, Ready
  <2>4. \A n \in Nodes : results[n] \in TerminalNode => n \notin running'
    BY <1>1, <2>2 DEF EngineInv, Partition
  <2>5. Abstract!Advance
    BY <1>1, <2>1, <2>2, <2>3, <2>4, AdvanceRefines DEF EngineInv
  <2> QED
    BY <2>5 DEF Abstract!Next
<1>3. CASE Rerun
  <2>1. pc = "returned" /\ pc' = "validate" /\ running' = {} /\ spec' = spec
    BY <1>3 DEF Rerun, EngineInv, TasksMatch
  <2>2. NodeView' \in [Nodes -> {"open", "settled"}]
    BY <2>1 DEF NodeView
  <2>3. \A n \in Nodes : NodeView[n] = "settled" => NodeView'[n] = "settled"
    BY <1>1, <2>1 DEF NodeView
  <2>4. Abstract!Resume
    BY <2>1, <2>2, <2>3 DEF Abstract!Resume, NodeView
  <2> QED
    BY <2>4 DEF Abstract!Next
<1>4. CASE \/ \E n \in Nodes : TaskBegin(n) \/ TaskFinish(n)
           \/ ControlChange
           \/ UNCHANGED vars
  <2>1. UNCHANGED <<spec, running, results, pc>>
    BY <1>4 DEF TaskBegin, TaskFinish, ControlChange, vars
  <2> QED
    BY <2>1 DEF Abstract!vars
<1> QED
  BY <1>2, <1>3, <1>4 DEF Next

\* The engine implements the abstract run, for every job graph and width.
THEOREM EngineImplementsDagRun == Spec => ImplementsDagRun
<1>1. EngineInv /\ EngineInv' /\ RunningBounded' /\ [Next]_vars
        => [Abstract!Next]_(Abstract!vars)
  BY StepRefines
<1> QED
  BY <1>1, InitRefines, EngineInvariance, PTL DEF Spec, ImplementsDagRun, Abstract!Spec

===============================================================================
