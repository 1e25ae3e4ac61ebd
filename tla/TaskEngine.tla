------------------------------ MODULE TaskEngine ------------------------------
(***************************************************************************)
(* The task-level DAG engine of packages/execution (TaskExecutionEngine):  *)
(* one asyncio coroutine that launches, polls and settles node tasks, the  *)
(* node tasks themselves, and a control plane that pauses, resumes and     *)
(* cancels the job while the engine is at an await.                        *)
(*                                                                         *)
(* Every await of run() at which the engine acts on what it reads is a     *)
(* step boundary: the control-status read, the scheduling pass that uses   *)
(* it, and the wait on the running tasks.  Node payloads, error texts and  *)
(* metrics are abstracted away; a node result is its status.               *)
(***************************************************************************)
EXTENDS Integers, FiniteSets, Sequences

CONSTANTS
    Nodes,          \* node ids; their order is the order of sorted(pending)
    Specs,          \* the frozen job specs that may be submitted
    Concurrency,    \* constructor argument concurrency
    Frontier,       \* constructor argument max_parallel_frontier (0: not given)
    MaxRuns         \* bound: how often a suspended job is handed back to run()

VARIABLES
    spec,       \* the frozen JobSpec of this job
    pc,         \* where run() is
    control,    \* the job status the control port reports
    seen,       \* the status run() read at the head of the current iteration
    pending,    \* run()'s set of node ids that are not launched
    running,    \* the keys of run()'s dict of launched tasks
    task,       \* the asyncio task of each node
    results,    \* run()'s dict of node results ("none": no entry)
    phase,      \* the last state notified to the lifecycle port, per node
    outcome,    \* status of the JobExecutionResult run() returned
    runs        \* number of calls of run() so far

vars == <<spec, pc, control, seen, pending, running, task, results, phase,
          outcome, runs>>

(* ------------------------------ statuses ------------------------------- *)

TerminalNode == {"completed", "failed", "skipped", "interrupted", "escalated"}
FailedDependency == {"failed", "skipped", "interrupted", "escalated"}
StoppedJob == {"waiting_approval", "waiting_resources"}
NodeStatus == TerminalNode \cup StoppedJob

\* What execute_node may hand back; "interrupted" stands for a task that ends
\* by CancelledError without the engine having cancelled it (a lost lease).
Returned == {"completed", "failed", "escalated", "interrupted"} \cup StoppedJob

JobOutcome == {"none", "rejected", "completed", "partial", "failed",
               "cancelled", "interrupted", "paused"} \cup StoppedJob

Resumable == {"paused"} \cup StoppedJob

Live == {"created", "busy"}
TaskState == {"none", "cancelled"} \cup Live \cup Returned
Phase == {"pending", "ready", "running"} \cup NodeStatus
Stopping == {"cancelled", "interrupted"}
Control == {"running", "paused"} \cup Stopping

JobSpec == [ids : Seq(Nodes),                   \* the nodes as listed
            unresolved : SUBSET Nodes,          \* depend on an id not listed
            deps : [Nodes -> SUBSET Nodes],     \* depends_on, without repetitions
            aggregators : SUBSET Nodes,         \* declared dependency-tolerant
            llm : SUBSET Nodes,                 \* agent direct_llm
            critical : SUBSET Nodes,
            isolated : SUBSET Nodes]            \* failure_isolation

ASSUME NodesAssumption == Nodes \subseteq Nat /\ IsFiniteSet(Nodes)
ASSUME WidthAssumption == Concurrency \in Int /\ Frontier \in Int
ASSUME MaxRunsAssumption == MaxRuns \in Nat
\* NodeSpec refuses a critical node with failure isolation; every node of the
\* job is listed, perhaps more than once.
ASSUME SpecsAssumption ==
    Specs \subseteq {s \in JobSpec :
        /\ s.critical \cap s.isolated = {}
        /\ Nodes \subseteq {s.ids[i] : i \in 1..Len(s.ids)}}

(* ------------------------------ validation ----------------------------- *)

UniqueIds(s) == \A i, j \in 1..Len(s.ids) : s.ids[i] = s.ids[j] => i = j

\* Kahn's algorithm: in-degrees, the stack of nodes without an open dependency
\* and the number of nodes taken from it.
KahnState == [degree : [Nodes -> Int], ready : Seq(Nodes), visited : Nat]

KahnStart(s) ==
    [degree  |-> [n \in Nodes |-> Cardinality(s.deps[n])],
     ready   |-> SelectSeq(s.ids, LAMBDA n : s.deps[n] = {}),
     visited |-> 0]

\* The last of the stack is taken: its children lose a dependency, and those of
\* them in S go on the stack.
Taken(st) == st.ready[Len(st.ready)]
Degrees(s, st) ==
    [c \in Nodes |-> st.degree[c] - (IF Taken(st) \in s.deps[c] THEN 1 ELSE 0)]
Visited(s, st, S) ==
    [degree  |-> Degrees(s, st),
     ready   |-> SubSeq(st.ready, 1, Len(st.ready) - 1)
                   \o SelectSeq(s.ids, LAMBDA c : Taken(st) \in s.deps[c] /\ c \in S),
     visited |-> st.visited + 1]

\* Mutant: a child is ready with the first of its dependencies.
VisitReached(s, st) ==
    Visited(s, st, {c \in Nodes : Degrees(s, st)[c] = Cardinality(s.deps[c]) - 1})
\* The children that have no dependency left go on the stack.
Visit(s, st) == Visited(s, st, {c \in Nodes : Degrees(s, st)[c] = 0})

\* The loop: visit until the stack is empty.
VisitedFrom(s, start) ==
    LET Loop[st \in KahnState] ==
          IF st.ready = <<>> THEN st.visited ELSE Loop[Visit(s, st)]
    IN  Loop[start]

\* Unique ids, resolvable dependencies, and no node left unvisited.
ValidateDag(s) ==
    /\ UniqueIds(s)
    /\ s.unresolved = {}
    /\ VisitedFrom(s, KahnStart(s)) = Len(s.ids)

(* ------------------------------ scheduling ----------------------------- *)

AtLeastOne(k) == IF k > 1 THEN k ELSE 1
Width == AtLeastOne(Concurrency)
MaxFrontier == AtLeastOne(IF Frontier = 0 THEN Concurrency ELSE Frontier)
Slots == IF Width < MaxFrontier THEN Width ELSE MaxFrontier

\* Nodes that run once their dependencies settle, whatever they settled as.
Tolerant(s) == s.aggregators \cup {n \in s.llm : Cardinality(s.deps[n]) >= 2}

DependencyFailed(s, res, n) ==
    n \notin Tolerant(s) /\ \E d \in s.deps[n] : res[d] \in FailedDependency

DependenciesMet(s, res, n) ==
    \A d \in s.deps[n] :
        IF n \in Tolerant(s) THEN res[d] \in TerminalNode
                             ELSE res[d] = "completed"

\* Mutants: skip whatever is not ready; run a node once its dependencies settled.
SkippedUnready == {n \in pending : ~DependenciesMet(spec, results, n)}
ReadySettled ==
    {n \in pending : \A d \in spec.deps[n] : results[d] \in TerminalNode}

\* The two lists of _decide_ready, computed from one snapshot of the results.
Skipped == {n \in pending : DependencyFailed(spec, results, n)}
Ready == {n \in pending : DependenciesMet(spec, results, n)}

\* ready[:max(0, k)] of the sorted list.
FirstOf(S, k) == {n \in S : Cardinality({m \in S : m < n}) < k}
\* Mutant: the slots in use are not subtracted.
LaunchedUnbounded == FirstOf(Ready, Slots)
Launched == FirstOf(Ready, Slots - Cardinality(running))

\* Mutant: only the usual results are collected.
FinishedUsual == {n \in running : task[n] \in {"completed", "failed"} \cup StoppedJob}
\* Running tasks that are done.
Finished == {n \in running : task[n] \in Returned}

\* f with every member of S mapped to v.
Put(f, S, v) == [n \in DOMAIN f |-> IF n \in S THEN v ELSE f[n]]
\* f with every member of S mapped to what g says.
Take(f, S, g) == [n \in DOMAIN f |-> IF n \in S THEN g[n] ELSE f[n]]

\* _derive_status of a loop that ran to its end.
DeriveStatus(s, res) ==
    IF \E n \in Nodes : res[n] = "none" THEN "failed"
    ELSE IF \A n \in Nodes : res[n] = "completed" THEN "completed"
    ELSE IF \E n \in Nodes : res[n] = "interrupted" THEN "interrupted"
    ELSE IF /\ \E n \in Nodes : res[n] = "completed"
            /\ \E n \in s.isolated : res[n] \in FailedDependency
         THEN "partial"
         ELSE "failed"

CriticalFailed(s, res) == \E n \in s.critical : res[n] = "failed"

(* ------------------------------- the engine ---------------------------- *)

InLoop == pc \in {"control", "decide", "wait"}
Over == {"returned", "raised"}

Init ==
    /\ spec \in Specs
    /\ pc = "validate"
    /\ control = "running"
    /\ seen = "running"
    /\ pending = Nodes
    /\ running = {}
    /\ task = [n \in Nodes |-> "none"]
    /\ results = [n \in Nodes |-> "none"]
    /\ phase = [n \in Nodes |-> "pending"]
    /\ outcome = "none"
    /\ runs = 1

\* _finish: the result is built from the results and run() returns.
Finish(status) ==
    /\ outcome' = status
    /\ pc' = "returned"
    /\ running' = {}

\* validate_dag at the top of run().
Validate ==
    /\ pc = "validate"
    /\ IF ValidateDag(spec)
       THEN pc' = "control" /\ UNCHANGED <<outcome, running>>
       ELSE Finish("rejected")
    /\ UNCHANGED <<spec, control, seen, pending, task, results, phase, runs>>

\* Head of the loop: read the control status (an await).
ReadControl ==
    /\ pc = "control"
    /\ pending \cup running # {}
    /\ seen' = control
    /\ pc' = "decide"
    /\ UNCHANGED <<spec, control, pending, running, task, results, phase,
                   outcome, runs>>

\* The loop condition is false: aggregate and return.
LoopExit ==
    /\ pc = "control"
    /\ pending \cup running = {}
    /\ Finish(DeriveStatus(spec, results))
    /\ UNCHANGED <<spec, control, seen, pending, task, results, phase, runs>>

\* Mutant: the tasks are dropped without being cancelled.
CancelRunningNot(S) == UNCHANGED task
\* _cancel_running: every task that is not done is cancelled and awaited.
CancelRunning(S) == task' = Put(task, S, "cancelled")

\* The nodes a stop settles.
OpenNodes == running \cup pending

\* Cancelled or interrupted: cancel and await every running task, then settle
\* every running and every pending node as interrupted.
StopBranch ==
    /\ pc = "decide"
    /\ seen \in Stopping
    /\ results' = Put(results, OpenNodes, "interrupted")
    /\ phase' = Put(phase, OpenNodes, "interrupted")
    /\ CancelRunning(running)
    /\ pending' = {}
    /\ Finish(seen)
    /\ UNCHANGED <<spec, control, seen, runs>>

PausedReturn ==
    /\ pc = "decide"
    /\ seen = "paused"
    /\ running = {}
    /\ Finish("paused")
    /\ UNCHANGED <<spec, control, seen, pending, task, results, phase, runs>>

\* Mutant: the node is notified but its result is not kept.
CollectedQuietly ==
    /\ UNCHANGED results
    /\ phase' = Take(phase, Finished, task)

\* The effect of _collect_finished on the engine's dictionaries.
Collected ==
    /\ results' = Take(results, Finished, task)
    /\ phase' = Take(phase, Finished, task)

\* Paused with tasks still running: collect what finished, ignore a stop.
PausedCollect ==
    /\ pc = "decide"
    /\ seen = "paused"
    /\ running # {}
    /\ Collected
    /\ running' = running \ Finished
    /\ pc' = "control"
    /\ UNCHANGED <<spec, control, seen, pending, task, outcome, runs>>

\* The scheduling pass when it leaves something to wait for.
Launch ==
    /\ pc = "decide"
    /\ seen = "running"
    /\ running \cup Launched # {}
    /\ results' = Put(results, Skipped, "skipped")
    /\ phase' = Put(Put(phase, Skipped, "skipped"), Launched, "ready")
    /\ pending' = pending \ (Skipped \cup Launched)
    /\ running' = running \cup Launched
    /\ task' = Put(task, Launched, "created")
    /\ pc' = "wait"
    /\ UNCHANGED <<spec, control, seen, outcome, runs>>

\* Nothing runs after the pass: the pending nodes this one pass did not skip
\* are declared unable to converge.
NotConverged ==
    /\ pc = "decide"
    /\ seen = "running"
    /\ running \cup Launched = {}
    /\ pending \ Skipped # {}
    /\ results' = Put(results, pending, "skipped")
    /\ phase' = Put(phase, pending, "skipped")
    /\ pending' = {}
    /\ Finish("failed")
    /\ UNCHANGED <<spec, control, seen, task, runs>>

\* The pass skipped all that was pending: break out and aggregate.
Converged ==
    /\ pc = "decide"
    /\ seen = "running"
    /\ running \cup Launched = {}
    /\ pending \ Skipped = {}
    /\ results' = Put(results, Skipped, "skipped")
    /\ phase' = Put(phase, Skipped, "skipped")
    /\ pending' = {}
    /\ Finish(DeriveStatus(spec, results'))
    /\ UNCHANGED <<spec, control, seen, task, runs>>

\* asyncio.wait timed out with no task done.
WaitTimeout ==
    /\ pc = "wait"
    /\ Finished = {}
    /\ pc' = "control"
    /\ UNCHANGED <<spec, control, seen, pending, running, task, results, phase,
                   outcome, runs>>

\* A node suspended the job: the other running tasks are cancelled and leave
\* no result and no notification.  The status reported is that of the last
\* suspended node in launch order, here any of them.
CollectStopped ==
    /\ pc = "wait"
    /\ Collected
    /\ \E n \in Finished : task[n] \in StoppedJob /\ Finish(task[n])
    /\ CancelRunning(running \ Finished)
    /\ UNCHANGED <<spec, control, seen, pending, runs>>

CollectCritical ==
    /\ pc = "wait"
    /\ Finished # {}
    /\ \A n \in Finished : task[n] \notin StoppedJob
    /\ LET res == Take(results, Finished, task)
       IN  /\ CriticalFailed(spec, res)
           /\ results' = Put(res, pending, "skipped")
           /\ phase' = Put(Take(phase, Finished, task), pending, "skipped")
    /\ CancelRunning(running \ Finished)
    /\ pending' = {}
    /\ Finish("failed")
    /\ UNCHANGED <<spec, control, seen, runs>>

CollectContinue ==
    /\ pc = "wait"
    /\ Finished # {}
    /\ \A n \in Finished : task[n] \notin StoppedJob
    /\ ~CriticalFailed(spec, Take(results, Finished, task))
    /\ Collected
    /\ running' = running \ Finished
    /\ pc' = "control"
    /\ UNCHANGED <<spec, control, seen, pending, task, outcome, runs>>

\* An exception leaves run() at one of its awaits: a lifecycle or control port
\* that fails, or the CancelledError with which the cancel request ends the
\* job's coroutine.  In a scheduling pass some of the nodes are launched by
\* then.  Nothing cancels or awaits the tasks, and no result is built.
Raise ==
    /\ InLoop
    /\ \E k \in 0..Slots :
          LET S == IF pc = "decide" /\ seen = "running" THEN FirstOf(Launched, k) ELSE {}
          IN  /\ task' = Put(task, S, "created")
              /\ phase' = Put(phase, S, "ready")
              /\ running' = running \cup S
              /\ pending' = pending \ S
    /\ pc' = "raised"
    /\ UNCHANGED <<spec, control, seen, results, outcome, runs>>

Engine ==
    \/ Validate \/ ReadControl \/ LoopExit \/ StopBranch
    \/ PausedReturn \/ PausedCollect
    \/ Launch \/ NotConverged \/ Converged
    \/ WaitTimeout \/ CollectStopped \/ CollectCritical \/ CollectContinue

(* ------------------------------ node tasks ----------------------------- *)

\* First step of _run_one: notify "running", then call the executor.
TaskBegin(n) ==
    /\ task[n] = "created"
    /\ task' = [task EXCEPT ![n] = "busy"]
    /\ phase' = [phase EXCEPT ![n] = "running"]
    /\ UNCHANGED <<spec, pc, control, seen, pending, running, results, outcome,
                   runs>>

\* execute_node returned, raised (failed) or was cancelled from inside.
TaskFinish(n) ==
    /\ task[n] = "busy"
    /\ \E status \in Returned : task' = [task EXCEPT ![n] = status]
    /\ UNCHANGED <<spec, pc, control, seen, pending, running, results, phase,
                   outcome, runs>>

(* ----------------------------- control plane --------------------------- *)

\* A user pauses, resumes or cancels, or recovery interrupts the job.
ControlChange ==
    /\ pc \notin Over
    /\ control \notin Stopping
    /\ \E status \in Control \ {control} : control' = status
    /\ UNCHANGED <<spec, pc, seen, pending, running, task, results, phase,
                   outcome, runs>>

\* Mutant: failed nodes are run again.
PriorResultsCompleted(approved) ==
    [n \in Nodes |-> IF results[n] = "completed" THEN results[n] ELSE "none"]
\* _initial_results: the terminal results of an earlier run are kept.  A node
\* that waits for an approval is stored as escalated, and only the approved one
\* is pending again; a node that waits for resources is stored as pending.
PriorResults(approved) ==
    [n \in Nodes |->
        IF results[n] \in TerminalNode THEN results[n]
        ELSE IF results[n] = "waiting_approval" /\ n \notin approved THEN "escalated"
        ELSE "none"]

\* The nodes an approval may have named before the job is resumed: one or none.
Approvals == {{}} \cup {{n} : n \in {m \in Nodes : results[m] = "waiting_approval"}}

\* The service hands a suspended job back to run() with its prior results.
Rerun ==
    /\ pc = "returned"
    /\ outcome \in Resumable
    /\ control \notin Stopping
    /\ runs < MaxRuns
    /\ \E approved \in Approvals : results' = PriorResults(approved)
    /\ pending' = {n \in Nodes : results'[n] = "none"}
    /\ task' = [n \in Nodes |-> "none"]
    /\ control' = "running"
    /\ seen' = "running"
    /\ outcome' = "none"
    /\ pc' = "validate"
    /\ runs' = runs + 1
    /\ UNCHANGED <<spec, running, phase>>

Next ==
    \/ Engine
    \/ \E n \in Nodes : TaskBegin(n) \/ TaskFinish(n)
    \/ ControlChange
    \/ Rerun
    \/ Raise

Spec == Init /\ [][Next]_vars

\* The event loop keeps scheduling the engine coroutine and the node tasks,
\* and every node is bounded by its timeout and by lease expiry; nobody has to
\* pause, cancel or resume.
FairSpec ==
    /\ Spec
    /\ WF_vars(Engine)
    /\ \A n \in Nodes : WF_vars(TaskBegin(n)) /\ WF_vars(TaskFinish(n))

(* ------------------------------ properties ----------------------------- *)

Settled == {n \in Nodes : results[n] # "none"}

TypeOK ==
    /\ spec \in Specs
    /\ InLoop \/ pc \in {"validate"} \cup Over
    /\ control \in Control
    /\ seen \in Control
    /\ pending \in SUBSET Nodes
    /\ running \in SUBSET Nodes
    /\ task \in [Nodes -> TaskState]
    /\ results \in [Nodes -> {"none"} \cup NodeStatus]
    /\ phase \in [Nodes -> Phase]
    /\ outcome \in JobOutcome
    /\ runs \in Nat

\* run() never loses or duplicates a node: while it loops, every node is
\* either pending, or running, or has a result, and never two of these.
EveryNodeAccounted ==
    InLoop =>
        /\ pending \cup running \cup Settled = Nodes
        /\ pending \cap running = {}
        /\ (pending \cup running) \cap Settled = {}

\* A node's task exists only if its dependencies allowed it when it was
\* launched and still do: completed dependencies for an ordinary node, settled
\* ones for an aggregation node, across pauses, cancels and reruns.
DependenciesGateLaunch ==
    \A n \in Nodes : task[n] # "none" => DependenciesMet(spec, results, n)

\* The engine never runs more node tasks than concurrency and
\* max_parallel_frontier both allow, however its passes interleave with
\* finishing tasks.
BoundedConcurrency ==
    Cardinality({n \in Nodes : task[n] \in Live}) <= Slots

\* Structured concurrency of the ways run() returns: whatever the outcome, no
\* node task is still alive that could go on to have effects.
NoTaskOutlivesRun ==
    pc = "returned" => \A n \in Nodes : task[n] \notin Live

\* A skipped node always has a cause in the graph: a dependency that did not
\* succeed, or a failed critical node.
SkipHasCause ==
    \A n \in Nodes : results[n] = "skipped" =>
        \/ \E d \in spec.deps[n] : results[d] \in FailedDependency \cup StoppedJob
        \/ CriticalFailed(spec, results)

\* Reference meaning of an acyclic graph: no set of nodes in which each depends
\* on a member of the set.
Acyclic(deps) ==
    \A S \in (SUBSET Nodes) \ {{}} : \E n \in S : deps[n] \cap S = {}

ValidGraph(s) == UniqueIds(s) /\ s.unresolved = {} /\ Acyclic(s.deps)

\* The counters and the stack of validate_dag agree with the meaning of a valid
\* graph: a job enters the loop only with one, and is rejected only without one.
ValidationIsExact ==
    /\ InLoop => ValidGraph(spec)
    /\ outcome = "rejected" => ~ValidGraph(spec)

\* A result, once recorded, is final for the rest of the run, whatever the
\* order of cancel, pause and collection.
ResultsAreFinal ==
    [][pc # "returned" =>
         \A n \in Nodes : results[n] # "none" => results'[n] = results[n]]_vars

\* A completed node is never executed again, not even when the job is
\* suspended and handed back to run() with its prior results.
CompletedIsForever ==
    [][\A n \in Nodes : results[n] = "completed" =>
         /\ results'[n] = "completed"
         /\ task'[n] = "created" => task[n] = "created"]_vars

\* The abstract run: running nodes are active, terminal results are settled.
Abstract == INSTANCE DagRun WITH
    Width <- Slots,
    deps  <- spec.deps,
    state <- [n \in Nodes |-> IF n \in running THEN "active"
                              ELSE IF results[n] \in TerminalNode THEN "settled"
                              ELSE "open"],
    over  <- (pc = "returned")

\* The engine implements the abstract run: no interleaving of passes, finishing
\* tasks, pauses, cancels and reruns starts a node early, unsettles one, exceeds
\* the width or returns with a node active.
ImplementsDagRun == Abstract!Spec

\* Every call of run() ends: pausing and resuming cannot keep it looping once
\* its node tasks finish.
RunTerminates == (pc \notin Over) ~> (pc \in Over)

\* What the comment on the critical branch says of every other failure: it
\* stays isolated and the job is reported as partial.  It does not hold: section
\* 4 of the README.
IsolatedFailureIsPartial ==
    (/\ outcome = "failed"
     /\ Settled = Nodes
     /\ ~CriticalFailed(spec, results)
     /\ \E n \in Nodes : results[n] = "completed")
        => \A n \in spec.isolated : results[n] \notin FailedDependency

\* What LegacyDagBackend.cancel says of cancelling the job's coroutine: no
\* long-running activity keeps a worker and its locks occupied afterwards.  It
\* does not hold: section 4 of the README.
NoTaskOutlivesCancel ==
    pc \in Over /\ control = "cancelled" => \A n \in Nodes : task[n] \notin Live

===============================================================================
