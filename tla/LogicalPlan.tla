------------------------------ MODULE LogicalPlan ------------------------------
(***************************************************************************)
(* A rolling logical plan run by the legacy backend.  The whole plan lives *)
(* in Redis; the job record holds the window of nodes that may run now.    *)
(* The execution loop runs a window, commits it to the plan, materializes  *)
(* the next one within a budget, asks for approvals and has the tail of a  *)
(* failed plan replaced.  Clients append patches to expansion slots under  *)
(* a lock, and the user pauses, resumes, cancels and approves.             *)
(*                                                                         *)
(* The plan is read and written whole, without the lock by the loop and    *)
(* with it by patches; the job record is merged when a stale copy is saved.*)
(***************************************************************************)
EXTENDS Naturals, Sequences, FiniteSets, FiniteSetsExt

CONSTANTS
    Planned,        \* the nodes of the first plan: a set of numbers, in plan order
    Tails,          \* the node sets the planner replaces a failed tail by, in turn
    Patches,        \* patch ids, each sent by a client that may retry it
    Added,          \* Added[p]: the nodes patch p adds
    SlotOf,         \* SlotOf[p]: the slot patch p expands
    Slots,          \* the expansion slots of the plan
    SlotDeps,       \* SlotDeps[s]: the nodes slot s waits for
    DependsOn,      \* DependsOn[n]: the nodes node n waits for
    Estimate,       \* Estimate[n]: its estimated tokens
    Effectful,      \* the nodes with an external effect
    Limit,          \* the budget of the plan
    FrontierSize,   \* AGENT_LOGICAL_PLAN_FRONTIER_SIZE
    MaxRequests,    \* bound on the user's requests
    MaxSends,       \* MaxSends[p]: bound on how often the client sends patch p
    Races           \* what may also happen: a subset of Named

\* overlap: a patch is appended while the loop is between two windows, or while
\* an approval is answered.
\* early: a resume, an answer or a wake-up comes while the loop still ends.
\* late: an approval is answered after the job was cancelled or rejected.
\* lapse: an append takes longer than the lease of its lock, which nobody renews.
\* mixed: one window has a node that asks for another plan and, later in the
\* order, one that asks for an approval.
Named == {"overlap", "early", "late", "lapse", "mixed"}

Nodes == Planned \cup UNION {Tails[i] : i \in DOMAIN Tails}
                 \cup UNION {Added[p] : p \in Patches}

ASSUME NumberedInPlanOrder == Nodes \subseteq Nat \ {0} /\ IsFiniteSet(Nodes)
ASSUME Numbers == Limit \in Nat /\ FrontierSize \in Nat \ {0}
ASSUME EffectfulAreNodes == Effectful \subseteq Nodes
ASSUME EstimatesAreNumbers == Estimate \in [Nodes -> Nat]
ASSUME TailsAreSets == Tails \in Seq(SUBSET Nat)
ASSUME PatchesAreNamed == "none" \notin Patches /\ "loop" \notin Patches
ASSUME RacesAreNamed == Races \subseteq Named

VARIABLES
    plan,         \* the logical plan in Redis
    job,          \* the job record
    loop,         \* the execution loop: pc, its job object, its plan, where to go
    patch,        \* the append of each patch: pc, base revision, job object, plan
    lock,         \* the patch that holds PlanPatchLock, or none
    current,      \* whose job object has the revision of the record
    past,         \* history: what became of every node that was ever run
    userPaused,   \* history: the pause in force was asked for by the user
    requests      \* the user's requests so far

clients == <<patch, lock>>
history == <<past, userPaused>>
vars == <<plan, job, loop, patch, lock, current, past, userPaused, requests>>

None == 0
Loop == "loop"

NodeStatus == {"none", "pending", "completed", "failed", "uncertain", "escalated",
               "cancelled", "skipped"}
\* clarified: completed, and its result is a question to the user.
JobStatus == {"running", "paused", "waiting_approval", "completed", "clarified", "failed",
              "cancelled", "interrupted"}
Control == {"cancelled", "interrupted", "paused"}
Terminal == {"completed", "clarified", "failed", "cancelled", "interrupted"}

\* uncertain: failed or escalated, and the effect may have happened.
FailedNode == {"failed", "uncertain", "escalated", "skipped"}

(* ------------------------- the logical plan ---------------------------- *)

Cost(S) == MapThenSumSet(LAMBDA n : Estimate[n], S)

NewPlan ==
    [nodes |-> [n \in Nodes |-> IF n \in Planned THEN "pending" ELSE "none"],
     expanded |-> {}, applied |-> {}, revision |-> 1, reserved |-> 0, used |-> 0]

\* Mutant: a node that was handed out or completed may be ready again.
ReadyAgain(p) ==
    {n \in Nodes : /\ p.nodes[n] \notin {"none", "failed", "escalated"}
                   /\ \A d \in DependsOn[n] : p.nodes[d] = "completed"}

\* ready_node_ids: pending, and every dependency committed.
Ready(p) ==
    {n \in Nodes : /\ p.nodes[n] = "pending"
                   /\ \A d \in DependsOn[n] : p.nodes[d] = "completed"}

\* select_budgeted_frontier: the longest prefix of the ready nodes that fits.
Frontier(p) ==
    {n \in Ready(p) :
        LET prefix == {m \in Ready(p) : m <= n}
        IN  /\ Cardinality(prefix) <= FrontierSize
            /\ p.used + p.reserved + Cost(prefix) <= Limit}

Materialized(p) ==
    [p EXCEPT !.nodes = [n \in Nodes |-> IF n \in Frontier(p) THEN "materialized" ELSE @[n]],
              !.reserved = @ + Cost(Frontier(p))]

Window(p) == [n \in Nodes |-> IF n \in Frontier(p) THEN "pending" ELSE "none"]

\* max(0, a - b).
Less(a, b) == IF a < b THEN 0 ELSE a - b

\* Mutant: what ran is given back and not counted as used.
CommittedFree(p, nodes) ==
    LET back == {n \in Nodes : nodes[n] # "none" /\ p.nodes[n] \in {"materialized", "pending"}}
    IN  [p EXCEPT !.nodes = [n \in Nodes |-> IF n \in back THEN nodes[n] ELSE @[n]],
                  !.reserved = Less(@, Cost(back))]

\* commit_frontier_results, for the nodes of a window.
Committed(p, nodes) ==
    LET back == {n \in Nodes : nodes[n] # "none" /\ p.nodes[n] \in {"materialized", "pending"}}
    IN  [p EXCEPT !.nodes = [n \in Nodes |-> IF n \in back THEN nodes[n] ELSE @[n]],
                  !.reserved = Less(@, Cost(back)),
                  !.used = @ + Cost(back)]

\* replace_unfinished_tail: only the completed nodes stay.
Replaced(p, tail) ==
    [p EXCEPT !.nodes = [n \in Nodes |-> IF @[n] = "completed" THEN "completed"
                                         ELSE IF n \in tail THEN "pending" ELSE "none"],
              !.revision = @ + 1,
              !.reserved = 0]

Progress(p, statuses) == {n \in Nodes : p.nodes[n] \in statuses}

AllCompleted(p) == Progress(p, {"completed"}) = Nodes \ Progress(p, {"none"})

ReadySlots(p) ==
    {s \in Slots \ p.expanded : \A d \in SlotDeps[s] : p.nodes[d] = "completed"}

\* What apply_plan_patch asks of a patch made against revision base: a ready
\* slot, and no node that the plan has already.
Fits(p, c, base) ==
    /\ SlotOf[c] \in ReadySlots(p)
    /\ p.revision = base
    /\ \A n \in Added[c] : p.nodes[n] = "none"

\* apply_plan_patch, for a patch that fits.
Applied(p, c) ==
    [p EXCEPT !.nodes = [n \in Nodes |-> IF n \in Added[c] THEN "pending" ELSE @[n]],
              !.expanded = @ \cup {SlotOf[c]},
              !.applied = @ \cup {c},
              !.revision = @ + 1]

(* --------------------------- the job record ---------------------------- *)

NewJob == [status |-> "running", nodes |-> Window(NewPlan), awaiting |-> None,
           waits |-> FALSE, replans |-> 0]

Resting == [pc |-> "off", job |-> NewJob, plan |-> NewPlan, next |-> "off"]
Quiet == [pc |-> "idle", base |-> 0, job |-> NewJob, plan |-> NewPlan, sends |-> 0]

\* _merge_conflict: the incoming copy wins, except over a control status and
\* over the nodes a cancel stopped.
Merge(saved, incoming) ==
    [incoming EXCEPT
        !.status = IF saved.status \in Control /\ @ \notin Control THEN saved.status ELSE @,
        !.nodes = [n \in Nodes |->
            IF /\ saved.nodes[n] # "none"
               /\ @[n] \notin {"none", "cancelled"}
               /\ \/ saved.nodes[n] = "cancelled"
                  \/ saved.status \in {"cancelled", "interrupted"}
            THEN saved.nodes[n] ELSE @[n]]]

Saved(holder, object) == IF holder \in current THEN object ELSE Merge(job, object)

\* save_job: the pause of the user may be overwritten.
Stored(record) ==
    /\ job' = record
    /\ userPaused' = (userPaused /\ record.status = "paused")

\* By the loop, whose object becomes what was saved.
Store(object) == Stored(Saved(Loop, object)) /\ current' = {Loop}

\* get_job.
Fetched(holder) == current' = current \cup {holder}

Init ==
    /\ plan = Materialized(NewPlan)
    /\ job = NewJob
    /\ loop = [Resting EXCEPT !.pc = "start"]
    /\ patch = [c \in Patches |-> Quiet]
    /\ lock = "none"
    /\ current = {}
    /\ past = [n \in Nodes |-> "fresh"]
    /\ userPaused = FALSE
    /\ requests = 0

(* ------------------- the loop: running a window ------------------------ *)

Open(j) == {n \in Nodes : j.nodes[n] = "pending"}

\* TaskExecutionEngine._derive_status: no node isolates its failure.
Derived(j) ==
    IF \A n \in Nodes : j.nodes[n] \in {"none", "completed"} THEN "completed"
    ELSE IF \E n \in Nodes : j.nodes[n] = "cancelled" THEN "interrupted"
    ELSE "failed"

Start ==
    /\ loop.pc = "start"
    /\ loop' = [loop EXCEPT !.pc = "launch", !.job = job]
    /\ Fetched(Loop)
    /\ UNCHANGED <<plan, job, clients, history, requests>>

\* A window has no edges and the concurrency covers it: all of it is launched.
Launch ==
    /\ loop.pc = "launch"
    /\ Open(loop.job) # {}
    /\ job.status # "paused"
    /\ loop' = [loop EXCEPT !.pc = "running"]
    /\ past' = [n \in Nodes |-> IF n \in Open(loop.job) THEN "handed" ELSE past[n]]
    /\ UNCHANGED <<plan, job, clients, current, userPaused, requests>>

\* A node ends and is saved.  An effect that needs an approval stops the
\* window, unless the engine only waits because of a pause.  What its body did
\* before it asked is on no record (EffectJournal) and is not counted here.
NodeEnds(n, status) ==
    /\ loop.pc = "running" /\ loop.next # "stopped"
    /\ n \in Open(loop.job)
    /\ status \in {"completed", "failed", "escalated"}
                    \cup (IF n \in Effectful THEN {"uncertain"} ELSE {})
    /\ LET gate == status = "escalated" /\ n \in Effectful
           object == [loop.job EXCEPT !.nodes[n] = status,
                                      !.status = IF gate THEN "waiting_approval" ELSE @]
       IN  /\ Store(object)
           /\ \E next \in (IF ~gate THEN {"off"}
                           ELSE IF job.status = "paused" THEN {"off", "stopped"}
                           ELSE {"stopped"}) :
                  loop' = [loop EXCEPT !.job = Saved(Loop, object), !.next = next]
    /\ past' = [past EXCEPT ![n] = IF status \in {"completed", "uncertain"} THEN status ELSE @]
    /\ UNCHANGED <<plan, clients, requests>>

\* No patch holds a copy of the job that it will save.
Appending(c) == patch[c].pc \in {"read", "decided", "planned"}
Alone == "overlap" \in Races \/ \A c \in Patches : ~Appending(c)

\* The engine returns and the outcome is saved.
Outcome ==
    /\ \/ loop.pc = "running" /\ (loop.next = "stopped" \/ Open(loop.job) = {})
       \/ loop.pc = "launch" /\ (Open(loop.job) = {} \/ job.status = "paused")
    /\ Alone
    /\ LET object == [loop.job EXCEPT
               !.status = IF loop.next = "stopped" THEN "waiting_approval"
                          ELSE IF Open(loop.job) = {} THEN Derived(loop.job) ELSE "paused"]
       IN  /\ Store(object)
           /\ loop' = [loop EXCEPT !.pc = "refresh", !.job = Saved(Loop, object), !.next = "off"]
    /\ UNCHANGED <<plan, clients, past, requests>>

(* ------------------ the loop: continuing the plan ---------------------- *)

Refresh ==
    /\ loop.pc = "refresh"
    /\ loop' = [loop EXCEPT !.pc = IF job.status \in Control \cup {"waiting_approval"}
                                   THEN "recover" ELSE "load",
                            !.job = job]
    /\ Fetched(Loop)
    /\ UNCHANGED <<plan, job, clients, history, requests>>

Load ==
    /\ loop.pc = "load"
    /\ loop' = [loop EXCEPT !.pc = "commit", !.plan = plan]
    /\ UNCHANGED <<plan, job, clients, current, history, requests>>

Commit ==
    /\ loop.pc = "commit"
    /\ plan' = Committed(loop.plan, loop.job.nodes)
    /\ loop' = [loop EXCEPT !.pc = "advance", !.plan = plan']
    /\ UNCHANGED <<job, clients, current, history, requests>>

\* The plan is saved; the job object is to be saved next.
Advanced(p, object, next) ==
    /\ loop.pc = "advance"
    /\ plan' = p
    /\ loop' = [loop EXCEPT !.pc = "save", !.job = object, !.next = next]
    /\ UNCHANGED <<job, clients, current, history, requests>>

Broken == Progress(loop.plan, FailedNode) # {}

FrontierFailed ==
    /\ loop.pc = "advance" /\ Broken
    /\ loop' = [loop EXCEPT !.pc = "save", !.next = "recover"]
    /\ UNCHANGED <<plan, job, clients, current, history, requests>>

AwaitPatches ==
    /\ ~Broken /\ AllCompleted(loop.plan) /\ ReadySlots(loop.plan) # {}
    /\ Advanced(loop.plan, [loop.job EXCEPT !.status = "paused", !.waits = TRUE], "recover")

\* Mutant: an open slot is not looked at.
CompleteAnyway ==
    /\ ~Broken /\ AllCompleted(loop.plan)
    /\ Advanced(loop.plan, [loop.job EXCEPT !.status = "completed"], "recover")

Complete ==
    /\ ~Broken /\ AllCompleted(loop.plan) /\ ReadySlots(loop.plan) = {}
    /\ Advanced(loop.plan, [loop.job EXCEPT !.status = "completed"], "recover")

NextFrontier ==
    /\ ~Broken /\ ~AllCompleted(loop.plan) /\ Frontier(loop.plan) # {}
    /\ Advanced(Materialized(loop.plan),
                [loop.job EXCEPT !.status = "running", !.nodes = Window(loop.plan),
                                 !.awaiting = None], "start")

OutOfPlan ==
    /\ ~Broken /\ ~AllCompleted(loop.plan) /\ Frontier(loop.plan) = {}
    /\ Advanced(loop.plan, [loop.job EXCEPT !.status = "failed"], "recover")

SaveJob ==
    /\ loop.pc = "save"
    /\ Store(loop.job)
    /\ loop' = IF loop.next = "recover"
               THEN [Resting EXCEPT !.pc = "recover", !.job = Saved(Loop, loop.job)]
               ELSE [Resting EXCEPT !.pc = loop.next]
    /\ UNCHANGED <<plan, clients, past, requests>>

(* -------------- the loop: escalation and replanning -------------------- *)

Failures(j) == {n \in Nodes : j.nodes[n] \in FailedNode}
Escalated(j) == {n \in Nodes : j.nodes[n] = "escalated"}

Recovering == loop.pc = "recover" /\ loop.job.status \notin Control

GiveUp ==
    /\ loop.pc = "recover"
    /\ loop.job.status \in Control \/ Failures(loop.job) = {}
    /\ loop' = [Resting EXCEPT !.pc = "check"]
    /\ UNCHANGED <<plan, job, clients, current, history, requests>>

\* handle_task_escalation: the first escalated node asks for an approval, with
\* the fingerprint of the call, and waits for it.
Escalate ==
    /\ Recovering
    /\ \E n \in Escalated(loop.job) :
        /\ \A m \in Escalated(loop.job) : n <= m
        /\ LET object == [loop.job EXCEPT !.nodes[n] = "pending", !.awaiting = n,
                                          !.status = "waiting_approval"]
           IN  /\ Store(object)
               /\ loop' = [loop EXCEPT
                    !.pc = IF Saved(Loop, object).status = "waiting_approval"
                           THEN "reopen" ELSE "restart",
                    !.job = Saved(Loop, object)]
    /\ UNCHANGED <<plan, clients, past, requests>>

\* The recovery ends at once: by an error of the model that no retry mends, an
\* approval without its fingerprint, or a question to the user.
RecoveryEnds ==
    /\ Recovering
    /\ \E status \in {"failed", "clarified"} :
        /\ \E n \in Failures(loop.job) :
               loop.job.nodes[n] \in {"uncertain", "escalated",
                                     IF status = "failed" THEN "failed" ELSE "escalated"}
        /\ loop' = [loop EXCEPT !.pc = "save", !.job.status = status, !.next = "check"]
    /\ UNCHANGED <<plan, job, clients, current, history, requests>>

Reopen ==
    /\ loop.pc = "reopen"
    /\ loop' = [loop EXCEPT !.pc = "reopened", !.plan = plan]
    /\ UNCHANGED <<plan, job, clients, current, history, requests>>

SaveReopened ==
    /\ loop.pc = "reopened"
    /\ plan' = [loop.plan EXCEPT !.nodes = [n \in Nodes |->
                    IF n \in Open(loop.job) /\ @[n] # "none" THEN "materialized" ELSE @[n]]]
    /\ loop' = [loop EXCEPT !.pc = "save", !.next = "restart"]
    /\ UNCHANGED <<job, clients, current, history, requests>>

\* Nothing is escalated, or the first escalated node asks for another plan.
LoadReplan ==
    /\ Recovering
    /\ Failures(loop.job) # {}
    /\ loop.job.status # "waiting_approval" \/ "mixed" \in Races
    /\ loop' = [loop EXCEPT !.pc = "replan", !.plan = plan]
    /\ UNCHANGED <<plan, job, clients, current, history, requests>>

Happened(n, j, p) == p.nodes[n] = "completed" \/ j.nodes[n] \in {"completed", "uncertain"}

\* Mutant: the effects of earlier windows are not looked at.
MayReplanWindow(j, p) ==
    /\ j.replans < Len(Tails)
    /\ \A n \in Effectful : j.nodes[n] \notin {"completed", "uncertain"}

\* decide_logical_plan_replan.
MayReplan(j, p) ==
    /\ j.replans < Len(Tails)
    /\ \A n \in Effectful : ~Happened(n, j, p)

\* Mutant: the failed window is executed once more.
ReplanRetried ==
    /\ loop.pc = "replan"
    /\ loop' = [loop EXCEPT !.pc = "save", !.next = "start"]
    /\ UNCHANGED <<plan, job, clients, current, history, requests>>

\* Not allowed, or the planner has no valid tail.
ReplanDeclined ==
    /\ loop.pc = "replan"
    /\ loop' = [loop EXCEPT !.pc = "save", !.next = "check"]
    /\ UNCHANGED <<plan, job, clients, current, history, requests>>

Replan ==
    /\ loop.pc = "replan"
    /\ MayReplan(loop.job, loop.plan)
    /\ LET p == Replaced(loop.plan, Tails[loop.job.replans + 1])
           failed == [loop.job EXCEPT !.status = "failed"]
           object == [loop.job EXCEPT !.status = "running", !.nodes = Window(p),
                                      !.awaiting = None, !.replans = @ + 1]
       IN  /\ plan' = Materialized(p)
           /\ loop' = IF Frontier(p) = {}
                      THEN [loop EXCEPT !.pc = "save", !.job = failed, !.next = "check"]
                      ELSE [loop EXCEPT !.pc = "save", !.job = object, !.next = "restart"]
    /\ UNCHANGED <<job, clients, current, history, requests>>

Restart ==
    /\ loop.pc = "restart"
    /\ loop' = [loop EXCEPT !.pc = IF job.status = "running" THEN "start" ELSE "check"]
    /\ UNCHANGED <<plan, job, clients, current, history, requests>>

\* The loop ends; ensure_failed for a job that is still running.
Check ==
    /\ loop.pc = "check"
    /\ loop' = Resting
    /\ IF job.status = "running"
       THEN job' = [job EXCEPT !.status = "failed"] /\ current' = {}
       ELSE job' = job /\ current' = current \ {Loop}
    /\ UNCHANGED <<plan, clients, history, requests>>

(* ---------------------------- requests --------------------------------- *)

Asked == requests < MaxRequests /\ requests' = requests + 1

\* The loop is started unless it is still there.
Started == IF loop.pc = "off" THEN [Resting EXCEPT !.pc = "start"] ELSE loop
Punctual == loop.pc = "off" \/ "early" \in Races

\* A terminal record makes it a no-op; else the coroutine is cancelled too.
Cancel ==
    /\ Asked
    /\ job.status \notin Terminal
    /\ job' = [job EXCEPT !.status = "cancelled",
                          !.nodes = [n \in Nodes |-> IF @[n] = "pending" THEN "cancelled" ELSE @[n]]]
    /\ loop' = Resting
    /\ current' = {}
    /\ userPaused' = FALSE
    /\ UNCHANGED <<plan, clients, past>>

Pause ==
    /\ Asked
    /\ job.status = "running"
    /\ job' = [job EXCEPT !.status = "paused"]
    /\ current' = {}
    /\ userPaused' = TRUE
    /\ UNCHANGED <<plan, loop, clients, past>>

Resumed ==
    /\ job' = [job EXCEPT !.status = "running"]
    /\ loop' = Started
    /\ current' = {}

Resume ==
    /\ Asked /\ Punctual
    /\ job.status = "paused"
    /\ Resumed
    /\ userPaused' = FALSE
    /\ UNCHANGED <<plan, clients, past>>

\* ApprovalService.resolve: the status of the job is not looked at.
Approve ==
    /\ Asked /\ Punctual /\ Alone
    /\ job.awaiting # None
    /\ "late" \in Races \/ job.status \notin Terminal
    /\ job' = [job EXCEPT !.nodes[job.awaiting] = "pending", !.awaiting = None,
                          !.status = "running"]
    /\ loop' = Started
    /\ current' = {}
    /\ userPaused' = FALSE
    /\ UNCHANGED <<plan, clients, past>>

Reject ==
    /\ Asked /\ Punctual /\ Alone
    /\ job.awaiting # None
    /\ job' = [job EXCEPT !.nodes[job.awaiting] = "skipped", !.status = "failed"]
    /\ current' = {}
    /\ userPaused' = FALSE
    /\ UNCHANGED <<plan, loop, clients, past>>

(* ----------------------------- patches --------------------------------- *)

\* Compare and delete.
Released(c) == lock' = IF lock = c THEN "none" ELSE lock
Answered == [Quiet EXCEPT !.pc = "done"]

\* The client reads the plan's revision and sends its patch.
Send(c) ==
    /\ patch[c].pc \in {"idle", "refused"}
    /\ patch[c].sends < MaxSends[c]
    /\ patch' = [patch EXCEPT ![c].pc = "sent", ![c].base = plan.revision, ![c].sends = @ + 1]
    /\ UNCHANGED <<plan, job, loop, lock, current, history, requests>>

\* The loop is between two windows: it reads the job and the plan, and writes
\* them back.
Between == loop.pc \notin {"off", "start", "launch", "running", "restart", "check"}

\* PlanPatchLock, then get_job.  The lease of the holder may have lapsed.
ReadJob(c) ==
    /\ patch[c].pc = "sent"
    /\ "overlap" \in Races \/ ~Between
    /\ lock = "none" \/ "lapse" \in Races
    /\ lock' = c
    /\ patch' = [patch EXCEPT ![c].pc = "read", ![c].job = job]
    /\ Fetched(c)
    /\ UNCHANGED <<plan, job, loop, history, requests>>

Known(c) == c \in plan.applied
Over(c) == patch[c].job.status \in Terminal

\* The history of a plan is cut to its last entries, one per revision: after a
\* replacement six are left, so an older patch is not recognised any more.
Forgettable == plan.revision > 7

\* The lock is not free for five seconds, or the patch cannot be applied.
Refuse(c) ==
    /\ \/ patch[c].pc = "sent" /\ lock # "none"
       \/ /\ patch[c].pc = "read"
          /\ ~Known(c) \/ Forgettable
          /\ Over(c) \/ ~Fits(plan, c, patch[c].base)
    /\ patch' = [patch EXCEPT ![c] = [Quiet EXCEPT !.pc = "refused", !.sends = patch[c].sends]]
    /\ Released(c)
    /\ UNCHANGED <<plan, job, loop, current, history, requests>>

\* Mutant: a replay is answered at once, and wakes nobody.
ReplayAnswered(c) ==
    /\ patch[c].pc = "read"
    /\ Known(c)
    /\ patch' = [patch EXCEPT ![c] = Answered]
    /\ Released(c)
    /\ UNCHANGED <<plan, job, loop, current, history, requests>>

\* A replay does not touch the plan; of a job that is over, not the job either.
Replay(c) ==
    /\ patch[c].pc = "read"
    /\ Known(c)
    /\ IF Over(c)
       THEN /\ patch' = [patch EXCEPT ![c] = Answered]
            /\ Released(c)
       ELSE /\ patch' = [patch EXCEPT ![c].pc = "planned", ![c].base = 0]
            /\ UNCHANGED lock
    /\ UNCHANGED <<plan, job, loop, current, history, requests>>

Attach(c) ==
    /\ patch[c].pc = "read"
    /\ ~Known(c) /\ ~Over(c)
    /\ Fits(plan, c, patch[c].base)
    /\ patch' = [patch EXCEPT ![c].pc = "decided", ![c].base = 0,
                              ![c].plan = Applied(plan, c)]
    /\ UNCHANGED <<plan, job, loop, lock, current, history, requests>>

SavePlan(c) ==
    /\ patch[c].pc = "decided"
    /\ plan' = patch[c].plan
    /\ patch' = [patch EXCEPT ![c].pc = "planned", ![c].plan = NewPlan]
    /\ UNCHANGED <<job, loop, lock, current, history, requests>>

\* requires_legacy_resume: the flag is never taken off a legacy job.
SavePatched(c) ==
    /\ patch[c].pc = "planned"
    /\ Stored(Saved(c, patch[c].job))
    /\ current' = {}
    /\ patch' = [patch EXCEPT ![c] =
           IF patch[c].job.waits THEN [Quiet EXCEPT !.pc = "wake", !.sends = patch[c].sends]
           ELSE Answered]
    /\ Released(c)
    /\ UNCHANGED <<plan, loop, past, requests>>

Wake(c) ==
    /\ patch[c].pc = "wake"
    /\ Punctual
    /\ patch' = [patch EXCEPT ![c] = Answered]
    /\ IF job.status = "paused" THEN Resumed ELSE UNCHANGED <<job, loop, current>>
    /\ UNCHANGED <<plan, lock, history, requests>>

\* The request is lost between two steps; the client sends the patch again.
Abort(c) ==
    /\ Appending(c) \/ patch[c].pc = "wake"
    /\ patch[c].sends < MaxSends[c]
    /\ patch' = [patch EXCEPT ![c] = [Quiet EXCEPT !.sends = patch[c].sends]]
    /\ lock' = IF lock = c THEN "none" ELSE lock
    /\ UNCHANGED <<plan, job, loop, current, history, requests>>

(* ------------------------- specification ------------------------------- *)

LoopStep ==
    \/ Start \/ Launch \/ (\E n \in Nodes, r \in NodeStatus : NodeEnds(n, r)) \/ Outcome
    \/ Refresh \/ Load \/ Commit
    \/ FrontierFailed \/ AwaitPatches \/ Complete \/ NextFrontier \/ OutOfPlan \/ SaveJob
    \/ GiveUp \/ Escalate \/ RecoveryEnds \/ Reopen \/ SaveReopened
    \/ LoadReplan \/ ReplanDeclined \/ Replan \/ Restart \/ Check

PatchStep(c) ==
    \/ ReadJob(c) \/ Refuse(c) \/ Replay(c) \/ Attach(c)
    \/ SavePlan(c) \/ SavePatched(c) \/ Wake(c)

Next ==
    \/ LoopStep
    \/ Cancel \/ Pause \/ Resume \/ Approve \/ Reject
    \/ \E c \in Patches : PatchStep(c) \/ Send(c) \/ Abort(c)

Spec == Init /\ [][Next]_vars

\* Nodes end, within their time limits, and neither the loop nor a request
\* that holds the lock stops between two steps for ever.
Fairness == WF_vars(LoopStep) /\ \A c \in Patches : WF_vars(PatchStep(c))

FairSpec == Spec /\ Fairness

(* --------------------------- properties -------------------------------- *)

Plans == [nodes : [Nodes -> NodeStatus \cup {"materialized"}], expanded : SUBSET Slots,
          applied : SUBSET Patches, revision : Nat, reserved : Nat, used : Nat]
Jobs == [status : JobStatus, nodes : [Nodes -> NodeStatus], awaiting : Nodes \cup {None},
         waits : BOOLEAN, replans : 0 .. Len(Tails)]

Loops == [pc : {"off", "start", "launch", "running", "refresh", "load", "commit", "advance",
                "save", "recover", "reopen", "reopened", "replan", "restart", "check"},
          job : Jobs, plan : Plans,
          next : {"off", "stopped", "start", "recover", "restart", "check"}]
Appends == [pc : {"idle", "sent", "read", "decided", "planned", "wake", "done", "refused"},
            base : Nat, job : Jobs, plan : Plans, sends : Nat]

TypeOK ==
    /\ plan \in Plans
    /\ job \in Jobs
    /\ loop \in Loops /\ (loop.next = "stopped" => loop.pc = "running")
    /\ patch \in [Patches -> Appends]
    /\ lock \in Patches \cup {"none"}
    /\ current \subseteq Patches \cup {Loop}
    /\ past \in [Nodes -> {"fresh", "handed", "completed", "uncertain"}]
    /\ userPaused \in BOOLEAN

\* A node that completed is not run again, whatever is paused, approved,
\* replanned or patched ("completed nodes are never rerun",
\* docs/LOGICAL_PLAN_ROLLING.md).
CompletedNeverReruns ==
    [][\A n \in Nodes : past[n] = "completed" => past'[n] = "completed"]_vars

\* A tail is not replaced once an effect has happened or may have happened,
\* in the window or in an earlier one: the new tail could repeat it.
EffectsNotReplanned ==
    [][plan'.revision > plan.revision /\ plan'.applied = plan.applied
         => \A n \in Effectful : past[n] \notin {"completed", "uncertain"}]_vars

\* What was ever run fits the budget of the plan, over all windows, replanned
\* tails and patches.
BudgetHolds == Cost({n \in Nodes : past[n] # "fresh"}) <= Limit

\* A job reported completed, other than with a question to the user, has no node
\* left to run and no slot that could still be expanded; one reported running has
\* a loop that runs it.
ReportsAreTrue ==
    loop.pc = "off" =>
        /\ job.status # "running"
        /\ job.status = "completed" => AllCompleted(plan) /\ ReadySlots(plan) = {}

\* A job that waits for patches does not go on waiting with a node to run once
\* every patch in its plan was answered with success, also when the request that
\* attached one was lost before it woke the job (scheduling/service.py:110-210).
PatchesWakeTheJob ==
    /\ loop.pc = "off" /\ job.status = "paused" /\ job.waits /\ ~userPaused
    /\ Open(job) = {}
    /\ \A c \in plan.applied : patch[c].pc = "done"
    => Ready(plan) = {}

\* The loop comes to rest: windows, approvals and replacements are finite.
LoopRests == []<>(loop.pc = "off")

\* A pause the user asked for ends by the user's resume or approval, or in a
\* final status; a patch does not resume the job (scheduling/service.py:175).
ManualPause ==
    [][userPaused /\ userPaused' => ~(job.status = "paused" /\ job'.status = "running")]_vars

\* A patch that was answered with success stays in the plan, also when the loop
\* saves its copy of the plan.  It does not hold: section 4 of the README.
PatchesStick == \A c \in Patches : patch[c].pc = "done" => c \in plan.applied

================================================================================
