-------------------------------- MODULE StepRun --------------------------------
(***************************************************************************)
(* A plan the user confirms step by step.  Each run-next request is an     *)
(* event stream that claims the job's lock in the process, marks the next  *)
(* step running, asks for capacity, starts the node in a task of its own,  *)
(* waits for it and settles the step.  Every save of the state is followed *)
(* by the checkpoints of all the steps, from which a recovery plan is made *)
(* after a restart.  The stream ends with its connection; the task it      *)
(* started does not.                                                       *)
(*                                                                         *)
(* A read followed at once by a save is one action: what happens between   *)
(* them is the subject of JobStore.  An effect passes through the journal  *)
(* as in EffectJournal, which covers its failures.  plan_revision does not *)
(* change while the plan runs, and the workspace stays bound.              *)
(***************************************************************************)
EXTENDS Naturals, FiniteSets

CONSTANTS
    Count,          \* number of steps
    Effectful,      \* the steps whose node has a side effect
    DependsOn,      \* upstream steps of each step's node
    Requests,       \* the run-next requests, made once each
    KeyOf,          \* the idempotency key a request carries
    PlanRevision,   \* the plan's revision
    Outcomes,       \* how a node may end
    Faults,         \* what else may happen
    MaxCrashes      \* bound: restarts of the process

Steps == 1..Count
Keys == {KeyOf[r] : r \in Requests}

ASSUME CountAssumption == Count \in Nat
ASSUME EffectfulAssumption == Effectful \subseteq Steps
ASSUME DependsOnAssumption ==
    \A s \in Steps : DependsOn[s] \subseteq {t \in Steps : t < s}
ASSUME PlanRevisionAssumption == PlanRevision \in Nat \ {0}
ASSUME OutcomesAssumption ==
    Outcomes \subseteq {"completed", "failed", "waiting_approval",
                        "waiting_resources", "escalated"}
ASSUME RequestsAssumption == "none" \notin Requests
ASSUME CrashesAssumption == MaxCrashes \in Nat
ASSUME FaultsAssumption == Faults \subseteq {"cancel", "disconnect", "put"}

VARIABLES
    record,         \* the job in Redis
    lock,           \* the request that holds the job's lock
    pc,             \* where each request is
    after,          \* where a request continues once its state is saved
    state,          \* the StepRunState a request works on
    step,           \* the step it took
    task,           \* where the node task it started is
    object,         \* the Job object of that task
    stale,          \* tasks whose object is behind the record
    outcome,        \* the node's outcome
    journal,        \* the effect journal's row of each step
    effects,        \* how often the step's effect took place
    asked,          \* history: how often it did before an approval was asked for
    checkpoint,     \* the step's checkpoint in Redis
    known,          \* the checkpoint the process remembers
    crashes         \* restarts so far

taskVars == <<task, object, stale, outcome>>
vars == <<record, lock, pc, after, state, step, task, object, stale, outcome,
          journal, effects, asked, checkpoint, known, crashes>>

None == 0

StepStatus == {"pending", "running", "waiting_approval", "completed", "failed"}
PENDING_STEP_STATUSES == {"pending", "running", "waiting_approval"}
RESUME_ALLOWED_STATES == {"waiting_run", "waiting_next", "running_step"}
Ended == {"completed", "failed", "cancelled"}
Protected == {"cancelled", "interrupted"}

\* gate: no approval asked for, awaited, given.  effect: effect_status.
NewNode == [status |-> "pending", gate |-> "none", effect |-> "none"]

NewJob == [status |-> "pending", canonical |-> "waiting_run", index |-> 1,
           steps |-> [s \in Steps |-> "pending"], keys |-> {},
           nodes |-> [s \in Steps |-> NewNode]]

NoCheckpoint == [state |-> "none", version |-> 0, effect |-> "none"]

Init ==
    /\ record = NewJob
    /\ lock = "none"
    /\ pc = [r \in Requests |-> "idle"]
    /\ after = [r \in Requests |-> "none"]
    /\ state = [r \in Requests |-> NewJob]
    /\ step = [r \in Requests |-> None]
    /\ task = [r \in Requests |-> "none"]
    /\ object = [r \in Requests |-> NewJob]
    /\ stale = {}
    /\ outcome = [r \in Requests |-> "none"]
    /\ journal = [s \in Steps |-> "none"]
    /\ effects = [s \in Steps |-> 0]
    /\ asked = [s \in Steps |-> 0]
    /\ checkpoint = [s \in Steps |-> NoCheckpoint]
    /\ known = [s \in Steps |-> NoCheckpoint]
    /\ crashes = 0

(* ---------------------------- step_contract.py ------------------------- *)

Candidates(job) ==
    {s \in Steps : s >= job.index /\ job.steps[s] \in PENDING_STEP_STATUSES}

First(S) == CHOOSE s \in S : \A t \in S : s <= t

DependenciesDone(job, s) == \A t \in DependsOn[s] : job.nodes[t].status = "completed"

\* Mutant: the key is not looked up.
AllowedAgain(job, s, key) ==
    /\ job.canonical \in RESUME_ALLOWED_STATES
    /\ DependenciesDone(job, s)

\* validate_resume_request.
Allowed(job, s, key) ==
    /\ job.canonical \in RESUME_ALLOWED_STATES
    /\ key \notin job.keys
    /\ DependenciesDone(job, s)

Marked(job, s, key) ==
    [job EXCEPT
        !.keys = @ \cup {key},
        !.canonical = "running_step",
        !.index = s,
        !.status = IF @ \in {"pending", "waiting_resources"} THEN "running" ELSE @,
        !.steps[s] = "running"]

\* revert_to_waiting; no key when the resources are lacking.
Reverted(job, s, keys) ==
    [job EXCEPT
        !.keys = @ \ keys,
        !.canonical = IF s = 1 THEN "waiting_run" ELSE "waiting_next",
        !.status = "pending",
        !.steps[s] = "pending"]

SettledApproval(job, s) ==
    [job EXCEPT !.steps[s] = "waiting_approval", !.canonical = "waiting_approval"]

SettledFailure(job, s) ==
    [job EXCEPT !.steps[s] = "failed", !.canonical = "failed", !.status = "failed"]

\* apply_step_fields and settle_success.
SettledSuccess(job, s) ==
    LET steps == [job.steps EXCEPT ![s] = "completed"]
        Waiting == {t \in Steps : steps[t] \in {"pending", "waiting_approval"}}
        Later == {t \in Waiting : t > s}
    IN  IF Waiting = {}
        THEN [job EXCEPT !.steps = steps, !.canonical = "completed",
                         !.status = "completed", !.index = Count + 1]
        ELSE [job EXCEPT !.steps = steps, !.canonical = "waiting_next",
                         !.status = "pending",
                         !.index = IF Later = {} THEN s + 1 ELSE First(Later)]

(* ------------------------------ run_next_stream ------------------------ *)

Working == {e \in Requests : task[e] \notin {"none", "ended", "lost"}}

Goto(r, location) == pc' = [pc EXCEPT ![r] = location]

\* The stream ends, and its state is forgotten.
Leave(r) ==
    /\ Goto(r, "done")
    /\ lock' = "none"
    /\ state' = [state EXCEPT ![r] = NewJob]

\* The state is to be saved, and the stream goes on from there.
Persist(r, job, continue) ==
    /\ state' = [state EXCEPT ![r] = job]
    /\ after' = [after EXCEPT ![r] = continue]
    /\ Goto(r, "save")

\* STEP_ALREADY_RUNNING.
Busy(r) ==
    /\ pc[r] = "idle"
    /\ lock # "none"
    /\ Goto(r, "done")
    /\ UNCHANGED <<record, lock, after, state, step, taskVars, journal, effects, asked,
                   checkpoint, known, crashes>>

\* Nothing left to run, or the request is refused: the stream ends.
Refuse(r) ==
    /\ pc[r] = "idle"
    /\ lock = "none"
    /\ \/ Candidates(record) = {}
       \/ ~Allowed(record, First(Candidates(record)), KeyOf[r])
    /\ Goto(r, "done")
    /\ UNCHANGED <<record, lock, after, state, step, taskVars, journal, effects, asked,
                   checkpoint, known, crashes>>

\* Mutant: the lock is not looked at.
BeginUnlocked(r) ==
    /\ pc[r] = "idle"
    /\ Candidates(record) # {}
    /\ LET s == First(Candidates(record)) IN
         /\ Allowed(record, s, KeyOf[r])
         /\ step' = [step EXCEPT ![r] = s]
         /\ Persist(r, Marked(record, s, KeyOf[r]), "admit")
    /\ lock' = r
    /\ UNCHANGED <<record, taskVars, journal, effects, asked, checkpoint, known, crashes>>

Begin(r) ==
    /\ pc[r] = "idle"
    /\ lock = "none"
    /\ Candidates(record) # {}
    /\ LET s == First(Candidates(record)) IN
         /\ Allowed(record, s, KeyOf[r])
         /\ step' = [step EXCEPT ![r] = s]
         /\ Persist(r, Marked(record, s, KeyOf[r]), "admit")
    /\ lock' = r
    /\ UNCHANGED <<record, taskVars, journal, effects, asked, checkpoint, known, crashes>>

\* Mutant: a save that fails is passed over.
SaveLost(r) ==
    /\ pc[r] = "save"
    /\ record' \in {record, [state[r] EXCEPT !.nodes = record.nodes]}
    /\ stale' = Working
    /\ Goto(r, "checkpoint")
    /\ UNCHANGED <<lock, after, state, step, task, object, outcome, journal,
                   effects, asked, checkpoint, known, crashes>>

\* save_state: what the state holds replaces what a fresh read of the job holds.
Save(r) ==
    /\ pc[r] = "save"
    /\ record' = [state[r] EXCEPT !.nodes = record.nodes]
    /\ stale' = Working
    /\ Goto(r, "checkpoint")
    /\ UNCHANGED <<lock, after, state, step, task, object, outcome, journal,
                   effects, asked, checkpoint, known, crashes>>

Admit(r) ==
    /\ pc[r] = "admit"
    /\ state' = [state EXCEPT ![r] = record]
    /\ Goto(r, "execute")
    /\ UNCHANGED <<record, lock, after, step, taskVars, journal, effects, asked,
                   checkpoint, known, crashes>>

\* STEP_CAPACITY_UNAVAILABLE.
NoCapacity(r) ==
    /\ pc[r] = "admit"
    /\ Persist(r, Reverted(record, step[r], {KeyOf[r]}), "done")
    /\ UNCHANGED <<record, lock, step, taskVars, journal, effects, asked, checkpoint,
                   known, crashes>>

\* step_started is sent and the node task created, with a Job object of its own.
Execute(r) ==
    /\ pc[r] = "execute"
    /\ task' = [task EXCEPT ![r] = "coordinate"]
    /\ object' = [object EXCEPT ![r] = record]
    /\ stale' = stale \ {r}
    /\ Goto(r, "wait")
    /\ UNCHANGED <<record, lock, after, state, step, outcome, journal, effects, asked,
                   checkpoint, known, crashes>>

Reload(r) ==
    /\ pc[r] = "wait"
    /\ task[r] = "ended"
    /\ state' = [state EXCEPT ![r] = record]
    /\ Goto(r, "settle")
    /\ UNCHANGED <<record, lock, after, step, taskVars, journal, effects, asked,
                   checkpoint, known, crashes>>

NeedsApproval(r) ==
    outcome[r] = "waiting_approval" \/ state[r].status = "waiting_approval"

\* handle_task_escalation, for the first escalated node.  A request for approval
\* waits for it, or fails the job if it does not name a tool and a fingerprint;
\* a node that escalated otherwise may also end the job with a question, or give
\* a signal that is no task's and is left alone.
Escalated(job) ==
    LET E == {s \in Steps : job.nodes[s].status = "escalated"} IN
    IF E = {} THEN {job}
    ELSE {[job EXCEPT !.status = "waiting_approval",
                      !.nodes[First(E)].status = "pending",
                      !.nodes[First(E)].gate = "awaiting"],
          [job EXCEPT !.status = "failed"]}
         \cup IF job.nodes[First(E)].effect = "pending" THEN {}
              ELSE {job, [job EXCEPT !.status = "completed"]}

Escalate(r) ==
    /\ pc[r] = "settle"
    /\ NeedsApproval(r)
    /\ \E job \in Escalated(record) :
         /\ record' = job
         /\ Persist(r, SettledApproval(job, step[r]), "done")
    /\ stale' = Working
    /\ UNCHANGED <<lock, step, task, object, outcome, journal, effects, asked,
                   checkpoint, known, crashes>>

\* Mutant: a step that lacks its resources is given up.
SettledUnsaved(job, s, result) ==
    CASE result = "failed" -> SettledFailure(job, s)
      [] result = "waiting_resources" -> job
      [] OTHER -> SettledSuccess(job, s)

\* _settle: whatever has not failed and waits for nothing is a success.
Settled(job, s, result) ==
    CASE result = "failed" -> SettledFailure(job, s)
      [] result = "waiting_resources" -> Reverted(job, s, {})
      [] OTHER -> SettledSuccess(job, s)

Settle(r) ==
    /\ pc[r] = "settle"
    /\ ~NeedsApproval(r)
    /\ Persist(r, Settled(state[r], step[r], outcome[r]), "done")
    /\ UNCHANGED <<record, lock, step, taskVars, journal, effects, asked, checkpoint,
                   known, crashes>>

(* ------------------------------- execute_step -------------------------- *)

\* _merge_conflict, for an object that is behind the record.
Merge(current, incoming) ==
    [incoming EXCEPT
        !.status = IF current.status = "cancelled" THEN "cancelled" ELSE @,
        !.nodes = [s \in Steps |->
            LET saved == current.nodes[s]
                mine == incoming.nodes[s]
            IN  IF \/ saved.status \in Protected /\ mine.status \notin Protected
                   \/ current.status = "cancelled" /\ mine.status \notin Protected
                THEN saved ELSE mine]]

\* The task changes its Job object and saves it; others are behind now.  The
\* object is forgotten with the last save.
SaveObject(e, job) ==
    LET merged == IF e \in stale THEN Merge(record, job) ELSE job IN
    /\ record' = merged
    /\ object' = [object EXCEPT ![e] = IF task[e] = "report" THEN NewJob ELSE merged]
    /\ stale' = Working \ {e}

Continue(e, stage) == task' = [task EXCEPT ![e] = stage]

Ends(e, result) ==
    /\ outcome' = [outcome EXCEPT ![e] = result]
    /\ Continue(e, "report")

\* Mutant: the journal is not asked.
CoordinateUnguarded(e) ==
    /\ task[e] = "coordinate"
    /\ journal' = IF step[e] \in Effectful
                  THEN [journal EXCEPT ![step[e]] = "pending"] ELSE journal
    /\ Continue(e, "running")
    /\ UNCHANGED <<record, lock, pc, after, state, step, object, stale, outcome,
                   effects, asked, checkpoint, known, crashes>>

\* write_coordination_available and effect_guard.reserve.
Coordinate(e) ==
    /\ task[e] = "coordinate"
    /\ \/ /\ "waiting_resources" \in Outcomes
          /\ Ends(e, "waiting_resources")
          /\ UNCHANGED journal
       \/ /\ step[e] \in Effectful
          /\ journal[step[e]] = "confirmed"
          /\ Ends(e, "completed")
          /\ UNCHANGED journal
       \/ /\ step[e] \in Effectful
          /\ journal[step[e]] \in {"pending", "uncertain"}
          /\ Ends(e, "failed")
          /\ UNCHANGED journal
       \/ /\ step[e] \notin Effectful \/ journal[step[e]] = "none"
          /\ journal' = IF step[e] \in Effectful
                        THEN [journal EXCEPT ![step[e]] = "pending"] ELSE journal
          /\ Continue(e, "running")
          /\ UNCHANGED outcome
    /\ UNCHANGED <<record, lock, pc, after, state, step, object, stale, effects, asked,
                   checkpoint, known, crashes>>

\* on_running.
Running(e) ==
    /\ task[e] = "running"
    /\ SaveObject(e, [object[e] EXCEPT !.nodes[step[e]].status = "running"])
    /\ Continue(e, "act")
    /\ UNCHANGED <<lock, pc, after, state, step, outcome, journal, effects, asked,
                   checkpoint, known, crashes>>

\* The worker ends.  A node that lost its resources has had no effect; one that
\* failed may have had it, and so may one that asks for approval: the body of a
\* workflow calls several tools.  Only a node with an effect waits for approval
\* here; the others escalate.
Act(e) ==
    LET s == step[e]
        Once == IF s \in Effectful THEN 1 ELSE 0
    IN
    /\ task[e] = "act"
    /\ \E result \in Outcomes, times \in {0, Once} :
         /\ outcome' = [outcome EXCEPT ![e] = result]
         /\ result = "completed" => times = Once
         /\ result = "waiting_resources" => times = 0
         /\ result = "waiting_approval" => s \in Effectful
         /\ effects' = [effects EXCEPT ![s] = @ + times]
         /\ asked' = IF result = "waiting_approval"
                     THEN [asked EXCEPT ![s] = @ + times] ELSE asked
    /\ Continue(e, "record")
    /\ UNCHANGED <<record, lock, pc, after, state, step, object, stale, journal,
                   checkpoint, known, crashes>>

\* confirm, abandon_pending or mark_uncertain.
Record(e) ==
    /\ task[e] = "record"
    /\ journal' = IF step[e] \notin Effectful THEN journal
                  ELSE [journal EXCEPT ![step[e]] =
                          CASE outcome[e] = "completed" -> "confirmed"
                            [] outcome[e] \in {"failed", "escalated"} -> "uncertain"
                            [] OTHER -> "none"]
    /\ Continue(e, "report")
    /\ UNCHANGED <<record, lock, pc, after, state, step, object, stale, outcome,
                   effects, asked, checkpoint, known, crashes>>

\* effect_status of the outcome.
EffectOf(s, result) ==
    IF s \notin Effectful THEN "none"
    ELSE CASE result = "completed" -> "committed"
           [] result \in {"failed", "escalated"} -> "uncertain"
           [] result = "waiting_approval" -> "pending"
           [] OTHER -> "none"

\* _apply_result.
Applied(job, s, result) ==
    CASE result = "waiting_approval" ->
             [job EXCEPT !.nodes[s].status = "escalated",
                         !.nodes[s].effect = EffectOf(s, result),
                         !.status = "waiting_approval"]
      [] result = "waiting_resources" ->
             [job EXCEPT !.nodes[s].status = "pending",
                         !.status = "waiting_resources"]
      [] OTHER ->
             [job EXCEPT !.nodes[s].status = result,
                         !.nodes[s].effect = EffectOf(s, result)]

Report(e) ==
    /\ task[e] = "report"
    /\ SaveObject(e, Applied(object[e], step[e], outcome[e]))
    /\ Continue(e, "ended")
    /\ UNCHANGED <<lock, pc, after, state, step, outcome, journal, effects, asked,
                   checkpoint, known, crashes>>

(* ------------------------------- checkpoints --------------------------- *)

StateForStep(status) == IF status = "pending" THEN "planned" ELSE status

Terminal == {"completed", "failed"}
STATE_RANK == [planned |-> 0, running |-> 2, waiting_approval |-> 3,
               completed |-> 4, failed |-> 4]

CanTransition(from, to) ==
    \/ from = to
    \/ from = "planned" /\ to \in {"running", "waiting_approval"}
    \/ from = "running" /\ to \in {"waiting_approval"} \cup Terminal
    \/ from = "waiting_approval" /\ to \in {"running"} \cup Terminal

\* is_regression and assert_transition; a step without checkpoint is planned.
Advances(current, target) ==
    LET from == IF current.state = "none" THEN "planned" ELSE current.state IN
    STATE_RANK[target] >= STATE_RANK[from] /\ CanTransition(from, target)

\* Versions are told apart as far as the plan's revision only.
Advanced(current, target, effect) ==
    [state |-> target, effect |-> effect,
     version |-> IF current.version < PlanRevision THEN current.version + 1
                 ELSE current.version]

\* _record_step_checkpoints: every step is recorded, or the write of it fails.
Checkpoint(r) ==
    LET target == [s \in Steps |-> StateForStep(state[r].steps[s])] IN
    /\ pc[r] = "checkpoint"
    /\ \E Failed \in IF "put" \in Faults THEN SUBSET Steps ELSE {{}} :
         LET new == [s \in Steps |->
                        IF s \in Failed \/ ~Advances(known[s], target[s]) THEN known[s]
                        ELSE Advanced(known[s], target[s], record.nodes[s].effect)]
         IN  /\ checkpoint' = [s \in Steps |-> IF new[s] = known[s]
                                               THEN checkpoint[s] ELSE new[s]]
             /\ known' = new
    /\ IF after[r] = "done" THEN Leave(r)
       ELSE Goto(r, after[r]) /\ UNCHANGED <<lock, state>>
    /\ UNCHANGED <<record, after, step, taskVars, journal, effects, asked, crashes>>

(* -------------------------------- recovery ----------------------------- *)

\* checkpoint_is_stale drops the checkpoints an older plan left.
Current == {s \in Steps : checkpoint[s].version >= PlanRevision
                            \/ \E t \in Steps : checkpoint[t].version >= PlanRevision}

\* Unfinished: those whose checkpoint, and it is there, is not settled.
Unfinished == {s \in Current : checkpoint[s].state \notin Terminal \cup {"none"}}

\* _effect_status_of: the journal is looked up by the step's idempotency key in
\* a map keyed by effect_key.  No row is found, and the checkpoint alone counts.
EffectStatus(s) == checkpoint[s].effect

\* plan_resume: of the unfinished steps, those without an effect are run again and
\* those with a confirmed one, which no checkpoint says, are skipped.  The steps
\* that could be reconciled are passed by idempotency key and looked up by step
\* id, so that none is found: the rest pauses.
Skipped == {s \in Unfinished : EffectStatus(s) = "confirmed"}
Rescheduled == {s \in Unfinished : EffectStatus(s) = "none"}
Paused == Unfinished \ (Skipped \cup Rescheduled)

(* ---------------------------- control and faults ----------------------- *)

Closed(node) ==
    [node EXCEPT !.status = CASE @ = "pending" -> "cancelled"
                              [] @ = "running" -> "interrupted"
                              [] OTHER -> @]

\* legacy.cancel; a job run by steps has no coroutine to stop.
Cancel ==
    /\ "cancel" \in Faults
    /\ record.status \notin Ended
    /\ record' = [record EXCEPT
         !.status = "cancelled",
         !.nodes = [s \in Steps |-> Closed(record.nodes[s])]]
    /\ stale' = Working
    /\ UNCHANGED <<lock, pc, after, state, step, task, object, outcome, journal,
                   effects, asked, checkpoint, known, crashes>>

\* ApprovalService.resolve and _park_plan_step_approval.
Approve(s) ==
    /\ record.nodes[s].gate = "awaiting"
    /\ record.canonical = "waiting_approval"
    /\ record' = [record EXCEPT !.nodes[s].status = "pending",
                                !.nodes[s].gate = "confirmed",
                                !.status = "pending",
                                !.canonical = "waiting_next"]
    /\ stale' = Working
    /\ UNCHANGED <<lock, pc, after, state, step, task, object, outcome, journal,
                   effects, asked, checkpoint, known, crashes>>

\* Refused, or overdue: the gate stays on the node.
Reject(s) ==
    /\ record.nodes[s].gate = "awaiting"
    /\ record.canonical = "waiting_approval"
    /\ record' = [record EXCEPT !.nodes[s].status = "skipped", !.status = "failed"]
    /\ stale' = Working
    /\ UNCHANGED <<lock, pc, after, state, step, task, object, outcome, journal,
                   effects, asked, checkpoint, known, crashes>>

Active(r) == pc[r] \notin {"idle", "done"}

\* The connection closes: the stream is gone, its node task is not.
Disconnect(r) ==
    /\ "disconnect" \in Faults
    /\ Active(r)
    /\ Leave(r)
    /\ UNCHANGED <<record, after, step, taskVars, journal, effects, asked, checkpoint,
                   known, crashes>>

Crash ==
    /\ crashes < MaxCrashes
    /\ crashes' = crashes + 1
    /\ lock' = "none"
    /\ pc' = [r \in Requests |-> IF Active(r) THEN "done" ELSE pc[r]]
    /\ task' = [e \in Requests |-> IF e \in Working THEN "lost" ELSE task[e]]
    /\ known' = [s \in Steps |-> NoCheckpoint]
    /\ state' = [r \in Requests |-> NewJob]
    /\ object' = [r \in Requests |-> NewJob]
    /\ stale' = {}
    /\ UNCHANGED <<record, after, step, outcome, journal, effects, asked, checkpoint>>

\* The sweep of a starting process closes what no task is working on.
Sweep(s) ==
    /\ journal[s] = "pending"
    /\ \A e \in Working : step[e] # s
    /\ journal' = [journal EXCEPT ![s] = "uncertain"]
    /\ UNCHANGED <<record, lock, pc, after, state, step, taskVars, effects, asked,
                   checkpoint, known, crashes>>

Stream(r) ==
    Busy(r) \/ Refuse(r) \/ Begin(r) \/ Save(r) \/ Checkpoint(r) \/ Admit(r)
        \/ NoCapacity(r) \/ Execute(r) \/ Reload(r) \/ Escalate(r) \/ Settle(r)

Task(e) == Coordinate(e) \/ Running(e) \/ Act(e) \/ Record(e) \/ Report(e)

Next ==
    \/ \E r \in Requests : Stream(r) \/ Task(r) \/ Disconnect(r)
    \/ \E s \in Steps : Approve(s) \/ Reject(s) \/ Sweep(s)
    \/ Cancel
    \/ Crash

\* The event loop goes on with streams and tasks; a request may never come, and
\* nobody has to approve, cancel or restart.
Fairness ==
    \A r \in Requests : /\ WF_vars(pc[r] # "idle" /\ Stream(r))
                        /\ WF_vars(Task(r))

Spec == Init /\ [][Next]_vars /\ Fairness

(* ------------------------------- properties ---------------------------- *)

JobType ==
    [status : {"pending", "running", "waiting_approval", "waiting_resources"} \cup Ended,
     canonical : RESUME_ALLOWED_STATES \cup {"waiting_approval", "completed", "failed"},
     index : 1..Count + 1,
     steps : [Steps -> StepStatus],
     keys : SUBSET Keys,
     nodes : [Steps -> [status : {"pending", "running", "completed", "failed",
                                  "escalated", "skipped", "cancelled", "interrupted"},
                        gate : {"none", "awaiting", "confirmed"},
                        effect : {"none", "pending", "committed", "uncertain"}]]]

CheckpointType ==
    [state : {"none", "planned", "running", "waiting_approval"} \cup Terminal,
     version : 0..PlanRevision,
     effect : {"none", "pending", "committed", "uncertain"}]

\* Types of the state; the checkpoint of a step that was written has a state.
TypeOK ==
    /\ record \in JobType
    /\ lock \in Requests \cup {"none"}
    /\ pc \in [Requests -> {"idle", "save", "checkpoint", "admit", "execute",
                            "wait", "settle", "done"}]
    /\ after \in [Requests -> {"none", "admit", "done"}]
    /\ state \in [Requests -> JobType]
    /\ step \in [Requests -> Steps \cup {None}]
    /\ task \in [Requests -> {"none", "coordinate", "running", "act", "record",
                              "report", "ended", "lost"}]
    /\ object \in [Requests -> JobType]
    /\ stale \subseteq Requests
    /\ outcome \in [Requests -> Outcomes \cup {"none", "completed", "failed"}]
    /\ journal \in [Steps -> {"none", "pending", "confirmed", "uncertain"}]
    /\ effects \in [Steps -> Nat]
    /\ asked \in [Steps -> Nat]
    /\ checkpoint \in [Steps -> CheckpointType]
    /\ known \in [Steps -> CheckpointType]
    /\ crashes \in 0..MaxCrashes

\* However often a step is run again, after a lost connection, a restart or a
\* cancel, its effect takes place at most once, and once more for each time it
\* took place before an approval was asked for.
EffectsOnce == \A s \in Steps : effects[s] <= 1 + asked[s]

\* No key starts two node tasks, whatever became of the first one's stream.
KeysRunOnce ==
    \A r, q \in Requests :
        r # q /\ KeyOf[r] = KeyOf[q] => task[r] = "none" \/ task[q] = "none"

\* A checkpoint never concludes what the job does not: a step the recovery plan
\* takes for completed is completed in the record.
CheckpointNeverAhead ==
    \A s \in Steps : checkpoint[s].state = "completed" => record.steps[s] = "completed"

\* The record implements the sequence of steps.
Sequence ==
    INSTANCE StepSequence WITH
        done <- {s \in Steps : record.steps[s] = "completed"},
        current <- {s \in Steps : record.steps[s] = "running"}

\* Steps are taken in order, one at a time, and a completed step stays so.
StepsInOrder == Sequence!Spec

\* A step marked running is settled or given back, unless the process died.
StepsSettle ==
    record.canonical = "running_step" ~>
        record.canonical # "running_step" \/ crashes > 0

\* What a recovery plan would run again has had no effect, and what it skips has
\* had it.  It does not hold: section 4 of the README.
RecoveryIsSafe ==
    /\ \A s \in Rescheduled : effects[s] = 0
    /\ \A s \in Skipped : effects[s] > 0

\* An ended job stays as it ended.  It does not hold: section 4 of the README.
EndedIsFinal ==
    [][record.status \in Ended => record'.status = record.status]_vars

===============================================================================
