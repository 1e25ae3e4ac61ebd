---------------------------- MODULE StepRun_proofs ----------------------------
(***************************************************************************)
(* Proofs about StepRun, for every plan, every set of requests and keys,   *)
(* every way a node may end and every number of restarts: the variables    *)
(* keep their types, and an effect takes place at most once more than      *)
(* before approvals were asked for.  As long as no connection closes under *)
(* a running step, a key starts one task at most, the steps are taken in   *)
(* order as StepSequence says, and no checkpoint is ahead of the record.   *)
(***************************************************************************)
EXTENDS StepRun, WellFoundedInduction, TLAPS

(* ------------------------------- the state ----------------------------- *)

NodeType ==
    [status : {"pending", "running", "completed", "failed",
               "escalated", "skipped", "cancelled", "interrupted"},
     gate : {"none", "awaiting", "confirmed"},
     effect : {"none", "pending", "committed", "uncertain"}]

\* A set of steps has a first one, and First finds it.
LEMMA FirstIsIn ==
    ASSUME NEW S \in SUBSET Steps, S # {}
    PROVE  First(S) \in S /\ \A t \in S : First(S) <= t
<1> DEFINE Less == {p \in Nat \X Nat : p[1] < p[2]}
<1>1. IsWellFoundedOn(Less, Nat)
    BY NatLessThanWellFounded, Zenon DEF OpToRel
<1>2. S \subseteq Nat
    BY CountAssumption DEF Steps
<1>3. PICK s \in S : \A t \in S : ~(<<t, s>> \in Less)
    BY <1>1, <1>2, WFMin, Zenon
<1>4. ASSUME NEW t \in S PROVE s <= t
    <2>1. t < s => <<t, s>> \in Less
        BY <1>2
    <2> QED
        BY <1>2, <1>3, <2>1
<1> QED
    BY <1>4 DEF First

LEMMA NewJobType == NewJob \in JobType
BY CountAssumption DEF NewJob, NewNode, JobType, RESUME_ALLOWED_STATES, StepStatus, Steps

LEMMA MarkedType ==
    ASSUME NEW job \in JobType, NEW s \in Steps, NEW k \in Keys
    PROVE  Marked(job, s, k) \in JobType
<1>1. s \in 1..Count + 1
    BY CountAssumption DEF Steps
<1>2. [job.steps EXCEPT ![s] = "running"] \in [Steps -> StepStatus]
    BY DEF JobType, StepStatus
<1>3. Marked(job, s, k) =
          [job EXCEPT !.keys = job.keys \cup {k}, !.canonical = "running_step", !.index = s,
                      !.status = IF job.status \in {"pending", "waiting_resources"}
                                 THEN "running" ELSE job.status,
                      !.steps = [job.steps EXCEPT ![s] = "running"]]
    BY Zenon DEF Marked
<1>4. job.keys \cup {k} \in SUBSET Keys
    BY DEF JobType
<1> DEFINE steps == [job.steps EXCEPT ![s] = "running"]
           keys == job.keys \cup {k}
<1> HIDE DEF steps, keys
<1> QED
    BY <1>1, <1>2, <1>3, <1>4 DEF JobType, RESUME_ALLOWED_STATES, steps, keys

LEMMA RevertedType ==
    ASSUME NEW job \in JobType, NEW s \in Steps, NEW keys
    PROVE  Reverted(job, s, keys) \in JobType
BY DEF Reverted, JobType, RESUME_ALLOWED_STATES, StepStatus

LEMMA SettledApprovalType ==
    ASSUME NEW job \in JobType, NEW s \in Steps
    PROVE  SettledApproval(job, s) \in JobType
BY DEF SettledApproval, JobType, StepStatus

LEMMA SettledFailureType ==
    ASSUME NEW job \in JobType, NEW s \in Steps
    PROVE  SettledFailure(job, s) \in JobType
BY DEF SettledFailure, JobType, StepStatus, Ended

LEMMA SettledSuccessType ==
    ASSUME NEW job \in JobType, NEW s \in Steps
    PROVE  SettledSuccess(job, s) \in JobType
<1> DEFINE steps == [job.steps EXCEPT ![s] = "completed"]
           Waiting == {t \in Steps : steps[t] \in {"pending", "waiting_approval"}}
           Later == {t \in Waiting : t > s}
           next == IF Later = {} THEN s + 1 ELSE First(Later)
<1>1. steps \in [Steps -> StepStatus]
    BY DEF JobType, StepStatus
<1>2. next \in 1..Count + 1
    <2>1. Later # {} => First(Later) \in Steps
        BY FirstIsIn
    <2> QED
        BY <2>1, CountAssumption DEF Steps
<1>3. Count + 1 \in 1..Count + 1
    BY CountAssumption
<1>4. CASE Waiting = {}
    <2>1. SettledSuccess(job, s) =
              [job EXCEPT !.steps = steps, !.canonical = "completed",
                          !.status = "completed", !.index = Count + 1]
        BY <1>4 DEF SettledSuccess
    <2> HIDE DEF steps
    <2> QED
        BY <1>1, <1>3, <2>1 DEF JobType, Ended
<1>5. CASE Waiting # {}
    <2>1. SettledSuccess(job, s) =
              [job EXCEPT !.steps = steps, !.canonical = "waiting_next",
                          !.status = "pending", !.index = next]
        BY <1>5 DEF SettledSuccess
    <2> HIDE DEF steps, next
    <2> QED
        BY <1>1, <1>2, <2>1 DEF JobType, RESUME_ALLOWED_STATES
<1> QED
    BY <1>4, <1>5

LEMMA SettledType ==
    ASSUME NEW job \in JobType, NEW s \in Steps, NEW result
    PROVE  Settled(job, s, result) \in JobType
BY SettledFailureType, RevertedType, SettledSuccessType DEF Settled

LEMMA AskingType ==
    ASSUME NEW job \in JobType, NEW f \in Steps
    PROVE  [job EXCEPT !.status = "waiting_approval",
                       !.nodes[f].status = "pending", !.nodes[f].gate = "awaiting"] \in JobType
<1> DEFINE node == [job.nodes[f] EXCEPT !.status = "pending", !.gate = "awaiting"]
           nodes == [job.nodes EXCEPT ![f] = node]
<1>1. job.nodes \in [Steps -> NodeType]
    BY DEF JobType, NodeType
<1>2. node \in NodeType
    BY <1>1 DEF NodeType
<1>3. nodes \in [Steps -> NodeType]
    BY <1>1, <1>2
<1>4. [job EXCEPT !.status = "waiting_approval",
                  !.nodes[f].status = "pending", !.nodes[f].gate = "awaiting"]
        = [job EXCEPT !.status = "waiting_approval", !.nodes = nodes]
    BY <1>1 DEF JobType
<1> HIDE DEF nodes
<1>5. [job EXCEPT !.status = "waiting_approval", !.nodes = nodes] \in JobType
    BY <1>3 DEF JobType, NodeType
<1> QED
    BY <1>4, <1>5, Zenon

LEMMA EscalatedType ==
    ASSUME NEW job \in JobType, NEW new \in Escalated(job)
    PROVE  new \in JobType
<1> DEFINE E == {s \in Steps : job.nodes[s].status = "escalated"}
<1>1. CASE E = {}
    BY <1>1 DEF Escalated
<1>2. CASE E # {}
    <2> DEFINE f == First(E)
               asking == [job EXCEPT !.status = "waiting_approval",
                                     !.nodes[f].status = "pending",
                                     !.nodes[f].gate = "awaiting"]
               failed == [job EXCEPT !.status = "failed"]
               ended == [job EXCEPT !.status = "completed"]
    <2>0. f \in Steps
        BY <1>2, FirstIsIn
    <2>1. new \in {asking, failed} \cup (IF job.nodes[f].effect = "pending" THEN {}
                                        ELSE {job, ended})
        BY <1>2, Zenon DEF Escalated
    <2>4. asking \in JobType
        BY <2>0, AskingType, Zenon
    <2>2. failed \in JobType
        BY DEF JobType, Ended
    <2>3. ended \in JobType
        BY DEF JobType, Ended
    <2> HIDE DEF asking, failed, ended
    <2> QED
        BY <2>1, <2>2, <2>3, <2>4
<1> QED
    BY <1>1, <1>2

LEMMA MergeType ==
    ASSUME NEW current \in JobType, NEW incoming \in JobType
    PROVE  Merge(current, incoming) \in JobType
BY DEF Merge, JobType, Ended

LEMMA AppliedType ==
    ASSUME NEW job \in JobType, NEW s \in Steps,
           NEW result \in Outcomes \cup {"completed", "failed"}
    PROVE  Applied(job, s, result) \in JobType
<1> DEFINE node == [job.nodes[s] EXCEPT
                       !.status = CASE result = "waiting_approval" -> "escalated"
                                    [] result = "waiting_resources" -> "pending"
                                    [] OTHER -> result,
                       !.effect = IF result = "waiting_resources" THEN @
                                  ELSE EffectOf(s, result)]
           status == CASE result = "waiting_approval" -> "waiting_approval"
                       [] result = "waiting_resources" -> "waiting_resources"
                       [] OTHER -> job.status
<1>1. EffectOf(s, result) \in {"none", "pending", "committed", "uncertain"}
    BY DEF EffectOf
<1>2. result \in {"completed", "failed", "waiting_approval", "waiting_resources", "escalated"}
    BY OutcomesAssumption
<1>3. job.nodes \in [Steps -> NodeType]
    BY DEF JobType, NodeType
<1>4. node \in NodeType
    BY <1>1, <1>2, <1>3 DEF NodeType
<1>5. Applied(job, s, result) = [job EXCEPT !.status = status,
                                            !.nodes = [job.nodes EXCEPT ![s] = node]]
    BY <1>2, <1>3 DEF Applied, JobType, NodeType
<1>6. [job.nodes EXCEPT ![s] = node] \in [Steps -> NodeType]
    BY <1>3, <1>4
<1> HIDE DEF node
<1> QED
    BY <1>5, <1>6 DEF JobType, NodeType

LEMMA NodeOf ==
    ASSUME NEW job \in JobType, NEW s \in Steps
    PROVE  job.nodes[s] \in NodeType
BY DEF JobType, NodeType

LEMMA NodesKept ==
    ASSUME NEW job \in JobType, NEW saved \in JobType
    PROVE  [job EXCEPT !.nodes = saved.nodes] \in JobType
BY DEF JobType

LEMMA NodeSet ==
    ASSUME NEW job \in JobType, NEW s \in Steps, NEW node \in NodeType
    PROVE  [job EXCEPT !.nodes = [job.nodes EXCEPT ![s] = node]] \in JobType
<1>1. [job.nodes EXCEPT ![s] = node] \in [Steps -> NodeType]
    BY DEF JobType, NodeType
<1> DEFINE nodes == [job.nodes EXCEPT ![s] = node]
<1> HIDE DEF nodes
<1> QED
    BY <1>1 DEF JobType, NodeType, nodes

(* ------------------------------- invariants ---------------------------- *)

\* A request that has begun knows its step, and where it continues; a task
\* that has ended knows how.
Located ==
    \A r \in Requests :
        /\ pc[r] = "idle" => task[r] = "none"
        /\ Active(r) \/ task[r] # "none" => step[r] # None
        /\ pc[r] \in {"save", "checkpoint"} => after[r] # "none"
        /\ task[r] \in {"record", "report"} => outcome[r] # "none"

\* A task that has its step's effect in hand.
Holding(e) == task[e] \in {"running", "act", "record"} /\ step[e] \in Effectful

\* One task at most has the effect of a step in hand.
OneHolder ==
    \A e, d \in Requests : e # d /\ Holding(e) /\ Holding(d) => step[e] # step[d]

\* While it has, the row says so.
HolderHasRow ==
    \A e \in Requests : Holding(e) =>
        /\ journal[step[e]] = "pending"
        /\ task[e] \in {"running", "act"} => effects[step[e]] = asked[step[e]]
        /\ task[e] = "record" =>
             /\ outcome[e] = "completed" => effects[step[e]] = 1 + asked[step[e]]
             /\ outcome[e] \in {"waiting_approval", "waiting_resources"} =>
                    effects[step[e]] = asked[step[e]]

\* What the row of a step says of its effect.
RowsAreTrue ==
    \A s \in Steps :
        /\ asked[s] <= effects[s] /\ effects[s] <= 1 + asked[s]
        /\ journal[s] = "none" => effects[s] = asked[s]
        /\ journal[s] = "confirmed" => effects[s] = 1 + asked[s]
        /\ s \notin Effectful => journal[s] = "none"

JournalInv == OneHolder /\ HolderHasRow /\ RowsAreTrue

StepInv == TypeOK /\ Located /\ JournalInv

LEMMA InitHolds == Init => StepInv
<1> SUFFICES ASSUME Init PROVE StepInv
    OBVIOUS
<1>1. TypeOK
    BY NewJobType, CrashesAssumption, PlanRevisionAssumption
    DEF Init, TypeOK, CheckpointType, NoCheckpoint
<1> QED
    BY <1>1 DEF Init, StepInv, Located, JournalInv, OneHolder, HolderHasRow, RowsAreTrue,
                Holding, Active

(* --------------------- steps of the stream: types ---------------------- *)

\* The step of a request that has begun.
LEMMA StepIsOne ==
    ASSUME TypeOK, Located, NEW r \in Requests, Active(r) \/ task[r] # "none"
    PROVE  step[r] \in Steps
BY DEF TypeOK, Located, None

LEMMA FirstCandidate ==
    ASSUME Candidates(record) # {}
    PROVE  First(Candidates(record)) \in Steps
<1>1. Candidates(record) \in SUBSET Steps
    BY DEF Candidates
<1>2. First(Candidates(record)) \in Candidates(record)
    BY <1>1, FirstIsIn
<1> QED
    BY <1>1, <1>2

LEMMA StreamTypes ==
    ASSUME TypeOK, Located, NEW r \in Requests, Stream(r)
    PROVE  TypeOK' /\ Located'
<1> DEFINE Key == KeyOf[r]
<1>0. Key \in Keys
    BY DEF Keys
<1>1. CASE Busy(r)
    BY <1>1 DEF Busy, Goto, TypeOK, Located, taskVars, Active
<1>2. CASE Refuse(r)
    BY <1>2 DEF Refuse, Goto, TypeOK, Located, taskVars, Active
<1>3. CASE Begin(r)
    <2> DEFINE s == First(Candidates(record))
    <2>1. s \in Steps
        BY <1>3, FirstCandidate DEF Begin
    <2>2. Marked(record, s, Key) \in JobType
        BY <1>0, <2>1, MarkedType DEF TypeOK
    <2>3. s # None
        BY <2>1, CountAssumption DEF Steps, None
    <2>4. /\ step' = [step EXCEPT ![r] = s]
          /\ state' = [state EXCEPT ![r] = Marked(record, s, Key)]
          /\ after' = [after EXCEPT ![r] = "admit"]
          /\ pc' = [pc EXCEPT ![r] = "save"]
          /\ lock' = r
          /\ UNCHANGED <<record, taskVars, journal, effects, asked, checkpoint, known, crashes>>
        BY <1>3 DEF Begin, Persist, Goto
    <2> HIDE DEF s
    <2> QED
        BY <2>1, <2>2, <2>3, <2>4 DEF TypeOK, Located, taskVars, Active
<1>4. CASE Save(r)
    <2>1. record' \in JobType
        BY <1>4, NodesKept DEF Save, TypeOK
    <2>2. stale' \subseteq Requests
        BY <1>4 DEF Save, Working
    <2> QED
        BY <1>4, <2>1, <2>2 DEF Save, Goto, TypeOK, Located, Active
<1>5. CASE Checkpoint(r)
    <2> DEFINE target == [s \in Steps |-> StateForStep(state[r].steps[s])]
    <2>1. PICK Failed :
              LET new == [s \in Steps |->
                        IF s \in Failed \/ ~Advances(known[s], target[s]) THEN known[s]
                        ELSE Advanced(known[s], target[s], record.nodes[s].effect)]
              IN  /\ checkpoint' = [s \in Steps |-> IF new[s] = known[s]
                                               THEN checkpoint[s] ELSE new[s]]
                  /\ known' = new
        BY <1>5 DEF Checkpoint
    <2>2. ASSUME NEW s \in Steps
          PROVE  Advanced(known[s], target[s], record.nodes[s].effect) \in CheckpointType
        <3>1. target[s] \in {"planned", "running", "waiting_approval"} \cup Terminal
            BY DEF TypeOK, JobType, StateForStep, StepStatus, Terminal
        <3>2. record.nodes[s].effect \in {"none", "pending", "committed", "uncertain"}
            BY DEF TypeOK, JobType
        <3>3. known[s].version \in 0..PlanRevision
            BY DEF TypeOK, CheckpointType
        <3>4. (IF known[s].version < PlanRevision THEN known[s].version + 1
               ELSE known[s].version) \in 0..PlanRevision
            BY <3>3, PlanRevisionAssumption
        <3> HIDE DEF target
        <3> QED
            BY <3>1, <3>2, <3>4 DEF Advanced, CheckpointType
    <2>3. known' \in [Steps -> CheckpointType] /\ checkpoint' \in [Steps -> CheckpointType]
        BY <2>1, <2>2 DEF TypeOK
    <2>4. /\ pc[r] = "checkpoint"
          /\ pc' = [pc EXCEPT ![r] = after[r]]
          /\ lock' \in {lock, "none"}
          /\ state' \in {state, [state EXCEPT ![r] = NewJob]}
          /\ UNCHANGED <<record, after, step, taskVars, journal, effects, asked, crashes>>
        BY <1>5 DEF Checkpoint, Leave, Goto
    <2>5. after[r] \in {"admit", "done"}
        BY <2>4 DEF TypeOK, Located
    <2> QED
        BY <2>3, <2>4, <2>5, NewJobType DEF TypeOK, Located, taskVars, Active
<1>6. CASE Admit(r)
    BY <1>6 DEF Admit, Goto, TypeOK, Located, taskVars, Active
<1>7. CASE NoCapacity(r)
    <2>1. step[r] \in Steps
        BY <1>7, StepIsOne DEF NoCapacity, Active
    <2>2. Reverted(record, step[r], {Key}) \in JobType
        BY <2>1, RevertedType DEF TypeOK
    <2> QED
        BY <1>7, <2>2 DEF NoCapacity, Persist, Goto, TypeOK, Located, taskVars, Active
<1>8. CASE Execute(r)
    BY <1>8 DEF Execute, Goto, TypeOK, Located, Active
<1>9. CASE Reload(r)
    BY <1>9 DEF Reload, Goto, TypeOK, Located, taskVars, Active
<1>10. CASE Escalate(r)
    <2>1. step[r] \in Steps
        BY <1>10, StepIsOne DEF Escalate, Active
    <2>2. PICK job \in Escalated(record) :
              record' = job /\ Persist(r, SettledApproval(job, step[r]), "done")
        BY <1>10 DEF Escalate
    <2>3. job \in JobType
        BY EscalatedType DEF TypeOK
    <2>4. SettledApproval(job, step[r]) \in JobType
        BY <2>1, <2>3, SettledApprovalType
    <2>5. stale' \subseteq Requests
        BY <1>10 DEF Escalate, Working
    <2> QED
        BY <1>10, <2>2, <2>3, <2>4, <2>5 DEF Escalate, Persist, Goto, TypeOK, Located, Active
<1>11. CASE Settle(r)
    <2>1. step[r] \in Steps
        BY <1>11, StepIsOne DEF Settle, Active
    <2>2. Settled(state[r], step[r], outcome[r]) \in JobType
        BY <2>1, SettledType DEF TypeOK
    <2> QED
        BY <1>11, <2>2 DEF Settle, Persist, Goto, TypeOK, Located, taskVars, Active
<1> QED
    BY <1>1, <1>2, <1>3, <1>4, <1>5, <1>6, <1>7, <1>8, <1>9, <1>10, <1>11 DEF Stream

(* ---------------- steps of the task and control: types ----------------- *)

LEMMA SaveObjectTypes ==
    ASSUME TypeOK, NEW e \in Requests, NEW job \in JobType, SaveObject(e, job)
    PROVE  /\ record' \in JobType
           /\ object' \in [Requests -> JobType]
           /\ stale' \subseteq Requests
<1> DEFINE merged == IF e \in stale THEN Merge(record, job) ELSE job
<1>1. merged \in JobType
    BY MergeType DEF TypeOK
<1>2. /\ record' = merged
      /\ object' = [object EXCEPT ![e] = IF task[e] = "report" THEN NewJob ELSE merged]
      /\ stale' = Working \ {e}
    BY DEF SaveObject
<1> HIDE DEF merged
<1> QED
    BY <1>1, <1>2, NewJobType DEF TypeOK, Working

LEMMA TaskTypes ==
    ASSUME TypeOK, Located, NEW e \in Requests, Task(e)
    PROVE  TypeOK' /\ Located'
<1>1. CASE Coordinate(e)
    BY <1>1, OutcomesAssumption
    DEF Coordinate, Ends, Continue, TypeOK, Located, Active
<1>2. CASE Running(e)
    <2>1. step[e] \in Steps
        BY <1>2, StepIsOne DEF Running
    <2> DEFINE node == [object[e].nodes[step[e]] EXCEPT !.status = "running"]
               job == [object[e] EXCEPT !.nodes[step[e]].status = "running"]
    <2>2. node \in NodeType
        <3>1. object[e].nodes[step[e]] \in NodeType
            BY <2>1, NodeOf DEF TypeOK
        <3> QED
            BY <3>1 DEF NodeType
    <2>3. job = [object[e] EXCEPT !.nodes = [object[e].nodes EXCEPT ![step[e]] = node]]
        BY <2>1, Zenon
    <2>4. job \in JobType
        BY <2>1, <2>2, <2>3, NodeSet DEF TypeOK
    <2> HIDE DEF job
    <2>5. SaveObject(e, job)
        BY <1>2 DEF Running, job
    <2> QED
        BY <1>2, <2>4, <2>5, SaveObjectTypes DEF Running, Continue, TypeOK, Located, Active
<1>3. CASE Act(e)
    <2>1. step[e] \in Steps
        BY <1>3, StepIsOne DEF Act
    <2> DEFINE s == step[e]
               Once == IF s \in Effectful THEN 1 ELSE 0
    <2>2. PICK result \in Outcomes, times \in {0, Once} :
              /\ outcome' = [outcome EXCEPT ![e] = result]
              /\ effects' = [effects EXCEPT ![s] = @ + times]
              /\ asked' = IF result = "waiting_approval"
                          THEN [asked EXCEPT ![s] = @ + times] ELSE asked
        BY <1>3 DEF Act
    <2>3. times \in Nat
        OBVIOUS
    <2>4. /\ task[e] = "act"
          /\ task' = [task EXCEPT ![e] = "record"]
          /\ UNCHANGED <<record, lock, pc, after, state, step, object, stale, journal,
                         checkpoint, known, crashes>>
        BY <1>3 DEF Act, Continue
    <2>5. effects' \in [Steps -> Nat] /\ asked' \in [Steps -> Nat]
        BY <2>1, <2>2, <2>3 DEF TypeOK
    <2>6. result # "none"
        BY OutcomesAssumption
    <2> QED
        BY <2>2, <2>4, <2>5, <2>6 DEF TypeOK, Located, Active
<1>4. CASE Record(e)
    <2>1. journal' \in [Steps -> {"none", "pending", "confirmed", "uncertain"}]
        BY <1>4 DEF Record, TypeOK
    <2> QED
        BY <1>4, <2>1 DEF Record, Continue, TypeOK, Located, Active
<1>5. CASE Report(e)
    <2> DEFINE job == Applied(object[e], step[e], outcome[e])
    <2>1. step[e] \in Steps
        BY <1>5, StepIsOne DEF Report
    <2>2. job \in JobType
        BY <1>5, <2>1, AppliedType DEF Report, TypeOK, Located
    <2> HIDE DEF job
    <2>3. SaveObject(e, job)
        BY <1>5 DEF Report, job
    <2> QED
        BY <1>5, <2>2, <2>3, SaveObjectTypes DEF Report, Continue, TypeOK, Located, Active
<1> QED
    BY <1>1, <1>2, <1>3, <1>4, <1>5 DEF Task

LEMMA ControlTypes ==
    ASSUME TypeOK, Located,
           \/ \E r \in Requests : Disconnect(r)
           \/ \E s \in Steps : Approve(s) \/ Reject(s) \/ Sweep(s)
           \/ Cancel \/ Crash
    PROVE  TypeOK' /\ Located'
<1>1. ASSUME NEW r \in Requests, Disconnect(r) PROVE TypeOK' /\ Located'
    BY <1>1, NewJobType DEF Disconnect, Leave, Goto, TypeOK, Located, taskVars, Active
<1>2. ASSUME NEW s \in Steps, Approve(s) PROVE TypeOK' /\ Located'
    <2> DEFINE node == [record.nodes[s] EXCEPT !.status = "pending", !.gate = "confirmed"]
               nodes == [record.nodes EXCEPT ![s] = node]
    <2>1. record.nodes[s] \in NodeType /\ record.nodes \in [Steps -> NodeType]
        BY NodeOf DEF TypeOK, JobType, NodeType
    <2>2. nodes \in [Steps -> NodeType]
        <3>1. node \in NodeType
            BY <2>1 DEF NodeType
        <3> QED
            BY <2>1, <3>1
    <2>3. record' = [record EXCEPT !.nodes = nodes, !.status = "pending",
                                !.canonical = "waiting_next"]
        <3>1. record' = [record EXCEPT !.nodes[s].status = "pending",
                                       !.nodes[s].gate = "confirmed",
                                       !.status = "pending",
                                       !.canonical = "waiting_next"]
            BY <1>2, Zenon DEF Approve
        <3>2. record \in JobType
            BY DEF TypeOK
        <3> QED
            BY <2>1, <3>1, <3>2 DEF JobType
    <2> HIDE DEF nodes
    <2>4. record' \in JobType
        BY <2>2, <2>3 DEF TypeOK, JobType, NodeType, RESUME_ALLOWED_STATES, Ended
    <2> QED
        BY <1>2, <2>4 DEF Approve, TypeOK, Located, Active, Working
<1>3. ASSUME NEW s \in Steps, Reject(s) PROVE TypeOK' /\ Located'
    <2> DEFINE node == [record.nodes[s] EXCEPT !.status = "skipped"]
               nodes == [record.nodes EXCEPT ![s] = node]
    <2>1. record.nodes[s] \in NodeType /\ record.nodes \in [Steps -> NodeType]
        BY NodeOf DEF TypeOK, JobType, NodeType
    <2>2. nodes \in [Steps -> NodeType]
        <3>1. node \in NodeType
            BY <2>1 DEF NodeType
        <3> QED
            BY <2>1, <3>1
    <2>3. record' = [record EXCEPT !.nodes = nodes, !.status = "failed"]
        BY <1>3, <2>1 DEF Reject, TypeOK, JobType, NodeType
    <2> HIDE DEF nodes
    <2>4. record' \in JobType
        BY <2>2, <2>3 DEF TypeOK, JobType, NodeType, RESUME_ALLOWED_STATES, Ended
    <2> QED
        BY <1>3, <2>4 DEF Reject, TypeOK, Located, Active, Working
<1>4. ASSUME NEW s \in Steps, Sweep(s) PROVE TypeOK' /\ Located'
    BY <1>4 DEF Sweep, TypeOK, Located, taskVars, Active
<1>5. CASE Cancel
    <2> DEFINE nodes == [s \in Steps |-> Closed(record.nodes[s])]
    <2>1. nodes \in [Steps -> NodeType]
        <3>1. ASSUME NEW n \in NodeType PROVE Closed(n) \in NodeType
            BY DEF NodeType, Closed
        <3> QED
            BY <3>1, NodeOf DEF TypeOK
    <2>2. record' = [record EXCEPT !.status = "cancelled", !.nodes = nodes]
        BY <1>5, Zenon DEF Cancel
    <2> HIDE DEF nodes
    <2>3. record' \in JobType
        BY <2>1, <2>2 DEF TypeOK, JobType, NodeType, Ended
    <2> QED
        BY <1>5, <2>3 DEF Cancel, TypeOK, Located, Active, Working
<1>6. CASE Crash
    <2>1. crashes' \in 0..MaxCrashes
        BY <1>6, CrashesAssumption DEF Crash, TypeOK
    <2>2. NoCheckpoint \in CheckpointType
        BY PlanRevisionAssumption DEF NoCheckpoint, CheckpointType
    <2> QED
        BY <1>6, <2>1, <2>2, NewJobType DEF Crash, TypeOK, Located, Active, Working
<1> QED
    BY <1>1, <1>2, <1>3, <1>4, <1>5, <1>6

(* ------------------------ effects and their rows ----------------------- *)

LEMMA JournalKept ==
    ASSUME JournalInv, UNCHANGED <<task, step, outcome, journal, effects, asked>>
    PROVE  JournalInv'
BY DEF JournalInv, OneHolder, HolderHasRow, RowsAreTrue, Holding

\* Those that hold an effect now held it before, and nothing of theirs changed.
LEMMA FewerHolders ==
    ASSUME JournalInv, UNCHANGED <<journal, effects, asked>>,
           \A e \in Requests : Holding(e)' =>
               /\ Holding(e) /\ step'[e] = step[e] /\ outcome'[e] = outcome[e]
               /\ task[e] = "record" <=> task'[e] = "record"
    PROVE  JournalInv'
<1>1. OneHolder'
    BY DEF JournalInv, OneHolder
<1>2. HolderHasRow'
    BY DEF JournalInv, HolderHasRow, Holding
<1>3. RowsAreTrue'
    BY DEF JournalInv, RowsAreTrue
<1> QED
    BY <1>1, <1>2, <1>3 DEF JournalInv

LEMMA StreamJournal ==
    ASSUME StepInv, NEW r \in Requests, Stream(r)
    PROVE  JournalInv'
<1> USE DEF StepInv
<1>1. CASE Begin(r)
    <2>1. task[r] = "none" /\ UNCHANGED <<task, outcome, journal, effects, asked>>
          /\ \A e \in Requests : e # r => step'[e] = step[e]
        BY <1>1 DEF Begin, Located, taskVars, TypeOK
    <2> QED
        BY <2>1, FewerHolders DEF Holding
<1>2. CASE Execute(r)
    <2>1. /\ task' = [task EXCEPT ![r] = "coordinate"]
          /\ UNCHANGED <<step, outcome, journal, effects, asked>>
        BY <1>2 DEF Execute
    <2> QED
        BY <2>1, FewerHolders DEF Holding, TypeOK
<1>3. CASE Busy(r) \/ Refuse(r) \/ Save(r) \/ Checkpoint(r) \/ Admit(r)
              \/ NoCapacity(r) \/ Reload(r) \/ Escalate(r) \/ Settle(r)
    <2>1. UNCHANGED <<task, step, outcome, journal, effects, asked>>
        BY <1>3 DEF Busy, Refuse, Save, Checkpoint, Admit, NoCapacity, Reload, Escalate,
                    Settle, taskVars
    <2> QED
        BY <2>1, JournalKept
<1> QED
    BY <1>1, <1>2, <1>3 DEF Stream

LEMMA TaskJournal ==
    ASSUME StepInv, NEW e \in Requests, Task(e)
    PROVE  JournalInv'
<1> USE DEF StepInv
<1>1. task[e] # "none" /\ step[e] \in Steps
    BY StepIsOne DEF Task, Coordinate, Running, Act, Record, Report
<1>2. \A d \in Requests : Holding(d) => step[d] \in Steps
    BY StepIsOne DEF Holding
<1>3. CASE Coordinate(e)
    <2>1. UNCHANGED <<step, effects, asked>> /\ task[e] = "coordinate"
        BY <1>3 DEF Coordinate
    <2>2. CASE UNCHANGED journal /\ task' = [task EXCEPT ![e] = "report"]
               /\ \A d \in Requests : d # e => outcome'[d] = outcome[d]
        BY <2>1, <2>2, FewerHolders DEF Holding, TypeOK
    <2>3. CASE /\ step[e] \notin Effectful \/ journal[step[e]] = "none"
               /\ journal' = IF step[e] \in Effectful
                             THEN [journal EXCEPT ![step[e]] = "pending"] ELSE journal
               /\ task' = [task EXCEPT ![e] = "running"]
               /\ UNCHANGED outcome
        <3>1. CASE step[e] \notin Effectful
            BY <2>1, <2>3, <3>1, FewerHolders DEF Holding, TypeOK
        <3>2. CASE step[e] \in Effectful
            <4>1. journal' = [journal EXCEPT ![step[e]] = "pending"]
                  /\ journal[step[e]] = "none" /\ effects[step[e]] = asked[step[e]]
                BY <1>1, <2>3, <3>2 DEF JournalInv, RowsAreTrue
            <4>2. \A d \in Requests : Holding(d) => step[d] # step[e]
                BY <4>1 DEF JournalInv, HolderHasRow
            <4>3. \A d \in Requests : d # e => (Holding(d)' <=> Holding(d)) /\ task'[d] = task[d]
                BY <2>1, <2>3 DEF Holding, TypeOK
            <4>4. OneHolder'
                BY <2>1, <4>2, <4>3 DEF JournalInv, OneHolder
            <4>5. HolderHasRow'
                BY <1>1, <1>2, <2>1, <2>3, <4>1, <4>2, <4>3
                DEF JournalInv, HolderHasRow, TypeOK
            <4>6. RowsAreTrue'
                BY <2>1, <3>2, <4>1 DEF JournalInv, RowsAreTrue, TypeOK
            <4> QED
                BY <4>4, <4>5, <4>6 DEF JournalInv
        <3> QED
            BY <3>1, <3>2
    <2> QED
        BY <1>3, <2>2, <2>3 DEF Coordinate, Ends, Continue, TypeOK
<1>4. CASE Running(e)
    BY <1>4, FewerHolders DEF Running, Continue, Holding, TypeOK
<1>5. CASE Act(e)
    <2> DEFINE s == step[e]
               Once == IF s \in Effectful THEN 1 ELSE 0
    <2>1. /\ task[e] = "act" /\ task' = [task EXCEPT ![e] = "record"]
          /\ UNCHANGED <<step, journal>>
        BY <1>5 DEF Act, Continue
    <2>2. PICK result \in Outcomes, times \in {0, Once} :
              /\ outcome' = [outcome EXCEPT ![e] = result]
              /\ result = "completed" => times = Once
              /\ result = "waiting_resources" => times = 0
              /\ effects' = [effects EXCEPT ![s] = @ + times]
              /\ asked' = IF result = "waiting_approval"
                          THEN [asked EXCEPT ![s] = @ + times] ELSE asked
        BY <1>5 DEF Act
    <2>3. CASE s \notin Effectful
        <3>1. times = 0
            BY <2>3
        <3>2. effects' = effects /\ asked' = asked
            BY <1>1, <2>2, <3>1 DEF TypeOK
        <3> QED
            BY <2>1, <2>2, <2>3, <3>2, FewerHolders DEF Holding, TypeOK
    <2>4. CASE s \in Effectful
        <3>1. Holding(e) /\ journal[s] = "pending" /\ effects[s] = asked[s]
            BY <2>1, <2>4 DEF Holding, JournalInv, HolderHasRow
        <3>2. \A t \in Steps : t # s => effects'[t] = effects[t] /\ asked'[t] = asked[t]
            BY <1>1, <2>2 DEF TypeOK
        <3>3. /\ effects'[s] \in {asked'[s], 1 + asked'[s]} /\ asked'[s] \in Nat
              /\ result = "completed" => effects'[s] = 1 + asked'[s]
              /\ result \in {"waiting_approval", "waiting_resources"} =>
                     effects'[s] = asked'[s]
            <4>1. effects[s] \in Nat /\ asked[s] \in Nat /\ times \in {0, 1}
                BY <1>1 DEF TypeOK
            <4>2. /\ effects'[s] = effects[s] + times
                  /\ asked'[s] = IF result = "waiting_approval" THEN asked[s] + times
                                 ELSE asked[s]
                BY <1>1, <2>2 DEF TypeOK
            <4>3. /\ result = "completed" => times = 1
                  /\ result = "waiting_resources" => times = 0
                BY <2>2, <2>4
            <4> QED
                BY <3>1, <4>1, <4>2, <4>3
        <3>4. \A d \in Requests : (Holding(d)' <=> Holding(d))
                                  /\ (d # e => task'[d] = task[d] /\ outcome'[d] = outcome[d])
            BY <2>1, <2>2 DEF Holding, TypeOK
        <3>5. \A d \in Requests : d # e /\ Holding(d) => step[d] # s
            BY <3>1 DEF JournalInv, OneHolder
        <3>6. OneHolder'
            BY <2>1, <3>4 DEF JournalInv, OneHolder
        <3>7. HolderHasRow'
            <4> SUFFICES ASSUME NEW d \in Requests, Holding(d)
                         PROVE  /\ journal[step[d]] = "pending"
                                /\ task'[d] \in {"running", "act"} =>
                                       effects'[step[d]] = asked'[step[d]]
                                /\ task'[d] = "record" =>
                                    /\ outcome'[d] = "completed" =>
                                           effects'[step[d]] = 1 + asked'[step[d]]
                                    /\ outcome'[d] \in {"waiting_approval", "waiting_resources"} =>
                                           effects'[step[d]] = asked'[step[d]]
                BY <2>1, <3>4 DEF HolderHasRow
            <4>1. CASE d = e
                BY <2>1, <2>2, <3>1, <3>3, <4>1 DEF TypeOK
            <4>2. CASE d # e
                BY <1>2, <3>2, <3>4, <3>5, <4>2 DEF JournalInv, HolderHasRow
            <4> QED
                BY <4>1, <4>2
        <3>8. RowsAreTrue'
            <4> SUFFICES ASSUME NEW t \in Steps
                         PROVE  /\ asked'[t] <= effects'[t] /\ effects'[t] <= 1 + asked'[t]
                                /\ journal[t] = "none" => effects'[t] = asked'[t]
                                /\ journal[t] = "confirmed" => effects'[t] = 1 + asked'[t]
                                /\ t \notin Effectful => journal[t] = "none"
                BY <2>1 DEF RowsAreTrue
            <4>1. CASE t = s
                BY <2>4, <3>1, <3>3, <4>1
            <4>2. CASE t # s
                BY <3>2, <4>2 DEF JournalInv, RowsAreTrue
            <4> QED
                BY <4>1, <4>2
        <3> QED
            BY <3>6, <3>7, <3>8 DEF JournalInv
    <2> QED
        BY <2>3, <2>4
<1>6. CASE Record(e)
    <2> DEFINE s == step[e]
    <2>1. /\ task[e] = "record" /\ task' = [task EXCEPT ![e] = "report"]
          /\ UNCHANGED <<step, outcome, effects, asked>>
        BY <1>6 DEF Record, Continue
    <2>2. CASE s \notin Effectful
        <3>1. UNCHANGED journal
            BY <1>6, <2>2 DEF Record
        <3> QED
            BY <2>1, <2>2, <3>1, FewerHolders DEF Holding, TypeOK
    <2>3. CASE s \in Effectful
        <3>1. Holding(e)
            BY <2>1, <2>3 DEF Holding
        <3>2. \A d \in Requests : Holding(d)' => Holding(d) /\ d # e /\ task'[d] = task[d]
            BY <2>1 DEF Holding, TypeOK
        <3>3. \A d \in Requests : Holding(d)' => step[d] # s
            BY <3>1, <3>2 DEF JournalInv, OneHolder
        <3>4. \A t \in Steps : t # s => journal'[t] = journal[t]
            BY <1>6 DEF Record, TypeOK
        <3>5. /\ outcome[e] = "completed" => effects[s] = 1 + asked[s]
              /\ outcome[e] \in {"waiting_approval", "waiting_resources"} =>
                     effects[s] = asked[s]
            BY <2>1, <3>1 DEF JournalInv, HolderHasRow
        <3>6. journal'[s] = CASE outcome[e] = "completed" -> "confirmed"
                              [] outcome[e] \in {"failed", "escalated"} -> "uncertain"
                              [] OTHER -> "none"
            BY <1>1, <1>6, <2>3 DEF Record, TypeOK
        <3>7. outcome[e] \in {"completed", "failed", "waiting_approval", "waiting_resources",
                              "escalated"}
            BY <2>1, OutcomesAssumption DEF TypeOK, Located
        <3>8. /\ journal'[s] = "none" => effects[s] = asked[s]
              /\ journal'[s] = "confirmed" => effects[s] = 1 + asked[s]
            BY <3>5, <3>6, <3>7
        <3>9. OneHolder'
            BY <2>1, <3>2 DEF JournalInv, OneHolder
        <3>10. HolderHasRow'
            BY <1>2, <2>1, <3>2, <3>3, <3>4 DEF JournalInv, HolderHasRow
        <3>11. RowsAreTrue'
            BY <2>1, <2>3, <3>4, <3>8 DEF JournalInv, RowsAreTrue
        <3> QED
            BY <3>9, <3>10, <3>11 DEF JournalInv
    <2> QED
        BY <2>2, <2>3
<1>7. CASE Report(e)
    BY <1>7, FewerHolders DEF Report, Continue, Holding, TypeOK
<1> QED
    BY <1>3, <1>4, <1>5, <1>6, <1>7 DEF Task

LEMMA ControlJournal ==
    ASSUME StepInv,
           \/ \E r \in Requests : Disconnect(r)
           \/ \E s \in Steps : Approve(s) \/ Reject(s) \/ Sweep(s)
           \/ Cancel \/ Crash
    PROVE  JournalInv'
<1> USE DEF StepInv
<1>1. ASSUME NEW s \in Steps, Sweep(s) PROVE JournalInv'
    <2>1. /\ journal[s] = "pending" /\ journal' = [journal EXCEPT ![s] = "uncertain"]
          /\ UNCHANGED <<task, step, outcome, effects, asked>>
        BY <1>1 DEF Sweep, taskVars
    <2>2. \A e \in Requests : Holding(e) => step[e] # s
        BY <1>1 DEF Sweep, Working, Holding
    <2>3. OneHolder'
        BY <2>1 DEF JournalInv, OneHolder, Holding
    <2>4. HolderHasRow'
        BY <2>1, <2>2 DEF JournalInv, HolderHasRow, Holding, TypeOK
    <2>5. RowsAreTrue'
        BY <2>1 DEF JournalInv, RowsAreTrue, TypeOK
    <2> QED
        BY <2>3, <2>4, <2>5 DEF JournalInv
<1>2. CASE Crash
    <2>1. \A e \in Requests : ~Holding(e)'
        BY <1>2 DEF Crash, Holding, Working, TypeOK
    <2>2. UNCHANGED <<journal, effects, asked>>
        BY <1>2 DEF Crash
    <2> QED
        BY <2>1, <2>2, FewerHolders
<1>3. CASE \/ \E r \in Requests : Disconnect(r)
           \/ \E s \in Steps : Approve(s) \/ Reject(s)
           \/ Cancel
    <2>1. UNCHANGED <<task, step, outcome, journal, effects, asked>>
        BY <1>3 DEF Disconnect, Approve, Reject, Cancel, taskVars
    <2> QED
        BY <2>1, JournalKept
<1> QED
    BY <1>1, <1>2, <1>3

(* ------------------------------- theorems ------------------------------ *)

LEMMA StepInvKept == StepInv /\ [Next]_vars => StepInv'
<1> SUFFICES ASSUME StepInv, [Next]_vars PROVE StepInv'
    OBVIOUS
<1>1. CASE UNCHANGED vars
    <2>1. JournalInv'
        BY <1>1, JournalKept DEF vars, taskVars, StepInv
    <2>2. TypeOK' /\ Located'
        BY <1>1 DEF vars, taskVars, StepInv, TypeOK, Located, Active
    <2> QED
        BY <2>1, <2>2 DEF StepInv
<1>2. ASSUME NEW r \in Requests, Stream(r) PROVE StepInv'
    BY <1>2, StreamTypes, StreamJournal DEF StepInv
<1>3. ASSUME NEW e \in Requests, Task(e) PROVE StepInv'
    BY <1>3, TaskTypes, TaskJournal DEF StepInv
<1>4. CASE \/ \E r \in Requests : Disconnect(r)
           \/ \E s \in Steps : Approve(s) \/ Reject(s) \/ Sweep(s)
           \/ Cancel \/ Crash
    BY <1>4, ControlTypes, ControlJournal DEF StepInv
<1> QED
    BY <1>1, <1>2, <1>3, <1>4 DEF Next

LEMMA StepInvHolds == Spec => []StepInv
<1> QED
    BY InitHolds, StepInvKept, PTL DEF Spec

\* The variables keep their types, for every plan and every set of faults.
THEOREM TypeCorrect == Spec => []TypeOK
<1>1. StepInv => TypeOK
    BY DEF StepInv
<1> QED
    BY <1>1, StepInvHolds, PTL

\* However often a step is run again, after whatever faults and restarts, its
\* effect takes place at most once more than before approvals were asked for.
THEOREM EffectsHappenOnce == Spec => []EffectsOnce
<1>1. StepInv => EffectsOnce
    BY DEF StepInv, JournalInv, RowsAreTrue, EffectsOnce
<1> QED
    BY <1>1, StepInvHolds, PTL

(* ------------------------------ keys and lock -------------------------- *)

\* The keys of all that have started a task are in the job.
HasKeys(job) == \A q \in Requests : task[q] # "none" => KeyOf[q] \in job.keys

\* Begun, and its task not yet started.
Early(r) == \/ pc[r] \in {"admit", "execute"}
            \/ pc[r] \in {"save", "checkpoint"} /\ after[r] = "admit"

\* The lock's holder is the only stream, and waits while its task works.
OneStream ==
    /\ \A r \in Requests : Active(r) => lock = r
    /\ \A e \in Working : pc[e] = "wait"

\* No copy of the job that may be saved lacks a key.
KeysKept ==
    /\ HasKeys(record)
    /\ \A r \in Requests : pc[r] \in {"save", "settle"} => HasKeys(state[r])
    /\ \A e \in Working : HasKeys(object[e])

\* A request that begins has a key of its own, and the job gets it.
NewKey ==
    \A r \in Requests : Early(r) =>
        /\ task[r] = "none"
        /\ \A q \in Requests : task[q] # "none" => KeyOf[q] # KeyOf[r]
        /\ KeyOf[r] \in (IF pc[r] = "save" THEN state[r] ELSE record).keys

KeyInv == OneStream /\ KeysKept /\ NewKey /\ KeysRunOnce

LEMMA KeysOfMerge ==
    ASSUME NEW current \in JobType, NEW incoming \in JobType
    PROVE  Merge(current, incoming).keys = incoming.keys
BY DEF Merge, JobType

LEMMA KeysOfEscalated ==
    ASSUME NEW job \in JobType, NEW new \in Escalated(job)
    PROVE  new.keys = job.keys
BY DEF Escalated, JobType

LEMMA KeysOfSettled ==
    ASSUME NEW job \in JobType, NEW s \in Steps, NEW result
    PROVE  /\ Settled(job, s, result).keys = job.keys
           /\ SettledApproval(job, s).keys = job.keys
<1>1. SettledFailure(job, s).keys = job.keys /\ SettledApproval(job, s).keys = job.keys
    BY DEF SettledFailure, SettledApproval, JobType
<1>2. Reverted(job, s, {}).keys = job.keys
    BY DEF Reverted, JobType
<1>3. SettledSuccess(job, s).keys = job.keys
    BY DEF SettledSuccess, JobType
<1> QED
    BY <1>1, <1>2, <1>3 DEF Settled

LEMMA KeysOfApplied ==
    ASSUME NEW job \in JobType, NEW s \in Steps, NEW result
    PROVE  Applied(job, s, result).keys = job.keys
BY DEF Applied, JobType

\* Steps that leave streams, tasks and keys alone.
LEMMA SameKeys ==
    ASSUME KeyInv, UNCHANGED <<lock, pc, after, task, state, object>>,
           record'.keys = record.keys
    PROVE  KeyInv'
BY DEF KeyInv, OneStream, KeysKept, NewKey, KeysRunOnce, HasKeys, Early, Active, Working

LEMMA StreamKeys ==
    ASSUME StepInv, KeyInv, NEW r \in Requests, Stream(r)
    PROVE  KeyInv'
<1> USE DEF KeyInv, StepInv
<1>1. ASSUME Active(r) PROVE \A q \in Requests : Active(q) => q = r
    BY <1>1 DEF OneStream
<1>2. ASSUME pc[r] \notin {"idle", "done", "wait"} PROVE Working = {}
    BY <1>1, <1>2 DEF OneStream, Active, Working
<1>3. CASE Busy(r) \/ Refuse(r)
    <2>1. /\ pc[r] = "idle" /\ pc' = [pc EXCEPT ![r] = "done"]
          /\ UNCHANGED <<record, lock, after, state, task, object>>
        BY <1>3 DEF Busy, Refuse, Goto, taskVars
    <2> QED
        BY <2>1 DEF OneStream, KeysKept, NewKey, KeysRunOnce, HasKeys, Early, Active,
                    Working, TypeOK
<1>4. CASE Begin(r)
    <2> DEFINE s == First(Candidates(record))
               job == Marked(record, s, KeyOf[r])
    <2>1. /\ pc[r] = "idle" /\ lock = "none" /\ lock' = r
          /\ KeyOf[r] \notin record.keys
          /\ pc' = [pc EXCEPT ![r] = "save"]
          /\ after' = [after EXCEPT ![r] = "admit"]
          /\ state' = [state EXCEPT ![r] = job]
          /\ UNCHANGED <<record, task, object>>
        BY <1>4 DEF Begin, Allowed, Persist, Goto, taskVars
    <2>2. job.keys = record.keys \cup {KeyOf[r]}
        BY DEF Marked, TypeOK, JobType
    <2> HIDE DEF job
    <2>3. \A q \in Requests : ~Active(q)
        BY <2>1, RequestsAssumption DEF OneStream
    <2>4. task[r] = "none" /\ \A q \in Requests : task[q] # "none" => KeyOf[q] # KeyOf[r]
        BY <2>1 DEF Located, KeysKept, HasKeys
    <2>5. OneStream'
        BY <2>1, <2>3 DEF OneStream, Active, Working, TypeOK
    <2>6. KeysKept'
        BY <2>1, <2>2, <2>3 DEF KeysKept, HasKeys, Active, Working, TypeOK
    <2>7. NewKey'
        BY <2>1, <2>2, <2>3, <2>4 DEF NewKey, Early, Active, TypeOK
    <2>8. KeysRunOnce'
        BY <2>1 DEF KeysRunOnce
    <2> QED
        BY <2>5, <2>6, <2>7, <2>8
<1>5. CASE Save(r)
    <2>1. /\ pc[r] = "save" /\ pc' = [pc EXCEPT ![r] = "checkpoint"]
          /\ record'.keys = state[r].keys
          /\ UNCHANGED <<lock, after, state, task, object>>
        BY <1>5 DEF Save, Goto, TypeOK, JobType
    <2>2. Active(r) /\ Working = {} /\ Working' = {}
        BY <1>2, <2>1 DEF Active, Working
    <2>3. OneStream'
        BY <2>1, <2>2 DEF OneStream, Active, TypeOK
    <2>4. KeysKept'
        BY <1>1, <2>1, <2>2 DEF KeysKept, HasKeys, Active, TypeOK
    <2>5. NewKey'
        BY <1>1, <2>1, <2>2 DEF NewKey, Early, Active, TypeOK
    <2> QED
        BY <2>1, <2>3, <2>4, <2>5 DEF KeysRunOnce
<1>6. CASE Checkpoint(r)
    <2>1. /\ pc[r] = "checkpoint" /\ pc' = [pc EXCEPT ![r] = after[r]]
          /\ lock' = IF after[r] = "done" THEN "none" ELSE lock
          /\ \A q \in Requests : q # r => state'[q] = state[q]
          /\ UNCHANGED <<record, after, task, object>>
        BY <1>6 DEF Checkpoint, Leave, Goto, taskVars, TypeOK
    <2>2. Active(r) /\ Working = {} /\ Working' = {} /\ after[r] \in {"admit", "done"}
        BY <1>2, <2>1 DEF Active, Working, TypeOK, Located
    <2>3. OneStream'
        BY <1>1, <2>1, <2>2 DEF OneStream, Active, TypeOK
    <2>4. KeysKept'
        BY <1>1, <2>1, <2>2 DEF KeysKept, HasKeys, Active, TypeOK
    <2>5. NewKey'
        BY <1>1, <2>1, <2>2 DEF NewKey, Early, Active, TypeOK
    <2> QED
        BY <2>1, <2>3, <2>4, <2>5 DEF KeysRunOnce
<1>7. CASE Admit(r)
    <2>1. /\ pc[r] = "admit" /\ pc' = [pc EXCEPT ![r] = "execute"]
          /\ UNCHANGED <<record, lock, after, task, object>>
        BY <1>7 DEF Admit, Goto, taskVars
    <2>2. Active(r) /\ Working = {} /\ Working' = {}
        BY <1>2, <2>1 DEF Active, Working
    <2>3. OneStream'
        BY <1>1, <2>1, <2>2 DEF OneStream, Active, TypeOK
    <2>4. KeysKept'
        BY <1>1, <2>1, <2>2 DEF KeysKept, HasKeys, Active, TypeOK
    <2>5. NewKey'
        BY <1>1, <2>1, <2>2 DEF NewKey, Early, Active, TypeOK
    <2> QED
        BY <2>1, <2>3, <2>4, <2>5 DEF KeysRunOnce
<1>8. CASE NoCapacity(r)
    <2> DEFINE job == Reverted(record, step[r], {KeyOf[r]})
    <2>1. /\ pc[r] = "admit" /\ pc' = [pc EXCEPT ![r] = "save"]
          /\ after' = [after EXCEPT ![r] = "done"]
          /\ state' = [state EXCEPT ![r] = job]
          /\ UNCHANGED <<record, lock, task, object>>
        BY <1>8 DEF NoCapacity, Persist, Goto, taskVars
    <2>2. job.keys = record.keys \ {KeyOf[r]}
        BY DEF Reverted, TypeOK, JobType
    <2> HIDE DEF job
    <2>3. Active(r) /\ Early(r) /\ Working = {} /\ Working' = {}
        BY <1>2, <2>1 DEF Active, Early, Working
    <2>4. HasKeys(job)
        BY <2>2, <2>3 DEF KeysKept, HasKeys, NewKey
    <2>5. OneStream'
        BY <1>1, <2>1, <2>3 DEF OneStream, Active, TypeOK
    <2>6. KeysKept'
        BY <1>1, <2>1, <2>3, <2>4 DEF KeysKept, HasKeys, Active, TypeOK
    <2>7. NewKey'
        BY <1>1, <2>1, <2>3 DEF NewKey, Early, Active, TypeOK
    <2> QED
        BY <2>1, <2>5, <2>6, <2>7 DEF KeysRunOnce
<1>9. CASE Execute(r)
    <2>1. /\ pc[r] = "execute" /\ pc' = [pc EXCEPT ![r] = "wait"]
          /\ task' = [task EXCEPT ![r] = "coordinate"]
          /\ object' = [object EXCEPT ![r] = record]
          /\ UNCHANGED <<record, lock, after, state>>
        BY <1>9 DEF Execute, Goto
    <2>2. Active(r) /\ Early(r) /\ Working = {} /\ Working' \subseteq {r}
        BY <1>2, <2>1 DEF Active, Early, Working, TypeOK
    <2>3. OneStream'
        BY <1>1, <2>1, <2>2 DEF OneStream, Active, TypeOK
    <2>4. HasKeys(record)'
        BY <2>1, <2>2 DEF KeysKept, HasKeys, NewKey, TypeOK
    <2>5. KeysKept'
        BY <1>1, <2>1, <2>2, <2>4 DEF KeysKept, HasKeys, Active, TypeOK
    <2>6. NewKey'
        BY <1>1, <2>1, <2>2 DEF NewKey, Early, Active, TypeOK
    <2>7. KeysRunOnce'
        BY <2>1, <2>2 DEF KeysRunOnce, NewKey, TypeOK
    <2> QED
        BY <2>3, <2>5, <2>6, <2>7
<1>10. CASE Reload(r)
    <2>1. /\ pc[r] = "wait" /\ task[r] = "ended" /\ pc' = [pc EXCEPT ![r] = "settle"]
          /\ state' = [state EXCEPT ![r] = record]
          /\ UNCHANGED <<record, lock, after, task, object>>
        BY <1>10 DEF Reload, Goto, taskVars
    <2>2. Active(r) /\ Working = {} /\ Working' = {}
        BY <1>1, <2>1 DEF OneStream, Active, Working
    <2>3. OneStream'
        BY <1>1, <2>1, <2>2 DEF OneStream, Active, TypeOK
    <2>4. KeysKept'
        BY <1>1, <2>1, <2>2 DEF KeysKept, HasKeys, Active, TypeOK
    <2>5. NewKey'
        BY <1>1, <2>1, <2>2 DEF NewKey, Early, Active, TypeOK
    <2> QED
        BY <2>1, <2>3, <2>4, <2>5 DEF KeysRunOnce
<1>11. CASE Escalate(r) \/ Settle(r)
    <2>1. pc[r] = "settle" /\ Active(r)
        BY <1>11 DEF Escalate, Settle, Active
    <2>2. step[r] \in Steps
        BY <2>1, StepIsOne
    <2>3. Working = {} /\ \A q \in Requests : Active(q) => q = r
        BY <1>1, <1>2, <2>1
    <2>4. record'.keys = record.keys
        BY <1>11, KeysOfEscalated DEF Escalate, Settle, TypeOK
    <2>5. PICK job : /\ HasKeys(job)
                     /\ pc' = [pc EXCEPT ![r] = "save"]
                     /\ after' = [after EXCEPT ![r] = "done"]
                     /\ state' = [state EXCEPT ![r] = job]
                     /\ UNCHANGED <<lock, task, object>>
        <3>1. CASE Escalate(r)
            <4>1. PICK old \in Escalated(record) :
                      Persist(r, SettledApproval(old, step[r]), "done")
                BY <3>1 DEF Escalate
            <4> DEFINE job == SettledApproval(old, step[r])
            <4>2. job.keys = record.keys
                <5>1. old \in JobType /\ old.keys = record.keys
                    BY EscalatedType, KeysOfEscalated DEF TypeOK
                <5> QED
                    BY <2>2, <5>1, KeysOfSettled
            <4>3. HasKeys(job)
                BY <4>2 DEF KeysKept, HasKeys
            <4> QED
                BY <3>1, <4>1, <4>3 DEF Escalate, Persist, Goto
        <3>2. CASE Settle(r)
            <4> DEFINE job == Settled(state[r], step[r], outcome[r])
            <4>1. job.keys = state[r].keys
                BY <2>2, KeysOfSettled DEF TypeOK
            <4>2. HasKeys(job)
                BY <2>1, <4>1 DEF KeysKept, HasKeys
            <4> QED
                BY <3>2, <4>2 DEF Settle, Persist, Goto, taskVars
        <3> QED
            BY <1>11, <3>1, <3>2
    <2>6. Working' = {}
        BY <2>3, <2>5 DEF Working
    <2>7. OneStream'
        BY <2>1, <2>3, <2>5, <2>6 DEF OneStream, Active, TypeOK
    <2>8. KeysKept'
        BY <2>3, <2>4, <2>5, <2>6 DEF KeysKept, HasKeys, Active, TypeOK
    <2>9. NewKey'
        BY <2>3, <2>5 DEF NewKey, Early, Active, TypeOK
    <2> QED
        BY <2>5, <2>7, <2>8, <2>9 DEF KeysRunOnce
<1> QED
    BY <1>3, <1>4, <1>5, <1>6, <1>7, <1>8, <1>9, <1>10, <1>11 DEF Stream

LEMMA TaskKeys ==
    ASSUME StepInv, KeyInv, NEW e \in Requests, Task(e)
    PROVE  KeyInv'
<1> USE DEF KeyInv, StepInv
<1>1. e \in Working /\ step[e] \in Steps
    BY StepIsOne DEF Task, Coordinate, Running, Act, Record, Report, Working
<1>2. pc[e] = "wait" /\ \A q \in Requests : Active(q) => q = e
    BY <1>1 DEF OneStream, Active
<1>3. UNCHANGED <<lock, pc, after, state>>
    BY DEF Task, Coordinate, Running, Act, Record, Report
<1>4. \A q \in Requests : task'[q] = "none" <=> task[q] = "none"
    BY DEF Task, Coordinate, Running, Act, Record, Report, Ends, Continue, TypeOK
<1>5. Working' \subseteq Working
    BY DEF Task, Coordinate, Running, Act, Record, Report, Ends, Continue, TypeOK, Working
<1>6. /\ record'.keys \in {record.keys, object[e].keys}
      /\ object'[e].keys \in {record.keys, object[e].keys} \/ e \notin Working'
      /\ \A d \in Requests : d # e => object'[d] = object[d]
    <2>1. CASE Coordinate(e) \/ Act(e) \/ Record(e)
        BY <2>1 DEF Coordinate, Act, Record
    <2>2. ASSUME NEW job \in JobType, job.keys = object[e].keys, SaveObject(e, job)
          PROVE  /\ record'.keys = object[e].keys
                 /\ task[e] # "report" => object'[e].keys = object[e].keys
                 /\ \A d \in Requests : d # e => object'[d] = object[d]
        <3> DEFINE merged == IF e \in stale THEN Merge(record, job) ELSE job
        <3>1. merged.keys = object[e].keys
            BY <2>2, KeysOfMerge DEF TypeOK
        <3>2. /\ record' = merged
              /\ object' = [object EXCEPT ![e] = IF task[e] = "report" THEN NewJob ELSE merged]
            BY <2>2 DEF SaveObject
        <3> HIDE DEF merged
        <3> QED
            BY <3>1, <3>2 DEF TypeOK
    <2>3. CASE Running(e)
        <3> DEFINE node == [object[e].nodes[step[e]] EXCEPT !.status = "running"]
                   job == [object[e] EXCEPT !.nodes[step[e]].status = "running"]
        <3>1. job = [object[e] EXCEPT !.nodes = [object[e].nodes EXCEPT ![step[e]] = node]]
            BY <1>1, Zenon
        <3>2. node \in NodeType
            <4>1. object[e].nodes[step[e]] \in NodeType
                BY <1>1, NodeOf DEF TypeOK
            <4> QED
                BY <4>1 DEF NodeType
        <3>3. job \in JobType
            BY <1>1, <3>1, <3>2, NodeSet DEF TypeOK
        <3>4. job.keys = object[e].keys
            BY <3>1 DEF TypeOK, JobType
        <3>5. SaveObject(e, job) /\ task[e] = "running"
            BY <2>3 DEF Running
        <3> HIDE DEF job
        <3> QED
            BY <2>2, <3>3, <3>4, <3>5
    <2>4. CASE Report(e)
        <3> DEFINE job == Applied(object[e], step[e], outcome[e])
        <3>1. job \in JobType /\ job.keys = object[e].keys
            BY <1>1, <2>4, AppliedType, KeysOfApplied DEF Report, TypeOK, Located
        <3>2. SaveObject(e, job) /\ e \notin Working'
            BY <2>4 DEF Report, Continue, Working, TypeOK
        <3> HIDE DEF job
        <3> QED
            BY <2>2, <3>1, <3>2
    <2> QED
        BY <2>1, <2>3, <2>4 DEF Task
<1>7. HasKeys(record)' /\ \A d \in Working' : HasKeys(object[d])'
    <2>1. \A q \in Requests : task'[q] # "none" =>
              KeyOf[q] \in record.keys /\ KeyOf[q] \in object[e].keys
        BY <1>1, <1>4 DEF KeysKept, HasKeys
    <2>2. \A d \in Working : d = e
        BY <1>2 DEF OneStream, Active, Working
    <2>3. HasKeys(record)'
        BY <1>6, <2>1 DEF HasKeys
    <2>4. ASSUME NEW d \in Working' PROVE HasKeys(object[d])'
        BY <1>5, <1>6, <2>1, <2>2, <2>4 DEF HasKeys
    <2> QED
        BY <2>3, <2>4
<1>8. OneStream'
    BY <1>3, <1>5 DEF OneStream, Active
<1>9. KeysKept'
    BY <1>2, <1>3, <1>7 DEF KeysKept, Active
<1>10. NewKey'
    BY <1>2, <1>3 DEF NewKey, Early, Active
<1>11. KeysRunOnce'
    BY <1>4 DEF KeysRunOnce
<1> QED
    BY <1>8, <1>9, <1>10, <1>11

LEMMA ControlKeys ==
    ASSUME StepInv, KeyInv,
           (\E s \in Steps : Approve(s) \/ Reject(s) \/ Sweep(s)) \/ Cancel
    PROVE  KeyInv'
<1>1. UNCHANGED <<lock, pc, after, task, state, object>>
    BY DEF Approve, Reject, Sweep, Cancel, taskVars
<1>2. record \in JobType
    BY DEF StepInv, TypeOK
<1>3. ASSUME NEW s \in Steps, Approve(s) PROVE record'.keys = record.keys
    BY <1>2, <1>3 DEF Approve, JobType
<1>4. ASSUME NEW s \in Steps, Reject(s) PROVE record'.keys = record.keys
    BY <1>2, <1>4 DEF Reject, JobType
<1>5. ASSUME Cancel PROVE record'.keys = record.keys
    <2>1. record' = [record EXCEPT !.status = "cancelled",
                                   !.nodes = [s \in Steps |-> Closed(record.nodes[s])]]
        BY <1>5, Zenon DEF Cancel
    <2> QED
        BY <1>2, <2>1 DEF JobType
<1>6. record'.keys = record.keys
    BY <1>3, <1>4, <1>5 DEF Sweep
<1> QED
    BY <1>1, <1>6, SameKeys

LEMMA CrashKeys ==
    ASSUME StepInv, KeyInv, Crash
    PROVE  KeyInv'
<1> USE DEF KeyInv, StepInv
<1>1. /\ pc' = [r \in Requests |-> IF Active(r) THEN "done" ELSE pc[r]]
      /\ task' = [e \in Requests |-> IF e \in Working THEN "lost" ELSE task[e]]
      /\ UNCHANGED record
    BY DEF Crash
<1>2. \A r \in Requests : ~Active(r)'
    BY <1>1 DEF Active
<1>3. Working' = {}
    BY <1>1 DEF Working
<1>4. \A q \in Requests : task'[q] = "none" <=> task[q] = "none"
    BY <1>1 DEF Working
<1>5. OneStream'
    BY <1>2, <1>3 DEF OneStream
<1>6. KeysKept'
    BY <1>1, <1>2, <1>3, <1>4 DEF KeysKept, HasKeys, Active
<1>7. NewKey'
    BY <1>2 DEF NewKey, Early, Active
<1>8. KeysRunOnce'
    BY <1>4 DEF KeysRunOnce
<1> QED
    BY <1>5, <1>6, <1>7, <1>8

LEMMA KeyInvKept ==
    ASSUME "disconnect" \notin Faults, StepInv, KeyInv, [Next]_vars
    PROVE  KeyInv'
<1>1. CASE UNCHANGED vars
    BY <1>1, SameKeys DEF vars, taskVars
<1>2. \A r \in Requests : ~Disconnect(r)
    BY DEF Disconnect
<1>3. CASE Next
    BY <1>2, <1>3, StreamKeys, TaskKeys, ControlKeys, CrashKeys DEF Next
<1> QED
    BY <1>1, <1>3

\* Unless a connection closes under a running step, no key starts two tasks,
\* whatever is cancelled, approved, refused for want of capacity or restarted.
THEOREM KeysAreUsedOnce ==
    ASSUME "disconnect" \notin Faults
    PROVE  Spec => []KeysRunOnce
<1>1. Init => KeyInv
    BY DEF Init, KeyInv, OneStream, KeysKept, NewKey, KeysRunOnce, HasKeys, Early, Active,
           Working
<1>2. StepInv /\ KeyInv /\ [Next]_vars => KeyInv'
    BY KeyInvKept
<1>3. KeyInv => KeysRunOnce
    BY DEF KeyInv
<1> QED
    BY <1>1, <1>2, <1>3, StepInvHolds, PTL DEF Spec

(* ---------------------------- order of the steps ------------------------ *)

\* Whatever has left "pending" has only completed steps before it, and so has
\* the index; nothing follows a step that failed.
Ordered(job) ==
    /\ \A t, s \in Steps : t < s /\ job.steps[s] # "pending" => job.steps[t] = "completed"
    /\ \A t \in Steps : t < job.index => job.steps[t] = "completed"
    /\ \A s \in Steps : job.steps[s] = "failed" => job.canonical = "failed"

\* What a stream is about to save differs from the record in its own step only,
\* and takes nothing back that is completed; what it has saved or read is what
\* the record says.
InStep(r) ==
    /\ pc[r] = "save" =>
         /\ Ordered(state[r])
         /\ \A t \in Steps : t # step[r] => state[r].steps[t] = record.steps[t]
         /\ after[r] = "admit" => /\ state[r].steps[step[r]] = "running"
                                  /\ record.steps[step[r]] # "completed"
         /\ after[r] = "done" => /\ state[r].steps[step[r]] # "running"
                                 /\ record.steps[step[r]] = "running"
    /\ pc[r] \in {"checkpoint", "settle"} => Ordered(state[r]) /\ state[r].steps = record.steps
    /\ \/ pc[r] = "checkpoint" /\ after[r] = "admit"
       \/ pc[r] \in {"admit", "execute", "wait", "settle"}
       => record.steps[step[r]] = "running"

\* A task that works has the steps of the record in its object.
ObjectsAgree == \A e \in Working : Ordered(object[e]) /\ object[e].steps = record.steps

OrderInv ==
    /\ Ordered(record)
    /\ \A r \in Requests : InStep(r)
    /\ ObjectsAgree
    /\ CheckpointNeverAhead

\* The order depends on the steps, the index and, if one failed, the state.
LEMMA SameOrder ==
    ASSUME NEW a, NEW b, Ordered(a), b.steps = a.steps, b.index = a.index,
           a.canonical = "failed" => b.canonical = "failed"
    PROVE  Ordered(b)
BY DEF Ordered

\* The running step of a job in order is the only one, and nothing failed.
LEMMA RunningIsAlone ==
    ASSUME NEW job \in JobType, Ordered(job), NEW s \in Steps, job.steps[s] = "running"
    PROVE  /\ \A t \in Steps : t < s => job.steps[t] = "completed"
           /\ \A t \in Steps : t > s => job.steps[t] = "pending"
           /\ job.index <= s
BY CountAssumption DEF Ordered, Steps, JobType

LEMMA MarkedOrder ==
    ASSUME NEW job \in JobType, Ordered(job), Candidates(job) # {},
           job.canonical \in RESUME_ALLOWED_STATES, NEW k
    PROVE  LET s == First(Candidates(job)) IN
             /\ Ordered(Marked(job, s, k))
             /\ Marked(job, s, k).steps = [job.steps EXCEPT ![s] = "running"]
             /\ job.steps[s] # "completed"
<1> DEFINE s == First(Candidates(job))
<1>1. Candidates(job) \in SUBSET Steps
    BY DEF Candidates
<1>2. s \in Candidates(job) /\ \A t \in Candidates(job) : s <= t
    BY <1>1, FirstIsIn
<1> HIDE DEF s
<1>3. s \in Steps /\ s >= job.index /\ job.steps[s] \in PENDING_STEP_STATUSES
    BY <1>2 DEF Candidates
<1>4. /\ Marked(job, s, k).steps = [job.steps EXCEPT ![s] = "running"]
      /\ Marked(job, s, k).index = s
    BY DEF Marked, JobType
<1>5. \A t \in Steps : job.steps[t] # "failed"
    BY DEF Ordered, RESUME_ALLOWED_STATES
<1>6. ASSUME NEW t \in Steps, t < s PROVE job.steps[t] = "completed"
    <2>1. CASE t < job.index
        BY <2>1 DEF Ordered
    <2>2. CASE ~(t < job.index)
        <3>1. t \notin Candidates(job)
            BY <1>2, <1>3, <1>6, CountAssumption DEF Steps
        <3>2. t >= job.index
            BY <2>2, CountAssumption DEF Steps, JobType
        <3> QED
            BY <1>5, <3>1, <3>2 DEF Candidates, PENDING_STEP_STATUSES, JobType, StepStatus
    <2> QED
        BY <2>1, <2>2
<1>7. ASSUME NEW t \in Steps, t > s PROVE job.steps[t] = "pending"
    BY <1>3, <1>7, CountAssumption DEF Ordered, Steps, PENDING_STEP_STATUSES
<1>8. Ordered(Marked(job, s, k))
    <2> DEFINE steps == [job.steps EXCEPT ![s] = "running"]
    <2>1. \A t \in Steps : steps[t] = IF t = s THEN "running" ELSE job.steps[t]
        BY DEF JobType
    <2> HIDE DEF steps
    <2>2. \A t, q \in Steps : t < q /\ steps[q] # "pending" => steps[t] = "completed"
        BY <1>3, <1>6, <1>7, <2>1, CountAssumption DEF Steps
    <2>3. \A t \in Steps : t < s => steps[t] = "completed"
        BY <1>6, <2>1, CountAssumption DEF Steps
    <2>4. \A t \in Steps : steps[t] # "failed"
        BY <1>5, <2>1
    <2> QED
        BY <1>4, <2>2, <2>3, <2>4 DEF Ordered, steps
<1> QED
    BY <1>3, <1>4, <1>8 DEF PENDING_STEP_STATUSES, s

\* What becomes of a running step: its job stays in order.
LEMMA StepGivenUp ==
    ASSUME NEW job \in JobType, Ordered(job), NEW s \in Steps, job.steps[s] = "running",
           NEW new, NEW status \in {"pending", "waiting_approval", "failed"},
           new.steps = [job.steps EXCEPT ![s] = status], new.index = job.index,
           status = "failed" => new.canonical = "failed"
    PROVE  Ordered(new)
<1>1. \A t \in Steps : new.steps[t] = IF t = s THEN status ELSE job.steps[t]
    BY DEF JobType
<1>2. /\ \A t \in Steps : t < s => job.steps[t] = "completed"
      /\ \A t \in Steps : t > s => job.steps[t] = "pending"
      /\ job.index <= s
    BY RunningIsAlone
<1>3. s \in Nat /\ Steps \subseteq Nat /\ job.index \in Nat
    BY CountAssumption DEF Steps, JobType
<1>4. ASSUME NEW t \in Steps, NEW q \in Steps, t < q, new.steps[q] # "pending"
      PROVE  new.steps[t] = "completed"
    <2>1. q <= s
        <3>1. q > s => new.steps[q] = "pending"
            BY <1>1, <1>2, <1>3
        <3> QED
            BY <1>3, <1>4, <3>1
    <2>2. t < s /\ t # s
        BY <1>3, <1>4, <2>1
    <2> QED
        BY <1>1, <1>2, <2>2
<1>5. \A t \in Steps : t < new.index => new.steps[t] = "completed"
    BY <1>1, <1>2, <1>3
<1>6. \A t \in Steps : new.steps[t] = "failed" => new.canonical = "failed"
    BY <1>1, <1>2, <1>3
<1> QED
    BY <1>4, <1>5, <1>6 DEF Ordered

LEMMA StepDone ==
    ASSUME NEW job \in JobType, Ordered(job), NEW s \in Steps, job.steps[s] = "running"
    PROVE  /\ Ordered(SettledSuccess(job, s))
           /\ SettledSuccess(job, s).steps = [job.steps EXCEPT ![s] = "completed"]
<1> DEFINE steps == [job.steps EXCEPT ![s] = "completed"]
           Waiting == {t \in Steps : steps[t] \in {"pending", "waiting_approval"}}
           Later == {t \in Waiting : t > s}
           new == SettledSuccess(job, s)
<1>1. \A t \in Steps : steps[t] = IF t = s THEN "completed" ELSE job.steps[t]
    BY DEF JobType
<1>2. /\ \A t \in Steps : t < s => job.steps[t] = "completed"
      /\ \A t \in Steps : t > s => job.steps[t] = "pending"
    BY RunningIsAlone
<1>3. s \in Nat /\ Steps \subseteq Nat
    BY CountAssumption DEF Steps
<1>4. new.steps = steps
    BY DEF SettledSuccess, JobType
<1>5. \/ Waiting = {} /\ new.index = Count + 1
      \/ Later = {} /\ new.index = s + 1
      \/ Later # {} /\ new.index = First(Later)
    BY DEF SettledSuccess, JobType
<1> HIDE DEF steps, new
<1>6. \A t, q \in Steps : t < q /\ steps[q] # "pending" => steps[t] = "completed"
    BY <1>1, <1>2, <1>3
<1>7. \A t \in Steps : steps[t] # "failed"
    BY <1>1, <1>2, <1>3
<1>8. ASSUME NEW t \in Steps, t < new.index PROVE steps[t] = "completed"
    <2>1. CASE t <= s
        BY <1>1, <1>2, <1>3, <2>1
    <2>2. CASE t > s
        <3>1. t \in Later
            BY <1>1, <1>2, <1>3, <2>2
        <3>2. First(Later) <= t
            BY <3>1, FirstIsIn
        <3>3. First(Later) \in Nat
            BY <1>3, <3>1, FirstIsIn
        <3> QED
            BY <1>3, <1>5, <1>8, <3>1, <3>2, <3>3
    <2> QED
        BY <1>3, <2>1, <2>2
<1> QED
    BY <1>4, <1>6, <1>7, <1>8 DEF Ordered, steps, new

LEMMA RevertedOrder ==
    ASSUME NEW job \in JobType, Ordered(job), NEW s \in Steps, job.steps[s] = "running",
           NEW keys
    PROVE  /\ Ordered(Reverted(job, s, keys))
           /\ Reverted(job, s, keys).steps = [job.steps EXCEPT ![s] = "pending"]
<1> DEFINE new == Reverted(job, s, keys)
<1>1. new.steps = [job.steps EXCEPT ![s] = "pending"] /\ new.index = job.index
    BY DEF Reverted, JobType
<1> HIDE DEF new
<1>2. Ordered(new)
    BY <1>1, StepGivenUp
<1> QED
    BY <1>1, <1>2 DEF new

\* After any outcome.
LEMMA SettledOrder ==
    ASSUME NEW job \in JobType, Ordered(job), NEW s \in Steps, job.steps[s] = "running",
           NEW result,
           NEW new, new = Settled(job, s, result) \/ new = SettledApproval(job, s)
    PROVE  /\ Ordered(new)
           /\ \E status \in {"pending", "waiting_approval", "failed", "completed"} :
                  new.steps = [job.steps EXCEPT ![s] = status]
<1>1. CASE new = SettledSuccess(job, s)
    BY <1>1, StepDone
<1>2. CASE new = SettledFailure(job, s)
    <2>1. /\ new.steps = [job.steps EXCEPT ![s] = "failed"]
          /\ new.index = job.index /\ new.canonical = "failed"
        BY <1>2 DEF SettledFailure, JobType
    <2> QED
        BY <2>1, StepGivenUp
<1>3. CASE new = SettledApproval(job, s)
    <2>1. /\ new.steps = [job.steps EXCEPT ![s] = "waiting_approval"]
          /\ new.index = job.index
        BY <1>3 DEF SettledApproval, JobType
    <2> QED
        BY <2>1, StepGivenUp
<1>4. CASE new = Reverted(job, s, {})
    BY <1>4, RevertedOrder
<1> QED
    BY <1>1, <1>2, <1>3, <1>4 DEF Settled

\* Steps that leave streams, tasks and the order of the record alone.
LEMMA QuietOrder ==
    ASSUME OrderInv, UNCHANGED <<pc, after, state, step, task, object, checkpoint>>,
           record'.steps = record.steps, record'.index = record.index,
           record.canonical = "failed" => record'.canonical = "failed"
    PROVE  OrderInv'
<1>1. Ordered(record')
    BY SameOrder DEF OrderInv
<1>2. \A r \in Requests : InStep(r)'
    BY DEF OrderInv, InStep, Ordered
<1>3. ObjectsAgree'
    BY DEF OrderInv, ObjectsAgree, Ordered, Working
<1>4. CheckpointNeverAhead'
    BY DEF OrderInv, CheckpointNeverAhead
<1> QED
    BY <1>1, <1>2, <1>3, <1>4 DEF OrderInv

\* Steps of the only stream that leave the record and the checkpoints alone.
LEMMA StreamMoves ==
    ASSUME OrderInv, NEW r \in Requests, UNCHANGED <<record, checkpoint>>,
           \A q \in Requests : q # r => pc'[q] \in {"idle", "done"},
           InStep(r)', ObjectsAgree'
    PROVE  OrderInv'
<1>1. \A q \in Requests : InStep(q)'
    BY DEF InStep
<1>2. Ordered(record)' /\ CheckpointNeverAhead'
    BY DEF OrderInv, Ordered, CheckpointNeverAhead
<1> QED
    BY <1>1, <1>2 DEF OrderInv

LEMMA EscalatedOrder ==
    ASSUME NEW job \in JobType, NEW new \in Escalated(job)
    PROVE  /\ new.steps = job.steps
           /\ new.index = job.index
           /\ new.canonical = job.canonical
BY DEF Escalated, JobType

LEMMA StreamOrder ==
    ASSUME StepInv, KeyInv, OrderInv, NEW r \in Requests, Stream(r)
    PROVE  OrderInv'
<1> USE DEF StepInv
<1>1. ASSUME Active(r) PROVE \A q \in Requests : q # r => pc[q] \in {"idle", "done"}
    BY <1>1 DEF KeyInv, OneStream, Active
<1>2. ASSUME pc[r] \notin {"idle", "done", "wait"} PROVE Working = {}
    BY <1>1, <1>2 DEF KeyInv, OneStream, Active, Working
<1>3. record \in JobType /\ state[r] \in JobType
    BY DEF TypeOK
<1>4. CASE Busy(r) \/ Refuse(r)
    <2>1. /\ pc[r] = "idle" /\ pc' = [pc EXCEPT ![r] = "done"]
          /\ UNCHANGED <<record, after, state, step, task, object, checkpoint>>
        BY <1>4 DEF Busy, Refuse, Goto, taskVars
    <2>2. \A q \in Requests : InStep(q)'
        BY <2>1 DEF OrderInv, InStep, Ordered, TypeOK
    <2> QED
        BY <2>1, <2>2 DEF OrderInv, Ordered, ObjectsAgree, Working, CheckpointNeverAhead
<1>5. CASE Begin(r)
    <2> DEFINE s == First(Candidates(record))
               job == Marked(record, s, KeyOf[r])
    <2>1. /\ pc[r] = "idle" /\ lock = "none"
          /\ record.canonical \in RESUME_ALLOWED_STATES
          /\ Candidates(record) # {}
          /\ pc' = [pc EXCEPT ![r] = "save"]
          /\ after' = [after EXCEPT ![r] = "admit"]
          /\ state' = [state EXCEPT ![r] = job]
          /\ step' = [step EXCEPT ![r] = s]
          /\ UNCHANGED <<record, task, object, checkpoint>>
        BY <1>5 DEF Begin, Allowed, Persist, Goto, taskVars
    <2>2. s \in Steps
        BY <2>1, FirstCandidate
    <2>3. /\ Ordered(job)
          /\ job.steps = [record.steps EXCEPT ![s] = "running"]
          /\ record.steps[s] # "completed"
        BY <1>3, <2>1, MarkedOrder DEF OrderInv
    <2> HIDE DEF job, s
    <2>4. \A q \in Requests : q # r => pc'[q] \in {"idle", "done"}
        BY <2>1, RequestsAssumption DEF KeyInv, OneStream, Active, TypeOK
    <2>5. InStep(r)'
        <3>1. pc'[r] = "save" /\ after'[r] = "admit" /\ state'[r] = job /\ step'[r] = s
            BY <2>1 DEF TypeOK
        <3>2. Ordered(state[r])'
            BY <2>3, <3>1 DEF Ordered
        <3>3. record.steps \in [Steps -> StepStatus]
            BY <1>3 DEF JobType
        <3> QED
            BY <2>1, <2>2, <2>3, <3>1, <3>2, <3>3 DEF InStep
    <2>6. ObjectsAgree'
        BY <2>1 DEF OrderInv, ObjectsAgree, Ordered, Working
    <2> QED
        BY <2>1, <2>4, <2>5, <2>6, StreamMoves
<1>6. CASE Save(r)
    <2>1. /\ pc[r] = "save" /\ pc' = [pc EXCEPT ![r] = "checkpoint"]
          /\ record'.steps = state[r].steps
          /\ record'.index = state[r].index
          /\ record'.canonical = state[r].canonical
          /\ UNCHANGED <<after, state, step, task, object, checkpoint>>
        BY <1>3, <1>6 DEF Save, Goto, JobType
    <2>2. Active(r) /\ Working = {} /\ Working' = {}
        BY <1>2, <2>1 DEF Active, Working
    <2>3. step[r] \in Steps /\ after[r] \in {"admit", "done"}
        BY <2>1, <2>2, StepIsOne DEF TypeOK, Located
    <2>4. InStep(r)
        BY DEF OrderInv
    <2>5. Ordered(record')
        BY <2>1, <2>4, SameOrder DEF InStep
    <2>6. InStep(r)'
        <3>1. pc'[r] = "checkpoint"
            BY <2>1 DEF TypeOK
        <3>2. Ordered(state[r])'
            BY <2>1, <2>4 DEF InStep, Ordered
        <3> QED
            BY <2>1, <2>4, <3>1, <3>2 DEF InStep
    <2>7. \A q \in Requests : InStep(q)'
        BY <1>1, <2>1, <2>2, <2>6 DEF InStep, TypeOK
    <2>8. \A s \in Steps : record.steps[s] = "completed" => record'.steps[s] = "completed"
        BY <2>1, <2>3, <2>4 DEF InStep
    <2>9. ObjectsAgree' /\ CheckpointNeverAhead'
        BY <2>1, <2>2, <2>8 DEF OrderInv, ObjectsAgree, CheckpointNeverAhead
    <2> QED
        BY <2>5, <2>7, <2>9 DEF OrderInv
<1>7. CASE Checkpoint(r)
    <2>1. /\ pc[r] = "checkpoint" /\ pc' = [pc EXCEPT ![r] = after[r]]
          /\ UNCHANGED <<record, after, step, task, object>>
        BY <1>7 DEF Checkpoint, Leave, Goto, taskVars
    <2>2. Active(r) /\ after[r] \in {"admit", "done"}
        BY <2>1 DEF Active, TypeOK, Located
    <2>3. InStep(r) /\ state[r].steps = record.steps
        BY <2>1 DEF OrderInv, InStep
    <2>4. InStep(r)'
        BY <2>1, <2>2, <2>3 DEF InStep, TypeOK
    <2>5. \A q \in Requests : InStep(q)'
        BY <1>1, <2>1, <2>2, <2>4 DEF InStep, TypeOK
    <2>6. \A s \in Steps : checkpoint'[s].state = "completed" =>
              checkpoint[s].state = "completed" \/ record.steps[s] = "completed"
        <3> DEFINE target == [s \in Steps |-> StateForStep(state[r].steps[s])]
        <3>1. PICK Failed :
                  LET new == [s \in Steps |->
                        IF s \in Failed \/ ~Advances(known[s], target[s]) THEN known[s]
                        ELSE Advanced(known[s], target[s], record.nodes[s].effect)]
                  IN  checkpoint' = [s \in Steps |-> IF new[s] = known[s]
                                                     THEN checkpoint[s] ELSE new[s]]
            BY <1>7 DEF Checkpoint
        <3>2. ASSUME NEW s \in Steps
              PROVE  \/ checkpoint'[s] = checkpoint[s]
                     \/ checkpoint'[s] = Advanced(known[s], target[s], record.nodes[s].effect)
            BY <3>1
        <3>3. ASSUME NEW s \in Steps, target[s] = "completed" PROVE record.steps[s] = "completed"
            BY <2>3, <3>3 DEF StateForStep
        <3>4. \A s \in Steps :
                  Advanced(known[s], target[s], record.nodes[s].effect).state = target[s]
            BY DEF Advanced
        <3> HIDE DEF target
        <3> QED
            BY <3>2, <3>3, <3>4
    <2>7. CheckpointNeverAhead'
        BY <2>1, <2>6 DEF OrderInv, CheckpointNeverAhead
    <2>8. Ordered(record)' /\ ObjectsAgree'
        BY <2>1 DEF OrderInv, Ordered, ObjectsAgree, Working
    <2> QED
        BY <2>5, <2>7, <2>8 DEF OrderInv
<1>8. CASE Admit(r)
    <2>1. /\ pc[r] = "admit" /\ pc' = [pc EXCEPT ![r] = "execute"]
          /\ UNCHANGED <<record, after, step, task, object, checkpoint>>
        BY <1>8 DEF Admit, Goto, taskVars
    <2>2. InStep(r)' /\ \A q \in Requests : q # r => pc'[q] \in {"idle", "done"}
        BY <1>1, <2>1 DEF OrderInv, InStep, Active, TypeOK
    <2>3. ObjectsAgree'
        BY <2>1 DEF OrderInv, ObjectsAgree, Ordered, Working
    <2> QED
        BY <2>1, <2>2, <2>3, StreamMoves
<1>9. CASE NoCapacity(r)
    <2> DEFINE job == Reverted(record, step[r], {KeyOf[r]})
    <2>1. /\ pc[r] = "admit" /\ pc' = [pc EXCEPT ![r] = "save"]
          /\ after' = [after EXCEPT ![r] = "done"]
          /\ state' = [state EXCEPT ![r] = job]
          /\ UNCHANGED <<record, step, task, object, checkpoint>>
        BY <1>9 DEF NoCapacity, Persist, Goto, taskVars
    <2>2. Active(r) /\ step[r] \in Steps /\ record.steps[step[r]] = "running"
        BY <2>1, StepIsOne DEF Active, OrderInv, InStep
    <2>3. /\ Ordered(job)
          /\ job.steps[step[r]] # "running"
          /\ \A t \in Steps : t # step[r] => job.steps[t] = record.steps[t]
        <3>1. Ordered(job) /\ job.steps = [record.steps EXCEPT ![step[r]] = "pending"]
            BY <1>3, <2>2, RevertedOrder DEF OrderInv
        <3>2. record.steps \in [Steps -> StepStatus]
            BY <1>3 DEF JobType
        <3> QED
            BY <2>2, <3>1, <3>2
    <2> HIDE DEF job
    <2>4. InStep(r)'
        <3>1. pc'[r] = "save" /\ after'[r] = "done" /\ state'[r] = job
            BY <2>1 DEF TypeOK
        <3>2. Ordered(state[r])'
            BY <2>3, <3>1 DEF Ordered
        <3> QED
            BY <2>1, <2>2, <2>3, <3>1, <3>2 DEF InStep
    <2>5. \A q \in Requests : q # r => pc'[q] \in {"idle", "done"}
        BY <1>1, <2>1, <2>2 DEF TypeOK
    <2>6. ObjectsAgree'
        BY <2>1 DEF OrderInv, ObjectsAgree, Ordered, Working
    <2> QED
        BY <2>1, <2>4, <2>5, <2>6, StreamMoves
<1>10. CASE Execute(r)
    <2>1. /\ pc[r] = "execute" /\ pc' = [pc EXCEPT ![r] = "wait"]
          /\ task' = [task EXCEPT ![r] = "coordinate"]
          /\ object' = [object EXCEPT ![r] = record]
          /\ UNCHANGED <<record, after, state, step, checkpoint>>
        BY <1>10 DEF Execute, Goto
    <2>2. InStep(r)' /\ \A q \in Requests : q # r => pc'[q] \in {"idle", "done"}
        BY <1>1, <2>1 DEF OrderInv, InStep, Active, TypeOK
    <2>3. Working' \subseteq {r}
        BY <1>2, <2>1 DEF Working, TypeOK
    <2>4. object'[r] = record
        BY <2>1 DEF TypeOK
    <2>5. ObjectsAgree'
        BY <2>1, <2>3, <2>4 DEF OrderInv, ObjectsAgree, Ordered
    <2> QED
        BY <2>1, <2>2, <2>5, StreamMoves
<1>11. CASE Reload(r)
    <2>1. /\ pc[r] = "wait" /\ pc' = [pc EXCEPT ![r] = "settle"]
          /\ state' = [state EXCEPT ![r] = record]
          /\ UNCHANGED <<record, after, step, task, object, checkpoint>>
        BY <1>11 DEF Reload, Goto, taskVars
    <2>2. \A q \in Requests : q # r => pc'[q] \in {"idle", "done"}
        BY <1>1, <2>1 DEF Active, TypeOK
    <2>3. InStep(r)'
        <3>1. pc'[r] = "settle" /\ state'[r] = record
            BY <2>1 DEF TypeOK
        <3>2. Ordered(state[r])'
            BY <3>1 DEF OrderInv, Ordered
        <3> QED
            BY <2>1, <3>1, <3>2 DEF OrderInv, InStep
    <2>4. ObjectsAgree'
        BY <2>1 DEF OrderInv, ObjectsAgree, Ordered, Working
    <2> QED
        BY <2>1, <2>2, <2>3, <2>4, StreamMoves
<1>12. CASE Escalate(r) \/ Settle(r)
    <2>1. pc[r] = "settle" /\ Active(r) /\ Working = {}
        BY <1>2, <1>12 DEF Escalate, Settle, Active
    <2>2. step[r] \in Steps /\ InStep(r)
        BY <2>1, StepIsOne DEF OrderInv
    <2>3. /\ record'.steps = record.steps /\ record'.index = record.index
          /\ record'.canonical = record.canonical
        BY <1>3, <1>12, EscalatedOrder DEF Escalate, Settle
    <2>4. PICK old, job :
              /\ old \in JobType /\ Ordered(old) /\ old.steps = record.steps
              /\ \/ job = Settled(old, step[r], outcome[r])
                 \/ job = SettledApproval(old, step[r])
              /\ pc' = [pc EXCEPT ![r] = "save"]
              /\ after' = [after EXCEPT ![r] = "done"]
              /\ state' = [state EXCEPT ![r] = job]
              /\ UNCHANGED <<step, task, object, checkpoint>>
        <3>1. CASE Escalate(r)
            <4>0. PICK old \in Escalated(record) :
                      Persist(r, SettledApproval(old, step[r]), "done")
                BY <3>1 DEF Escalate
            <4>1. old \in JobType /\ Ordered(old) /\ old.steps = record.steps
                BY <1>3, EscalatedType, EscalatedOrder, SameOrder DEF OrderInv
            <4>2. /\ pc' = [pc EXCEPT ![r] = "save"]
                  /\ after' = [after EXCEPT ![r] = "done"]
                  /\ state' = [state EXCEPT ![r] = SettledApproval(old, step[r])]
                  /\ UNCHANGED <<step, task, object, checkpoint>>
                BY <3>1, <4>0 DEF Escalate, Persist, Goto
            <4> QED
                BY <4>1, <4>2
        <3>2. CASE Settle(r)
            <4>1. Ordered(state[r]) /\ state[r].steps = record.steps
                BY <2>1, <2>2 DEF InStep
            <4> QED
                BY <1>3, <3>2, <4>1 DEF Settle, Persist, Goto, taskVars
        <3> QED
            BY <1>12, <3>1, <3>2
    <2>5. record.steps[step[r]] = "running"
        BY <2>1, <2>2 DEF InStep
    <2>6. /\ Ordered(job)
          /\ job.steps[step[r]] # "running"
          /\ \A t \in Steps : t # step[r] => job.steps[t] = record.steps[t]
        <3>1. Ordered(job) /\ \E status \in {"pending", "waiting_approval", "failed", "completed"} :
                  job.steps = [old.steps EXCEPT ![step[r]] = status]
            <4> DEFINE s == step[r]
            <4>1. s \in Steps /\ old \in JobType /\ Ordered(old) /\ old.steps[s] = "running"
                BY <2>2, <2>4, <2>5
            <4>2. job = Settled(old, s, outcome[r]) \/ job = SettledApproval(old, s)
                BY <2>4
            <4> HIDE DEF s
            <4>3. Ordered(job) /\ \E status \in {"pending", "waiting_approval", "failed", "completed"} :
                      job.steps = [old.steps EXCEPT ![s] = status]
                BY <4>1, <4>2, SettledOrder
            <4> QED
                BY <4>3 DEF s
        <3>2. old.steps \in [Steps -> StepStatus]
            BY <2>4 DEF JobType
        <3> QED
            BY <2>2, <2>4, <3>1, <3>2
    <2>7. InStep(r)'
        <3>1. pc'[r] = "save" /\ after'[r] = "done" /\ state'[r] = job
            BY <2>4 DEF TypeOK
        <3>2. Ordered(state[r])'
            BY <2>6, <3>1 DEF Ordered
        <3> QED
            BY <2>3, <2>4, <2>5, <2>6, <3>1, <3>2 DEF InStep
    <2>8. \A q \in Requests : InStep(q)'
        BY <1>1, <2>1, <2>4, <2>7 DEF InStep, TypeOK
    <2>9. Ordered(record')
        BY <2>3, SameOrder DEF OrderInv
    <2>10. ObjectsAgree'
        BY <2>1, <2>4 DEF ObjectsAgree, Working
    <2>11. CheckpointNeverAhead'
        BY <2>3, <2>4 DEF OrderInv, CheckpointNeverAhead
    <2> QED
        BY <2>8, <2>9, <2>10, <2>11 DEF OrderInv
<1> QED
    BY <1>4, <1>5, <1>6, <1>7, <1>8, <1>9, <1>10, <1>11, <1>12 DEF Stream

\* A task saves its own object, which has the steps of the record.
LEMMA TaskOrder ==
    ASSUME StepInv, KeyInv, OrderInv, NEW e \in Requests, Task(e)
    PROVE  OrderInv' /\ record'.steps = record.steps
<1> USE DEF StepInv
<1>1. e \in Working /\ step[e] \in Steps
    BY StepIsOne DEF Task, Coordinate, Running, Act, Record, Report, Working
<1>2. \A d \in Working : d = e
    BY <1>1 DEF KeyInv, OneStream, Active, Working
<1>3. UNCHANGED <<pc, after, state, step, checkpoint>>
    BY DEF Task, Coordinate, Running, Act, Record, Report
<1>4. Working' \subseteq Working
    BY DEF Task, Coordinate, Running, Act, Record, Report, Ends, Continue, TypeOK, Working
<1>5. Ordered(record) /\ Ordered(object[e]) /\ object[e].steps = record.steps
    BY <1>1 DEF OrderInv, ObjectsAgree
<1>6. /\ Ordered(record') /\ record'.steps = record.steps
      /\ e \in Working' => Ordered(object'[e]) /\ object'[e].steps = record.steps
    <2>1. CASE Coordinate(e) \/ Act(e) \/ Record(e)
        BY <1>5, <2>1 DEF Coordinate, Act, Record
    <2>2. ASSUME NEW job \in JobType, job.steps = object[e].steps, job.index = object[e].index,
                 job.canonical = object[e].canonical, SaveObject(e, job),
                 task[e] = "report" => e \notin Working'
          PROVE  /\ Ordered(record') /\ record'.steps = record.steps
                 /\ e \in Working' => Ordered(object'[e]) /\ object'[e].steps = record.steps
        <3> DEFINE merged == IF e \in stale THEN Merge(record, job) ELSE job
        <3>1. merged.steps = job.steps /\ merged.index = job.index
              /\ merged.canonical = job.canonical
            BY <2>2 DEF Merge, JobType
        <3>2. /\ record' = merged
              /\ object' = [object EXCEPT ![e] = IF task[e] = "report" THEN NewJob ELSE merged]
            BY <2>2 DEF SaveObject
        <3> HIDE DEF merged
        <3>3. Ordered(merged)
            BY <1>5, <2>2, <3>1, SameOrder
        <3> QED
            BY <1>5, <2>2, <3>1, <3>2, <3>3 DEF TypeOK
    <2>3. CASE Running(e)
        <3> DEFINE node == [object[e].nodes[step[e]] EXCEPT !.status = "running"]
                   job == [object[e] EXCEPT !.nodes[step[e]].status = "running"]
        <3>1. job = [object[e] EXCEPT !.nodes = [object[e].nodes EXCEPT ![step[e]] = node]]
            BY <1>1, Zenon
        <3>2. node \in NodeType
            <4>1. object[e].nodes[step[e]] \in NodeType
                BY <1>1, NodeOf DEF TypeOK
            <4> QED
                BY <4>1 DEF NodeType
        <3>3. job \in JobType
            BY <1>1, <3>1, <3>2, NodeSet DEF TypeOK
        <3>4. job.steps = object[e].steps /\ job.index = object[e].index
              /\ job.canonical = object[e].canonical
            BY <3>1 DEF TypeOK, JobType
        <3>5. SaveObject(e, job) /\ task[e] = "running"
            BY <2>3 DEF Running
        <3> HIDE DEF job
        <3> QED
            BY <2>2, <3>3, <3>4, <3>5
    <2>4. CASE Report(e)
        <3> DEFINE job == Applied(object[e], step[e], outcome[e])
        <3>1. job \in JobType
            BY <1>1, <2>4, AppliedType DEF Report, TypeOK, Located
        <3>2. job.steps = object[e].steps /\ job.index = object[e].index
              /\ job.canonical = object[e].canonical
            BY DEF Applied, TypeOK, JobType
        <3>3. SaveObject(e, job) /\ e \notin Working'
            BY <2>4 DEF Report, Continue, Working, TypeOK
        <3> HIDE DEF job
        <3> QED
            BY <2>2, <3>1, <3>2, <3>3
    <2> QED
        BY <2>1, <2>3, <2>4 DEF Task
<1>7. \A r \in Requests : InStep(r)'
    BY <1>3, <1>6 DEF OrderInv, InStep, Ordered
<1>8. ObjectsAgree'
    <2>1. ASSUME NEW d \in Working'
          PROVE  Ordered(object'[d]) /\ object'[d].steps = record'.steps
        BY <1>2, <1>4, <1>6
    <2> QED
        BY <2>1 DEF ObjectsAgree, Ordered
<1>9. CheckpointNeverAhead'
    BY <1>3, <1>6 DEF OrderInv, CheckpointNeverAhead
<1> QED
    BY <1>6, <1>7, <1>8, <1>9 DEF OrderInv, Ordered

LEMMA ControlOrder ==
    ASSUME StepInv, OrderInv,
           (\E s \in Steps : Approve(s) \/ Reject(s) \/ Sweep(s)) \/ Cancel
    PROVE  OrderInv' /\ record'.steps = record.steps
<1>1. UNCHANGED <<pc, after, state, step, task, object, checkpoint>>
    BY DEF Approve, Reject, Sweep, Cancel, taskVars
<1>2. record \in JobType
    BY DEF StepInv, TypeOK
<1> DEFINE Same == /\ record'.steps = record.steps /\ record'.index = record.index
                   /\ record.canonical = "failed" => record'.canonical = "failed"
<1>3. ASSUME NEW s \in Steps, Approve(s) PROVE Same
    BY <1>2, <1>3 DEF Approve, JobType
<1>4. ASSUME NEW s \in Steps, Reject(s) PROVE Same
    BY <1>2, <1>4 DEF Reject, JobType
<1>5. ASSUME Cancel PROVE Same
    <2>1. record' = [record EXCEPT !.status = "cancelled",
                                   !.nodes = [s \in Steps |-> Closed(record.nodes[s])]]
        BY <1>5, Zenon DEF Cancel
    <2> QED
        BY <1>2, <2>1 DEF JobType
<1>6. Same
    BY <1>3, <1>4, <1>5 DEF Sweep
<1> QED
    BY <1>1, <1>6, QuietOrder

LEMMA CrashOrder ==
    ASSUME StepInv, OrderInv, Crash
    PROVE  OrderInv'
<1>1. /\ pc' = [r \in Requests |-> IF Active(r) THEN "done" ELSE pc[r]]
      /\ task' = [e \in Requests |-> IF e \in Working THEN "lost" ELSE task[e]]
      /\ UNCHANGED <<record, checkpoint>>
    BY DEF Crash
<1>2. \A r \in Requests : pc'[r] \in {"idle", "done"}
    BY <1>1 DEF Active
<1>3. Working' = {}
    BY <1>1 DEF Working
<1>4. \A r \in Requests : InStep(r)'
    BY <1>2 DEF InStep
<1> QED
    BY <1>1, <1>3, <1>4 DEF OrderInv, Ordered, ObjectsAgree, CheckpointNeverAhead

LEMMA OrderInvKept ==
    ASSUME "disconnect" \notin Faults, StepInv, KeyInv, OrderInv, [Next]_vars
    PROVE  OrderInv'
<1>1. CASE UNCHANGED vars
    BY <1>1, QuietOrder DEF vars, taskVars
<1>2. \A r \in Requests : ~Disconnect(r)
    BY DEF Disconnect
<1>3. CASE Next
    BY <1>2, <1>3, StreamOrder, TaskOrder, ControlOrder, CrashOrder DEF Next
<1> QED
    BY <1>1, <1>3

LEMMA InitInOrder == Init => OrderInv
<1> SUFFICES ASSUME Init PROVE OrderInv
    OBVIOUS
<1>1. Ordered(record)
    BY CountAssumption DEF Init, NewJob, Ordered, Steps
<1> QED
    BY <1>1 DEF Init, OrderInv, InStep, ObjectsAgree, Working, CheckpointNeverAhead,
                NoCheckpoint

LEMMA InvariantsHold ==
    ASSUME "disconnect" \notin Faults
    PROVE  Spec => [](StepInv /\ KeyInv /\ OrderInv)
<1>1. Init => StepInv /\ KeyInv /\ OrderInv
    BY InitHolds, InitInOrder DEF Init, KeyInv, OneStream, KeysKept, NewKey, KeysRunOnce,
       HasKeys, Early, Active, Working
<1>2. StepInv /\ KeyInv /\ OrderInv /\ [Next]_vars => (StepInv /\ KeyInv /\ OrderInv)'
    BY StepInvKept, KeyInvKept, OrderInvKept
<1> QED
    BY <1>1, <1>2, PTL DEF Spec

\* Unless a connection closes under a running step, no checkpoint concludes
\* what the record does not, whatever writes fail and whenever it restarts.
THEOREM CheckpointsNeverLead ==
    ASSUME "disconnect" \notin Faults
    PROVE  Spec => []CheckpointNeverAhead
<1>1. OrderInv => CheckpointNeverAhead
    BY DEF OrderInv
<1> QED
    BY <1>1, InvariantsHold, PTL

(* ------------------------ the sequence of steps ------------------------- *)

DoneSteps == {s \in Steps : record.steps[s] = "completed"}
CurrentSteps == {s \in Steps : record.steps[s] = "running"}

\* A save takes the stream's step, or finishes it.
LEMMA SaveIsStep ==
    ASSUME StepInv, KeyInv, OrderInv, NEW r \in Requests, Save(r)
    PROVE  Sequence!Next \/ UNCHANGED <<DoneSteps, CurrentSteps>>
<1> USE DEF StepInv
<1> DEFINE s == step[r]
<1>1. record \in JobType /\ state[r] \in JobType
    BY DEF TypeOK
<1>2. pc[r] = "save" /\ record'.steps = state[r].steps
    BY <1>1 DEF Save, JobType
<1>3. s \in Steps /\ after[r] \in {"admit", "done"}
    BY <1>2, StepIsOne DEF Active, TypeOK, Located
<1>4. /\ Ordered(record) /\ Ordered(state[r])
      /\ \A t \in Steps : t # s => state[r].steps[t] = record.steps[t]
      /\ after[r] = "admit" => state[r].steps[s] = "running" /\ record.steps[s] # "completed"
      /\ after[r] = "done" => state[r].steps[s] # "running" /\ record.steps[s] = "running"
    BY <1>2 DEF OrderInv, InStep
<1> HIDE DEF s
<1>5. CASE after[r] = "admit"
    <2>1. /\ \A t \in Steps : t < s => state[r].steps[t] = "completed"
          /\ \A t \in Steps : t > s => state[r].steps[t] = "pending"
        BY <1>1, <1>3, <1>4, <1>5, RunningIsAlone
    <2>2. \A t \in Steps : t < s => record.steps[t] = "completed"
        BY <1>3, <1>4, <2>1, CountAssumption DEF Steps
    <2>3. \A t \in Steps : record.steps[t] = "running" => t = s
        BY <1>3, <1>4, <2>1, CountAssumption DEF Steps
    <2>4. DoneSteps' = DoneSteps /\ CurrentSteps' = {s}
        BY <1>2, <1>3, <1>4, <1>5, <2>3 DEF DoneSteps, CurrentSteps
    <2>5. CASE record.steps[s] = "running"
        BY <1>3, <2>3, <2>4, <2>5 DEF CurrentSteps
    <2>6. CASE record.steps[s] # "running"
        <3>1. CurrentSteps = {}
            BY <2>3, <2>6 DEF CurrentSteps
        <3>2. Sequence!Take(s)
            BY <1>4, <1>5, <2>2, <2>4, <3>1 DEF Sequence!Take, DoneSteps, CurrentSteps
        <3> QED
            BY <1>3, <3>2 DEF Sequence!Next, Sequence!Take, Sequence!Finish
    <2> QED
        BY <2>5, <2>6
<1>6. CASE after[r] = "done"
    <2>1. /\ \A t \in Steps : t < s => record.steps[t] = "completed"
          /\ \A t \in Steps : t > s => record.steps[t] = "pending"
        BY <1>1, <1>3, <1>4, <1>6, RunningIsAlone
    <2>2. \A t \in Steps : record.steps[t] = "running" => t = s
        BY <1>3, <2>1, CountAssumption DEF Steps
    <2>3. CurrentSteps = {s} /\ CurrentSteps' = {}
        BY <1>2, <1>3, <1>4, <1>6, <2>2 DEF CurrentSteps
    <2>4. DoneSteps' \in {DoneSteps, DoneSteps \cup {s}}
        BY <1>2, <1>3, <1>4, <1>6 DEF DoneSteps
    <2>5. Sequence!Finish(s)
        BY <2>3, <2>4 DEF Sequence!Finish, DoneSteps, CurrentSteps
    <2> QED
        BY <1>3, <2>5 DEF Sequence!Next, Sequence!Take, Sequence!Finish
<1> QED
    BY <1>3, <1>5, <1>6

\* Every other step leaves the steps of the record as they are.
LEMMA StepsKept ==
    ASSUME StepInv, KeyInv, OrderInv, "disconnect" \notin Faults, [Next]_vars,
           \A r \in Requests : ~Save(r)
    PROVE  record'.steps = record.steps
<1>1. record \in JobType
    BY DEF StepInv, TypeOK
<1>2. ASSUME NEW r \in Requests, Stream(r) PROVE record'.steps = record.steps
    BY <1>1, <1>2, EscalatedOrder
    DEF Stream, Busy, Refuse, Begin, Checkpoint, Admit, NoCapacity, Execute, Reload, Escalate, Settle
<1>3. ASSUME NEW e \in Requests, Task(e) PROVE record'.steps = record.steps
    BY <1>3, TaskOrder
<1> QED
    BY <1>2, <1>3, ControlOrder DEF Next, vars, Disconnect, Crash

\* Unless a connection closes under a running step, the steps of the plan are
\* taken in order, one at a time, and a completed one stays so.
THEOREM StepsAreInOrder ==
    ASSUME "disconnect" \notin Faults
    PROVE  Spec => StepsInOrder
<1>1. Init => Sequence!Init
    BY DEF Init, NewJob, Sequence!Init
<1>2. StepInv /\ KeyInv /\ OrderInv /\ [Next]_vars =>
          [Sequence!Next]_<<DoneSteps, CurrentSteps>>
    <2> SUFFICES ASSUME StepInv, KeyInv, OrderInv, [Next]_vars
                 PROVE  Sequence!Next \/ UNCHANGED <<DoneSteps, CurrentSteps>>
        OBVIOUS
    <2>1. CASE \E r \in Requests : Save(r)
        BY <2>1, SaveIsStep
    <2>2. CASE \A r \in Requests : ~Save(r)
        BY <2>2, StepsKept DEF DoneSteps, CurrentSteps
    <2> QED
        BY <2>1, <2>2
<1> QED
    BY <1>1, <1>2, InvariantsHold, PTL
    DEF Spec, StepsInOrder, Sequence!Spec, DoneSteps, CurrentSteps
===============================================================================
