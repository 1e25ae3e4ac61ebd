------------------------ MODULE LogicalPlanEnds_proofs ------------------------
(***************************************************************************)
(* Proofs about what becomes of the nodes of a rolling plan, on top of the *)
(* invariant that keeps the budget: a node that completed is not run again,*)
(* a tail whose effects may have happened is not replaced, and what the    *)
(* job record reports is true of the plan.  They assume that no race of    *)
(* the module is allowed.                                                  *)
(*                                                                         *)
(* What a node has become is written in five places: the plan, the record, *)
(* the loop's object, a patch's copy and, as history, past.  The invariant *)
(* says how far each of them may be behind the others.                     *)
(***************************************************************************)
EXTENDS LogicalPlan_proofs

(* ------------------------- the inductive invariant --------------------- *)

Ended == {n \in Nodes : past[n] \in {"completed", "uncertain"}}
Reopens == loop.pc \in {"reopen", "reopened"}
AtRest == loop.pc \in {"off", "check", "restart", "start"}

\* A patch whose copy is current holds the record; else it holds a copy with
\* the same nodes, but while the loop runs and after a cancel.
CurrentIsRecord == \A c \in Patches : Appending(c) /\ c \in current => patch[c].job = job
CopyIsRecord ==
    \A c \in Patches : Appending(c) /\ loop.pc # "running" /\ job.status # "cancelled" =>
        patch[c].job.nodes = job.nodes /\ patch[c].job.awaiting = job.awaiting

\* Between two windows the loop holds the record, or is about to save over it
\* what no merge will change.
LoopIsRecord ==
    /\ Between => job.status # "running" /\ (loop.pc # "save" => loop.job = job)
    /\ loop.pc = "save" =>
            /\ loop.job = job \/ (job.status \notin Control /\ Stop(job) \subseteq Stop(loop.job))
            /\ loop.next \in {"start", "recover", "restart", "check"}
            /\ loop.next \in {"recover", "check"} => loop.job.status # "running"
            /\ loop.next = "recover" => Open(loop.job) = {} /\ Stop(loop.job) = {}
            /\ loop.next = "start" => loop.job.awaiting = None

\* What the loop has still to run is pending in every copy.
PendingIsPending ==
    loop.pc \in {"launch", "running"} =>
        /\ Open(loop.job) \subseteq Open(job)
        /\ \A c \in Patches : Appending(c) => Open(loop.job) \subseteq Open(patch[c].job)

\* A copy has no node to run that the record does not have.
CopyIsWithin == \A c \in Patches : Appending(c) => Open(patch[c].job) \subseteq Win(job)

\* A window that is committed has come back, and a tail is replaced after that.
Returned(j) == Open(j) = {} /\ Stop(j) = {}
Commits == \/ loop.pc = "refresh" /\ job.status \notin Control \cup {"waiting_approval"}
           \/ loop.pc \in {"load", "commit", "advance"}
WindowIsBack ==
    /\ Commits => /\ Returned(job)
                  /\ job.status = "completed" => \A n \in Nodes : job.nodes[n] \in {"none", "completed"}
    /\ loop.pc \in {"load", "commit", "advance"} =>
            job.status \notin Control \cup {"waiting_approval"}
    /\ loop.pc = "recover" => job.status \in Control \cup {"waiting_approval"} \/ Returned(job)
    /\ loop.pc = "replan" =>
            job.status \notin Control /\ Returned(job)

\* No approval is waited for while the loop runs.
NobodyAsks ==
    /\ loop.pc \in {"start", "launch", "running", "refresh", "load", "commit", "advance"} =>
            job.awaiting = None
    /\ loop.pc \in {"launch", "running"} =>
            /\ loop.job.awaiting = None
            /\ \A c \in Patches : Appending(c) => patch[c].job.awaiting = None

\* The node that waits for an approval has not ended, and is run next.
Asks(j) == j.awaiting # None =>
    /\ j.awaiting \notin Ended
    /\ j.status \in Terminal \/ (j.status = "waiting_approval" /\ j.awaiting \in Open(j))
Questions ==
    /\ Asks(job)
    /\ Holds => Asks(loop.job)
    /\ \A c \in Patches : Appending(c) => Asks(patch[c].job)

\* The plan has what a node became, or the window with it is not committed yet.
InPlan == \A n \in Nodes :
    /\ past[n] = "completed" => plan.nodes[n] \in {"completed", "materialized"}
    /\ past[n] = "uncertain" => n \in Effectful /\ plan.nodes[n] \in {"uncertain", "materialized"}

\* A copy may be behind: a node that has ended may be pending in it, or have
\* been cancelled as such.  What is pending was handed out, and what failed in
\* the plan failed in the copy.
Knows(j, n) ==
    /\ past[n] = "completed" => j.nodes[n] \in {"none", "completed", "pending", "cancelled"}
    /\ past[n] = "uncertain" => j.nodes[n] \in {"uncertain", "pending", "cancelled"}
    /\ j.nodes[n] = "pending" => plan.nodes[n] = "materialized"
    /\ plan.nodes[n] \in FailedNode => j.nodes[n] \in FailedNode \cup {"cancelled"}

\* Nothing that has ended is to be run.
Fresh(j) == Open(j) \cap Ended = {}

JobKnows ==
    ~Reopens =>
        /\ \A n \in Nodes : Knows(job, n)
        /\ loop.pc # "running" => Fresh(job)
LoopKnows ==
    Holds => /\ Fresh(loop.job)
             /\ \A n \in Nodes : Knows(loop.job, n) \/ (Reopens /\ n = loop.job.awaiting)
CopyKnows == \A c \in Patches : Appending(c) => \A n \in Nodes : Knows(patch[c].job, n)
Reopening ==
    Reopens => /\ loop.job.awaiting \in Open(loop.job)
               /\ plan.nodes[loop.job.awaiting] \in {"materialized", "escalated"}

\* A node that may still be asked about is in the plan.  A record whose tail was
\* replaced keeps the nodes of the old one until it is saved, or for good when
\* the new plan has nothing to run.
Askable(j) == \A n \in Nodes : j.nodes[n] = "escalated" =>
                  plan.nodes[n] \in {"materialized", "escalated"}
Superseded == \/ loop.pc = "save" /\ loop.next \in {"restart", "check"}
              \/ loop.pc \in {"off", "check", "restart"} /\ job.status \in {"failed", "cancelled"}
StillAskable ==
    /\ Superseded \/ Askable(job)
    /\ Holds => \/ Askable(loop.job)
                \/ loop.pc = "save" /\ loop.next = "check" /\ loop.job.status = "failed"
    /\ \A c \in Patches : Appending(c) =>
            patch[c].job.status \in Terminal \/ (Askable(patch[c].job) /\ Askable(job))

\* What is reported completed is, and nobody has yet to save otherwise.
Finished == AllCompleted(plan) /\ ReadySlots(plan) = {}
Reported ==
    /\ loop.pc \in {"off", "check", "restart", "recover", "reopen", "reopened", "replan"} =>
            (job.status = "completed" => Finished)
    /\ loop.pc = "save" => (loop.job.status = "completed" => Finished)
    /\ loop.pc \in {"off", "check"} => job.status # "running"
CopyRuns ==
    \A c \in Patches : Appending(c) /\ patch[c].job.status = "running" /\ AtRest =>
        job.status = "running" \/ (job.status \in Control /\ c \notin current)

AppliedOnce == \A c \in Patches : patch[c].pc = "decided" => c \notin plan.applied

RecordInv == CurrentIsRecord /\ CopyIsRecord /\ CopyIsWithin /\ LoopIsRecord /\ PendingIsPending
                /\ WindowIsBack /\ NobodyAsks
EndedInv == Questions /\ InPlan /\ JobKnows /\ LoopKnows /\ CopyKnows /\ Reopening
ReportInv == Reported /\ CopyRuns /\ AppliedOnce

EInv == IInv /\ RecordInv /\ EndedInv /\ StillAskable /\ ReportInv

(* ---------------------- what the steps leave --------------------------- *)

LEMMA LoopIsNoPatch == \A c \in Patches : c # Loop /\ c # "none"
    BY PatchesAreNamed DEF Loop

\* A step of the loop makes no copy of a patch current.
LEMMA LoopOnlyJoins ==
    ASSUME LoopStep, NEW c \in Patches, c \in current'
    PROVE  c \in current /\ job' = job
<1>1. c # Loop /\ current' # {Loop}
    BY LoopIsNoPatch
<1>2. CASE Start \/ Refresh
    BY <1>1, <1>2 DEF Start, Refresh, Fetched
<1>3. CASE Outcome \/ SaveJob \/ Escalate \/ \E n \in Nodes, r \in NodeStatus : NodeEnds(n, r)
    BY <1>1, <1>3 DEF Outcome, SaveJob, Escalate, NodeEnds, Store
<1>4. CASE Check
    BY <1>4 DEF Check
<1>5. CASE ~(Start \/ Refresh \/ Outcome \/ SaveJob \/ Escalate \/ Check
             \/ \E n \in Nodes, r \in NodeStatus : NodeEnds(n, r))
    BY <1>5
    DEF LoopStep, Launch, Load, Commit, FrontierFailed, AwaitPatches, Complete, NextFrontier,
        OutOfPlan, Advanced, GiveUp, RecoveryEnds, Reopen, SaveReopened, LoadReplan, ReplanDeclined,
        Replan, Restart
<1> QED
    BY <1>2, <1>3, <1>4, <1>5

\* A save by the loop takes every node as the loop has it, unless the record
\* was cancelled: a node that the record has as cancelled, the loop has so too.
LEMMA SavedNodes ==
    ASSUME job \in Jobs, NEW o \in Jobs, NEW h, Stop(job) \subseteq Stop(o),
           job.status \notin {"cancelled", "interrupted"}
    PROVE  Saved(h, o).nodes = o.nodes
<1>1. /\ Saved(h, o) \in Jobs /\ Stop(o) \subseteq Stop(Saved(h, o))
      /\ \A n \in Nodes : n \notin Stop(job) => Saved(h, o).nodes[n] = o.nodes[n]
    BY SavedFacts
<1>2. \A n \in Nodes : Saved(h, o).nodes[n] = o.nodes[n]
    BY <1>1 DEF Stop
<1> QED
    BY <1>1, <1>2 DEF Jobs

\* A save over a record that is no control status takes the copy as it is.
LEMMA SavedAsIs ==
    ASSUME job \in Jobs, NEW o \in Jobs, NEW h,
           o = job \/ (job.status \notin Control /\ Stop(job) \subseteq Stop(o))
    PROVE  Saved(h, o) = o
<1>1. CASE h \in current
    BY <1>1 DEF Saved
<1>2. CASE h \notin current
    <2>1. Saved(h, o) = Merge(job, o)
        BY <1>2 DEF Saved
    <2>2. \A n \in Nodes : (/\ job.nodes[n] # "none"
                            /\ o.nodes[n] \notin {"none", "cancelled"}
                            /\ \/ job.nodes[n] = "cancelled"
                               \/ job.status \in {"cancelled", "interrupted"})
                           => job.nodes[n] = o.nodes[n]
        BY DEF Stop, Control
    <2>3. /\ Merge(job, o).status = o.status
          /\ Merge(job, o) = [o EXCEPT !.status = Merge(job, o).status, !.nodes = Merge(job, o).nodes]
          /\ Merge(job, o).nodes = o.nodes
        BY <2>2 DEF Merge, Jobs
    <2>4. [o EXCEPT !.status = o.status, !.nodes = o.nodes] = o
        BY DEF Jobs
    <2> QED
        BY <2>1, <2>3, <2>4
<1> QED
    BY <1>1, <1>2

LEMMA NodeEndsLeaves ==
    ASSUME EInv, NEW n \in Nodes, NEW r \in NodeStatus, NodeEnds(n, r)
    PROVE  /\ loop.pc = "running" /\ loop'.pc = "running" /\ n \in Open(loop.job)
           /\ r \in {"completed", "failed", "escalated", "uncertain"}
           /\ r = "uncertain" => n \in Effectful
           /\ job' = loop'.job /\ job' \in Jobs
           /\ \A m \in Nodes : job'.nodes[m] = IF m = n THEN r ELSE loop.job.nodes[m]
           /\ job'.awaiting = loop.job.awaiting
           /\ plan' = plan /\ patch' = patch
           /\ \A m \in Nodes : past'[m] = IF m = n /\ r \in {"completed", "uncertain"} THEN r ELSE past[m]
<1>0. /\ loop \in Loops /\ loop.job \in Jobs /\ job \in Jobs
      /\ past \in [Nodes -> {"fresh", "handed", "completed", "uncertain"}]
    BY DEF EInv, IInv, Turns, TypeOK, Loops
<1>1. /\ loop.pc = "running" /\ n \in Open(loop.job)
      /\ r \in {"completed", "failed", "escalated", "uncertain"}
      /\ r = "uncertain" => n \in Effectful
      /\ plan' = plan /\ patch' = patch
      /\ past' = [past EXCEPT ![n] = IF r \in {"completed", "uncertain"} THEN r ELSE past[n]]
    BY DEF NodeEnds, clients
<1> DEFINE gate == r = "escalated" /\ n \in Effectful
           o == [loop.job EXCEPT !.nodes[n] = r,
                                 !.status = IF gate THEN "waiting_approval" ELSE @]
<1>2. /\ o \in Jobs /\ o.nodes = [loop.job.nodes EXCEPT ![n] = r]
      /\ o.awaiting = loop.job.awaiting
    BY <1>0 DEF Jobs, JobStatus
<1>3. job' = Saved(Loop, o) /\ loop'.job = Saved(Loop, o) /\ loop'.pc = "running"
    BY <1>0, <1>1 DEF NodeEnds, Store, Stored, Loops
<1> HIDE DEF o
<1>4. \A m \in Nodes : o.nodes[m] = IF m = n THEN r ELSE loop.job.nodes[m]
    BY <1>0, <1>2 DEF Jobs
<1>5. Stop(job) \subseteq Stop(o) /\ job.status \notin {"cancelled", "interrupted"}
    <2>1. Stop(job) \subseteq Stop(loop.job) /\ job.status \notin {"cancelled", "interrupted"}
        BY <1>1 DEF EInv, IInv, Stops, LoopKnowsStops, NotStopped, Runs
    <2>2. Stop(o) = Stop(loop.job)
        BY <1>1, <1>4 DEF Stop, Open
    <2> QED
        BY <2>1, <2>2
<1>6. job'.nodes = o.nodes /\ job' \in Jobs /\ job'.awaiting = o.awaiting
    BY <1>0, <1>2, <1>3, <1>5, SavedNodes, SavedFacts
<1> QED
    BY <1>0, <1>1, <1>2, <1>3, <1>4, <1>6

LEMMA OutcomeLeaves ==
    ASSUME EInv, Outcome, Races = {}
    PROVE  /\ loop.pc \in {"launch", "running"} /\ loop'.pc = "refresh"
           /\ job' = loop'.job /\ job' \in Jobs
           /\ job'.nodes = loop.job.nodes /\ job'.awaiting = loop.job.awaiting
           /\ job'.status # "running"
           /\ job'.status \notin Control \cup {"waiting_approval"} => Returned(loop.job)
           /\ job'.status = "completed" => \A n \in Nodes : loop.job.nodes[n] \in {"none", "completed"}
           /\ plan' = plan /\ patch' = patch /\ past' = past
           /\ \A c \in Patches : ~Appending(c)
<1>0. loop \in Loops /\ loop.job \in Jobs /\ job \in Jobs
    BY DEF EInv, IInv, Turns, TypeOK, Loops
<1> DEFINE s == IF loop.next = "stopped" THEN "waiting_approval"
                ELSE IF Open(loop.job) = {} THEN Derived(loop.job) ELSE "paused"
           o == [loop.job EXCEPT !.status = s]
<1>1. /\ s \in JobStatus /\ s # "running"
      /\ s \notin Control \cup {"waiting_approval"} => Returned(loop.job)
      /\ s = "completed" => \A n \in Nodes : loop.job.nodes[n] \in {"none", "completed"}
    BY DEF Derived, JobStatus, Control, Returned, Stop
<1>2. /\ job' = Saved(Loop, o)
      /\ loop'.job = Saved(Loop, o) /\ loop'.pc = "refresh"
    BY <1>0 DEF Outcome, Store, Stored, Loops
<1>3. /\ plan' = plan /\ past' = past /\ patch' = patch /\ loop.pc \in {"launch", "running"}
      /\ \A c \in Patches : ~Appending(c)
    BY DEF Outcome, Alone, clients
<1> HIDE DEF s
<1>4. /\ o \in Jobs /\ o.status = s
      /\ o.nodes = loop.job.nodes /\ o.awaiting = loop.job.awaiting
    BY <1>0, <1>1 DEF Jobs
<1> HIDE DEF o
<1>5. Stop(job) \subseteq Stop(o) /\ job.status \notin {"cancelled", "interrupted"}
    BY <1>3, <1>4 DEF EInv, IInv, Stops, LoopKnowsStops, NotStopped, Runs, Stop
<1>6. /\ job'.nodes = o.nodes /\ job' \in Jobs /\ job'.awaiting = o.awaiting
      /\ job'.status = s \/ job'.status = "paused"
    BY <1>0, <1>2, <1>4, <1>5, SavedNodes, SavedFacts DEF Control
<1> QED
    BY <1>1, <1>2, <1>3, <1>4, <1>6 DEF Control

LEMMA SaveJobLeaves ==
    ASSUME EInv, SaveJob
    PROVE  /\ loop.pc = "save" /\ job' = loop.job /\ job' \in Jobs
           /\ loop'.pc = loop.next
           /\ loop.next = "recover" => loop'.job = loop.job
           /\ plan' = plan /\ patch' = patch /\ past' = past
<1>0. loop.job \in Jobs /\ job \in Jobs /\ TypeOK
    BY DEF EInv, IInv, Turns, TypeOK, Loops
<1>1. /\ job' = Saved(Loop, loop.job)
      /\ loop'.pc = loop.next
      /\ loop.next = "recover" => loop'.job = Saved(Loop, loop.job)
      /\ plan' = plan /\ past' = past /\ loop.pc = "save"
    BY <1>0, SaveJobFacts
<1>2. loop.job = job \/ (job.status \notin Control /\ Stop(job) \subseteq Stop(loop.job))
    BY <1>1 DEF EInv, RecordInv, LoopIsRecord
<1>3. Saved(Loop, loop.job) = loop.job
    BY <1>0, <1>2, SavedAsIs
<1> QED
    BY <1>0, <1>1, <1>3 DEF SaveJob, clients

LEMMA EscalateLeaves ==
    ASSUME EInv, Escalate
    PROVE  \E n \in Nodes :
           /\ loop.pc = "recover" /\ loop'.pc = "reopen"
           /\ loop.job = job /\ job.status \notin Control
           /\ job' = loop'.job /\ job' \in Jobs
           /\ job.nodes[n] = "escalated"
           /\ \A m \in Nodes : job'.nodes[m] = IF m = n THEN "pending" ELSE job.nodes[m]
           /\ job'.awaiting = n /\ job'.status = "waiting_approval"
           /\ plan' = plan /\ patch' = patch /\ past' = past
<1>0. loop \in Loops /\ loop.job \in Jobs /\ job \in Jobs
    BY DEF EInv, IInv, Turns, TypeOK, Loops
<1>1. PICK n \in Escalated(loop.job) :
          LET o == [loop.job EXCEPT !.nodes[n] = "pending", !.awaiting = n,
                                    !.status = "waiting_approval"]
          IN  /\ Store(o)
              /\ loop' = [loop EXCEPT
                    !.pc = IF Saved(Loop, o).status = "waiting_approval"
                           THEN "reopen" ELSE "restart",
                    !.job = Saved(Loop, o)]
    BY DEF Escalate
<1> DEFINE o == [loop.job EXCEPT !.nodes[n] = "pending", !.awaiting = n,
                                 !.status = "waiting_approval"]
<1>2. /\ loop.pc = "recover" /\ loop.job.status \notin Control
      /\ plan' = plan /\ past' = past /\ patch' = patch
    BY DEF Escalate, Recovering, clients
<1>3. loop.job = job
    BY <1>2 DEF EInv, RecordInv, LoopIsRecord, Between
<1>4. n \in Nodes /\ loop.job.nodes[n] = "escalated"
    BY DEF Escalated
<1>5. /\ o \in Jobs /\ o.awaiting = n /\ o.status = "waiting_approval"
      /\ o.nodes = [loop.job.nodes EXCEPT ![n] = "pending"]
    BY <1>0, <1>4 DEF Jobs, JobStatus, NodeStatus
<1>6. \A m \in Nodes : o.nodes[m] = IF m = n THEN "pending" ELSE loop.job.nodes[m]
    BY <1>0, <1>5 DEF Jobs
<1>7. Saved(Loop, o) = o
    <2> HIDE DEF o
    <2>1. Stop(job) \subseteq Stop(o)
        BY <1>3, <1>4, <1>6 DEF Stop
    <2> QED
        BY <1>0, <1>2, <1>3, <1>5, <2>1, SavedAsIs
<1>8. job' = o /\ loop'.job = o /\ loop'.pc = "reopen"
    BY <1>0, <1>1, <1>5, <1>7 DEF Store, Stored, Loops
<1> HIDE DEF o
<1> QED
    BY <1>2, <1>3, <1>4, <1>5, <1>6, <1>8
LEMMA CommitLeaves ==
    ASSUME EInv, Commit
    PROVE  /\ loop.pc = "commit" /\ loop'.pc = "advance" /\ loop'.job = loop.job /\ loop.job = job
           /\ \A n \in Nodes : plan'.nodes[n] =
                  IF job.nodes[n] # "none" /\ plan.nodes[n] \in {"materialized", "pending"}
                  THEN job.nodes[n] ELSE plan.nodes[n]
           /\ plan'.revision = plan.revision /\ plan'.applied = plan.applied
           /\ job' = job /\ patch' = patch /\ past' = past
<1>0. loop \in Loops /\ loop.job \in Jobs /\ plan \in Plans /\ loop.pc = "commit" /\ loop.plan = plan
    BY DEF EInv, IInv, Turns, LoopIsCurrent, TypeOK, Loops, Commit
<1>1. loop.job = job
    BY <1>0 DEF EInv, RecordInv, LoopIsRecord, Between
<1>2. /\ loop'.pc = "advance" /\ loop'.job = loop.job
      /\ plan' = Committed(plan, job.nodes)
      /\ job' = job /\ patch' = patch /\ past' = past
    BY <1>0, <1>1 DEF Commit, Loops, clients, history
<1>3. /\ Committed(plan, job.nodes).nodes
                = [n \in Nodes |-> IF n \in Back(plan, job) THEN job.nodes[n] ELSE plan.nodes[n]]
      /\ Committed(plan, job.nodes).applied = plan.applied
    BY <1>0, <1>1, CommittedFacts
<1>4. Committed(plan, job.nodes).revision = plan.revision
    BY <1>0 DEF Committed, Plans
<1>5. \A n \in Nodes : n \in Back(plan, job) <=>
          job.nodes[n] # "none" /\ plan.nodes[n] \in {"materialized", "pending"}
    BY DEF Back, Win
<1> QED
    BY <1>0, <1>1, <1>2, <1>3, <1>4, <1>5

LEMMA SaveReopenedLeaves ==
    ASSUME EInv, SaveReopened
    PROVE  /\ loop.pc = "reopened" /\ loop'.pc = "save" /\ loop'.next = "restart"
           /\ loop'.job = loop.job /\ loop.job = job
           /\ \A n \in Nodes : plan'.nodes[n] =
                  IF job.nodes[n] = "pending" /\ plan.nodes[n] # "none"
                  THEN "materialized" ELSE plan.nodes[n]
           /\ plan'.revision = plan.revision /\ plan'.applied = plan.applied
           /\ job' = job /\ patch' = patch /\ past' = past
<1>0. /\ loop \in Loops /\ loop.job \in Jobs /\ plan \in Plans
      /\ loop.pc = "reopened" /\ loop.plan = plan
    BY DEF EInv, IInv, Turns, LoopIsCurrent, TypeOK, Loops, SaveReopened
<1>1. loop.job = job
    BY <1>0 DEF EInv, RecordInv, LoopIsRecord, Between
<1>2. /\ loop'.pc = "save" /\ loop'.next = "restart" /\ loop'.job = loop.job
      /\ job' = job /\ patch' = patch /\ past' = past
    BY <1>0 DEF SaveReopened, Loops, clients, history
<1>3. plan' = [plan EXCEPT !.nodes = [n \in Nodes |->
                    IF n \in Open(job) /\ plan.nodes[n] # "none" THEN "materialized" ELSE plan.nodes[n]]]
    BY <1>0, <1>1 DEF SaveReopened
<1>4. \A n \in Nodes : n \in Open(job) <=> job.nodes[n] = "pending"
    BY DEF Open
<1> QED
    BY <1>0, <1>1, <1>2, <1>3, <1>4 DEF Plans

\* The window that is materialized, and what a replacement leaves of the plan.
LEMMA NextFrontierLeaves ==
    ASSUME EInv, NextFrontier
    PROVE  /\ loop.pc = "advance" /\ loop'.pc = "save" /\ loop'.next = "start"
           /\ loop.job = job /\ ~Broken /\ loop.plan = plan
           /\ loop'.job.status = "running" /\ loop'.job.awaiting = None
           /\ \A n \in Nodes : \/ /\ plan.nodes[n] = "pending" /\ plan'.nodes[n] = "materialized"
                                  /\ loop'.job.nodes[n] = "pending"
                               \/ /\ plan'.nodes[n] = plan.nodes[n]
                                  /\ loop'.job.nodes[n] = "none"
           /\ plan'.revision = plan.revision /\ plan'.applied = plan.applied
           /\ job' = job /\ patch' = patch /\ past' = past
<1>0. plan \in Plans /\ Turns
    BY DEF EInv, IInv, Turns, TypeOK
<1>1. /\ loop.pc = "advance" /\ loop'.pc = "save" /\ loop'.next = "start"
      /\ loop'.job.nodes = Window(plan) /\ loop'.job.awaiting = None
      /\ loop'.job.status = "running"
      /\ plan' = Materialized(plan) /\ job' = job /\ past' = past
    BY <1>0, NextFrontierFacts
<1>2. loop.job = job /\ ~Broken /\ loop.plan = plan /\ patch' = patch
    BY <1>1 DEF EInv, RecordInv, LoopIsRecord, Between, NextFrontier, Advanced, clients,
                IInv, Turns, LoopIsCurrent
<1>3. /\ \A n \in Frontier(plan) : plan.nodes[n] = "pending"
      /\ plan'.nodes = [n \in Nodes |-> IF n \in Frontier(plan) THEN "materialized" ELSE plan.nodes[n]]
      /\ plan'.applied = plan.applied
    BY <1>0, <1>1, MaterializedFacts
<1>4. plan'.revision = plan.revision
    BY <1>0, <1>1 DEF Materialized, Plans
<1> QED
    BY <1>1, <1>2, <1>3, <1>4 DEF Window

LEMMA ReplanLeaves ==
    ASSUME EInv, Replan
    PROVE  /\ loop.pc = "replan" /\ loop'.pc = "save"
           /\ loop.job = job /\ MayReplan(job, plan)
           /\ \/ /\ loop'.next = "check" /\ loop'.job.status = "failed"
                 /\ loop'.job.nodes = job.nodes /\ loop'.job.awaiting = job.awaiting
                 /\ \A n \in Nodes : plan'.nodes[n] \in {"pending", "none"}
                        \/ (plan.nodes[n] = "completed" /\ plan'.nodes[n] = "completed")
              \/ /\ loop'.next = "restart" /\ loop'.job.status = "running"
                 /\ loop'.job.awaiting = None
                 /\ \A n \in Nodes :
                        \/ /\ plan.nodes[n] # "completed" /\ plan'.nodes[n] = "materialized"
                           /\ loop'.job.nodes[n] = "pending"
                        \/ plan'.nodes[n] \in {"pending", "none"} /\ loop'.job.nodes[n] = "none"
                        \/ /\ plan.nodes[n] = "completed" /\ plan'.nodes[n] = "completed"
                           /\ loop'.job.nodes[n] = "none"
           /\ \A n \in Nodes : plan.nodes[n] = "completed" => plan'.nodes[n] = "completed"
           /\ plan'.applied = plan.applied
           /\ job' = job /\ patch' = patch /\ past' = past
<1>0. /\ loop \in Loops /\ loop.job \in Jobs /\ plan \in Plans
      /\ loop.pc = "replan" /\ loop.plan = plan
    BY DEF EInv, IInv, Turns, LoopIsCurrent, TypeOK, Loops, Replan
<1>1. loop.job = job
    BY <1>0 DEF EInv, RecordInv, LoopIsRecord, Between
<1> DEFINE p == Replaced(plan, Tails[job.replans + 1])
<1>2. job.replans + 1 \in 1 .. Len(Tails) /\ MayReplan(job, plan)
    BY <1>0, <1>1, LenIsNat DEF Replan, MayReplan, Jobs
<1>3. p \in Plans /\ p.applied = plan.applied
    BY <1>0, <1>2, LenIsNat, ReplacedFacts
<1>4. p.nodes = [n \in Nodes |-> IF plan.nodes[n] = "completed" THEN "completed"
                                 ELSE IF n \in Tails[job.replans + 1] THEN "pending" ELSE "none"]
    BY <1>0 DEF Replaced, Plans
<1>5. \A n \in Nodes : \/ plan.nodes[n] = "completed" /\ p.nodes[n] = "completed"
                       \/ plan.nodes[n] # "completed" /\ p.nodes[n] \in {"pending", "none"}
    BY <1>4
<1>6. /\ plan' = Materialized(p)
      /\ loop' = IF Frontier(p) = {}
                 THEN [loop EXCEPT !.pc = "save", !.job = [loop.job EXCEPT !.status = "failed"],
                                   !.next = "check"]
                 ELSE [loop EXCEPT !.pc = "save", !.next = "restart",
                         !.job = [loop.job EXCEPT !.status = "running", !.nodes = Window(p),
                                                  !.awaiting = None, !.replans = @ + 1]]
      /\ job' = job /\ patch' = patch /\ past' = past
    BY <1>0, <1>1 DEF Replan, clients, history
<1> HIDE DEF p
<1>7. /\ \A n \in Frontier(p) : p.nodes[n] = "pending"
      /\ \A n \in Nodes : plan'.nodes[n] = IF n \in Frontier(p) THEN "materialized" ELSE p.nodes[n]
      /\ plan'.applied = p.applied
    BY <1>3, <1>6, MaterializedFacts
<1>8. CASE Frontier(p) = {}
    <2>1. /\ loop'.pc = "save" /\ loop'.next = "check" /\ loop'.job.status = "failed"
          /\ loop'.job.nodes = job.nodes /\ loop'.job.awaiting = job.awaiting
        BY <1>0, <1>1, <1>6, <1>8 DEF Loops, Jobs
    <2>2. \A n \in Nodes : plan'.nodes[n] = p.nodes[n]
        BY <1>7, <1>8
    <2> QED
        BY <1>0, <1>1, <1>2, <1>3, <1>5, <1>6, <1>7, <2>1, <2>2
<1>9. CASE Frontier(p) # {}
    <2>1. /\ loop'.pc = "save" /\ loop'.next = "restart" /\ loop'.job.status = "running"
          /\ loop'.job.nodes = Window(p) /\ loop'.job.awaiting = None
        BY <1>0, <1>1, <1>6, <1>9 DEF Loops, Jobs
    <2>2. \A n \in Nodes : loop'.job.nodes[n] = IF n \in Frontier(p) THEN "pending" ELSE "none"
        BY <2>1 DEF Window
    <2>3. \A n \in Nodes :
              \/ /\ plan.nodes[n] # "completed" /\ plan'.nodes[n] = "materialized"
                 /\ loop'.job.nodes[n] = "pending"
              \/ plan'.nodes[n] \in {"pending", "none"} /\ loop'.job.nodes[n] = "none"
              \/ /\ plan.nodes[n] = "completed" /\ plan'.nodes[n] = "completed"
                 /\ loop'.job.nodes[n] = "none"
        BY <1>5, <1>7, <2>2
    <2>4. \A n \in Nodes : plan.nodes[n] = "completed" => plan'.nodes[n] = "completed"
        BY <1>5, <1>7
    <2> QED
        BY <1>0, <1>1, <1>2, <1>3, <1>6, <1>7, <2>1, <2>3, <2>4
<1> QED
    BY <1>8, <1>9

\* What the end of a plan leaves: nothing, or a status.
LEMMA StayLeaves ==
    ASSUME EInv, FrontierFailed \/ AwaitPatches \/ Complete \/ OutOfPlan
    PROVE  /\ loop.pc = "advance" /\ loop'.pc = "save" /\ loop'.next = "recover"
           /\ loop.job = job
           /\ loop'.job.nodes = job.nodes /\ loop'.job.awaiting = job.awaiting
           /\ \/ Broken /\ loop'.job = job
              \/ loop'.job.status \in {"paused", "failed"}
              \/ loop'.job.status = "completed" /\ Finished
           /\ plan' = plan /\ job' = job /\ patch' = patch /\ past' = past
<1>0. loop \in Loops /\ loop.job \in Jobs /\ Turns
    BY DEF EInv, IInv, Turns, TypeOK, Loops
<1>1. /\ loop.pc = "advance" /\ loop'.pc = "save" /\ loop'.next = "recover"
      /\ loop'.job.nodes = loop.job.nodes /\ loop'.job.awaiting = loop.job.awaiting
      /\ plan' = plan /\ job' = job /\ past' = past
    BY <1>0, StayFacts
<1>2. loop.job = job /\ loop.plan = plan
    BY <1>1 DEF EInv, RecordInv, LoopIsRecord, Between, IInv, Turns, LoopIsCurrent
<1>3. patch' = patch
    BY DEF FrontierFailed, AwaitPatches, Complete, OutOfPlan, Advanced, clients
<1>4. FrontierFailed => Broken /\ loop'.job = job
    BY <1>0, <1>2 DEF FrontierFailed, Loops
<1>5. ASSUME AwaitPatches PROVE loop'.job.status = "paused"
    <2>1. loop'.job = [loop.job EXCEPT !.status = "paused", !.waits = TRUE]
        BY <1>0, <1>5 DEF AwaitPatches, Advanced, Loops
    <2> QED
        BY <1>0, <2>1 DEF Jobs
<1>6. Complete => loop'.job.status = "completed" /\ Finished
    BY <1>0, <1>2 DEF Complete, Advanced, Finished, Loops, Jobs
<1>7. OutOfPlan => loop'.job.status = "failed"
    BY <1>0 DEF OutOfPlan, Advanced, Loops, Jobs
<1> QED
    BY <1>1, <1>2, <1>3, <1>4, <1>5, <1>6, <1>7

\* Nothing is still running when the loop ends, so the record stays.
LEMMA CheckLeaves ==
    ASSUME EInv, Check
    PROVE  /\ loop.pc = "check" /\ loop'.pc = "off" /\ job' = job
           /\ plan' = plan /\ patch' = patch /\ past' = past
<1>1. TypeOK /\ patch' = patch
    BY DEF EInv, IInv, Turns, Check, clients
<1>2. loop.pc = "check" /\ loop'.pc = "off" /\ plan' = plan /\ past' = past
    BY <1>1, CheckFacts
<1>3. job.status # "running"
    BY <1>2 DEF EInv, ReportInv, Reported
<1> QED
    BY <1>1, <1>2, <1>3 DEF Check

(* ----------------- who holds what of the record ------------------------ *)

\* No patch is appended before or after a step that the loop takes between
\* two windows.
LEMMA NobodyAppends ==
    ASSUME EInv, IInv', LoopStep, Between \/ Between'
    PROVE  /\ \A c \in Patches : ~Appending(c)
           /\ \A c \in Patches : ~(Appending(c)')
    BY LoopKeepsPatches DEF EInv, IInv, Turns, OneAtATime, Appending

LEMMA LoopCopies ==
    ASSUME EInv, IInv', LoopStep, Races = {}
    PROVE  CurrentIsRecord' /\ CopyIsRecord' /\ CopyIsWithin'
<1>1. patch' = patch
    BY LoopKeepsPatches
<1>2. ASSUME NEW c \in Patches, Appending(c)', c \in current'
      PROVE  patch'[c].job = job'
    <2>1. c \in current /\ job' = job
        BY <1>2, LoopOnlyJoins
    <2> QED
        BY <1>1, <1>2, <2>1 DEF EInv, RecordInv, CurrentIsRecord, Appending
<1>3. CopyIsRecord /\ CopyIsWithin
    BY DEF EInv, RecordInv
<1> SUFFICES CopyIsRecord' /\ CopyIsWithin'
    BY <1>2 DEF CurrentIsRecord
<1>4. CASE Between \/ Between'
    BY <1>4, NobodyAppends DEF CopyIsRecord, CopyIsWithin
<1>5. CASE ~Between /\ ~Between'
    <2>1. TypeOK
        BY DEF EInv, IInv, Turns
    <2>2. ASSUME NEW n \in Nodes, NEW r \in NodeStatus, NodeEnds(n, r)
          PROVE  CopyIsRecord' /\ CopyIsWithin'
        <3>1. /\ loop.pc = "running" /\ loop'.pc = "running" /\ n \in Open(loop.job)
              /\ r \in {"completed", "failed", "escalated", "uncertain"}
              /\ \A m \in Nodes : job'.nodes[m] = IF m = n THEN r ELSE loop.job.nodes[m]
            BY <2>2, NodeEndsLeaves
        <3>2. Win(job') = Win(loop.job)
            BY <3>1 DEF Win, Open
        <3>3. Handed \subseteq Win(loop.job)
            BY <3>1 DEF EInv, IInv, Windows, LoopHasWindow, Holds
        <3>4. \A c \in Patches : Appending(c) => Open(patch[c].job) \subseteq Handed
            BY DEF EInv, EndedInv, CopyKnows, Knows, Open, Handed, Progress
        <3> QED
            BY <1>1, <3>1, <3>2, <3>3, <3>4 DEF CopyIsRecord, CopyIsWithin, Appending
    <2>3. ASSUME job' = job, loop.pc # "running" \/ loop'.pc = "running"
          PROVE  CopyIsRecord' /\ CopyIsWithin'
        BY <1>1, <1>3, <2>3 DEF CopyIsRecord, CopyIsWithin, Appending, Win
    <2>4. CASE Start \/ Launch \/ Restart
        BY <2>1, <2>3, <2>4, MoveFacts
    <2>5. CASE Check
        BY <2>3, <2>5, CheckLeaves
    <2>6. CASE Outcome
        BY <1>5, <2>6, OutcomeLeaves DEF Between
    <2> QED
        BY <1>5, <2>2, <2>4, <2>5, <2>6
        DEF LoopStep, Between, Refresh, Load, Commit, FrontierFailed, AwaitPatches, Complete,
            NextFrontier, OutOfPlan, Advanced, SaveJob, GiveUp, Escalate, Recovering, RecoveryEnds, Reopen,
            SaveReopened, LoadReplan, ReplanDeclined, Replan
<1> QED
    BY <1>4, <1>5

LoopKeeps == LoopIsRecord /\ PendingIsPending /\ WindowIsBack /\ NobodyAsks

LEMMA LoopRecord ==
    ASSUME EInv, IInv', LoopStep, Races = {}
    PROVE  RecordInv'
<1>0. /\ TypeOK /\ LoopIsRecord /\ PendingIsPending /\ WindowIsBack /\ NobodyAsks /\ CopyIsRecord
      /\ loop \in Loops /\ job \in Jobs
    BY DEF EInv, IInv, Turns, RecordInv, TypeOK
<1> SUFFICES LoopKeeps'
    BY LoopCopies DEF RecordInv, LoopKeeps
<1>a. patch' = patch /\ (Between \/ Between' => \A c \in Patches : ~Appending(c)')
    BY LoopKeepsPatches, NobodyAppends
<1> USE DEF LoopKeeps, Between, Returned
<1>1. CASE Start
    <2>1. /\ loop.pc = "start" /\ loop'.pc = "launch" /\ loop'.job = job /\ job' = job
        BY <1>0, <1>1, MoveFacts
    <2>2. job.status # "cancelled"
        BY <2>1 DEF EInv, IInv, Stops, NotStopped
    <2>3. PendingIsPending'
        BY <1>0, <1>a, <2>1, <2>2 DEF PendingIsPending, CopyIsRecord, Appending, Open
    <2>4. NobodyAsks'
        BY <1>0, <1>a, <2>1, <2>2 DEF NobodyAsks, CopyIsRecord, Appending
    <2> QED
        BY <2>1, <2>3, <2>4 DEF LoopIsRecord, WindowIsBack, Commits
<1>2. CASE Launch
    <2>1. /\ loop.pc = "launch" /\ loop'.pc = "running" /\ loop'.job = loop.job /\ job' = job
        BY <1>0, <1>2, MoveFacts
    <2> QED
        BY <1>0, <1>a, <2>1
        DEF LoopIsRecord, WindowIsBack, Commits, PendingIsPending, NobodyAsks, Appending, Open
<1>3. ASSUME NEW n \in Nodes, NEW r \in NodeStatus, NodeEnds(n, r)
      PROVE  LoopKeeps'
    <2>1. /\ loop.pc = "running" /\ loop'.pc = "running" /\ n \in Open(loop.job)
          /\ r \in {"completed", "failed", "escalated", "uncertain"}
          /\ job' = loop'.job
          /\ \A m \in Nodes : job'.nodes[m] = IF m = n THEN r ELSE loop.job.nodes[m]
          /\ job'.awaiting = loop.job.awaiting
        BY <1>3, NodeEndsLeaves
    <2>2. Open(job') = Open(loop.job) \ {n}
        BY <2>1 DEF Open
    <2> QED
        BY <1>0, <1>a, <2>1, <2>2
        DEF LoopIsRecord, WindowIsBack, Commits, PendingIsPending, NobodyAsks, Appending
<1>4. CASE Outcome
    <2>1. /\ loop.pc \in {"launch", "running"} /\ loop'.pc = "refresh"
          /\ job' = loop'.job
          /\ job'.nodes = loop.job.nodes /\ job'.awaiting = loop.job.awaiting
          /\ job'.status # "running"
          /\ job'.status \notin Control \cup {"waiting_approval"} => Returned(loop.job)
          /\ job'.status = "completed" => \A n \in Nodes : loop.job.nodes[n] \in {"none", "completed"}
        BY <1>4, OutcomeLeaves
    <2>2. Open(job') = Open(loop.job) /\ Stop(job') = Stop(loop.job)
        BY <2>1 DEF Open, Stop
    <2> QED
        BY <1>0, <2>1, <2>2 DEF LoopIsRecord, WindowIsBack, Commits, PendingIsPending, NobodyAsks
<1>5. CASE Refresh \/ Load
    <2>1. /\ job' = job
          /\ Refresh => /\ loop.pc = "refresh" /\ loop'.job = job
                        /\ loop'.pc = IF job.status \in Control \cup {"waiting_approval"}
                                      THEN "recover" ELSE "load"
          /\ Load => loop.pc = "load" /\ loop'.pc = "commit" /\ loop'.job = loop.job
        BY <1>0, <1>5, MoveFacts
    <2> QED
        BY <1>0, <1>5, <2>1
        DEF LoopIsRecord, WindowIsBack, Commits, PendingIsPending, NobodyAsks, Open, Stop
<1>6. CASE Commit
    <2>1. loop.pc = "commit" /\ loop'.pc = "advance" /\ loop'.job = job /\ job' = job
        BY <1>6, CommitLeaves
    <2> QED
        BY <1>0, <2>1 DEF LoopIsRecord, WindowIsBack, Commits, PendingIsPending, NobodyAsks, Open, Stop
<1>7. CASE FrontierFailed \/ AwaitPatches \/ Complete \/ OutOfPlan
    <2>1. /\ loop.pc = "advance" /\ loop'.pc = "save" /\ loop'.next = "recover"
          /\ loop'.job.nodes = job.nodes /\ job' = job
          /\ loop'.job.status # "running"
        BY <1>0, <1>7, StayLeaves DEF LoopIsRecord
    <2>2. Open(loop'.job) = Open(job) /\ Stop(loop'.job) = Stop(job)
        BY <2>1 DEF Open, Stop
    <2>3. Returned(job) /\ job.status \notin Control
        BY <1>0, <2>1 DEF WindowIsBack, Commits
    <2> QED
        BY <1>0, <2>1, <2>2, <2>3
        DEF LoopIsRecord, WindowIsBack, Commits, PendingIsPending, NobodyAsks, Stop
<1>8. CASE NextFrontier
    <2>1. /\ loop.pc = "advance" /\ loop'.pc = "save" /\ loop'.next = "start"
          /\ loop'.job.awaiting = None /\ job' = job
        BY <1>8, NextFrontierLeaves
    <2>2. Returned(job) /\ job.status \notin Control
        BY <1>0, <2>1 DEF WindowIsBack, Commits
    <2> QED
        BY <1>0, <2>1, <2>2 DEF LoopIsRecord, WindowIsBack, Commits, PendingIsPending, NobodyAsks, Stop
<1>9. CASE SaveJob
    <2>1. /\ loop.pc = "save" /\ job' = loop.job
          /\ loop'.pc = loop.next
          /\ loop.next = "recover" => loop'.job = loop.job
        BY <1>9, SaveJobLeaves
    <2> QED
        BY <1>0, <2>1
        DEF LoopIsRecord, WindowIsBack, Commits, PendingIsPending, NobodyAsks, Open, Stop
<1>10. CASE GiveUp \/ Check
    <2>1. loop'.pc \in {"off", "check"}
        BY <1>0, <1>10, CheckLeaves, MoveFacts
    <2> QED
        BY <2>1 DEF LoopIsRecord, WindowIsBack, Commits, PendingIsPending, NobodyAsks
<1>11. CASE Escalate
    <2>1. loop'.pc = "reopen" /\ job' = loop'.job /\ job'.status = "waiting_approval"
        BY <1>11, EscalateLeaves
    <2> QED
        BY <2>1 DEF LoopIsRecord, WindowIsBack, Commits, PendingIsPending, NobodyAsks
<1>12. CASE Reopen
    <2>1. loop.pc = "reopen" /\ loop'.pc = "reopened" /\ loop'.job = loop.job /\ job' = job
        BY <1>0, <1>12, MoveFacts
    <2> QED
        BY <1>0, <2>1 DEF LoopIsRecord, WindowIsBack, Commits, PendingIsPending, NobodyAsks
<1>13. CASE SaveReopened
    <2>1. /\ loop.pc = "reopened" /\ loop'.pc = "save" /\ loop'.next = "restart"
          /\ loop.job = job /\ loop'.job = job /\ job' = job
        BY <1>13, SaveReopenedLeaves
    <2> QED
        BY <1>0, <2>1 DEF LoopIsRecord, WindowIsBack, Commits, PendingIsPending, NobodyAsks
<1>14. CASE LoadReplan
    <2>1. /\ loop.pc = "recover" /\ loop'.pc = "replan" /\ loop'.job = loop.job
          /\ loop.job.status \notin Control \cup {"waiting_approval"} /\ job' = job
        BY <1>0, <1>14, MoveFacts
    <2>2. loop.job = job
        BY <1>0, <2>1 DEF LoopIsRecord
    <2>3. Returned(job)
        BY <1>0, <2>1, <2>2 DEF WindowIsBack
    <2> QED
        BY <1>0, <2>1, <2>2, <2>3
        DEF LoopIsRecord, WindowIsBack, Commits, PendingIsPending, NobodyAsks, Open, Stop
<1>15. CASE ReplanDeclined
    <2>1. /\ loop.pc = "replan" /\ loop'.pc = "save" /\ loop'.next = "check"
          /\ loop'.job = loop.job /\ job' = job
        BY <1>0, <1>15, MoveFacts
    <2> QED
        BY <1>0, <2>1 DEF LoopIsRecord, WindowIsBack, Commits, PendingIsPending, NobodyAsks
<1>16. CASE Replan
    <2>1. /\ loop.pc = "replan" /\ loop'.pc = "save" /\ job' = job
          /\ \/ loop'.next = "check" /\ loop'.job.status = "failed"
             \/ loop'.next = "restart"
        BY <1>16, ReplanLeaves
    <2> QED
        BY <1>0, <2>1 DEF LoopIsRecord, WindowIsBack, Commits, PendingIsPending, NobodyAsks, Stop
<1>17. CASE Restart
    <2>1. /\ loop.pc = "restart" /\ job' = job
          /\ loop'.pc = IF job.status = "running" THEN "start" ELSE "check"
        BY <1>0, <1>17, MoveFacts
    <2>2. job.status = "running" => job.awaiting = None
        BY <2>1 DEF EInv, EndedInv, Questions, Asks, Terminal
    <2> QED
        BY <2>1, <2>2 DEF LoopIsRecord, WindowIsBack, Commits, PendingIsPending, NobodyAsks
<1>18. CASE RecoveryEnds
    <2>1. /\ loop.pc = "recover" /\ loop'.pc = "save" /\ loop'.next = "check"
          /\ loop'.job.nodes = loop.job.nodes /\ loop'.job.status \in {"failed", "clarified"}
          /\ job' = job /\ loop.job.status \notin Control
        BY <1>0, <1>18, MoveFacts DEF RecoveryEnds, Recovering
    <2>2. loop.job = job
        BY <1>0, <2>1 DEF LoopIsRecord
    <2> QED
        BY <1>0, <2>1, <2>2 DEF LoopIsRecord, WindowIsBack, Commits, PendingIsPending, NobodyAsks, Stop
<1> QED
    BY <1>1, <1>2, <1>3, <1>4, <1>5, <1>6, <1>7, <1>8, <1>9, <1>10, <1>11, <1>12, <1>13, <1>14,
       <1>15, <1>16, <1>17, <1>18 DEF LoopStep

LEMMA RequestLeaves ==
    ASSUME EInv, Cancel \/ Pause \/ Resume \/ Approve \/ Reject, Races = {}
    PROVE  /\ plan' = plan /\ patch' = patch /\ past' = past /\ current' = {}
           /\ \/ /\ loop'.pc = "off" /\ job'.status = "cancelled" /\ job'.awaiting = job.awaiting
                 /\ \A n \in Nodes : job'.nodes[n] =
                        IF job.nodes[n] = "pending" THEN "cancelled" ELSE job.nodes[n]
              \/ /\ loop' = loop /\ job.status = "running" /\ job'.status = "paused"
                 /\ job'.nodes = job.nodes /\ job'.awaiting = job.awaiting
              \/ /\ loop.pc = "off" /\ loop'.pc = "start"
                 /\ job.status = "paused" /\ job'.status = "running"
                 /\ job'.nodes = job.nodes /\ job'.awaiting = job.awaiting
              \/ /\ loop.pc = "off" /\ loop'.pc = "start" /\ \A c \in Patches : ~Appending(c)
                 /\ job.awaiting \in Nodes /\ job.status \notin Terminal
                 /\ job'.status = "running" /\ job'.awaiting = None
                 /\ \A n \in Nodes : job'.nodes[n] =
                        IF n = job.awaiting THEN "pending" ELSE job.nodes[n]
              \/ /\ loop.pc = "off" /\ loop' = loop /\ \A c \in Patches : ~Appending(c)
                 /\ job.awaiting \in Nodes
                 /\ job'.status = "failed" /\ job'.awaiting = job.awaiting
                 /\ \A n \in Nodes : job'.nodes[n] =
                        IF n = job.awaiting THEN "skipped" ELSE job.nodes[n]
<1>0. job \in Jobs /\ loop \in Loops /\ Resting.pc = "off" /\ Resting \in Loops
    BY RestTypes DEF EInv, IInv, Turns, TypeOK
<1>1. plan' = plan /\ patch' = patch /\ past' = past /\ current' = {}
    BY DEF Cancel, Pause, Resume, Resumed, Approve, Reject, clients, history
<1>2. [Resting EXCEPT !.pc = "start"].pc = "start"
    BY <1>0 DEF Loops
<1>3. CASE Cancel
    BY <1>0, <1>1, <1>3 DEF Cancel, Jobs
<1>4. CASE Pause
    BY <1>0, <1>1, <1>4 DEF Pause, Jobs
<1>5. CASE Resume
    BY <1>0, <1>1, <1>2, <1>5 DEF Resume, Resumed, Started, Punctual, Jobs
<1>6. CASE Approve
    <2>1. /\ loop.pc = "off" /\ loop'.pc = "start" /\ \A c \in Patches : ~Appending(c)
          /\ job.awaiting \in Nodes /\ job.status \notin Terminal
        BY <1>0, <1>2, <1>6 DEF Approve, Punctual, Alone, Started, Jobs
    <2>2. /\ job'.status = "running" /\ job'.awaiting = None
          /\ job'.nodes = [job.nodes EXCEPT ![job.awaiting] = "pending"]
        BY <1>0, <1>6 DEF Approve, Jobs
    <2> QED
        BY <1>0, <1>1, <2>1, <2>2 DEF Jobs
<1>7. CASE Reject
    <2>1. /\ loop.pc = "off" /\ loop' = loop /\ \A c \in Patches : ~Appending(c)
          /\ job.awaiting \in Nodes
        BY <1>0, <1>7 DEF Reject, Punctual, Alone, Jobs
    <2>2. /\ job'.status = "failed" /\ job'.awaiting = job.awaiting
          /\ job'.nodes = [job.nodes EXCEPT ![job.awaiting] = "skipped"]
        BY <1>0, <1>7 DEF Reject, Jobs
    <2> QED
        BY <1>0, <1>1, <2>1, <2>2 DEF Jobs
<1> QED
    BY <1>3, <1>4, <1>5, <1>6, <1>7

LEMMA RequestRecord ==
    ASSUME EInv, Cancel \/ Pause \/ Resume \/ Approve \/ Reject, Races = {}
    PROVE  RecordInv'
<1>0. /\ CopyIsRecord /\ CopyIsWithin /\ LoopIsRecord /\ PendingIsPending /\ WindowIsBack /\ NobodyAsks
    BY DEF EInv, RecordInv
<1>1. plan' = plan /\ patch' = patch /\ current' = {}
    BY RequestLeaves
<1>2. CurrentIsRecord'
    BY <1>1 DEF CurrentIsRecord
<1> DEFINE Rest == /\ CopyIsRecord /\ CopyIsWithin /\ LoopIsRecord /\ PendingIsPending
                   /\ WindowIsBack /\ NobodyAsks
<1> SUFFICES Rest'
    BY <1>2 DEF RecordInv
<1> USE DEF Between
<1>3. ASSUME loop'.pc = "off", job'.status = "cancelled",
             \A n \in Nodes : job'.nodes[n] =
                 IF job.nodes[n] = "pending" THEN "cancelled" ELSE job.nodes[n]
      PROVE  Rest'
    <2>1. Win(job') = Win(job)
        BY <1>3 DEF Win
    <2> QED
        BY <1>0, <1>1, <1>3, <2>1
        DEF CopyIsRecord, CopyIsWithin, LoopIsRecord, PendingIsPending, WindowIsBack, Commits,
            NobodyAsks, Appending
<1>4. ASSUME loop' = loop, job.status = "running", job'.status = "paused",
             job'.nodes = job.nodes, job'.awaiting = job.awaiting
      PROVE  Rest'
    <2>1. Win(job') = Win(job) /\ Open(job') = Open(job)
        BY <1>4 DEF Win, Open
    <2> QED
        BY <1>0, <1>1, <1>4, <2>1
        DEF CopyIsRecord, CopyIsWithin, LoopIsRecord, PendingIsPending, WindowIsBack, Commits,
            NobodyAsks, Appending
<1>5. ASSUME loop.pc = "off", loop'.pc = "start", job.status = "paused",
             job'.status = "running", job'.nodes = job.nodes, job'.awaiting = job.awaiting
      PROVE  Rest'
    <2>1. Win(job') = Win(job)
        BY <1>5 DEF Win
    <2>2. job.awaiting = None
        BY <1>5 DEF EInv, EndedInv, Questions, Asks, Terminal
    <2> QED
        BY <1>0, <1>1, <1>5, <2>1, <2>2
        DEF CopyIsRecord, CopyIsWithin, LoopIsRecord, PendingIsPending, WindowIsBack, Commits,
            NobodyAsks, Appending
<1>6. ASSUME loop.pc = "off", loop'.pc \in {"off", "start"}, \A c \in Patches : ~Appending(c),
             job'.awaiting = None \/ loop'.pc = "off"
      PROVE  Rest'
    BY <1>1, <1>6
    DEF CopyIsRecord, CopyIsWithin, LoopIsRecord, PendingIsPending, WindowIsBack, Commits,
        NobodyAsks, Appending
<1> HIDE DEF Rest
<1> QED
    BY <1>3, <1>4, <1>5, <1>6, RequestLeaves

\* A step of a patch: it reads the record, saves its copy, wakes the loop up,
\* saves the plan, or does nothing that concerns others.
Extends(c) == /\ patch[c].pc = "decided" /\ Fits(plan, c, plan.revision)
              /\ plan' = Applied(plan, c)

LEMMA PatchLeaves ==
    ASSUME EInv, IInv', NEW c \in Patches, PatchStep(c) \/ Send(c) \/ Abort(c), Races = {}
    PROVE  /\ past' = past /\ \A d \in Patches \ {c} : patch'[d] = patch[d]
           /\ \/ /\ Reads(c) /\ plan' = plan /\ lock' = c
                 /\ \A d \in Patches \ {c} : d \in current' => d \in current
              \/ Saves(c) /\ plan' = plan /\ lock' = "none"
              \/ Wakes(c) /\ plan' = plan /\ job.status = "paused" /\ current' = {}
              \/ Keeps(c) /\ current' = current /\ (plan' = plan \/ Extends(c))
<1>0. /\ Turns /\ TypeOK /\ job \in Jobs /\ patch \in [Patches -> Appends] /\ patch[c] \in Appends
    BY DEF EInv, IInv, Turns, TypeOK
<1>1. past' = past /\ \A d \in Patches \ {c} : patch'[d] = patch[d]
    BY <1>0, PatchFacts
<1>2. ASSUME ReadJob(c)
      PROVE  /\ Reads(c) /\ plan' = plan /\ lock' = c
             /\ \A d \in Patches \ {c} : d \in current' => d \in current
    BY <1>0, <1>2 DEF ReadJob, Reads, Fetched, Appends
<1>3. ASSUME SavePatched(c) PROVE Saves(c) /\ plan' = plan /\ lock' = "none"
    BY <1>0, <1>3, PatchMoves DEF SavePatched, Stored, Saves, Released, Turns, OneAtATime, Appending
<1>4. ASSUME Wake(c), job.status = "paused"
      PROVE  Wakes(c) /\ plan' = plan /\ job.status = "paused" /\ current' = {}
    BY <1>0, <1>4, PatchMoves DEF Wake, Wakes, Resumed, Punctual, Started, Jobs, Terminal
<1>5. ASSUME Wake(c), job.status # "paused"
      PROVE  Keeps(c) /\ current' = current /\ plan' = plan
    BY <1>0, <1>5, PatchMoves DEF Wake, Keeps
<1>6. ASSUME Refuse(c) \/ Send(c) \/ Abort(c)
      PROVE  Keeps(c) /\ current' = current /\ plan' = plan
    BY <1>0, <1>6, PatchMoves DEF Refuse, Send, Abort, Keeps
<1>7. ASSUME Replay(c) PROVE Keeps(c) /\ current' = current /\ plan' = plan
    <2>1. CASE Over(c)
        BY <1>0, <1>7, <2>1, RestTypes DEF Replay, Answered, Keeps, Appends
    <2>2. CASE ~Over(c)
        BY <1>0, <1>7, <2>2 DEF Replay, Over, Appending, Keeps, Appends
    <2> QED
        BY <2>1, <2>2
<1>8. ASSUME Attach(c) PROVE Keeps(c) /\ current' = current /\ plan' = plan
    BY <1>0, <1>8 DEF Attach, Over, Appending, Keeps, Appends
<1>9. ASSUME SavePlan(c) PROVE Keeps(c) /\ current' = current /\ Extends(c)
    BY <1>0, <1>9 DEF SavePlan, Appending, Keeps, Appends, Extends, Turns, PatchIsCurrent
<1> QED
    BY <1>1, <1>2, <1>3, <1>4, <1>5, <1>6, <1>7, <1>8, <1>9 DEF PatchStep

LEMMA SavesLeave ==
    ASSUME EInv, IInv', NEW c \in Patches, Saves(c), lock' = "none"
    PROVE  /\ Appending(c) /\ ~Between /\ \A d \in Patches : ~(Appending(d)')
           /\ loop' = loop /\ patch[c].job.status \notin Terminal
           /\ loop.pc # "running" /\ job.status # "cancelled" =>
                    job'.nodes = job.nodes /\ job'.awaiting = job.awaiting
           /\ \A n \in Nodes : job'.nodes[n] \in {job.nodes[n], patch[c].job.nodes[n]}
           /\ job.status = "cancelled" =>
                    \A n \in Nodes : job'.nodes[n] = "pending" => job.nodes[n] = "pending"
           /\ job'.awaiting = patch[c].job.awaiting
           /\ \/ job'.status = patch[c].job.status
              \/ job'.status = job.status /\ job.status \in Control
           /\ job.status \in Control /\ patch[c].job.status \notin Control => job'.status = job.status
<1> DEFINE o == patch[c].job
<1>0. /\ job \in Jobs /\ o \in Jobs /\ patch[c] \in Appends
      /\ Appending(c) /\ ~Between /\ job' = Saved(c, o) /\ loop' = loop
    BY DEF EInv, IInv, Turns, TypeOK, OneAtATime, Saves, Appending, Appends
<1>1. \A d \in Patches : ~(Appending(d)')
    BY LoopIsNoPatch DEF IInv, Turns, OneAtATime
<1>2. o.status \notin Terminal
    BY DEF EInv, IInv, Stops, PatchesLiveJobs, Saves
<1>3. /\ CopyIsRecord /\ CopyIsWithin /\ (c \in current => o = job)
      /\ Open(o) \subseteq Win(job)
    BY <1>0 DEF EInv, RecordInv, CurrentIsRecord, CopyIsWithin
<1> HIDE DEF o
<1>4. CASE c \in current
    <2>1. job' = job /\ o = job
        BY <1>0, <1>3, <1>4 DEF Saved
    <2> QED
        BY <1>0, <1>1, <1>2, <2>1 DEF o
<1>5. CASE c \notin current
    <2> DEFINE kept(n) == /\ job.nodes[n] # "none"
                          /\ o.nodes[n] \notin {"none", "cancelled"}
                          /\ \/ job.nodes[n] = "cancelled"
                             \/ job.status \in {"cancelled", "interrupted"}
    <2>1. job' = Merge(job, o)
        BY <1>0, <1>5 DEF Saved
    <2>2. /\ job'.status = IF job.status \in Control /\ o.status \notin Control
                           THEN job.status ELSE o.status
          /\ job'.nodes = [n \in Nodes |-> IF kept(n) THEN job.nodes[n] ELSE o.nodes[n]]
          /\ job'.awaiting = o.awaiting
        BY <1>0, <2>1 DEF Merge, Jobs
    <2> HIDE DEF kept
    <2>3. \A n \in Nodes : job'.nodes[n] \in {job.nodes[n], o.nodes[n]}
        BY <2>2
    <2>4. ASSUME loop.pc # "running", job.status # "cancelled"
          PROVE  job'.nodes = job.nodes /\ job'.awaiting = job.awaiting
        <3>1. o.nodes = job.nodes /\ o.awaiting = job.awaiting
            BY <1>0, <1>3, <2>4 DEF CopyIsRecord, o
        <3>2. job'.nodes = [n \in Nodes |-> job.nodes[n]]
            BY <2>2, <3>1
        <3> QED
            BY <1>0, <2>2, <3>1, <3>2 DEF Jobs
    <2>5. ASSUME job.status = "cancelled", NEW n \in Nodes, job'.nodes[n] = "pending"
          PROVE  job.nodes[n] = "pending"
        BY <1>3, <2>2, <2>5 DEF kept, Open, Win
    <2> QED
        BY <1>0, <1>1, <1>2, <2>2, <2>3, <2>4, <2>5 DEF o
<1> QED
    BY <1>4, <1>5

LEMMA PatchRecord ==
    ASSUME EInv, IInv', NEW c \in Patches, PatchStep(c) \/ Send(c) \/ Abort(c), Races = {}
    PROVE  RecordInv'
<1>0. /\ CurrentIsRecord /\ CopyIsRecord /\ CopyIsWithin /\ LoopIsRecord /\ PendingIsPending
      /\ WindowIsBack /\ NobodyAsks
    BY DEF EInv, RecordInv
<1>1. \A d \in Patches \ {c} : patch'[d] = patch[d]
    BY PatchLeaves
<1> USE DEF Between
<1>2. CASE Reads(c) /\ lock' = c
    <2>1. job' = job /\ loop' = loop /\ patch'[c].job = job
        BY <1>2 DEF Reads
    <2>2. \A d \in Patches : Appending(d)' => d = c
        BY <1>2 DEF IInv, Turns, OneAtATime
    <2>3. ASSUME loop.pc \in {"launch", "running"}
          PROVE  Open(loop.job) \subseteq Open(job) /\ job.awaiting = None
        BY <1>0, <2>3 DEF PendingIsPending, NobodyAsks
    <2>4. Open(job) \subseteq Win(job)
        BY DEF Open, Win
    <2>5. CurrentIsRecord' /\ CopyIsRecord' /\ CopyIsWithin'
        BY <2>1, <2>2, <2>4 DEF CurrentIsRecord, CopyIsRecord, CopyIsWithin, Open, Win
    <2>6. PendingIsPending' /\ NobodyAsks'
        BY <1>0, <2>1, <2>2, <2>3 DEF PendingIsPending, NobodyAsks, Open
    <2>7. LoopIsRecord' /\ WindowIsBack'
        BY <1>0, <2>1 DEF LoopIsRecord, WindowIsBack, Commits, Returned, Open, Stop
    <2> QED
        BY <2>5, <2>6, <2>7 DEF RecordInv
<1>3. CASE Saves(c) /\ lock' = "none"
    <2>1. /\ Appending(c) /\ ~Between /\ \A d \in Patches : ~(Appending(d)')
          /\ loop' = loop
          /\ loop.pc # "running" /\ job.status # "cancelled" =>
                    job'.nodes = job.nodes /\ job'.awaiting = job.awaiting
          /\ \A n \in Nodes : job'.nodes[n] \in {job.nodes[n], patch[c].job.nodes[n]}
          /\ job'.awaiting = patch[c].job.awaiting
        BY <1>3, SavesLeave
    <2>2. CurrentIsRecord' /\ CopyIsRecord' /\ CopyIsWithin'
        BY <2>1 DEF CurrentIsRecord, CopyIsRecord, CopyIsWithin
    <2>3. LoopIsRecord' /\ WindowIsBack'
        BY <2>1 DEF LoopIsRecord, WindowIsBack, Commits
    <2>4. PendingIsPending'
        <3> SUFFICES ASSUME loop.pc \in {"launch", "running"}, NEW n \in Open(loop.job)
                     PROVE  job'.nodes[n] = "pending"
            BY <2>1 DEF PendingIsPending, Open
        <3>1. n \in Nodes /\ n \in Open(job) /\ n \in Open(patch[c].job)
            BY <1>0, <2>1 DEF PendingIsPending, Open
        <3> QED
            BY <2>1, <3>1 DEF Open
    <2>5. NobodyAsks'
        <3>1. loop.pc = "start" => job.status # "cancelled" /\ job.awaiting = None
            BY <1>0 DEF NobodyAsks, EInv, IInv, Stops, NotStopped
        <3>2. loop.pc \in {"launch", "running"} => job'.awaiting = None /\ loop.job.awaiting = None
            BY <1>0, <2>1 DEF NobodyAsks
        <3> QED
            BY <2>1, <3>1, <3>2 DEF NobodyAsks
    <2> QED
        BY <2>2, <2>3, <2>4, <2>5 DEF RecordInv
<1>4. CASE Wakes(c) /\ job.status = "paused" /\ current' = {}
    <2>1. /\ job'.nodes = job.nodes /\ job'.awaiting = job.awaiting /\ job'.status = "running"
          /\ loop.pc = "off" /\ loop'.pc = "start" /\ ~(Appending(c)')
        BY <1>4, RestTypes DEF Wakes, Appending, Loops
    <2>2. Win(job') = Win(job)
        BY <2>1 DEF Win
    <2>3. job.awaiting = None
        BY <1>4, <2>1 DEF EInv, EndedInv, Questions, Asks, Terminal
    <2>4. CurrentIsRecord' /\ CopyIsRecord' /\ CopyIsWithin'
        <3> SUFFICES ASSUME NEW d \in Patches, Appending(d)'
                     PROVE  /\ patch'[d].job.nodes = job'.nodes /\ patch'[d].job.awaiting = job'.awaiting
                            /\ Open(patch'[d].job) \subseteq Win(job') /\ d \notin current'
            BY DEF CurrentIsRecord, CopyIsRecord, CopyIsWithin, Open
        <3>1. d # c /\ patch'[d] = patch[d] /\ Appending(d)
            BY <1>1, <2>1 DEF Appending
        <3> QED
            BY <1>0, <1>4, <2>1, <2>2, <3>1 DEF CopyIsRecord, CopyIsWithin
    <2> QED
        BY <2>1, <2>3, <2>4
        DEF RecordInv, LoopIsRecord, PendingIsPending, WindowIsBack, Commits, NobodyAsks
<1>5. CASE Keeps(c) /\ current' = current
    <2>1. job' = job /\ loop' = loop
        BY <1>5 DEF Keeps
    <2>2. \A d \in Patches : Appending(d)' => Appending(d) /\ patch'[d].job = patch[d].job
        BY <1>1, <1>5 DEF Keeps, Appending
    <2>3. CurrentIsRecord' /\ CopyIsRecord' /\ CopyIsWithin'
        BY <1>0, <1>5, <2>1, <2>2 DEF CurrentIsRecord, CopyIsRecord, CopyIsWithin, Open, Win
    <2>4. PendingIsPending' /\ NobodyAsks'
        BY <1>0, <2>1, <2>2 DEF PendingIsPending, NobodyAsks, Open
    <2>5. LoopIsRecord' /\ WindowIsBack'
        BY <1>0, <2>1 DEF LoopIsRecord, WindowIsBack, Commits, Returned, Open, Stop
    <2> QED
        BY <2>3, <2>4, <2>5 DEF RecordInv
<1> QED
    BY <1>2, <1>3, <1>4, <1>5, PatchLeaves

(* ---------------------- what became of the nodes ----------------------- *)

\* The nodes that were handed out, one by one.
LEMMA HandedOut ==
    /\ \A n \in Nodes : n \in Handed <=> plan.nodes[n] = "materialized"
    /\ \A j : \A n \in Nodes : /\ n \in Win(j) <=> j.nodes[n] # "none"
                               /\ n \in Open(j) <=> j.nodes[n] = "pending"
                               /\ n \in Stop(j) <=> j.nodes[n] = "cancelled"
                               /\ n \in Escalated(j) <=> j.nodes[n] = "escalated"
    BY DEF Handed, Progress, Win, Open, Stop, Escalated

\* What a step of the loop says of the copies: nothing, but when it launches
\* the window or a node ends.
LEMMA LoopCopiesKnow ==
    ASSUME EInv, IInv', LoopStep, Races = {}
    PROVE  CopyKnows' /\ \A c \in Patches : Appending(c)' => Asks(patch[c].job)'
<1>0. /\ patch' = patch /\ TypeOK /\ CopyKnows
      /\ \A c \in Patches : Appending(c) => Asks(patch[c].job)
    BY LoopKeepsPatches DEF EInv, IInv, Turns, EndedInv, Questions
<1> SUFFICES ASSUME NEW c \in Patches, Appending(c)'
             PROVE  (\A n \in Nodes : Knows(patch[c].job, n)') /\ Asks(patch[c].job)'
    BY DEF CopyKnows
<1>1. Appending(c) /\ ~Between /\ ~Between'
    BY <1>0, NobodyAppends DEF Appending
<1>2. (\A n \in Nodes : Knows(patch[c].job, n)) /\ Asks(patch[c].job)
    BY <1>0, <1>1 DEF CopyKnows
<1>3. ASSUME plan' = plan, past' = past
      PROVE  (\A n \in Nodes : Knows(patch[c].job, n)') /\ Asks(patch[c].job)'
    BY <1>0, <1>2, <1>3 DEF Knows, Asks, Ended, Open
<1>4. CASE Start \/ Restart
    BY <1>0, <1>3, <1>4, MoveFacts
<1>5. CASE Check
    BY <1>3, <1>5, CheckLeaves
<1>6. CASE Launch
    <2>1. /\ loop.pc = "launch" /\ plan' = plan
          /\ past' = [n \in Nodes |-> IF n \in Open(loop.job) THEN "handed" ELSE past[n]]
        BY <1>0, <1>6, MoveFacts DEF Launch
    <2>2. patch[c].job.awaiting = None
        BY <1>1, <2>1 DEF EInv, RecordInv, NobodyAsks
    <2> QED
        BY <1>0, <1>2, <2>1, <2>2 DEF Knows, Asks
<1>7. ASSUME NEW n \in Nodes, NEW r \in NodeStatus, NodeEnds(n, r)
      PROVE  (\A m \in Nodes : Knows(patch[c].job, m)') /\ Asks(patch[c].job)'
    <2>1. /\ loop.pc = "running" /\ n \in Open(loop.job) /\ plan' = plan
          /\ \A m \in Nodes : past'[m] = IF m = n /\ r \in {"completed", "uncertain"} THEN r ELSE past[m]
        BY <1>7, NodeEndsLeaves
    <2>2. patch[c].job.awaiting = None /\ patch[c].job.nodes[n] = "pending"
        BY <1>1, <2>1, HandedOut DEF EInv, RecordInv, NobodyAsks, PendingIsPending
    <2> QED
        BY <1>0, <1>2, <2>1, <2>2 DEF Knows, Asks
<1>8. CASE Outcome
    BY <1>1, <1>8, OutcomeLeaves DEF Between
<1> QED
    BY <1>1, <1>4, <1>5, <1>6, <1>7, <1>8
    DEF LoopStep, Between, Refresh, Load, Commit, FrontierFailed, AwaitPatches, Complete,
        NextFrontier, OutOfPlan, Advanced, SaveJob, GiveUp, Escalate, Recovering, RecoveryEnds, Reopen,
        SaveReopened, LoadReplan, ReplanDeclined, Replan

Knowing == /\ InPlan /\ JobKnows /\ LoopKnows /\ Reopening
           /\ Asks(job)
           /\ Holds => Asks(loop.job)

\* The steps that change neither the plan nor the past; the job object that is
\* held is one that was held, or the record.
LEMMA LoopReadsKnow ==
    ASSUME EInv, Start \/ Refresh \/ Load \/ GiveUp \/ Reopen \/ LoadReplan \/ ReplanDeclined
                 \/ Restart \/ Check \/ SaveJob \/ RecoveryEnds
    PROVE  Knowing'
<1>0. /\ TypeOK /\ InPlan /\ JobKnows /\ LoopKnows /\ Reopening
      /\ Asks(job)
      /\ Holds => Asks(loop.job)
      /\ LoopIsRecord
    BY DEF EInv, IInv, Turns, EndedInv, Questions, RecordInv
<1> USE DEF Holds, Reopens
<1>1. ASSUME plan' = plan, past' = past, job' = job, loop.pc # "save", ~Reopens, ~Reopens',
             loop'.pc # "running", loop.pc # "running",
             loop'.job = job \/ ~(Holds') \/ (loop'.job = loop.job /\ Holds)
      PROVE  Knowing'
    <2>1. InPlan'
        BY <1>0, <1>1 DEF InPlan
    <2>2. JobKnows'
        BY <1>0, <1>1 DEF JobKnows, Knows, Fresh, Ended, Open
    <2>3. LoopKnows'
        BY <1>0, <1>1 DEF JobKnows, LoopKnows, Knows, Fresh, Ended, Open
    <2>4. Asks(job)' /\ (Holds' => Asks(loop.job)')
        BY <1>0, <1>1 DEF Asks, Ended, Open
    <2> QED
        BY <1>1, <2>1, <2>2, <2>3, <2>4 DEF Knowing, Reopening
<1>2. CASE Start \/ Refresh \/ Load \/ GiveUp \/ LoadReplan \/ Restart
    <2>1. /\ plan' = plan /\ past' = past /\ job' = job
          /\ loop.pc \notin {"save", "reopen", "reopened", "running"}
          /\ loop'.pc \notin {"save", "reopen", "reopened", "running"}
          /\ loop'.job = job \/ ~(Holds') \/ (loop'.job = loop.job /\ Holds)
        BY <1>0, <1>2, MoveFacts
    <2> QED
        BY <1>1, <2>1
<1>3. CASE Check
    <2>1. loop.pc = "check" /\ loop'.pc = "off" /\ job' = job /\ plan' = plan /\ past' = past
        BY <1>3, CheckLeaves
    <2> QED
        BY <1>1, <2>1
<1>4. CASE Reopen
    <2>1. /\ loop.pc = "reopen" /\ loop'.pc = "reopened" /\ loop'.job = loop.job
          /\ plan' = plan /\ past' = past /\ job' = job
        BY <1>0, <1>4, MoveFacts
    <2> QED
        BY <1>0, <2>1
        DEF Knowing, InPlan, JobKnows, LoopKnows, Reopening, Knows, Fresh, Ended, Open, Asks
<1>5. CASE ReplanDeclined
    <2>1. /\ loop.pc = "replan" /\ loop'.pc = "save" /\ loop'.job = loop.job
          /\ plan' = plan /\ past' = past /\ job' = job
        BY <1>0, <1>5, MoveFacts
    <2> QED
        BY <1>0, <2>1
        DEF Knowing, InPlan, JobKnows, LoopKnows, Reopening, Knows, Fresh, Ended, Open, Asks
<1>6. CASE SaveJob
    <2>1. /\ loop.pc = "save" /\ job' = loop.job /\ loop'.pc = loop.next
          /\ loop.next = "recover" => loop'.job = loop.job
          /\ loop.next \in {"start", "recover", "restart", "check"}
          /\ plan' = plan /\ past' = past
        BY <1>0, <1>6, SaveJobLeaves DEF LoopIsRecord
    <2>2. InPlan' /\ Reopening'
        BY <1>0, <2>1 DEF InPlan, Reopening
    <2>3. JobKnows' /\ LoopKnows'
        BY <1>0, <2>1 DEF JobKnows, LoopKnows, Knows, Fresh, Ended, Open
    <2>4. Asks(job)' /\ (Holds' => Asks(loop.job)')
        BY <1>0, <2>1 DEF Asks, Ended, Open
    <2> QED
        BY <2>2, <2>3, <2>4 DEF Knowing
<1>7. CASE RecoveryEnds
    <2>1. /\ loop.pc = "recover" /\ loop'.pc = "save"
          /\ loop'.job.nodes = loop.job.nodes /\ loop'.job.awaiting = loop.job.awaiting
          /\ loop'.job.status \in {"failed", "clarified"}
          /\ plan' = plan /\ past' = past /\ job' = job
        BY <1>0, <1>7, MoveFacts
    <2>2. InPlan' /\ Reopening' /\ JobKnows' /\ LoopKnows'
        BY <1>0, <2>1 DEF InPlan, JobKnows, LoopKnows, Reopening, Knows, Fresh, Ended, Open
    <2>3. Asks(job)' /\ Asks(loop.job)'
        BY <1>0, <2>1 DEF Asks, Ended, Open, Terminal
    <2> QED
        BY <2>2, <2>3 DEF Knowing
<1> QED
    BY <1>2, <1>3, <1>4, <1>5, <1>6, <1>7

\* The steps that hand nodes out, end them, and write the plan.
LEMMA LoopWritesKnow ==
    ASSUME EInv, Races = {},
           \/ Launch \/ (\E n \in Nodes, r \in NodeStatus : NodeEnds(n, r)) \/ Outcome
           \/ Commit \/ FrontierFailed \/ AwaitPatches \/ Complete \/ OutOfPlan \/ NextFrontier
           \/ Escalate \/ SaveReopened \/ Replan
    PROVE  Knowing'
<1>0. /\ TypeOK /\ InPlan /\ JobKnows /\ LoopKnows /\ Reopening
      /\ Asks(job)
      /\ Holds => Asks(loop.job)
      /\ WindowIsBack /\ NobodyAsks
      /\ past \in [Nodes -> {"fresh", "handed", "completed", "uncertain"}]
    BY DEF EInv, IInv, Turns, TypeOK, EndedInv, Questions, RecordInv
<1> USE DEF Holds, Reopens
<1>1. CASE Launch
    <2>1. /\ loop.pc = "launch" /\ loop'.pc = "running" /\ loop'.job = loop.job
          /\ plan' = plan /\ job' = job
        BY <1>0, <1>1, MoveFacts
    <2>2. /\ past' = [n \in Nodes |-> IF n \in Open(loop.job) THEN "handed" ELSE past[n]]
          /\ job.awaiting = None /\ loop.job.awaiting = None
        BY <1>0, <1>1, <2>1 DEF Launch, NobodyAsks
    <2>3. \A n \in Nodes : past'[n] \in {"completed", "uncertain"} => past'[n] = past[n]
        BY <2>2
    <2>4. InPlan' /\ Reopening'
        BY <1>0, <2>1, <2>3 DEF InPlan, Reopening
    <2>5. JobKnows'
        BY <1>0, <2>1, <2>3 DEF JobKnows, Knows
    <2>6. LoopKnows'
        BY <1>0, <2>1, <2>3 DEF LoopKnows, Knows, Fresh, Ended, Open
    <2> QED
        BY <2>1, <2>2, <2>4, <2>5, <2>6 DEF Knowing, Asks
<1>2. ASSUME NEW n \in Nodes, NEW r \in NodeStatus, NodeEnds(n, r)
      PROVE  Knowing'
    <2>1. /\ loop.pc = "running" /\ loop'.pc = "running" /\ n \in Open(loop.job)
          /\ r \in {"completed", "failed", "escalated", "uncertain"}
          /\ r = "uncertain" => n \in Effectful
          /\ job' = loop'.job
          /\ \A m \in Nodes : job'.nodes[m] = IF m = n THEN r ELSE loop.job.nodes[m]
          /\ job'.awaiting = loop.job.awaiting
          /\ plan' = plan
          /\ \A m \in Nodes : past'[m] = IF m = n /\ r \in {"completed", "uncertain"} THEN r ELSE past[m]
        BY <1>2, NodeEndsLeaves
    <2>2. /\ job'.awaiting = None
          /\ \A m \in Nodes : Knows(loop.job, m)
          /\ loop.job.nodes[n] = "pending" /\ plan.nodes[n] = "materialized"
          /\ past[n] \notin {"completed", "uncertain"}
        BY <1>0, <2>1, HandedOut DEF NobodyAsks, LoopKnows, Knows, Fresh, Ended
    <2>3. InPlan' /\ Reopening'
        BY <1>0, <2>1, <2>2 DEF InPlan, Reopening
    <2>4. \A m \in Nodes : Knows(job, m)'
        BY <2>1, <2>2 DEF Knows, FailedNode
    <2>5. Fresh(job)'
        <3> SUFFICES ASSUME NEW m \in Nodes, job'.nodes[m] = "pending"
                     PROVE  past'[m] \notin {"completed", "uncertain"}
            BY DEF Fresh, Ended, Open
        <3>1. m # n /\ m \in Open(loop.job)
            BY <2>1, HandedOut
        <3> QED
            BY <1>0, <2>1, <3>1 DEF LoopKnows, Fresh, Ended
    <2> QED
        BY <2>1, <2>2, <2>3, <2>4, <2>5 DEF Knowing, JobKnows, LoopKnows, Asks
<1>3. CASE Outcome
    <2>1. /\ loop.pc \in {"launch", "running"} /\ loop'.pc = "refresh"
          /\ job'.nodes = loop.job.nodes /\ job'.awaiting = loop.job.awaiting
          /\ plan' = plan /\ past' = past
        BY <1>3, OutcomeLeaves
    <2>2. job'.awaiting = None
        BY <1>0, <2>1 DEF NobodyAsks
    <2>3. JobKnows'
        BY <1>0, <2>1 DEF JobKnows, LoopKnows, Knows, Fresh, Ended, Open
    <2> QED
        BY <1>0, <2>1, <2>2, <2>3 DEF Knowing, InPlan, LoopKnows, Reopening, Asks
<1>4. CASE Commit
    <2>1. /\ loop.pc = "commit" /\ loop'.pc = "advance" /\ loop'.job = job /\ loop.job = job
          /\ \A n \in Nodes : plan'.nodes[n] =
                 IF job.nodes[n] # "none" /\ plan.nodes[n] \in {"materialized", "pending"}
                 THEN job.nodes[n] ELSE plan.nodes[n]
          /\ job' = job /\ past' = past
        BY <1>4, CommitLeaves
    <2>2. \A n \in Nodes : /\ Knows(job, n) /\ job.nodes[n] \notin {"pending", "cancelled"}
                           /\ plan.nodes[n] = "materialized" => job.nodes[n] # "none"
        BY <1>0, <2>1, HandedOut
        DEF JobKnows, WindowIsBack, Commits, Returned, EInv, IInv, Windows, LoopHasWindow
    <2>3. \A n \in Nodes : Knows(job, n)'
        BY <2>1, <2>2 DEF Knows
    <2>4. Fresh(job)' /\ Asks(job)'
        BY <1>0, <2>1 DEF JobKnows, Fresh, Ended, Open, NobodyAsks, Asks
    <2>5. InPlan'
        BY <1>0, <2>1, <2>2 DEF InPlan, Knows
    <2> QED
        BY <2>1, <2>3, <2>4, <2>5 DEF Knowing, JobKnows, LoopKnows, Reopening
<1>5. CASE FrontierFailed \/ AwaitPatches \/ Complete \/ OutOfPlan
    <2>1. /\ loop.pc = "advance" /\ loop'.pc = "save"
          /\ loop'.job.nodes = job.nodes /\ loop'.job.awaiting = job.awaiting
          /\ plan' = plan /\ job' = job /\ past' = past
        BY <1>5, StayLeaves
    <2>2. loop'.job.awaiting = None
        BY <1>0, <2>1 DEF NobodyAsks
    <2>3. JobKnows' /\ LoopKnows'
        BY <1>0, <2>1 DEF JobKnows, LoopKnows, Knows, Fresh, Ended, Open
    <2> QED
        BY <1>0, <2>1, <2>2, <2>3 DEF Knowing, InPlan, Reopening, Asks, NobodyAsks
<1>6. CASE NextFrontier
    <2>1. /\ loop.pc = "advance" /\ loop'.pc = "save"
          /\ ~Broken /\ loop.plan = plan /\ loop'.job.awaiting = None
          /\ \A n \in Nodes : \/ /\ plan.nodes[n] = "pending" /\ plan'.nodes[n] = "materialized"
                                 /\ loop'.job.nodes[n] = "pending"
                              \/ /\ plan'.nodes[n] = plan.nodes[n]
                                 /\ loop'.job.nodes[n] = "none"
          /\ job' = job /\ past' = past
        BY <1>6, NextFrontierLeaves
    <2>2. \A n \in Nodes : plan.nodes[n] \notin FailedNode /\ plan.nodes[n] # "materialized"
        BY <2>1, HandedOut DEF Broken, Progress, EInv, IInv, Cleared
    <2>3. \A n \in Nodes : past[n] # "uncertain" /\ (past[n] = "completed" => plan.nodes[n] = "completed")
        BY <1>0, <2>2 DEF InPlan, FailedNode
    <2>4. InPlan'
        BY <2>1, <2>3 DEF InPlan
    <2>5. LoopKnows'
        BY <2>1, <2>2, <2>3 DEF LoopKnows, Knows, Fresh, Ended, Open, FailedNode
    <2>6. \A n \in Nodes : Knows(job, n) /\ job.nodes[n] # "pending"
        BY <1>0, <2>1, HandedOut DEF JobKnows, WindowIsBack, Commits, Returned
    <2>7. JobKnows'
        BY <2>1, <2>2, <2>6 DEF JobKnows, Knows, Fresh, Ended, Open, FailedNode
    <2>8. Asks(job)'
        BY <1>0, <2>1 DEF NobodyAsks, Asks
    <2> QED
        BY <2>1, <2>4, <2>5, <2>7, <2>8 DEF Knowing, Reopening, Asks
<1>7. CASE Escalate
    <2>1. PICK n \in Nodes :
           /\ loop.pc = "recover" /\ loop'.pc = "reopen"
           /\ loop.job = job
           /\ job' = loop'.job
           /\ job.nodes[n] = "escalated"
           /\ \A m \in Nodes : job'.nodes[m] = IF m = n THEN "pending" ELSE job.nodes[m]
           /\ job'.awaiting = n /\ job'.status = "waiting_approval"
           /\ plan' = plan /\ past' = past
        BY <1>7, EscalateLeaves
    <2>2. /\ \A m \in Nodes : Knows(job, m) /\ Fresh(job)
          /\ n \notin Ended /\ plan.nodes[n] \in {"materialized", "escalated"}
        BY <1>0, <2>1 DEF JobKnows, Knows, Ended, EInv, StillAskable, Superseded, Askable
    <2>3. Fresh(job)'
        BY <2>1, <2>2 DEF Fresh, Ended, Open
    <2>4. \A m \in Nodes : m = n \/ Knows(job, m)'
        BY <2>1, <2>2 DEF Knows
    <2>5. n \in Open(job') /\ n \notin Ended'
        BY <2>1, <2>2 DEF Open, Ended
    <2> QED
        BY <1>0, <2>1, <2>2, <2>3, <2>4, <2>5
        DEF Knowing, InPlan, JobKnows, LoopKnows, Reopening, Asks
<1>8. CASE SaveReopened
    <2>1. /\ loop.pc = "reopened" /\ loop'.pc = "save"
          /\ loop'.job = job /\ loop.job = job
          /\ \A n \in Nodes : plan'.nodes[n] =
                 IF job.nodes[n] = "pending" /\ plan.nodes[n] # "none"
                 THEN "materialized" ELSE plan.nodes[n]
          /\ job' = job /\ past' = past
        BY <1>8, SaveReopenedLeaves
    <2>2. InPlan'
        BY <1>0, <2>1 DEF InPlan
    <2>3. \A n \in Nodes : Knows(job, n)'
        <3> SUFFICES ASSUME NEW n \in Nodes PROVE Knows(job, n)'
            OBVIOUS
        <3>1. CASE Knows(job, n)
            BY <2>1, <3>1 DEF Knows, FailedNode
        <3>2. CASE n = job.awaiting
            <4>1. /\ job.nodes[n] = "pending" /\ plan'.nodes[n] = "materialized"
                  /\ past[n] \notin {"completed", "uncertain"}
                BY <1>0, <2>1, <3>2, HandedOut DEF Reopening, LoopKnows, Fresh, Ended
            <4> QED
                BY <2>1, <4>1 DEF Knows, FailedNode
        <3>3. Knows(job, n) \/ n = job.awaiting
            BY <1>0, <2>1 DEF LoopKnows, Knows
        <3> QED
            BY <3>1, <3>2, <3>3
    <2>4. Fresh(job)' /\ Asks(job)'
        BY <1>0, <2>1 DEF LoopKnows, Fresh, Ended, Open, Asks
    <2> QED
        BY <2>1, <2>2, <2>3, <2>4 DEF Knowing, JobKnows, LoopKnows, Reopening, Knows, Asks
<1>9. CASE Replan
    <2>1. /\ loop.pc = "replan" /\ loop'.pc = "save"
          /\ loop.job = job /\ MayReplan(job, plan)
          /\ \/ /\ loop'.job.status = "failed"
                /\ loop'.job.nodes = job.nodes /\ loop'.job.awaiting = job.awaiting
                /\ \A n \in Nodes : plan'.nodes[n] \in {"pending", "none"}
                       \/ (plan.nodes[n] = "completed" /\ plan'.nodes[n] = "completed")
             \/ /\ loop'.job.awaiting = None
                /\ \A n \in Nodes :
                       \/ /\ plan.nodes[n] # "completed" /\ plan'.nodes[n] = "materialized"
                          /\ loop'.job.nodes[n] = "pending"
                       \/ plan'.nodes[n] \in {"pending", "none"} /\ loop'.job.nodes[n] = "none"
                       \/ /\ plan.nodes[n] = "completed" /\ plan'.nodes[n] = "completed"
                          /\ loop'.job.nodes[n] = "none"
          /\ \A n \in Nodes : plan.nodes[n] = "completed" => plan'.nodes[n] = "completed"
          /\ job' = job /\ past' = past
        BY <1>9, ReplanLeaves
    <2>2. \A n \in Nodes : /\ Knows(job, n) /\ plan.nodes[n] # "materialized"
                           /\ job.nodes[n] \notin {"pending", "cancelled"}
        BY <1>0, <2>1, HandedOut DEF JobKnows, WindowIsBack, Returned, EInv, IInv, Cleared
    <2>3. \A n \in Nodes : past[n] = "completed" => plan.nodes[n] = "completed"
        BY <1>0, <2>2 DEF InPlan
    <2>4. \A n \in Nodes : past[n] # "uncertain"
        BY <1>0, <2>1, <2>2 DEF InPlan, Knows, MayReplan, Happened
    <2>5. InPlan'
        BY <2>1, <2>3, <2>4 DEF InPlan
    <2>6. LoopKnows'
        BY <2>1, <2>2, <2>3, <2>4 DEF LoopKnows, Knows, Fresh, Ended, Open, FailedNode
    <2>7. JobKnows'
        BY <2>1, <2>2, <2>3, <2>4 DEF JobKnows, Knows, Fresh, Ended, Open, FailedNode
    <2>8. Asks(loop.job)' /\ Asks(job)'
        BY <1>0, <2>1 DEF Asks, Ended, Terminal, Open
    <2> QED
        BY <2>1, <2>5, <2>6, <2>7, <2>8 DEF Knowing, Reopening
<1> QED
    BY <1>1, <1>2, <1>3, <1>4, <1>5, <1>6, <1>7, <1>8, <1>9

LEMMA LoopEnded ==
    ASSUME EInv, IInv', LoopStep, Races = {}
    PROVE  EndedInv'
<1>1. Knowing'
    BY LoopReadsKnow, LoopWritesKnow DEF LoopStep
<1> QED
    BY <1>1, LoopCopiesKnow, LoopKeepsPatches DEF Knowing, EndedInv, Questions, Appending

LEMMA RequestEnded ==
    ASSUME EInv, Cancel \/ Pause \/ Resume \/ Approve \/ Reject, Races = {}
    PROVE  EndedInv'
<1>0. /\ InPlan /\ JobKnows /\ LoopKnows /\ CopyKnows /\ Reopening /\ LoopIsRecord
      /\ Asks(job) /\ (Holds => Asks(loop.job))
      /\ \A c \in Patches : Appending(c) => Asks(patch[c].job)
    BY DEF EInv, EndedInv, Questions, RecordInv
<1>1. plan' = plan /\ patch' = patch /\ past' = past
    BY RequestLeaves
<1>2. /\ InPlan' /\ CopyKnows' /\ Ended' = Ended
      /\ \A c \in Patches : Appending(c)' => Asks(patch[c].job)'
    BY <1>0, <1>1 DEF InPlan, CopyKnows, Appending, Knows, Asks, Ended, Open
<1> DEFINE Rest == Asks(job) /\ (Holds => Asks(loop.job)) /\ JobKnows /\ LoopKnows /\ Reopening
<1> SUFFICES Rest'
    BY <1>2 DEF EndedInv, Questions
<1>3. ASSUME loop'.pc = "off", job'.status = "cancelled", job'.awaiting = job.awaiting,
             \A n \in Nodes : job'.nodes[n] =
                 IF job.nodes[n] = "pending" THEN "cancelled" ELSE job.nodes[n]
      PROVE  Rest'
    <2>1. \A n \in Nodes : Knows(job, n) \/ (Reopens /\ n = job.awaiting)
        <3>1. CASE ~Reopens
            BY <1>0, <3>1 DEF JobKnows
        <3>2. CASE Reopens
            <4>1. loop.job = job
                BY <1>0, <3>2 DEF LoopIsRecord, Between, Reopens
            <4> QED
                BY <1>0, <3>2, <4>1 DEF LoopKnows, Holds, Reopens, Knows
        <3> QED
            BY <3>1, <3>2
    <2>2. Reopens => job.awaiting \in Nodes /\ job.awaiting \notin Ended /\ job.awaiting \in Open(job)
        BY <1>0 DEF Reopening, Reopens, LoopIsRecord, Between, Open, LoopKnows, Holds, Fresh
    <2>3. \A n \in Nodes : Knows(job, n)'
        <3> SUFFICES ASSUME NEW n \in Nodes PROVE Knows(job, n)'
            OBVIOUS
        <3>1. CASE Knows(job, n)
            BY <1>1, <1>3, <3>1 DEF Knows
        <3>2. CASE Reopens /\ n = job.awaiting
            <4>1. past[n] \notin {"completed", "uncertain"} /\ job.nodes[n] = "pending"
                BY <2>2, <3>2 DEF Ended, Open
            <4> QED
                BY <1>1, <1>3, <4>1 DEF Knows
        <3> QED
            BY <2>1, <3>1, <3>2
    <2>4. Fresh(job)' /\ Asks(job)'
        BY <1>0, <1>2, <1>3 DEF Fresh, Open, Asks, Terminal
    <2> QED
        BY <1>3, <2>3, <2>4 DEF JobKnows, LoopKnows, Reopening, Reopens, Holds
<1>4. ASSUME loop' = loop, job.status = "running",
             job'.nodes = job.nodes, job'.awaiting = job.awaiting
      PROVE  Rest'
    <2>1. job.awaiting = None
        BY <1>0, <1>4 DEF Asks, Terminal
    <2>2. JobKnows' /\ LoopKnows' /\ Reopening'
        BY <1>0, <1>1, <1>4 DEF JobKnows, LoopKnows, Reopening, Reopens, Holds, Knows, Fresh, Ended, Open
    <2> QED
        BY <1>0, <1>2, <1>4, <2>1, <2>2 DEF Asks, Open, Holds
<1>5. ASSUME loop.pc = "off", loop'.pc = "start", job.status = "paused",
             job'.nodes = job.nodes, job'.awaiting = job.awaiting
      PROVE  Rest'
    <2>1. job.awaiting = None
        BY <1>0, <1>5 DEF Asks, Terminal
    <2> QED
        BY <1>0, <1>1, <1>5, <2>1
        DEF JobKnows, LoopKnows, Reopening, Reopens, Holds, Knows, Fresh, Ended, Open, Asks
<1>6. ASSUME loop.pc = "off", loop'.pc = "start",
             job.awaiting \in Nodes, job.status \notin Terminal, job'.awaiting = None,
             \A n \in Nodes : job'.nodes[n] = IF n = job.awaiting THEN "pending" ELSE job.nodes[n]
      PROVE  Rest'
    <2>1. job.awaiting \in Open(job)
        BY <1>0, <1>6, NoneIsNoNode DEF Asks
    <2>2. \A n \in Nodes : job'.nodes[n] = job.nodes[n]
        BY <1>6, <2>1 DEF Open
    <2> QED
        BY <1>0, <1>1, <1>6, <2>2
        DEF JobKnows, LoopKnows, Reopening, Reopens, Holds, Knows, Fresh, Ended, Open, Asks
<1>7. ASSUME loop.pc = "off", loop' = loop,
             job.awaiting \in Nodes, job'.status = "failed", job'.awaiting = job.awaiting,
             \A n \in Nodes : job'.nodes[n] = IF n = job.awaiting THEN "skipped" ELSE job.nodes[n]
      PROVE  Rest'
    <2>1. job.awaiting \notin Ended
        BY <1>0, <1>7, NoneIsNoNode DEF Asks
    <2>2. \A n \in Nodes : Knows(job, n)'
        BY <1>0, <1>1, <1>7, <2>1 DEF JobKnows, Reopens, Knows, Ended, FailedNode
    <2>3. Fresh(job)' /\ Asks(job)'
        BY <1>0, <1>2, <1>7, <2>1 DEF JobKnows, Reopens, Fresh, Open, Asks, Terminal
    <2> QED
        BY <1>7, <2>2, <2>3 DEF JobKnows, LoopKnows, Reopening, Reopens, Holds
<1> HIDE DEF Rest
<1> QED
    BY <1>3, <1>4, <1>5, <1>6, <1>7, RequestLeaves

\* A patch that is attached gives a node to the plan that it did not have.
LEMMA ExtendsLeaves ==
    ASSUME EInv, NEW c \in Patches, Extends(c)
    PROVE  /\ Appending(c) /\ plan'.applied = plan.applied \cup {c} /\ ReadySlots(plan) # {}
           /\ \A n \in Nodes : \/ plan'.nodes[n] = plan.nodes[n]
                               \/ plan.nodes[n] = "none" /\ plan'.nodes[n] = "pending"
<1>1. plan \in Plans /\ Fits(plan, c, plan.revision) /\ plan' = Applied(plan, c)
    BY DEF EInv, IInv, Turns, TypeOK, Extends
<1>2. /\ plan'.applied = plan.applied \cup {c}
      /\ plan'.nodes = [n \in Nodes |-> IF n \in Added[c] THEN "pending" ELSE plan.nodes[n]]
    BY <1>1, AppliedFacts
<1> QED
    BY <1>1, <1>2 DEF Fits, Extends, Appending

LEMMA PatchEnded ==
    ASSUME EInv, IInv', NEW c \in Patches, PatchStep(c) \/ Send(c) \/ Abort(c), Races = {}
    PROVE  EndedInv'
<1>0. /\ InPlan /\ JobKnows /\ LoopKnows /\ CopyKnows /\ Reopening /\ NobodyAsks /\ CopyIsRecord
      /\ Asks(job) /\ (Holds => Asks(loop.job))
      /\ \A d \in Patches : Appending(d) => Asks(patch[d].job)
    BY DEF EInv, EndedInv, Questions, RecordInv
<1>1. past' = past /\ Ended' = Ended /\ \A d \in Patches \ {c} : patch'[d] = patch[d]
    BY PatchLeaves DEF Ended
<1> USE DEF Reopens, Holds
<1>2. CASE Reads(c) /\ plan' = plan /\ lock' = c
    <2>1. job' = job /\ loop' = loop /\ patch'[c].job = job /\ ~Between
        BY <1>2 DEF Reads
    <2>2. \A d \in Patches : Appending(d)' => d = c
        BY <1>2 DEF IInv, Turns, OneAtATime
    <2>3. CopyKnows'
        BY <1>0, <1>1, <1>2, <2>1, <2>2 DEF CopyKnows, JobKnows, Between, Knows
    <2>4. InPlan' /\ JobKnows' /\ LoopKnows' /\ Reopening'
        BY <1>0, <1>1, <1>2, <2>1 DEF InPlan, JobKnows, LoopKnows, Reopening, Knows, Fresh, Open
    <2>5. Questions'
        BY <1>0, <1>1, <2>1, <2>2 DEF Questions, Asks, Open
    <2> QED
        BY <2>3, <2>4, <2>5 DEF EndedInv
<1>3. CASE Saves(c) /\ plan' = plan /\ lock' = "none"
    <2> DEFINE o == patch[c].job
    <2>1. /\ Appending(c) /\ ~Between /\ \A d \in Patches : ~(Appending(d)')
          /\ loop' = loop /\ o.status \notin Terminal
          /\ loop.pc # "running" /\ job.status # "cancelled" =>
                    job'.nodes = job.nodes /\ job'.awaiting = job.awaiting
          /\ \A n \in Nodes : job'.nodes[n] \in {job.nodes[n], o.nodes[n]}
          /\ job.status = "cancelled" =>
                    \A n \in Nodes : job'.nodes[n] = "pending" => job.nodes[n] = "pending"
          /\ job'.awaiting = o.awaiting
          /\ \/ job'.status = o.status
             \/ job'.status = job.status /\ job.status \in Control
          /\ job.status \in Control /\ o.status \notin Control => job'.status = job.status
        BY <1>3, SavesLeave
    <2>2. \A n \in Nodes : Knows(job, n) /\ Knows(o, n)
        BY <1>0, <2>1 DEF JobKnows, CopyKnows, Between
    <2>3. \A n \in Nodes : Knows(job, n)'
        <3> SUFFICES ASSUME NEW n \in Nodes PROVE Knows(job, n)'
            OBVIOUS
        <3>1. CASE job'.nodes[n] = job.nodes[n]
            BY <1>1, <1>3, <2>2, <3>1 DEF Knows
        <3>2. CASE job'.nodes[n] = o.nodes[n]
            BY <1>1, <1>3, <2>2, <3>2 DEF Knows
        <3> QED
            BY <2>1, <3>1, <3>2
    <2>4. loop.pc # "running" => Fresh(job)'
        BY <1>0, <1>1, <2>1 DEF JobKnows, Between, Fresh, Open
    <2>5. Asks(job)'
        <3>1. CASE loop.pc = "running"
            BY <1>0, <2>1, <3>1 DEF NobodyAsks, Asks
        <3>2. CASE loop.pc # "running" /\ job.status # "cancelled"
            <4>1. o.nodes = job.nodes /\ o.awaiting = job.awaiting
                BY <1>0, <2>1, <3>2 DEF CopyIsRecord
            <4> QED
                BY <1>0, <1>1, <2>1, <3>2, <4>1 DEF Asks, Open
        <3>3. CASE job.status = "cancelled"
            BY <1>0, <1>1, <2>1, <3>3 DEF Asks, Terminal, Control
        <3> QED
            BY <3>1, <3>2, <3>3
    <2>6. InPlan' /\ LoopKnows' /\ Reopening' /\ CopyKnows'
        BY <1>0, <1>1, <1>3, <2>1 DEF InPlan, LoopKnows, Reopening, CopyKnows, Knows, Fresh, Open
    <2>7. JobKnows'
        BY <2>1, <2>3, <2>4 DEF JobKnows
    <2>8. (Holds => Asks(loop.job))'
        BY <1>0, <1>1, <2>1 DEF Asks, Open
    <2> QED
        BY <2>1, <2>5, <2>6, <2>7, <2>8 DEF EndedInv, Questions
<1>4. CASE Wakes(c) /\ plan' = plan /\ job.status = "paused"
    <2>1. /\ job'.nodes = job.nodes /\ job'.awaiting = job.awaiting
          /\ loop.pc = "off" /\ loop'.pc = "start" /\ ~(Appending(c)')
        BY <1>4, RestTypes DEF Wakes, Appending, Loops
    <2>2. \A d \in Patches : Appending(d)' => Appending(d) /\ patch'[d] = patch[d]
        BY <1>1, <2>1 DEF Appending
    <2>3. job.awaiting = None
        BY <1>0, <1>4 DEF Asks, Terminal
    <2>4. InPlan' /\ JobKnows' /\ LoopKnows' /\ Reopening'
        BY <1>0, <1>1, <1>4, <2>1 DEF InPlan, JobKnows, LoopKnows, Reopening, Knows, Fresh, Open
    <2>5. CopyKnows' /\ Questions'
        BY <1>0, <1>1, <1>4, <2>1, <2>2, <2>3 DEF CopyKnows, Knows, Questions, Asks, Open
    <2> QED
        BY <2>4, <2>5 DEF EndedInv
<1>5. CASE Keeps(c) /\ (plan' = plan \/ Extends(c))
    <2>1. job' = job /\ loop' = loop
        BY <1>5 DEF Keeps
    <2>2. \A d \in Patches : Appending(d)' => Appending(d) /\ patch'[d].job = patch[d].job
        BY <1>1, <1>5 DEF Keeps, Appending
    <2>3. \A n \in Nodes : \/ plan'.nodes[n] = plan.nodes[n]
                           \/ plan.nodes[n] = "none" /\ plan'.nodes[n] = "pending"
        BY <1>5, ExtendsLeaves
    <2>4. InPlan' /\ Reopening'
        BY <1>0, <1>1, <2>1, <2>3 DEF InPlan, Reopening, Open
    <2>5. JobKnows' /\ LoopKnows'
        BY <1>0, <1>1, <2>1, <2>3 DEF JobKnows, LoopKnows, Knows, Fresh, Open, FailedNode
    <2>6. CopyKnows'
        BY <1>0, <1>1, <2>2, <2>3 DEF CopyKnows, Knows, FailedNode
    <2>7. Questions'
        BY <1>0, <1>1, <2>1, <2>2 DEF Questions, Asks, Open
    <2> QED
        BY <2>4, <2>5, <2>6, <2>7 DEF EndedInv
<1> QED
    BY <1>2, <1>3, <1>4, <1>5, PatchLeaves

(* -------------------- what may still be asked -------------------------- *)

LEMMA LoopAsks ==
    ASSUME EInv, IInv', LoopStep, Races = {}
    PROVE  StillAskable'
<1>0. /\ TypeOK /\ patch' = patch /\ LoopIsRecord /\ StillAskable
      /\ job \in Jobs /\ loop.job \in Jobs
      /\ \A c \in Patches : Appending(c)' => Appending(c)
    BY LoopKeepsPatches DEF EInv, IInv, Turns, TypeOK, Loops, RecordInv, Appending
<1> USE DEF Superseded, Askable, Holds
<1>1. ASSUME Between \/ Between', (Superseded \/ Askable(job))',
             (Holds => \/ Askable(loop.job)
                       \/ loop.pc = "save" /\ loop.next = "check" /\ loop.job.status = "failed")'
      PROVE  StillAskable'
    BY <1>1, NobodyAppends DEF StillAskable
<1>2. CASE Start \/ Launch
    <2>1. /\ loop.pc \in {"start", "launch"} /\ loop'.pc \in {"launch", "running"}
          /\ plan' = plan /\ job' = job /\ loop'.job \in {job, loop.job}
          /\ Start => loop'.job = job
          /\ Launch => loop.pc = "launch" /\ loop'.job = loop.job
        BY <1>0, <1>2, MoveFacts
    <2> QED
        BY <1>0, <1>2, <2>1 DEF StillAskable
<1>3. ASSUME NEW n \in Nodes, NEW r \in NodeStatus, NodeEnds(n, r)
      PROVE  StillAskable'
    <2>1. /\ loop.pc = "running" /\ loop'.pc = "running" /\ n \in Open(loop.job)
          /\ job' = loop'.job /\ plan' = plan
          /\ \A m \in Nodes : job'.nodes[m] = IF m = n THEN r ELSE loop.job.nodes[m]
        BY <1>3, NodeEndsLeaves
    <2>2. plan.nodes[n] = "materialized"
        BY <2>1, HandedOut DEF EInv, EndedInv, LoopKnows, Knows, Reopens
    <2>3. Askable(loop.job)
        BY <1>0, <2>1 DEF StillAskable
    <2>4. Askable(job)'
        BY <2>1, <2>2, <2>3
    <2> QED
        BY <1>0, <2>1, <2>4 DEF StillAskable
<1>4. CASE Outcome
    <2>1. /\ loop.pc \in {"launch", "running"} /\ loop'.pc = "refresh"
          /\ job'.nodes = loop.job.nodes /\ plan' = plan
        BY <1>4, OutcomeLeaves
    <2>2. Askable(loop.job)
        BY <1>0, <2>1 DEF StillAskable
    <2> QED
        BY <1>1, <2>1, <2>2 DEF Between
<1>5. CASE Refresh \/ Load \/ Reopen \/ LoadReplan
    <2>1. /\ loop.pc \in {"refresh", "load", "reopen", "recover"} /\ Between
          /\ loop'.pc \in {"load", "commit", "reopened", "replan", "recover"}
          /\ plan' = plan /\ job' = job /\ loop'.job \in {job, loop.job}
        BY <1>0, <1>5, MoveFacts DEF Between
    <2>2. Askable(job)
        BY <1>0, <2>1 DEF StillAskable
    <2>3. loop'.job = job
        BY <1>0, <1>5, <2>1, MoveFacts DEF LoopIsRecord
    <2> QED
        BY <1>1, <2>1, <2>2, <2>3
<1>6. CASE Commit
    <2>1. /\ loop.pc = "commit" /\ loop'.pc = "advance" /\ loop'.job = loop.job /\ loop.job = job
          /\ \A n \in Nodes : plan'.nodes[n] =
                 IF job.nodes[n] # "none" /\ plan.nodes[n] \in {"materialized", "pending"}
                 THEN job.nodes[n] ELSE plan.nodes[n]
          /\ job' = job
        BY <1>6, CommitLeaves
    <2>2. Askable(job)
        BY <1>0, <2>1 DEF StillAskable
    <2>3. Askable(job)'
        BY <2>1, <2>2
    <2> QED
        BY <1>1, <2>1, <2>3 DEF Between
<1>7. CASE FrontierFailed \/ AwaitPatches \/ Complete \/ OutOfPlan
    <2>1. /\ loop.pc = "advance" /\ loop'.pc = "save" /\ loop'.next = "recover"
          /\ loop'.job.nodes = job.nodes /\ plan' = plan /\ job' = job
        BY <1>7, StayLeaves
    <2>2. Askable(job)
        BY <1>0, <2>1 DEF StillAskable
    <2> QED
        BY <1>1, <2>1, <2>2 DEF Between
<1>8. CASE NextFrontier
    <2>1. /\ loop.pc = "advance" /\ loop'.pc = "save" /\ loop'.next = "start"
          /\ \A n \in Nodes : \/ /\ plan.nodes[n] = "pending" /\ plan'.nodes[n] = "materialized"
                                 /\ loop'.job.nodes[n] = "pending"
                              \/ /\ plan'.nodes[n] = plan.nodes[n]
                                 /\ loop'.job.nodes[n] = "none"
          /\ job' = job
        BY <1>8, NextFrontierLeaves
    <2>2. Askable(job)
        BY <1>0, <2>1 DEF StillAskable
    <2>3. Askable(job)' /\ Askable(loop.job)'
        BY <2>1, <2>2
    <2> QED
        BY <1>1, <2>1, <2>3 DEF Between
<1>9. CASE SaveJob
    <2>1. /\ loop.pc = "save" /\ job' = loop.job /\ loop'.pc = loop.next /\ plan' = plan
          /\ loop.next = "recover" => loop'.job = loop.job
          /\ loop.next \in {"start", "recover", "restart", "check"}
        BY <1>0, <1>9, SaveJobLeaves DEF LoopIsRecord
    <2>2. \/ Askable(loop.job)
          \/ loop.next = "check" /\ loop.job.status = "failed"
        BY <1>0, <2>1 DEF StillAskable
    <2> QED
        BY <1>1, <2>1, <2>2 DEF Between
<1>10. CASE GiveUp
    <2>1. /\ loop.pc = "recover" /\ loop'.pc = "check" /\ plan' = plan /\ job' = job
        BY <1>0, <1>10, MoveFacts
    <2>2. Askable(job)
        BY <1>0, <2>1 DEF StillAskable
    <2> QED
        BY <1>1, <2>1, <2>2 DEF Between
<1>11. CASE Escalate
    <2>1. PICK n \in Nodes :
           /\ loop.pc = "recover" /\ loop'.pc = "reopen"
           /\ job' = loop'.job
           /\ \A m \in Nodes : job'.nodes[m] = IF m = n THEN "pending" ELSE job.nodes[m]
           /\ plan' = plan
        BY <1>11, EscalateLeaves
    <2>2. Askable(job)
        BY <1>0, <2>1 DEF StillAskable
    <2>3. Askable(job)'
        BY <2>1, <2>2
    <2> QED
        BY <1>1, <2>1, <2>3 DEF Between
<1>12. CASE SaveReopened
    <2>1. /\ loop.pc = "reopened" /\ loop'.pc = "save" /\ loop'.next = "restart"
          /\ loop'.job = loop.job /\ loop.job = job
          /\ \A n \in Nodes : plan'.nodes[n] =
                 IF job.nodes[n] = "pending" /\ plan.nodes[n] # "none"
                 THEN "materialized" ELSE plan.nodes[n]
          /\ job' = job
        BY <1>12, SaveReopenedLeaves
    <2>2. Askable(job)
        BY <1>0, <2>1 DEF StillAskable
    <2>3. Askable(job)'
        BY <2>1, <2>2
    <2> QED
        BY <1>1, <2>1, <2>3 DEF Between
<1>13. CASE ReplanDeclined \/ RecoveryEnds
    <2>1. /\ loop.pc \in {"replan", "recover"} /\ loop'.pc = "save" /\ loop'.next = "check"
          /\ loop'.job.nodes = loop.job.nodes /\ plan' = plan /\ job' = job
        BY <1>0, <1>13, MoveFacts
    <2>2. Askable(loop.job)
        BY <1>0, <2>1 DEF StillAskable
    <2> QED
        BY <1>1, <2>1, <2>2 DEF Between
<1>14. CASE Replan
    <2>1. /\ loop.pc = "replan" /\ loop'.pc = "save" /\ job' = job
          /\ \/ loop'.next = "check" /\ loop'.job.status = "failed"
             \/ /\ loop'.next = "restart"
                /\ \A n \in Nodes : loop'.job.nodes[n] \in {"pending", "none"}
        BY <1>14, ReplanLeaves
    <2> QED
        BY <1>1, <2>1 DEF Between
<1>15. CASE Restart
    <2>1. /\ loop.pc = "restart" /\ plan' = plan /\ job' = job
          /\ loop'.pc = IF job.status = "running" THEN "start" ELSE "check"
        BY <1>0, <1>15, MoveFacts
    <2> QED
        BY <1>0, <2>1 DEF StillAskable
<1>16. CASE Check
    <2>1. loop.pc = "check" /\ loop'.pc = "off" /\ job' = job /\ plan' = plan
        BY <1>16, CheckLeaves
    <2> QED
        BY <1>0, <2>1 DEF StillAskable
<1> QED
    BY <1>2, <1>3, <1>4, <1>5, <1>6, <1>7, <1>8, <1>9, <1>10, <1>11, <1>12, <1>13, <1>14, <1>15,
       <1>16 DEF LoopStep

LEMMA RequestAsks ==
    ASSUME EInv, Cancel \/ Pause \/ Resume \/ Approve \/ Reject, Races = {}
    PROVE  StillAskable'
<1>0. StillAskable /\ LoopIsRecord /\ job \in Jobs
    BY DEF EInv, IInv, Turns, TypeOK, RecordInv
<1>1. plan' = plan /\ patch' = patch /\ \A c \in Patches : Appending(c)' => Appending(c)
    BY RequestLeaves DEF Appending
<1> USE DEF Superseded, Askable, Holds
<1>2. ASSUME loop'.pc = "off", job'.status = "cancelled",
             \A n \in Nodes : job'.nodes[n] =
                 IF job.nodes[n] = "pending" THEN "cancelled" ELSE job.nodes[n]
      PROVE  StillAskable'
    BY <1>0, <1>1, <1>2 DEF StillAskable
<1>3. ASSUME loop' = loop, job.status = "running", job'.nodes = job.nodes
      PROVE  StillAskable'
    <2>1. Askable(job)
        BY <1>0, <1>3 DEF StillAskable, LoopIsRecord, Between
    <2> QED
        BY <1>0, <1>1, <1>3, <2>1 DEF StillAskable
<1>4. ASSUME loop.pc = "off", loop'.pc = "start", job.status = "paused", job'.nodes = job.nodes
      PROVE  StillAskable'
    BY <1>0, <1>1, <1>4 DEF StillAskable
<1>5. ASSUME loop.pc = "off", loop'.pc = "start", job.status \notin Terminal,
             \A n \in Nodes : job'.nodes[n] = IF n = job.awaiting THEN "pending" ELSE job.nodes[n]
      PROVE  StillAskable'
    BY <1>0, <1>1, <1>5 DEF StillAskable, Terminal
<1>6. ASSUME loop.pc = "off", loop' = loop, \A c \in Patches : ~Appending(c), job'.status = "failed"
      PROVE  StillAskable'
    BY <1>0, <1>1, <1>6 DEF StillAskable
<1> QED
    BY <1>2, <1>3, <1>4, <1>5, <1>6, RequestLeaves

LEMMA PatchAsks ==
    ASSUME EInv, IInv', NEW c \in Patches, PatchStep(c) \/ Send(c) \/ Abort(c), Races = {}
    PROVE  StillAskable'
<1>0. StillAskable /\ CopyIsRecord
    BY DEF EInv, RecordInv
<1>1. \A d \in Patches \ {c} : patch'[d] = patch[d]
    BY PatchLeaves
<1> USE DEF Superseded, Askable, Holds
<1>2. CASE Reads(c) /\ plan' = plan /\ lock' = c
    <2>1. job' = job /\ loop' = loop /\ patch'[c].job = job /\ ~Between
        BY <1>2 DEF Reads
    <2>2. \A d \in Patches : Appending(d)' => d = c
        BY <1>2 DEF IInv, Turns, OneAtATime
    <2>3. job.status \in Terminal \/ Askable(job)
        BY <1>0, <2>1 DEF StillAskable, Between, Terminal
    <2> QED
        BY <1>0, <1>2, <2>1, <2>2, <2>3 DEF StillAskable
<1>3. CASE Saves(c) /\ plan' = plan /\ lock' = "none"
    <2>1. /\ Appending(c) /\ ~Between /\ \A d \in Patches : ~(Appending(d)')
          /\ loop' = loop /\ patch[c].job.status \notin Terminal
          /\ \A n \in Nodes : job'.nodes[n] \in {job.nodes[n], patch[c].job.nodes[n]}
        BY <1>3, SavesLeave
    <2>2. Askable(patch[c].job) /\ Askable(job)
        BY <1>0, <2>1 DEF StillAskable
    <2>3. Askable(job)'
        BY <1>3, <2>1, <2>2
    <2> QED
        BY <1>0, <1>3, <2>1, <2>3 DEF StillAskable
<1>4. CASE Wakes(c) /\ plan' = plan /\ job.status = "paused"
    <2>1. /\ job'.nodes = job.nodes /\ loop.pc = "off" /\ loop'.pc = "start" /\ ~(Appending(c)')
        BY <1>4, RestTypes DEF Wakes, Appending, Loops
    <2>2. \A d \in Patches : Appending(d)' => Appending(d) /\ patch'[d] = patch[d]
        BY <1>1, <2>1 DEF Appending
    <2> QED
        BY <1>0, <1>4, <2>1, <2>2 DEF StillAskable
<1>5. CASE Keeps(c) /\ (plan' = plan \/ Extends(c))
    <2>1. job' = job /\ loop' = loop
        BY <1>5 DEF Keeps
    <2>2. \A d \in Patches : Appending(d)' => Appending(d) /\ patch'[d].job = patch[d].job
        BY <1>1, <1>5 DEF Keeps, Appending
    <2>3. \A n \in Nodes : \/ plan'.nodes[n] = plan.nodes[n]
                           \/ plan.nodes[n] = "none" /\ plan'.nodes[n] = "pending"
        BY <1>5, ExtendsLeaves
    <2>4. \A j : Askable(j) => \A n \in Nodes : j.nodes[n] = "escalated" =>
                                  plan'.nodes[n] \in {"materialized", "escalated"}
        BY <2>3
    <2> QED
        BY <1>0, <2>1, <2>2, <2>4 DEF StillAskable
<1> QED
    BY <1>2, <1>3, <1>4, <1>5, PatchLeaves

(* ------------------------- what is reported ---------------------------- *)

LEMMA LoopReports ==
    ASSUME EInv, IInv', LoopStep, Races = {}
    PROVE  Reported'
<1>0. /\ TypeOK /\ Reported /\ LoopIsRecord /\ WindowIsBack /\ JobKnows /\ Reopening
    BY DEF EInv, IInv, Turns, ReportInv, RecordInv, EndedInv
<1> USE DEF Between
<1>1. ASSUME loop'.pc \in {"start", "launch", "running", "refresh", "load", "commit", "advance"}
      PROVE  Reported'
    BY <1>1 DEF Reported
<1>2. CASE Start \/ Launch \/ Load
    BY <1>0, <1>1, <1>2, MoveFacts
<1>3. CASE Outcome \/ Commit \/ \E n \in Nodes, r \in NodeStatus : NodeEnds(n, r)
    BY <1>1, <1>3, OutcomeLeaves, CommitLeaves, NodeEndsLeaves
<1>4. ASSUME plan' = plan, job' = job, loop.pc \notin {"save"}, loop'.pc # "save",
             loop'.pc \in {"off", "check"} => job.status # "running",
             \/ loop.pc \in {"off", "check", "restart", "recover", "reopen", "reopened", "replan"}
             \/ job.status # "completed"
      PROVE  Reported'
    BY <1>0, <1>4 DEF Reported, Finished
<1>5. CASE Refresh
    <2>1. /\ loop.pc = "refresh" /\ plan' = plan /\ job' = job
          /\ loop'.pc = IF job.status \in Control \cup {"waiting_approval"} THEN "recover" ELSE "load"
        BY <1>0, <1>5, MoveFacts
    <2> QED
        BY <1>1, <1>4, <2>1 DEF Control
<1>6. CASE GiveUp \/ Reopen \/ LoadReplan \/ Restart
    <2>1. /\ plan' = plan /\ job' = job
          /\ loop.pc \in {"restart", "recover", "reopen"}
          /\ loop'.pc \in {"check", "reopened", "replan", "start"}
          /\ loop'.pc = "check" => job.status # "running"
        BY <1>0, <1>6, MoveFacts DEF LoopIsRecord
    <2> QED
        BY <1>4, <2>1
<1>7. CASE Check
    <2>1. loop.pc = "check" /\ loop'.pc = "off" /\ job' = job /\ plan' = plan
        BY <1>7, CheckLeaves
    <2> QED
        BY <1>0, <1>4, <2>1 DEF Reported
<1>8. CASE FrontierFailed \/ AwaitPatches \/ Complete \/ OutOfPlan
    <2>1. /\ loop.pc = "advance" /\ loop'.pc = "save" /\ plan' = plan
          /\ \/ Broken /\ loop'.job = job
             \/ loop'.job.status \in {"paused", "failed"}
             \/ loop'.job.status = "completed" /\ Finished
        BY <1>8, StayLeaves
    <2>2. ASSUME Broken, job.status = "completed"
          PROVE  FALSE
        <3>1. PICK n \in Nodes : plan.nodes[n] \in FailedNode
            BY <2>1, <2>2 DEF Broken, Progress, EInv, IInv, Turns, LoopIsCurrent
        <3>2. job.nodes[n] \in {"none", "completed"}
            BY <1>0, <2>1, <2>2 DEF WindowIsBack, Commits
        <3>3. Knows(job, n)
            BY <1>0, <2>1 DEF JobKnows, Reopens
        <3> QED
            BY <3>1, <3>2, <3>3 DEF Knows, FailedNode
    <2>3. loop'.job.status = "completed" => Finished
        BY <2>1, <2>2
    <2>4. Finished' = Finished
        BY <2>1 DEF Finished
    <2> QED
        BY <2>1, <2>3, <2>4 DEF Reported
<1>9. CASE NextFrontier
    BY <1>9, NextFrontierLeaves DEF Reported
<1>10. CASE SaveJob
    <2>1. /\ loop.pc = "save" /\ job' = loop.job /\ loop'.pc = loop.next /\ plan' = plan
          /\ loop.next \in {"start", "recover", "restart", "check"}
        BY <1>0, <1>10, SaveJobLeaves DEF LoopIsRecord
    <2>2. loop'.pc = "check" => job'.status # "running"
        BY <1>0, <2>1 DEF LoopIsRecord
    <2>3. job'.status = "completed" => Finished'
        BY <1>0, <2>1 DEF Reported, Finished
    <2> QED
        BY <2>1, <2>2, <2>3 DEF Reported
<1>11. CASE Escalate
    <2>1. loop'.pc = "reopen" /\ job'.status = "waiting_approval"
        BY <1>11, EscalateLeaves
    <2> QED
        BY <2>1 DEF Reported
<1>12. CASE SaveReopened
    <2>1. loop.pc = "reopened" /\ loop'.pc = "save" /\ loop'.job = job /\ loop.job = job
        BY <1>12, SaveReopenedLeaves
    <2>2. job.awaiting \in Nodes /\ plan.nodes[job.awaiting] \in {"materialized", "escalated"}
        BY <1>0, <2>1 DEF Reopening, Reopens, Open
    <2>3. ~Finished
        BY <2>2 DEF Finished, AllCompleted, Progress
    <2> QED
        BY <1>0, <2>1, <2>3 DEF Reported
<1>13. CASE ReplanDeclined
    <2>1. /\ loop.pc = "replan" /\ loop'.pc = "save" /\ loop'.job = loop.job /\ plan' = plan
        BY <1>0, <1>13, MoveFacts
    <2>2. loop.job = job
        BY <1>0, <2>1 DEF LoopIsRecord
    <2> QED
        BY <1>0, <2>1, <2>2 DEF Reported, Finished
<1>14. CASE Replan
    <2>1. loop'.pc = "save" /\ loop'.job.status \in {"failed", "running"}
        BY <1>14, ReplanLeaves
    <2> QED
        BY <2>1 DEF Reported
<1>15. CASE RecoveryEnds
    <2>1. loop.pc = "recover" /\ loop'.pc = "save" /\ loop'.job.status \in {"failed", "clarified"}
        BY <1>0, <1>15, MoveFacts
    <2> QED
        BY <2>1 DEF Reported
<1> QED
    BY <1>2, <1>3, <1>5, <1>6, <1>7, <1>8, <1>9, <1>10, <1>11, <1>12, <1>13, <1>14, <1>15
    DEF LoopStep

\* The steps of the loop that a patch may be appended beside.
LEMMA LoopReport ==
    ASSUME EInv, IInv', LoopStep, Races = {}
    PROVE  ReportInv'
<1>0. TypeOK /\ CopyRuns /\ AppliedOnce /\ patch' = patch
    BY LoopKeepsPatches DEF EInv, IInv, Turns, ReportInv
<1> SUFFICES CopyRuns' /\ AppliedOnce'
    BY LoopReports DEF ReportInv
<1>1. CASE Between \/ Between'
    BY <1>0, <1>1, NobodyAppends DEF CopyRuns, AppliedOnce, Appending
<1>2. ASSUME plan' = plan, loop'.pc \in {"launch", "running"}
      PROVE  CopyRuns' /\ AppliedOnce'
    BY <1>0, <1>2 DEF CopyRuns, AppliedOnce, AtRest
<1>3. CASE Start \/ Launch
    BY <1>0, <1>2, <1>3, MoveFacts
<1>4. CASE \E n \in Nodes, r \in NodeStatus : NodeEnds(n, r)
    BY <1>2, <1>4, NodeEndsLeaves
<1>5. CASE Restart
    <2>1. loop.pc = "restart" /\ plan' = plan /\ job' = job /\ current' = current
        BY <1>0, <1>5, MoveFacts DEF Restart
    <2> QED
        BY <1>0, <2>1 DEF CopyRuns, AppliedOnce, AtRest, Appending
<1>6. CASE Check
    <2>1. loop.pc = "check" /\ plan' = plan /\ job' = job
        BY <1>6, CheckLeaves
    <2>2. \A c \in Patches : c \in current' => c \in current
        BY <1>6, LoopOnlyJoins
    <2> QED
        BY <1>0, <2>1, <2>2 DEF CopyRuns, AppliedOnce, AtRest, Appending
<1>7. CASE Outcome
    BY <1>1, <1>7, OutcomeLeaves DEF Between
<1> QED
    BY <1>1, <1>3, <1>4, <1>5, <1>6, <1>7
    DEF LoopStep, Between, Refresh, Load, Commit, FrontierFailed, AwaitPatches, Complete,
        NextFrontier, OutOfPlan, Advanced, SaveJob, GiveUp, Escalate, Recovering, RecoveryEnds, Reopen,
        SaveReopened, LoadReplan, ReplanDeclined, Replan

LEMMA RequestReport ==
    ASSUME EInv, Cancel \/ Pause \/ Resume \/ Approve \/ Reject, Races = {}
    PROVE  ReportInv'
<1>0. Reported /\ CopyRuns /\ AppliedOnce
    BY DEF EInv, ReportInv
<1>1. plan' = plan /\ patch' = patch /\ current' = {}
    BY RequestLeaves
<1>2. AppliedOnce' /\ Finished' = Finished
    BY <1>0, <1>1 DEF AppliedOnce, Finished
<1>3. ASSUME loop'.pc = "off", job'.status = "cancelled" PROVE Reported' /\ CopyRuns'
    BY <1>1, <1>3 DEF Reported, CopyRuns, Control
<1>4. ASSUME loop' = loop, job'.status = "paused" PROVE Reported' /\ CopyRuns'
    BY <1>0, <1>1, <1>2, <1>4 DEF Reported, CopyRuns, Control
<1>5. ASSUME loop'.pc = "start", job'.status = "running" PROVE Reported' /\ CopyRuns'
    BY <1>5 DEF Reported, CopyRuns
<1>6. ASSUME loop.pc = "off", loop' = loop, \A c \in Patches : ~Appending(c), job'.status = "failed"
      PROVE  Reported' /\ CopyRuns'
    BY <1>1, <1>6 DEF Reported, CopyRuns, Appending
<1> QED
    BY <1>2, <1>3, <1>4, <1>5, <1>6, RequestLeaves DEF ReportInv

LEMMA PatchApplied ==
    ASSUME EInv, IInv', NEW c \in Patches, PatchStep(c) \/ Send(c) \/ Abort(c), Races = {}
    PROVE  AppliedOnce'
<1>0. /\ AppliedOnce /\ plan \in Plans /\ patch \in [Patches -> Appends] /\ TypeOK
      /\ PatchIsCurrent
    BY DEF EInv, IInv, Turns, TypeOK, ReportInv
<1>1. CASE SavePlan(c)
    <2>1. Extends(c) /\ \A d \in Patches : patch'[d].pc = "decided" => d # c /\ patch[d].pc = "decided"
        BY <1>0, <1>1 DEF SavePlan, Extends, PatchIsCurrent, Appends
    <2> QED
        BY <1>0, <2>1, ExtendsLeaves DEF AppliedOnce
<1>2. CASE Attach(c)
    BY <1>0, <1>2 DEF Attach, Known, AppliedOnce, Appends
<1>3. CASE ~SavePlan(c) /\ ~Attach(c)
    <2>1. plan' = plan
        BY <1>3 DEF PatchStep, Send, Abort, ReadJob, Refuse, Replay, SavePatched, Wake
    <2>2. \A d \in Patches : patch'[d].pc = "decided" => patch[d].pc = "decided"
        BY <1>0, <1>3, PatchMoves, PatchLeaves DEF PatchStep
    <2> QED
        BY <1>0, <2>1, <2>2 DEF AppliedOnce
<1> QED
    BY <1>1, <1>2, <1>3

LEMMA PatchReport ==
    ASSUME EInv, IInv', NEW c \in Patches, PatchStep(c) \/ Send(c) \/ Abort(c), Races = {}
    PROVE  ReportInv'
<1>0. Reported /\ CopyRuns
    BY DEF EInv, ReportInv
<1>1. \A d \in Patches \ {c} : patch'[d] = patch[d]
    BY PatchLeaves
<1> SUFFICES Reported' /\ CopyRuns'
    BY PatchApplied DEF ReportInv
<1>2. CASE Reads(c) /\ plan' = plan /\ lock' = c
    <2>1. job' = job /\ loop' = loop /\ patch'[c].job = job
        BY <1>2 DEF Reads
    <2>2. \A d \in Patches : Appending(d)' => d = c
        BY <1>2 DEF IInv, Turns, OneAtATime
    <2> QED
        BY <1>0, <1>2, <2>1, <2>2 DEF Reported, CopyRuns, Finished
<1>3. CASE Saves(c) /\ plan' = plan /\ lock' = "none"
    <2>1. /\ Appending(c) /\ ~Between /\ \A d \in Patches : ~(Appending(d)')
          /\ loop' = loop /\ patch[c].job.status \notin Terminal
          /\ \/ job'.status = patch[c].job.status
             \/ job'.status = job.status /\ job.status \in Control
          /\ job.status \in Control /\ patch[c].job.status \notin Control => job'.status = job.status
        BY <1>3, SavesLeave
    <2>2. job'.status # "completed"
        BY <2>1 DEF Terminal, Control
    <2>3. loop.pc \in {"off", "check"} => job'.status # "running"
        BY <1>0, <2>1 DEF Reported, CopyRuns, AtRest, Control
    <2> QED
        BY <2>1, <2>2, <2>3 DEF Reported, CopyRuns, Between
<1>4. CASE Wakes(c)
    <2>1. job'.status = "running" /\ loop'.pc = "start"
        BY <1>4, RestTypes DEF Wakes, Loops
    <2> QED
        BY <2>1 DEF Reported, CopyRuns
<1>5. CASE Keeps(c) /\ current' = current /\ (plan' = plan \/ Extends(c))
    <2>1. job' = job /\ loop' = loop
        BY <1>5 DEF Keeps
    <2>2. \A d \in Patches : Appending(d)' => Appending(d) /\ patch'[d].job = patch[d].job
        BY <1>1, <1>5 DEF Keeps, Appending
    <2>3. CopyRuns'
        BY <1>0, <1>5, <2>1, <2>2 DEF CopyRuns, AtRest
    <2>4. CASE plan' = plan
        BY <1>0, <2>1, <2>3, <2>4 DEF Reported, Finished
    <2>5. CASE Extends(c)
        <3>1. ReadySlots(plan) # {} /\ loop.pc # "save"
            BY <2>5, ExtendsLeaves DEF EInv, IInv, Turns, OneAtATime, Between
        <3> QED
            BY <1>0, <2>1, <2>3, <3>1 DEF Reported, Finished
    <2> QED
        BY <1>5, <2>4, <2>5
<1> QED
    BY <1>2, <1>3, <1>4, <1>5, PatchLeaves

(* ---------------------- the invariant and its use ---------------------- *)

LEMMA EInvInit == Init => EInv
<1> SUFFICES ASSUME Init PROVE EInv
    OBVIOUS
<1>0. IInv
    BY IInvInit
<1>1. /\ job = NewJob /\ loop.pc = "start" /\ plan = Materialized(NewPlan) /\ current = {}
      /\ past = [n \in Nodes |-> "fresh"]
      /\ \A c \in Patches : patch[c].pc = "idle"
    BY RestTypes DEF Init, Loops
<1>2. job.status = "running" /\ job.awaiting = None /\ job.nodes = Window(NewPlan)
    BY <1>1 DEF NewJob
<1>3. /\ \A n \in Nodes : /\ job.nodes[n] = IF n \in Frontier(NewPlan) THEN "pending" ELSE "none"
                          /\ plan.nodes[n] \in {"materialized", "pending", "none"}
                          /\ n \in Frontier(NewPlan) => plan.nodes[n] = "materialized"
    <2>1. plan.nodes = [n \in Nodes |-> IF n \in Frontier(NewPlan) THEN "materialized" ELSE NewPlan.nodes[n]]
        BY <1>1, NewTypes, MaterializedFacts
    <2> QED
        BY <1>2, <2>1 DEF Window, NewPlan
<1>4. Ended = {} /\ \A c \in Patches : ~Appending(c)
    BY <1>1 DEF Ended, Appending
<1>5. RecordInv
    BY <1>1, <1>2, <1>4
    DEF RecordInv, CurrentIsRecord, CopyIsRecord, CopyIsWithin, LoopIsRecord, Between,
        PendingIsPending, WindowIsBack, Commits, NobodyAsks
<1>6. \A n \in Nodes : Knows(job, n)
    BY <1>1, <1>3 DEF Knows, FailedNode
<1>7. EndedInv
    BY <1>1, <1>2, <1>4, <1>6
    DEF EndedInv, Questions, Asks, Holds, InPlan, JobKnows, Fresh, LoopKnows, CopyKnows,
        Reopening, Reopens
<1>8. ReportInv
    BY <1>1, <1>4 DEF ReportInv, Reported, CopyRuns, AppliedOnce
<1>9. StillAskable
    BY <1>1, <1>3, <1>4 DEF StillAskable, Askable, Holds
<1> QED
    BY <1>0, <1>5, <1>7, <1>8, <1>9 DEF EInv

LEMMA EInvStutter ==
    ASSUME EInv, UNCHANGED vars
    PROVE  RecordInv' /\ EndedInv' /\ StillAskable' /\ ReportInv'
<1>0. RecordInv /\ EndedInv /\ StillAskable /\ ReportInv
    BY DEF EInv
<1>1. /\ plan' = plan /\ job' = job /\ loop' = loop /\ patch' = patch /\ past' = past
      /\ current' = current
    BY DEF vars, clients, history
<1>2. CurrentIsRecord' /\ CopyIsRecord' /\ CopyIsWithin' /\ LoopIsRecord' /\ PendingIsPending'
    BY <1>0, <1>1
    DEF RecordInv, CurrentIsRecord, CopyIsRecord, CopyIsWithin, LoopIsRecord, PendingIsPending,
        Appending, Between, Open, Win, Stop
<1>3. WindowIsBack' /\ NobodyAsks'
    BY <1>0, <1>1
    DEF RecordInv, WindowIsBack, NobodyAsks, Appending, Commits, Returned, Open, Stop
<1>4. Questions' /\ InPlan' /\ Reopening'
    BY <1>0, <1>1 DEF EndedInv, Questions, InPlan, Reopening, Asks, Ended, Open, Holds, Appending, Reopens
<1>5. JobKnows' /\ LoopKnows' /\ CopyKnows'
    BY <1>0, <1>1
    DEF EndedInv, JobKnows, LoopKnows, CopyKnows, Knows, Fresh, Ended, Open, Holds, Appending, Reopens
<1>6. ReportInv'
    BY <1>0, <1>1 DEF ReportInv, Reported, CopyRuns, AppliedOnce, Finished, Appending, AtRest
<1>7. StillAskable'
    BY <1>0, <1>1 DEF StillAskable, Askable, Superseded, Holds, Appending
<1> QED
    BY <1>2, <1>3, <1>4, <1>5, <1>6, <1>7 DEF RecordInv, EndedInv

LEMMA EInvStep ==
    ASSUME EInv, [Next]_vars, Races = {}
    PROVE  EInv'
<1>1. IInv'
    BY IInvStep DEF EInv
<1>2. CASE LoopStep
    BY <1>1, <1>2, LoopRecord, LoopEnded, LoopAsks, LoopReport DEF EInv
<1>3. CASE Cancel \/ Pause \/ Resume \/ Approve \/ Reject
    BY <1>1, <1>3, RequestRecord, RequestEnded, RequestAsks, RequestReport DEF EInv
<1>4. ASSUME NEW c \in Patches, PatchStep(c) \/ Send(c) \/ Abort(c)
      PROVE  EInv'
    BY <1>1, <1>4, PatchRecord, PatchEnded, PatchAsks, PatchReport DEF EInv
<1>5. CASE UNCHANGED vars
    BY <1>1, <1>5, EInvStutter DEF EInv
<1> QED
    BY <1>2, <1>3, <1>4, <1>5 DEF Next

\* A job that is reported completed is, and one reported running has a loop.
THEOREM ReportsTrue == ASSUME Races = {} PROVE Spec => []ReportsAreTrue
<1>1. Init => EInv
    BY EInvInit
<1>2. EInv /\ [Next]_vars => EInv'
    BY EInvStep
<1>3. EInv => ReportsAreTrue
    BY DEF EInv, ReportInv, Reported, Finished, ReportsAreTrue
<1> QED
    BY <1>1, <1>2, <1>3, PTL DEF Spec

\* Only a launch and the end of a node write what became of a node.
LEMMA PastStays ==
    ASSUME EInv, IInv', Next, Races = {}
    PROVE  \/ past' = past
           \/ Launch
           \/ \E n \in Nodes, r \in NodeStatus : NodeEnds(n, r)
<1>1. CASE LoopStep
    BY <1>1
    DEF LoopStep, Start, Outcome, Refresh, Load, Commit, FrontierFailed, AwaitPatches, Complete,
        NextFrontier, OutOfPlan, Advanced, SaveJob, GiveUp, Escalate, RecoveryEnds, Reopen, SaveReopened,
        LoadReplan, ReplanDeclined, Replan, Restart, Check, history
<1>2. CASE Cancel \/ Pause \/ Resume \/ Approve \/ Reject
    BY <1>2, RequestLeaves
<1>3. ASSUME NEW c \in Patches, PatchStep(c) \/ Send(c) \/ Abort(c)
      PROVE  past' = past
    BY <1>3, PatchLeaves
<1> QED
    BY <1>1, <1>2, <1>3 DEF Next

\* A node that completed is not run again, whatever is paused, approved,
\* replanned or patched: what the loop may launch has not ended.
THEOREM CompletedStay == ASSUME Races = {} PROVE Spec => CompletedNeverReruns
<1> DEFINE Stays == \A n \in Nodes : past[n] = "completed" => past'[n] = "completed"
<1>1. Init => EInv
    BY EInvInit
<1>2. EInv /\ [Next]_vars => EInv'
    BY EInvStep
<1>3. EInv /\ [Next]_vars => [Stays]_vars
    <2> SUFFICES ASSUME EInv, Next PROVE Stays
        OBVIOUS
    <2>1. IInv' /\ TypeOK /\ (loop.pc \in {"launch", "running"} => Fresh(loop.job))
        BY IInvStep DEF EInv, IInv, Turns, EndedInv, LoopKnows, Holds
    <2>2. CASE Launch
        <3>1. /\ loop.pc = "launch"
              /\ past' = [n \in Nodes |-> IF n \in Open(loop.job) THEN "handed" ELSE past[n]]
            BY <2>2 DEF Launch
        <3> QED
            BY <2>1, <3>1 DEF Fresh, Ended
    <2>3. ASSUME NEW n \in Nodes, NEW r \in NodeStatus, NodeEnds(n, r)
          PROVE  Stays
        <3>1. /\ loop.pc = "running" /\ n \in Open(loop.job)
              /\ \A m \in Nodes : past'[m] = IF m = n /\ r \in {"completed", "uncertain"} THEN r ELSE past[m]
            BY <2>3, NodeEndsLeaves
        <3> QED
            BY <2>1, <3>1 DEF Fresh, Ended
    <2> QED
        BY <2>1, <2>2, <2>3, PastStays
<1> QED
    BY <1>1, <1>2, <1>3, PTL DEF Spec, CompletedNeverReruns

\* The revision of the plan is raised by a patch and by a replacement only.
LEMMA RevisionStays ==
    ASSUME EInv, IInv', Next, Races = {}
    PROVE  \/ plan'.revision = plan.revision
           \/ plan'.applied # plan.applied
           \/ Replan
<1>1. CASE LoopStep
    <2>1. CASE Commit \/ NextFrontier \/ SaveReopened
        BY <2>1, CommitLeaves, NextFrontierLeaves, SaveReopenedLeaves
    <2>2. CASE FrontierFailed \/ AwaitPatches \/ Complete \/ OutOfPlan
        BY <2>2, StayLeaves
    <2> QED
        BY <1>1, <2>1, <2>2
        DEF LoopStep, Start, Launch, NodeEnds, Outcome, Refresh, Load, SaveJob, GiveUp, Escalate,
            RecoveryEnds, Reopen, LoadReplan, ReplanDeclined, Restart, Check
<1>2. CASE Cancel \/ Pause \/ Resume \/ Approve \/ Reject
    BY <1>2, RequestLeaves
<1>3. ASSUME NEW c \in Patches, PatchStep(c) \/ Send(c) \/ Abort(c)
      PROVE  plan'.revision = plan.revision \/ plan'.applied # plan.applied
    <2>1. CASE Extends(c)
        <3>1. c \notin plan.applied
            BY <2>1 DEF EInv, ReportInv, AppliedOnce, Extends
        <3> QED
            BY <2>1, <3>1, ExtendsLeaves
    <2> QED
        BY <1>3, <2>1, PatchLeaves
<1> QED
    BY <1>1, <1>2, <1>3 DEF Next

\* A tail is not replaced once an effect has happened or may have happened, in
\* the window or in an earlier one: the committed plan and the record know it.
THEOREM EffectsStay == ASSUME Races = {} PROVE Spec => EffectsNotReplanned
<1> DEFINE Safe == plan'.revision > plan.revision /\ plan'.applied = plan.applied
                       => \A n \in Effectful : past[n] \notin {"completed", "uncertain"}
<1>1. Init => EInv
    BY EInvInit
<1>2. EInv /\ [Next]_vars => EInv'
    BY EInvStep
<1>3. EInv /\ [Next]_vars => [Safe]_vars
    <2> SUFFICES ASSUME EInv, Next PROVE Safe
        OBVIOUS
    <2>1. IInv' /\ plan.revision \in Nat
        BY IInvStep DEF EInv, IInv, Turns, TypeOK, Plans
    <2>2. CASE Replan
        <3>1. /\ loop.pc = "replan" /\ MayReplan(job, plan)
            BY <2>2, ReplanLeaves
        <3>2. \A n \in Nodes : /\ Knows(job, n) /\ plan.nodes[n] # "materialized"
                               /\ job.nodes[n] \notin {"pending", "cancelled"}
            BY <3>1, HandedOut
            DEF EInv, EndedInv, JobKnows, Reopens, RecordInv, WindowIsBack, Returned, IInv, Cleared
        <3>3. InPlan
            BY DEF EInv, EndedInv
        <3> QED
            BY <3>1, <3>2, <3>3, EffectfulAreNodes DEF InPlan, Knows, MayReplan, Happened
    <2> QED
        BY <2>1, <2>2, RevisionStays
<1> QED
    BY <1>1, <1>2, <1>3, PTL DEF Spec, EffectsNotReplanned
================================================================================
