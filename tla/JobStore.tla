------------------------------- MODULE JobStore -------------------------------
(***************************************************************************)
(* The durable job record and the coroutines that read, change and save    *)
(* it: the execution loop and its node tasks, which share one Job object,  *)
(* and the cancel, pause and resume requests, each with an object of its   *)
(* own.  A save is an optimistic transaction on Redis (WATCH, GET, MULTI,  *)
(* EXEC) under an asyncio lock of the store instance, with at most three   *)
(* tries and a merge when the revision has moved.                          *)
(*                                                                         *)
(* A job is its revision, its status and the status of each node; results, *)
(* errors and timestamps travel with the status they belong to.  Nodes are *)
(* independent and succeed: scheduling is the subject of TaskEngine.       *)
(***************************************************************************)
EXTENDS Naturals

CONSTANTS
    Nodes,      \* the nodes of the job
    Requests,   \* the control requests that arrive, once each
    Stores,     \* store instances: one per process
    StoreOf     \* the store instance each client saves through

VARIABLES
    record,     \* the job in Redis
    copy,       \* the Job object each holder has in memory
    pc,         \* where each client is
    after,      \* where a client continues once its save succeeded
    tx,         \* the locals of each client's save_job
    lock,       \* holder of each store's lock for this job
    seen,       \* the control status the loop read last
    note,       \* the node transition the loop is persisting
    started     \* nodes whose task has begun, as the lifecycle port knows

vars == <<record, copy, pc, after, tx, lock, seen, note, started>>

Loop == "loop"
Converge == "converge"      \* JobErrorService.interrupt, in the loop's coroutine
Clients == Nodes \cup {Loop, Converge} \cup Requests
Holders == {Loop, Converge} \cup Requests
Holder(c) == IF c \in Nodes THEN Loop ELSE c

ASSUME RequestsAssumption == Requests \subseteq {"cancel", "pause", "resume"}
ASSUME NodesAssumption == Nodes \cap {Loop, Converge, "none", "cancel", "pause", "resume"} = {}
ASSUME StoresAssumption == StoreOf \in [Clients -> Stores]
\* A node task and the interrupted coroutine live in the loop's process; a
\* resume request is taken by the process that ran the job.
ASSUME ProcessAssumption ==
    \A c \in Nodes \cup {Converge} \cup (Requests \cap {"resume"}) :
        StoreOf[c] = StoreOf[Loop]

None == "none"
NoNote == [node |-> None, status |-> None]

JobStatus == {"running", "paused", "completed", "failed", "cancelled", "interrupted"}
ControlStatus == {"cancelled", "interrupted", "paused"}
Ended == {"completed", "failed", "cancelled", "interrupted"}
NodeStatus == {"pending", "ready", "running", "completed", "cancelled", "interrupted"}
Protected == {"cancelled", "interrupted"}

\* base is no field of the code's Job: the revision of the record this object
\* was loaded from or last saved as, whatever its revision field says.
Job == [revision : Nat, base : Nat, status : JobStatus, nodes : [Nodes -> NodeStatus]]

NewJob == [revision |-> 0, base |-> 0, status |-> "running",
           nodes |-> [n \in Nodes |-> "pending"]]

\* Mutant: no second try.
TriesOnce == 1
Tries == 3

Tx == [job : Job,           \* the candidate as it was last serialised or merged
       merged : BOOLEAN,    \* it is a merged copy, not the Job object itself
       watched : Nat,       \* the revision under WATCH
       tries : 0..Tries]    \* transactions used up

NoTx == [job |-> NewJob, merged |-> FALSE, watched |-> 0, tries |-> 0]

Loaded == [record EXCEPT !.base = record.revision]

Saving == {"queue", "watch", "read", "execute"}

Init ==
    /\ record = NewJob
    /\ copy = [h \in Holders |-> NewJob]
    /\ pc = [c \in Clients |-> IF c = Loop THEN "collect" ELSE "idle"]
    /\ after = [c \in Clients |-> None]
    /\ tx = [c \in Clients |-> NoTx]
    /\ lock = [s \in Stores |-> None]
    /\ seen = "running"
    /\ note = NoNote
    /\ started = {}

Goto(c, location) == pc' = [pc EXCEPT ![c] = location]

(* ------------------------------- save_job ------------------------------ *)

\* Which node entry of a conflicting save survives.
MergedNode(current, incoming, n) ==
    LET saved == current.nodes[n]
        mine == incoming.nodes[n]
    IN  IF current.status \in {"cancelled", "interrupted"}
        THEN IF saved = "running" /\ mine \in Protected THEN mine
             ELSE IF saved \in Protected \/ mine \notin Protected THEN saved
             ELSE mine
        ELSE IF saved \in Protected /\ mine \notin Protected THEN saved ELSE mine

\* Mutant: the incoming status wins.
MergeStatusless(current, incoming) ==
    [incoming EXCEPT
        !.revision = current.revision,
        !.nodes = [n \in Nodes |-> MergedNode(current, incoming, n)]]

\* Mutant: the saved status wins.
MergeStatusSaved(current, incoming) ==
    [incoming EXCEPT
        !.revision = current.revision,
        !.status = current.status,
        !.nodes = [n \in Nodes |-> MergedNode(current, incoming, n)]]

\* _merge_conflict.
Merge(current, incoming) ==
    [incoming EXCEPT
        !.revision = current.revision,
        !.status = IF current.status \in ControlStatus /\ @ \notin ControlStatus
                   THEN current.status ELSE @,
        !.nodes = [n \in Nodes |-> MergedNode(current, incoming, n)]]

\* A client changes the Job object it holds and calls save_job.
Save(c, job, continue) ==
    /\ copy' = [copy EXCEPT ![Holder(c)] = job]
    /\ Goto(c, "queue")
    /\ after' = [after EXCEPT ![c] = continue]

Acquire(c) ==
    /\ pc[c] = "queue"
    /\ lock[StoreOf[c]] = None
    /\ lock' = [lock EXCEPT ![StoreOf[c]] = c]
    /\ Goto(c, "watch")
    /\ UNCHANGED <<record, copy, after, tx, seen, note, started>>

Watch(c) ==
    /\ pc[c] = "watch"
    /\ tx[c].tries < Tries
    /\ tx' = [tx EXCEPT ![c].watched = record.revision]
    /\ Goto(c, "read")
    /\ UNCHANGED <<record, copy, after, lock, seen, note, started>>

Candidate(c) == IF tx[c].merged THEN tx[c].job ELSE copy[Holder(c)]

\* The revision moved: merge into a copy and start over.
ReadConflict(c) ==
    /\ pc[c] = "read"
    /\ Candidate(c).revision # record.revision
    /\ tx' = [tx EXCEPT ![c].job = Merge(record, Candidate(c)),
                        ![c].merged = TRUE, ![c].tries = @ + 1]
    /\ Goto(c, "watch")
    /\ UNCHANGED <<record, copy, after, lock, seen, note, started>>

\* The candidate gets its new revision before the transaction has succeeded.
ReadMatch(c) ==
    /\ pc[c] = "read"
    /\ Candidate(c).revision = record.revision
    /\ tx' = [tx EXCEPT ![c].job = [Candidate(c) EXCEPT !.revision = @ + 1]]
    /\ copy' = IF tx[c].merged THEN copy
               ELSE [copy EXCEPT ![Holder(c)].revision = @ + 1]
    /\ Goto(c, "execute")
    /\ UNCHANGED <<record, after, lock, seen, note, started>>

\* save_job ends: it leaves the lock and its locals are gone.
EndSave(c, location) ==
    /\ lock' = [lock EXCEPT ![StoreOf[c]] = None]
    /\ tx' = [tx EXCEPT ![c] = NoTx]
    /\ after' = [after EXCEPT ![c] = None]
    /\ note' = IF c = Loop THEN NoNote ELSE note
    /\ Goto(c, location)

\* Mutant: the key is not watched.
ExecuteAnyway(c) ==
    /\ pc[c] = "execute"
    /\ record' = tx[c].job
    /\ copy' = [copy EXCEPT ![Holder(c)] =
                    [(IF tx[c].merged THEN tx[c].job ELSE @) EXCEPT !.base = record'.revision]]
    /\ EndSave(c, after[c])
    /\ UNCHANGED <<seen, started>>

\* The transaction succeeds; a merged candidate replaces the Job object, with
\* whatever was changed in it since the merge.
Execute(c) ==
    /\ pc[c] = "execute"
    /\ record.revision = tx[c].watched
    /\ record' = tx[c].job
    /\ copy' = [copy EXCEPT ![Holder(c)] =
                    [(IF tx[c].merged THEN tx[c].job ELSE @) EXCEPT !.base = record'.revision]]
    /\ EndSave(c, after[c])
    /\ UNCHANGED <<seen, started>>

\* WatchError.
ExecuteFails(c) ==
    /\ pc[c] = "execute"
    /\ record.revision # tx[c].watched
    /\ tx' = [tx EXCEPT ![c].tries = @ + 1]
    /\ Goto(c, "watch")
    /\ UNCHANGED <<record, copy, after, lock, seen, note, started>>

\* StateConflictError; what its callers do then is not followed.
GiveUp(c) ==
    /\ pc[c] = "watch"
    /\ tx[c].tries >= Tries
    /\ EndSave(c, "conflict")
    /\ UNCHANGED <<record, copy, seen, started>>

SaveStep(c) ==
    \/ Watch(c) \/ ReadConflict(c) \/ ReadMatch(c)
    \/ Execute(c) \/ ExecuteFails(c) \/ GiveUp(c)

\* The transaction of c reached Redis although nobody awaits its answer.
Landed(c) ==
    /\ pc[c] = "execute"
    /\ record.revision = tx[c].watched
    /\ record' = tx[c].job
    /\ copy' = IF tx[c].merged THEN copy
               ELSE [copy EXCEPT ![Holder(c)].base = record'.revision]

\* Mutant: a cancelled save does not leave the lock.
ReleasedNot(S) == lock
\* The locks without their holders in S.
Released(S) == [s \in Stores |-> IF lock[s] \in S THEN None ELSE lock[s]]

\* The coroutines of S are cancelled: their saves leave the lock, a transaction
\* under way has reached Redis or has not.
AbortSaves(S) ==
    /\ lock' = Released(S)
    /\ (UNCHANGED <<record, copy>>) \/ (\E c \in S : Landed(c))
    /\ tx' = [c \in Clients |-> IF c \in S THEN NoTx ELSE tx[c]]
    /\ after' = [c \in Clients |-> IF c \in S THEN None ELSE after[c]]

(* ------------------------------ execution loop ------------------------- *)

SetNode(n, status) == [copy[Loop] EXCEPT !.nodes[n] = status]

Unfinished == {n \in Nodes : pc[n] # "collected"}
Tasks == {n \in Unfinished : pc[n] # "idle"}
Alive == {n \in Tasks : pc[n] \notin {"finished", "stopped"}}

\* Head of the loop; its condition is that some node is pending or running.
ReadControl ==
    /\ pc[Loop] \in {"collect", "pass"}
    /\ Unfinished # {}
    /\ seen' = record.status
    /\ Goto(Loop, "pass")
    /\ UNCHANGED <<record, copy, after, tx, lock, note, started>>

Notify(n, status, continue) ==
    /\ copy' = [copy EXCEPT ![Loop] = SetNode(n, status)]
    /\ after' = [after EXCEPT ![Loop] = continue]
    /\ note' = [node |-> n, status |-> status]

\* A job that ended otherwise is scheduled as if it were running.
LaunchNode(n) ==
    /\ pc[Loop] = "pass"
    /\ seen \notin ControlStatus
    /\ pc[n] = "idle"
    /\ Notify(n, "ready", "pass")
    /\ pc' = [pc EXCEPT ![Loop] = "queue", ![n] = "ready"]
    /\ UNCHANGED <<record, tx, lock, seen, started>>

\* The task runs: first the engine, then the node executor saves "running".
NodeRuns(n) ==
    /\ pc[n] \in {"ready", "attempt"}
    /\ note.node # n
    /\ Save(n, SetNode(n, "running"), IF pc[n] = "ready" THEN "attempt" ELSE "body")
    /\ started' = started \cup {n}
    /\ UNCHANGED <<record, tx, lock, seen, note>>

NodeFinishes(n) ==
    /\ pc[n] = "body"
    /\ Goto(n, "finished")
    /\ UNCHANGED <<record, copy, after, tx, lock, seen, note, started>>

Collect(n) ==
    /\ pc[Loop] \in {"collect", "pass"}
    /\ seen \notin Protected
    /\ pc[n] = "finished"
    /\ Notify(n, "completed", "collect")
    /\ pc' = [pc EXCEPT ![Loop] = "queue", ![n] = "collected"]
    /\ UNCHANGED <<record, tx, lock, seen, started>>

\* Cancelled or interrupted: the node tasks are cancelled wherever they are.
Stop ==
    /\ pc[Loop] = "pass"
    /\ seen \in Protected
    /\ AbortSaves(Tasks)
    /\ pc' = [c \in Clients |-> IF c \in Tasks THEN "stopped"
                                ELSE IF c = Loop THEN "stop" ELSE pc[c]]
    /\ UNCHANGED <<seen, note, started>>

\* Then every unfinished node is reported interrupted.
StopNode(n) ==
    /\ pc[Loop] = "stop"
    /\ n \in Unfinished
    /\ Notify(n, IF copy[Loop].status = "cancelled" /\ n \notin started
                 THEN "cancelled" ELSE "interrupted", "stop")
    /\ pc' = [pc EXCEPT ![Loop] = "queue", ![n] = "collected"]
    /\ UNCHANGED <<record, tx, lock, seen, started>>

\* _apply_job_outcome: the aggregate status of the run replaces the job's.
Outcome ==
    /\ \E status \in JobStatus :
          /\ \/ pc[Loop] = "collect" /\ Unfinished = {} /\ status = "completed"
             \/ pc[Loop] = "stop" /\ Unfinished = {} /\ status = seen
             \/ pc[Loop] = "pass" /\ Tasks = {} /\ seen = "paused" /\ status = seen
          /\ Save(Loop, [copy[Loop] EXCEPT !.status = status], "check")
    /\ UNCHANGED <<record, tx, lock, seen, note, started>>

(* ---------------------------- control requests ------------------------- *)

\* What a cancel makes of the nodes that are not finished.
Stopped(nodes) ==
    [n \in Nodes |-> IF nodes[n] \in {"pending", "ready"} THEN "cancelled"
                     ELSE IF nodes[n] = "running" THEN "interrupted"
                     ELSE nodes[n]]
StoppedNodes(job) == [job EXCEPT !.nodes = Stopped(@)]

\* A request whose precondition fails on the job it loaded answers at once.
Respond(c, job, allowed, continue) ==
    /\ IF allowed THEN Save(c, job, continue)
                  ELSE Goto(c, "done") /\ UNCHANGED <<copy, after>>
    /\ UNCHANGED <<record, tx, lock, seen, note, started>>

CancelRequest ==
    /\ pc["cancel"] = "idle"
    /\ Respond("cancel", [StoppedNodes(Loaded) EXCEPT !.status = "cancelled"],
               record.status \notin Ended, "cancel_task")

PauseRequest ==
    /\ pc["pause"] = "idle"
    /\ Respond("pause", [Loaded EXCEPT !.status = "paused"],
               record.status = "running", "done")

\* A resume that finds the job in another status changes nothing: it answers at
\* once and is not followed.
ResumeRequest ==
    /\ pc["resume"] = "idle"
    /\ record.status = "paused"
    /\ Respond("resume", [Loaded EXCEPT !.status = "running"], TRUE, "restart")

\* Back in the execution loop the job is loaded afresh: one that is found
\* running is failed.  Replanning, which comes first, is not followed.
EnsureFailed ==
    /\ pc[Loop] = "check"
    /\ Respond(Loop, [Loaded EXCEPT !.status = "failed"], record.status = "running", "done")

\* The cancel request cancels the job's coroutine if it is in its process; the
\* node tasks are tasks of their own and go on.
CancelTask ==
    /\ pc["cancel"] = "cancel_task"
    /\ IF StoreOf["cancel"] = StoreOf[Loop] /\ pc[Loop] \notin {"done", "conflict"}
       THEN /\ AbortSaves({Loop})
            /\ pc' = [pc EXCEPT !["cancel"] = "settle", ![Loop] = "done", ![Converge] = "start"]
            /\ note' = NoNote
       ELSE /\ Goto("cancel", "done")
            /\ UNCHANGED <<lock, record, copy, tx, after, note>>
    /\ UNCHANGED <<seen, started>>

\* The cancelled coroutine converges the job it loads afresh.
Interrupt ==
    /\ pc[Converge] = "start"
    /\ Respond(Converge,
               IF record.status = "cancelled" THEN StoppedNodes(Loaded)
               ELSE [Loaded EXCEPT !.status = "interrupted"],
               record.status \notin Ended \ {"cancelled"}, "done")

\* The cancel request awaits it and converges once more.
Settle ==
    /\ pc["cancel"] = "settle"
    /\ pc[Converge] \in {"done", "conflict"}
    /\ Respond("cancel", StoppedNodes(Loaded), record.status = "cancelled", "done")

\* After a resume the job gets a new coroutine unless its old one still runs.
\* Nodes saved as terminal are prior results, the others are pending again.
\* A new coroutine next to node tasks its cancelled predecessor left alive is
\* not followed.
Restart ==
    /\ pc["resume"] = "restart"
    /\ IF pc[Loop] = "done" /\ pc[Converge] \in {"idle", "done"} /\ Alive = {}
       THEN /\ copy' = [copy EXCEPT ![Loop] = Loaded]
            /\ pc' = [c \in Clients |->
                        IF c = Loop THEN "collect"
                        ELSE IF c = "resume" THEN "done"
                        ELSE IF c \notin Nodes THEN pc[c]
                        ELSE IF record.nodes[c] \in {"completed"} \cup Protected
                        THEN "collected" ELSE "idle"]
            /\ seen' = "running"
            /\ started' = {}
       ELSE Goto("resume", "done") /\ UNCHANGED <<copy, seen, started>>
    /\ UNCHANGED <<record, after, tx, lock, note>>

LoopStep ==
    \/ ReadControl \/ Stop \/ Outcome \/ EnsureFailed
    \/ \E n \in Nodes : LaunchNode(n) \/ Collect(n) \/ StopNode(n)

RequestStep ==
    \/ "cancel" \in Requests /\ (CancelRequest \/ CancelTask \/ Settle)
    \/ "pause" \in Requests /\ PauseRequest
    \/ "resume" \in Requests /\ (ResumeRequest \/ Restart)
    \/ Interrupt

Next ==
    \/ LoopStep
    \/ \E n \in Nodes : NodeRuns(n) \/ NodeFinishes(n)
    \/ RequestStep
    \/ \E c \in Clients : Acquire(c) \/ SaveStep(c)

Spec == Init /\ [][Next]_vars

\* The event loops schedule every coroutine that is not waiting for the lock,
\* and an asyncio lock is handed over in the order of arrival.
FairSpec ==
    /\ Spec
    /\ WF_vars(RequestStep)
    /\ \A c \in Clients : SF_vars(Acquire(c)) /\ WF_vars(SaveStep(c))

(* ------------------------------ properties ----------------------------- *)

Location == {"idle", "collect", "pass", "stop", "done", "conflict", "ready",
             "attempt", "body", "finished", "collected", "stopped", "cancel_task",
             "settle", "start", "restart", "check"} \cup Saving

TypeOK ==
    /\ record \in Job
    /\ copy \in [Holders -> Job]
    /\ pc \in [Clients -> Location]
    /\ after \in [Clients -> (Location \ Saving) \cup {None}]
    /\ tx \in [Clients -> Tx]
    /\ lock \in [Stores -> Clients \cup {None}]
    /\ seen \in JobStatus
    /\ note \in {NoNote} \cup [node : Nodes, status : NodeStatus]
    /\ started \in SUBSET Nodes

\* The step saves an object that had not seen the record it replaces.
StaleSave == record' # record /\ record'.base < record.revision

\* A stale snapshot never takes a job out of a state the control plane put it
\* in: a cancel, an interruption or a pause is not overwritten by "running" or
\* "completed", whoever saves late and however often the save has to be tried.
StaleSaveKeepsControl ==
    [][(StaleSave /\ record.status \in ControlStatus)
          => record'.status \in ControlStatus]_vars

\* Within one process the store's lock makes three tries more than enough: no
\* save is ever refused.
SavesAreAccepted == \A c \in Clients : pc[c] # "conflict"

\* Every request that began to save is answered, although a cancel waits for
\* the coroutine it cancels and all of them need the store's lock.
RequestsAreAnswered ==
    \A r \in Requests : (pc[r] = "queue") ~> (pc[r] = "done")

\* Revisions number the writes, in any number of processes: two clients never
\* write the same revision and no write goes unnumbered, or a stale snapshot
\* could not be told from a fresh one.
RevisionsAreSerial ==
    [][record' # record => record'.revision = record.revision + 1]_vars

\* What ensure_failed says of itself: it fails only a job that unexpectedly did
\* not converge.  Every node succeeds here, so no job has a reason to fail.
OnlyStuckJobsFail == record.status # "failed"

\* What the lifecycle table says of a cancelled job: it has no transition.
\* It does not hold: section 4 of the README.
CancelledIsFinal ==
    [][record.status = "cancelled" => record'.status = "cancelled"]_vars

===============================================================================
