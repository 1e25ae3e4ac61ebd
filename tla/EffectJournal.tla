---------------------------- MODULE EffectJournal ----------------------------
(***************************************************************************)
(* The two-phase effect protocol: node executors that reserve a durable    *)
(* intent before a tool body may act and settle it afterwards, the         *)
(* PostgreSQL journal they share, and the startup sweep that closes stale  *)
(* intents.  Several executors may be dispatched for the same idempotency  *)
(* key (a rerun, a recovery, a second worker); any of them may crash or be *)
(* cancelled at an await, and any journal call may fail with the statement *)
(* committed or not.                                                       *)
(*                                                                         *)
(* A journal row is its status; intents, timestamps and results are        *)
(* abstracted.  The row status "pending" is read by the sweep but never    *)
(* written, and is left out.                                               *)
(***************************************************************************)
EXTENDS Naturals

CONSTANTS
    Keys,           \* idempotency keys
    Executors,      \* concurrent calls of execute_node
    KeyOf,          \* the key of the node each executor runs
    MaxDispatch     \* bound: how often each executor is dispatched

VARIABLES
    row,        \* the journal: status of the row of each key, "none" if absent
    stale,      \* keys whose intent is older than the recovery grace period
    pc,         \* where each executor is
    result,     \* the node status each executor is returning or returned
    effects,    \* how often the tool body acted, per key
    asked,      \* history: how often a body acted and then asked for approval
    dispatched  \* how often each executor was dispatched

vars == <<row, stale, pc, result, effects, asked, dispatched>>

ASSUME KeyOfAssumption == KeyOf \in [Executors -> Keys]
ASSUME MaxDispatchAssumption == MaxDispatch \in Nat

RowStatus == {"none", "intent", "confirmed", "uncertain"}

\* Between the reservation and the settlement an executor owns the row.
InWorker == {"claim", "body", "acted"}
Settling == {"confirm_get", "confirm_put", "mark_get", "mark_put",
             "abandon_approval", "abandon_resources"}
Owning == InWorker \cup Settling
Location == {"idle", "reserve"} \cup Owning

NodeResult == {"none", "completed", "failed", "escalated", "cancelled",
               "crashed", "waiting_approval", "waiting_resources"}

Init ==
    /\ row = [k \in Keys |-> "none"]
    /\ stale = {}
    /\ pc = [e \in Executors |-> "idle"]
    /\ result = [e \in Executors |-> "none"]
    /\ effects = [k \in Keys |-> 0]
    /\ asked = [k \in Keys |-> 0]
    /\ dispatched = [e \in Executors |-> 0]

(* ---------------------------- journal statements ----------------------- *)

\* Mutant: a row is deleted whatever its status.
DeletedAlways(r) == "none"

\* The three statements, as what they make of a row: INSERT .. ON CONFLICT DO
\* NOTHING, UPDATE WHERE key, DELETE WHERE key AND status = 'intent'.
Inserted(r) == IF r = "none" THEN "intent" ELSE r
Replaced(r, status) == IF r = "none" THEN r ELSE status
Deleted(r) == IF r = "intent" THEN "none" ELSE r

\* The executor's row once the statement it is at is committed.
Committed(e) ==
    LET r == row[KeyOf[e]]
    IN  IF pc[e] = "reserve" THEN Inserted(r)
        ELSE IF pc[e] = "confirm_put" THEN Replaced(r, "confirmed")
        ELSE IF pc[e] = "mark_put" THEN Replaced(r, "uncertain")
        ELSE IF pc[e] \in {"abandon_approval", "abandon_resources"} THEN Deleted(r)
        ELSE r

Commit(e) ==
    /\ row' = [row EXCEPT ![KeyOf[e]] = Committed(e)]
    /\ stale' = IF row'[KeyOf[e]] = "intent" THEN stale ELSE stale \ {KeyOf[e]}

\* A statement whose answer never arrives was committed or was not.
MaybeCommit(e) == Commit(e) \/ UNCHANGED <<row, stale>>

Goto(e, location) == pc' = [pc EXCEPT ![e] = location]

Return(e, status) ==
    /\ Goto(e, "idle")
    /\ result' = [result EXCEPT ![e] = status]

(* -------------------------------- execute_node ------------------------- *)

\* The engine calls execute_node; a write whose lease backend is down is sent
\* back before anything is reserved.
Dispatch(e) ==
    /\ pc[e] = "idle"
    /\ dispatched[e] < MaxDispatch
    /\ dispatched' = [dispatched EXCEPT ![e] = @ + 1]
    /\ \/ Goto(e, "reserve") /\ result' = [result EXCEPT ![e] = "none"]
       \/ Return(e, "waiting_resources")
    /\ UNCHANGED <<row, stale, effects, asked>>

\* Mutant: an uncertain effect is tried again.
ReserveAgain(e) ==
    /\ pc[e] = "reserve"
    /\ Commit(e)
    /\ \/ row[KeyOf[e]] \in {"none", "uncertain"} /\ Goto(e, "claim") /\ UNCHANGED result
       \/ row[KeyOf[e]] = "confirmed" /\ Return(e, "completed")
       \/ row[KeyOf[e]] = "intent" /\ Return(e, "failed")
    /\ UNCHANGED <<effects, asked, dispatched>>

\* EffectGuard.reserve: a created row lets the body run, a confirmed one is
\* replayed as completed, any other one stops the node.
Reserve(e) ==
    /\ pc[e] = "reserve"
    /\ Commit(e)
    /\ \/ row[KeyOf[e]] = "none" /\ Goto(e, "claim") /\ UNCHANGED result
       \/ row[KeyOf[e]] = "confirmed" /\ Return(e, "completed")
       \/ row[KeyOf[e]] \in {"intent", "uncertain"} /\ Return(e, "failed")
    /\ UNCHANGED <<effects, asked, dispatched>>

\* The journal is unavailable, or the task is cancelled while it reserves;
\* neither path marks the intent it may have written.
ReserveFails(e) ==
    /\ pc[e] = "reserve"
    /\ MaybeCommit(e)
    /\ Return(e, "failed") \/ Return(e, "cancelled")
    /\ UNCHANGED <<effects, asked, dispatched>>

\* Channel and resource leases were granted: the worker starts.
Granted(e) ==
    /\ pc[e] = "claim"
    /\ Goto(e, "body")
    /\ UNCHANGED <<row, stale, result, effects, asked, dispatched>>

\* WriteResourceCoordinationUnavailable while acquiring the leases.
Refused(e) ==
    /\ pc[e] = "claim"
    /\ Goto(e, "abandon_resources")
    /\ UNCHANGED <<row, stale, result, effects, asked, dispatched>>

\* The tool body performs its externally visible operation.
Act(e) ==
    /\ pc[e] = "body"
    /\ effects' = [effects EXCEPT ![KeyOf[e]] = @ + 1]
    /\ Goto(e, "acted")
    /\ UNCHANGED <<row, stale, result, asked, dispatched>>

Succeeds(e) ==
    /\ pc[e] = "acted"
    /\ Goto(e, "confirm_get")
    /\ UNCHANGED <<row, stale, result, effects, asked, dispatched>>

\* Mutant: a failure abandons the reservation.
FailsAndAbandons(e) ==
    /\ pc[e] \in {"body", "acted"}
    /\ Goto(e, "abandon_resources")
    /\ UNCHANGED <<row, stale, result, effects, asked, dispatched>>

\* Failure, timeout or rejected review, before or after the operation.
Fails(e) ==
    /\ pc[e] \in {"body", "acted"}
    /\ Goto(e, "mark_get")
    /\ \E status \in {"failed", "escalated"} :
           result' = [result EXCEPT ![e] = status]
    /\ UNCHANGED <<row, stale, effects, asked, dispatched>>

\* The body ends in pending_approval: a single tool before it acts, a workflow
\* body possibly after another of its tools has acted.
NeedsApproval(e) ==
    /\ pc[e] \in {"body", "acted"}
    /\ Goto(e, "abandon_approval")
    /\ asked' = IF pc[e] = "acted" THEN [asked EXCEPT ![KeyOf[e]] = @ + 1] ELSE asked
    /\ UNCHANGED <<row, stale, result, effects, dispatched>>

\* CancelledError inside _run_worker: job cancelled, sibling stopped the job,
\* or a lease was lost.
Cancelled(e) ==
    /\ pc[e] \in InWorker
    /\ Goto(e, "mark_get")
    /\ result' = [result EXCEPT ![e] = "cancelled"]
    /\ UNCHANGED <<row, stale, effects, asked, dispatched>>

\* Another exception leaves _run_worker (the running-state save, the release
\* of a lease): the engine records a failure and the intent stays as it is.
AdapterFault(e) ==
    /\ pc[e] \in InWorker
    /\ Return(e, "failed")
    /\ UNCHANGED <<row, stale, effects, asked, dispatched>>

\* confirm and mark_uncertain first read the row ...
ReadRow(e) ==
    /\ pc[e] \in {"confirm_get", "mark_get"}
    /\ IF row[KeyOf[e]] = "none"
       THEN Return(e, IF pc[e] = "mark_get" THEN result[e] ELSE "failed")
       ELSE /\ Goto(e, IF pc[e] = "mark_get" THEN "mark_put" ELSE "confirm_put")
            /\ UNCHANGED result
    /\ UNCHANGED <<row, stale, effects, asked, dispatched>>

\* ... and then replace it, whatever its status has become.
Confirm(e) ==
    /\ pc[e] = "confirm_put"
    /\ Commit(e)
    /\ Return(e, IF row[KeyOf[e]] = "none" THEN "failed" ELSE "completed")
    /\ UNCHANGED <<effects, asked, dispatched>>

MarkUncertain(e) ==
    /\ pc[e] = "mark_put"
    /\ Commit(e)
    /\ Return(e, result[e])
    /\ UNCHANGED <<effects, asked, dispatched>>

AbandonPending(e) ==
    /\ pc[e] \in {"abandon_approval", "abandon_resources"}
    /\ Commit(e)
    /\ Return(e, IF pc[e] = "abandon_approval" THEN "waiting_approval"
                                              ELSE "waiting_resources")
    /\ UNCHANGED <<effects, asked, dispatched>>

\* Mutant: a lost confirmation is swallowed like the other errors.
SettleFaultSwallowed(e) ==
    /\ pc[e] \in Settling
    /\ MaybeCommit(e)
    /\ \/ pc[e] \in {"mark_get", "mark_put"} /\ Return(e, result[e])
       \/ pc[e] = "abandon_resources" /\ Return(e, "waiting_resources")
       \/ pc[e] = "abandon_approval" /\ Return(e, "failed")
       \/ pc[e] \in {"confirm_get", "confirm_put"} /\ Return(e, "completed")
    /\ UNCHANGED <<effects, asked, dispatched>>

\* The journal fails while an executor settles: a lost confirmation and a lost
\* approval cleanup fail the node, the other errors are swallowed.
SettleFault(e) ==
    /\ pc[e] \in Settling
    /\ MaybeCommit(e)
    /\ \/ pc[e] \in {"mark_get", "mark_put"} /\ Return(e, result[e])
       \/ pc[e] = "abandon_resources" /\ Return(e, "waiting_resources")
       \/ /\ pc[e] \in {"confirm_get", "confirm_put", "abandon_approval"}
          /\ Return(e, "failed")
    /\ UNCHANGED <<effects, asked, dispatched>>

\* Mutant: it is caught and the effect is marked uncertain.
SettleCancelledMarks(e) ==
    /\ pc[e] \in Settling
    /\ MaybeCommit(e)
    /\ Goto(e, "mark_get")
    /\ result' = [result EXCEPT ![e] = "cancelled"]
    /\ UNCHANGED <<effects, asked, dispatched>>

\* Cancelled once more while settling: nothing catches it there.
SettleCancelled(e) ==
    /\ pc[e] \in Settling
    /\ MaybeCommit(e)
    /\ Return(e, "cancelled")
    /\ UNCHANGED <<effects, asked, dispatched>>

Crash(e) ==
    /\ pc[e] # "idle"
    /\ MaybeCommit(e)
    /\ Return(e, "crashed")
    /\ UNCHANGED <<effects, asked, dispatched>>

(* ------------------------------ startup sweep -------------------------- *)

\* Waiting for leases is unbounded, so an intent of any age may have an owner.
GraceExpires(k) ==
    /\ row[k] = "intent"
    /\ k \notin stale
    /\ stale' = stale \cup {k}
    /\ UNCHANGED <<row, pc, result, effects, asked, dispatched>>

\* mark_stale_intents_uncertain, run once by every API process, as it starts.
\* Nothing else closes an intent whose executor is gone.
Sweep ==
    /\ stale # {}
    /\ row' = [k \in Keys |->
                  IF k \in stale /\ row[k] = "intent" THEN "uncertain" ELSE row[k]]
    /\ stale' = {}
    /\ UNCHANGED <<pc, result, effects, asked, dispatched>>

Worker(e) ==
    \/ Reserve(e) \/ ReserveFails(e) \/ Granted(e) \/ Refused(e) \/ Act(e)
    \/ Succeeds(e) \/ Fails(e) \/ NeedsApproval(e) \/ Cancelled(e)
    \/ AdapterFault(e) \/ ReadRow(e) \/ Confirm(e) \/ MarkUncertain(e)
    \/ AbandonPending(e) \/ SettleFault(e) \/ SettleCancelled(e) \/ Crash(e)

Next ==
    \/ \E e \in Executors : Dispatch(e) \/ Worker(e)
    \/ \E k \in Keys : GraceExpires(k)
    \/ Sweep

Spec == Init /\ [][Next]_vars

(* -------------------------------- properties --------------------------- *)

TypeOK ==
    /\ row \in [Keys -> RowStatus]
    /\ stale \in SUBSET Keys
    /\ pc \in [Executors -> Location]
    /\ result \in [Executors -> NodeResult]
    /\ effects \in [Keys -> Nat]
    /\ asked \in [Keys -> Nat]
    /\ dispatched \in [Executors -> Nat]

\* Only one thing makes a body act again for its idempotency key: an earlier
\* run of it acted and then asked for approval.  No crash, cancellation, fault of
\* the journal, sweep or second dispatch does, in any order.
AtMostOnce == \A k \in Keys : effects[k] <= 1 + asked[k]

\* An effect is never forgotten in any other way either: a key with an effect
\* that no request for approval gave up has a row.
EffectLeavesTrace == \A k \in Keys : effects[k] > asked[k] => row[k] # "none"

\* abandon_pending removes an intent of a body that never acted.  This is what
\* abandon_pending_effect says of itself; a workflow body that acts and then
\* asks for approval breaks it (README, section 4), and acts again once approved.
AbandonsOnlyUnacted ==
    [][\A k \in Keys : (row[k] # "none" /\ row'[k] = "none") => effects[k] = 0]_vars

\* A node is reported completed, by the executor that acted or by a replay,
\* only if the body acted, once more than was given up for an approval, and the
\* journal says so.
CompletedIsConfirmed ==
    \A e \in Executors : result[e] = "completed" =>
        /\ effects[KeyOf[e]] = 1 + asked[KeyOf[e]]
        /\ row[KeyOf[e]] = "confirmed"

\* A confirmation is final: no late uncertain mark, sweep or cleanup of any
\* executor takes it back.
ConfirmedIsFinal ==
    [][\A k \in Keys : row[k] = "confirmed" => row'[k] = "confirmed"]_vars

\* An uncertain row is only ever resolved to confirmed; it is never deleted,
\* so an uncertain effect is never retried automatically.
UncertainBlocksRetry ==
    [][\A k \in Keys : row[k] = "uncertain" => row'[k] \in {"uncertain", "confirmed"}]_vars

===============================================================================
