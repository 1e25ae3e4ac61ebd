----------------------------- MODULE JobAdmission -----------------------------
(***************************************************************************)
(* Admission of jobs: submission tokens and active slots with leases, kept *)
(* in sorted sets of Redis (one Lua script per operation) or, when a call  *)
(* to Redis fails, in tables of the process that made the call; and those  *)
(* who call it: the submission guard, the job coroutine with its cleanup,  *)
(* the resume and approve requests, and the heartbeat that renews a slot.  *)
(*                                                                         *)
(* Time is counted in heartbeat intervals.  A score is the time left until *)
(* it expires; an expired entry counts as purged, since every script and   *)
(* every local operation purges before it looks.                           *)
(***************************************************************************)
EXTENDS Naturals, FiniteSets

CONSTANTS
    Jobs,           \* each is submitted once, with a token of its own
    Users, UserOf,
    Processes, ProcessOf,
    InflightLimit, GlobalLimit, UserLimit,
    Lease,          \* in heartbeat intervals
    Races,          \* which of the hurries below may happen
    MaxFaults       \* bound: failed Redis calls and crashes

EarlyResume == "early resume"       \* a request before the last cleanup is over
SlowSubmit == "slow submit"         \* a submission longer than a heartbeat
Tables == Processes \cup {"redis"}
Lists == {"all", "user"}            \* the global set and the set of the user

ASSUME JobsAssumption == IsFiniteSet(Jobs) /\ UserOf \in [Jobs -> Users]
                         /\ ProcessOf \in [Jobs -> Processes]
ASSUME ProcessesAssumption == "redis" \notin Processes
ASSUME LimitsAssumption == {InflightLimit, GlobalLimit, UserLimit, MaxFaults} \subseteq Nat
\* The interval is at most a third of the lease: two are a safe reading.
ASSUME LeaseAssumption == Lease \in Nat /\ Lease >= 2
ASSUME RacesAssumption == Races \subseteq {EarlyResume, SlowSubmit}

VARIABLES
    inflight,   \* tokens in each table
    left,       \* time left of each job's entries in each table
    listed,     \* the lists of a table that have an entry for the job
    ttl,        \* for how long the last EXPIRE of each job keeps its two keys
    status,     \* job.status in the store, "none" before create_job
    pc,         \* submission and coroutine of each job
    cleanup,    \* where the release of the slot and the heartbeat stands
    beat,       \* the heartbeat task of each job
    asked,      \* a resume or approve request that has read the job
    faults

vars == <<inflight, left, listed, ttl, status, pc, cleanup, beat, asked, faults>>
slots == <<inflight, left, listed, ttl>>

Ended == "ended"    \* completed, failed, cancelled or interrupted
Suspended == {"paused", "waiting_approval"}
Active == {"pending", "running"}
Statuses == Suspended \cup Active \cup {Ended, "none", "waiting_resources"}

Init ==
    /\ inflight = [t \in Tables |-> {}]
    /\ left = [t \in Tables |-> [j \in Jobs |-> 0]]
    /\ listed = [t \in Tables |-> [j \in Jobs |-> {}]]
    /\ ttl = [j \in Jobs |-> 0]
    /\ status = [j \in Jobs |-> "none"]
    /\ pc = [j \in Jobs |-> "new"]
    /\ cleanup = [j \in Jobs |-> "no"]
    /\ beat = [j \in Jobs |-> "off"]
    /\ asked = [j \in Jobs |-> FALSE]
    /\ faults = 0

Goto(j, place) == pc' = [pc EXCEPT ![j] = place]
SetStatus(j, s) == status' = [status EXCEPT ![j] = s]

\* save_job keeps a terminal status that another client has saved.
Merged(j, s) == IF status[j] = Ended THEN Ended ELSE s

(* ------------------------- the admission kernel ------------------------ *)

Slots == [inflight |-> inflight, left |-> left, listed |-> listed, ttl |-> ttl]
SetSlots(s) ==
    inflight' = s.inflight /\ left' = s.left /\ listed' = s.listed /\ ttl' = s.ttl

InAll(s, t) == {j \in Jobs : "all" \in s.listed[t][j]}
OfUser(s, t, u) == {j \in Jobs : UserOf[j] = u /\ "user" \in s.listed[t][j]}

Full(s, t, j) == Cardinality(InAll(s, t)) >= GlobalLimit
UserFull(s, t, j) == Cardinality(OfUser(s, t, UserOf[j])) >= UserLimit
Holds(s, t, j) == s.listed[t][j] = Lists

\* A full lease; a script that stamps one extends the keys with it.
Stamped(s, t, j) ==
    [s EXCEPT !.left[t][j] = Lease, !.listed[t][j] = Lists,
              !.ttl[j] = IF t = "redis" THEN Lease ELSE @]
\* The script of activate extends the entries alone.
Restamped(s, t, j) ==
    [Stamped(s, t, j) EXCEPT !.ttl[j] = s.ttl[j]]
\* Keys without an entry are gone, and their EXPIRE with them.
Unlisted(s, t, j, lists) ==
    LET empty == \A k \in Jobs : s.listed["redis"][k] \subseteq
                                     IF t = "redis" /\ k = j THEN lists ELSE {}
    IN  [s EXCEPT !.listed[t][j] = @ \ lists,
                  !.left[t][j] = IF s.listed[t][j] \subseteq lists THEN 0 ELSE @,
                  !.ttl = IF empty THEN [k \in Jobs |-> 0] ELSE @]
Untokened(s, t, j) == [s EXCEPT !.inflight[t] = @ \ {j}]

Yes(s) == [slots |-> s, granted |-> TRUE]
No(s) == [slots |-> s, granted |-> FALSE]

Reserve(s, t, j) ==
    IF Cardinality(s.inflight[t]) >= InflightLimit THEN No(s)
    ELSE Yes([s EXCEPT !.inflight[t] = @ \cup {j}])

\* Mutant: the limits are those of the moment before the call.
PromoteUnchecked(s, t, j) == Yes(Stamped(Untokened(s, t, j), t, j))

\* The token goes whether or not a slot is granted.
Promote(s, t, j) ==
    IF Full(s, t, j) \/ UserFull(s, t, j) THEN No(Untokened(s, t, j))
    ELSE Yes(Stamped(Untokened(s, t, j), t, j))

Renew(s, t, j) == IF Holds(s, t, j) THEN Yes(Stamped(s, t, j)) ELSE No(s)

\* The script counts a job that is in one list against that list's limit;
\* the local table does not.
Activate(s, t, j) ==
    IF Holds(s, t, j) THEN Yes(Restamped(s, t, j))
    ELSE IF /\ ~Full(s, t, j) \/ (t # "redis" /\ "all" \in s.listed[t][j])
            /\ ~UserFull(s, t, j) \/ (t # "redis" /\ "user" \in s.listed[t][j])
    THEN Yes(Stamped(s, t, j))
    ELSE No(s)

Drop(s, t, j) == Yes(Unlisted(s, t, j, Lists))
DropToken(s, t, j) == Yes(Untokened(s, t, j))

\* What a call may come back with: the script ran; or it failed, before it ran
\* or after, and the process answers from its own table.
Answers(op(_, _, _), j) ==
    {[answer |-> op(Slots, "redis", j), fault |-> 0]} \cup
    {[answer |-> op(s, ProcessOf[j], j), fault |-> 1] :
        s \in {Slots, op(Slots, "redis", j).slots}}

Call(op(_, _, _), j, granted) ==
    \E a \in Answers(op, j) :
        /\ a.answer.granted = granted
        /\ faults + a.fault <= MaxFaults
        /\ faults' = faults + a.fault
        /\ SetSlots(a.answer.slots)

\* release(job_id, user_id): two statements; a failure of the second leaves
\* the entry in the list of the user.
ReleaseJob(j) ==
    \/ Call(Drop, j, TRUE)
    \/ /\ faults < MaxFaults
       /\ faults' = faults + 1
       /\ SetSlots(Unlisted(Unlisted(Slots, "redis", j, {"all"}), ProcessOf[j], j, Lists))

(* ------------------------------ heartbeat ------------------------------ *)

\* start(): a heartbeat that is alive stays as it is.
Started(j) == IF beat[j] = "off" THEN [beat EXCEPT ![j] = "asleep"] ELSE beat

Beat(j, from, to) == beat[j] = from /\ beat' = [beat EXCEPT ![j] = to]

\* Mutant: a job that has ended is renewed like any other.
BeatReadsBlindly(j) ==
    /\ Beat(j, "due", "renew")
    /\ UNCHANGED <<slots, status, pc, cleanup, asked, faults>>

\* It wakes and reads the job.
BeatReads(j) ==
    /\ \/ /\ status[j] \in {"none", Ended}
          /\ Beat(j, "due", "release")
          /\ UNCHANGED status
       \/ /\ status[j] = "waiting_approval"     \* expire_if_due
          /\ Beat(j, "due", "release")
          /\ SetStatus(j, Ended)
       \/ /\ status[j] \notin {"none", Ended}
          /\ Beat(j, "due", "renew")
          /\ UNCHANGED status
    /\ UNCHANGED <<slots, pc, cleanup, asked, faults>>

BeatReleases(j) ==
    /\ Beat(j, "release", "off")
    /\ ReleaseJob(j)
    /\ UNCHANGED <<status, pc, cleanup, asked>>

BeatRenews(j) ==
    /\ \E granted \in BOOLEAN :
           /\ Beat(j, "renew", IF granted THEN "asleep" ELSE "lost")
           /\ Call(Renew, j, granted)
    /\ UNCHANGED <<status, pc, cleanup, asked>>

\* The lease is lost: interrupt the job and cancel its coroutine.
BeatInterrupts(j) ==
    /\ Beat(j, "lost", "off")
    /\ IF status[j] \in {"none", Ended}
       THEN UNCHANGED <<status, pc>>
       ELSE /\ SetStatus(j, Ended)
            /\ pc' = [pc EXCEPT ![j] = IF @ \in {"run", "wait"} THEN "leave" ELSE @]
    /\ UNCHANGED <<slots, cleanup, asked, faults>>

HeartbeatStep(j) == BeatReads(j) \/ BeatReleases(j) \/ BeatRenews(j) \/ BeatInterrupts(j)

(* ------------------------------ submission ----------------------------- *)

Submitting == {"reserve", "plan", "submit", "refuse", "fail"}

\* The guard holds a lock per user in the process of the request.
LockFree(j) == \A k \in Jobs : pc[k] \in Submitting =>
                   UserOf[k] # UserOf[j] \/ ProcessOf[k] # ProcessOf[j]

\* It counts the active jobs of the user, and first releases what the ended
\* ones may have left behind.
Guard(j) ==
    LET mine == {k \in Jobs : UserOf[k] = UserOf[j]}
        ended == {k \in mine : status[k] = Ended}
        Swept(t) == /\ listed' = [listed EXCEPT ![t] = [k \in Jobs |-> IF k \in ended THEN {} ELSE @[k]]]
                    /\ left' = [left EXCEPT ![t] = [k \in Jobs |-> IF k \in ended THEN 0 ELSE @[k]]]
    IN  /\ pc[j] = "new"
        /\ LockFree(j)
        /\ \/ Swept("redis") /\ UNCHANGED faults
           \/ /\ faults < MaxFaults
              /\ faults' = faults + 1
              /\ Swept(ProcessOf[j])
        /\ Goto(j, IF Cardinality({k \in mine : status[k] \in Active}) >= UserLimit
                   THEN "over" ELSE "reserve")
    /\ UNCHANGED <<inflight, ttl, status, cleanup, beat, asked>>

ReserveToken(j) ==
    /\ pc[j] = "reserve"
    /\ \E granted \in BOOLEAN :
           /\ Call(Reserve, j, granted)
           /\ Goto(j, IF granted THEN "plan" ELSE "refuse")
    /\ UNCHANGED <<status, cleanup, beat, asked>>

\* Planning ended in a plan that waits for its first step, or in a failure.
Park(j) ==
    /\ pc[j] = "plan"
    /\ \E s \in {"pending", Ended} : SetStatus(j, s)
    /\ Goto(j, "refuse")
    /\ UNCHANGED <<slots, cleanup, beat, asked, faults>>

PromoteJob(j) ==
    /\ pc[j] = "plan"
    /\ \E granted \in BOOLEAN :
           /\ Call(Promote, j, granted)
           /\ Goto(j, IF granted THEN "submit" ELSE "refuse")
           /\ beat' = IF granted THEN Started(j) ELSE beat
    /\ UNCHANGED <<status, cleanup, asked>>

\* The token is given back, by whoever ends the submission early.
ReleaseToken(j) ==
    /\ pc[j] = "refuse"
    /\ Call(DropToken, j, TRUE)
    /\ Goto(j, "over")
    /\ UNCHANGED <<status, cleanup, beat, asked>>

\* The backend stores the job and starts its coroutine.
Launch(j) ==
    /\ pc[j] = "submit"
    /\ SetStatus(j, "running")
    /\ Goto(j, "run")
    /\ UNCHANGED <<slots, cleanup, beat, asked, faults>>

SubmitFails(j) ==
    /\ pc[j] = "submit"
    /\ Goto(j, "fail")
    /\ cleanup' = [cleanup EXCEPT ![j] = "release"]
    /\ UNCHANGED <<slots, status, beat, asked, faults>>

FailSaves(j) ==
    /\ pc[j] = "fail"
    /\ cleanup[j] = "no"
    /\ SetStatus(j, Ended)
    /\ Goto(j, "over")
    /\ UNCHANGED <<slots, cleanup, beat, asked, faults>>

Submission(j) ==
    \/ Guard(j) \/ ReserveToken(j) \/ Park(j) \/ PromoteJob(j) \/ ReleaseToken(j)
    \/ Launch(j) \/ SubmitFails(j) \/ FailSaves(j)

(* ---------------------------- job coroutine ---------------------------- *)

\* The engine's outcome is saved; a pause request ends it with "paused".
Outcome(j) ==
    /\ pc[j] = "run"
    /\ \E s \in {Ended, "waiting_approval"} :
           SetStatus(j, IF status[j] = "paused" THEN "paused" ELSE Merged(j, s))
    /\ Goto(j, "leave")
    /\ UNCHANGED <<slots, cleanup, beat, asked, faults>>

\* _enter_resource_wait: the slot is given up while the coroutine goes on.
EnterWait(j) ==
    /\ pc[j] = "run"
    /\ status[j] = "running"
    /\ SetStatus(j, "waiting_resources")
    /\ Goto(j, "wait")
    /\ cleanup' = [cleanup EXCEPT ![j] = "release"]
    /\ UNCHANGED <<slots, beat, asked, faults>>

\* The resources are back; refused for want of a slot, it asks again.
Reactivate(j) ==
    /\ pc[j] = "wait"
    /\ cleanup[j] = "no"
    /\ \E granted \in BOOLEAN :
           /\ Call(Activate, j, granted)
           /\ IF granted
              THEN SetStatus(j, Merged(j, "running")) /\ Goto(j, "run") /\ beat' = Started(j)
              ELSE UNCHANGED <<status, pc, beat>>
    /\ UNCHANGED <<cleanup, asked>>

WaitEnds(j) ==
    /\ pc[j] = "wait"
    /\ cleanup[j] = "no"
    /\ SetStatus(j, Merged(j, "paused"))
    /\ Goto(j, "leave")
    /\ UNCHANGED <<slots, cleanup, beat, asked, faults>>

\* The finally block: out of the task table, then a look at the job.
Leave(j) ==
    /\ pc[j] = "leave"
    /\ cleanup[j] = "no"
    /\ Goto(j, "over")
    /\ cleanup' = [cleanup EXCEPT ![j] = "read"]
    /\ UNCHANGED <<slots, status, beat, asked, faults>>

\* suspend_capacity for a suspended job, finalize for one that has ended.
CleanupReads(j) ==
    /\ cleanup[j] = "read"
    /\ cleanup' = [cleanup EXCEPT ![j] =
                      IF status[j] \in Suspended \cup {Ended} THEN "release" ELSE "no"]
    /\ UNCHANGED <<slots, status, pc, beat, asked, faults>>

CleanupReleases(j) ==
    /\ cleanup[j] = "release"
    /\ ReleaseJob(j)
    /\ cleanup' = [cleanup EXCEPT ![j] = "stop"]
    /\ UNCHANGED <<status, pc, beat, asked>>

CleanupStops(j) ==
    /\ cleanup[j] = "stop"
    /\ beat' = [beat EXCEPT ![j] = "off"]
    /\ cleanup' = [cleanup EXCEPT ![j] = "no"]
    /\ UNCHANGED <<slots, status, pc, asked, faults>>

Coroutine(j) ==
    \/ Outcome(j) \/ EnterWait(j) \/ Reactivate(j) \/ WaitEnds(j) \/ Leave(j)
    \/ CleanupReads(j) \/ CleanupReleases(j) \/ CleanupStops(j)

(* ------------------------------- requests ------------------------------ *)

Pause(j) ==
    /\ pc[j] = "run"
    /\ status[j] = "running"
    /\ SetStatus(j, "paused")
    /\ UNCHANGED <<slots, pc, cleanup, beat, asked, faults>>

\* Mutant: a job that has had a slot is not admitted again.
Readmit(j, granted) == granted /\ UNCHANGED <<slots, faults>>

Admit(j, granted) == Call(Activate, j, granted)

\* resume and approve read the job, which must be suspended.
ResumeReads(j) ==
    /\ ~asked[j]
    /\ status[j] \in Suspended
    /\ \/ pc[j] = "over" /\ cleanup[j] = "no"
       \/ pc[j] \in {"run", "leave", "over"} /\ EarlyResume \in Races
    /\ asked' = [asked EXCEPT ![j] = TRUE]
    /\ UNCHANGED <<slots, status, pc, cleanup, beat, faults>>

\* A slot first, then a coroutine unless one is running.  The job may have
\* ended since it was read: then it has a slot and a heartbeat all the same.
ResumeAdmits(j) ==
    /\ asked[j]
    /\ asked' = [asked EXCEPT ![j] = FALSE]
    /\ \E granted \in BOOLEAN :
           /\ Admit(j, granted)
           /\ SetStatus(j, Merged(j, IF granted THEN "running" ELSE "paused"))
           /\ beat' = IF granted THEN Started(j) ELSE beat
           /\ pc' = IF granted /\ pc[j] = "over" /\ status[j] # Ended
                    THEN [pc EXCEPT ![j] = "run"] ELSE pc
    /\ UNCHANGED cleanup

\* The backend cancels the coroutine; without one, the request cleans up.
Cancel(j) ==
    /\ status[j] \notin {"none", Ended}
    /\ pc[j] \notin Submitting
    /\ SetStatus(j, Ended)
    /\ Goto(j, IF pc[j] = "over" THEN "over" ELSE "leave")
    /\ cleanup' = [cleanup EXCEPT ![j] = IF pc[j] = "over" /\ @ = "no" THEN "read" ELSE @]
    /\ UNCHANGED <<slots, beat, asked, faults>>

(* ---------------------------- time and crashes ------------------------- *)

\* The lists of a job whose keys lapse with this interval: nobody who shares
\* the key has set its EXPIRE for longer.
Lapsing(j) ==
    (IF \A k \in Jobs : ttl[k] <= 1 THEN {"all"} ELSE {}) \cup
    (IF \A k \in Jobs : UserOf[k] = UserOf[j] => ttl[k] <= 1 THEN {"user"} ELSE {})

\* Time for Redis, the tables and the heartbeats.  Heartbeats and cleanups are
\* short beside an interval; so is a submission after its promotion, unless
\* it is slow.
Tick ==
    /\ \A j \in Jobs : /\ beat[j] \in {"off", "asleep"}
                       /\ cleanup[j] = "no"
                       /\ pc[j] \notin {"leave", "fail"}
                       /\ SlowSubmit \in Races \/ pc[j] # "submit"
    /\ \E j \in Jobs : beat[j] = "asleep" \/ \E t \in Tables : left[t][j] > 0
    /\ left' = [t \in Tables |-> [j \in Jobs |-> IF left[t][j] = 0 THEN 0 ELSE left[t][j] - 1]]
    /\ ttl' = [j \in Jobs |-> IF ttl[j] = 0 THEN 0 ELSE ttl[j] - 1]
    /\ listed' = [t \in Tables |-> [j \in Jobs |->
                    IF left[t][j] <= 1 THEN {}
                    ELSE IF t = "redis" THEN listed[t][j] \ Lapsing(j) ELSE listed[t][j]]]
    /\ beat' = [j \in Jobs |-> IF beat[j] = "asleep" THEN "due" ELSE beat[j]]
    /\ UNCHANGED <<inflight, status, pc, cleanup, asked, faults>>

\* The token of a submission that is over, or takes longer than the lease.
TokenExpires(j) ==
    /\ \E t \in Tables : j \in inflight[t]
    /\ inflight' = [t \in Tables |-> inflight[t] \ {j}]
    /\ UNCHANGED <<left, listed, ttl, status, pc, cleanup, beat, asked, faults>>

\* A process goes down: coroutines, heartbeats, locks and tables.
Crash(p) ==
    /\ faults < MaxFaults
    /\ faults' = faults + 1
    /\ inflight' = [inflight EXCEPT ![p] = {}]
    /\ left' = [left EXCEPT ![p] = [j \in Jobs |-> 0]]
    /\ listed' = [listed EXCEPT ![p] = [j \in Jobs |-> {}]]
    /\ pc' = [j \in Jobs |-> IF ProcessOf[j] = p /\ pc[j] # "new" THEN "over" ELSE pc[j]]
    /\ cleanup' = [j \in Jobs |-> IF ProcessOf[j] = p THEN "no" ELSE cleanup[j]]
    /\ beat' = [j \in Jobs |-> IF ProcessOf[j] = p THEN "off" ELSE beat[j]]
    /\ asked' = [j \in Jobs |-> asked[j] /\ ProcessOf[j] # p]
    /\ UNCHANGED <<ttl, status>>

Next ==
    \/ \E j \in Jobs : \/ HeartbeatStep(j) \/ Submission(j) \/ Coroutine(j)
                       \/ Pause(j) \/ ResumeReads(j) \/ ResumeAdmits(j) \/ Cancel(j)
                       \/ TokenExpires(j)
    \/ Tick
    \/ \E p \in Processes : Crash(p)

Spec == Init /\ [][Next]_vars

\* Steps that are short beside an interval.
Prompt(j) ==
    \/ HeartbeatStep(j)
    \/ Submission(j) /\ pc[j] # "new"
    \/ Leave(j) \/ CleanupReads(j) \/ CleanupReleases(j) \/ CleanupStops(j)
    \/ ResumeAdmits(j)

\* They run in the event loop; time passes, however often one of them holds it
\* up; a run of the engine ends (RunTerminates of TaskEngine).
Fairness ==
    /\ SF_vars(Tick)
    /\ \A j \in Jobs : WF_vars(Prompt(j)) /\ WF_vars(Outcome(j))

FairSpec == Spec /\ Fairness

(* ------------------------------ properties ----------------------------- *)

TypeOK ==
    /\ inflight \in [Tables -> SUBSET Jobs]
    /\ left \in [Tables -> [Jobs -> 0..Lease]]
    /\ listed \in [Tables -> [Jobs -> SUBSET Lists]]
    /\ ttl \in [Jobs -> 0..Lease]
    /\ status \in [Jobs -> Statuses]
    /\ pc \in [Jobs -> Submitting \cup {"new", "run", "wait", "leave", "over"}]
    /\ cleanup \in [Jobs -> {"no", "read", "release", "stop"}]
    /\ asked \in [Jobs -> BOOLEAN]
    /\ beat \in [Jobs -> {"off", "asleep", "due", "release", "renew", "lost"}]
    /\ faults \in 0..MaxFaults

\* No table ever lists more jobs, or more jobs of one user, than the limits
\* of the scripts allow, whatever failed, crashed or expired in between, and
\* although the two lists of a table are changed by separate statements.
QuotasHold ==
    \A t \in Tables : /\ Cardinality(InAll(Slots, t)) <= GlobalLimit
                      /\ \A u \in Users : Cardinality(OfUser(Slots, t, u)) <= UserLimit
                      /\ Cardinality(inflight[t]) <= InflightLimit

\* Its entries in Redis outlast the EXPIRE of the stamp before: the last
\* activation found them there and no heartbeat has renewed them since.
Unrenewed(j) == ttl[j] < left["redis"][j]

\* A job that executes nodes has a slot in some table: the heartbeat, the
\* suspension and the re-admission never leave it running without one, except
\* for a job whose re-admission found its old slot still in Redis, until its
\* heartbeat renews it.
RunningHasSlot ==
    \A j \in Jobs : pc[j] = "run" /\ status[j] = "running" =>
        Unrenewed(j) \/ \E t \in Tables : Holds(Slots, t, j)

\* A job that is suspended or has ended gives its slot back in every table,
\* unless it goes on: by its cleanup, its heartbeat, the next submission, or
\* at last because nobody renews the lease.
SlotsComeBack ==
    \A j \in Jobs :
        (status[j] \in Suspended \cup {Ended}) ~>
            ((\A t \in Tables : listed[t][j] = {}) \/ status[j] \notin Suspended \cup {Ended})

\* What activate says of a resumed job: it has a fresh active slot.  It does not
\* hold: section 4 of the README.
ResumedHasFreshSlot ==
    \A j \in Jobs : pc[j] = "run" /\ status[j] = "running" =>
        \E t \in Tables : Holds(Slots, t, j)
===============================================================================
