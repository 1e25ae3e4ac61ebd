---------------------------- MODULE JobStore_proofs ----------------------------
(***************************************************************************)
(* Proofs about the job store for any number of nodes, store instances and *)
(* requests: what its optimistic transactions guarantee whoever saves, and *)
(* what they leave to the lock, to the merge and to the order in which the *)
(* loop and its nodes save.                                                *)
(*                                                                         *)
(* RevisionsAreSerial is not inductive: that the write of a transaction is *)
(* numbered right needs to know what its candidate was stamped with when   *)
(* it was read, and that the record has not moved since the WATCH.  That   *)
(* no save is refused follows from the lock; that no job fails for nothing *)
(* from what the loop saved last; that a stale save keeps a control status *)
(* from what an object that escapes the merge can still say.               *)
(***************************************************************************)
EXTENDS JobStore, TLAPS

\* A save knows where its client continues.
SavesContinue == \A c \in Clients : pc[c] \in Saving => after[c] # None

\* A transaction under way is one of the three, and the record was at the
\* revision under WATCH or has moved past it.
WatchBehindRecord ==
    \A c \in Clients : pc[c] \in {"read", "execute"} =>
        tx[c].tries < Tries /\ tx[c].watched <= record.revision

\* A stamped candidate is ahead of the revision under WATCH, and at most one
\* ahead of the record.
StampNextToRecord ==
    \A c \in Clients : pc[c] = "execute" =>
        /\ tx[c].watched < tx[c].job.revision
        /\ tx[c].job.revision <= record.revision + 1

\* The inductive invariant.
StoreInv == TypeOK /\ SavesContinue /\ WatchBehindRecord /\ StampNextToRecord

\* The coroutine behind each client, the object it holds and the store it uses.
LEMMA ClientFacts ==
    /\ Loop \in Clients /\ Converge \in Clients
    /\ Loop \in Holders /\ Converge \in Holders
    /\ Loop \notin Nodes /\ Converge \notin Nodes /\ Loop # Converge
    /\ Nodes \subseteq Clients
    /\ \A r \in Requests : r \in Clients /\ r \in Holders /\ r \notin Nodes
                           /\ r # Loop /\ r # Converge
    /\ \A c \in Clients : Holder(c) \in Holders /\ StoreOf[c] \in Stores
  BY RequestsAssumption, NodesAssumption, StoresAssumption
     DEF Loop, Converge, Clients, Holders, Holder

\* The locals of a save that has not begun.
LEMMA NoTxType == NewJob \in Job /\ NoTx \in Tx
  BY DEF NewJob, NoTx, Job, Tx, JobStatus, NodeStatus, Tries

\* Merging two jobs gives a job with the revision of the stored one.
LEMMA MergeType ==
  ASSUME NEW current \in Job, NEW incoming \in Job
  PROVE  /\ Merge(current, incoming) \in Job
         /\ Merge(current, incoming).revision = current.revision
<1>1. \A n \in Nodes : MergedNode(current, incoming, n) \in NodeStatus
  BY DEF MergedNode, Job
<1> QED
  BY <1>1 DEF Merge, Job

\* The candidate of a save is a job.
LEMMA CandidateType ==
  ASSUME TypeOK, NEW c \in Clients
  PROVE  Candidate(c) \in Job
  BY ClientFacts DEF TypeOK, Candidate, Tx

\* Converging the nodes of a job gives a job.
LEMMA StoppedType ==
  ASSUME NEW job \in Job
  PROVE  StoppedNodes(job) \in Job
  BY DEF StoppedNodes, Stopped, Job, NodeStatus

\* A job just loaded is a job.
LEMMA LoadedType ==
  ASSUME TypeOK
  PROVE  Loaded \in Job
  BY DEF TypeOK, Loaded, Job

\* A step that leaves the record and the transactions alone and moves clients
\* only into a save with a place to continue, or out of one, keeps the three
\* conjuncts about saves.
LEMMA SavesKept ==
  ASSUME StoreInv, UNCHANGED <<record, tx>>,
         \A c \in Clients :
            \/ pc'[c] = pc[c] /\ after'[c] = after[c]
            \/ pc'[c] = "queue" /\ after'[c] # None
            \/ pc'[c] = "watch" /\ pc[c] = "queue" /\ after'[c] = after[c]
            \/ pc'[c] \notin Saving
  PROVE  (SavesContinue /\ WatchBehindRecord /\ StampNextToRecord)'
  BY DEF StoreInv, SavesContinue, WatchBehindRecord, StampNextToRecord, Saving

\* The same for a step in which some transaction may have reached Redis and the
\* clients of S left their saves.
LEMMA SavesAborted ==
  ASSUME StoreInv, NEW S \in SUBSET Clients,
         record'.revision \in {record.revision, record.revision + 1},
         \A c \in Clients \ S : tx'[c] = tx[c] /\ after'[c] = after[c],
         \A c \in S : pc'[c] \notin Saving,
         \A c \in Clients \ S : pc'[c] = pc[c] \/ pc'[c] \notin Saving
  PROVE  (SavesContinue /\ WatchBehindRecord /\ StampNextToRecord)'
<1>1. record.revision \in Nat
  BY DEF StoreInv, TypeOK, Job
<1>2. \A c \in Clients : tx[c].watched \in Nat /\ tx[c].job.revision \in Nat
  BY DEF StoreInv, TypeOK, Tx, Job
<1> QED
  BY <1>1, <1>2 DEF StoreInv, SavesContinue, WatchBehindRecord, StampNextToRecord, Saving

\* The candidate of a transaction that succeeds is one ahead of the record.
LEMMA StampIsNext ==
  ASSUME StoreInv, NEW c \in Clients, pc[c] = "execute", record.revision = tx[c].watched
  PROVE  /\ tx[c].job \in Job
         /\ tx[c].job.revision = record.revision + 1
<1>1. record.revision \in Nat /\ tx[c].watched \in Nat /\ tx[c].job \in Job /\ tx[c].job.revision \in Nat
  BY DEF StoreInv, TypeOK, Tx, Job
<1> QED
  BY <1>1 DEF StoreInv, StampNextToRecord

\* What an aborted save leaves behind.
LEMMA AbortType ==
  ASSUME StoreInv, NEW S \in SUBSET Clients, AbortSaves(S)
  PROVE  /\ record' \in Job /\ copy' \in [Holders -> Job]
         /\ tx' \in [Clients -> Tx]
         /\ after' \in [Clients -> (Location \ Saving) \cup {None}]
         /\ lock' \in [Stores -> Clients \cup {None}]
         /\ record' # record => record'.revision = record.revision + 1
<1> USE DEF StoreInv, TypeOK
<1>1. tx' \in [Clients -> Tx]
  BY DEF AbortSaves, NoTx, NewJob, Tx, Job, JobStatus, NodeStatus, Tries
<1>2. /\ after' \in [Clients -> (Location \ Saving) \cup {None}]
      /\ lock' \in [Stores -> Clients \cup {None}]
  BY DEF AbortSaves, Released
<1>3. CASE UNCHANGED <<record, copy>>
  BY <1>1, <1>2, <1>3
<1>4. CASE \E c \in S : Landed(c)
  <2>1. PICK c \in S : Landed(c)
    BY <1>4
  <2>2. record' \in Job /\ record'.revision = record.revision + 1
    BY <2>1, StampIsNext DEF Landed
  <2>3. Holder(c) \in Holders
    BY ClientFacts
  <2>4. copy' \in [Holders -> Job]
    BY <2>1, <2>2, <2>3 DEF Landed, Job
  <2> QED
    BY <1>1, <1>2, <2>2, <2>4
<1> QED
  BY <1>3, <1>4 DEF AbortSaves

\* A request, or the loop, that loads the job and saves it or answers at once.
LEMMA RespondKeeps ==
  ASSUME StoreInv, NEW c \in Clients, NEW job \in Job, NEW allowed \in BOOLEAN,
         NEW continue \in Location \ Saving, continue # None,
         Respond(c, job, allowed, continue)
  PROVE  StoreInv'
<1>1. CASE allowed
  <2>1. TypeOK'
    BY <1>1, ClientFacts DEF Respond, Save, Goto, StoreInv, TypeOK, Location, Saving
  <2> QED
    BY <1>1, <2>1, SavesKept DEF Respond, Save, Goto, StoreInv, TypeOK
<1>2. CASE ~allowed
  <2>1. TypeOK'
    BY <1>2 DEF Respond, Goto, StoreInv, TypeOK, Location, Saving
  <2>2. pc'[c] \notin Saving /\ \A d \in Clients : d # c => pc'[d] = pc[d]
    BY <1>2 DEF Respond, Goto, StoreInv, TypeOK, Saving
  <2> QED
    BY <1>2, <2>1, <2>2, SavesKept DEF Respond, StoreInv
<1> QED
  BY <1>1, <1>2

\* The steps of a save.
LEMMA SaveStepKeeps ==
  ASSUME StoreInv, NEW c \in Clients, Acquire(c) \/ SaveStep(c)
  PROVE  StoreInv'
<1> USE ClientFacts DEF StoreInv
<1>1. CASE Acquire(c)
  <2>1. TypeOK'
    BY <1>1 DEF Acquire, Goto, TypeOK, Location, Saving
  <2> QED
    BY <1>1, <2>1, SavesKept DEF Acquire, Goto, TypeOK
<1>2. CASE Watch(c)
  <2>0. record.revision \in Nat
    BY DEF TypeOK, Job
  <2>1. TypeOK'
    BY <1>2, <2>0 DEF Watch, Goto, TypeOK, Location, Saving, Tx
  <2>2. SavesContinue'
    BY <1>2 DEF Watch, Goto, TypeOK, SavesContinue, Saving
  <2>3. WatchBehindRecord'
    BY <1>2 DEF Watch, Goto, TypeOK, WatchBehindRecord, Tx, Job
  <2>4. StampNextToRecord'
    BY <1>2 DEF Watch, Goto, TypeOK, StampNextToRecord, Tx, Job
  <2> QED
    BY <2>1, <2>2, <2>3, <2>4
<1>3. CASE ReadConflict(c)
  <2>1. Merge(record, Candidate(c)) \in Job
    BY MergeType, CandidateType DEF TypeOK
  <2>2. tx[c].tries + 1 \in 0..Tries
    BY <1>3 DEF ReadConflict, WatchBehindRecord, TypeOK, Tx, Tries
  <2>3. TypeOK'
    BY <1>3, <2>1, <2>2 DEF ReadConflict, Goto, TypeOK, Location, Saving, Tx
  <2>4. (SavesContinue /\ WatchBehindRecord /\ StampNextToRecord)'
    BY <1>3 DEF ReadConflict, Goto, TypeOK, SavesContinue, Saving,
                WatchBehindRecord, StampNextToRecord
  <2> QED
    BY <2>3, <2>4
<1>4. CASE ReadMatch(c)
  <2>1. Candidate(c) \in Job /\ Candidate(c).revision = record.revision
        /\ record.revision \in Nat
    BY <1>4, CandidateType DEF ReadMatch, TypeOK, Job
  <2>2. [Candidate(c) EXCEPT !.revision = @ + 1] \in Job
    BY <2>1 DEF Job
  <2>3. copy' \in [Holders -> Job]
    <3>1. \A job \in Job : [job EXCEPT !.revision = @ + 1] \in Job
      BY DEF Job
    <3> QED
      BY <1>4, <3>1 DEF ReadMatch, TypeOK
  <2>4. TypeOK'
    BY <1>4, <2>2, <2>3 DEF ReadMatch, Goto, TypeOK, Location, Saving, Tx
  <2>5. tx'[c].job.revision = record.revision + 1 /\ tx'[c].watched = tx[c].watched
        /\ tx'[c].tries = tx[c].tries
    BY <1>4, <2>1 DEF ReadMatch, TypeOK, Tx, Job
  <2>6. /\ \A d \in Clients \ {c} : tx'[d] = tx[d] /\ pc'[d] = pc[d]
        /\ pc'[c] = "execute" /\ UNCHANGED <<record, after>>
    BY <1>4 DEF ReadMatch, Goto, TypeOK
  <2>7. tx[c].watched \in Nat /\ tx[c].watched <= record.revision /\ tx[c].tries < Tries
    BY <1>4 DEF ReadMatch, WatchBehindRecord, TypeOK, Tx
  <2>8. SavesContinue' /\ WatchBehindRecord'
    BY <1>4, <2>5, <2>6, <2>7 DEF ReadMatch, SavesContinue, WatchBehindRecord, Saving
  <2>9. StampNextToRecord'
    BY <2>1, <2>5, <2>6, <2>7 DEF StampNextToRecord
  <2> QED
    BY <2>4, <2>8, <2>9
<1>5. CASE Execute(c)
  <2>1. tx[c].job \in Job /\ tx[c].job.revision = record.revision + 1
    BY <1>5, StampIsNext DEF Execute
  <2>2. after[c] \in Location \ Saving
    BY <1>5 DEF Execute, SavesContinue, TypeOK, Saving
  <2>3. copy' \in [Holders -> Job]
    BY <1>5, <2>1 DEF Execute, TypeOK, Job
  <2>4. TypeOK'
    BY <1>5, <2>1, <2>2, <2>3, NoTxType DEF Execute, EndSave, Goto, TypeOK
  <2>5. (SavesContinue /\ WatchBehindRecord /\ StampNextToRecord)'
    <3>0. PICK S \in SUBSET Clients : S = {c}
      OBVIOUS
    <3>1. /\ \A d \in Clients \ S : tx'[d] = tx[d] /\ after'[d] = after[d]
          /\ \A d \in Clients \ S : pc'[d] = pc[d] \/ pc'[d] \notin Saving
      BY <1>5, <3>0 DEF Execute, EndSave, Goto, TypeOK
    <3>2. \A d \in S : pc'[d] \notin Saving
      BY <1>5, <3>0, <2>2 DEF Execute, EndSave, Goto, TypeOK
    <3>3. record'.revision \in {record.revision, record.revision + 1}
      BY <1>5, <2>1 DEF Execute
    <3> QED
      BY <3>1, <3>2, <3>3, SavesAborted
  <2> QED
    BY <2>4, <2>5
<1>6. CASE ExecuteFails(c)
  <2>1. tx[c].tries + 1 \in 0..Tries
    BY <1>6 DEF ExecuteFails, WatchBehindRecord, TypeOK, Tx, Tries
  <2>2. TypeOK'
    BY <1>6, <2>1 DEF ExecuteFails, Goto, TypeOK, Location, Saving, Tx
  <2>3. (SavesContinue /\ WatchBehindRecord /\ StampNextToRecord)'
    BY <1>6 DEF ExecuteFails, Goto, TypeOK, SavesContinue, Saving,
                WatchBehindRecord, StampNextToRecord
  <2> QED
    BY <2>2, <2>3
<1>7. CASE GiveUp(c)
  <2>1. TypeOK'
    BY <1>7, NoTxType DEF GiveUp, EndSave, Goto, TypeOK, Location, Saving
  <2>0. PICK S \in SUBSET Clients : S = {c}
    OBVIOUS
  <2>2. /\ \A d \in Clients \ S : tx'[d] = tx[d] /\ after'[d] = after[d]
        /\ \A d \in Clients \ S : pc'[d] = pc[d] \/ pc'[d] \notin Saving
    BY <1>7, <2>0 DEF GiveUp, EndSave, Goto, TypeOK
  <2>3. /\ \A d \in S : pc'[d] \notin Saving
        /\ record'.revision \in {record.revision, record.revision + 1}
    BY <1>7, <2>0 DEF GiveUp, EndSave, Goto, TypeOK, Saving
  <2> QED
    BY <2>1, <2>2, <2>3, SavesAborted
<1> QED
  BY <1>1, <1>2, <1>3, <1>4, <1>5, <1>6, <1>7 DEF SaveStep

\* The steps of the execution loop.
LEMMA LoopStepKeeps ==
  ASSUME StoreInv, LoopStep
  PROVE  StoreInv'
<1> USE ClientFacts DEF StoreInv
<1>1. CASE ReadControl
  <2>1. TypeOK'
    BY <1>1 DEF ReadControl, Goto, TypeOK, Location, Saving, Job
  <2> QED
    BY <1>1, <2>1, SavesKept DEF ReadControl, Goto, TypeOK, Saving
<1>2. CASE Stop
  <2>1. Tasks \subseteq Clients /\ Tasks \subseteq Nodes
    BY DEF Tasks, Unfinished
  <2>2. AbortSaves(Tasks)
    BY <1>2 DEF Stop
  <2>3. TypeOK'
    BY <1>2, <2>1, <2>2, AbortType DEF Stop, TypeOK, Location, Saving
  <2>4. /\ \A c \in Clients \ Tasks : tx'[c] = tx[c] /\ after'[c] = after[c]
        /\ \A c \in Tasks : pc'[c] \notin Saving
        /\ \A c \in Clients \ Tasks : pc'[c] = pc[c] \/ pc'[c] \notin Saving
    BY <1>2, <2>1, <2>2 DEF Stop, AbortSaves, Saving
  <2>5. record'.revision \in {record.revision, record.revision + 1}
    BY <2>1, <2>2, AbortType
  <2> QED
    BY <2>1, <2>3, <2>4, <2>5, SavesAborted
<1>3. CASE Outcome
  <2>1. PICK status \in JobStatus : Save(Loop, [copy[Loop] EXCEPT !.status = status], "check")
    BY <1>3 DEF Outcome
  <2>2. [copy[Loop] EXCEPT !.status = status] \in Job
    BY DEF TypeOK, Job
  <2>3. TypeOK'
    BY <1>3, <2>1, <2>2 DEF Outcome, Save, Goto, Holder, TypeOK, Location, Saving
  <2> QED
    BY <1>3, <2>1, <2>3, SavesKept DEF Outcome, Save, Goto, TypeOK, None
<1>4. CASE EnsureFailed
  <2>1. [Loaded EXCEPT !.status = "failed"] \in Job
    BY LoadedType DEF Job, JobStatus
  <2> QED
    BY <1>4, <2>1, RespondKeeps DEF EnsureFailed, Location, Saving, None
<1>5. ASSUME NEW n \in Nodes, LaunchNode(n)
      PROVE  StoreInv'
  <2>1. SetNode(n, "ready") \in Job
    BY DEF SetNode, TypeOK, Job, NodeStatus
  <2>2. TypeOK'
    BY <1>5, <2>1 DEF LaunchNode, Notify, TypeOK, Location, Saving, NodeStatus
  <2> QED
    BY <1>5, <2>2, SavesKept DEF LaunchNode, Notify, TypeOK, Saving, None
<1>6. ASSUME NEW n \in Nodes, Collect(n)
      PROVE  StoreInv'
  <2>1. SetNode(n, "completed") \in Job
    BY DEF SetNode, TypeOK, Job, NodeStatus
  <2>2. TypeOK'
    BY <1>6, <2>1 DEF Collect, Notify, TypeOK, Location, Saving, NodeStatus
  <2> QED
    BY <1>6, <2>2, SavesKept DEF Collect, Notify, TypeOK, Saving, None
<1>7. ASSUME NEW n \in Nodes, StopNode(n)
      PROVE  StoreInv'
  <2>1. PICK status \in NodeStatus : Notify(n, status, "stop")
    BY <1>7 DEF StopNode, NodeStatus
  <2>2. SetNode(n, status) \in Job
    BY DEF SetNode, TypeOK, Job
  <2>3. TypeOK'
    BY <1>7, <2>1, <2>2 DEF StopNode, Notify, TypeOK, Location, Saving
  <2> QED
    BY <1>7, <2>1, <2>3, SavesKept DEF StopNode, Notify, TypeOK, Saving, None
<1> QED
  BY <1>1, <1>2, <1>3, <1>4, <1>5, <1>6, <1>7 DEF LoopStep

\* The steps of a node task.
LEMMA NodeStepKeeps ==
  ASSUME StoreInv, NEW n \in Nodes, NodeRuns(n) \/ NodeFinishes(n)
  PROVE  StoreInv'
<1> USE ClientFacts DEF StoreInv
<1>1. CASE NodeRuns(n)
  <2>1. SetNode(n, "running") \in Job
    BY DEF SetNode, TypeOK, Job, NodeStatus
  <2>2. TypeOK'
    BY <1>1, <2>1 DEF NodeRuns, Save, Goto, TypeOK, Location, Saving
  <2> QED
    BY <1>1, <2>2, SavesKept DEF NodeRuns, Save, Goto, TypeOK, None
<1>2. CASE NodeFinishes(n)
  <2>1. TypeOK'
    BY <1>2 DEF NodeFinishes, Goto, TypeOK, Location, Saving
  <2> QED
    BY <1>2, <2>1, SavesKept DEF NodeFinishes, Goto, TypeOK, Saving
<1> QED
  BY <1>1, <1>2

\* The steps of the control requests.
LEMMA RequestStepKeeps ==
  ASSUME StoreInv, RequestStep
  PROVE  StoreInv'
<1> USE ClientFacts DEF StoreInv
<1>0. Loaded \in Job
  BY LoadedType
<1>1. ASSUME "cancel" \in Requests, CancelRequest
      PROVE  StoreInv'
  <2>1. [StoppedNodes(Loaded) EXCEPT !.status = "cancelled"] \in Job
    BY <1>0, StoppedType DEF Job, JobStatus
  <2> QED
    BY <1>1, <2>1, RespondKeeps DEF CancelRequest, Location, Saving, None
<1>2. ASSUME "cancel" \in Requests, CancelTask
      PROVE  StoreInv'
  <2>1. CASE AbortSaves({Loop})
             /\ pc' = [pc EXCEPT !["cancel"] = "settle", ![Loop] = "done", ![Converge] = "start"]
             /\ note' = NoNote
    <3>1. TypeOK'
      BY <1>2, <2>1, AbortType DEF CancelTask, TypeOK, Location, Saving
    <3>0. PICK S \in SUBSET Clients : S = {Loop}
      OBVIOUS
    <3>2. /\ \A c \in Clients \ S : tx'[c] = tx[c] /\ after'[c] = after[c]
          /\ \A c \in S : pc'[c] \notin Saving
          /\ \A c \in Clients \ S : pc'[c] = pc[c] \/ pc'[c] \notin Saving
      BY <1>2, <2>1, <3>0 DEF AbortSaves, TypeOK, Saving
    <3>3. record'.revision \in {record.revision, record.revision + 1}
      BY <2>1, AbortType
    <3> QED
      BY <3>1, <3>2, <3>3, SavesAborted
  <2>2. CASE Goto("cancel", "done") /\ UNCHANGED <<lock, record, copy, tx, after, note>>
    <3>1. TypeOK'
      BY <1>2, <2>2 DEF CancelTask, Goto, TypeOK, Location, Saving
    <3> QED
      BY <1>2, <2>2, <3>1, SavesKept DEF Goto, TypeOK, Saving
  <2> QED
    BY <1>2, <2>1, <2>2 DEF CancelTask
<1>3. ASSUME "cancel" \in Requests, Settle
      PROVE  StoreInv'
  BY <1>0, <1>3, StoppedType, RespondKeeps DEF Settle, Location, Saving, None
<1>4. ASSUME "pause" \in Requests, PauseRequest
      PROVE  StoreInv'
  <2>1. [Loaded EXCEPT !.status = "paused"] \in Job
    BY <1>0 DEF Job, JobStatus
  <2> QED
    BY <1>4, <2>1, RespondKeeps DEF PauseRequest, Location, Saving, None
<1>5. ASSUME "resume" \in Requests, ResumeRequest
      PROVE  StoreInv'
  <2>1. [Loaded EXCEPT !.status = "running"] \in Job
    BY <1>0 DEF Job, JobStatus
  <2> QED
    BY <1>5, <2>1, RespondKeeps DEF ResumeRequest, Location, Saving, None
<1>6. ASSUME "resume" \in Requests, Restart
      PROVE  StoreInv'
  <2>1. TypeOK'
    BY <1>0, <1>6 DEF Restart, Goto, TypeOK, Location, Saving, JobStatus
  <2>2. \A c \in Clients : pc'[c] = pc[c] \/ pc'[c] \notin Saving
    BY <1>6 DEF Restart, Goto, TypeOK, Saving
  <2> QED
    BY <1>6, <2>1, <2>2, SavesKept DEF Restart
<1>7. CASE Interrupt
  <2>1. [Loaded EXCEPT !.status = "interrupted"] \in Job
    BY <1>0 DEF Job, JobStatus
  <2>2. StoppedNodes(Loaded) \in Job
    BY <1>0, StoppedType
  <2> QED
    BY <1>7, <2>1, <2>2, RespondKeeps DEF Interrupt, Location, Saving, None
<1> QED
  BY <1>1, <1>2, <1>3, <1>4, <1>5, <1>6, <1>7 DEF RequestStep

\* Every step keeps the invariant.
LEMMA StepKeeps ==
  ASSUME StoreInv, [Next]_vars
  PROVE  StoreInv'
<1>1. CASE UNCHANGED vars
  BY <1>1 DEF vars, StoreInv, TypeOK, SavesContinue, WatchBehindRecord, StampNextToRecord
<1>2. CASE Next
  BY <1>2, SaveStepKeeps, LoopStepKeeps, NodeStepKeeps, RequestStepKeeps DEF Next
<1> QED
  BY <1>1, <1>2

\* The initial state satisfies the invariant.
LEMMA InitKeeps == Init => StoreInv
<1> SUFFICES ASSUME Init PROVE StoreInv
  OBVIOUS
<1>1. TypeOK
  BY NoTxType DEF Init, TypeOK, Location, Saving, JobStatus
<1>2. SavesContinue /\ WatchBehindRecord /\ StampNextToRecord
  BY DEF Init, SavesContinue, WatchBehindRecord, StampNextToRecord, Saving
<1> QED
  BY <1>1, <1>2 DEF StoreInv

\* The invariant holds in every reachable state: see StoreInv.
THEOREM StoreInvariance == Spec => []StoreInv
<1>1. StoreInv /\ [Next]_vars => StoreInv'
  BY StepKeeps
<1> QED
  BY <1>1, InitKeeps, PTL DEF Spec

\* Type correctness of the store, for any nodes, requests and processes.
THEOREM StoreTypeCorrect == Spec => []TypeOK
<1>1. StoreInv => TypeOK
  BY DEF StoreInv
<1> QED
  BY <1>1, StoreInvariance, PTL

\* The writes of save_job are numbered without gaps or repeats, whoever saves,
\* from however many processes and however often a save is aborted.
THEOREM RevisionsAreSerialHolds == Spec => RevisionsAreSerial
<1>1. ASSUME StoreInv, [Next]_vars
      PROVE  record' # record => record'.revision = record.revision + 1
  <2> SUFFICES ASSUME record' # record
               PROVE  record'.revision = record.revision + 1
    OBVIOUS
  <2>1. ASSUME NEW c \in Clients, Acquire(c) \/ SaveStep(c)
        PROVE  record'.revision = record.revision + 1
    BY <1>1, <2>1, StampIsNext
       DEF Acquire, SaveStep, Watch, ReadConflict, ReadMatch, Execute, ExecuteFails, GiveUp
  <2>2. ASSUME NEW S \in SUBSET Clients, AbortSaves(S)
        PROVE  record'.revision = record.revision + 1
    BY <1>1, <2>2, AbortType
  <2>3. ASSUME LoopStep
        PROVE  record'.revision = record.revision + 1
    <3>1. Tasks \in SUBSET Clients
      BY ClientFacts DEF Tasks, Unfinished
    <3> QED
      BY <2>2, <2>3, <3>1 DEF LoopStep, ReadControl, Stop, Outcome, EnsureFailed, Respond,
                              LaunchNode, Collect, StopNode
  <2>4. ASSUME RequestStep
        PROVE  record'.revision = record.revision + 1
    BY <2>2, <2>4, ClientFacts
       DEF RequestStep, CancelRequest, CancelTask, Settle, PauseRequest, ResumeRequest,
           Restart, Interrupt, Respond
  <2> QED
    BY <1>1, <2>1, <2>3, <2>4 DEF Next, vars, NodeRuns, NodeFinishes
<1> QED
  BY <1>1, StoreInvariance, PTL DEF Spec, RevisionsAreSerial


(* ------------------------ the save lock and the loop ------------------- *)

\* A client that holds the lock of its store.
Holding(c) == pc[c] \in {"watch", "read", "execute"}

\* Only a save has locals.
Unused == \A c \in Clients : ~Holding(c) => tx[c] = NoTx

\* No node task runs.
Resting == {"idle", "stopped", "collected"}
Quiet == \A n \in Nodes : pc[n] \in Resting

\* The loop is at a location, or it saves and goes there next.
Continues(next) == pc[Loop] = next \/ (pc[Loop] \in Saving /\ after[Loop] = next)

\* While the loop reports the nodes of a stopped job, and once it saved the
\* outcome of the run, no node task runs.
Stopping == Continues("stop") => Quiet /\ seen \in Protected
Deciding == Continues("check") => Quiet

\* The interrupted coroutine starts when the cancel request has cancelled it.
Converging ==
    pc[Converge] # "idle" =>
        /\ "cancel" \in Requests
        /\ \/ pc["cancel"] \in {"settle", "done", "conflict"}
           \/ pc["cancel"] \in Saving /\ after["cancel"] = "done"

\* What the loop and the locals of a save guarantee wherever the clients run.
LoopInv == Unused /\ Stopping /\ Deciding /\ Converging

\* A step that starts no node task and brings the loop neither to its stop nor
\* to its check.
LEMMA RestKept ==
  ASSUME StoreInv, LoopInv, UNCHANGED seen,
         \A n \in Nodes : pc'[n] = pc[n] \/ pc[n] \notin Resting \/ pc'[n] \in Resting,
         Continues("stop")' => Continues("stop"),
         Continues("check")' => Continues("check")
  PROVE  (Stopping /\ Deciding)'
  BY DEF LoopInv, Stopping, Deciding, Quiet

\* A step that leaves the locals alone and ends no save.
LEMMA UnusedKept ==
  ASSUME StoreInv, LoopInv, UNCHANGED tx,
         \A c \in Clients : Holding(c) => Holding(c)'
  PROVE  Unused'
  BY DEF LoopInv, Unused

\* A step that leaves the coroutine and the cancel request alone.
LEMMA ConvergingKept ==
  ASSUME LoopInv, UNCHANGED pc[Converge],
         "cancel" \in Requests => UNCHANGED <<pc["cancel"], after["cancel"]>>
  PROVE  Converging'
  BY DEF LoopInv, Converging

\* A request, or the loop, that loads the job and saves it or answers at once.
LEMMA RespondRests ==
  ASSUME StoreInv, LoopInv, NEW c \in Clients \ Nodes, NEW job \in Job,
         NEW allowed \in BOOLEAN, NEW continue \in Location \ Saving,
         continue \notin {"stop", "check"}, pc[c] \notin Saving,
         c = Converge => pc[c] # "idle",
         c = "cancel" => pc[c] = "idle" \/ continue = "done",
         Respond(c, job, allowed, continue)
  PROVE  LoopInv'
<1> USE ClientFacts DEF StoreInv, TypeOK
<1>1. \A d \in Clients \ {c} : pc'[d] = pc[d] /\ after'[d] = after[d]
  BY DEF Respond, Save, Goto
<1>2. (pc'[c] = "queue" /\ after'[c] = continue) \/ pc'[c] = "done"
  BY DEF Respond, Save, Goto
<1>3. UNCHANGED <<tx, seen>>
  BY DEF Respond
<1>4. Unused'
  BY <1>1, <1>3, UnusedKept DEF Holding, Saving
<1>5. /\ Continues("stop")' => Continues("stop")
      /\ Continues("check")' => Continues("check")
  BY <1>1, <1>2 DEF Continues, Saving
<1>6. (Stopping /\ Deciding)'
  BY <1>1, <1>3, <1>5, RestKept
<1>7. Converging'
  <2>1. CASE pc[Converge] = "idle"
    BY <1>1, <2>1 DEF Converging
  <2>2. CASE pc[Converge] # "idle"
    BY <1>1, <1>2, <2>2 DEF LoopInv, Converging, Saving
  <2> QED
    BY <2>1, <2>2
<1> QED
  BY <1>4, <1>6, <1>7 DEF LoopInv

\* The steps of a save.
LEMMA SaveStepRests ==
  ASSUME StoreInv, LoopInv, NEW c \in Clients, Acquire(c) \/ SaveStep(c)
  PROVE  LoopInv'
<1> USE ClientFacts DEF StoreInv, TypeOK
<1>1. /\ pc[c] \in Saving
      /\ \A d \in Clients \ {c} : pc'[d] = pc[d] /\ after'[d] = after[d] /\ tx'[d] = tx[d]
      /\ UNCHANGED seen
  BY DEF Acquire, SaveStep, Watch, ReadConflict, ReadMatch, Execute, ExecuteFails, GiveUp,
         EndSave, Goto, Saving
<1>2. \/ pc'[c] \in Saving /\ after'[c] = after[c]
      \/ pc'[c] = after[c] /\ after[c] \notin Saving
      \/ pc'[c] = "conflict"
  <2>1. after[c] \notin Saving
    BY DEF SavesContinue, Saving, None
  <2> QED
    BY <2>1 DEF Acquire, SaveStep, Watch, ReadConflict, ReadMatch, Execute, ExecuteFails, GiveUp,
           EndSave, Goto, Saving
<1>3. Holding(c)' \/ tx'[c] = NoTx
  BY DEF Acquire, SaveStep, Watch, ReadConflict, ReadMatch, Execute, ExecuteFails, GiveUp,
         EndSave, Goto, Holding
<1>4. Unused'
  BY <1>1, <1>3 DEF LoopInv, Unused, Holding
<1>5. /\ Continues("stop")' => Continues("stop")
      /\ Continues("check")' => Continues("check")
  BY <1>1, <1>2 DEF Continues, Saving
<1>6. pc[c] \notin Resting
  BY <1>1 DEF Resting, Saving
<1>7. (Stopping /\ Deciding)'
  BY <1>1, <1>5, <1>6, RestKept
<1>8. Converging'
  BY <1>1, <1>2 DEF LoopInv, Converging, Saving
<1> QED
  BY <1>4, <1>7, <1>8 DEF LoopInv

\* The loop's check and the requests load the job and save it or answer.
Responds ==
    \/ EnsureFailed \/ Interrupt
    \/ "cancel" \in Requests /\ (CancelRequest \/ Settle)
    \/ "pause" \in Requests /\ PauseRequest
    \/ "resume" \in Requests /\ ResumeRequest

LEMMA RespondersRespond ==
  ASSUME StoreInv, Responds
  PROVE  \E c \in Clients \ Nodes, job \in Job, allowed \in BOOLEAN,
            continue \in {"done", "cancel_task", "restart"} :
            /\ pc[c] \notin Saving
            /\ c = Converge => pc[c] # "idle"
            /\ c = "cancel" => pc[c] = "idle" \/ continue = "done"
            /\ Respond(c, job, allowed, continue)
<1> USE ClientFacts DEF StoreInv
<1>0. Loaded \in Job /\ StoppedNodes(Loaded) \in Job
  BY LoadedType, StoppedType
<1>1. \A status \in JobStatus : [Loaded EXCEPT !.status = status] \in Job
                              /\ [StoppedNodes(Loaded) EXCEPT !.status = status] \in Job
  BY <1>0 DEF Job
<1>2. {"running", "paused", "failed", "cancelled", "interrupted"} \subseteq JobStatus
  BY DEF JobStatus
<1>3. "cancel" # Loop /\ "cancel" # Converge /\ "pause" \notin {Loop, Converge, "cancel"}
      /\ "resume" \notin {Loop, Converge, "cancel"}
  BY DEF Loop, Converge
<1> DEFINE Answers(c, job, allowed, continue) ==
               /\ pc[c] \notin Saving
               /\ c = Converge => pc[c] # "idle"
               /\ c = "cancel" => pc[c] = "idle" \/ continue = "done"
               /\ Respond(c, job, allowed, continue)
<1>5. CASE EnsureFailed
  <2>1. Answers(Loop, [Loaded EXCEPT !.status = "failed"], record.status = "running", "done")
    BY <1>3, <1>5 DEF EnsureFailed, Saving
  <2> QED
    BY <1>1, <1>2, <2>1
<1>6. CASE "cancel" \in Requests /\ CancelRequest
  <2>1. Answers("cancel", [StoppedNodes(Loaded) EXCEPT !.status = "cancelled"],
                record.status \notin Ended, "cancel_task")
    BY <1>3, <1>6 DEF CancelRequest, Saving
  <2> QED
    BY <1>1, <1>2, <1>6, <2>1
<1>7. CASE "cancel" \in Requests /\ Settle
  <2>1. Answers("cancel", StoppedNodes(Loaded), record.status = "cancelled", "done")
    BY <1>3, <1>7 DEF Settle, Saving
  <2> QED
    BY <1>0, <1>7, <2>1
<1>8. CASE "pause" \in Requests /\ PauseRequest
  <2>1. Answers("pause", [Loaded EXCEPT !.status = "paused"], record.status = "running", "done")
    BY <1>3, <1>8 DEF PauseRequest, Saving
  <2> QED
    BY <1>1, <1>2, <1>8, <2>1
<1>9. CASE "resume" \in Requests /\ ResumeRequest
  <2>1. Answers("resume", [Loaded EXCEPT !.status = "running"], TRUE, "restart")
    BY <1>3, <1>9 DEF ResumeRequest, Saving
  <2> QED
    BY <1>1, <1>2, <1>9, <2>1
<1>10. CASE Interrupt
  <2>1. (IF record.status = "cancelled" THEN StoppedNodes(Loaded)
         ELSE [Loaded EXCEPT !.status = "interrupted"]) \in Job
    BY <1>0, <1>1, <1>2
  <2>2. Answers(Converge, IF record.status = "cancelled" THEN StoppedNodes(Loaded)
                          ELSE [Loaded EXCEPT !.status = "interrupted"],
                record.status \notin Ended \ {"cancelled"}, "done")
    BY <1>3, <1>10 DEF Interrupt, Saving
  <2> QED
    BY <2>1, <2>2
<1> QED
  BY <1>5, <1>6, <1>7, <1>8, <1>9, <1>10 DEF Responds

LEMMA RespondersRest ==
  ASSUME StoreInv, LoopInv, Responds
  PROVE  LoopInv'
<1>1. {"done", "cancel_task", "restart"} \subseteq (Location \ Saving) \ {"stop", "check"}
  BY DEF Location, Saving
<1> QED
  BY <1>1, RespondersRespond, RespondRests

\* The steps of the execution loop and of the node tasks.
LEMMA LoopStepRests ==
  ASSUME StoreInv, LoopInv, LoopStep
  PROVE  LoopInv'
<1> USE ClientFacts DEF StoreInv, TypeOK
<1>0. /\ "cancel" # Loop /\ "cancel" # Converge
      /\ "cancel" \in Requests => "cancel" \notin Nodes
  BY DEF Loop, Converge
<1>1. CASE ReadControl
  <2>1. Unused'
    BY <1>1, UnusedKept DEF ReadControl, Goto, Holding
  <2>2. (Stopping /\ Deciding)'
    BY <1>1 DEF ReadControl, Goto, Stopping, Deciding, Continues, Saving
  <2>3. Converging'
    BY <1>0, <1>1, ConvergingKept DEF ReadControl, Goto
  <2> QED
    BY <2>1, <2>2, <2>3 DEF LoopInv
<1>2. CASE Stop
  <2>1. Tasks \subseteq Nodes /\ \A n \in Nodes \ Tasks : pc[n] \in {"collected", "idle"}
    BY DEF Tasks, Unfinished
  <2>2. \A c \in Clients : tx'[c] = IF c \in Tasks THEN NoTx ELSE tx[c]
    BY <1>2 DEF Stop, AbortSaves
  <2>3. \A c \in Clients : pc'[c] = IF c \in Tasks THEN "stopped" ELSE IF c = Loop THEN "stop" ELSE pc[c]
    BY <1>2 DEF Stop
  <2>4. Unused'
    BY <1>2, <2>2, <2>3 DEF Stop, LoopInv, Unused, Holding
  <2>5. Quiet' /\ seen' \in Protected
    BY <1>2, <2>1, <2>3 DEF Stop, Quiet, Resting
  <2>6. Converging'
    <3>1. UNCHANGED pc[Converge] /\ ("cancel" \in Requests => UNCHANGED pc["cancel"])
      BY <1>0, <2>1, <2>3
    <3>2. "cancel" \in Requests => UNCHANGED after["cancel"]
      BY <1>0, <1>2, <2>1 DEF Stop, AbortSaves
    <3> QED
      BY <3>1, <3>2, ConvergingKept
  <2>7. ~Continues("check")'
    BY <2>3 DEF Continues, Saving
  <2> QED
    BY <2>4, <2>5, <2>6, <2>7 DEF LoopInv, Stopping, Deciding
<1>3. CASE Outcome
  <2>1. UNCHANGED <<tx, seen>> /\ pc' = [pc EXCEPT ![Loop] = "queue"] /\ after'[Loop] = "check"
    BY <1>3 DEF Outcome, Save, Goto
  <2>2. ~Holding(Loop) /\ pc[Loop] \in {"collect", "stop", "pass"}
    BY <1>3 DEF Outcome, Holding
  <2>3. Unused'
    BY <2>1, <2>2, UnusedKept DEF Holding
  <2>4. Quiet
    BY <1>3 DEF Outcome, Quiet, Resting, Tasks, Unfinished
  <2>5. Quiet'
    BY <2>1, <2>4 DEF Quiet
  <2>6. ~Continues("stop")'
    BY <2>1 DEF Continues
  <2>7. Converging'
    BY <1>0, <1>3, ConvergingKept DEF Outcome, Save, Goto
  <2> QED
    BY <2>3, <2>5, <2>6, <2>7 DEF LoopInv, Stopping, Deciding
<1>4. CASE EnsureFailed
  BY <1>4, RespondersRest DEF Responds
<1>5. ASSUME NEW n \in Nodes, LaunchNode(n)
      PROVE  LoopInv'
  <2>1. UNCHANGED <<tx, seen>> /\ pc' = [pc EXCEPT ![Loop] = "queue", ![n] = "ready"]
        /\ after'[Loop] = "pass"
    BY <1>5 DEF LaunchNode, Notify
  <2>2. ~Holding(Loop) /\ ~Holding(n)
    BY <1>5 DEF LaunchNode, Holding
  <2>3. Unused'
    BY <2>1, <2>2, UnusedKept DEF Holding
  <2>4. ~Continues("stop")' /\ ~Continues("check")'
    BY <2>1 DEF Continues
  <2>5. Converging'
    BY <1>0, <1>5, ConvergingKept DEF LaunchNode, Notify
  <2> QED
    BY <2>3, <2>4, <2>5 DEF LoopInv, Stopping, Deciding
<1>6. ASSUME NEW n \in Nodes, Collect(n)
      PROVE  LoopInv'
  <2>1. UNCHANGED <<tx, seen>> /\ pc' = [pc EXCEPT ![Loop] = "queue", ![n] = "collected"]
        /\ after'[Loop] = "collect"
    BY <1>6 DEF Collect, Notify
  <2>2. ~Holding(Loop) /\ ~Holding(n)
    BY <1>6 DEF Collect, Holding
  <2>3. Unused'
    BY <2>1, <2>2, UnusedKept DEF Holding
  <2>4. ~Continues("stop")' /\ ~Continues("check")'
    BY <2>1 DEF Continues
  <2>5. Converging'
    BY <1>0, <1>6, ConvergingKept DEF Collect, Notify
  <2> QED
    BY <2>3, <2>4, <2>5 DEF LoopInv, Stopping, Deciding
<1>7. ASSUME NEW n \in Nodes, StopNode(n)
      PROVE  LoopInv'
  <2>1. UNCHANGED <<tx, seen>> /\ pc' = [pc EXCEPT ![Loop] = "queue", ![n] = "collected"]
        /\ after'[Loop] = "stop" /\ pc[Loop] = "stop"
    BY <1>7 DEF StopNode, Notify
  <2>2. Continues("stop") /\ Quiet
    BY <2>1 DEF Continues, LoopInv, Stopping
  <2>3. ~Holding(Loop) /\ ~Holding(n)
    BY <2>1, <2>2 DEF Quiet, Resting, Holding
  <2>4. Unused'
    BY <2>1, <2>3, UnusedKept DEF Holding
  <2>5. ~Continues("check")'
    BY <2>1 DEF Continues
  <2>6. \A m \in Nodes : pc'[m] = pc[m] \/ pc'[m] \in Resting
    BY <2>1 DEF Resting
  <2>7. (Stopping /\ Deciding)'
    BY <2>1, <2>2, <2>5, <2>6, RestKept
  <2>8. Converging'
    BY <1>0, <1>7, ConvergingKept DEF StopNode, Notify
  <2> QED
    BY <2>4, <2>7, <2>8 DEF LoopInv
<1> QED
  BY <1>1, <1>2, <1>3, <1>4, <1>5, <1>6, <1>7 DEF LoopStep

LEMMA NodeStepRests ==
  ASSUME StoreInv, LoopInv, NEW n \in Nodes, NodeRuns(n) \/ NodeFinishes(n)
  PROVE  LoopInv'
<1> USE ClientFacts DEF StoreInv, TypeOK
<1>1. /\ UNCHANGED <<tx, seen>> /\ pc[n] \in {"ready", "attempt", "body"}
      /\ \A d \in Clients \ {n} : pc'[d] = pc[d] /\ after'[d] = after[d]
  BY DEF NodeRuns, NodeFinishes, Save, Goto
<1>2. Unused'
  BY <1>1, UnusedKept DEF Holding
<1>3. (Stopping /\ Deciding)'
  BY <1>1, RestKept DEF Continues, Resting
<1>4. Converging'
  BY <1>1, ConvergingKept
<1> QED
  BY <1>2, <1>3, <1>4 DEF LoopInv

\* The steps of the control requests.
LEMMA RequestStepRests ==
  ASSUME StoreInv, LoopInv, RequestStep
  PROVE  LoopInv'
<1> USE ClientFacts DEF StoreInv, TypeOK
<1>0. "cancel" # Loop /\ "cancel" # Converge /\ "resume" \notin {Loop, Converge, "cancel"}
  BY DEF Loop, Converge
<1>1. CASE Responds
  BY <1>1, RespondersRest
<1>2. ASSUME "cancel" \in Requests, CancelTask
      PROVE  LoopInv'
  <2>1. CASE AbortSaves({Loop})
             /\ pc' = [pc EXCEPT !["cancel"] = "settle", ![Loop] = "done", ![Converge] = "start"]
             /\ note' = NoNote
    <3>1. \A c \in Clients : tx'[c] = IF c = Loop THEN NoTx ELSE tx[c]
      BY <2>1 DEF AbortSaves
    <3>2. pc["cancel"] = "cancel_task" /\ UNCHANGED seen
      BY <1>2 DEF CancelTask
    <3>3. \A n \in Nodes : pc'[n] = pc[n]
      BY <1>2, <2>1
    <3>4. pc'[Loop] = "done" /\ pc'["cancel"] = "settle" /\ pc'[Converge] = "start"
      BY <1>2, <2>1
    <3>5. ~Continues("stop")' /\ ~Continues("check")'
      BY <3>4 DEF Continues, Saving
    <3>6. \A c \in Clients \ {Loop, Converge, "cancel"} : pc'[c] = pc[c]
      BY <2>1
    <3>7. (Stopping /\ Deciding)'
      BY <3>2, <3>3, <3>5, RestKept
    <3>8. pc[Converge] = "idle"
      BY <3>2 DEF LoopInv, Converging, Saving
    <3>9. Unused'
      BY <3>1, <3>2, <3>4, <3>6, <3>8 DEF LoopInv, Unused, Holding
    <3>10. Converging'
      BY <1>2, <3>4 DEF Converging
    <3> QED
      BY <3>7, <3>9, <3>10 DEF LoopInv
  <2>2. CASE Goto("cancel", "done") /\ UNCHANGED <<lock, record, copy, tx, after, note>>
    <3>1. UNCHANGED <<tx, seen, after>> /\ pc' = [pc EXCEPT !["cancel"] = "done"]
          /\ pc["cancel"] = "cancel_task"
      BY <1>2, <2>2 DEF CancelTask, Goto
    <3>2. Unused'
      BY <1>2, <3>1, UnusedKept DEF Holding
    <3>3. (Stopping /\ Deciding)'
      BY <1>0, <1>2, <3>1, RestKept DEF Continues
    <3>4. Converging'
      BY <1>0, <1>2, <3>1 DEF LoopInv, Converging
    <3> QED
      BY <3>2, <3>3, <3>4 DEF LoopInv
  <2> QED
    BY <1>2, <2>1, <2>2 DEF CancelTask
<1>3. ASSUME "resume" \in Requests, Restart
      PROVE  LoopInv'
  <2>1. CASE pc[Loop] = "done" /\ Alive = {}
             /\ pc' = [c \in Clients |->
                        IF c = Loop THEN "collect"
                        ELSE IF c = "resume" THEN "done"
                        ELSE IF c \notin Nodes THEN pc[c]
                        ELSE IF record.nodes[c] \in {"completed"} \cup Protected
                        THEN "collected" ELSE "idle"]
    <3>1. UNCHANGED tx /\ pc["resume"] = "restart"
      BY <1>3 DEF Restart
    <3>2. \A n \in Nodes : ~Holding(n)
      BY <2>1 DEF Alive, Tasks, Unfinished, Holding
    <3>3. \A c \in Clients \ (Nodes \cup {Loop, "resume"}) : pc'[c] = pc[c]
      BY <2>1
    <3>4. Unused'
      BY <1>3, <2>1, <3>1, <3>2, <3>3, UnusedKept DEF Holding
    <3>5. pc'[Loop] = "collect"
      BY <2>1
    <3>6. Converging'
      BY <1>0, <1>3, <3>3, ConvergingKept DEF Restart
    <3> QED
      BY <3>4, <3>5, <3>6 DEF LoopInv, Stopping, Deciding, Continues, Saving
  <2>2. CASE Goto("resume", "done") /\ UNCHANGED <<copy, seen, started>>
    <3>1. UNCHANGED <<tx, seen, after>> /\ pc' = [pc EXCEPT !["resume"] = "done"]
          /\ pc["resume"] = "restart"
      BY <1>3, <2>2 DEF Restart, Goto
    <3>2. Unused'
      BY <1>3, <3>1, UnusedKept DEF Holding
    <3>3. (Stopping /\ Deciding)'
      BY <1>0, <1>3, <3>1, RestKept DEF Continues
    <3>4. Converging'
      BY <1>0, <1>3, <3>1, ConvergingKept
    <3> QED
      BY <3>2, <3>3, <3>4 DEF LoopInv
  <2> QED
    BY <1>3, <2>1, <2>2 DEF Restart
<1> QED
  BY <1>1, <1>2, <1>3 DEF RequestStep, Responds

\* Every step keeps it.
LEMMA StepRests ==
  ASSUME StoreInv, LoopInv, [Next]_vars
  PROVE  LoopInv'
<1>1. CASE UNCHANGED vars
  BY <1>1 DEF vars, LoopInv, Unused, Stopping, Deciding, Holding, Quiet, Continues, Converging
<1>2. CASE Next
  BY <1>2, SaveStepRests, LoopStepRests, NodeStepRests, RequestStepRests DEF Next
<1> QED
  BY <1>1, <1>2

LEMMA InitRests == Init => LoopInv
  BY ClientFacts DEF Init, LoopInv, Unused, Stopping, Deciding, Holding, Continues, Converging, Saving

(* ------------------------------- the locks ----------------------------- *)

LEMMA NobodyIsNone == None \notin Clients
  BY NodesAssumption, RequestsAssumption DEF None, Clients, Loop, Converge

\* A client in a save holds the lock of its store, and whoever holds a lock is
\* in a save: no lock is ever left behind.
LockInv ==
    /\ \A c \in Clients : Holding(c) => lock[StoreOf[c]] = c
    /\ \A s \in Stores : lock[s] # None => Holding(lock[s]) /\ StoreOf[lock[s]] = s

\* The clients that work on the loop's Job object.
Sharers == Nodes \cup {Loop}

\* A step that acquires and releases nothing, and begins and ends no save.
Plain ==
    /\ UNCHANGED <<record, tx, lock>>
    /\ \A c \in Clients :
          /\ \/ pc'[c] = pc[c]
             \/ ~Holding(c) /\ ~Holding(c)' /\ pc'[c] # "conflict"
          /\ after'[c] = after[c] \/ after'[c] # "conflict"

\* A step that cancels the coroutines of S.
Aborting(S) ==
    /\ AbortSaves(S)
    /\ \A c \in S : ~Holding(c)' /\ pc'[c] # "conflict"
    /\ \A c \in Clients \ S :
          \/ pc'[c] = pc[c]
          \/ ~Holding(c) /\ ~Holding(c)' /\ pc'[c] # "conflict"

\* A request, or the loop, that loads the job and saves it or answers at once.
LEMMA RespondIsPlain ==
  ASSUME StoreInv, NEW c \in Clients, NEW job, NEW allowed \in BOOLEAN,
         NEW continue, continue # "conflict", pc[c] \notin Saving,
         Respond(c, job, allowed, continue)
  PROVE  Plain
<1> USE DEF StoreInv, TypeOK
<1>1. UNCHANGED <<record, tx, lock>>
  BY DEF Respond
<1>2. \A d \in Clients \ {c} : pc'[d] = pc[d] /\ after'[d] = after[d]
  BY DEF Respond, Save, Goto
<1>3. /\ pc'[c] \in {"queue", "done"}
      /\ after'[c] = after[c] \/ after'[c] = continue
  BY DEF Respond, Save, Goto
<1> QED
  BY <1>1, <1>2, <1>3 DEF Plain, Holding, Saving

\* The steps of the loop, of the node tasks and of the requests.
LEMMA OtherStepShape ==
  ASSUME StoreInv, LoopInv,
         LoopStep \/ RequestStep \/ \E n \in Nodes : NodeRuns(n) \/ NodeFinishes(n)
  PROVE  Plain \/ \E S \in SUBSET Sharers : Aborting(S)
<1> USE ClientFacts DEF StoreInv
<1>1. CASE Responds
  BY <1>1, RespondersRespond, RespondIsPlain
<1>2. CASE ReadControl
  BY <1>2 DEF Plain, Holding, ReadControl, Goto, TypeOK
<1>3. CASE Outcome
  <2>1. /\ UNCHANGED <<record, tx, lock>> /\ pc' = [pc EXCEPT ![Loop] = "queue"]
        /\ pc[Loop] \in {"collect", "stop", "pass"} /\ after' = [after EXCEPT ![Loop] = "check"]
    BY <1>3 DEF Outcome, Save, Goto
  <2> QED
    BY <2>1 DEF Plain, Holding, TypeOK
<1>4. ASSUME NEW n \in Nodes, LaunchNode(n)
      PROVE  Plain
  BY <1>4 DEF Plain, Holding, LaunchNode, Notify, TypeOK
<1>5. ASSUME NEW n \in Nodes, Collect(n)
      PROVE  Plain
  BY <1>5 DEF Plain, Holding, Collect, Notify, TypeOK
<1>6. ASSUME NEW n \in Nodes, StopNode(n)
      PROVE  Plain
  <2>1. pc[n] \notin {"watch", "read", "execute"}
    BY <1>6 DEF StopNode, LoopInv, Stopping, Continues, Quiet, Resting
  <2> QED
    BY <1>6, <2>1 DEF Plain, Holding, StopNode, Notify, TypeOK
<1>7. ASSUME NEW n \in Nodes, NodeRuns(n) \/ NodeFinishes(n)
      PROVE  Plain
  BY <1>7 DEF Plain, Holding, NodeRuns, NodeFinishes, Save, Goto, TypeOK
<1>8. CASE Stop
  <2>1. Tasks \in SUBSET Sharers /\ Loop \notin Tasks
    BY DEF Tasks, Unfinished, Sharers
  <2>2. AbortSaves(Tasks)
    BY <1>8 DEF Stop
  <2>3. \A c \in Clients : pc'[c] = IF c \in Tasks THEN "stopped" ELSE IF c = Loop THEN "stop" ELSE pc[c]
    BY <1>8 DEF Stop
  <2>4. pc[Loop] = "pass"
    BY <1>8 DEF Stop
  <2>5. Aborting(Tasks)
    BY <2>1, <2>2, <2>3, <2>4 DEF Aborting, Holding, Sharers
  <2> QED
    BY <2>1, <2>5
<1>9. CASE "cancel" \in Requests /\ CancelTask
  <2>1. CASE AbortSaves({Loop})
             /\ pc' = [pc EXCEPT !["cancel"] = "settle", ![Loop] = "done", ![Converge] = "start"]
             /\ note' = NoNote
    <3>1. pc["cancel"] = "cancel_task"
      BY <1>9 DEF CancelTask
    <3>2. pc[Converge] = "idle"
      BY <3>1 DEF LoopInv, Converging, Saving
    <3>3. PICK S \in SUBSET Sharers : S = {Loop}
      BY DEF Sharers
    <3>4. \A c \in Clients : pc'[c] = IF c = "cancel" THEN "settle" ELSE IF c = Loop THEN "done"
                                      ELSE IF c = Converge THEN "start" ELSE pc[c]
      BY <2>1 DEF TypeOK, Loop, Converge
    <3>5. AbortSaves(S)
      BY <2>1, <3>3
    <3>6. Aborting(S)
      BY <1>9, <3>1, <3>2, <3>3, <3>4, <3>5 DEF Aborting, Holding, Loop
    <3> QED
      BY <3>6
  <2>2. CASE Goto("cancel", "done") /\ UNCHANGED <<lock, record, copy, tx, after, note>>
    BY <1>9, <2>2 DEF Plain, Holding, CancelTask, Goto, TypeOK
  <2> QED
    BY <1>9, <2>1, <2>2 DEF CancelTask
<1>10. CASE "resume" \in Requests /\ Restart
  <2>1. UNCHANGED <<record, after, tx, lock>> /\ pc["resume"] = "restart"
    BY <1>10 DEF Restart
  <2>2. CASE pc[Loop] = "done" /\ Alive = {}
             /\ pc' = [c \in Clients |->
                        IF c = Loop THEN "collect"
                        ELSE IF c = "resume" THEN "done"
                        ELSE IF c \notin Nodes THEN pc[c]
                        ELSE IF record.nodes[c] \in {"completed"} \cup Protected
                        THEN "collected" ELSE "idle"]
    <3>1. \A n \in Nodes : ~Holding(n)
      BY <2>2 DEF Alive, Tasks, Unfinished, Holding
    <3>2. \A c \in Clients : \/ pc'[c] = pc[c]
                             \/ ~Holding(c) /\ pc'[c] \in {"collect", "done", "collected", "idle"}
      BY <2>1, <2>2, <3>1 DEF Holding
    <3> QED
      BY <2>1, <3>2 DEF Plain, Holding
  <2>3. CASE Goto("resume", "done")
    BY <1>10, <2>1, <2>3 DEF Plain, Holding, Goto, TypeOK
  <2> QED
    BY <1>10, <2>2, <2>3 DEF Restart
<1> QED
  BY <1>1, <1>2, <1>3, <1>4, <1>5, <1>6, <1>7, <1>8, <1>9, <1>10 DEF LoopStep, RequestStep, Responds

\* The steps of a save acquire a free lock, keep it, or release it.
LEMMA SaveStepLocks ==
  ASSUME StoreInv, LockInv, NEW c \in Clients, Acquire(c) \/ SaveStep(c)
  PROVE  LockInv'
<1> USE ClientFacts, NobodyIsNone DEF StoreInv, TypeOK
<1>1. \A d \in Clients \ {c} : pc'[d] = pc[d]
  BY DEF Acquire, SaveStep, Watch, ReadConflict, ReadMatch, Execute, ExecuteFails, GiveUp,
         EndSave, Goto
<1>2. CASE Acquire(c)
  <2>1. lock' = [lock EXCEPT ![StoreOf[c]] = c] /\ lock[StoreOf[c]] = None
        /\ Holding(c)' /\ ~Holding(c)
    BY <1>2 DEF Acquire, Goto, Holding
  <2> QED
    BY <1>1, <2>1 DEF LockInv, Holding
<1>3. CASE Watch(c) \/ ReadConflict(c) \/ ReadMatch(c) \/ ExecuteFails(c)
  <2>1. UNCHANGED lock /\ Holding(c) /\ Holding(c)'
    BY <1>3 DEF Watch, ReadConflict, ReadMatch, ExecuteFails, Goto, Holding
  <2> QED
    BY <1>1, <2>1 DEF LockInv, Holding
<1>4. CASE Execute(c) \/ GiveUp(c)
  <2>1. lock' = [lock EXCEPT ![StoreOf[c]] = None] /\ Holding(c)
        /\ pc'[c] \in {after[c], "conflict"}
    BY <1>4 DEF Execute, GiveUp, EndSave, Goto, Holding
  <2>2. ~Holding(c)'
    BY <2>1 DEF Holding, SavesContinue, Saving
  <2>3. \A d \in Clients \ {c} : Holding(d)' <=> Holding(d)
    BY <1>1 DEF Holding
  <2>4. lock[StoreOf[c]] = c
    BY <2>1 DEF LockInv
  <2>5. lock'[StoreOf[c]] = None /\ \A s \in Stores \ {StoreOf[c]} : lock'[s] = lock[s]
    BY <2>1
  <2>6. \A d \in Clients : Holding(d)' => lock'[StoreOf[d]] = d
    BY <2>2, <2>3, <2>4, <2>5 DEF LockInv
  <2>7. \A s \in Stores :
          lock'[s] # None => pc'[lock'[s]] \in {"watch", "read", "execute"} /\ StoreOf[lock'[s]] = s
    <3> SUFFICES ASSUME NEW s \in Stores, lock'[s] # None
                 PROVE  pc'[lock'[s]] \in {"watch", "read", "execute"} /\ StoreOf[lock'[s]] = s
      OBVIOUS
    <3>1. s # StoreOf[c] /\ lock'[s] = lock[s] /\ lock[s] \in Clients
      BY <2>5
    <3>2. Holding(lock[s]) /\ StoreOf[lock[s]] = s
      BY <3>1 DEF LockInv
    <3>3. pc'[lock[s]] = pc[lock[s]]
      BY <1>1, <3>1, <3>2
    <3> QED
      BY <3>1, <3>2, <3>3 DEF Holding
  <2> QED
    BY <2>6, <2>7 DEF LockInv, Holding
<1> QED
  BY <1>2, <1>3, <1>4 DEF SaveStep

\* A coroutine that is cancelled leaves the lock.
LEMMA AbortLocks ==
  ASSUME StoreInv, LockInv, NEW S \in SUBSET Clients, Aborting(S)
  PROVE  LockInv'
<1> USE ClientFacts, NobodyIsNone DEF StoreInv, TypeOK
<1>1. \A s \in Stores : lock'[s] = IF lock[s] \in S THEN None ELSE lock[s]
  BY DEF Aborting, AbortSaves, Released
<1>2. /\ \A c \in S : ~Holding(c)'
      /\ \A c \in Clients \ S : Holding(c)' <=> Holding(c)
  BY DEF Aborting, Holding
<1>3. \A c \in Clients : Holding(c)' => lock'[StoreOf[c]] = c
  BY <1>1, <1>2 DEF LockInv
<1>4. \A s \in Stores :
        lock'[s] # None => pc'[lock'[s]] \in {"watch", "read", "execute"} /\ StoreOf[lock'[s]] = s
  <2> SUFFICES ASSUME NEW s \in Stores, lock'[s] # None
               PROVE  pc'[lock'[s]] \in {"watch", "read", "execute"} /\ StoreOf[lock'[s]] = s
    OBVIOUS
  <2>1. lock'[s] = lock[s] /\ lock[s] \in Clients \ S
    BY <1>1
  <2>2. Holding(lock[s]) /\ StoreOf[lock[s]] = s
    BY <2>1 DEF LockInv
  <2>3. PICK d \in Clients \ S : d = lock[s]
    BY <2>1
  <2>4. Holding(d)'
    BY <1>2, <2>2, <2>3
  <2> QED
    BY <2>1, <2>2, <2>3, <2>4 DEF Holding
<1> QED
  BY <1>3, <1>4 DEF LockInv, Holding

LEMMA StepLocks ==
  ASSUME StoreInv, LoopInv, LockInv, [Next]_vars
  PROVE  LockInv'
<1>1. CASE UNCHANGED vars
  BY <1>1 DEF vars, LockInv, Holding
<1>2. CASE Next
  <2>1. CASE \E c \in Clients : Acquire(c) \/ SaveStep(c)
    BY <2>1, SaveStepLocks
  <2>2. CASE Plain
    <3>1. \A c \in Clients : Holding(c)' <=> Holding(c)
      BY <2>2 DEF Plain, Holding
    <3>2. UNCHANGED lock /\ \A s \in Stores : lock[s] # None => lock[s] \in Clients
      BY <2>2 DEF Plain, StoreInv, TypeOK
    <3> QED
      BY <3>1, <3>2 DEF LockInv, Holding
  <2>3. CASE \E S \in SUBSET Sharers : Aborting(S)
    <3>1. Sharers \subseteq Clients
      BY ClientFacts DEF Sharers
    <3> QED
      BY <2>3, <3>1, AbortLocks
  <2> QED
    BY <1>2, <2>1, <2>2, <2>3, OtherStepShape DEF Next
<1> QED
  BY <1>1, <1>2

LEMMA InitLocks == Init => LockInv
  BY ClientFacts DEF Init, LockInv, Holding

\* Two saves never use one store instance at the same time, and a lock is held
\* only by a client that is in its save.
LocksAreKept ==
    /\ \A c, d \in Clients : Holding(c) /\ Holding(d) /\ StoreOf[c] = StoreOf[d] => c = d
    /\ \A s \in Stores : lock[s] # None => Holding(lock[s])

\* The locks are kept and left, whoever is cancelled wherever in save_job, in
\* any number of processes and with any requests.
THEOREM LocksHold == Spec => []LocksAreKept
<1> DEFINE Inv == StoreInv /\ LoopInv /\ LockInv
<1>1. Init => Inv
  BY InitKeeps, InitRests, InitLocks
<1>2. Inv /\ [Next]_vars => Inv'
  BY StepKeeps, StepRests, StepLocks
<1>3. Inv => LocksAreKept
  BY DEF LockInv, LocksAreKept
<1> QED
  BY <1>1, <1>2, <1>3, PTL DEF Spec

(* ----------------------- one process, no refusals ---------------------- *)

\* All clients save through one store instance.
OneStore == \A c, d \in Clients : StoreOf[c] = StoreOf[d]

\* What a client in a save finds when no other process writes: a record that
\* stays where it is, and so at most one merge.
Saver(c) ==
    /\ pc[c] \in {"read", "execute"} => tx[c].watched = record.revision
    /\ tx[c].tries = IF tx[c].merged THEN 1 ELSE 0
    /\ pc[c] \in {"watch", "read"} /\ tx[c].merged => tx[c].job.revision = record.revision
    /\ pc[c] # "conflict" /\ after[c] # "conflict"
OneSaver == \A c \in Clients : Saver(c)

\* Two clients are never in a save.
LEMMA HoldersAreOne ==
  ASSUME OneStore, LockInv, NEW c \in Clients, NEW d \in Clients, Holding(c), Holding(d)
  PROVE  c = d
  BY DEF OneStore, LockInv

LEMMA SaversKept ==
  ASSUME OneSaver, LoopInv, Plain
  PROVE  OneSaver'
<1>1. \A c \in Clients : ~Holding(c) => tx[c].merged = FALSE /\ tx[c].tries = 0
  BY DEF LoopInv, Unused, NoTx
<1> QED
  BY <1>1 DEF OneSaver, Saver, Holding, Plain

\* The clients of S are cancelled in their saves.
LEMMA SaversAborted ==
  ASSUME OneStore, OneSaver, LoopInv, LockInv, StoreInv, NEW S \in SUBSET Clients, Aborting(S)
  PROVE  OneSaver'
<1> USE ClientFacts DEF Aborting
<1>1. \A c \in Clients : tx'[c] = (IF c \in S THEN NoTx ELSE tx[c])
                         /\ after'[c] = (IF c \in S THEN None ELSE after[c])
  BY DEF AbortSaves
<1>3. \A c \in Clients : ~Holding(c) => tx[c].merged = FALSE /\ tx[c].tries = 0
  BY DEF LoopInv, Unused, NoTx
<1>4. NoTx.merged = FALSE /\ NoTx.tries = 0
  BY DEF NoTx
<1>5. \A c \in S : Saver(c)'
  BY <1>1, <1>4 DEF Saver, Holding, None
<1>6. ASSUME NEW c \in Clients \ S
      PROVE  Saver(c)'
  <2>0. Saver(c)
    BY DEF OneSaver
  <2>1. CASE Holding(c)
    <3>2. \A d \in S : ~Holding(d)
      BY <1>6, <2>1, HoldersAreOne
    <3>3. UNCHANGED record
      BY <3>2 DEF AbortSaves, Landed, Holding
    <3>5. tx'[c] = tx[c] /\ after'[c] = after[c] /\ pc'[c] = pc[c]
      BY <1>1, <2>1 DEF Holding
    <3> QED
      BY <2>0, <3>3, <3>5 DEF Saver, Holding
  <2>2. CASE ~Holding(c)
    <3>1. tx'[c] = tx[c] /\ after'[c] = after[c] /\ tx[c].merged = FALSE /\ tx[c].tries = 0
      BY <1>1, <1>3, <2>2
    <3>2. ~Holding(c)' /\ pc'[c] # "conflict"
      BY <2>0, <2>2 DEF Saver, Holding
    <3> QED
      BY <2>0, <3>1, <3>2 DEF Saver, Holding
  <2> QED
    BY <2>1, <2>2
<1> QED
  BY <1>5, <1>6 DEF OneSaver

\* The steps of a save.
LEMMA SaveStepSaves ==
  ASSUME OneStore, OneSaver, LoopInv, LockInv, StoreInv, NEW c \in Clients, Acquire(c) \/ SaveStep(c)
  PROVE  OneSaver'
<1> USE ClientFacts, NobodyIsNone DEF StoreInv, TypeOK
<1>0. Saver(c) /\ \A d \in Clients : Saver(d)
  BY DEF OneSaver
<1>1. /\ \A d \in Clients \ {c} : pc'[d] = pc[d] /\ after'[d] = after[d] /\ tx'[d] = tx[d]
  BY DEF Acquire, SaveStep, Watch, ReadConflict, ReadMatch, Execute, ExecuteFails, GiveUp,
         EndSave, Goto
<1>2. \A d \in Clients \ {c} : ~Holding(d)
  <2>1. CASE Acquire(c)
    BY <2>1, NobodyIsNone DEF Acquire, LockInv, OneStore
  <2>2. CASE SaveStep(c)
    <3>1. Holding(c)
      BY <2>2 DEF SaveStep, Watch, ReadConflict, ReadMatch, Execute, ExecuteFails, GiveUp, Holding
    <3> QED
      BY <3>1, HoldersAreOne
  <2> QED
    BY <2>1, <2>2
<1>3. \A d \in Clients : ~Holding(d) => tx[d].merged = FALSE /\ tx[d].tries = 0
  BY DEF LoopInv, Unused, NoTx
<1>4. \A d \in Clients \ {c} : Saver(d)'
  BY <1>0, <1>1, <1>2, <1>3 DEF Saver, Holding
<1>5. CASE Acquire(c)
  <2>1. tx'[c] = tx[c] /\ tx[c].merged = FALSE /\ tx[c].tries = 0 /\ after'[c] = after[c]
    BY <1>3, <1>5 DEF Acquire, Holding
  <2>2. pc'[c] = "watch" /\ UNCHANGED record
    BY <1>5 DEF Acquire, Goto
  <2> QED
    BY <1>0, <1>4, <2>1, <2>2 DEF OneSaver, Saver
<1>6. CASE Watch(c)
  <2>1. /\ pc'[c] = "read" /\ UNCHANGED <<record, lock, after>> /\ pc[c] = "watch"
        /\ tx'[c] = [tx[c] EXCEPT !.watched = record.revision]
    BY <1>6 DEF Watch, Goto
  <2>2. /\ tx'[c].watched = record.revision /\ tx'[c].tries = tx[c].tries
        /\ tx'[c].merged = tx[c].merged /\ tx'[c].job = tx[c].job
    BY <2>1 DEF Tx
  <2>3. Saver(c)'
    BY <1>0, <2>1, <2>2 DEF Saver, Holding
  <2> QED
    BY <1>4, <2>3 DEF OneSaver
<1>7. CASE ReadConflict(c)
  <2>1. /\ pc'[c] = "watch" /\ UNCHANGED <<record, lock, after>> /\ pc[c] = "read"
        /\ Candidate(c).revision # record.revision
        /\ tx'[c] = [tx[c] EXCEPT !.job = Merge(record, Candidate(c)), !.merged = TRUE, !.tries = @ + 1]
    BY <1>7 DEF ReadConflict, Goto
  <2>2. tx[c].merged = FALSE /\ tx[c].tries = 0
    BY <1>0, <2>1 DEF Saver, Candidate, Tx
  <2>3. Merge(record, Candidate(c)).revision = record.revision
    BY MergeType, CandidateType
  <2>4. /\ tx'[c].job.revision = record.revision /\ tx'[c].merged = TRUE /\ tx'[c].tries = 1
    BY <2>1, <2>2, <2>3 DEF Tx
  <2>5. Saver(c)'
    BY <1>0, <2>1, <2>4 DEF Saver, Holding
  <2> QED
    BY <1>4, <2>5 DEF OneSaver
<1>8. CASE ReadMatch(c)
  <2>1. /\ pc'[c] = "execute" /\ UNCHANGED <<record, lock, after>> /\ pc[c] = "read"
        /\ tx'[c] = [tx[c] EXCEPT !.job = [Candidate(c) EXCEPT !.revision = @ + 1]]
    BY <1>8 DEF ReadMatch, Goto
  <2>2. /\ tx'[c].watched = tx[c].watched /\ tx'[c].merged = tx[c].merged /\ tx'[c].tries = tx[c].tries
    BY <2>1 DEF Tx
  <2>3. Saver(c)'
    BY <1>0, <2>1, <2>2 DEF Saver, Holding
  <2> QED
    BY <1>4, <2>3 DEF OneSaver
<1>9. CASE Execute(c)
  <2>1. tx'[c] = NoTx /\ pc'[c] = after[c] /\ after'[c] = None
    BY <1>9 DEF Execute, EndSave, Goto
  <2>2. after[c] \notin Saving
    BY <1>9 DEF Execute, SavesContinue, Saving
  <2>3. Saver(c)'
    BY <1>0, <2>1, <2>2 DEF Saver, Holding, Saving, NoTx, None
  <2> QED
    BY <1>4, <2>3 DEF OneSaver
<1>10. CASE ExecuteFails(c)
  BY <1>0, <1>10 DEF ExecuteFails, Saver
<1>11. CASE GiveUp(c)
  BY <1>0, <1>11 DEF GiveUp, Saver, Tries
<1> QED
  BY <1>5, <1>6, <1>7, <1>8, <1>9, <1>10, <1>11 DEF SaveStep

\* The steps of the loop, of the node tasks and of the requests.
LEMMA OtherStepSaves ==
  ASSUME OneStore, OneSaver, LoopInv, LockInv, StoreInv,
         LoopStep \/ RequestStep \/ \E n \in Nodes : NodeRuns(n) \/ NodeFinishes(n)
  PROVE  OneSaver'
<1>1. Sharers \subseteq Clients
  BY ClientFacts DEF Sharers
<1> QED
  BY <1>1, OtherStepShape, SaversKept, SaversAborted

LEMMA InitSaves == Init => OneSaver
  BY ClientFacts DEF Init, OneSaver, Saver, Holding, NoTx, None

\* Through one store instance no save is ever refused, whatever is requested:
\* the lock leaves a save alone with the record, so that it merges at most once.
THEOREM SavesGoThrough ==
  ASSUME OneStore
  PROVE  Spec => []SavesAreAccepted
<1> DEFINE Inv == StoreInv /\ LoopInv /\ LockInv /\ OneSaver
<1>1. Init => Inv
  <2>1. Init => StoreInv
    BY InitKeeps
  <2> QED
    BY <2>1, InitRests, InitLocks, InitSaves
<1>2. Inv /\ [Next]_vars => Inv'
  <2> SUFFICES ASSUME Inv, [Next]_vars PROVE Inv'
    OBVIOUS
  <2>1. StoreInv' /\ LoopInv' /\ LockInv'
    BY StepKeeps, StepRests, StepLocks
  <2>2. CASE UNCHANGED vars
    BY <2>1, <2>2 DEF vars, OneSaver, Saver, Holding
  <2>3. CASE Next
    BY <2>1, <2>3, SaveStepSaves, OtherStepSaves DEF Next
  <2> QED
    BY <2>2, <2>3
<1>3. Inv => SavesAreAccepted
  BY DEF OneSaver, Saver, SavesAreAccepted
<1> QED
  BY <1>1, <1>2, <1>3, PTL DEF Spec

(* ------------------ without a resume, no job is failed ----------------- *)

\* A save of c is about to write the job in its locals.
Writes(c) == tx[c].merged \/ pc[c] = "execute"

\* Everybody else only ever saves a control status.
OthersControl == \A c \in Clients \ Sharers :
    /\ pc[c] \in Saving => copy[c].status \in ControlStatus
    /\ Writes(c) => tx[c].job.status \in ControlStatus

NoneFailed ==
    /\ record.status # "failed"
    /\ \A h \in Holders : copy[h].status # "failed"
    /\ \A c \in Clients : tx[c].job.status # "failed"

\* Once the loop has saved the outcome of the run, the record is not running.
Converged ==
    /\ pc[Loop] = "check" => record.status # "running"
    /\ pc[Loop] \in Saving /\ after[Loop] = "check" =>
            /\ copy[Loop].status # "running"
            /\ Writes(Loop) => tx[Loop].job.status # "running"

OutcomeInv == OthersControl /\ NoneFailed /\ Converged

LEMMA MergeStatus ==
  ASSUME NEW current \in Job, NEW incoming \in Job
  PROVE  Merge(current, incoming).status =
            IF current.status \in ControlStatus /\ incoming.status \notin ControlStatus
            THEN current.status ELSE incoming.status
<1>1. /\ "status" \in DOMAIN incoming /\ "nodes" \in DOMAIN incoming /\ "revision" \in DOMAIN incoming
      /\ incoming = [f \in DOMAIN incoming |-> incoming[f]]
  BY DEF Job
<1> QED
  BY <1>1 DEF Merge

\* Only the loop and the nodes touch the loop's object, everybody else has one
\* of its own.
LEMMA OwnObjects ==
  /\ Holder(Loop) = Loop /\ \A n \in Nodes : Holder(n) = Loop
  /\ \A c \in Clients \ Sharers : Holder(c) = c /\ c # Loop /\ c \notin Nodes /\ c \in Holders
  /\ \A c \in Clients \ Sharers, d \in Clients : d # c => Holder(d) # c
  BY ClientFacts DEF Holder, Sharers, Clients, Holders

LEMMA ControlIsNoRun ==
  "running" \notin ControlStatus /\ "failed" \notin ControlStatus /\ Protected \subseteq ControlStatus
  BY DEF ControlStatus, Protected

\* A step that changes no status and lets nobody reach a transaction or the
\* check.
LEMMA OutcomeKept ==
  ASSUME OutcomeInv, UNCHANGED <<record, tx>>,
         \A h \in Holders : copy'[h].status = copy[h].status,
         \A c \in Clients \ Sharers : /\ pc'[c] \in Saving => pc[c] \in Saving
                                      /\ pc'[c] = "execute" => pc[c] = "execute",
         pc'[Loop] = "check" => pc[Loop] = "check",
         pc'[Loop] \in Saving /\ after'[Loop] = "check" =>
            /\ pc[Loop] \in Saving /\ after[Loop] = "check"
            /\ pc'[Loop] = "execute" => pc[Loop] = "execute"
  PROVE  OutcomeInv'
<1>1. OthersControl'
  BY OwnObjects DEF OutcomeInv, OthersControl, Writes
<1>2. NoneFailed'
  BY DEF OutcomeInv, NoneFailed
<1>3. Converged'
  BY ClientFacts DEF OutcomeInv, Converged, Writes
<1> QED
  BY <1>1, <1>2, <1>3 DEF OutcomeInv

\* What the candidate of a save can be.
LEMMA CandidateOutcome ==
  ASSUME StoreInv, OutcomeInv, NEW c \in Clients, pc[c] = "read"
  PROVE  /\ Candidate(c).status # "failed"
         /\ c \notin Sharers => Candidate(c).status \in ControlStatus
         /\ c = Loop /\ after[Loop] = "check" => Candidate(c).status # "running"
  BY ClientFacts, OwnObjects
     DEF OutcomeInv, NoneFailed, OthersControl, Converged, Candidate, Writes, Saving

\* The steps of a save.
LEMMA SaveStepDecides ==
  ASSUME StoreInv, LoopInv, OutcomeInv, NEW c \in Clients, Acquire(c) \/ SaveStep(c)
  PROVE  OutcomeInv'
<1> USE ClientFacts DEF StoreInv, TypeOK
<1>0. /\ \A d \in Clients \ {c} : pc'[d] = pc[d] /\ after'[d] = after[d] /\ tx'[d] = tx[d]
      /\ pc[c] \in Saving /\ (pc[c] = "execute" => Writes(c))
  BY DEF Acquire, SaveStep, Watch, ReadConflict, ReadMatch, Execute, ExecuteFails, GiveUp,
         EndSave, Goto, Saving, Writes
<1>1. CASE Acquire(c)
  <2>1. UNCHANGED <<record, tx, copy, after>> /\ pc'[c] = "watch"
    BY <1>1 DEF Acquire, Goto
  <2> QED
    BY <1>0, <2>1, OutcomeKept DEF Saving
<1>2. CASE Watch(c) \/ ExecuteFails(c) \/ GiveUp(c)
  <2>1. /\ UNCHANGED <<record, copy>> /\ pc'[c] \in {"read", "watch", "conflict"}
        /\ pc'[c] # "conflict" => after'[c] = after[c]
    BY <1>2 DEF Watch, ExecuteFails, GiveUp, EndSave, Goto
  <2>2. \/ tx'[c].job = tx[c].job /\ tx'[c].merged = tx[c].merged
        \/ tx'[c] = NoTx
    BY <1>2 DEF Watch, ExecuteFails, GiveUp, EndSave, Tx
  <2>3. NoTx.merged = FALSE /\ NoTx.job.status = "running"
    BY DEF NoTx, NewJob
  <2>4. OthersControl'
    BY <1>0, <2>1, <2>2, <2>3 DEF OutcomeInv, OthersControl, Writes
  <2>5. NoneFailed'
    BY <1>0, <2>1, <2>2, <2>3 DEF OutcomeInv, NoneFailed
  <2>6. Converged'
    BY <1>0, <2>1, <2>2, <2>3 DEF OutcomeInv, Converged, Writes, Saving
  <2> QED
    BY <2>4, <2>5, <2>6 DEF OutcomeInv
<1>3. CASE ReadConflict(c)
  <2> DEFINE m == Merge(record, Candidate(c))
  <2>1. /\ UNCHANGED <<record, copy, after>> /\ pc'[c] = "watch" /\ pc[c] = "read"
        /\ tx'[c] = [tx[c] EXCEPT !.job = m, !.merged = TRUE, !.tries = @ + 1]
    BY <1>3 DEF ReadConflict, Goto
  <2>2. tx'[c].job = m
    BY <2>1 DEF Tx
  <2>3. Candidate(c) \in Job
    BY CandidateType
  <2>4. m.status = IF record.status \in ControlStatus /\ Candidate(c).status \notin ControlStatus
                   THEN record.status ELSE Candidate(c).status
    BY <2>3, MergeStatus
  <2> HIDE DEF m
  <2>5. /\ m.status # "failed"
        /\ c \notin Sharers => m.status \in ControlStatus
        /\ c = Loop /\ after[Loop] = "check" => m.status # "running"
    BY <2>1, <2>4, CandidateOutcome, ControlIsNoRun DEF OutcomeInv, NoneFailed
  <2>6. OthersControl'
    BY <1>0, <2>1, <2>2, <2>5 DEF OutcomeInv, OthersControl, Writes
  <2>7. NoneFailed'
    BY <1>0, <2>1, <2>2, <2>5 DEF OutcomeInv, NoneFailed
  <2>8. Converged'
    BY <1>0, <2>1, <2>2, <2>5 DEF OutcomeInv, Converged, Writes, Saving
  <2> QED
    BY <2>6, <2>7, <2>8 DEF OutcomeInv
<1>4. CASE ReadMatch(c)
  <2> DEFINE m == [Candidate(c) EXCEPT !.revision = @ + 1]
  <2>1. /\ UNCHANGED <<record, after>> /\ pc'[c] = "execute" /\ pc[c] = "read"
        /\ tx'[c] = [tx[c] EXCEPT !.job = m]
        /\ copy' = IF tx[c].merged THEN copy ELSE [copy EXCEPT ![Holder(c)].revision = @ + 1]
    BY <1>4 DEF ReadMatch, Goto
  <2>2. tx'[c].job = m
    BY <2>1 DEF Tx
  <2>3. m.status = Candidate(c).status
    BY CandidateType DEF Job
  <2>4. \A h \in Holders : copy'[h].status = copy[h].status
    BY <2>1 DEF Job
  <2> HIDE DEF m
  <2>5. /\ m.status # "failed"
        /\ c \notin Sharers => m.status \in ControlStatus
        /\ c = Loop /\ after[Loop] = "check" => m.status # "running"
    BY <2>1, <2>3, CandidateOutcome
  <2>6. OthersControl'
    BY <1>0, <2>1, <2>2, <2>4, <2>5, OwnObjects DEF OutcomeInv, OthersControl, Writes, Saving
  <2>7. NoneFailed'
    BY <1>0, <2>1, <2>2, <2>4, <2>5 DEF OutcomeInv, NoneFailed
  <2>8. Converged'
    BY <1>0, <2>1, <2>2, <2>4, <2>5 DEF OutcomeInv, Converged, Writes, Saving
  <2> QED
    BY <2>6, <2>7, <2>8 DEF OutcomeInv
<1>5. CASE Execute(c)
  <2>1. /\ record' = tx[c].job /\ pc'[c] = after[c] /\ tx'[c] = NoTx /\ pc[c] = "execute"
        /\ copy' = [copy EXCEPT ![Holder(c)] =
                      [(IF tx[c].merged THEN tx[c].job ELSE @) EXCEPT !.base = record'.revision]]
    BY <1>5 DEF Execute, EndSave, Goto
  <2>2. after[c] \notin Saving
    BY <2>1 DEF SavesContinue, Saving
  <2>3. NoTx.merged = FALSE /\ NoTx.job.status = "running"
    BY DEF NoTx, NewJob
  <2>4. \A h \in Holders \ {Holder(c)} : copy'[h] = copy[h]
    BY <2>1
  <2>5. copy'[Holder(c)].status \in {tx[c].job.status, copy[Holder(c)].status}
    <3>1. \A job \in Job : \A b : [job EXCEPT !.base = b].status = job.status
      BY DEF Job
    <3>2. copy[Holder(c)] \in Job /\ tx[c].job \in Job
      BY DEF Tx
    <3>3. copy'[Holder(c)] = [(IF tx[c].merged THEN tx[c].job ELSE copy[Holder(c)]) EXCEPT !.base = record'.revision]
      BY <2>1
    <3> QED
      BY <3>1, <3>2, <3>3
  <2>6. tx[c].job.status # "failed" /\ (c \notin Sharers => tx[c].job.status \in ControlStatus)
    BY <1>0, <2>1 DEF OutcomeInv, NoneFailed, OthersControl
  <2>7. OthersControl'
    BY <1>0, <2>1, <2>2, <2>3, <2>4, OwnObjects DEF OutcomeInv, OthersControl, Writes, Saving
  <2>8. NoneFailed'
    BY <1>0, <2>1, <2>3, <2>4, <2>5, <2>6 DEF OutcomeInv, NoneFailed
  <2>9. Converged'
    <3>1. CASE c = Loop
      <4>1. after[Loop] = "check" => tx[Loop].job.status # "running"
        BY <1>0, <2>1, <3>1 DEF OutcomeInv, Converged
      <4> QED
        BY <2>1, <2>2, <3>1, <4>1 DEF Converged
    <3>2. CASE c # Loop /\ Continues("check")
      <4>1. Quiet
        BY <3>2 DEF LoopInv, Deciding
      <4>2. c \notin Sharers
        BY <2>1, <3>2, <4>1 DEF Quiet, Resting, Sharers
      <4>3. copy'[Loop] = copy[Loop] /\ record'.status # "running"
        BY <2>1, <2>4, <2>6, <4>2, OwnObjects, ControlIsNoRun
      <4> QED
        BY <1>0, <3>2, <4>3 DEF OutcomeInv, Converged, Writes
    <3>3. CASE c # Loop /\ ~Continues("check")
      BY <1>0, <3>3 DEF Converged, Continues
    <3> QED
      BY <3>1, <3>2, <3>3
  <2> QED
    BY <2>7, <2>8, <2>9 DEF OutcomeInv
<1> QED
  BY <1>1, <1>2, <1>3, <1>4, <1>5 DEF SaveStep

\* Coroutines of the loop's process are cancelled.
LEMMA AbortDecides ==
  ASSUME StoreInv, OutcomeInv, NEW S \in SUBSET Sharers, AbortSaves(S),
         \A c \in Clients \ Sharers : pc'[c] = pc[c] \/ pc'[c] \notin Saving,
         pc'[Loop] \in {"stop", "done"}
  PROVE  OutcomeInv'
<1> USE ClientFacts DEF StoreInv, TypeOK
<1>1. Sharers \subseteq Clients
  BY DEF Sharers
<1>2. \A c \in Clients : tx'[c] = IF c \in S THEN NoTx ELSE tx[c]
  BY DEF AbortSaves
<1>3. NoTx.merged = FALSE /\ NoTx.job.status = "running"
  BY DEF NoTx, NewJob
<1>4. record'.status # "failed" /\ \A h \in Holders : copy'[h].status = copy[h].status
  <2>1. CASE UNCHANGED <<record, copy>>
    BY <2>1 DEF OutcomeInv, NoneFailed
  <2>2. ASSUME NEW c \in S, Landed(c)
        PROVE  record'.status # "failed" /\ \A h \in Holders : copy'[h].status = copy[h].status
    <3>1. record' = tx[c].job
      BY <2>2 DEF Landed
    <3>2. tx[c].job.status # "failed"
      BY <1>1 DEF OutcomeInv, NoneFailed
    <3>3. \A h \in Holders : copy'[h].status = copy[h].status
      BY <1>1, <2>2 DEF Landed, Job
    <3> QED
      BY <3>1, <3>2, <3>3
  <2> QED
    BY <2>1, <2>2 DEF AbortSaves
<1>5. OthersControl'
  BY <1>2, <1>4, OwnObjects DEF OutcomeInv, OthersControl, Writes, Saving
<1>6. NoneFailed'
  BY <1>2, <1>3, <1>4 DEF OutcomeInv, NoneFailed
<1>7. Converged'
  BY DEF Converged, Saving
<1> QED
  BY <1>5, <1>6, <1>7 DEF OutcomeInv

\* The requests that save anything save a control status; the check finds no
\* running job.
LEMMA RespondersControl ==
  ASSUME StoreInv, OutcomeInv, "resume" \notin Requests, Responds
  PROVE  \E c \in Clients \ Nodes, job \in Job, allowed \in BOOLEAN,
            continue \in {"done", "cancel_task"} :
            /\ pc[c] \notin Saving
            /\ Respond(c, job, allowed, continue)
            /\ allowed => c \notin Sharers /\ job.status \in ControlStatus
<1> USE ClientFacts DEF StoreInv
<1>0. Loaded \in Job /\ StoppedNodes(Loaded) \in Job
      /\ Loaded.status = record.status /\ StoppedNodes(Loaded).status = record.status
  <2>1. record = [f \in DOMAIN record |-> record[f]] /\ {"status", "base"} \subseteq DOMAIN record
    BY DEF TypeOK, Job
  <2>2. Loaded.status = record.status
    BY <2>1 DEF Loaded
  <2>3. Loaded = [f \in DOMAIN Loaded |-> Loaded[f]] /\ "status" \in DOMAIN Loaded
    BY LoadedType DEF Job
  <2> QED
    BY <2>2, <2>3, LoadedType, StoppedType DEF StoppedNodes
<1>1. \A job \in Job, status \in JobStatus :
         [job EXCEPT !.status = status] \in Job /\ [job EXCEPT !.status = status].status = status
  BY DEF Job
<1>2. {"running", "paused", "failed", "cancelled", "interrupted"} \subseteq JobStatus
      /\ {"cancelled", "interrupted", "paused"} = ControlStatus
  BY DEF JobStatus, ControlStatus
<1>3. {"cancel", "pause", Converge} \cap {Loop} = {}
  BY DEF Loop, Converge
<1> DEFINE Answers(c, job, allowed, continue) ==
               /\ pc[c] \notin Saving
               /\ Respond(c, job, allowed, continue)
               /\ allowed => c \notin Sharers /\ job.status \in ControlStatus
<1>5. CASE EnsureFailed
  <2>1. record.status # "running"
    BY <1>5 DEF EnsureFailed, OutcomeInv, Converged
  <2>2. Answers(Loop, [Loaded EXCEPT !.status = "failed"], record.status = "running", "done")
    BY <1>5, <2>1 DEF EnsureFailed, Saving
  <2> QED
    BY <1>0, <1>1, <1>2, <2>2
<1>6. CASE "cancel" \in Requests /\ CancelRequest
  <2>1. Answers("cancel", [StoppedNodes(Loaded) EXCEPT !.status = "cancelled"],
                record.status \notin Ended, "cancel_task")
    BY <1>0, <1>1, <1>2, <1>3, <1>6 DEF CancelRequest, Saving, Sharers
  <2> QED
    BY <1>0, <1>1, <1>2, <1>6, <2>1
<1>7. CASE "cancel" \in Requests /\ Settle
  <2>1. Answers("cancel", StoppedNodes(Loaded), record.status = "cancelled", "done")
    BY <1>0, <1>2, <1>3, <1>7 DEF Settle, Saving, Sharers
  <2> QED
    BY <1>0, <1>7, <2>1
<1>8. CASE "pause" \in Requests /\ PauseRequest
  <2>1. Answers("pause", [Loaded EXCEPT !.status = "paused"], record.status = "running", "done")
    BY <1>0, <1>1, <1>2, <1>3, <1>8 DEF PauseRequest, Saving, Sharers
  <2> QED
    BY <1>0, <1>1, <1>2, <1>8, <2>1
<1>9. CASE Interrupt
  <2> DEFINE job == IF record.status = "cancelled" THEN StoppedNodes(Loaded)
                    ELSE [Loaded EXCEPT !.status = "interrupted"]
  <2>1. job \in Job /\ job.status \in ControlStatus
    BY <1>0, <1>1, <1>2
  <2>2. Answers(Converge, job, record.status \notin Ended \ {"cancelled"}, "done")
    BY <1>3, <1>9, <2>1 DEF Interrupt, Saving, Sharers
  <2> QED
    BY <2>1, <2>2
<1> QED
  BY <1>5, <1>6, <1>7, <1>8, <1>9 DEF Responds

LEMMA RespondersDecide ==
  ASSUME StoreInv, LoopInv, OutcomeInv, "resume" \notin Requests, Responds
  PROVE  OutcomeInv'
<1> USE ClientFacts DEF StoreInv
<1>1. PICK c \in Clients \ Nodes, job \in Job, allowed \in BOOLEAN,
            continue \in {"done", "cancel_task"} :
            /\ pc[c] \notin Saving
            /\ Respond(c, job, allowed, continue)
            /\ allowed => c \notin Sharers /\ job.status \in ControlStatus
  BY RespondersControl
<1>2. UNCHANGED <<record, tx>> /\ \A d \in Clients \ {c} : pc'[d] = pc[d] /\ after'[d] = after[d]
  BY <1>1 DEF Respond, Save, Goto, TypeOK
<1>3. CASE ~allowed
  <2>1. UNCHANGED copy /\ pc'[c] = "done"
    BY <1>1, <1>3 DEF Respond, Goto, TypeOK
  <2> QED
    BY <1>2, <2>1, OutcomeKept DEF Saving
<1>4. CASE allowed
  <2>1. copy' = [copy EXCEPT ![c] = job] /\ pc'[c] = "queue" /\ c # Loop /\ c \in Holders
    BY <1>1, <1>4, OwnObjects DEF Respond, Save, Goto, TypeOK, Sharers
  <2>2. tx[c] = NoTx /\ NoTx.merged = FALSE
    BY <1>1 DEF LoopInv, Unused, Holding, Saving, NoTx
  <2>3. job.status \in ControlStatus /\ job.status # "failed"
    BY <1>1, <1>4, ControlIsNoRun
  <2>4. copy'[c] = job /\ \A h \in Holders \ {c} : copy'[h] = copy[h]
    BY <2>1 DEF TypeOK
  <2>5. OthersControl'
    BY <1>2, <2>1, <2>2, <2>3, <2>4, OwnObjects DEF OutcomeInv, OthersControl, Writes
  <2>6. NoneFailed'
    BY <1>2, <2>3, <2>4 DEF OutcomeInv, NoneFailed
  <2>7. Converged'
    BY <1>2, <2>1, <2>4 DEF OutcomeInv, Converged, Writes
  <2> QED
    BY <2>5, <2>6, <2>7 DEF OutcomeInv
<1> QED
  BY <1>3, <1>4

\* The steps of the loop, of the node tasks and of the requests.
LEMMA OtherStepDecides ==
  ASSUME StoreInv, LoopInv, OutcomeInv, "resume" \notin Requests,
         LoopStep \/ RequestStep \/ \E n \in Nodes : NodeRuns(n) \/ NodeFinishes(n)
  PROVE  OutcomeInv'
<1> USE ClientFacts DEF StoreInv
<1>1. CASE Responds
  BY <1>1, RespondersDecide
<1>2. CASE ReadControl
  BY <1>2, OutcomeKept DEF ReadControl, Goto, TypeOK, Saving
<1>3. ASSUME NEW n \in Nodes, NEW status, NEW next, next # "check", Notify(n, status, next),
             NEW place, pc' = [pc EXCEPT ![Loop] = "queue", ![n] = place], UNCHANGED <<record, tx>>
      PROVE  OutcomeInv'
  <2>1. copy' = [copy EXCEPT ![Loop] = [copy[Loop] EXCEPT !.nodes[n] = status]] /\ after'[Loop] = next
    BY <1>3 DEF Notify, SetNode, TypeOK
  <2>2. \A h \in Holders : copy'[h].status = copy[h].status
    BY <2>1 DEF TypeOK, Job
  <2>3. \A c \in Clients \ Sharers : pc'[c] = pc[c]
    BY <1>3 DEF Sharers, TypeOK
  <2>4. pc'[Loop] = "queue"
    BY <1>3 DEF TypeOK
  <2> QED
    BY <1>3, <2>1, <2>2, <2>3, <2>4, OutcomeKept
<1>4. ASSUME NEW n \in Nodes, LaunchNode(n) \/ Collect(n) \/ StopNode(n)
      PROVE  OutcomeInv'
  BY <1>3, <1>4 DEF LaunchNode, Collect, StopNode
<1>5. ASSUME NEW n \in Nodes, NodeRuns(n) \/ NodeFinishes(n)
      PROVE  OutcomeInv'
  <2>1. /\ UNCHANGED <<record, tx>>
        /\ \A c \in Clients \ {n} : pc'[c] = pc[c] /\ after'[c] = after[c]
    BY <1>5 DEF NodeRuns, NodeFinishes, Save, Goto, TypeOK
  <2>2. \A h \in Holders : copy'[h].status = copy[h].status
    BY <1>5, OwnObjects DEF NodeRuns, NodeFinishes, Save, SetNode, TypeOK, Job
  <2>3. \A c \in Clients \ Sharers : c # n
    BY DEF Sharers
  <2> QED
    BY <2>1, <2>2, <2>3, OutcomeKept
<1>6. CASE Outcome
  <2>1. PICK status \in JobStatus :
          /\ \/ pc[Loop] = "collect" /\ Unfinished = {} /\ status = "completed"
             \/ pc[Loop] = "stop" /\ Unfinished = {} /\ status = seen
             \/ pc[Loop] = "pass" /\ Tasks = {} /\ seen = "paused" /\ status = seen
          /\ Save(Loop, [copy[Loop] EXCEPT !.status = status], "check")
    BY <1>6 DEF Outcome
  <2>2. status \notin {"running", "failed"}
    BY <2>1 DEF LoopInv, Stopping, Continues, Protected
  <2>3. /\ UNCHANGED <<record, tx>> /\ pc' = [pc EXCEPT ![Loop] = "queue"]
        /\ copy' = [copy EXCEPT ![Loop] = [copy[Loop] EXCEPT !.status = status]]
    BY <1>6, <2>1, OwnObjects DEF Outcome, Save, Goto
  <2>4. copy'[Loop].status = status /\ \A h \in Holders \ {Loop} : copy'[h] = copy[h]
    BY <2>3 DEF TypeOK, Job
  <2>5. tx[Loop] = NoTx /\ NoTx.merged = FALSE
    BY <2>1 DEF LoopInv, Unused, Holding, NoTx
  <2>6. pc'[Loop] = "queue" /\ \A c \in Clients \ {Loop} : pc'[c] = pc[c]
    BY <2>3 DEF TypeOK
  <2>7. OthersControl'
    BY <2>3, <2>4, <2>6, OwnObjects DEF OutcomeInv, OthersControl, Writes
  <2>8. NoneFailed'
    BY <2>2, <2>3, <2>4 DEF OutcomeInv, NoneFailed
  <2>9. Converged'
    BY <2>2, <2>3, <2>4, <2>5, <2>6 DEF Converged, Writes
  <2> QED
    BY <2>7, <2>8, <2>9 DEF OutcomeInv
<1>7. CASE Stop
  <2>1. Tasks \in SUBSET Sharers /\ AbortSaves(Tasks) /\ Loop \notin Tasks
    BY <1>7 DEF Stop, Tasks, Unfinished, Sharers
  <2>2. \A c \in Clients : pc'[c] = IF c \in Tasks THEN "stopped" ELSE IF c = Loop THEN "stop" ELSE pc[c]
    BY <1>7 DEF Stop
  <2>3. pc'[Loop] = "stop" /\ \A c \in Clients \ Sharers : pc'[c] = pc[c]
    BY <2>1, <2>2 DEF Sharers
  <2> QED
    BY <2>1, <2>3, AbortDecides
<1>8. CASE "cancel" \in Requests /\ CancelTask
  <2>1. CASE AbortSaves({Loop})
             /\ pc' = [pc EXCEPT !["cancel"] = "settle", ![Loop] = "done", ![Converge] = "start"]
             /\ note' = NoNote
    <3>1. PICK S \in SUBSET Sharers : S = {Loop}
      BY DEF Sharers
    <3>2. AbortSaves(S)
      BY <2>1, <3>1
    <3>3. pc'[Loop] = "done" /\ \A c \in Clients \ Sharers : pc'[c] = pc[c] \/ pc'[c] \notin Saving
      BY <1>8, <2>1 DEF TypeOK, Loop, Converge, Saving
    <3> QED
      BY <3>2, <3>3, AbortDecides
  <2>2. CASE Goto("cancel", "done") /\ UNCHANGED <<lock, record, copy, tx, after, note>>
    <3>1. /\ \A c \in Clients \ {"cancel"} : pc'[c] = pc[c]
          /\ pc'["cancel"] = "done" /\ UNCHANGED <<record, copy, tx, after>>
      BY <1>8, <2>2 DEF Goto, TypeOK
    <3> QED
      BY <3>1, OutcomeKept DEF Saving, Loop
  <2> QED
    BY <1>8, <2>1, <2>2 DEF CancelTask
<1> QED
  BY <1>1, <1>2, <1>4, <1>5, <1>6, <1>7, <1>8 DEF LoopStep, RequestStep, Responds

LEMMA StepDecides ==
  ASSUME StoreInv, LoopInv, OutcomeInv, "resume" \notin Requests, [Next]_vars
  PROVE  OutcomeInv'
<1>1. CASE UNCHANGED vars
  BY <1>1 DEF vars, OutcomeInv, OthersControl, NoneFailed, Converged, Writes
<1>2. CASE Next
  BY <1>2, SaveStepDecides, OtherStepDecides DEF Next
<1> QED
  BY <1>1, <1>2

LEMMA InitDecides == Init => OutcomeInv
<1> SUFFICES ASSUME Init PROVE OutcomeInv
  OBVIOUS
<1> USE ClientFacts DEF Init
<1>1. NewJob.status = "running" /\ NoTx.job = NewJob /\ NoTx.merged = FALSE
  BY DEF NewJob, NoTx
<1>2. OthersControl
  BY <1>1 DEF OthersControl, Writes, Saving, Sharers
<1>3. NoneFailed
  BY <1>1 DEF NoneFailed
<1>4. Converged
  BY DEF Converged, Saving
<1> QED
  BY <1>2, <1>3, <1>4 DEF OutcomeInv

\* In any number of processes, as long as no paused job is resumed, the check
\* after a run never fails it: what the loop saved last is final or paused, and
\* only control statuses can be saved over it.
THEOREM NoneIsFailed ==
  ASSUME "resume" \notin Requests
  PROVE  Spec => []OnlyStuckJobsFail
<1> DEFINE Inv == StoreInv /\ LoopInv /\ OutcomeInv
<1>1. Init => Inv
  BY InitKeeps, InitRests, InitDecides
<1>2. Inv /\ [Next]_vars => Inv'
  BY StepKeeps, StepRests, StepDecides
<1>3. Inv => OnlyStuckJobsFail
  BY DEF OutcomeInv, NoneFailed, OnlyStuckJobsFail
<1> QED
  BY <1>1, <1>2, <1>3, PTL DEF Spec

(* ------------- in one process, stale saves keep the control ------------ *)

\* A merge gives way to the control status that made it necessary.
MergedKeeps == \A c \in Clients :
    tx[c].merged /\ record.status \in ControlStatus => tx[c].job.status \in ControlStatus

\* A save of c has stamped the Job object itself, and that object has neither
\* been saved under another status nor replaced since.
Stamps(c) == pc[c] = "execute" /\ ~tx[c].merged
Stamped == \A c \in Sharers : Stamps(c) =>
    /\ tx[c].job.status = copy[Loop].status
    /\ tx[c].job.base = copy[Loop].base
    /\ tx[c].job.revision = copy[Loop].revision

Based == copy[Loop].base <= record.revision

\* The loop's object carries the stamp of a save that was aborted.
Stamping == \E c \in Sharers : Stamps(c)
Ahead == copy[Loop].base # IF Stamping THEN record.revision ELSE copy[Loop].revision

\* The loop was cancelled and no task of its nodes is left; the run is on its
\* way out; the loop still follows the control statuses it reads.
Spent == pc[Loop] = "done" /\ Quiet
Leaving == \/ pc[Loop] = "done" \/ Continues("stop")
           \/ pc[Loop] \in Saving /\ after[Loop] = "check"
Working == pc[Loop] # "done" /\ ~Continues("check")

\* Only a cancelled or interrupted run leaves such a stamp behind, and its
\* object has the status that ended it.
AheadControls == Ahead /\ ~Spent => copy[Loop].status \in ControlStatus /\ Leaving

\* An object as fresh as the record has its status.
Synced == Working /\ copy[Loop].base = record.revision => copy[Loop].status = record.status

\* What made the loop stop, or is about to cancel it, is in the record.
Cancelling == "cancel" \in Requests /\ pc["cancel"] = "cancel_task"
Controlled == Working /\ (seen \in Protected \/ Cancelling) => record.status \in ControlStatus

KeepInv == MergedKeeps /\ Stamped /\ Based /\ AheadControls /\ Synced /\ Controlled

\* Everything proved so far, for one process without a resume.
ProcessInv == StoreInv /\ LoopInv /\ LockInv /\ OneSaver /\ OutcomeInv /\ KeepInv

\* A client in a save is alone in it.
LEMMA AloneInSave ==
  ASSUME OneStore, ProcessInv, NEW c \in Clients, Holding(c)
  PROVE  \A d \in Clients \ {c} : /\ ~Holding(d) /\ pc[d] # "execute"
                                  /\ tx[d].merged = FALSE /\ ~Stamps(d)
<1>1. \A d \in Clients \ {c} : ~Holding(d)
  BY HoldersAreOne DEF ProcessInv
<1>2. \A d \in Clients \ {c} : tx[d].merged = FALSE /\ pc[d] # "execute"
  BY <1>1 DEF ProcessInv, LoopInv, Unused, NoTx, Holding
<1> QED
  BY <1>1, <1>2 DEF Stamps

\* While a client is in a save and has not stamped the loop's object, nobody has.
LEMMA NobodyStamps ==
  ASSUME OneStore, ProcessInv, NEW c \in Clients, Holding(c), ~Stamps(c) \/ c \notin Sharers
  PROVE  ~Stamping
  BY AloneInSave, ClientFacts DEF Stamping, Sharers

\* A step that leaves the record, the locals and the loop's object as they are,
\* but for its nodes, and does not bring the loop back to work.
LEMMA ControlKept ==
  ASSUME ProcessInv, UNCHANGED <<record, tx>>,
         copy'[Loop].status = copy[Loop].status, copy'[Loop].base = copy[Loop].base,
         copy'[Loop].revision = copy[Loop].revision,
         \A c \in Sharers : pc'[c] = "execute" <=> pc[c] = "execute",
         Spent => Spent', Leaving => Leaving', Working' => Working,
         Working' /\ (seen' \in Protected \/ Cancelling') =>
            seen \in Protected \/ Cancelling \/ record.status \in ControlStatus
  PROVE  KeepInv'
<1> USE DEF ProcessInv, KeepInv
<1>1. /\ \A c \in Sharers : Stamps(c)' <=> Stamps(c)
      /\ Stamping' <=> Stamping
  BY DEF Stamps, Stamping
<1>2. MergedKeeps'
  BY DEF MergedKeeps
<1>3. Stamped' /\ Based'
  BY <1>1 DEF Stamped, Based
<1>4. Ahead' <=> Ahead
  BY <1>1 DEF Ahead
<1>5. AheadControls'
  BY <1>4 DEF AheadControls
<1>6. Synced' /\ Controlled'
  BY DEF Synced, Controlled
<1> QED
  BY <1>2, <1>3, <1>5, <1>6

\* Without a stamp left behind, or while the loop works, its object has the
\* status of the record it would overwrite, or a control status.
LEMMA FreshOrControl ==
  ASSUME ProcessInv, Working, Stamping, record.status \in ControlStatus
  PROVE  copy[Loop].status \in ControlStatus
<1>1. CASE Ahead
  BY <1>1 DEF ProcessInv, KeepInv, AheadControls, Spent, Working
<1>2. CASE ~Ahead
  BY <1>2 DEF ProcessInv, KeepInv, Ahead, Synced
<1> QED
  BY <1>1, <1>2

\* What the loop or a node writes while a control status is to be followed is
\* a control status.
LEMMA SharerWritesControl ==
  ASSUME ProcessInv, NEW c \in Sharers, pc[c] = "execute", Working, seen \in Protected \/ Cancelling
  PROVE  tx[c].job.status \in ControlStatus
<1>0. record.status \in ControlStatus /\ c \in Clients
  BY ClientFacts DEF ProcessInv, KeepInv, Controlled, Sharers
<1>1. CASE tx[c].merged
  BY <1>0, <1>1 DEF ProcessInv, KeepInv, MergedKeeps
<1>2. CASE ~tx[c].merged
  BY <1>0, <1>2, FreshOrControl DEF ProcessInv, KeepInv, Stamped, Stamps, Stamping
<1> QED
  BY <1>1, <1>2

\* A stale save writes a control status over a control status.
LEMMA StaleWriteControls ==
  ASSUME OneStore, ProcessInv, NEW c \in Clients, pc[c] = "execute",
         tx[c].job.base < record.revision, record.status \in ControlStatus
  PROVE  tx[c].job.status \in ControlStatus
<1> USE DEF ProcessInv
<1>1. CASE tx[c].merged
  BY <1>1 DEF KeepInv, MergedKeeps
<1>2. CASE c \notin Sharers
  BY <1>2 DEF OutcomeInv, OthersControl, Writes
<1>3. CASE ~tx[c].merged /\ c \in Sharers
  <2>1. /\ tx[c].job.status = copy[Loop].status /\ tx[c].job.base = copy[Loop].base /\ Stamping
    BY <1>3 DEF KeepInv, Stamped, Stamps, Stamping
  <2>2. record.revision \in Nat /\ copy[Loop].base \in Nat
    BY ClientFacts DEF StoreInv, TypeOK, Job
  <2>3. Ahead
    BY <2>1, <2>2 DEF Ahead
  <2>4. ~Spent
    BY <1>3 DEF Spent, Quiet, Resting, Sharers
  <2> QED
    BY <2>1, <2>3, <2>4 DEF KeepInv, AheadControls
<1> QED
  BY <1>1, <1>2, <1>3

\* The steps of a save.
LEMMA ExecuteControls ==
  ASSUME OneStore, ProcessInv, NEW c \in Clients, Execute(c)
  PROVE  KeepInv'
<1> USE ClientFacts DEF ProcessInv, StoreInv, TypeOK
<1>1. /\ record' = tx[c].job /\ pc'[c] = after[c] /\ tx'[c] = NoTx /\ pc[c] = "execute"
      /\ \A d \in Clients \ {c} : pc'[d] = pc[d] /\ after'[d] = after[d] /\ tx'[d] = tx[d]
      /\ copy' = [copy EXCEPT ![Holder(c)] =
                    [(IF tx[c].merged THEN tx[c].job ELSE @) EXCEPT !.base = record'.revision]]
      /\ UNCHANGED seen
  BY DEF Execute, EndSave, Goto
<1>2. /\ tx[c].job \in Job /\ record'.revision = record.revision + 1
      /\ record.revision \in Nat /\ record'.revision \in Nat
  BY <1>1, StampIsNext DEF Execute, Job
<1>3. after[c] \notin Saving /\ Holding(c)
  BY <1>1 DEF SavesContinue, Saving, Holding
<1>4. NoTx.merged = FALSE
  BY DEF NoTx
<1>5. \A d \in Clients : tx'[d].merged = FALSE /\ pc'[d] # "execute"
  <2>1. \A d \in Clients \ {c} : tx[d].merged = FALSE /\ pc[d] # "execute"
    BY <1>3, AloneInSave
  <2>2. tx'[c].merged = FALSE /\ pc'[c] # "execute"
    BY <1>1, <1>3, <1>4 DEF Saving
  <2>3. \A d \in Clients \ {c} : tx'[d].merged = FALSE /\ pc'[d] # "execute"
    BY <1>1, <2>1
  <2> QED
    BY <2>2, <2>3
<1>6. MergedKeeps' /\ Stamped' /\ ~Stamping'
  BY <1>5 DEF MergedKeeps, Stamped, Stamps, Stamping, Sharers
<1>7. CASE c \in Sharers
  <2> DEFINE j == IF tx[c].merged THEN tx[c].job ELSE copy[Loop]
  <2>1. Holder(c) = Loop /\ c # "cancel"
    BY <1>7, OwnObjects, NodesAssumption DEF Sharers, Loop
  <2>2. copy'[Loop] = [j EXCEPT !.base = record'.revision] /\ j \in Job
    BY <1>1, <1>2, <2>1
  <2>3. j.revision = record'.revision /\ j.status = record'.status
    BY <1>1, <1>7 DEF KeepInv, Stamped, Stamps
  <2> HIDE DEF j
  <2>4. /\ copy'[Loop].base = record'.revision /\ copy'[Loop].revision = record'.revision
        /\ copy'[Loop].status = record'.status
    BY <2>2, <2>3 DEF Job
  <2>5. Based' /\ Synced' /\ AheadControls'
    BY <1>2, <1>6, <2>4 DEF Based, Synced, AheadControls, Ahead
  <2>6. Controlled'
    <3> SUFFICES ASSUME Working', (seen \in Protected \/ Cancelling)'
                 PROVE  record'.status \in ControlStatus
      BY DEF Controlled
    <3>1. Working /\ (seen \in Protected \/ Cancelling)
      BY <1>1, <1>7, <2>1 DEF Working, Continues, Saving, Cancelling, Sharers
    <3> QED
      BY <1>1, <1>7, <3>1, SharerWritesControl
  <2> QED
    BY <1>6, <2>5, <2>6 DEF KeepInv
<1>8. CASE c \notin Sharers
  <2>1. copy'[Loop] = copy[Loop] /\ c # Loop /\ \A n \in Nodes : n # c
    BY <1>1, <1>8, OwnObjects DEF Sharers
  <2>2. ~Stamping
    BY <1>3, <1>8, NobodyStamps
  <2>3. Ahead' <=> Ahead
    BY <1>6, <2>1, <2>2 DEF Ahead
  <2>4. copy[Loop].base \in Nat /\ copy[Loop].base <= record.revision
    BY DEF Job, KeepInv, Based
  <2>5. Based' /\ Synced'
    BY <1>2, <2>1, <2>4 DEF Based, Synced
  <2>6. AheadControls'
    BY <1>1, <2>1, <2>3 DEF KeepInv, AheadControls, Spent, Quiet, Leaving, Continues
  <2>7. Controlled'
    BY <1>1, <1>8 DEF Controlled, OutcomeInv, OthersControl, Writes
  <2> QED
    BY <1>6, <2>5, <2>6, <2>7 DEF KeepInv
<1> QED
  BY <1>7, <1>8

LEMMA ReadControls ==
  ASSUME OneStore, ProcessInv, NEW c \in Clients, ReadConflict(c) \/ ReadMatch(c)
  PROVE  KeepInv'
<1> USE ClientFacts DEF ProcessInv, StoreInv, TypeOK
<1>1. /\ pc[c] = "read" /\ Holding(c) /\ ~Stamps(c) /\ Candidate(c) \in Job
      /\ UNCHANGED <<record, after, seen>>
      /\ \A d \in Clients \ {c} : pc'[d] = pc[d] /\ tx'[d] = tx[d]
  BY CandidateType DEF ReadConflict, ReadMatch, Goto, Holding, Stamps
<1>2. pc'[c] \in {"watch", "execute"}
  BY DEF ReadConflict, ReadMatch, Goto
<1>3. /\ Spent' <=> Spent
      /\ Leaving' <=> Leaving
      /\ Working' <=> Working
      /\ Cancelling' <=> Cancelling
  BY <1>1, <1>2 DEF Spent, Quiet, Resting, Leaving, Working, Continues, Saving, Cancelling
<1>4. ~Stamping /\ \A d \in Clients \ {c} : tx[d].merged = FALSE /\ pc[d] # "execute"
  BY <1>1, NobodyStamps, AloneInSave
<1>5. CASE ReadConflict(c)
  <2> DEFINE m == Merge(record, Candidate(c))
  <2>1. tx'[c] = [tx[c] EXCEPT !.job = m, !.merged = TRUE, !.tries = @ + 1] /\ UNCHANGED copy
        /\ pc'[c] = "watch"
    BY <1>5 DEF ReadConflict, Goto
  <2>2. tx'[c].job = m
    BY <2>1 DEF Tx
  <2>3. record.status \in ControlStatus => m.status \in ControlStatus
    BY <1>1, MergeStatus
  <2> HIDE DEF m
  <2>4. MergedKeeps'
    BY <1>1, <1>4, <2>2, <2>3 DEF MergedKeeps
  <2>5. Stamped' /\ ~Stamping'
    BY <1>1, <1>4, <2>1 DEF Stamped, Stamps, Stamping, Sharers
  <2>6. Ahead' <=> Ahead
    BY <1>4, <2>1, <2>5 DEF Ahead
  <2> QED
    BY <1>1, <1>3, <2>1, <2>4, <2>5, <2>6 DEF KeepInv, Based, AheadControls, Synced, Controlled
<1>6. CASE ReadMatch(c)
  <2> DEFINE m == [Candidate(c) EXCEPT !.revision = @ + 1]
  <2>1. /\ tx'[c] = [tx[c] EXCEPT !.job = m] /\ Candidate(c).revision = record.revision
        /\ pc'[c] = "execute"
        /\ copy' = IF tx[c].merged THEN copy ELSE [copy EXCEPT ![Holder(c)].revision = @ + 1]
    BY <1>6 DEF ReadMatch, Goto
  <2>2. tx'[c].job = m /\ tx'[c].merged = tx[c].merged
    BY <2>1 DEF Tx
  <2>3. m.status = Candidate(c).status /\ m.base = Candidate(c).base
        /\ m.revision = Candidate(c).revision + 1
    BY <1>1 DEF Job
  <2> HIDE DEF m
  <2>4. MergedKeeps'
    BY <1>1, <1>4, <2>2, <2>3 DEF MergedKeeps, KeepInv, Candidate
  <2>5. copy'[Loop].status = copy[Loop].status /\ copy'[Loop].base = copy[Loop].base
    BY <2>1 DEF Job
  <2>6. Based' /\ Synced' /\ Controlled'
    BY <1>1, <1>3, <2>5 DEF KeepInv, Based, Synced, Controlled
  <2>7. CASE c \in Sharers /\ ~tx[c].merged
    <3>1. Candidate(c) = copy[Loop] /\ Holder(c) = Loop
      BY <2>7, OwnObjects DEF Candidate, Sharers
    <3>2. copy'[Loop].revision = copy[Loop].revision + 1
      BY <2>1, <2>7, <3>1 DEF Job
    <3>3. Stamped'
      BY <1>1, <1>4, <2>2, <2>3, <2>5, <3>1, <3>2 DEF Stamped, Stamps, Sharers
    <3>4. Stamping'
      BY <2>1, <2>2, <2>7 DEF Stamping, Stamps
    <3>5. Ahead' <=> Ahead
      BY <1>1, <1>4, <2>1, <2>5, <3>1, <3>4 DEF Ahead
    <3>6. AheadControls'
      BY <1>3, <2>5, <3>5 DEF KeepInv, AheadControls
    <3> QED
      BY <2>4, <2>6, <3>3, <3>6 DEF KeepInv
  <2>8. CASE c \notin Sharers \/ tx[c].merged
    <3>1. copy'[Loop] = copy[Loop]
      BY <2>1, <2>8, OwnObjects
    <3>2. Stamped' /\ ~Stamping'
      BY <1>1, <1>4, <2>2, <2>8 DEF Stamped, Stamps, Stamping, Sharers
    <3>3. Ahead' <=> Ahead
      BY <1>4, <3>1, <3>2 DEF Ahead
    <3>4. AheadControls'
      BY <1>3, <2>5, <3>3 DEF KeepInv, AheadControls
    <3> QED
      BY <2>4, <2>6, <3>2, <3>4 DEF KeepInv
  <2> QED
    BY <2>7, <2>8
<1> QED
  BY <1>5, <1>6

LEMMA SaveStepControls ==
  ASSUME OneStore, ProcessInv, NEW c \in Clients, Acquire(c) \/ SaveStep(c)
  PROVE  KeepInv'
<1> USE ClientFacts DEF ProcessInv, StoreInv, TypeOK
<1>1. CASE Acquire(c)
  <2>1. /\ UNCHANGED <<record, tx, copy, after, seen>> /\ pc[c] = "queue" /\ pc'[c] = "watch"
        /\ \A d \in Clients \ {c} : pc'[d] = pc[d]
    BY <1>1 DEF Acquire, Goto
  <2>2. /\ Spent => Spent'
        /\ Leaving => Leaving'
        /\ Working' => Working
        /\ Cancelling' => Cancelling
    BY <2>1 DEF Spent, Quiet, Resting, Leaving, Working, Continues, Saving, Cancelling
  <2>3. \A d \in Sharers : pc'[d] = "execute" <=> pc[d] = "execute"
    BY <2>1 DEF Sharers
  <2> HIDE DEF ProcessInv
  <2> QED
    BY <2>1, <2>2, <2>3, ControlKept
<1>2. CASE Watch(c)
  <2>1. /\ UNCHANGED <<record, copy, after, seen>> /\ pc[c] = "watch" /\ pc'[c] = "read"
        /\ \A d \in Clients \ {c} : pc'[d] = pc[d] /\ tx'[d] = tx[d]
        /\ tx'[c] = [tx[c] EXCEPT !.watched = record.revision]
    BY <1>2 DEF Watch, Goto
  <2>2. tx'[c].job = tx[c].job /\ tx'[c].merged = tx[c].merged
    BY <2>1 DEF Tx
  <2>3. /\ Spent' <=> Spent
        /\ Leaving' <=> Leaving
        /\ Working' <=> Working
        /\ Cancelling' <=> Cancelling
    BY <2>1 DEF Spent, Quiet, Resting, Leaving, Working, Continues, Saving, Cancelling
  <2>4. \A d \in Clients : tx'[d].job = tx[d].job /\ tx'[d].merged = tx[d].merged
                           /\ (pc'[d] = "execute" <=> pc[d] = "execute")
    BY <2>1, <2>2
  <2>5. /\ \A d \in Sharers : Stamps(d)' <=> Stamps(d)
        /\ Stamping' <=> Stamping
    BY <2>4 DEF Stamps, Stamping, Sharers
  <2>6. Ahead' <=> Ahead
    BY <2>1, <2>5 DEF Ahead
  <2>7. MergedKeeps' /\ Stamped'
    BY <2>1, <2>4, <2>5 DEF KeepInv, MergedKeeps, Stamped, Sharers
  <2> QED
    BY <2>1, <2>3, <2>6, <2>7 DEF KeepInv, Based, AheadControls, Synced, Controlled
<1>3. CASE ReadConflict(c) \/ ReadMatch(c)
  BY <1>3, ReadControls
<1>4. CASE Execute(c)
  BY <1>4, ExecuteControls
<1>5. CASE ExecuteFails(c)
  BY <1>5 DEF ExecuteFails, OneSaver, Saver
<1>6. CASE GiveUp(c)
  BY <1>6 DEF GiveUp, OneSaver, Saver, Tries
<1> QED
  BY <1>1, <1>2, <1>3, <1>4, <1>5, <1>6 DEF SaveStep

\* The stamp of a save that is aborted while the loop works is on an object with
\* a control status.
LEMMA StampControls ==
  ASSUME ProcessInv, Stamping, Working, seen \in Protected \/ Cancelling
  PROVE  copy[Loop].status \in ControlStatus
  BY FreshOrControl DEF ProcessInv, KeepInv, Controlled

\* Coroutines of the loop's process are cancelled: the loop stops its nodes, or
\* is cancelled itself.
LEMMA AbortControls ==
  ASSUME OneStore, ProcessInv, NEW S \in SUBSET Sharers, AbortSaves(S), UNCHANGED seen,
         seen \in Protected \/ Cancelling, pc[Loop] # "done",
         pc'[Loop] \in {"stop", "done"}, pc'[Loop] = "stop" => Working,
         \A c \in S : pc'[c] # "execute",
         \A c \in Sharers \ S : pc[c] = "execute" <=> pc'[c] = "execute",
         Continues("check") => Spent',
         Cancelling' => Cancelling
  PROVE  KeepInv'
<1> USE ClientFacts DEF ProcessInv, StoreInv, TypeOK
<1>0. Sharers \subseteq Clients
  BY DEF Sharers
<1>1. \A c \in Clients : tx'[c] = IF c \in S THEN NoTx ELSE tx[c]
  BY DEF AbortSaves
<1>2. NoTx.merged = FALSE
  BY DEF NoTx
<1>3. ~Spent /\ Leaving' /\ (Working' => Working)
  BY DEF Spent, Leaving, Working, Continues, Saving
<1>4. \A c \in Sharers : Stamps(c)' <=> Stamps(c) /\ c \notin S
  BY <1>0, <1>1 DEF Stamps
<1>5. CASE UNCHANGED <<record, copy>>
  <2>1. MergedKeeps'
    BY <1>1, <1>2, <1>5 DEF KeepInv, MergedKeeps
  <2>2. Stamped'
    BY <1>0, <1>1, <1>4, <1>5 DEF KeepInv, Stamped
  <2>3. Based' /\ Synced' /\ Controlled'
    BY <1>3, <1>5 DEF KeepInv, Based, Synced, Controlled
  <2>4. AheadControls'
    <3>1. CASE \E c \in S : Stamps(c)
      <4>1. Stamping
        BY <3>1 DEF Stamping
      <4>2. CASE Working
        BY <1>3, <1>5, <4>1, <4>2, StampControls DEF AheadControls
      <4>3. CASE ~Working
        BY <1>3, <4>3 DEF Working, AheadControls
      <4> QED
        BY <4>2, <4>3
    <3>2. CASE ~\E c \in S : Stamps(c)
      <4>1. Stamping' <=> Stamping
        BY <1>4, <3>2 DEF Stamping
      <4>2. Ahead' <=> Ahead
        BY <1>5, <4>1 DEF Ahead
      <4> QED
        BY <1>3, <1>5, <4>2 DEF KeepInv, AheadControls
    <3> QED
      BY <3>1, <3>2
  <2> QED
    BY <2>1, <2>2, <2>3, <2>4 DEF KeepInv
<1>6. ASSUME NEW c \in S, Landed(c)
      PROVE  KeepInv'
  <2>1. /\ pc[c] = "execute" /\ Holding(c) /\ c \in Clients /\ Holder(c) = Loop
        /\ record' = tx[c].job /\ record.revision = tx[c].watched
        /\ copy' = IF tx[c].merged THEN copy ELSE [copy EXCEPT ![Loop].base = record'.revision]
    BY <1>0, <1>6, OwnObjects DEF Landed, Holding, Sharers
  <2>2. record'.revision = record.revision + 1 /\ record.revision \in Nat /\ record'.revision \in Nat
    BY <2>1, StampIsNext DEF Job
  <2>3. \A d \in Clients \ {c} : tx[d].merged = FALSE /\ ~Stamps(d)
    BY <2>1, AloneInSave
  <2>4. \A d \in Clients : tx'[d].merged = FALSE
    BY <1>1, <1>2, <2>3
  <2>5. MergedKeeps' /\ Stamped' /\ ~Stamping'
    BY <1>0, <1>4, <2>3, <2>4 DEF MergedKeeps, Stamped, Stamping
  <2>6. Controlled'
    BY <1>3, <2>1, SharerWritesControl DEF Controlled
  <2>7. CASE tx[c].merged
    <3>1. UNCHANGED copy
      BY <2>1, <2>7
    <3>2. ~Stamping
      BY <2>1, <2>7, NobodyStamps DEF Stamps
    <3>3. Ahead' <=> Ahead
      BY <2>5, <3>1, <3>2 DEF Ahead
    <3>4. AheadControls'
      BY <1>3, <3>1, <3>3 DEF KeepInv, AheadControls
    <3>5. copy[Loop].base \in Nat /\ copy[Loop].base <= record.revision
      BY DEF Job, KeepInv, Based
    <3>6. Based' /\ Synced'
      BY <2>2, <3>1, <3>5 DEF Based, Synced
    <3> QED
      BY <2>5, <2>6, <3>4, <3>6 DEF KeepInv
  <2>8. CASE ~tx[c].merged
    <3>1. copy' = [copy EXCEPT ![Loop] = [copy[Loop] EXCEPT !.base = record'.revision]]
      BY <2>1, <2>8
    <3>2. copy'[Loop] = [copy[Loop] EXCEPT !.base = record'.revision]
      BY <3>1
    <3>3. /\ copy'[Loop].base = record'.revision /\ copy'[Loop].status = copy[Loop].status
          /\ copy'[Loop].revision = copy[Loop].revision
      BY <3>2 DEF Job
    <3>4. copy[Loop].revision = record'.revision /\ copy[Loop].status = record'.status
      BY <2>1, <2>8 DEF KeepInv, Stamped, Stamps
    <3>5. Based' /\ Synced' /\ AheadControls'
      BY <2>2, <2>5, <3>3, <3>4 DEF Based, Synced, AheadControls, Ahead
    <3> QED
      BY <2>5, <2>6, <3>5 DEF KeepInv
  <2> QED
    BY <2>7, <2>8
<1> QED
  BY <1>5, <1>6 DEF AbortSaves

\* What a request, or the check, answers or begins to save.
LEMMA RespondersKeepControl ==
  ASSUME OneStore, ProcessInv, "resume" \notin Requests, Responds
  PROVE  KeepInv'
<1> USE ClientFacts DEF ProcessInv, StoreInv
<1>1. PICK c \in Clients \ Nodes, job \in Job, allowed \in BOOLEAN,
            continue \in {"done", "cancel_task"} :
            /\ pc[c] \notin Saving
            /\ Respond(c, job, allowed, continue)
            /\ allowed => c \notin Sharers /\ job.status \in ControlStatus
  BY RespondersControl
<1>2. /\ UNCHANGED <<record, tx, seen>>
      /\ \A d \in Clients \ {c} : pc'[d] = pc[d] /\ after'[d] = after[d]
      /\ pc'[c] \in {"queue", "done"}
  BY <1>1 DEF Respond, Save, Goto, TypeOK
<1>3. \A d \in Sharers : pc'[d] = "execute" <=> pc[d] = "execute"
  BY <1>1, <1>2 DEF Sharers, Saving
<1>4. Quiet' <=> Quiet
  BY <1>2 DEF Quiet
<1>5. Cancelling' => Cancelling
  BY <1>2 DEF Cancelling
<1>6. CASE ~allowed
  <2>1. UNCHANGED copy /\ pc'[c] = "done"
    BY <1>1, <1>6 DEF Respond, Goto, TypeOK
  <2>2. CASE c = Loop
    <3>1. pc[Loop] = "check"
      BY <1>2, <2>1, <2>2
         DEF Responds, EnsureFailed, Interrupt, CancelRequest, Settle, PauseRequest,
             ResumeRequest, Respond, Save, Goto, TypeOK, Loop, Converge
    <3>2. (Spent => Spent') /\ (Leaving => Leaving') /\ ~Working'
      BY <1>4, <2>1, <2>2 DEF Spent, Leaving, Working
    <3> HIDE DEF ProcessInv
    <3> QED
      BY <1>2, <1>3, <1>5, <2>1, <3>2, ControlKept
  <2>3. CASE c # Loop
    <3>1. (Spent => Spent') /\ (Leaving => Leaving') /\ (Working' => Working)
      BY <1>2, <1>4, <2>3 DEF Spent, Leaving, Working, Continues
    <3> HIDE DEF ProcessInv
    <3> QED
      BY <1>2, <1>3, <1>5, <2>1, <3>1, ControlKept
  <2> QED
    BY <2>2, <2>3
<1>7. CASE allowed
  <2>1. copy' = [copy EXCEPT ![c] = job] /\ c # Loop
    BY <1>1, <1>7, OwnObjects DEF Respond, Save, Sharers
  <2>2. copy'[Loop] = copy[Loop]
    BY <2>1 DEF TypeOK
  <2>3. (Spent => Spent') /\ (Leaving => Leaving') /\ (Working' => Working)
    BY <1>2, <1>4, <2>1 DEF Spent, Leaving, Working, Continues
  <2> HIDE DEF ProcessInv
  <2> QED
    BY <1>2, <1>3, <1>5, <2>2, <2>3, ControlKept
<1> QED
  BY <1>6, <1>7

\* The steps of the loop and of the node tasks.
LEMMA LoopStepControls ==
  ASSUME OneStore, ProcessInv, "resume" \notin Requests,
         LoopStep \/ \E n \in Nodes : NodeRuns(n) \/ NodeFinishes(n)
  PROVE  KeepInv'
<1> USE ClientFacts DEF ProcessInv, StoreInv
<1>0. \A n \in Nodes : \A status :
         LET job == SetNode(n, status) IN
         /\ job.status = copy[Loop].status /\ job.base = copy[Loop].base
         /\ job.revision = copy[Loop].revision
  BY DEF SetNode, TypeOK, Job
<1>1. CASE EnsureFailed
  BY <1>1, RespondersKeepControl DEF Responds
<1>2. CASE ReadControl
  <2>1. /\ UNCHANGED <<record, copy, after, tx>> /\ pc[Loop] \in {"collect", "pass"}
        /\ pc'[Loop] = "pass" /\ seen' = record.status /\ \A d \in Clients \ {Loop} : pc'[d] = pc[d]
    BY <1>2 DEF ReadControl, Goto, TypeOK
  <2>2. ~Spent /\ ~Leaving /\ Working /\ (Cancelling' => Cancelling)
    BY <2>1 DEF Spent, Leaving, Working, Continues, Saving, Cancelling, Loop
  <2>3. \A d \in Sharers : pc'[d] = "execute" <=> pc[d] = "execute"
    BY <2>1 DEF Sharers
  <2>4. seen' \in Protected => record.status \in ControlStatus
    BY <2>1, ControlIsNoRun
  <2> HIDE DEF ProcessInv
  <2> QED
    BY <2>1, <2>2, <2>3, <2>4, ControlKept
<1>3. ASSUME NEW n \in Nodes, NEW status, NEW next, NEW place, Notify(n, status, next),
             pc' = [pc EXCEPT ![Loop] = "queue", ![n] = place],
             UNCHANGED <<record, tx, seen>>,
             pc[Loop] \in {"pass", "collect", "stop"}, pc[n] # "execute", place # "execute",
             next # "check", pc[Loop] = "stop" => next = "stop"
      PROVE  KeepInv'
  <2>1. copy'[Loop] = SetNode(n, status) /\ after'[Loop] = next /\ pc'[Loop] = "queue"
        /\ pc'[n] = place /\ \A d \in Clients \ {Loop, n} : pc'[d] = pc[d]
    BY <1>3 DEF Notify, TypeOK
  <2>2. /\ copy'[Loop].status = copy[Loop].status /\ copy'[Loop].base = copy[Loop].base
        /\ copy'[Loop].revision = copy[Loop].revision
    BY <1>0, <2>1
  <2>3. ~Spent /\ (Leaving => Leaving') /\ Working /\ (Cancelling' => Cancelling)
    BY <1>3, <2>1 DEF Spent, Leaving, Working, Continues, Saving, Cancelling, Loop
  <2>4. \A d \in Sharers : pc'[d] = "execute" <=> pc[d] = "execute"
    BY <1>3, <2>1 DEF Sharers
  <2> HIDE DEF ProcessInv
  <2> QED
    BY <1>3, <2>2, <2>3, <2>4, ControlKept
<1>4. ASSUME NEW n \in Nodes, LaunchNode(n) \/ Collect(n)
      PROVE  KeepInv'
  BY <1>3, <1>4 DEF LaunchNode, Collect
<1>5. ASSUME NEW n \in Nodes, StopNode(n)
      PROVE  KeepInv'
  <2>1. pc[n] # "execute"
    BY <1>5 DEF StopNode, LoopInv, Stopping, Continues, Quiet, Resting
  <2> QED
    BY <1>3, <1>5, <2>1 DEF StopNode
<1>6. ASSUME NEW n \in Nodes, NodeRuns(n) \/ NodeFinishes(n)
      PROVE  KeepInv'
  <2>1. /\ UNCHANGED <<record, tx, seen>>
        /\ \A d \in Clients \ {n} : pc'[d] = pc[d] /\ after'[d] = after[d]
        /\ pc[n] \in {"ready", "attempt", "body"} /\ pc'[n] \in {"queue", "finished"}
    BY <1>6 DEF NodeRuns, NodeFinishes, Save, Goto, TypeOK
  <2>2. /\ copy'[Loop].status = copy[Loop].status /\ copy'[Loop].base = copy[Loop].base
        /\ copy'[Loop].revision = copy[Loop].revision
    <3>1. CASE NodeRuns(n)
      BY <1>0, <3>1, OwnObjects DEF NodeRuns, Save, TypeOK
    <3>2. CASE NodeFinishes(n)
      BY <3>2 DEF NodeFinishes
    <3> QED
      BY <1>6, <3>1, <3>2
  <2>3. ~Spent
    BY <2>1 DEF Spent, Quiet, Resting
  <2>4. (Leaving => Leaving') /\ (Working' => Working) /\ (Cancelling' => Cancelling)
    BY <2>1 DEF Leaving, Working, Continues, Cancelling
  <2>5. \A d \in Sharers : pc'[d] = "execute" <=> pc[d] = "execute"
    BY <2>1 DEF Sharers
  <2> HIDE DEF ProcessInv
  <2> QED
    BY <2>1, <2>2, <2>3, <2>4, <2>5, ControlKept
<1>7. CASE Outcome
  <2> USE DEF TypeOK
  <2>1. PICK status \in JobStatus :
          /\ \/ pc[Loop] = "collect" /\ Unfinished = {} /\ status = "completed"
             \/ pc[Loop] = "stop" /\ Unfinished = {} /\ status = seen
             \/ pc[Loop] = "pass" /\ Tasks = {} /\ seen = "paused" /\ status = seen
          /\ Save(Loop, [copy[Loop] EXCEPT !.status = status], "check")
    BY <1>7 DEF Outcome
  <2>2. /\ UNCHANGED <<record, tx, seen>> /\ pc' = [pc EXCEPT ![Loop] = "queue"]
        /\ after'[Loop] = "check"
        /\ copy' = [copy EXCEPT ![Loop] = [copy[Loop] EXCEPT !.status = status]]
    BY <1>7, <2>1, OwnObjects DEF Outcome, Save, Goto
  <2>3. copy'[Loop] = [copy[Loop] EXCEPT !.status = status]
    BY <2>2
  <2>4. /\ copy'[Loop].status = status /\ copy'[Loop].base = copy[Loop].base
        /\ copy'[Loop].revision = copy[Loop].revision
    BY <2>3 DEF Job
  <2>5. pc'[Loop] = "queue" /\ \A d \in Clients \ {Loop} : pc'[d] = pc[d]
    BY <2>2
  <2>6. \A n \in Nodes : pc[n] \in {"idle", "collected"}
    BY <2>1 DEF Tasks, Unfinished
  <2>7. \A d \in Sharers : pc[d] # "execute" /\ pc'[d] # "execute"
    BY <2>1, <2>5, <2>6 DEF Sharers
  <2>8. ~Stamping /\ ~Stamping' /\ Stamped'
    BY <2>7 DEF Stamping, Stamps, Stamped
  <2>9. MergedKeeps' /\ Based'
    BY <2>2, <2>4 DEF KeepInv, MergedKeeps, Based
  <2>10. ~Working' /\ ~Spent /\ Leaving'
    BY <2>1, <2>2, <2>5 DEF Working, Continues, Saving, Spent, Leaving
  <2>11. AheadControls'
    <3>1. CASE pc[Loop] = "stop"
      <4>1. status \in ControlStatus
        BY <2>1, <3>1, ControlIsNoRun DEF LoopInv, Stopping, Continues
      <4> QED
        BY <2>4, <2>10, <4>1 DEF AheadControls
    <3>2. CASE pc[Loop] # "stop"
      <4>1. ~Leaving
        BY <2>1, <3>2 DEF Leaving, Continues, Saving
      <4>2. ~Ahead
        BY <2>10, <4>1 DEF KeepInv, AheadControls
      <4> QED
        BY <2>4, <2>8, <4>2 DEF AheadControls, Ahead
    <3> QED
      BY <3>1, <3>2
  <2> QED
    BY <2>8, <2>9, <2>10, <2>11 DEF KeepInv, Synced, Controlled
<1>8. CASE Stop
  <2>1. Tasks \in SUBSET Sharers /\ AbortSaves(Tasks) /\ Loop \notin Tasks
        /\ UNCHANGED seen /\ seen \in Protected /\ pc[Loop] = "pass"
    BY <1>8 DEF Stop, Tasks, Unfinished, Sharers
  <2>2. \A c \in Clients : pc'[c] = IF c \in Tasks THEN "stopped" ELSE IF c = Loop THEN "stop" ELSE pc[c]
    BY <1>8 DEF Stop
  <2>3. /\ pc'[Loop] = "stop" /\ \A c \in Tasks : pc'[c] # "execute"
        /\ \A c \in Sharers \ Tasks : pc[c] = "execute" <=> pc'[c] = "execute"
    BY <2>1, <2>2 DEF Sharers
  <2>4. Working /\ ~Continues("check")
    BY <2>1 DEF Working, Continues, Saving
  <2>5. Cancelling' => Cancelling
    BY <2>1, <2>2 DEF Cancelling, Tasks, Unfinished, Loop
  <2> HIDE DEF ProcessInv
  <2> QED
    BY <2>1, <2>3, <2>4, <2>5, AbortControls
<1> QED
  BY <1>1, <1>2, <1>4, <1>5, <1>6, <1>7, <1>8 DEF LoopStep

\* The steps of the requests.
LEMMA RequestStepControls ==
  ASSUME OneStore, ProcessInv, "resume" \notin Requests, RequestStep
  PROVE  KeepInv'
<1> USE ClientFacts DEF ProcessInv, StoreInv
<1>1. CASE Responds
  BY <1>1, RespondersKeepControl
<1>2. CASE "cancel" \in Requests /\ CancelTask
  <2>0. pc["cancel"] = "cancel_task" /\ UNCHANGED seen /\ Cancelling
    BY <1>2 DEF CancelTask, Cancelling
  <2>1. CASE AbortSaves({Loop})
             /\ pc' = [pc EXCEPT !["cancel"] = "settle", ![Loop] = "done", ![Converge] = "start"]
             /\ note' = NoNote
             /\ pc[Loop] \notin {"done", "conflict"}
    <3>1. PICK S \in SUBSET Sharers : S = {Loop}
      BY DEF Sharers
    <3>2. AbortSaves(S)
      BY <2>1, <3>1
    <3>3. /\ pc'[Loop] = "done" /\ pc'["cancel"] = "settle"
          /\ \A n \in Nodes : pc'[n] = pc[n]
      BY <1>2, <2>1 DEF TypeOK, Loop, Converge
    <3>4. Quiet' <=> Quiet
      BY <3>3 DEF Quiet
    <3>5. Continues("check") => Spent'
      BY <3>3, <3>4 DEF LoopInv, Deciding, Spent
    <3>6. /\ \A c \in S : pc'[c] # "execute"
          /\ \A c \in Sharers \ S : pc[c] = "execute" <=> pc'[c] = "execute"
      BY <3>1, <3>3 DEF Sharers
    <3> HIDE DEF ProcessInv
    <3> QED
      BY <2>0, <2>1, <3>2, <3>3, <3>5, <3>6, AbortControls
  <2>2. CASE Goto("cancel", "done") /\ UNCHANGED <<lock, record, copy, tx, after, note>>
    <3>1. /\ \A c \in Clients \ {"cancel"} : pc'[c] = pc[c]
          /\ pc'["cancel"] = "done" /\ UNCHANGED <<record, copy, tx, after>>
      BY <1>2, <2>2 DEF Goto, TypeOK
    <3>2. /\ pc'[Loop] = pc[Loop] /\ \A n \in Nodes : pc'[n] = pc[n]
      BY <1>2, <3>1 DEF Loop
    <3>3. Spent' <=> Spent /\ (Leaving' <=> Leaving) /\ (Working' <=> Working)
      BY <3>1, <3>2 DEF Spent, Quiet, Leaving, Working, Continues
    <3>4. \A d \in Sharers : pc'[d] = "execute" <=> pc[d] = "execute"
      BY <3>2 DEF Sharers
    <3>5. (Spent => Spent') /\ (Leaving => Leaving') /\ (Working' => Working)
      BY <3>1, <3>2 DEF Spent, Quiet, Leaving, Working, Continues
    <3> HIDE DEF ProcessInv
    <3> QED
      BY <2>0, <3>1, <3>4, <3>5, ControlKept
  <2> QED
    BY <1>2, <2>1, <2>2 DEF CancelTask
<1> QED
  BY <1>1, <1>2 DEF RequestStep, Responds

LEMMA ProcessKeeps ==
  ASSUME OneStore, "resume" \notin Requests, ProcessInv, [Next]_vars
  PROVE  ProcessInv'
<1>1. (StoreInv /\ LoopInv /\ LockInv /\ OutcomeInv)'
  BY StepKeeps, StepRests, StepLocks, StepDecides DEF ProcessInv
<1>2. CASE UNCHANGED vars
  <2>1. OneSaver'
    BY <1>2 DEF vars, ProcessInv, OneSaver, Saver, Holding
  <2>2. Stamping' <=> Stamping
    BY <1>2 DEF vars, Stamping, Stamps
  <2>3. KeepInv'
    BY <1>2, <2>2 DEF vars, ProcessInv, KeepInv, MergedKeeps, Stamped, Stamps, Based, AheadControls, Ahead,
        Spent, Quiet, Leaving, Working, Continues, Synced, Controlled, Cancelling
  <2> QED
    BY <1>1, <2>1, <2>3 DEF ProcessInv
<1>3. CASE Next
  <2>1. OneSaver'
    BY <1>3, SaveStepSaves, OtherStepSaves DEF Next, ProcessInv
  <2>2. KeepInv'
    BY <1>3, SaveStepControls, LoopStepControls, RequestStepControls DEF Next
  <2> QED
    BY <1>1, <2>1, <2>2 DEF ProcessInv
<1> QED
  BY <1>2, <1>3

LEMMA InitControls == Init => KeepInv
<1> SUFFICES ASSUME Init PROVE KeepInv
  OBVIOUS
<1> USE ClientFacts DEF Init
<1>1. NewJob.status = "running" /\ NewJob.base = 0 /\ NewJob.revision = 0 /\ NoTx.merged = FALSE
  BY DEF NewJob, NoTx
<1>2. \A c \in Clients : pc[c] \in {"idle", "collect"}
  OBVIOUS
<1>3. MergedKeeps /\ Stamped /\ ~Stamping
  BY <1>1, <1>2 DEF MergedKeeps, Stamped, Stamping, Stamps, Sharers
<1>4. AheadControls /\ Based /\ Synced
  BY <1>1, <1>3 DEF AheadControls, Ahead, Based, Synced
<1>5. Controlled
  BY <1>2 DEF Controlled, Cancelling, Protected
<1> QED
  BY <1>3, <1>4, <1>5 DEF KeepInv

\* Through one store instance and without a resume, a save by an object that
\* had not seen the record it replaces keeps the job under the control plane,
\* also when the object was never merged because an aborted save had left it
\* with the revision somebody else wrote.
THEOREM StaleSavesKeepControl ==
  ASSUME OneStore, "resume" \notin Requests
  PROVE  Spec => StaleSaveKeepsControl
<1>1. Init => ProcessInv
  BY InitKeeps, InitRests, InitLocks, InitSaves, InitDecides, InitControls DEF ProcessInv
<1>2. ProcessInv /\ [Next]_vars => ProcessInv'
  BY ProcessKeeps
<1>3. ProcessInv /\ [Next]_vars
        => [(StaleSave /\ record.status \in ControlStatus) => record'.status \in ControlStatus]_vars
  <2> SUFFICES ASSUME ProcessInv, Next, record' # record, record'.base < record.revision,
                      record.status \in ControlStatus
               PROVE  record'.status \in ControlStatus
    BY DEF StaleSave, vars
  <2> USE ClientFacts
  <2>1. ASSUME NEW c \in Clients, pc[c] = "execute", record' = tx[c].job
        PROVE  record'.status \in ControlStatus
    BY <2>1, StaleWriteControls
  <2>2. ASSUME NEW S \in SUBSET Clients, AbortSaves(S)
        PROVE  record'.status \in ControlStatus
    BY <2>1, <2>2 DEF AbortSaves, Landed
  <2>3. ASSUME NEW c \in Clients, Acquire(c) \/ SaveStep(c)
        PROVE  record'.status \in ControlStatus
    BY <2>1, <2>3
       DEF Acquire, SaveStep, Watch, ReadConflict, ReadMatch, Execute, ExecuteFails, GiveUp
  <2>4. ASSUME LoopStep
        PROVE  record'.status \in ControlStatus
    <3>1. Tasks \in SUBSET Clients
      BY DEF Tasks, Unfinished
    <3> QED
      BY <2>2, <2>4, <3>1 DEF LoopStep, ReadControl, Stop, Outcome, EnsureFailed, Respond,
                              LaunchNode, Collect, StopNode
  <2>5. ASSUME RequestStep
        PROVE  record'.status \in ControlStatus
    BY <2>2, <2>5
       DEF RequestStep, CancelRequest, CancelTask, Settle, PauseRequest, ResumeRequest,
           Restart, Interrupt, Respond
  <2> QED
    BY <2>3, <2>4, <2>5 DEF Next, NodeRuns, NodeFinishes
<1> QED
  BY <1>1, <1>2, <1>3, PTL DEF Spec, StaleSaveKeepsControl

===============================================================================
