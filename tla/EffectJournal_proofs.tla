------------------------- MODULE EffectJournal_proofs -------------------------
(***************************************************************************)
(* Proofs about the effect journal for any number of keys, executors and   *)
(* dispatches.  AtMostOnce is not inductive: that a fresh reservation may  *)
(* act needs to know that a missing row means no effect beyond those given *)
(* up for an approval, that a row has at most one owner, and where that    *)
(* owner stands relative to its effect.                                    *)
(***************************************************************************)
EXTENDS EffectJournal, TLAPS

\* An owned row exists and is not settled as confirmed.
OwnerHasRow ==
    \A e \in Executors : pc[e] \in Owning => row[KeyOf[e]] \in {"intent", "uncertain"}

\* Two executors never own the row of the same key.
SoleOwner ==
    \A e, f \in Executors :
        (pc[e] \in Owning /\ pc[f] \in Owning /\ KeyOf[e] = KeyOf[f]) => e = f

\* An executor that has not acted, stopped before acting, or gives its effect
\* up for an approval owns a key without any other effect.
NotYetActed ==
    \A e \in Executors :
        pc[e] \in {"claim", "body", "abandon_approval", "abandon_resources"}
            => effects[KeyOf[e]] = asked[KeyOf[e]]

\* An executor about to confirm did act.
HasActed ==
    \A e \in Executors :
        pc[e] \in {"acted", "confirm_get", "confirm_put"}
            => effects[KeyOf[e]] = 1 + asked[KeyOf[e]]

ConfirmedActed == \A k \in Keys : row[k] = "confirmed" => effects[k] = 1 + asked[k]

\* Only what was done is given up.
AskedActed == \A k \in Keys : asked[k] <= effects[k]

CompletedHasRow ==
    \A e \in Executors : result[e] = "completed" => row[KeyOf[e]] = "confirmed"

\* The inductive invariant.
JournalInv ==
    /\ TypeOK
    /\ OwnerHasRow
    /\ SoleOwner
    /\ NotYetActed
    /\ HasActed
    /\ AtMostOnce
    /\ EffectLeavesTrace
    /\ ConfirmedActed
    /\ AskedActed
    /\ CompletedHasRow

USE DEF Owning, InWorker, Settling

\* The invariant holds in the initial states.
THEOREM InitInv == Init => JournalInv
  BY KeyOfAssumption
     DEF Init, JournalInv, TypeOK, OwnerHasRow, SoleOwner, NotYetActed, HasActed,
         AtMostOnce, EffectLeavesTrace, ConfirmedActed, AskedActed, CompletedHasRow,
         RowStatus, Location, NodeResult

\* Every step of an executor, of time and of the sweep preserves the invariant.
\* The steps that carry the argument: Reserve may enter the body because a
\* missing row means that no effect is left; Act is the only effect and its
\* executor is the sole owner; Abandon removes a row only if every effect of the
\* key was given up for an approval; Confirm ends the ownership, so nothing of
\* this executor can overwrite the confirmation.
THEOREM StepInv == JournalInv /\ [Next]_vars => JournalInv'
<1> SUFFICES ASSUME JournalInv, [Next]_vars PROVE JournalInv'
    OBVIOUS
<1> USE KeyOfAssumption
    DEF JournalInv, TypeOK, OwnerHasRow, SoleOwner, NotYetActed, HasActed,
        AtMostOnce, EffectLeavesTrace, ConfirmedActed, AskedActed, CompletedHasRow,
        RowStatus, Location, NodeResult, Goto, Return
<1>1. ASSUME NEW e \in Executors, Dispatch(e) PROVE JournalInv'
  BY <1>1 DEF Dispatch
<1>2. ASSUME NEW e \in Executors, Reserve(e) PROVE JournalInv'
  BY <1>2 DEF Reserve, Commit, Committed, Inserted
<1>3. ASSUME NEW e \in Executors, ReserveFails(e) PROVE JournalInv'
  BY <1>3 DEF ReserveFails, MaybeCommit, Commit, Committed, Inserted
<1>4. ASSUME NEW e \in Executors, Granted(e) PROVE JournalInv'
  BY <1>4 DEF Granted
<1>5. ASSUME NEW e \in Executors, Refused(e) PROVE JournalInv'
  BY <1>5 DEF Refused
<1>6. ASSUME NEW e \in Executors, Act(e) PROVE JournalInv'
  BY <1>6 DEF Act
<1>7. ASSUME NEW e \in Executors, Succeeds(e) PROVE JournalInv'
  BY <1>7 DEF Succeeds
<1>8. ASSUME NEW e \in Executors, Fails(e) PROVE JournalInv'
  BY <1>8 DEF Fails
<1>9. ASSUME NEW e \in Executors, NeedsApproval(e) PROVE JournalInv'
  BY <1>9 DEF NeedsApproval
<1>10. ASSUME NEW e \in Executors, Cancelled(e) PROVE JournalInv'
  BY <1>10 DEF Cancelled
<1>11. ASSUME NEW e \in Executors, AdapterFault(e) PROVE JournalInv'
  BY <1>11 DEF AdapterFault
<1>12. ASSUME NEW e \in Executors, ReadRow(e) PROVE JournalInv'
  BY <1>12 DEF ReadRow
<1>13. ASSUME NEW e \in Executors, Confirm(e) PROVE JournalInv'
  BY <1>13 DEF Confirm, Commit, Committed, Replaced
<1>14. ASSUME NEW e \in Executors, MarkUncertain(e) PROVE JournalInv'
  BY <1>14 DEF MarkUncertain, Commit, Committed, Replaced
<1>15. ASSUME NEW e \in Executors, AbandonPending(e) PROVE JournalInv'
  BY <1>15 DEF AbandonPending, Commit, Committed, Deleted
<1>16. ASSUME NEW e \in Executors, SettleFault(e) PROVE JournalInv'
  BY <1>16 DEF SettleFault, MaybeCommit, Commit, Committed, Replaced, Deleted
<1>17. ASSUME NEW e \in Executors, SettleCancelled(e) PROVE JournalInv'
  BY <1>17 DEF SettleCancelled, MaybeCommit, Commit, Committed, Replaced, Deleted
<1>18. ASSUME NEW e \in Executors, Crash(e) PROVE JournalInv'
  BY <1>18 DEF Crash, MaybeCommit, Commit, Committed, Inserted, Replaced, Deleted
<1>19. ASSUME NEW k \in Keys, GraceExpires(k) PROVE JournalInv'
  BY <1>19 DEF GraceExpires
<1>20. CASE Sweep
  BY <1>20 DEF Sweep
<1>21. CASE UNCHANGED vars
  BY <1>21 DEF vars
<1> QED
  BY <1>1, <1>2, <1>3, <1>4, <1>5, <1>6, <1>7, <1>8, <1>9, <1>10, <1>11, <1>12,
     <1>13, <1>14, <1>15, <1>16, <1>17, <1>18, <1>19, <1>20, <1>21
     DEF Next, Worker

\* The invariant holds in every reachable state.
THEOREM Invariance == Spec => []JournalInv
  BY InitInv, StepInv, PTL DEF Spec

\* The variables keep their types.
THEOREM TypeCorrect == Spec => []TypeOK
<1>1. JournalInv => TypeOK
  BY DEF JournalInv
<1> QED
  BY <1>1, Invariance, PTL

\* For any number of executors dispatched for a key, crashes, cancellations and
\* journal faults, its body acts at most once more than it gave up by acting and
\* then asking for approval.
THEOREM AtMostOnceHolds == Spec => []AtMostOnce
<1>1. JournalInv => AtMostOnce
  BY DEF JournalInv
<1> QED
  BY <1>1, Invariance, PTL

\* The journal never loses the row of a key with an effect that was not given
\* up for an approval.
THEOREM EffectLeavesTraceHolds == Spec => []EffectLeavesTrace
<1>1. JournalInv => EffectLeavesTrace
  BY DEF JournalInv
<1> QED
  BY <1>1, Invariance, PTL

\* The key of a completed node is confirmed in the journal and has exactly one
\* effect that was not given up for an approval.
THEOREM CompletedIsConfirmedHolds == Spec => []CompletedIsConfirmed
<1>1. JournalInv => CompletedIsConfirmed
  BY KeyOfAssumption
     DEF JournalInv, CompletedIsConfirmed, CompletedHasRow, ConfirmedActed
<1> QED
  BY <1>1, Invariance, PTL

\* What one statement of an owner, or of an executor that reserves, can make of
\* a row that is already settled.
LEMMA SettledRow ==
  ASSUME JournalInv, NEW e \in Executors, NEW k \in Keys, MaybeCommit(e)
  PROVE  /\ row[k] = "confirmed" => row'[k] = "confirmed"
         /\ row[k] = "uncertain" => row'[k] \in {"uncertain", "confirmed"}
  BY KeyOfAssumption
     DEF JournalInv, TypeOK, OwnerHasRow, MaybeCommit, Commit, Committed,
         Inserted, Replaced, Deleted

\* No step takes a confirmation back, and no step deletes an uncertain row.
LEMMA SettledStep ==
  ASSUME JournalInv, [Next]_vars, NEW k \in Keys
  PROVE  /\ row[k] = "confirmed" => row'[k] = "confirmed"
         /\ row[k] = "uncertain" => row'[k] \in {"uncertain", "confirmed"}
<1>1. ASSUME NEW e \in Executors, Dispatch(e) \/ Worker(e)
      PROVE  MaybeCommit(e)
  BY <1>1 DEF Worker, MaybeCommit, Dispatch, Reserve, ReserveFails, Granted,
     Refused, Act, Succeeds, Fails, NeedsApproval, Cancelled, AdapterFault,
     ReadRow, Confirm, MarkUncertain, AbandonPending, SettleFault,
     SettleCancelled, Crash
<1>2. CASE \E e \in Executors : Dispatch(e) \/ Worker(e)
  BY <1>1, <1>2, SettledRow
<1>3. CASE \E j \in Keys : GraceExpires(j)
  BY <1>3 DEF GraceExpires
<1>4. CASE Sweep
  BY <1>4 DEF Sweep
<1>5. CASE UNCHANGED vars
  BY <1>5 DEF vars
<1> QED
  BY <1>2, <1>3, <1>4, <1>5 DEF Next

\* A confirmed row stays confirmed in every behaviour.
THEOREM ConfirmedIsFinalHolds == Spec => ConfirmedIsFinal
<1>1. JournalInv /\ [Next]_vars
        => [\A k \in Keys : row[k] = "confirmed" => row'[k] = "confirmed"]_vars
  BY SettledStep
<1> QED
  BY <1>1, Invariance, PTL DEF Spec, ConfirmedIsFinal

\* An uncertain row is never deleted, so its effect is never retried.
THEOREM UncertainBlocksRetryHolds == Spec => UncertainBlocksRetry
<1>1. JournalInv /\ [Next]_vars
        => [\A k \in Keys : row[k] = "uncertain" => row'[k] \in {"uncertain", "confirmed"}]_vars
  BY SettledStep
<1> QED
  BY <1>1, Invariance, PTL DEF Spec, UncertainBlocksRetry

===============================================================================
