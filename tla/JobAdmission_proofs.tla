------------------------- MODULE JobAdmission_proofs -------------------------
(***************************************************************************)
(* Proofs about JobAdmission, for every set of jobs, users and processes   *)
(* and for all limits: the variables keep their types, no table ever       *)
(* holds more than the limits allow, and, without the two races of the     *)
(* module, a job that executes nodes has a slot unless its activation      *)
(* found the old one still there and nobody has renewed it since.          *)
(*                                                                         *)
(* The tables are changed through Stamped, Unlisted, Untokened and the     *)
(* insertion of a token only, so the argument is about these four: an      *)
(* insertion looks at the limit first, all else takes entries out, and     *)
(* each of them changes the entries of one job.                            *)
(***************************************************************************)
EXTENDS JobAdmission, FiniteSetTheorems, TLAPS

SlotsType ==
    [inflight : [Tables -> SUBSET Jobs],
     left : [Tables -> [Jobs -> 0..Lease]],
     listed : [Tables -> [Jobs -> SUBSET Lists]],
     ttl : [Jobs -> 0..Lease]]

Quotas(s) ==
    \A t \in Tables : /\ Cardinality(InAll(s, t)) <= GlobalLimit
                      /\ \A u \in Users : Cardinality(OfUser(s, t, u)) <= UserLimit
                      /\ Cardinality(s.inflight[t]) <= InflightLimit

Good(s) == s \in SlotsType /\ Quotas(s)

Rest ==
    /\ status \in [Jobs -> Statuses]
    /\ pc \in [Jobs -> Submitting \cup {"new", "run", "wait", "leave", "over"}]
    /\ cleanup \in [Jobs -> {"no", "read", "release", "stop"}]
    /\ asked \in [Jobs -> BOOLEAN]
    /\ beat \in [Jobs -> {"off", "asleep", "due", "release", "renew", "lost"}]

FaultsType == faults \in 0..MaxFaults

IInv == Good(Slots) /\ Rest /\ FaultsType

(* ----------------------------- finite sets ----------------------------- *)

\* The sets that are counted are finite, whatever the tables hold.
LEMMA CountedSetsFinite ==
    ASSUME NEW s \in SlotsType, NEW t \in Tables
    PROVE  /\ IsFiniteSet(InAll(s, t))
           /\ \A u \in Users : IsFiniteSet(OfUser(s, t, u))
           /\ IsFiniteSet(s.inflight[t])
<1>1. IsFiniteSet(Jobs)
    BY JobsAssumption
<1>2. InAll(s, t) \subseteq Jobs /\ \A u \in Users : OfUser(s, t, u) \subseteq Jobs
    BY DEF InAll, OfUser
<1>3. s.inflight[t] \subseteq Jobs
    BY DEF SlotsType
<1> QED
    BY <1>1, <1>2, <1>3, FS_Subset

\* A set that is under its limit, or has the element, takes the element.
LEMMA RoomForOne ==
    ASSUME NEW A, IsFiniteSet(A), NEW n \in Nat, NEW x,
           Cardinality(A) <= n, x \in A \/ ~(Cardinality(A) >= n)
    PROVE  Cardinality(A \cup {x}) <= n
<1>1. Cardinality(A) \in Nat
    BY FS_CardinalityType
<1>2. CASE x \in A
    <2>1. A \cup {x} = A
        BY <1>2
    <2> QED
        BY <2>1
<1>3. CASE x \notin A
    <2>1. Cardinality(A \cup {x}) = Cardinality(A) + 1
        BY <1>3, FS_AddElement
    <2> QED
        BY <1>1, <1>3, <2>1
<1> QED
    BY <1>2, <1>3

LEMMA FewerIsFewer ==
    ASSUME NEW A, NEW B, IsFiniteSet(A), B \subseteq A, NEW n \in Nat,
           Cardinality(A) <= n
    PROVE  Cardinality(B) <= n
<1>1. IsFiniteSet(B) /\ Cardinality(B) <= Cardinality(A)
    BY FS_Subset
<1>2. Cardinality(A) \in Nat /\ Cardinality(B) \in Nat
    BY <1>1, FS_CardinalityType
<1> QED
    BY <1>1, <1>2

(* -------------------------- what a table keeps ------------------------- *)

\* Entries taken out of the tables leave the limits intact.
LEMMA ShrunkIsGood ==
    ASSUME NEW s, Good(s), NEW r \in SlotsType,
           \A t \in Tables : /\ r.inflight[t] \subseteq s.inflight[t]
                             /\ \A j \in Jobs : r.listed[t][j] \subseteq s.listed[t][j]
    PROVE  Good(r)
<1>1. SUFFICES ASSUME NEW t \in Tables
               PROVE  /\ Cardinality(InAll(r, t)) <= GlobalLimit
                      /\ \A u \in Users : Cardinality(OfUser(r, t, u)) <= UserLimit
                      /\ Cardinality(r.inflight[t]) <= InflightLimit
    BY DEF Good, Quotas
<1>2. s \in SlotsType
    BY DEF Good
<1>3. {GlobalLimit, UserLimit, InflightLimit} \subseteq Nat
    BY LimitsAssumption
<1>4. Cardinality(InAll(r, t)) <= GlobalLimit
    <2>1. InAll(r, t) \subseteq InAll(s, t)
        BY DEF InAll
    <2>2. Cardinality(InAll(s, t)) <= GlobalLimit
        BY DEF Good, Quotas
    <2> QED
        BY <1>2, <1>3, <2>1, <2>2, CountedSetsFinite, FewerIsFewer
<1>5. ASSUME NEW u \in Users PROVE Cardinality(OfUser(r, t, u)) <= UserLimit
    <2>1. OfUser(r, t, u) \subseteq OfUser(s, t, u)
        BY DEF OfUser
    <2>2. Cardinality(OfUser(s, t, u)) <= UserLimit
        BY DEF Good, Quotas
    <2> QED
        BY <1>2, <1>3, <2>1, <2>2, CountedSetsFinite, FewerIsFewer
<1>6. Cardinality(r.inflight[t]) <= InflightLimit
    <2>1. Cardinality(s.inflight[t]) <= InflightLimit
        BY DEF Good, Quotas
    <2> QED
        BY <1>2, <1>3, <2>1, CountedSetsFinite, FewerIsFewer
<1> QED
    BY <1>4, <1>5, <1>6

LEMMA StampedIsGood ==
    ASSUME NEW s, Good(s), NEW t \in Tables, NEW j \in Jobs,
           "all" \in s.listed[t][j] \/ ~Full(s, t, j),
           "user" \in s.listed[t][j] \/ ~UserFull(s, t, j)
    PROVE  Good(Stamped(s, t, j))
<1> DEFINE r == Stamped(s, t, j)
<1>1. s \in SlotsType
    BY DEF Good
<1>2. r \in SlotsType
    <2>1. Lease \in 0..Lease /\ Lists \in SUBSET Lists
        BY LeaseAssumption
    <2> DEFINE time == IF t = "redis" THEN Lease ELSE s.ttl[j]
    <2>3. time \in 0..Lease
        BY <1>1, <2>1 DEF SlotsType
    <2>2. r = [inflight |-> s.inflight,
               left |-> [s.left EXCEPT ![t] = [s.left[t] EXCEPT ![j] = Lease]],
               listed |-> [s.listed EXCEPT ![t] = [s.listed[t] EXCEPT ![j] = Lists]],
               ttl |-> [s.ttl EXCEPT ![j] = time]]
        <3>1. r = [s EXCEPT !.left = [s.left EXCEPT ![t] = [s.left[t] EXCEPT ![j] = Lease]],
                            !.listed = [s.listed EXCEPT ![t] = [s.listed[t] EXCEPT ![j] = Lists]],
                            !.ttl = [s.ttl EXCEPT ![j] = time]]
            BY Zenon DEF Stamped
        <3> QED
            BY <1>1, <3>1 DEF SlotsType
    <2> QED
        BY <1>1, <2>1, <2>2, <2>3 DEF SlotsType
<1>3. /\ r.inflight = s.inflight
      /\ \A t2 \in Tables, k \in Jobs :
            r.listed[t2][k] = IF t2 = t /\ k = j THEN Lists ELSE s.listed[t2][k]
    BY <1>1 DEF SlotsType, Stamped
<1>4. {GlobalLimit, UserLimit} \subseteq Nat
    BY LimitsAssumption
<1>5. SUFFICES ASSUME NEW t2 \in Tables
               PROVE  /\ Cardinality(InAll(r, t2)) <= GlobalLimit
                      /\ \A u \in Users : Cardinality(OfUser(r, t2, u)) <= UserLimit
                      /\ Cardinality(r.inflight[t2]) <= InflightLimit
    BY <1>2 DEF Good, Quotas
<1>6. /\ Cardinality(InAll(s, t2)) <= GlobalLimit
      /\ \A u \in Users : Cardinality(OfUser(s, t2, u)) <= UserLimit
      /\ Cardinality(s.inflight[t2]) <= InflightLimit
    BY DEF Good, Quotas
<1>7. Cardinality(InAll(r, t2)) <= GlobalLimit
    <2>1. CASE t2 = t
        <3>1. InAll(r, t2) = InAll(s, t) \cup {j}
            BY <1>3, <2>1 DEF InAll, Lists
        <3>2. j \in InAll(s, t) \/ ~(Cardinality(InAll(s, t)) >= GlobalLimit)
            BY DEF InAll, Full
        <3>3. IsFiniteSet(InAll(s, t))
            BY <1>1, CountedSetsFinite
        <3> QED
            BY <1>4, <1>6, <2>1, <3>1, <3>2, <3>3, RoomForOne
    <2>2. CASE t2 # t
        <3>1. InAll(r, t2) = InAll(s, t2)
            BY <1>3, <2>2 DEF InAll
        <3> QED
            BY <1>6, <3>1
    <2> QED
        BY <2>1, <2>2
<1>8. ASSUME NEW u \in Users PROVE Cardinality(OfUser(r, t2, u)) <= UserLimit
    <2>1. CASE t2 = t /\ u = UserOf[j]
        <3>1. OfUser(r, t2, u) = OfUser(s, t, u) \cup {j}
            BY <1>3, <2>1 DEF OfUser, Lists
        <3>2. j \in OfUser(s, t, u) \/ ~(Cardinality(OfUser(s, t, u)) >= UserLimit)
            BY <2>1 DEF OfUser, UserFull
        <3>3. IsFiniteSet(OfUser(s, t, u))
            BY <1>1, CountedSetsFinite
        <3> QED
            BY <1>4, <1>6, <2>1, <3>1, <3>2, <3>3, RoomForOne
    <2>2. CASE t2 # t \/ u # UserOf[j]
        <3>1. OfUser(r, t2, u) = OfUser(s, t2, u)
            BY <1>3, <2>2 DEF OfUser
        <3> QED
            BY <1>6, <3>1
    <2> QED
        BY <2>1, <2>2
<1> QED
    BY <1>3, <1>6, <1>7, <1>8

LEMMA RestampedIsGood ==
    ASSUME NEW s, Good(s), NEW t \in Tables, NEW j \in Jobs, Holds(s, t, j)
    PROVE  Good(Restamped(s, t, j))
<1> DEFINE r == Stamped(s, t, j)
           q == Restamped(s, t, j)
<1>1. Good(r) /\ r \in SlotsType /\ s \in SlotsType
    BY StampedIsGood DEF Good, Holds, Lists
<1>2. q = [r EXCEPT !.ttl = [r.ttl EXCEPT ![j] = s.ttl[j]]]
    BY Zenon DEF Restamped
<1> HIDE DEF r, q
<1>3. q \in SlotsType /\ q.inflight = r.inflight /\ q.listed = r.listed
    BY <1>1, <1>2 DEF SlotsType
<1>4. Good(q)
    BY <1>1, <1>3, ShrunkIsGood
<1> QED
    BY <1>4 DEF q

LEMMA UnlistedIsGood ==
    ASSUME NEW s, Good(s), NEW t \in Tables, NEW j \in Jobs, NEW lists
    PROVE  Good(Unlisted(s, t, j, lists))
<1> DEFINE r == Unlisted(s, t, j, lists)
<1>1. s \in SlotsType
    BY DEF Good
<1>2. r \in SlotsType
    <2> DEFINE time == IF s.listed[t][j] \subseteq lists THEN 0 ELSE s.left[t][j]
    <2> DEFINE empty == \A k \in Jobs : s.listed["redis"][k] \subseteq
                                     IF t = "redis" /\ k = j THEN lists ELSE {}
    <2> DEFINE times == IF empty THEN [k \in Jobs |-> 0] ELSE s.ttl
    <2>1. time \in 0..Lease /\ s.listed[t][j] \ lists \in SUBSET Lists
          /\ times \in [Jobs -> 0..Lease]
        BY <1>1, LeaseAssumption DEF SlotsType
    <2>2. r = [inflight |-> s.inflight,
               left |-> [s.left EXCEPT ![t] = [s.left[t] EXCEPT ![j] = time]],
               listed |-> [s.listed EXCEPT
                              ![t] = [s.listed[t] EXCEPT ![j] = s.listed[t][j] \ lists]],
               ttl |-> times]
        <3>1. r = [s EXCEPT
                      !.listed = [s.listed EXCEPT
                              ![t] = [s.listed[t] EXCEPT ![j] = s.listed[t][j] \ lists]],
                      !.left = [s.left EXCEPT ![t] = [s.left[t] EXCEPT ![j] = time]],
                      !.ttl = times]
            BY Zenon DEF Unlisted
        <3> HIDE DEF time, times
        <3> QED
            BY <1>1, <3>1 DEF SlotsType
    <2> QED
        BY <1>1, <2>1, <2>2 DEF SlotsType
<1>3. \A t2 \in Tables : /\ r.inflight[t2] \subseteq s.inflight[t2]
                         /\ \A k \in Jobs : r.listed[t2][k] \subseteq s.listed[t2][k]
    BY <1>1 DEF SlotsType, Unlisted
<1> QED
    BY <1>2, <1>3, ShrunkIsGood

LEMMA UntokenedIsGood ==
    ASSUME NEW s, Good(s), NEW t \in Tables, NEW j \in Jobs
    PROVE  Good(Untokened(s, t, j)) /\ Untokened(s, t, j).listed = s.listed
<1> DEFINE r == Untokened(s, t, j)
<1>1. s \in SlotsType
    BY DEF Good
<1>2. r \in SlotsType /\ r.listed = s.listed
    BY <1>1 DEF SlotsType, Untokened
<1>3. \A t2 \in Tables : /\ r.inflight[t2] \subseteq s.inflight[t2]
                         /\ \A k \in Jobs : r.listed[t2][k] \subseteq s.listed[t2][k]
    BY <1>1 DEF SlotsType, Untokened
<1> QED
    BY <1>2, <1>3, ShrunkIsGood

(* --------------------------- what a call keeps ------------------------- *)

\* One step per operation of the kernel.
LEMMA OperationsAreGood ==
    ASSUME NEW s, Good(s), NEW t \in Tables, NEW j \in Jobs
    PROVE  /\ Good(Reserve(s, t, j).slots)
           /\ Good(Promote(s, t, j).slots)
           /\ Good(Renew(s, t, j).slots)
           /\ Good(Activate(s, t, j).slots)
           /\ Good(Drop(s, t, j).slots)
           /\ Good(DropToken(s, t, j).slots)
<1>1. s \in SlotsType
    BY DEF Good
<1>2. Good(Reserve(s, t, j).slots)
    <2>1. CASE Cardinality(s.inflight[t]) >= InflightLimit
        BY <2>1 DEF Reserve, No
    <2>2. CASE ~(Cardinality(s.inflight[t]) >= InflightLimit)
        <3> DEFINE r == [s EXCEPT !.inflight[t] = @ \cup {j}]
        <3>1. r = [s EXCEPT !.inflight = [s.inflight EXCEPT ![t] = s.inflight[t] \cup {j}]]
            BY Zenon
        <3>2. r \in SlotsType /\ r.listed = s.listed
            BY <1>1, <3>1 DEF SlotsType
        <3>3. \A t2 \in Tables : r.inflight[t2] =
                  IF t2 = t THEN s.inflight[t] \cup {j} ELSE s.inflight[t2]
            BY <1>1, <3>1 DEF SlotsType
        <3>4. InflightLimit \in Nat /\ IsFiniteSet(s.inflight[t])
              /\ Cardinality(s.inflight[t]) <= InflightLimit
            BY <1>1, CountedSetsFinite, LimitsAssumption DEF Good, Quotas
        <3>5. Cardinality(s.inflight[t] \cup {j}) <= InflightLimit
            BY <2>2, <3>4, RoomForOne
        <3>6. \A t2 \in Tables : Cardinality(r.inflight[t2]) <= InflightLimit
            BY <3>3, <3>5 DEF Good, Quotas
        <3>7. \A t2 \in Tables : /\ InAll(r, t2) = InAll(s, t2)
                                 /\ \A u : OfUser(r, t2, u) = OfUser(s, t2, u)
            BY <3>2 DEF InAll, OfUser
        <3>8. Good(r)
            BY <3>2, <3>6, <3>7 DEF Good, Quotas
        <3> QED
            BY <2>2, <3>8 DEF Reserve, Yes
    <2> QED
        BY <2>1, <2>2
<1>3. Good(Promote(s, t, j).slots)
    <2> DEFINE r == Untokened(s, t, j)
    <2>1. Good(r) /\ r.listed = s.listed
        BY UntokenedIsGood
    <2>2. CASE Full(s, t, j) \/ UserFull(s, t, j)
        BY <2>1, <2>2 DEF Promote, No
    <2>3. CASE ~(Full(s, t, j) \/ UserFull(s, t, j))
        <3>1. ~Full(r, t, j) /\ ~UserFull(r, t, j)
            BY <2>1, <2>3 DEF Full, UserFull, InAll, OfUser
        <3>2. Good(Stamped(r, t, j))
            BY <2>1, <3>1, StampedIsGood
        <3> QED
            BY <2>3, <3>2 DEF Promote, Yes
    <2> QED
        BY <2>2, <2>3
<1>4. Good(Renew(s, t, j).slots)
    <2>1. CASE Holds(s, t, j)
        <3>1. Good(Stamped(s, t, j))
            BY <2>1, StampedIsGood DEF Holds, Lists
        <3> QED
            BY <2>1, <3>1 DEF Renew, Yes
    <2>2. CASE ~Holds(s, t, j)
        BY <2>2 DEF Renew, No
    <2> QED
        BY <2>1, <2>2
<1>5. Good(Activate(s, t, j).slots)
    <2> DEFINE room == /\ ~Full(s, t, j) \/ (t # "redis" /\ "all" \in s.listed[t][j])
                       /\ ~UserFull(s, t, j) \/ (t # "redis" /\ "user" \in s.listed[t][j])
    <2>1. CASE Holds(s, t, j)
        BY <2>1, RestampedIsGood DEF Activate, Yes
    <2>2. CASE ~Holds(s, t, j) /\ room
        <3>1. /\ "all" \in s.listed[t][j] \/ ~Full(s, t, j)
              /\ "user" \in s.listed[t][j] \/ ~UserFull(s, t, j)
            BY <2>2
        <3>2. Good(Stamped(s, t, j))
            BY <3>1, StampedIsGood
        <3> QED
            BY <2>2, <3>2 DEF Activate, Yes
    <2>3. CASE ~Holds(s, t, j) /\ ~room
        BY <2>3 DEF Activate, No
    <2> QED
        BY <2>1, <2>2, <2>3
<1>6. Good(Drop(s, t, j).slots)
    BY UnlistedIsGood DEF Drop, Yes
<1>7. Good(DropToken(s, t, j).slots)
    BY UntokenedIsGood DEF DropToken, Yes
<1> QED
    BY <1>2, <1>3, <1>4, <1>5, <1>6, <1>7

\* The tables that a call writes are those it has computed.
LEMMA WrittenIsGood ==
    ASSUME NEW s, Good(s), SetSlots(s)
    PROVE  Good(Slots)'
<1>1. Slots' = s
    BY DEF Good, SlotsType, SetSlots, Slots
<1>2. Good(Slots')
    BY <1>1
<1> QED
    BY <1>2 DEF Good, Quotas, SlotsType, InAll, OfUser, Slots

LEMMA OwnTable ==
    ASSUME NEW j \in Jobs PROVE ProcessOf[j] \in Tables /\ "redis" \in Tables
BY JobsAssumption DEF Tables

\* A local answer finds the tables as they were, or as the script left them.
LEMMA CallsAreGood ==
    ASSUME Good(Slots), FaultsType, NEW j \in Jobs, NEW granted,
           \/ Call(Reserve, j, granted) \/ Call(Promote, j, granted)
           \/ Call(Renew, j, granted) \/ Call(Activate, j, granted)
           \/ Call(Drop, j, granted) \/ Call(DropToken, j, granted)
    PROVE  Good(Slots)' /\ FaultsType'
<1>1. MaxFaults \in Nat /\ faults \in Nat
    BY LimitsAssumption DEF FaultsType
<1>2. ProcessOf[j] \in Tables /\ "redis" \in Tables
    BY OwnTable
<1>3. CASE Call(Reserve, j, granted)
    <2>1. PICK a \in Answers(Reserve, j) :
              /\ faults' = faults + a.fault /\ faults + a.fault <= MaxFaults
              /\ SetSlots(a.answer.slots)
        BY <1>3 DEF Call
    <2>2. a.fault \in {0, 1} /\ Good(a.answer.slots)
        <3> DEFINE late == Reserve(Slots, "redis", j).slots
        <3>1. \/ a = [answer |-> Reserve(Slots, "redis", j), fault |-> 0]
              \/ a = [answer |-> Reserve(Slots, ProcessOf[j], j), fault |-> 1]
              \/ a = [answer |-> Reserve(late, ProcessOf[j], j), fault |-> 1]
            BY <2>1 DEF Answers
        <3>2. /\ Good(late)
              /\ Good(Reserve(Slots, ProcessOf[j], j).slots)
            BY <1>2, OperationsAreGood
        <3>3. Good(Reserve(late, ProcessOf[j], j).slots)
            BY <1>2, <3>2, OperationsAreGood
        <3> QED
            BY <3>1, <3>2, <3>3
    <2> QED
        BY <1>1, <2>1, <2>2, WrittenIsGood DEF FaultsType
<1>4. CASE Call(Promote, j, granted)
    <2>1. PICK a \in Answers(Promote, j) :
              /\ faults' = faults + a.fault /\ faults + a.fault <= MaxFaults
              /\ SetSlots(a.answer.slots)
        BY <1>4 DEF Call
    <2>2. a.fault \in {0, 1} /\ Good(a.answer.slots)
        <3> DEFINE late == Promote(Slots, "redis", j).slots
        <3>1. \/ a = [answer |-> Promote(Slots, "redis", j), fault |-> 0]
              \/ a = [answer |-> Promote(Slots, ProcessOf[j], j), fault |-> 1]
              \/ a = [answer |-> Promote(late, ProcessOf[j], j), fault |-> 1]
            BY <2>1 DEF Answers
        <3>2. /\ Good(late)
              /\ Good(Promote(Slots, ProcessOf[j], j).slots)
            BY <1>2, OperationsAreGood
        <3>3. Good(Promote(late, ProcessOf[j], j).slots)
            BY <1>2, <3>2, OperationsAreGood
        <3> QED
            BY <3>1, <3>2, <3>3
    <2> QED
        BY <1>1, <2>1, <2>2, WrittenIsGood DEF FaultsType
<1>5. CASE Call(Renew, j, granted)
    <2>1. PICK a \in Answers(Renew, j) :
              /\ faults' = faults + a.fault /\ faults + a.fault <= MaxFaults
              /\ SetSlots(a.answer.slots)
        BY <1>5 DEF Call
    <2>2. a.fault \in {0, 1} /\ Good(a.answer.slots)
        <3> DEFINE late == Renew(Slots, "redis", j).slots
        <3>1. \/ a = [answer |-> Renew(Slots, "redis", j), fault |-> 0]
              \/ a = [answer |-> Renew(Slots, ProcessOf[j], j), fault |-> 1]
              \/ a = [answer |-> Renew(late, ProcessOf[j], j), fault |-> 1]
            BY <2>1 DEF Answers
        <3>2. /\ Good(late)
              /\ Good(Renew(Slots, ProcessOf[j], j).slots)
            BY <1>2, OperationsAreGood
        <3>3. Good(Renew(late, ProcessOf[j], j).slots)
            BY <1>2, <3>2, OperationsAreGood
        <3> QED
            BY <3>1, <3>2, <3>3
    <2> QED
        BY <1>1, <2>1, <2>2, WrittenIsGood DEF FaultsType
<1>6. CASE Call(Activate, j, granted)
    <2>1. PICK a \in Answers(Activate, j) :
              /\ faults' = faults + a.fault /\ faults + a.fault <= MaxFaults
              /\ SetSlots(a.answer.slots)
        BY <1>6 DEF Call
    <2>2. a.fault \in {0, 1} /\ Good(a.answer.slots)
        <3> DEFINE late == Activate(Slots, "redis", j).slots
        <3>1. \/ a = [answer |-> Activate(Slots, "redis", j), fault |-> 0]
              \/ a = [answer |-> Activate(Slots, ProcessOf[j], j), fault |-> 1]
              \/ a = [answer |-> Activate(late, ProcessOf[j], j), fault |-> 1]
            BY <2>1 DEF Answers
        <3>2. /\ Good(late)
              /\ Good(Activate(Slots, ProcessOf[j], j).slots)
            BY <1>2, OperationsAreGood
        <3>3. Good(Activate(late, ProcessOf[j], j).slots)
            BY <1>2, <3>2, OperationsAreGood
        <3> QED
            BY <3>1, <3>2, <3>3
    <2> QED
        BY <1>1, <2>1, <2>2, WrittenIsGood DEF FaultsType
<1>7. CASE Call(Drop, j, granted)
    <2>1. PICK a \in Answers(Drop, j) :
              /\ faults' = faults + a.fault /\ faults + a.fault <= MaxFaults
              /\ SetSlots(a.answer.slots)
        BY <1>7 DEF Call
    <2>2. a.fault \in {0, 1} /\ Good(a.answer.slots)
        <3> DEFINE late == Drop(Slots, "redis", j).slots
        <3>1. \/ a = [answer |-> Drop(Slots, "redis", j), fault |-> 0]
              \/ a = [answer |-> Drop(Slots, ProcessOf[j], j), fault |-> 1]
              \/ a = [answer |-> Drop(late, ProcessOf[j], j), fault |-> 1]
            BY <2>1 DEF Answers
        <3>2. /\ Good(late)
              /\ Good(Drop(Slots, ProcessOf[j], j).slots)
            BY <1>2, OperationsAreGood
        <3>3. Good(Drop(late, ProcessOf[j], j).slots)
            BY <1>2, <3>2, OperationsAreGood
        <3> QED
            BY <3>1, <3>2, <3>3
    <2> QED
        BY <1>1, <2>1, <2>2, WrittenIsGood DEF FaultsType
<1>8. CASE Call(DropToken, j, granted)
    <2>1. PICK a \in Answers(DropToken, j) :
              /\ faults' = faults + a.fault /\ faults + a.fault <= MaxFaults
              /\ SetSlots(a.answer.slots)
        BY <1>8 DEF Call
    <2>2. a.fault \in {0, 1} /\ Good(a.answer.slots)
        <3> DEFINE late == DropToken(Slots, "redis", j).slots
        <3>1. \/ a = [answer |-> DropToken(Slots, "redis", j), fault |-> 0]
              \/ a = [answer |-> DropToken(Slots, ProcessOf[j], j), fault |-> 1]
              \/ a = [answer |-> DropToken(late, ProcessOf[j], j), fault |-> 1]
            BY <2>1 DEF Answers
        <3>2. /\ Good(late)
              /\ Good(DropToken(Slots, ProcessOf[j], j).slots)
            BY <1>2, OperationsAreGood
        <3>3. Good(DropToken(late, ProcessOf[j], j).slots)
            BY <1>2, <3>2, OperationsAreGood
        <3> QED
            BY <3>1, <3>2, <3>3
    <2> QED
        BY <1>1, <2>1, <2>2, WrittenIsGood DEF FaultsType
<1> QED
    BY <1>3, <1>4, <1>5, <1>6, <1>7, <1>8

\* release may fail between its two statements.
LEMMA ReleaseIsGood ==
    ASSUME Good(Slots), FaultsType, NEW j \in Jobs, ReleaseJob(j)
    PROVE  Good(Slots)' /\ FaultsType'
<1>1. CASE Call(Drop, j, TRUE)
    BY <1>1, CallsAreGood
<1>2. CASE /\ faults < MaxFaults
           /\ faults' = faults + 1
           /\ SetSlots(Unlisted(Unlisted(Slots, "redis", j, {"all"}), ProcessOf[j], j, Lists))
    <2>1. Good(Unlisted(Slots, "redis", j, {"all"}))
        BY OwnTable, UnlistedIsGood
    <2>2. Good(Unlisted(Unlisted(Slots, "redis", j, {"all"}), ProcessOf[j], j, Lists))
        BY <2>1, OwnTable, UnlistedIsGood
    <2>3. FaultsType'
        BY <1>2, LimitsAssumption DEF FaultsType
    <2> QED
        BY <1>2, <2>2, <2>3, WrittenIsGood
<1> QED
    BY <1>1, <1>2 DEF ReleaseJob

\* The tables that a step leaves smaller than they were.
LEMMA SmallerIsGood ==
    ASSUME Good(Slots), Slots' \in SlotsType,
           \A t \in Tables : /\ inflight'[t] \subseteq inflight[t]
                             /\ \A j \in Jobs : listed'[t][j] \subseteq listed[t][j]
    PROVE  Good(Slots)'
<1>1. Good(Slots')
    BY ShrunkIsGood DEF Slots
<1> QED
    BY <1>1 DEF Good, Quotas, SlotsType, InAll, OfUser, Slots

(* ------------------------- the inductive invariant --------------------- *)

LEMMA InitIsGood == Init => IInv
<1> SUFFICES ASSUME Init PROVE IInv
    OBVIOUS
<1>1. Slots \in SlotsType
    BY LeaseAssumption DEF Init, Slots, SlotsType
<1>2. \A t \in Tables : /\ InAll(Slots, t) = {}
                        /\ \A u \in Users : OfUser(Slots, t, u) = {}
                        /\ Slots.inflight[t] = {}
    BY DEF Init, Slots, InAll, OfUser
<1>3. Quotas(Slots)
    BY <1>2, FS_EmptySet, LimitsAssumption DEF Quotas
<1> QED
    BY <1>1, <1>3, LimitsAssumption
    DEF Init, IInv, Good, Rest, FaultsType, Statuses, Submitting

\* Steps that leave the tables alone.
LEMMA SameTablesAreGood ==
    ASSUME Good(Slots), FaultsType, UNCHANGED <<slots, faults>>
    PROVE  Good(Slots)' /\ FaultsType'
<1>1. Slots' = Slots
    BY DEF slots, Slots
<1>2. Good(Slots)'
    BY <1>1 DEF Good, Quotas, InAll, OfUser, SlotsType
<1> QED
    BY <1>2 DEF FaultsType

\* Steps of a heartbeat.
LEMMA HeartbeatIsGood ==
    ASSUME IInv, NEW j \in Jobs, HeartbeatStep(j)
    PROVE  IInv'
<1> USE DEF IInv, Rest
<1>1. CASE BeatReads(j)
    <2>1. Good(Slots)' /\ FaultsType'
        BY <1>1, SameTablesAreGood DEF BeatReads
    <2> QED
        BY <1>1, <2>1 DEF BeatReads, Beat, SetStatus, Statuses
<1>2. CASE BeatReleases(j)
    <2>1. Good(Slots)' /\ FaultsType'
        BY <1>2, ReleaseIsGood DEF BeatReleases
    <2> QED
        BY <1>2, <2>1 DEF BeatReleases, Beat
<1>3. CASE BeatRenews(j)
    <2>1. Good(Slots)' /\ FaultsType'
        BY <1>3, CallsAreGood DEF BeatRenews
    <2> QED
        BY <1>3, <2>1 DEF BeatRenews, Beat
<1>4. CASE BeatInterrupts(j)
    <2>1. Good(Slots)' /\ FaultsType'
        BY <1>4, SameTablesAreGood DEF BeatInterrupts
    <2> QED
        BY <1>4, <2>1 DEF BeatInterrupts, Beat, SetStatus, Statuses
<1> QED
    BY <1>1, <1>2, <1>3, <1>4 DEF HeartbeatStep

\* Steps of a submission.
LEMMA SubmissionIsGood ==
    ASSUME IInv, NEW j \in Jobs, Submission(j)
    PROVE  IInv'
<1> USE DEF IInv, Rest
<1>1. CASE Guard(j)
    <2>1. PICK t \in Tables, E \in SUBSET Jobs :
              /\ listed' = [listed EXCEPT ![t] = [k \in Jobs |-> IF k \in E THEN {} ELSE @[k]]]
              /\ left' = [left EXCEPT ![t] = [k \in Jobs |-> IF k \in E THEN 0 ELSE @[k]]]
        <3> DEFINE mine == {k \in Jobs : UserOf[k] = UserOf[j]}
        <3> DEFINE ended == {k \in mine : status[k] = Ended}
        <3> DEFINE Swept(t) ==
               /\ listed' = [listed EXCEPT ![t] = [k \in Jobs |-> IF k \in ended THEN {} ELSE @[k]]]
               /\ left' = [left EXCEPT ![t] = [k \in Jobs |-> IF k \in ended THEN 0 ELSE @[k]]]
        <3>1. Swept("redis") \/ Swept(ProcessOf[j])
            BY <1>1 DEF Guard
        <3>2. ended \in SUBSET Jobs
            OBVIOUS
        <3> QED
            BY <3>1, <3>2, OwnTable
    <2>2. inflight' = inflight /\ UNCHANGED <<ttl, status, cleanup, beat, asked>>
          /\ pc' \in [Jobs -> Submitting \cup {"new", "run", "wait", "leave", "over"}]
        BY <1>1 DEF Guard, Goto, Submitting
    <2>3. FaultsType'
        BY <1>1, LimitsAssumption DEF Guard, FaultsType
    <2>4. Slots \in SlotsType
        BY DEF Good
    <2>5. listed' \in [Tables -> [Jobs -> SUBSET Lists]]
        BY <2>1, <2>4 DEF Slots, SlotsType
    <2>6. left' \in [Tables -> [Jobs -> 0..Lease]]
        BY <2>1, <2>4, LeaseAssumption DEF Slots, SlotsType
    <2>7. Slots' \in SlotsType
        BY <2>2, <2>4, <2>5, <2>6 DEF Slots, SlotsType
    <2>8. \A u \in Tables, k \in Jobs : listed'[u][k] \subseteq listed[u][k]
        BY <2>1, <2>4 DEF Slots, SlotsType
    <2>9. Good(Slots)'
        BY <2>2, <2>7, <2>8, SmallerIsGood
    <2> QED
        BY <2>2, <2>3, <2>9
<1>2. CASE ReserveToken(j)
    <2>1. Good(Slots)' /\ FaultsType'
        BY <1>2, CallsAreGood DEF ReserveToken
    <2> QED
        BY <1>2, <2>1 DEF ReserveToken, Goto, Submitting
<1>3. CASE Park(j)
    <2>1. Good(Slots)' /\ FaultsType'
        BY <1>3, SameTablesAreGood DEF Park
    <2> QED
        BY <1>3, <2>1 DEF Park, Goto, SetStatus, Submitting, Statuses, Active
<1>4. CASE PromoteJob(j)
    <2>1. Good(Slots)' /\ FaultsType'
        BY <1>4, CallsAreGood DEF PromoteJob
    <2> QED
        BY <1>4, <2>1 DEF PromoteJob, Goto, Submitting, Started
<1>5. CASE ReleaseToken(j)
    <2>1. Good(Slots)' /\ FaultsType'
        BY <1>5, CallsAreGood DEF ReleaseToken
    <2> QED
        BY <1>5, <2>1 DEF ReleaseToken, Goto
<1>6. CASE Launch(j)
    <2>1. Good(Slots)' /\ FaultsType'
        BY <1>6, SameTablesAreGood DEF Launch
    <2> QED
        BY <1>6, <2>1 DEF Launch, Goto, SetStatus, Statuses, Active
<1>7. CASE SubmitFails(j)
    <2>1. Good(Slots)' /\ FaultsType'
        BY <1>7, SameTablesAreGood DEF SubmitFails
    <2> QED
        BY <1>7, <2>1 DEF SubmitFails, Goto, Submitting
<1>8. CASE FailSaves(j)
    <2>1. Good(Slots)' /\ FaultsType'
        BY <1>8, SameTablesAreGood DEF FailSaves
    <2> QED
        BY <1>8, <2>1 DEF FailSaves, Goto, SetStatus, Statuses
<1> QED
    BY <1>1, <1>2, <1>3, <1>4, <1>5, <1>6, <1>7, <1>8 DEF Submission

\* Steps of a coroutine.
LEMMA CoroutineIsGood ==
    ASSUME IInv, NEW j \in Jobs, Coroutine(j)
    PROVE  IInv'
<1> USE DEF IInv, Rest
<1>1. CASE Outcome(j)
    <2>1. Good(Slots)' /\ FaultsType'
        BY <1>1, SameTablesAreGood DEF Outcome
    <2> QED
        BY <1>1, <2>1 DEF Outcome, Goto, SetStatus, Merged, Statuses, Suspended
<1>2. CASE EnterWait(j)
    <2>1. Good(Slots)' /\ FaultsType'
        BY <1>2, SameTablesAreGood DEF EnterWait
    <2> QED
        BY <1>2, <2>1 DEF EnterWait, Goto, SetStatus, Statuses
<1>3. CASE Reactivate(j)
    <2>1. Good(Slots)' /\ FaultsType'
        BY <1>3, CallsAreGood DEF Reactivate
    <2> QED
        BY <1>3, <2>1 DEF Reactivate, Goto, SetStatus, Merged, Statuses, Active, Started
<1>4. CASE WaitEnds(j)
    <2>1. Good(Slots)' /\ FaultsType'
        BY <1>4, SameTablesAreGood DEF WaitEnds
    <2> QED
        BY <1>4, <2>1 DEF WaitEnds, Goto, SetStatus, Merged, Statuses, Suspended
<1>5. CASE Leave(j)
    <2>1. Good(Slots)' /\ FaultsType'
        BY <1>5, SameTablesAreGood DEF Leave
    <2> QED
        BY <1>5, <2>1 DEF Leave, Goto
<1>6. CASE CleanupReads(j)
    <2>1. Good(Slots)' /\ FaultsType'
        BY <1>6, SameTablesAreGood DEF CleanupReads
    <2> QED
        BY <1>6, <2>1 DEF CleanupReads
<1>7. CASE CleanupReleases(j)
    <2>1. Good(Slots)' /\ FaultsType'
        BY <1>7, ReleaseIsGood DEF CleanupReleases
    <2> QED
        BY <1>7, <2>1 DEF CleanupReleases
<1>8. CASE CleanupStops(j)
    <2>1. Good(Slots)' /\ FaultsType'
        BY <1>8, SameTablesAreGood DEF CleanupStops
    <2> QED
        BY <1>8, <2>1 DEF CleanupStops
<1> QED
    BY <1>1, <1>2, <1>3, <1>4, <1>5, <1>6, <1>7, <1>8 DEF Coroutine

\* Requests, and tokens that expire.
LEMMA RequestIsGood ==
    ASSUME IInv, NEW j \in Jobs,
           Pause(j) \/ ResumeReads(j) \/ ResumeAdmits(j) \/ Cancel(j) \/ TokenExpires(j)
    PROVE  IInv'
<1> USE DEF IInv, Rest
<1>1. CASE Pause(j)
    <2>1. Good(Slots)' /\ FaultsType'
        BY <1>1, SameTablesAreGood DEF Pause
    <2> QED
        BY <1>1, <2>1 DEF Pause, SetStatus, Statuses, Suspended
<1>2. CASE ResumeReads(j)
    <2>1. Good(Slots)' /\ FaultsType'
        BY <1>2, SameTablesAreGood DEF ResumeReads
    <2> QED
        BY <1>2, <2>1 DEF ResumeReads
<1>3. CASE ResumeAdmits(j)
    <2>1. Good(Slots)' /\ FaultsType'
        BY <1>3, CallsAreGood DEF ResumeAdmits, Admit
    <2> QED
        BY <1>3, <2>1 DEF ResumeAdmits, SetStatus, Merged, Started, Statuses, Suspended, Active
<1>4. CASE Cancel(j)
    <2>1. Good(Slots)' /\ FaultsType'
        BY <1>4, SameTablesAreGood DEF Cancel
    <2> QED
        BY <1>4, <2>1 DEF Cancel, Goto, SetStatus, Statuses
<1>5. CASE TokenExpires(j)
    <2>1. /\ inflight' = [t \in Tables |-> inflight[t] \ {j}]
          /\ UNCHANGED <<left, listed, ttl, status, pc, cleanup, beat, asked, faults>>
        BY <1>5 DEF TokenExpires
    <2>2. Slots' \in SlotsType
        BY <2>1 DEF Good, Slots, SlotsType
    <2>3. Good(Slots)'
        BY <2>1, <2>2, SmallerIsGood
    <2> QED
        BY <2>1, <2>3 DEF FaultsType
<1> QED
    BY <1>1, <1>2, <1>3, <1>4, <1>5

LEMMA TickIsGood == IInv /\ Tick => IInv'
<1> SUFFICES ASSUME IInv, Tick PROVE IInv'
    OBVIOUS
<1> USE DEF IInv, Rest
<1>1. Slots \in SlotsType
    BY DEF Good
<1>2. left' \in [Tables -> [Jobs -> 0..Lease]]
    <2>1. \A t \in Tables, j \in Jobs : left[t][j] \in 0..Lease
        BY <1>1 DEF Slots, SlotsType
    <2>2. \A n \in 0..Lease : (IF n = 0 THEN 0 ELSE n - 1) \in 0..Lease
        BY LeaseAssumption
    <2>3. left' = [t \in Tables |-> [j \in Jobs |-> IF left[t][j] = 0 THEN 0 ELSE left[t][j] - 1]]
        BY DEF Tick
    <2>4. \A t \in Tables, j \in Jobs :
              (IF left[t][j] = 0 THEN 0 ELSE left[t][j] - 1) \in 0..Lease
        BY <2>1, <2>2
    <2> QED
        BY <2>3, <2>4, Zenon
<1>3. listed' \in [Tables -> [Jobs -> SUBSET Lists]]
    BY <1>1 DEF Tick, Slots, SlotsType
<1>9. ttl' \in [Jobs -> 0..Lease]
    <2>1. \A j \in Jobs : ttl[j] \in 0..Lease
        BY <1>1 DEF Slots, SlotsType
    <2>2. \A n \in 0..Lease : (IF n = 0 THEN 0 ELSE n - 1) \in 0..Lease
        BY LeaseAssumption
    <2>3. ttl' = [j \in Jobs |-> IF ttl[j] = 0 THEN 0 ELSE ttl[j] - 1]
        BY DEF Tick
    <2>4. \A j \in Jobs : (IF ttl[j] = 0 THEN 0 ELSE ttl[j] - 1) \in 0..Lease
        BY <2>1, <2>2
    <2> QED
        BY <2>3, <2>4, Zenon
<1>4. inflight' = inflight /\ UNCHANGED <<status, pc, cleanup, asked, faults>>
    BY DEF Tick
<1>5. Slots' \in SlotsType
    BY <1>1, <1>2, <1>3, <1>4, <1>9 DEF Slots, SlotsType
<1>6. \A t \in Tables, j \in Jobs : listed'[t][j] \subseteq listed[t][j]
    BY DEF Tick
<1>7. Good(Slots)'
    BY <1>4, <1>5, <1>6, SmallerIsGood
<1>8. beat' \in [Jobs -> {"off", "asleep", "due", "release", "renew", "lost"}]
    BY DEF Tick
<1> QED
    BY <1>4, <1>7, <1>8 DEF FaultsType

LEMMA CrashIsGood == ASSUME IInv, NEW p \in Processes, Crash(p) PROVE IInv'
<1> USE DEF IInv, Rest
<1>1. Slots \in SlotsType
    BY DEF Good
<1>2. /\ inflight' = [inflight EXCEPT ![p] = {}]
      /\ left' = [left EXCEPT ![p] = [j \in Jobs |-> 0]]
      /\ listed' = [listed EXCEPT ![p] = [j \in Jobs |-> {}]]
    BY DEF Crash
<1>3. Slots' \in SlotsType
    <2>1. inflight' \in [Tables -> SUBSET Jobs]
        BY <1>1, <1>2 DEF Slots, SlotsType
    <2>2. left' \in [Tables -> [Jobs -> 0..Lease]]
        <3>1. [j \in Jobs |-> 0] \in [Jobs -> 0..Lease]
            BY LeaseAssumption
        <3> QED
            BY <1>1, <1>2, <3>1 DEF Slots, SlotsType
    <2>3. listed' \in [Tables -> [Jobs -> SUBSET Lists]]
        BY <1>1, <1>2 DEF Slots, SlotsType
    <2>4. ttl' = ttl
        BY DEF Crash
    <2> QED
        BY <1>1, <2>1, <2>2, <2>3, <2>4 DEF Slots, SlotsType
<1>4. \A t \in Tables : /\ inflight'[t] \subseteq inflight[t]
                        /\ \A j \in Jobs : listed'[t][j] \subseteq listed[t][j]
    BY <1>1, <1>2 DEF Slots, SlotsType
<1>5. Good(Slots)'
    BY <1>3, <1>4, SmallerIsGood
<1>6. FaultsType'
    BY LimitsAssumption DEF Crash, FaultsType
<1> QED
    BY <1>5, <1>6 DEF Crash, Submitting

LEMMA StepIsGood == IInv /\ [Next]_vars => IInv'
<1> SUFFICES ASSUME IInv, [Next]_vars PROVE IInv'
    OBVIOUS
<1>1. CASE UNCHANGED vars
    <2>1. Good(Slots)' /\ FaultsType'
        BY <1>1, SameTablesAreGood DEF IInv, vars, slots
    <2> QED
        BY <1>1, <2>1 DEF IInv, Rest, vars
<1>2. CASE Next
    BY <1>2, HeartbeatIsGood, SubmissionIsGood, CoroutineIsGood, RequestIsGood,
       TickIsGood, CrashIsGood DEF Next
<1> QED
    BY <1>1, <1>2

LEMMA SpecIsGood == Spec => []IInv
<1> QED
    BY InitIsGood, StepIsGood, PTL DEF Spec

(* ------------------------------- theorems ------------------------------ *)

\* Whatever fails, crashes or expires, the variables keep their types: no
\* entry outlives the lease that was written with it.
THEOREM TypeCorrect == Spec => []TypeOK
<1>1. IInv => TypeOK
    BY DEF IInv, Good, Rest, FaultsType, Slots, SlotsType, TypeOK
<1> QED
    BY <1>1, SpecIsGood, PTL

\* No table ever lists more jobs, or more jobs of one user, than the limits
\* allow, for any number of jobs, users, processes and faults.
THEOREM QuotasAlwaysHold == Spec => []QuotasHold
<1>1. IInv => QuotasHold
    BY DEF IInv, Good, Quotas, QuotasHold, Slots
<1> QED
    BY <1>1, SpecIsGood, PTL

(* ------------------------- slots of running jobs ----------------------- *)

\* A job that is listed in full, for n more intervals, where its process asks;
\* or would be, had the key of its entries not lapsed.
Alive(k, n) ==
    \/ \E t \in {"redis", ProcessOf[k]} : listed[t][k] = Lists /\ left[t][k] >= n
    \/ left["redis"][k] >= n /\ Unrenewed(k)

\* A running job has a slot and a heartbeat that renews it in time; whoever may
\* start one without a heartbeat finds the old one stopped, and the cleanup of
\* the coroutine before it over.
Slotted(k) ==
    /\ pc[k] \in {"new", "reserve", "plan"} => beat[k] = "off"
    /\ pc[k] \in {"new", "reserve", "plan", "submit"} => status[k] = "none" /\ cleanup[k] = "no"
    /\ pc[k] \in {"refuse", "fail"} => status[k] \in {"none", "pending", Ended}
    /\ cleanup[k] = "read" => pc[k] = "over" /\ status[k] \in Suspended \cup {Ended}
    /\ pc[k] = "submit" => beat[k] = "asleep" /\ Alive(k, 2)
    /\ pc[k] = "run" /\ status[k] = "running" =>
          /\ cleanup[k] = "no"
          /\ beat[k] \notin {"off", "release"}
          /\ Alive(k, 1)
          /\ beat[k] = "asleep" => Alive(k, 2)
    /\ pc[k] = "wait" => status[k] \in {"waiting_resources", Ended}
    /\ pc[k] = "leave" => status[k] \in Suspended \cup {Ended}
    /\ pc[k] \in {"wait", "over"} /\ cleanup[k] = "no"
          /\ status[k] \in Suspended \cup {"waiting_resources"} => beat[k] = "off"
    /\ asked[k] => /\ pc[k] = "over"
                   /\ status[k] \in Suspended \cup {Ended}
                   /\ cleanup[k] = "no" \/ status[k] = Ended

AllSlotted == \A k \in Jobs : Slotted(k)

\* What a step of one job leaves of another one.
Same(k) ==
    /\ status'[k] = status[k] /\ pc'[k] = pc[k] /\ cleanup'[k] = cleanup[k]
    /\ beat'[k] = beat[k] /\ asked'[k] = asked[k]
    /\ \A t \in Tables : listed'[t][k] = listed[t][k] /\ left'[t][k] = left[t][k]
    /\ ttl'[k] \in {0, ttl[k]}

\* What an operation on job j leaves of the entries of the others, and of its
\* own entries when it takes none out.
Others(s, r, j) ==
    /\ \A t \in Tables : \A k \in Jobs \ {j} :
          r.listed[t][k] = s.listed[t][k] /\ r.left[t][k] = s.left[t][k]
    /\ \A k \in Jobs \ {j} : r.ttl[k] \in {0, s.ttl[k]}
Fresh(r, t, j) == r.listed[t][j] = Lists /\ r.left[t][j] = Lease
Keeps(s, r, j) ==
    /\ \A t \in Tables : \/ r.listed[t][j] = s.listed[t][j] /\ r.left[t][j] = s.left[t][j]
                         \/ Fresh(r, t, j)
    /\ r.ttl[j] = s.ttl[j] \/ Fresh(r, "redis", j)

LEMMA KeepsTwice ==
    ASSUME NEW s, NEW q, NEW r, NEW j, Keeps(s, q, j), Keeps(q, r, j)
    PROVE  Keeps(s, r, j)
<1>1. "redis" \in Tables
    BY DEF Tables
<1>2. \A t \in Tables : \/ /\ r.listed[t][j] = s.listed[t][j]
                            /\ r.left[t][j] = s.left[t][j]
                         \/ Fresh(r, t, j)
    BY DEF Keeps, Fresh
<1>3. Fresh(q, "redis", j) => Fresh(r, "redis", j)
    BY <1>1 DEF Keeps, Fresh
<1> QED
    BY <1>2, <1>3 DEF Keeps

LEMMA StampedEntries ==
    ASSUME NEW s \in SlotsType, NEW t \in Tables, NEW j \in Jobs
    PROVE  /\ Others(s, Stamped(s, t, j), j)
           /\ Keeps(s, Stamped(s, t, j), j)
           /\ Fresh(Stamped(s, t, j), t, j)
BY DEF Stamped, SlotsType, Others, Keeps, Fresh

LEMMA RestampedEntries ==
    ASSUME NEW s, Good(s), NEW t \in Tables, NEW j \in Jobs, Holds(s, t, j)
    PROVE  /\ Others(s, Restamped(s, t, j), j)
           /\ Fresh(Restamped(s, t, j), t, j)
<1> DEFINE r == Stamped(s, t, j)
           q == Restamped(s, t, j)
<1>1. r \in SlotsType /\ s \in SlotsType
    BY StampedIsGood DEF Good, Holds, Lists
<1>2. Others(s, r, j) /\ Fresh(r, t, j)
    BY <1>1, StampedEntries
<1>3. q = [r EXCEPT !.ttl = [r.ttl EXCEPT ![j] = s.ttl[j]]]
    BY Zenon DEF Restamped
<1> HIDE DEF r, q
<1>4. /\ q.listed = r.listed /\ q.left = r.left
      /\ \A k \in Jobs \ {j} : q.ttl[k] = r.ttl[k]
    BY <1>1, <1>3 DEF SlotsType
<1>5. Others(s, q, j) /\ Fresh(q, t, j)
    BY <1>2, <1>4 DEF Others, Fresh
<1> QED
    BY <1>5 DEF q

LEMMA UnlistedEntries ==
    ASSUME NEW s \in SlotsType, NEW t \in Tables, NEW j \in Jobs, NEW lists
    PROVE  Others(s, Unlisted(s, t, j, lists), j)
BY DEF Unlisted, SlotsType, Others

LEMMA UntokenedEntries ==
    ASSUME NEW s \in SlotsType, NEW t \in Tables, NEW j \in Jobs
    PROVE  LET r == Untokened(s, t, j)
           IN  r.listed = s.listed /\ r.left = s.left /\ r.ttl = s.ttl
BY DEF Untokened, SlotsType

\* One step per operation of the kernel.
LEMMA OperationEntries ==
    ASSUME NEW s, Good(s), NEW t \in Tables, NEW j \in Jobs
    PROVE  /\ Reserve(s, t, j).slots.listed = s.listed
           /\ Reserve(s, t, j).slots.left = s.left
           /\ Reserve(s, t, j).slots.ttl = s.ttl
           /\ DropToken(s, t, j).slots.listed = s.listed
           /\ DropToken(s, t, j).slots.left = s.left
           /\ DropToken(s, t, j).slots.ttl = s.ttl
           /\ Others(s, Promote(s, t, j).slots, j)
           /\ Promote(s, t, j).granted => Fresh(Promote(s, t, j).slots, t, j)
           /\ Others(s, Renew(s, t, j).slots, j)
           /\ Keeps(s, Renew(s, t, j).slots, j)
           /\ Renew(s, t, j).granted => Fresh(Renew(s, t, j).slots, t, j)
           /\ Others(s, Activate(s, t, j).slots, j)
           /\ Activate(s, t, j).granted => Fresh(Activate(s, t, j).slots, t, j)
           /\ Others(s, Drop(s, t, j).slots, j)
<1>1. s \in SlotsType
    BY DEF Good
<1>2. /\ Reserve(s, t, j).slots.listed = s.listed /\ Reserve(s, t, j).slots.left = s.left
      /\ Reserve(s, t, j).slots.ttl = s.ttl
    BY <1>1 DEF Reserve, Yes, No, SlotsType
<1>3. /\ DropToken(s, t, j).slots.listed = s.listed /\ DropToken(s, t, j).slots.left = s.left
      /\ DropToken(s, t, j).slots.ttl = s.ttl
    BY <1>1, UntokenedEntries DEF DropToken, Yes
<1>4. /\ Others(s, Promote(s, t, j).slots, j)
      /\ Promote(s, t, j).granted => Fresh(Promote(s, t, j).slots, t, j)
    <2> DEFINE r == Untokened(s, t, j)
    <2>1. r \in SlotsType /\ r.listed = s.listed /\ r.left = s.left /\ r.ttl = s.ttl
        BY <1>1, UntokenedIsGood, UntokenedEntries DEF Good
    <2>2. Others(s, r, j)
        BY <2>1 DEF Others
    <2>3. Others(r, Stamped(r, t, j), j) /\ Fresh(Stamped(r, t, j), t, j)
        BY <2>1, StampedEntries
    <2>4. Others(s, Stamped(r, t, j), j)
        BY <2>1, <2>3 DEF Others
    <2>5. \/ Promote(s, t, j) = No(r)
          \/ Promote(s, t, j) = Yes(Stamped(r, t, j))
        BY DEF Promote
    <2> QED
        BY <2>2, <2>3, <2>4, <2>5 DEF Yes, No
<1>5. Others(s, s, j) /\ Keeps(s, s, j)
    BY DEF Others, Keeps
<1>6. Renew(s, t, j) = Yes(Stamped(s, t, j)) \/ Renew(s, t, j) = No(s)
    BY DEF Renew
<1>7. \/ Activate(s, t, j) = Yes(Stamped(s, t, j)) \/ Activate(s, t, j) = No(s)
      \/ Activate(s, t, j) = Yes(Restamped(s, t, j)) /\ Holds(s, t, j)
    BY DEF Activate
<1>8. Others(s, Drop(s, t, j).slots, j)
    BY <1>1, UnlistedEntries DEF Drop, Yes
<1> QED
    BY <1>1, <1>2, <1>3, <1>4, <1>5, <1>6, <1>7, <1>8, StampedEntries, RestampedEntries DEF Yes, No

OthersSame(j) ==
    /\ \A t \in Tables : \A k \in Jobs \ {j} :
          listed'[t][k] = listed[t][k] /\ left'[t][k] = left[t][k]
    /\ \A k \in Jobs \ {j} : ttl'[k] \in {0, ttl[k]}

\* The entries after a step, when it writes s.
LEMMA WrittenEntries ==
    ASSUME Good(Slots), NEW s, NEW j \in Jobs, SetSlots(s)
    PROVE  /\ Others(Slots, s, j) => OthersSame(j)
           /\ Keeps(Slots, s, j) => \A n \in 0..Lease : Alive(j, n) => Alive(j, n)'
           /\ \A t \in {"redis", ProcessOf[j]} : Fresh(s, t, j) => Alive(j, 2)' /\ Alive(j, 1)'
<1>1. ProcessOf[j] \in Tables /\ "redis" \in Tables
    BY OwnTable
<1>2. /\ Slots.listed = listed /\ Slots.left = left /\ Slots.ttl = ttl
      /\ s.listed = listed' /\ s.left = left' /\ s.ttl = ttl'
    BY DEF Slots, SetSlots
<1>3. Lease \in Nat /\ Lease >= 2
    BY LeaseAssumption
<1> QED
    <2>1. Others(Slots, s, j) => OthersSame(j)
        BY <1>2 DEF Others, OthersSame
    <2>2. /\ Keeps(Slots, s, j) => \A n \in 0..Lease : Alive(j, n) => Alive(j, n)'
          /\ \A t \in {"redis", ProcessOf[j]} : Fresh(s, t, j) => Alive(j, 2)' /\ Alive(j, 1)'
        BY <1>1, <1>2, <1>3 DEF Keeps, Fresh, Alive, Unrenewed
    <2> QED
        BY <2>1, <2>2

\* A call comes back with a slot only from a table that it has just stamped.
LEMMA CallEntries ==
    ASSUME Good(Slots), NEW j \in Jobs, NEW granted \in BOOLEAN
    PROVE  /\ Call(Reserve, j, granted) \/ Call(DropToken, j, granted) =>
                  UNCHANGED <<listed, left, ttl>>
           /\ Call(Promote, j, granted) => OthersSame(j) /\ (granted => Alive(j, 2)')
           /\ Call(Activate, j, granted) =>
                  OthersSame(j) /\ (granted => Alive(j, 2)' /\ Alive(j, 1)')
           /\ Call(Renew, j, granted) =>
                  /\ OthersSame(j)
                  /\ granted => Alive(j, 2)'
                  /\ Alive(j, 1) => Alive(j, 1)'
           /\ Call(Drop, j, granted) => OthersSame(j)
<1>1. ProcessOf[j] \in Tables /\ "redis" \in Tables
    BY OwnTable
<1>2. Slots.listed = listed /\ Slots.left = left /\ Slots.ttl = ttl
    BY DEF Slots
<1>3. 1 \in 0..Lease
    BY LeaseAssumption
<1>4. ASSUME NEW s, NEW a, a \in Answers(Reserve, j), SetSlots(a.answer.slots)
      PROVE  UNCHANGED <<listed, left, ttl>>
    <2> DEFINE late == Reserve(Slots, "redis", j).slots
    <2>1. \/ a.answer = Reserve(Slots, "redis", j)
          \/ a.answer = Reserve(Slots, ProcessOf[j], j)
          \/ a.answer = Reserve(late, ProcessOf[j], j)
        BY <1>4 DEF Answers
    <2>2. Good(late)
        BY <1>1, OperationsAreGood
    <2>3. a.answer.slots.listed = listed /\ a.answer.slots.left = left
          /\ a.answer.slots.ttl = ttl
        BY <1>1, <1>2, <2>1, <2>2, OperationEntries
    <2> QED
        BY <1>4, <2>3 DEF SetSlots
<1>5. ASSUME NEW s, NEW a, a \in Answers(DropToken, j), SetSlots(a.answer.slots)
      PROVE  UNCHANGED <<listed, left, ttl>>
    <2> DEFINE late == DropToken(Slots, "redis", j).slots
    <2>1. \/ a.answer = DropToken(Slots, "redis", j)
          \/ a.answer = DropToken(Slots, ProcessOf[j], j)
          \/ a.answer = DropToken(late, ProcessOf[j], j)
        BY <1>5 DEF Answers
    <2>2. Good(late)
        BY <1>1, OperationsAreGood
    <2>3. a.answer.slots.listed = listed /\ a.answer.slots.left = left
          /\ a.answer.slots.ttl = ttl
        BY <1>1, <1>2, <2>1, <2>2, OperationEntries
    <2> QED
        BY <1>5, <2>3 DEF SetSlots
<1>6. ASSUME Call(Promote, j, granted)
      PROVE  OthersSame(j) /\ (granted => Alive(j, 2)')
    <2> DEFINE late == Promote(Slots, "redis", j).slots
    <2>1. PICK a \in Answers(Promote, j) : a.answer.granted = granted /\ SetSlots(a.answer.slots)
        BY <1>6 DEF Call
    <2>2. \/ a.answer = Promote(Slots, "redis", j)
          \/ a.answer = Promote(Slots, ProcessOf[j], j)
          \/ a.answer = Promote(late, ProcessOf[j], j)
        BY <2>1 DEF Answers
    <2>3. Good(late) /\ Others(Slots, late, j)
        BY <1>1, OperationsAreGood, OperationEntries
    <2>4. Others(late, Promote(late, ProcessOf[j], j).slots, j)
        BY <1>1, <2>3, OperationEntries
    <2>12. Others(Slots, Promote(late, ProcessOf[j], j).slots, j)
        BY <2>3, <2>4 DEF Others
    <2>5. Others(Slots, a.answer.slots, j)
        BY <1>1, <2>2, <2>12, OperationEntries
    <2>6. granted => \E t \in {"redis", ProcessOf[j]} : Fresh(a.answer.slots, t, j)
        BY <1>1, <2>1, <2>2, <2>3, OperationEntries
    <2> QED
        BY <2>1, <2>5, <2>6, WrittenEntries DEF OthersSame
<1>7. ASSUME Call(Activate, j, granted)
      PROVE  OthersSame(j) /\ (granted => Alive(j, 2)' /\ Alive(j, 1)')
    <2> DEFINE late == Activate(Slots, "redis", j).slots
    <2>1. PICK a \in Answers(Activate, j) : a.answer.granted = granted /\ SetSlots(a.answer.slots)
        BY <1>7 DEF Call
    <2>2. \/ a.answer = Activate(Slots, "redis", j)
          \/ a.answer = Activate(Slots, ProcessOf[j], j)
          \/ a.answer = Activate(late, ProcessOf[j], j)
        BY <2>1 DEF Answers
    <2>3. Good(late) /\ Others(Slots, late, j)
        BY <1>1, OperationsAreGood, OperationEntries
    <2>4. Others(late, Activate(late, ProcessOf[j], j).slots, j)
        BY <1>1, <2>3, OperationEntries
    <2>12. Others(Slots, Activate(late, ProcessOf[j], j).slots, j)
        BY <2>3, <2>4 DEF Others
    <2>5. Others(Slots, a.answer.slots, j)
        BY <1>1, <2>2, <2>12, OperationEntries
    <2>6. granted => \E t \in {"redis", ProcessOf[j]} : Fresh(a.answer.slots, t, j)
        BY <1>1, <2>1, <2>2, <2>3, OperationEntries
    <2> QED
        BY <2>1, <2>5, <2>6, WrittenEntries DEF OthersSame
<1>8. ASSUME Call(Renew, j, granted)
      PROVE  OthersSame(j) /\ (granted => Alive(j, 2)') /\ (Alive(j, 1) => Alive(j, 1)')
    <2> DEFINE late == Renew(Slots, "redis", j).slots
    <2>1. PICK a \in Answers(Renew, j) : a.answer.granted = granted /\ SetSlots(a.answer.slots)
        BY <1>8 DEF Call
    <2>2. \/ a.answer = Renew(Slots, "redis", j)
          \/ a.answer = Renew(Slots, ProcessOf[j], j)
          \/ a.answer = Renew(late, ProcessOf[j], j)
        BY <2>1 DEF Answers
    <2>3. Good(late) /\ Others(Slots, late, j) /\ Keeps(Slots, late, j)
        BY <1>1, OperationsAreGood, OperationEntries
    <2>4. /\ Others(late, Renew(late, ProcessOf[j], j).slots, j)
          /\ Keeps(late, Renew(late, ProcessOf[j], j).slots, j)
        BY <1>1, <2>3, OperationEntries
    <2>12. Others(Slots, Renew(late, ProcessOf[j], j).slots, j)
        BY <2>3, <2>4 DEF Others
    <2>5. Others(Slots, a.answer.slots, j)
        BY <1>1, <2>2, <2>12, OperationEntries
    <2>6. granted => \E t \in {"redis", ProcessOf[j]} : Fresh(a.answer.slots, t, j)
        BY <1>1, <2>1, <2>2, <2>3, OperationEntries
    <2>7. Keeps(Slots, Renew(late, ProcessOf[j], j).slots, j)
        BY <2>3, <2>4, KeepsTwice
    <2>8. Keeps(Slots, a.answer.slots, j)
        BY <1>1, <2>2, <2>7, OperationEntries
    <2> QED
        BY <1>3, <2>1, <2>5, <2>6, <2>8, WrittenEntries DEF OthersSame
<1>9. ASSUME Call(Drop, j, granted)
      PROVE  OthersSame(j)
    <2> DEFINE late == Drop(Slots, "redis", j).slots
    <2>1. PICK a \in Answers(Drop, j) : SetSlots(a.answer.slots)
        BY <1>9 DEF Call
    <2>2. \/ a.answer = Drop(Slots, "redis", j)
          \/ a.answer = Drop(Slots, ProcessOf[j], j)
          \/ a.answer = Drop(late, ProcessOf[j], j)
        BY <2>1 DEF Answers
    <2>3. Good(late) /\ Others(Slots, late, j)
        BY <1>1, OperationsAreGood, OperationEntries
    <2>4. Others(late, Drop(late, ProcessOf[j], j).slots, j)
        BY <1>1, <2>3, OperationEntries
    <2>12. Others(Slots, Drop(late, ProcessOf[j], j).slots, j)
        BY <2>3, <2>4 DEF Others
    <2>5. Others(Slots, a.answer.slots, j)
        BY <1>1, <2>2, <2>12, OperationEntries
    <2> QED
        BY <2>1, <2>5, WrittenEntries DEF OthersSame
<1> QED
    BY <1>4, <1>5, <1>6, <1>7, <1>8, <1>9 DEF Call

LEMMA ReleaseEntries ==
    ASSUME Good(Slots), NEW j \in Jobs, ReleaseJob(j)
    PROVE  OthersSame(j)
<1>1. CASE Call(Drop, j, TRUE)
    BY <1>1, CallEntries
<1>2. CASE SetSlots(Unlisted(Unlisted(Slots, "redis", j, {"all"}), ProcessOf[j], j, Lists))
    <2> DEFINE r == Unlisted(Slots, "redis", j, {"all"})
    <2>1. Good(r)
        BY OwnTable, UnlistedIsGood
    <2>2. Others(Slots, r, j)
        BY OwnTable, UnlistedEntries DEF Good
    <2>3. Others(r, Unlisted(r, ProcessOf[j], j, Lists), j)
        BY <2>1, OwnTable, UnlistedEntries DEF Good
    <2>4. Others(Slots, Unlisted(r, ProcessOf[j], j, Lists), j)
        BY <2>2, <2>3 DEF Others
    <2> QED
        BY <1>2, <2>4, WrittenEntries DEF OthersSame
<1> QED
    BY <1>1, <1>2 DEF ReleaseJob

Alone(j) == \A k \in Jobs \ {j} : Same(k)

LEMMA AliveIsAlive ==
    ASSUME Good(Slots), NEW k \in Jobs, Alive(k, 2)
    PROVE  Alive(k, 1)
<1>1. ProcessOf[k] \in Tables /\ "redis" \in Tables
    BY OwnTable
<1>2. \A t \in Tables : left[t][k] \in 0..Lease
    BY DEF Good, Slots, SlotsType
<1> QED
    BY <1>1, <1>2, LeaseAssumption DEF Alive

LEMMA QuietAlive ==
    ASSUME Good(Slots), NEW k \in Jobs, ttl'[k] \in {0, ttl[k]},
           \A t \in Tables : listed'[t][k] = listed[t][k] /\ left'[t][k] = left[t][k]
    PROVE  /\ Alive(k, 1) => Alive(k, 1)'
           /\ Alive(k, 2) => Alive(k, 2)'
<1>1. ProcessOf[k] \in Tables /\ "redis" \in Tables
    BY OwnTable
<1>2. ttl[k] \in 0..Lease /\ left["redis"][k] \in 0..Lease
    BY <1>1 DEF Good, Slots, SlotsType
<1>3. Unrenewed(k) => Unrenewed(k)'
    BY <1>1, <1>2, LeaseAssumption DEF Unrenewed
<1> QED
    BY <1>1, <1>3 DEF Alive

LEMMA SameIsSlotted ==
    ASSUME Good(Slots), NEW k \in Jobs, Slotted(k), Same(k)
    PROVE  Slotted(k)'
<1>1. /\ Alive(k, 1) => Alive(k, 1)'
      /\ Alive(k, 2) => Alive(k, 2)'
    BY QuietAlive DEF Same
<1> QED
    BY <1>1 DEF Slotted, Same

LEMMA AloneIsSlotted ==
    ASSUME IInv, AllSlotted, NEW j \in Jobs, Alone(j), Slotted(j)'
    PROVE  AllSlotted'
<1> QED
    BY SameIsSlotted DEF AllSlotted, Alone, IInv

\* Steps of the heartbeat.
LEMMA HeartbeatIsSlotted ==
    ASSUME IInv, AllSlotted, NEW j \in Jobs, HeartbeatStep(j)
    PROVE  AllSlotted'
<1> USE DEF Rest
<1>1. Rest /\ Good(Slots) /\ Slotted(j)
    BY DEF IInv, AllSlotted
<1>2. CASE BeatReads(j)
    <2>1. UNCHANGED <<listed, left, ttl, pc, cleanup, asked>>
        BY <1>2 DEF BeatReads, slots
    <2>2. Alone(j)
        BY <1>1, <1>2, <2>1 DEF BeatReads, Beat, SetStatus, Alone, Same
    <2>3. /\ Alive(j, 1) => Alive(j, 1)'
          /\ Alive(j, 2) => Alive(j, 2)'
        BY <1>1, <2>1, QuietAlive
    <2>4. Slotted(j)'
        BY <1>1, <1>2, <2>1, <2>3 DEF BeatReads, Beat, SetStatus, Slotted, Suspended, Ended
    <2> QED
        BY <2>2, <2>4, AloneIsSlotted
<1>3. CASE BeatReleases(j)
    <2>1. UNCHANGED <<status, pc, cleanup, asked>> /\ beat[j] = "release"
          /\ beat' = [beat EXCEPT ![j] = "off"]
        BY <1>3 DEF BeatReleases, Beat
    <2>2. OthersSame(j)
        BY <1>1, <1>3, ReleaseEntries DEF BeatReleases
    <2>3. Alone(j)
        BY <1>1, <2>1, <2>2 DEF OthersSame, Alone, Same
    <2>4. Slotted(j)'
        BY <1>1, <2>1 DEF Slotted
    <2> QED
        BY <2>3, <2>4, AloneIsSlotted
<1>4. CASE BeatRenews(j)
    <2>1. PICK granted \in BOOLEAN :
              /\ Call(Renew, j, granted)
              /\ Beat(j, "renew", IF granted THEN "asleep" ELSE "lost")
        BY <1>4 DEF BeatRenews
    <2>2. UNCHANGED <<status, pc, cleanup, asked>> /\ beat[j] = "renew"
          /\ beat' = [beat EXCEPT ![j] = IF granted THEN "asleep" ELSE "lost"]
        BY <1>4, <2>1 DEF BeatRenews, Beat
    <2>3. /\ OthersSame(j)
          /\ granted => Alive(j, 2)'
          /\ Alive(j, 1) => Alive(j, 1)'
        BY <1>1, <2>1, CallEntries
    <2>4. Alone(j)
        BY <1>1, <2>2, <2>3 DEF OthersSame, Alone, Same
    <2>5. Slotted(j)'
        BY <1>1, <2>2, <2>3 DEF Slotted
    <2> QED
        BY <2>4, <2>5, AloneIsSlotted
<1>5. CASE BeatInterrupts(j)
    <2>1. UNCHANGED <<listed, left, ttl, cleanup, asked>>
        BY <1>5 DEF BeatInterrupts, slots
    <2>2. Alone(j)
        BY <1>1, <1>5, <2>1 DEF BeatInterrupts, Beat, SetStatus, Alone, Same
    <2>3. Slotted(j)'
        BY <1>1, <1>5, <2>1 DEF BeatInterrupts, Beat, SetStatus, Slotted, Suspended, Ended
    <2> QED
        BY <2>2, <2>3, AloneIsSlotted
<1> QED
    BY <1>2, <1>3, <1>4, <1>5 DEF HeartbeatStep, IInv

\* Steps of a submission.
LEMMA SubmissionIsSlotted ==
    ASSUME IInv, AllSlotted, NEW j \in Jobs, Submission(j)
    PROVE  AllSlotted'
<1> USE DEF Rest
<1>1. Rest /\ Good(Slots) /\ Slotted(j)
    BY DEF IInv, AllSlotted
<1>2. CASE Guard(j)
    <2>1. /\ UNCHANGED <<status, cleanup, beat, asked>>
          /\ pc[j] = "new"
          /\ pc' = [pc EXCEPT ![j] = "over"] \/ pc' = [pc EXCEPT ![j] = "reserve"]
        BY <1>2 DEF Guard, Goto
    <2>2. ASSUME NEW k \in Jobs, status[k] # Ended, NEW t \in Tables
          PROVE  listed'[t][k] = listed[t][k] /\ left'[t][k] = left[t][k] /\ ttl' = ttl
        <3>1. /\ listed \in [Tables -> [Jobs -> SUBSET Lists]]
              /\ left \in [Tables -> [Jobs -> 0..Lease]]
            BY <1>1 DEF Good, Slots, SlotsType
        <3> DEFINE ended == {i \in Jobs : UserOf[i] = UserOf[j] /\ status[i] = Ended}
        <3>2. PICK u \in {"redis", ProcessOf[j]} :
                  /\ listed' = [listed EXCEPT ![u] = [i \in Jobs |-> IF i \in ended THEN {} ELSE @[i]]]
                  /\ left' = [left EXCEPT ![u] = [i \in Jobs |-> IF i \in ended THEN 0 ELSE @[i]]]
            <4>1. ended = {i \in {m \in Jobs : UserOf[m] = UserOf[j]} : status[i] = Ended}
                OBVIOUS
            <4> HIDE DEF ended
            <4> QED
                BY <1>2, <4>1 DEF Guard
        <3>3. k \notin ended
            BY <2>2
        <3> HIDE DEF ended
        <3> QED
            BY <1>2, <3>1, <3>2, <3>3 DEF Guard
    <2>3. Slotted(j)'
        BY <1>1, <2>1 DEF Slotted, Ended, Suspended
    <2>4. ASSUME NEW k \in Jobs, k # j
          PROVE  Slotted(k)'
        <3>1. /\ status'[k] = status[k] /\ pc'[k] = pc[k] /\ cleanup'[k] = cleanup[k]
              /\ beat'[k] = beat[k] /\ asked'[k] = asked[k]
            BY <1>1, <2>1, <2>4
        <3>2. Slotted(k)
            BY DEF AllSlotted
        <3>3. CASE status[k] = Ended
            BY <3>1, <3>2, <3>3 DEF Slotted, Ended, Suspended
        <3>4. CASE status[k] # Ended
            BY <1>1, <2>2, <3>1, <3>2, <3>4, OwnTable, SameIsSlotted DEF Same
        <3> QED
            BY <3>3, <3>4
    <2> QED
        BY <2>3, <2>4 DEF AllSlotted
<1>3. CASE ReserveToken(j)
    <2>1. PICK granted \in BOOLEAN :
              /\ Call(Reserve, j, granted)
              /\ Goto(j, IF granted THEN "plan" ELSE "refuse")
        BY <1>3 DEF ReserveToken
    <2>2. UNCHANGED <<listed, left, ttl, status, cleanup, beat, asked>> /\ pc[j] = "reserve"
        BY <1>1, <1>3, <2>1, CallEntries DEF ReserveToken
    <2>3. Alone(j)
        BY <1>1, <2>1, <2>2 DEF Goto, Alone, Same
    <2>4. Slotted(j)'
        BY <1>1, <2>1, <2>2 DEF Goto, Slotted
    <2> QED
        BY <2>3, <2>4, AloneIsSlotted
<1>4. CASE Park(j)
    <2>1. UNCHANGED <<listed, left, ttl, cleanup, beat, asked>>
        BY <1>4 DEF Park, slots
    <2>2. Alone(j)
        BY <1>1, <1>4, <2>1 DEF Park, Goto, SetStatus, Alone, Same
    <2>3. Slotted(j)'
        BY <1>1, <1>4, <2>1 DEF Park, Goto, SetStatus, Slotted, Suspended, Ended
    <2> QED
        BY <2>2, <2>3, AloneIsSlotted
<1>5. CASE PromoteJob(j)
    <2>1. PICK granted \in BOOLEAN :
              /\ Call(Promote, j, granted)
              /\ Goto(j, IF granted THEN "submit" ELSE "refuse")
              /\ beat' = IF granted THEN Started(j) ELSE beat
        BY <1>5 DEF PromoteJob
    <2>2. UNCHANGED <<status, cleanup, asked>> /\ pc[j] = "plan"
        BY <1>5 DEF PromoteJob
    <2>3. OthersSame(j) /\ (granted => Alive(j, 2)')
        BY <1>1, <2>1, CallEntries
    <2>4. Alone(j)
        BY <1>1, <2>1, <2>2, <2>3 DEF Goto, Started, OthersSame, Alone, Same
    <2>5. Slotted(j)'
        BY <1>1, <2>1, <2>2, <2>3 DEF Goto, Started, Slotted
    <2> QED
        BY <2>4, <2>5, AloneIsSlotted
<1>6. CASE ReleaseToken(j)
    <2>1. UNCHANGED <<listed, left, ttl, status, cleanup, beat, asked>>
        BY <1>1, <1>6, CallEntries DEF ReleaseToken
    <2>2. Alone(j)
        BY <1>1, <1>6, <2>1 DEF ReleaseToken, Goto, Alone, Same
    <2>3. Slotted(j)'
        BY <1>1, <1>6, <2>1 DEF ReleaseToken, Goto, Slotted, Suspended, Ended
    <2> QED
        BY <2>2, <2>3, AloneIsSlotted
<1>7. CASE Launch(j)
    <2>1. UNCHANGED <<listed, left, ttl, cleanup, beat, asked>>
        BY <1>7 DEF Launch, slots
    <2>2. Alone(j)
        BY <1>1, <1>7, <2>1 DEF Launch, Goto, SetStatus, Alone, Same
    <2>3. Alive(j, 1)' /\ Alive(j, 2)'
        BY <1>1, <1>7, <2>1, QuietAlive, AliveIsAlive DEF Launch, Slotted
    <2>4. Slotted(j)'
        BY <1>1, <1>7, <2>1, <2>3 DEF Launch, Goto, SetStatus, Slotted, Suspended
    <2> QED
        BY <2>2, <2>4, AloneIsSlotted
<1>8. CASE SubmitFails(j)
    <2>1. UNCHANGED <<listed, left, ttl, status, beat, asked>>
        BY <1>8 DEF SubmitFails, slots
    <2>2. Alone(j)
        BY <1>1, <1>8, <2>1 DEF SubmitFails, Goto, Alone, Same
    <2>3. Slotted(j)'
        BY <1>1, <1>8, <2>1 DEF SubmitFails, Goto, Slotted
    <2> QED
        BY <2>2, <2>3, AloneIsSlotted
<1>9. CASE FailSaves(j)
    <2>1. UNCHANGED <<listed, left, ttl, cleanup, beat, asked>>
        BY <1>9 DEF FailSaves, slots
    <2>2. Alone(j)
        BY <1>1, <1>9, <2>1 DEF FailSaves, Goto, SetStatus, Alone, Same
    <2>3. Slotted(j)'
        BY <1>1, <1>9, <2>1 DEF FailSaves, Goto, SetStatus, Slotted, Suspended, Ended
    <2> QED
        BY <2>2, <2>3, AloneIsSlotted
<1> QED
    BY <1>2, <1>3, <1>4, <1>5, <1>6, <1>7, <1>8, <1>9 DEF Submission

\* Steps of the coroutine and of its cleanup.
LEMMA CoroutineIsSlotted ==
    ASSUME IInv, AllSlotted, NEW j \in Jobs, Coroutine(j)
    PROVE  AllSlotted'
<1> USE DEF Rest
<1>1. Rest /\ Good(Slots) /\ Slotted(j)
    BY DEF IInv, AllSlotted
<1>2. CASE Outcome(j)
    <2>1. UNCHANGED <<listed, left, ttl, cleanup, beat, asked>>
        BY <1>2 DEF Outcome, slots
    <2>2. Alone(j)
        BY <1>1, <1>2, <2>1 DEF Outcome, Goto, SetStatus, Alone, Same
    <2>3. Slotted(j)'
        BY <1>1, <1>2, <2>1 DEF Outcome, Goto, SetStatus, Merged, Slotted, Suspended, Ended
    <2> QED
        BY <2>2, <2>3, AloneIsSlotted
<1>3. CASE EnterWait(j)
    <2>1. UNCHANGED <<listed, left, ttl, beat, asked>>
        BY <1>3 DEF EnterWait, slots
    <2>2. Alone(j)
        BY <1>1, <1>3, <2>1 DEF EnterWait, Goto, SetStatus, Alone, Same
    <2>3. Slotted(j)'
        BY <1>1, <1>3, <2>1 DEF EnterWait, Goto, SetStatus, Slotted, Suspended, Ended
    <2> QED
        BY <2>2, <2>3, AloneIsSlotted
<1>4. CASE Reactivate(j)
    <2>1. PICK granted \in BOOLEAN :
              /\ Call(Activate, j, granted)
              /\ IF granted
                 THEN SetStatus(j, Merged(j, "running")) /\ Goto(j, "run") /\ beat' = Started(j)
                 ELSE UNCHANGED <<status, pc, beat>>
        BY <1>4 DEF Reactivate
    <2>2. UNCHANGED <<cleanup, asked>> /\ pc[j] = "wait" /\ cleanup[j] = "no"
        BY <1>4 DEF Reactivate
    <2>3. OthersSame(j) /\ (granted => Alive(j, 2)' /\ Alive(j, 1)')
        BY <1>1, <2>1, CallEntries
    <2>4. Alone(j)
        BY <1>1, <2>1, <2>2, <2>3 DEF Goto, SetStatus, Started, OthersSame, Alone, Same
    <2>13. SUFFICES Slotted(j)'
        BY <2>4, AloneIsSlotted
    <2>5. CASE ~granted
        <3>1. UNCHANGED <<status, pc, beat>>
            BY <2>1, <2>5
        <3> QED
            BY <1>1, <2>2, <3>1 DEF Slotted
    <2>6. CASE granted
        <3>1. /\ status'[j] = Merged(j, "running") /\ pc'[j] = "run"
              /\ beat'[j] = IF beat[j] = "off" THEN "asleep" ELSE beat[j]
              /\ cleanup'[j] = "no" /\ asked'[j] = asked[j]
            BY <1>1, <2>1, <2>2, <2>6 DEF Goto, SetStatus, Started
        <3>2. status[j] # Ended => beat[j] = "off"
            BY <1>1, <2>2 DEF Slotted
        <3> QED
            BY <1>1, <2>2, <2>3, <2>6, <3>1, <3>2 DEF Merged, Slotted, Suspended, Ended
    <2> QED
        BY <2>5, <2>6
<1>5. CASE WaitEnds(j)
    <2>1. UNCHANGED <<listed, left, ttl, cleanup, beat, asked>>
        BY <1>5 DEF WaitEnds, slots
    <2>2. Alone(j)
        BY <1>1, <1>5, <2>1 DEF WaitEnds, Goto, SetStatus, Alone, Same
    <2>3. Slotted(j)'
        BY <1>1, <1>5, <2>1 DEF WaitEnds, Goto, SetStatus, Merged, Slotted, Suspended, Ended
    <2> QED
        BY <2>2, <2>3, AloneIsSlotted
<1>6. CASE Leave(j)
    <2>1. UNCHANGED <<listed, left, ttl, status, beat, asked>>
        BY <1>6 DEF Leave, slots
    <2>2. Alone(j)
        BY <1>1, <1>6, <2>1 DEF Leave, Goto, Alone, Same
    <2>3. Slotted(j)'
        BY <1>1, <1>6, <2>1 DEF Leave, Goto, Slotted
    <2> QED
        BY <2>2, <2>3, AloneIsSlotted
<1>7. CASE CleanupReads(j)
    <2>1. UNCHANGED <<listed, left, ttl, status, pc, beat, asked>>
        BY <1>7 DEF CleanupReads, slots
    <2>2. Alone(j)
        BY <1>1, <1>7, <2>1 DEF CleanupReads, Alone, Same
    <2>3. Slotted(j)'
        BY <1>1, <1>7, <2>1 DEF CleanupReads, Slotted, Suspended, Ended
    <2> QED
        BY <2>2, <2>3, AloneIsSlotted
<1>8. CASE CleanupReleases(j)
    <2>1. UNCHANGED <<status, pc, beat, asked>> /\ cleanup[j] = "release"
          /\ cleanup' = [cleanup EXCEPT ![j] = "stop"]
        BY <1>8 DEF CleanupReleases
    <2>2. OthersSame(j)
        BY <1>1, <1>8, ReleaseEntries DEF CleanupReleases
    <2>3. Alone(j)
        BY <1>1, <2>1, <2>2 DEF OthersSame, Alone, Same
    <2>4. Slotted(j)'
        BY <1>1, <2>1 DEF Slotted
    <2> QED
        BY <2>3, <2>4, AloneIsSlotted
<1>9. CASE CleanupStops(j)
    <2>1. UNCHANGED <<listed, left, ttl, status, pc, asked>>
        BY <1>9 DEF CleanupStops, slots
    <2>2. Alone(j)
        BY <1>1, <1>9, <2>1 DEF CleanupStops, Alone, Same
    <2>3. Slotted(j)'
        BY <1>1, <1>9, <2>1 DEF CleanupStops, Slotted
    <2> QED
        BY <2>2, <2>3, AloneIsSlotted
<1> QED
    BY <1>2, <1>3, <1>4, <1>5, <1>6, <1>7, <1>8, <1>9 DEF Coroutine

\* Requests: none races with a cleanup.
LEMMA RequestIsSlotted ==
    ASSUME IInv, AllSlotted, Races = {}, NEW j \in Jobs,
           Pause(j) \/ ResumeReads(j) \/ ResumeAdmits(j) \/ Cancel(j) \/ TokenExpires(j)
    PROVE  AllSlotted'
<1> USE DEF Rest
<1>1. Rest /\ Good(Slots) /\ Slotted(j)
    BY DEF IInv, AllSlotted
<1>2. CASE Pause(j)
    <2>1. UNCHANGED <<listed, left, ttl, pc, cleanup, beat, asked>>
        BY <1>2 DEF Pause, slots
    <2>2. Alone(j)
        BY <1>1, <1>2, <2>1 DEF Pause, SetStatus, Alone, Same
    <2>3. Slotted(j)'
        BY <1>1, <1>2, <2>1 DEF Pause, SetStatus, Slotted, Suspended
    <2> QED
        BY <2>2, <2>3, AloneIsSlotted
<1>3. CASE ResumeReads(j)
    <2>1. UNCHANGED <<listed, left, ttl, status, pc, cleanup, beat>>
        BY <1>3 DEF ResumeReads, slots
    <2>2. Alone(j)
        BY <1>1, <1>3, <2>1 DEF ResumeReads, Alone, Same
    <2>3. /\ Alive(j, 1) => Alive(j, 1)'
          /\ Alive(j, 2) => Alive(j, 2)'
        BY <1>1, <2>1, QuietAlive
    <2>4. Slotted(j)'
        BY <1>1, <1>3, <2>1, <2>3 DEF ResumeReads, Slotted
    <2> QED
        BY <2>2, <2>4, AloneIsSlotted
<1>4. CASE ResumeAdmits(j)
    <2>1. PICK granted \in BOOLEAN :
              /\ Call(Activate, j, granted)
              /\ SetStatus(j, Merged(j, IF granted THEN "running" ELSE "paused"))
              /\ beat' = IF granted THEN Started(j) ELSE beat
              /\ pc' = IF granted /\ pc[j] = "over" /\ status[j] # Ended
                       THEN [pc EXCEPT ![j] = "run"] ELSE pc
        BY <1>4 DEF ResumeAdmits, Admit
    <2>2. UNCHANGED cleanup /\ asked[j] /\ asked' = [asked EXCEPT ![j] = FALSE]
        BY <1>4 DEF ResumeAdmits
    <2>3. OthersSame(j) /\ (granted => Alive(j, 2)' /\ Alive(j, 1)')
        BY <1>1, <2>1, CallEntries
    <2>4. Alone(j)
        BY <1>1, <2>1, <2>2, <2>3 DEF SetStatus, Started, OthersSame, Alone, Same
    <2>13. SUFFICES Slotted(j)'
        BY <2>4, AloneIsSlotted
    <2>6. pc[j] = "over" /\ status[j] \in Suspended \cup {Ended}
          /\ (cleanup[j] = "no" \/ status[j] = Ended)
        BY <1>1, <2>2 DEF Slotted
    <2>7. CASE status[j] = Ended
        <3>1. status'[j] = Ended /\ pc'[j] = "over" /\ cleanup'[j] = cleanup[j] /\ ~asked'[j]
            BY <1>1, <2>1, <2>2, <2>6, <2>7 DEF SetStatus, Merged
        <3> QED
            BY <1>1, <2>6, <3>1 DEF Slotted, Suspended, Ended
    <2>8. CASE status[j] # Ended
        <3>1. beat[j] = "off" /\ cleanup[j] = "no" /\ status[j] \in Suspended
            BY <1>1, <2>6, <2>8 DEF Slotted
        <3>2. cleanup'[j] = "no" /\ ~asked'[j]
            BY <1>1, <2>2, <3>1
        <3>3. CASE granted
            <4>1. pc'[j] = "run" /\ beat'[j] = "asleep"
                BY <1>1, <2>1, <2>6, <2>8, <3>1, <3>3 DEF Started
            <4> QED
                BY <2>3, <3>2, <3>3, <4>1 DEF Slotted
        <3>4. CASE ~granted
            <4>1. pc'[j] = "over" /\ beat'[j] = "off" /\ status'[j] = "paused"
                BY <1>1, <2>1, <2>6, <2>8, <3>1, <3>4 DEF SetStatus, Merged
            <4> QED
                BY <3>2, <4>1 DEF Slotted, Suspended
        <3> QED
            BY <3>3, <3>4
    <2> QED
        BY <2>7, <2>8
<1>5. CASE Cancel(j)
    <2>1. UNCHANGED <<listed, left, ttl, beat, asked>>
        BY <1>5 DEF Cancel, slots
    <2>2. Alone(j)
        BY <1>1, <1>5, <2>1 DEF Cancel, Goto, SetStatus, Alone, Same
    <2>3. Slotted(j)'
        BY <1>1, <1>5, <2>1 DEF Cancel, Goto, SetStatus, Slotted, Suspended, Ended, Submitting
    <2> QED
        BY <2>2, <2>3, AloneIsSlotted
<1>6. CASE TokenExpires(j)
    BY <1>1, <1>6, SameIsSlotted DEF TokenExpires, AllSlotted, Same
<1> QED
    BY <1>2, <1>3, <1>4, <1>5, <1>6

\* Time: a sleeping heartbeat wakes before the entries that it renews expire.
LEMMA TickIsSlotted ==
    ASSUME IInv, AllSlotted, Races = {}, Tick
    PROVE  AllSlotted'
<1> USE DEF Rest
<1> SUFFICES ASSUME NEW k \in Jobs PROVE Slotted(k)'
    BY DEF AllSlotted
<1>1. Rest /\ Good(Slots) /\ Slotted(k)
    BY DEF IInv, AllSlotted
<1>2. /\ UNCHANGED <<status, pc, cleanup, asked>>
      /\ beat[k] \in {"off", "asleep"} /\ cleanup[k] = "no" /\ pc[k] # "submit"
      /\ beat'[k] = IF beat[k] = "asleep" THEN "due" ELSE beat[k]
    BY DEF Tick
<1>3. Alive(k, 2) => Alive(k, 1)'
    <2>1. ProcessOf[k] \in Tables /\ "redis" \in Tables
        BY OwnTable
    <2>2. \A t \in Tables : left[t][k] \in 0..Lease /\ listed[t][k] \in SUBSET Lists
        BY <1>1 DEF Good, Slots, SlotsType
    <2>3. ttl[k] \in 0..Lease
        BY <1>1 DEF Good, Slots, SlotsType
    <2>4. /\ \A t \in Tables : left'[t][k] = IF left[t][k] = 0 THEN 0 ELSE left[t][k] - 1
          /\ ttl'[k] = IF ttl[k] = 0 THEN 0 ELSE ttl[k] - 1
        BY DEF Tick
    <2>5. \A t \in Tables : listed'[t][k] =
              IF left[t][k] <= 1 THEN {}
              ELSE IF t = "redis" THEN listed[t][k] \ Lapsing(k) ELSE listed[t][k]
        BY DEF Tick
    <2>6. ASSUME left["redis"][k] >= 2, Unrenewed(k)
          PROVE  Alive(k, 1)'
        BY <2>1, <2>2, <2>3, <2>4, <2>6, LeaseAssumption DEF Alive, Unrenewed
    <2>7. ASSUME NEW t \in {"redis", ProcessOf[k]}, left[t][k] >= 2, listed[t][k] = Lists,
                 ~Unrenewed(k)
          PROVE  left'[t][k] >= 1 /\ listed'[t][k] = Lists
        <3>1. t \in Tables /\ left'[t][k] >= 1 /\ ~(left[t][k] <= 1)
            BY <2>1, <2>2, <2>4, <2>7, LeaseAssumption
        <3>2. CASE t = "redis"
            <4>1. ~(ttl[k] <= 1)
                BY <2>1, <2>2, <2>3, <2>7, <3>2, LeaseAssumption DEF Unrenewed
            <4>2. Lapsing(k) = {}
                BY <4>1 DEF Lapsing
            <4> QED
                BY <2>5, <2>7, <3>1, <3>2, <4>2
        <3>3. CASE t # "redis"
            BY <2>5, <2>7, <3>1, <3>3
        <3> QED
            BY <3>1, <3>2, <3>3
    <2>8. Alive(k, 2) /\ ~Unrenewed(k) => Alive(k, 1)'
        BY <2>7 DEF Alive
    <2>9. Alive(k, 2) /\ Unrenewed(k) /\ ~(left["redis"][k] >= 2) => Alive(k, 1)'
        <3> SUFFICES ASSUME Alive(k, 2), Unrenewed(k), ~(left["redis"][k] >= 2)
                     PROVE  Alive(k, 1)'
            OBVIOUS
        <3>1. /\ ProcessOf[k] # "redis"
              /\ left[ProcessOf[k]][k] >= 2 /\ listed[ProcessOf[k]][k] = Lists
            BY DEF Alive
        <3>3. /\ left[ProcessOf[k]][k] \in 0..Lease
              /\ left'[ProcessOf[k]][k] = left[ProcessOf[k]][k] - 1
            BY <2>1, <2>2, <2>4, <3>1, LeaseAssumption
        <3>5. ~(left[ProcessOf[k]][k] <= 1)
            BY <3>1, <3>3, LeaseAssumption
        <3>6. listed'[ProcessOf[k]][k] =
                  IF left[ProcessOf[k]][k] <= 1 THEN {}
                  ELSE IF ProcessOf[k] = "redis" THEN listed[ProcessOf[k]][k] \ Lapsing(k)
                  ELSE listed[ProcessOf[k]][k]
            BY <2>1, <2>5
        <3>4. listed'[ProcessOf[k]][k] = Lists
            BY <3>1, <3>5, <3>6
        <3>2. left'[ProcessOf[k]][k] >= 1 /\ listed'[ProcessOf[k]][k] = Lists
            BY <3>1, <3>3, <3>4, LeaseAssumption
        <3> QED
            BY <3>2 DEF Alive
    <2> QED
        BY <2>6, <2>8, <2>9
<1> QED
    BY <1>1, <1>2, <1>3 DEF Slotted

\* A crash: the jobs of the other processes are listed elsewhere.
LEMMA CrashIsSlotted ==
    ASSUME IInv, AllSlotted, NEW p \in Processes, Crash(p)
    PROVE  AllSlotted'
<1> USE DEF Rest
<1> SUFFICES ASSUME NEW k \in Jobs PROVE Slotted(k)'
    BY DEF AllSlotted
<1>1. Rest /\ Good(Slots) /\ Slotted(k)
    BY DEF IInv, AllSlotted
<1>2. /\ status' = status
      /\ pc'[k] = IF ProcessOf[k] = p /\ pc[k] # "new" THEN "over" ELSE pc[k]
      /\ cleanup'[k] = IF ProcessOf[k] = p THEN "no" ELSE cleanup[k]
      /\ beat'[k] = IF ProcessOf[k] = p THEN "off" ELSE beat[k]
      /\ asked'[k] = (asked[k] /\ ProcessOf[k] # p)
    BY DEF Crash
<1>3. CASE ProcessOf[k] = p
    BY <1>1, <1>2, <1>3 DEF Slotted
<1>4. CASE ProcessOf[k] # p
    <2>1. /\ \A t \in {"redis", ProcessOf[k]} :
                 listed'[t][k] = listed[t][k] /\ left'[t][k] = left[t][k]
          /\ ttl' = ttl
        BY <1>1, <1>4, OwnTable, ProcessesAssumption DEF Crash, Good, Slots, SlotsType
    <2>2. /\ Alive(k, 1) => Alive(k, 1)'
          /\ Alive(k, 2) => Alive(k, 2)'
        BY <2>1 DEF Alive, Unrenewed
    <2> QED
        BY <1>1, <1>2, <1>4, <2>2 DEF Slotted
<1> QED
    BY <1>3, <1>4

LEMMA StepIsSlotted ==
    ASSUME IInv, AllSlotted, Races = {}, [Next]_vars
    PROVE  AllSlotted'
<1>1. CASE UNCHANGED vars
    BY <1>1, SameIsSlotted DEF vars, AllSlotted, Same, IInv
<1>2. CASE Next
    BY <1>2, HeartbeatIsSlotted, SubmissionIsSlotted, CoroutineIsSlotted,
       RequestIsSlotted, TickIsSlotted, CrashIsSlotted DEF Next
<1> QED
    BY <1>1, <1>2

\* A job that executes nodes has a slot in some table, through failed calls,
\* crashes and expiries: unless a request is early or a submission outlasts a
\* heartbeat, the heartbeat renews what the admission wrote before it expires,
\* and no cleanup or heartbeat of an earlier coroutine takes it away.  The
\* exception is a job whose activation found its old entries in Redis, as long
\* as no heartbeat has renewed them: their keys may lapse before they do.
THEOREM RunningKeepsSlot == ASSUME Races = {} PROVE Spec => []RunningHasSlot
<1>1. Init => AllSlotted
    BY DEF Init, AllSlotted, Slotted, Suspended
<1>2. IInv /\ AllSlotted /\ [Next]_vars => AllSlotted'
    BY StepIsSlotted
<1>3. IInv /\ AllSlotted => RunningHasSlot
    <2> SUFFICES ASSUME AllSlotted, NEW j \in Jobs, pc[j] = "run", status[j] = "running"
                 PROVE  Unrenewed(j) \/ \E t \in Tables : Holds(Slots, t, j)
        BY DEF RunningHasSlot
    <2>1. Alive(j, 1)
        BY DEF AllSlotted, Slotted
    <2> QED
        BY <2>1, OwnTable DEF Alive, Holds, Slots
<1> QED
    BY <1>1, <1>2, <1>3, SpecIsGood, PTL DEF Spec
=============================================================================
