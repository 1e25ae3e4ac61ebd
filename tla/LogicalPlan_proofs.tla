-------------------------- MODULE LogicalPlan_proofs --------------------------
(***************************************************************************)
(* Proofs about LogicalPlan, for every plan, every set of patches and all  *)
(* limits: its types, that an answered patch is kept, and that the nodes   *)
(* that were started stay within the budget.  The last two assume that no  *)
(* race of the module is allowed.                                          *)
(*                                                                         *)
(* The first part is about the sum of the estimates of a set of nodes, a   *)
(* fold over the set: induction over its size is done by looking at the    *)
(* smallest set for which a fact would fail.  The second part states the   *)
(* inductive invariant, the third proves the types, the fourth that the    *)
(* plans read are current, the last the budget.                            *)
(***************************************************************************)
EXTENDS LogicalPlan, FiniteSetTheorems, WellFoundedInduction, TLAPS

(* -------------------------------- sums --------------------------------- *)

LEMMA LeastNumber ==
    ASSUME NEW T \in SUBSET Nat, T # {}
    PROVE  \E n \in T : \A m \in T : n <= m
<1>1. PICK n \in T : \A m \in T : ~(<<m, n>> \in OpToRel(<, Nat))
    BY WFMin, NatLessThanWellFounded
<1>2. \A m \in T : n <= m
    <2> SUFFICES ASSUME NEW m \in T, ~(n <= m)
                 PROVE  FALSE
        OBVIOUS
    <2>1. m < n /\ <<m, n>> \in Nat \X Nat
        OBVIOUS
    <2>2. <<m, n>> \in OpToRel(<, Nat)
        BY <2>1 DEF OpToRel
    <2> QED
        BY <1>1, <2>2
<1> QED
    BY <1>2

\* The subsets of the nodes are finite; taking an element out makes one smaller.
LEMMA Smaller ==
    ASSUME NEW s \in SUBSET Nodes
    PROVE  /\ IsFiniteSet(s) /\ Cardinality(s) \in Nat
           /\ Cardinality(s) = 0 <=> s = {}
           /\ \A x \in s : Cardinality(s \ {x}) \in Nat /\ Cardinality(s \ {x}) < Cardinality(s)
<1>1. IsFiniteSet(s)
    BY NumberedInPlanOrder, FS_Subset
<1>2. Cardinality(s) \in Nat /\ (Cardinality(s) = 0 <=> s = {})
    BY <1>1, FS_CardinalityType, FS_EmptySet
<1>3. \A x \in s : Cardinality(s \ {x}) = Cardinality(s) - 1 /\ Cardinality(s \ {x}) \in Nat
    <2> TAKE x \in s
    <2>1. IsFiniteSet(s \ {x}) /\ Cardinality(s \ {x}) = Cardinality(s) - 1
        BY <1>1, FS_RemoveElement
    <2> QED
        BY <2>1, FS_CardinalityType
<1> QED
    BY <1>1, <1>2, <1>3

Pick(s) == CHOOSE x \in s : TRUE

SumStep(f, S) ==
    [s \in SUBSET S |-> IF s = {} THEN 0 ELSE Estimate[Pick(s)] + f[s \ {Pick(s)}]]

SumFn(S) == CHOOSE f : f = SumStep(f, S)

LEMMA CostUnfolds ==
    ASSUME NEW S
    PROVE  Cost(S) = SumFn(S)[S]
    BY DEF Cost, MapThenSumSet, MapThenFoldSet, SumFn, SumStep, Pick

LEMMA PickIn ==
    ASSUME NEW s, s # {}
    PROVE  Pick(s) \in s
    BY DEF Pick

LEMMA StepIsNat ==
    ASSUME NEW S \in SUBSET Nodes, NEW g \in [SUBSET S -> Nat]
    PROVE  SumStep(g, S) \in [SUBSET S -> Nat]
<1> SUFFICES ASSUME NEW s \in SUBSET S, s # {}
             PROVE  Estimate[Pick(s)] + g[s \ {Pick(s)}] \in Nat
    BY DEF SumStep
<1>1. Pick(s) \in Nodes /\ s \ {Pick(s)} \in SUBSET S
    BY PickIn
<1>2. Estimate[Pick(s)] \in Nat /\ g[s \ {Pick(s)}] \in Nat
    BY <1>1, EstimatesAreNumbers
<1> QED
    BY <1>2

\* The recursive equation of the fold has a solution.
LEMMA SumExists ==
    ASSUME NEW S \in SUBSET Nodes
    PROVE  \E f \in [SUBSET S -> Nat] : f = SumStep(f, S)
<1> DEFINE UpTo(g, n) == \A s \in SUBSET S : Cardinality(s) <= n => g[s] = SumStep(g, S)[s]
           Bad == {n \in Nat : ~\E g \in [SUBSET S -> Nat] : UpTo(g, n)}
<1>1. ASSUME NEW n \in Nat, n \in Bad, \A m \in Bad : n <= m
      PROVE  FALSE
    <2>1. CASE n = 0
        <3> DEFINE g == [s \in SUBSET S |-> 0]
        <3>1. g \in [SUBSET S -> Nat]
            OBVIOUS
        <3>2. \A s \in SUBSET S : Cardinality(s) <= 0 => s = {}
            BY Smaller
        <3>3. UpTo(g, 0)
            BY <3>2 DEF SumStep
        <3> QED
            BY <1>1, <2>1, <3>1, <3>3
    <2>2. CASE n # 0
        <3>1. n - 1 \in Nat /\ n - 1 \notin Bad
            <4>1. n - 1 \in Nat /\ ~(n <= n - 1)
                BY <2>2
            <4> HIDE DEF Bad
            <4> QED
                BY <1>1, <4>1
        <3>2. PICK g \in [SUBSET S -> Nat] : UpTo(g, n - 1)
            BY <3>1
        <3> DEFINE h == [s \in SUBSET S |-> IF Cardinality(s) <= n - 1 THEN g[s] ELSE SumStep(g, S)[s]]
        <3>3. h \in [SUBSET S -> Nat]
            <4>1. SumStep(g, S) \in [SUBSET S -> Nat]
                BY StepIsNat
            <4> QED
                BY <4>1
        <3>4. ASSUME NEW s \in SUBSET S, Cardinality(s) <= n
              PROVE  h[s] = SumStep(h, S)[s]
            <4>1. h[s] = SumStep(g, S)[s]
                BY <3>2
            <4>2. SumStep(h, S)[s] = SumStep(g, S)[s]
                <5>1. CASE s = {}
                    BY <5>1 DEF SumStep
                <5>2. CASE s # {}
                    <6>1. Pick(s) \in s /\ s \ {Pick(s)} \in SUBSET S
                        BY <5>2, PickIn
                    <6>2. Cardinality(s \ {Pick(s)}) <= n - 1
                        BY <3>4, <6>1, Smaller
                    <6>3. h[s \ {Pick(s)}] = g[s \ {Pick(s)}]
                        BY <6>1, <6>2
                    <6> QED
                        BY <6>3 DEF SumStep
                <5> QED
                    BY <5>1, <5>2
            <4> QED
                BY <4>1, <4>2
        <3> QED
            BY <1>1, <3>3, <3>4
    <2> QED
        BY <2>1, <2>2
<1>2. Cardinality(S) \notin Bad
    <2>1. Bad \in SUBSET Nat
        OBVIOUS
    <2> HIDE DEF Bad
    <2> QED
        BY <1>1, <2>1, LeastNumber
<1>3. PICK f \in [SUBSET S -> Nat] : UpTo(f, Cardinality(S))
    BY <1>2, Smaller
<1>4. \A s \in SUBSET S : Cardinality(s) <= Cardinality(S)
    BY Smaller, FS_Subset
<1>5. f = SumStep(f, S)
    BY <1>3, <1>4 DEF SumStep
<1> QED
    BY <1>5

LEMMA SumFnEquation ==
    ASSUME NEW S \in SUBSET Nodes
    PROVE  SumFn(S) = SumStep(SumFn(S), S)
    BY SumExists DEF SumFn

LEMMA SumFnStep ==
    ASSUME NEW S \in SUBSET Nodes, NEW s \in SUBSET S
    PROVE  /\ s = {} => SumFn(S)[s] = 0
           /\ s # {} => SumFn(S)[s] = Estimate[Pick(s)] + SumFn(S)[s \ {Pick(s)}]
<1>1. SumFn(S)[s] = SumStep(SumFn(S), S)[s]
    BY SumFnEquation
<1> QED
    BY <1>1 DEF SumStep

\* The sum of a subset does not depend on the set the fold started from.
LEMMA SumIsLocal ==
    ASSUME NEW S \in SUBSET Nodes, NEW T \in SUBSET S
    PROVE  SumFn(S)[T] = Cost(T)
<1> DEFINE Bad == {n \in Nat : \E s \in SUBSET T : n = Cardinality(s) /\ SumFn(S)[s] # SumFn(T)[s]}
<1>1. ASSUME NEW n \in Bad, \A m \in Bad : n <= m
      PROVE  FALSE
    <2>1. PICK s \in SUBSET T : n = Cardinality(s) /\ SumFn(S)[s] # SumFn(T)[s]
        OBVIOUS
    <2>2. s \in SUBSET S /\ T \in SUBSET Nodes
        OBVIOUS
    <2>3. s # {}
        BY <2>1, <2>2, SumFnStep
    <2> DEFINE r == s \ {Pick(s)}
    <2>4. Pick(s) \in s /\ r \in SUBSET T
        BY <2>3, PickIn
    <2>5. Cardinality(r) \in Nat /\ Cardinality(r) < n
        BY <2>1, <2>2, <2>4, Smaller
    <2>6. SumFn(S)[r] = SumFn(T)[r]
        <3>1. Cardinality(r) \notin Bad
            <4>1. n \in Nat
                OBVIOUS
            <4> HIDE DEF Bad, r
            <4> QED
                BY <1>1, <2>5, <4>1
        <3> QED
            BY <2>4, <2>5, <3>1
    <2> QED
        BY <2>1, <2>2, <2>3, <2>6, SumFnStep
<1>2. Cardinality(T) \notin Bad
    <2>1. Bad \in SUBSET Nat
        OBVIOUS
    <2> HIDE DEF Bad
    <2> QED
        BY <1>1, <2>1, LeastNumber
<1>3. SumFn(S)[T] = SumFn(T)[T]
    <2>1. Cardinality(T) \in Nat
        BY Smaller
    <2> QED
        BY <1>2, <2>1
<1> QED
    BY <1>3, CostUnfolds

LEMMA CostStep ==
    ASSUME NEW S \in SUBSET Nodes
    PROVE  /\ S = {} => Cost(S) = 0
           /\ S # {} => Cost(S) = Estimate[Pick(S)] + Cost(S \ {Pick(S)})
<1>1. Cost(S) = SumFn(S)[S] /\ S \in SUBSET S /\ S \ {Pick(S)} \in SUBSET S
    BY CostUnfolds
<1>2. Cost(S \ {Pick(S)}) = SumFn(S)[S \ {Pick(S)}]
    BY <1>1, SumIsLocal
<1> QED
    BY <1>1, <1>2, SumFnStep

LEMMA CostIsNat ==
    ASSUME NEW S \in SUBSET Nodes
    PROVE  Cost(S) \in Nat
<1> DEFINE Bad == {n \in Nat : \E s \in SUBSET S : n = Cardinality(s) /\ Cost(s) \notin Nat}
<1>3. ASSUME NEW n \in Bad, \A m \in Bad : n <= m
      PROVE  FALSE
    <2>1. PICK s \in SUBSET S : n = Cardinality(s) /\ Cost(s) \notin Nat
        OBVIOUS
    <2>2. s \in SUBSET Nodes
        OBVIOUS
    <2>3. s # {}
        <3>1. s = {} => Cost(s) = 0
            BY <2>2, CostStep
        <3> QED
            BY <2>1, <3>1
    <2> DEFINE r == s \ {Pick(s)}
    <2>4. Pick(s) \in s /\ r \in SUBSET S
        BY <2>3, PickIn
    <2>5. Cardinality(r) \in Nat /\ Cardinality(r) < n
        BY <2>1, <2>2, <2>4, Smaller
    <2>6. Cost(r) \in Nat
        BY <1>3, <2>4, <2>5
    <2>7. Estimate[Pick(s)] \in Nat
        BY <2>4, EstimatesAreNumbers
    <2> QED
        BY <2>1, <2>2, <2>3, <2>6, <2>7, CostStep
<1>4. Cardinality(S) \notin Bad
    <2>1. Bad \in SUBSET Nat
        OBVIOUS
    <2> HIDE DEF Bad
    <2> QED
        BY <1>3, <2>1, LeastNumber
<1> QED
    BY <1>4, Smaller

\* The sum does not depend on the order in which the fold picks the nodes.
LEMMA CostRemove ==
    ASSUME NEW S \in SUBSET Nodes, NEW x \in S
    PROVE  Cost(S) = Estimate[x] + Cost(S \ {x})
<1> DEFINE Wrong(s) == \E y \in s : Cost(s) # Estimate[y] + Cost(s \ {y})
           Bad == {n \in Nat : \E s \in SUBSET S : n = Cardinality(s) /\ Wrong(s)}
<1>1. ASSUME NEW n \in Bad, \A m \in Bad : n <= m
      PROVE  FALSE
    <2>1. PICK s \in SUBSET S : n = Cardinality(s) /\ Wrong(s)
        OBVIOUS
    <2>2. PICK y \in s : Cost(s) # Estimate[y] + Cost(s \ {y})
        BY <2>1
    <2> DEFINE p == Pick(s)
               r == s \ {p}
               q == s \ {y}
    <2>3. s \in SUBSET Nodes /\ s # {} /\ p \in s
        BY PickIn
    <2>4. Cost(s) = Estimate[p] + Cost(r)
        BY <2>3, CostStep
    <2>5. p # y
        BY <2>2, <2>4
    <2>6. \A z \in s : Cardinality(s \ {z}) \in Nat /\ Cardinality(s \ {z}) < n
        BY <2>1, <2>3, Smaller
    <2>7. \A z \in s : ~Wrong(s \ {z})
        <3> TAKE z \in s
        <3>1. Cardinality(s \ {z}) \notin Bad
            <4>1. n \in Nat
                OBVIOUS
            <4> HIDE DEF Bad
            <4> QED
                BY <1>1, <2>6, <4>1
        <3>2. s \ {z} \in SUBSET S
            OBVIOUS
        <3> HIDE DEF Wrong
        <3> QED
            BY <2>6, <3>1, <3>2
    <2>8. Cost(r) = Estimate[y] + Cost(r \ {y})
        BY <2>3, <2>5, <2>7
    <2>9. Cost(q) = Estimate[p] + Cost(q \ {p})
        BY <2>3, <2>5, <2>7
    <2>10. r \ {y} = q \ {p} /\ r \ {y} \in SUBSET Nodes
        BY <2>3
    <2>11. Estimate[p] \in Nat /\ Estimate[y] \in Nat /\ Cost(r \ {y}) \in Nat
        BY <2>3, <2>10, CostIsNat, EstimatesAreNumbers
    <2> HIDE DEF p, r, q
    <2>12. Cost(s) = Estimate[y] + Cost(q)
        <3>1. Cost(q \ {p}) = Cost(r \ {y})
            BY <2>10
        <3> QED
            BY <2>4, <2>8, <2>9, <2>11, <3>1
    <2> QED
        BY <2>2, <2>12 DEF q
<1>2. Cardinality(S) \notin Bad
    <2>1. Bad \in SUBSET Nat
        OBVIOUS
    <2> HIDE DEF Bad
    <2> QED
        BY <1>1, <2>1, LeastNumber
<1> QED
    BY <1>2, Smaller

LEMMA CostDisjoint ==
    ASSUME NEW A \in SUBSET Nodes, NEW B \in SUBSET Nodes, A \cap B = {}
    PROVE  Cost(A \cup B) = Cost(A) + Cost(B)
<1> DEFINE Wrong(b) == Cost(A \cup b) # Cost(A) + Cost(b)
           Bad == {n \in Nat : \E b \in SUBSET B : n = Cardinality(b) /\ Wrong(b)}
<1>1. ASSUME NEW n \in Bad, \A m \in Bad : n <= m
      PROVE  FALSE
    <2>1. PICK b \in SUBSET B : n = Cardinality(b) /\ Wrong(b)
        OBVIOUS
    <2>2. b \in SUBSET Nodes /\ Cost(A) \in Nat
        BY CostIsNat
    <2>3. b # {}
        <3> SUFFICES ASSUME b = {}
                     PROVE  FALSE
            OBVIOUS
        <3>1. Cost(b) = 0 /\ A \cup b = A
            BY <2>2, CostStep
        <3> QED
            BY <2>1, <2>2, <3>1
    <2>4. PICK x : x \in b
        BY <2>3
    <2> DEFINE r == b \ {x}
    <2>5. Cardinality(r) \in Nat /\ Cardinality(r) < n
        BY <2>1, <2>2, <2>4, Smaller
    <2>6. ~Wrong(r)
        <3>1. Cardinality(r) \notin Bad
            <4>1. n \in Nat
                OBVIOUS
            <4> HIDE DEF Bad, r
            <4> QED
                BY <1>1, <2>5, <4>1
        <3>2. r \in SUBSET B
            OBVIOUS
        <3> HIDE DEF Wrong
        <3> QED
            BY <2>5, <3>1, <3>2
    <2>7. (A \cup b) \ {x} = A \cup r /\ x \in A \cup b /\ A \cup b \in SUBSET Nodes
        BY <2>2, <2>4
    <2>8. Cost(A \cup b) = Estimate[x] + Cost(A \cup r)
        BY <2>7, CostRemove
    <2>9. Cost(b) = Estimate[x] + Cost(r)
        BY <2>2, <2>4, CostRemove
    <2>10. Estimate[x] \in Nat /\ Cost(r) \in Nat
        BY <2>2, <2>4, CostIsNat, EstimatesAreNumbers
    <2> HIDE DEF r
    <2> QED
        BY <2>1, <2>2, <2>6, <2>8, <2>9, <2>10
<1>2. Cardinality(B) \notin Bad
    <2>1. Bad \in SUBSET Nat
        OBVIOUS
    <2> HIDE DEF Bad
    <2> QED
        BY <1>1, <2>1, LeastNumber
<1> QED
    BY <1>2, Smaller

LEMMA CostGrows ==
    ASSUME NEW B \in SUBSET Nodes, NEW A \in SUBSET B
    PROVE  Cost(A) <= Cost(B)
<1>1. A \in SUBSET Nodes /\ B \ A \in SUBSET Nodes /\ A \cap (B \ A) = {} /\ A \cup (B \ A) = B
    OBVIOUS
<1>2. Cost(B) = Cost(A) + Cost(B \ A)
    BY <1>1, CostDisjoint
<1>3. Cost(A) \in Nat /\ Cost(B \ A) \in Nat
    BY <1>1, CostIsNat
<1> QED
    BY <1>2, <1>3

LEMMA CostUnion ==
    ASSUME NEW A \in SUBSET Nodes, NEW B \in SUBSET Nodes
    PROVE  Cost(A \cup B) <= Cost(A) + Cost(B)
<1>1. /\ B \ A \in SUBSET Nodes /\ B \ A \in SUBSET B
      /\ A \cap (B \ A) = {} /\ A \cup (B \ A) = A \cup B
    OBVIOUS
<1>2. Cost(A \cup B) = Cost(A) + Cost(B \ A)
    BY <1>1, CostDisjoint
<1>3. Cost(B \ A) <= Cost(B) /\ Cost(A) \in Nat /\ Cost(B) \in Nat /\ Cost(B \ A) \in Nat
    BY <1>1, CostGrows, CostIsNat
<1> QED
    BY <1>2, <1>3


(* ------------------------- the inductive invariant --------------------- *)

Win(j) == {n \in Nodes : j.nodes[n] # "none"}
Stop(j) == {n \in Nodes : j.nodes[n] = "cancelled"}
Handed == Progress(plan, {"materialized"})
Ran == {n \in Nodes : past[n] # "fresh"}

\* One patch at a time is appended, and never while the loop is between two
\* windows: what either of them read of the plan is the plan still.
OneAtATime == \A c \in Patches : Appending(c) => lock = c /\ ~Between
LoopIsCurrent == loop.pc \in {"commit", "advance", "reopened", "replan"} => loop.plan = plan
PatchIsCurrent ==
    \A c \in Patches : patch[c].pc = "decided" =>
        patch[c].plan = Applied(plan, c) /\ Fits(plan, c, plan.revision)

\* A node that a cancel stopped is known as such to whoever holds the job, and
\* a loop that runs has not been stopped.
LoopKnowsStops == loop.pc \in {"launch", "running"} => Stop(job) \subseteq Stop(loop.job)
JobKnowsStops == \A c \in Patches : Appending(c) => Stop(patch[c].job) \subseteq Stop(job)
PatchesLiveJobs == \A c \in Patches : patch[c].pc \in {"decided", "planned"} =>
                        patch[c].job.status \notin Terminal
Runs == \/ loop.pc \in {"launch", "running"}
        \/ loop.pc = "save" /\ loop.next = "start"
NotStopped ==
    /\ Runs \/ loop.pc \in {"start", "load", "commit", "advance"} =>
            job.status \notin {"cancelled", "interrupted"}
    /\ Runs => loop.job.status \notin {"cancelled", "interrupted"}

\* Every node that was handed out is in the window of the job, and in the
\* windows of the job objects that will be saved over it.
Holds == loop.pc \in {"launch", "running", "load", "commit", "advance", "save", "recover",
                      "reopen", "reopened", "replan"}
JobHasWindow ==
    \/ loop.pc = "save" \/ Handed \subseteq Win(job)
    \/ loop.pc = "off" /\ job.status \in Terminal
LoopHasWindow == Holds => Handed \subseteq Win(loop.job)
PatchHasWindow == \A c \in Patches : Appending(c) =>
                      Handed \subseteq Win(patch[c].job) \/ patch[c].job.status \in Terminal

\* A tail is replaced when no node is handed out; a window that an escalation
\* stopped is the only one that is left in the middle.
Cleared ==
    /\ loop.pc \in {"advance", "replan"} => Handed = {}
    /\ loop.pc = "save" /\ loop.next = "recover" => Handed = {}
    /\ loop.pc = "recover" => \/ Handed = {}
                              \/ loop.job.status \in Control
                              \/ loop.job.status = "waiting_approval"
    /\ loop.pc = "refresh" /\ job.status = "waiting_approval" => Escalated(job) # {}
    /\ loop.next = "stopped" => Escalated(loop.job) # {}

\* An escalated node, and one that waits for an approval, was run before.
Tried(j) == Escalated(j) \subseteq Ran /\ (j.awaiting # None => j.awaiting \in Ran)
AllTried ==
    /\ Tried(job)
    /\ Holds => Tried(loop.job)
    /\ \A c \in Patches : Appending(c) => Tried(patch[c].job)
    /\ loop.pc = "running" => Open(loop.job) \subseteq Ran

\* The nodes that were run or may be, as far as anybody holds the job.
Reached == Ran \cup Open(job) \cup {n \in Nodes : Holds /\ n \in Open(loop.job)}
               \cup {n \in Nodes : \E c \in Patches : Appending(c) /\ n \in Open(patch[c].job)}

\* They are paid for: what was handed out from the reserve, the rest as used.
Paid ==
    /\ Cost(Reached \cup Handed) <= plan.used + plan.reserved
    /\ Cost(Reached \ Handed) <= plan.used
    /\ Cost(Reached \cup Handed) <= Limit

Turns == TypeOK /\ OneAtATime /\ LoopIsCurrent /\ PatchIsCurrent
Stops == LoopKnowsStops /\ JobKnowsStops /\ PatchesLiveJobs /\ NotStopped
Windows == JobHasWindow /\ LoopHasWindow /\ PatchHasWindow

IInv == Turns /\ Stops /\ Windows /\ Cleared /\ AllTried /\ Paid

(* ------------------------- plans and records --------------------------- *)

LEMMA NoneIsNoNode == None \notin Nodes
    BY NumberedInPlanOrder DEF None

LEMMA LenIsNat == Len(Tails) \in Nat /\ \A i \in 1 .. Len(Tails) : Tails[i] \in SUBSET Nodes
<1>1. Len(Tails) \in Nat /\ DOMAIN Tails = 1 .. Len(Tails)
    BY TailsAreSets
<1> QED
    BY <1>1 DEF Nodes

LEMMA MaterializedFacts ==
    ASSUME NEW p \in Plans
    PROVE  /\ Frontier(p) \in SUBSET Nodes
           /\ \A n \in Frontier(p) : p.nodes[n] = "pending"
           /\ Cost(Frontier(p)) \in Nat
           /\ Materialized(p) \in Plans
           /\ Materialized(p).nodes
                = [n \in Nodes |-> IF n \in Frontier(p) THEN "materialized" ELSE p.nodes[n]]
           /\ Materialized(p).used = p.used
           /\ Materialized(p).reserved = p.reserved + Cost(Frontier(p))
           /\ Materialized(p).applied = p.applied
<1>1. Frontier(p) \in SUBSET Nodes /\ \A n \in Frontier(p) : p.nodes[n] = "pending"
    BY DEF Frontier, Ready
<1>2. Cost(Frontier(p)) \in Nat
    BY <1>1, CostIsNat
<1>3. /\ Materialized(p).used = p.used
      /\ Materialized(p).applied = p.applied
      /\ Materialized(p).expanded = p.expanded
      /\ Materialized(p).revision = p.revision
      /\ Materialized(p).reserved = p.reserved + Cost(Frontier(p))
      /\ DOMAIN Materialized(p) = {"nodes", "expanded", "applied", "revision", "reserved", "used"}
    BY DEF Materialized, Plans
<1>4. Materialized(p).nodes
        = [n \in Nodes |-> IF n \in Frontier(p) THEN "materialized" ELSE p.nodes[n]]
    BY DEF Materialized, Plans
<1>5. Materialized(p).nodes \in [Nodes -> NodeStatus \cup {"materialized"}]
    BY <1>4 DEF Plans
<1>6. Materialized(p).reserved \in Nat
    BY <1>2, <1>3 DEF Plans
<1>7. Materialized(p) \in Plans
    BY <1>3, <1>5, <1>6 DEF Materialized, Plans
<1> QED
    BY <1>1, <1>2, <1>3, <1>4, <1>7

LEMMA WindowFacts ==
    ASSUME NEW p \in Plans
    PROVE  /\ Window(p) \in [Nodes -> {"pending", "none"}]
           /\ \A n \in Nodes : Window(p)[n] # "none" <=> n \in Frontier(p)
    BY DEF Window

\* The nodes of a window that a commit takes back.
Back(p, j) == {n \in Win(j) : p.nodes[n] \in {"materialized", "pending"}}

LEMMA CommittedFacts ==
    ASSUME NEW p \in Plans, NEW j \in Jobs
    PROVE  /\ Back(p, j) \in SUBSET Nodes
           /\ Cost(Back(p, j)) \in Nat
           /\ Committed(p, j.nodes) \in Plans
           /\ Committed(p, j.nodes).nodes
                = [n \in Nodes |-> IF n \in Back(p, j) THEN j.nodes[n] ELSE p.nodes[n]]
           /\ Committed(p, j.nodes).used = p.used + Cost(Back(p, j))
           /\ Committed(p, j.nodes).reserved = Less(p.reserved, Cost(Back(p, j)))
           /\ Committed(p, j.nodes).applied = p.applied
<1> DEFINE back == {n \in Nodes : j.nodes[n] # "none" /\ p.nodes[n] \in {"materialized", "pending"}}
<1>1. back \in SUBSET Nodes /\ back = Back(p, j)
    BY DEF Win, Back
<1>2. Cost(back) \in Nat /\ Less(p.reserved, Cost(back)) \in Nat
    BY <1>1, CostIsNat DEF Less, Plans
<1>3. Committed(p, j.nodes) =
        [p EXCEPT !.nodes = [n \in Nodes |-> IF n \in back THEN j.nodes[n] ELSE @[n]],
                  !.reserved = Less(@, Cost(back)),
                  !.used = @ + Cost(back)]
    BY DEF Committed
<1> DEFINE q == Committed(p, j.nodes)
<1> HIDE DEF back
<1>4. /\ q.used = p.used + Cost(back)
      /\ q.reserved = Less(p.reserved, Cost(back))
      /\ q.applied = p.applied
      /\ q.expanded = p.expanded
      /\ q.revision = p.revision
    BY <1>3 DEF Plans
<1>5. q.nodes = [n \in Nodes |-> IF n \in back THEN j.nodes[n] ELSE p.nodes[n]]
    BY <1>3 DEF Plans
<1>6. q.nodes \in [Nodes -> NodeStatus \cup {"materialized"}]
    BY <1>5 DEF Plans, Jobs
<1>7. q.used \in Nat /\ q.reserved \in Nat
    BY <1>2, <1>4 DEF Plans
<1>8. q \in Plans
    BY <1>3, <1>4, <1>6, <1>7 DEF Plans
<1> QED
    BY <1>1, <1>2, <1>4, <1>5, <1>8

LEMMA ReplacedFacts ==
    ASSUME NEW p \in Plans, NEW tail \in SUBSET Nodes
    PROVE  /\ Replaced(p, tail) \in Plans
           /\ \A n \in Nodes : Replaced(p, tail).nodes[n] # "materialized"
           /\ Replaced(p, tail).reserved = 0
           /\ Replaced(p, tail).used = p.used
           /\ Replaced(p, tail).applied = p.applied
<1> DEFINE q == Replaced(p, tail)
<1>1. /\ q.reserved = 0
      /\ q.used = p.used
      /\ q.applied = p.applied
      /\ q.expanded = p.expanded
      /\ q.revision = p.revision + 1
    BY DEF Replaced, Plans
<1>2. q.nodes = [n \in Nodes |-> IF p.nodes[n] = "completed" THEN "completed"
                                 ELSE IF n \in tail THEN "pending" ELSE "none"]
    BY DEF Replaced, Plans
<1>3. q.nodes \in [Nodes -> NodeStatus \cup {"materialized"}]
    BY <1>2 DEF NodeStatus
<1>4. /\ q.used \in Nat /\ q.reserved \in Nat /\ q.revision \in Nat
      /\ q.applied \in SUBSET Patches /\ q.expanded \in SUBSET Slots
    BY <1>1 DEF Plans
<1>5. q = [p EXCEPT !.nodes = q.nodes, !.revision = q.revision, !.reserved = q.reserved]
    BY <1>1, <1>2 DEF Replaced
<1> HIDE DEF q
<1>6. q \in Plans
    BY <1>3, <1>4, <1>5 DEF Plans
<1> QED
    BY <1>1, <1>2, <1>6 DEF q

LEMMA AppliedFacts ==
    ASSUME NEW p \in Plans, NEW c \in Patches, NEW b, Fits(p, c, b)
    PROVE  /\ Applied(p, c) \in Plans
           /\ Applied(p, c).nodes = [n \in Nodes |-> IF n \in Added[c] THEN "pending" ELSE p.nodes[n]]
           /\ Applied(p, c).used = p.used
           /\ Applied(p, c).reserved = p.reserved
           /\ Applied(p, c).applied = p.applied \cup {c}
<1> DEFINE q == Applied(p, c)
<1>1. /\ q.used = p.used
      /\ q.reserved = p.reserved
      /\ q.applied = p.applied \cup {c}
      /\ q.expanded = p.expanded \cup {SlotOf[c]}
      /\ q.revision = p.revision + 1
    BY DEF Applied, Plans
<1>2. q.nodes = [n \in Nodes |-> IF n \in Added[c] THEN "pending" ELSE p.nodes[n]]
    BY DEF Applied, Plans
<1>3. q.nodes \in [Nodes -> NodeStatus \cup {"materialized"}]
    BY <1>2 DEF Plans, NodeStatus
<1>4. SlotOf[c] \in Slots
    BY DEF Fits, ReadySlots
<1>5. /\ q.used \in Nat /\ q.reserved \in Nat /\ q.revision \in Nat
      /\ q.applied \in SUBSET Patches /\ q.expanded \in SUBSET Slots
    BY <1>1, <1>4 DEF Plans
<1>6. q = [p EXCEPT !.nodes = q.nodes, !.expanded = q.expanded,
                      !.applied = q.applied, !.revision = q.revision]
    BY <1>1, <1>2 DEF Applied
<1> HIDE DEF q
<1>7. q \in Plans
    BY <1>3, <1>5, <1>6 DEF Plans
<1> QED
    BY <1>1, <1>2, <1>7 DEF q

\* What a save makes of a job object, whether it is merged or not.
LEMMA SavedFacts ==
    ASSUME job \in Jobs, NEW o \in Jobs, NEW h
    PROVE  /\ Saved(h, o) \in Jobs
           /\ Win(Saved(h, o)) = Win(o)
           /\ Open(Saved(h, o)) \subseteq Open(o) \cup Open(job)
           /\ Escalated(Saved(h, o)) \subseteq Escalated(o) \cup Escalated(job)
           /\ Stop(o) \subseteq Stop(Saved(h, o))
           /\ Stop(Saved(h, o)) \subseteq Stop(o) \cup Stop(job)
           /\ Saved(h, o).awaiting = o.awaiting
           /\ Saved(h, o).status = o.status
                \/ (Saved(h, o).status = job.status /\ job.status \in Control)
           /\ job.status \notin {"cancelled", "interrupted"} =>
                \A n \in Nodes : n \notin Stop(job) => Saved(h, o).nodes[n] = o.nodes[n]
<1>1. CASE h \in current
    BY <1>1 DEF Saved, Win, Open, Escalated, Stop
<1>2. CASE h \notin current
    <2> DEFINE kept(n) == /\ job.nodes[n] # "none"
                          /\ o.nodes[n] \notin {"none", "cancelled"}
                          /\ \/ job.nodes[n] = "cancelled"
                             \/ job.status \in {"cancelled", "interrupted"}
               record == Merge(job, o)
    <2>1. /\ record.status = IF job.status \in Control /\ o.status \notin Control
                             THEN job.status ELSE o.status
          /\ record.nodes = [n \in Nodes |-> IF kept(n) THEN job.nodes[n] ELSE o.nodes[n]]
          /\ record.awaiting = o.awaiting
          /\ record \in Jobs
        BY DEF Merge, Jobs
    <2>2. Saved(h, o) = record
        BY <1>2 DEF Saved
    <2> HIDE DEF record
    <2>3. \A n \in Nodes : record.nodes[n] = IF kept(n) THEN job.nodes[n] ELSE o.nodes[n]
        BY <2>1
    <2>4. Win(record) = Win(o)
        BY <2>3 DEF Win
    <2>5. /\ Open(record) \subseteq Open(o) \cup Open(job)
          /\ Escalated(record) \subseteq Escalated(o) \cup Escalated(job)
          /\ Stop(o) \subseteq Stop(record)
          /\ Stop(record) \subseteq Stop(o) \cup Stop(job)
        BY <2>3 DEF Open, Escalated, Stop
    <2>6. job.status \notin {"cancelled", "interrupted"} =>
             \A n \in Nodes : n \notin Stop(job) => record.nodes[n] = o.nodes[n]
        BY <2>3 DEF Stop
    <2>7. \/ record.status = o.status
          \/ record.status = job.status /\ job.status \in Control
        BY <2>1
    <2> QED
        BY <2>1, <2>2, <2>4, <2>5, <2>6, <2>7
<1> QED
    BY <1>1, <1>2

(* ------------------------- type correctness ---------------------------- *)

LEMMA NewTypes == NewPlan \in Plans /\ NewJob \in Jobs
<1>1. NewPlan \in Plans
    BY DEF NewPlan, Plans, NodeStatus
<1>2. Window(NewPlan) \in [Nodes -> NodeStatus]
    BY <1>1, WindowFacts DEF NodeStatus
<1>3. NewJob \in Jobs
    BY <1>2, LenIsNat DEF NewJob, Jobs, JobStatus
<1> QED
    BY <1>1, <1>3

LEMMA RestTypes ==
    /\ Resting \in Loops /\ Resting.pc = "off" /\ Resting.next = "off"
    /\ Quiet \in Appends /\ Quiet.pc = "idle"
    BY NewTypes DEF Resting, Quiet, Loops, Appends

LEMMA EditedType ==
    ASSUME NEW o \in Jobs, NEW s \in JobStatus
    PROVE  [o EXCEPT !.status = s] \in Jobs
    BY DEF Jobs

LEMMA TypeInit == Init => TypeOK
<1> SUFFICES ASSUME Init PROVE TypeOK
    OBVIOUS
<1>1. plan \in Plans /\ job \in Jobs
    BY NewTypes, MaterializedFacts DEF Init
<1>2. loop \in Loops /\ loop.next = "off" /\ patch \in [Patches -> Appends]
    BY RestTypes DEF Init, Loops
<1>3. current \subseteq Patches \cup {Loop} /\ past \in [Nodes -> {"fresh", "handed", "completed", "uncertain"}]
    BY DEF Init
<1> QED
    BY <1>1, <1>2, <1>3 DEF Init, TypeOK

LEMMA LoopTypes ==
    ASSUME TypeOK, LoopStep
    PROVE  TypeOK'
<1> USE DEF clients, history
<1>0. loop.job \in Jobs /\ loop.plan \in Plans
    BY DEF TypeOK, Loops
<1>1. CASE Start
    BY <1>1 DEF Start, Fetched, TypeOK, Loops
<1>2. CASE Launch
    BY <1>2 DEF Launch, TypeOK, Loops
<1>3. ASSUME NEW n \in Nodes, NEW r \in NodeStatus, NodeEnds(n, r)
      PROVE  TypeOK'
    <2> DEFINE gate == r = "escalated" /\ n \in Effectful
               object == [loop.job EXCEPT !.nodes[n] = r,
                                          !.status = IF gate THEN "waiting_approval" ELSE @]
    <2>1. object \in Jobs
        BY <1>0 DEF Jobs, JobStatus
    <2>2. /\ job' = Saved(Loop, object) /\ current' = {Loop}
          /\ userPaused' = (userPaused /\ job'.status = "paused")
          /\ loop.pc = "running"
          /\ \E next \in {"off", "stopped"} : loop' = [loop EXCEPT !.job = Saved(Loop, object), !.next = next]
          /\ past' = [past EXCEPT ![n] = IF r \in {"completed", "uncertain"} THEN r ELSE @]
          /\ UNCHANGED <<plan, clients, requests>>
        BY <1>3 DEF NodeEnds, Store, Stored
    <2> HIDE DEF object
    <2>3. Saved(Loop, object) \in Jobs
        BY <2>1, SavedFacts DEF TypeOK
    <2>4. loop' \in Loops /\ (loop'.next = "stopped" => loop'.pc = "running")
        BY <2>2, <2>3 DEF TypeOK, Loops
    <2> QED
        BY <2>2, <2>3, <2>4 DEF TypeOK
<1>4. CASE Outcome
    <2>1. PICK s \in JobStatus :
              /\ job' = Saved(Loop, [loop.job EXCEPT !.status = s])
              /\ loop' = [loop EXCEPT !.pc = "refresh", !.job = Saved(Loop, [loop.job EXCEPT !.status = s]),
                                      !.next = "off"]
        <3> DEFINE s == IF loop.next = "stopped" THEN "waiting_approval"
                        ELSE IF Open(loop.job) = {} THEN Derived(loop.job) ELSE "paused"
        <3>1. s \in JobStatus
            BY DEF Derived, JobStatus
        <3> QED
            BY <1>4, <3>1 DEF Outcome, Store, Stored
    <2>2. Saved(Loop, [loop.job EXCEPT !.status = s]) \in Jobs
        BY <1>0, EditedType, SavedFacts DEF TypeOK
    <2>3. loop' \in Loops /\ (loop'.next = "stopped" => loop'.pc = "running")
        BY <2>1, <2>2 DEF TypeOK, Loops
    <2> QED
        BY <1>4, <2>1, <2>2, <2>3 DEF Outcome, Store, Stored, TypeOK
<1>5. CASE Refresh
    BY <1>5 DEF Refresh, Fetched, TypeOK, Loops
<1>6. CASE Load
    BY <1>6 DEF Load, TypeOK, Loops
<1>7. CASE Commit
    <2>1. Committed(loop.plan, loop.job.nodes) \in Plans
        BY <1>0, CommittedFacts
    <2> QED
        BY <1>7, <2>1 DEF Commit, TypeOK, Loops
<1>8. CASE FrontierFailed
    BY <1>8 DEF FrontierFailed, TypeOK, Loops
<1>9. ASSUME NEW p \in Plans, NEW object \in Jobs, NEW next \in {"start", "recover"},
             Advanced(p, object, next)
      PROVE  TypeOK'
    BY <1>9 DEF Advanced, TypeOK, Loops
<1>10. CASE AwaitPatches
    <2>1. [loop.job EXCEPT !.status = "paused", !.waits = TRUE] \in Jobs
        BY <1>0 DEF Jobs, JobStatus
    <2> QED
        BY <1>0, <1>9, <1>10, <2>1 DEF AwaitPatches
<1>11. CASE Complete
    <2>1. [loop.job EXCEPT !.status = "completed"] \in Jobs
        BY <1>0, EditedType DEF JobStatus
    <2> QED
        BY <1>0, <1>9, <1>11, <2>1 DEF Complete
<1>12. CASE NextFrontier
    <2>1. [loop.job EXCEPT !.status = "running", !.nodes = Window(loop.plan), !.awaiting = None] \in Jobs
        BY <1>0, WindowFacts DEF Jobs, JobStatus, NodeStatus
    <2>2. Materialized(loop.plan) \in Plans
        BY <1>0, MaterializedFacts
    <2> QED
        BY <1>9, <1>12, <2>1, <2>2 DEF NextFrontier
<1>13. CASE OutOfPlan
    <2>1. [loop.job EXCEPT !.status = "failed"] \in Jobs
        BY <1>0, EditedType DEF JobStatus
    <2> QED
        BY <1>0, <1>9, <1>13, <2>1 DEF OutOfPlan
<1>14. CASE SaveJob
    <2>1. Saved(Loop, loop.job) \in Jobs
        BY <1>0, SavedFacts DEF TypeOK
    <2>2. loop' \in Loops /\ (loop'.next = "stopped" => loop'.pc = "running")
        <3>1. CASE loop.next = "recover"
            BY <1>14, <2>1, <3>1, RestTypes DEF SaveJob, Loops
        <3>2. CASE loop.next # "recover"
            BY <1>14, <3>2, RestTypes DEF SaveJob, TypeOK, Loops
        <3> QED
            BY <3>1, <3>2
    <2> QED
        BY <1>14, <2>1, <2>2 DEF SaveJob, Store, Stored, TypeOK
<1>15. CASE GiveUp
    BY <1>15, RestTypes DEF GiveUp, TypeOK, Loops
<1>16. CASE Escalate
    <2>1. PICK n \in Escalated(loop.job) :
              LET object == [loop.job EXCEPT !.nodes[n] = "pending", !.awaiting = n,
                                             !.status = "waiting_approval"]
              IN  /\ Store(object)
                  /\ loop' = [loop EXCEPT
                        !.pc = IF Saved(Loop, object).status = "waiting_approval"
                               THEN "reopen" ELSE "restart",
                        !.job = Saved(Loop, object)]
        BY <1>16 DEF Escalate
    <2> DEFINE object == [loop.job EXCEPT !.nodes[n] = "pending", !.awaiting = n,
                                          !.status = "waiting_approval"]
    <2>2. object \in Jobs
        BY <1>0 DEF Escalated, Jobs, JobStatus, NodeStatus
    <2>3. /\ job' = Saved(Loop, object) /\ current' = {Loop}
          /\ userPaused' = (userPaused /\ job'.status = "paused")
          /\ loop.pc = "recover"
          /\ \E pc \in {"reopen", "restart"} : loop' = [loop EXCEPT !.pc = pc, !.job = Saved(Loop, object)]
        BY <1>16, <2>1 DEF Escalate, Recovering, Store, Stored
    <2> HIDE DEF object
    <2>4. Saved(Loop, object) \in Jobs
        BY <2>2, SavedFacts DEF TypeOK
    <2>5. loop' \in Loops /\ (loop'.next = "stopped" => loop'.pc = "running")
        BY <2>3, <2>4 DEF TypeOK, Loops
    <2> QED
        BY <1>16, <2>3, <2>4, <2>5 DEF Escalate, TypeOK
<1>24. CASE RecoveryEnds
    <2>1. PICK status \in {"failed", "clarified"} :
              loop' = [loop EXCEPT !.pc = "save", !.job.status = status, !.next = "check"]
        BY <1>24 DEF RecoveryEnds
    <2>2. [loop.job EXCEPT !.status = status] \in Jobs
        BY <1>0 DEF Jobs, JobStatus
    <2> QED
        BY <1>24, <2>1, <2>2 DEF RecoveryEnds, TypeOK, Loops
<1>17. CASE Reopen
    BY <1>17 DEF Reopen, TypeOK, Loops
<1>18. CASE SaveReopened
    <2>1. plan' \in Plans
        BY <1>0, <1>18 DEF SaveReopened, Plans
    <2> QED
        BY <1>18, <2>1 DEF SaveReopened, TypeOK, Loops
<1>19. CASE LoadReplan
    BY <1>19 DEF LoadReplan, Recovering, TypeOK, Loops
<1>20. CASE ReplanDeclined
    BY <1>20 DEF ReplanDeclined, TypeOK, Loops
<1>21. CASE Replan
    <2> DEFINE p == Replaced(loop.plan, Tails[loop.job.replans + 1])
    <2>1. loop.job.replans + 1 \in 1 .. Len(Tails)
        BY <1>0, <1>21, LenIsNat DEF Replan, MayReplan, Jobs
    <2>2. p \in Plans
        BY <1>0, <2>1, LenIsNat, ReplacedFacts
    <2> HIDE DEF p
    <2>3. Materialized(p) \in Plans /\ Window(p) \in [Nodes -> NodeStatus]
        <3>1. Materialized(p) \in Plans
            BY <2>2, MaterializedFacts
        <3> QED
            BY <2>2, <3>1, WindowFacts DEF NodeStatus
    <2>4. /\ [loop.job EXCEPT !.status = "failed"] \in Jobs
          /\ [loop.job EXCEPT !.status = "running", !.nodes = Window(p),
                              !.awaiting = None, !.replans = @ + 1] \in Jobs
        <3>1. loop.job.replans + 1 \in 0 .. Len(Tails)
            BY <2>1, LenIsNat
        <3> QED
            BY <1>0, <2>3, <3>1 DEF Jobs, JobStatus
    <2>5. /\ plan' = Materialized(p)
          /\ \E o \in Jobs, next \in {"check", "restart"} :
                loop' = [loop EXCEPT !.pc = "save", !.job = o, !.next = next]
        BY <1>21, <2>4 DEF Replan, p
    <2>6. loop' \in Loops /\ (loop'.next = "stopped" => loop'.pc = "running")
        BY <2>5 DEF TypeOK, Loops
    <2> QED
        BY <1>21, <2>3, <2>5, <2>6 DEF Replan, TypeOK
<1>22. CASE Restart
    BY <1>22 DEF Restart, TypeOK, Loops
<1>23. CASE Check
    <2>1. job' \in Jobs
        BY <1>23, EditedType DEF Check, TypeOK, JobStatus
    <2> QED
        BY <1>23, <2>1, RestTypes DEF Check, TypeOK
<1> QED
    BY <1>1, <1>2, <1>3, <1>4, <1>5, <1>6, <1>7, <1>8, <1>10, <1>11, <1>12, <1>13, <1>14,
       <1>15, <1>16, <1>17, <1>18, <1>19, <1>20, <1>21, <1>22, <1>23, <1>24
    DEF LoopStep

LEMMA StartedType ==
    ASSUME TypeOK
    PROVE  /\ Started \in Loops
           /\ Started.next = "stopped" => Started.pc = "running"
    BY RestTypes DEF Started, TypeOK, Loops

LEMMA RequestTypes ==
    ASSUME TypeOK, Cancel \/ Pause \/ Resume \/ Approve \/ Reject
    PROVE  TypeOK'
<1> USE DEF clients, history
<1>1. CASE Cancel
    <2>1. job' \in Jobs
        BY <1>1 DEF Cancel, TypeOK, Jobs, JobStatus, NodeStatus
    <2> QED
        BY <1>1, <2>1, RestTypes DEF Cancel, TypeOK
<1>2. CASE Pause
    <2>1. job' \in Jobs
        BY <1>2, EditedType DEF Pause, TypeOK, JobStatus
    <2> QED
        BY <1>2, <2>1 DEF Pause, TypeOK
<1>3. CASE Resume
    <2>1. job' \in Jobs
        BY <1>3, EditedType DEF Resume, Resumed, TypeOK, JobStatus
    <2> QED
        BY <1>3, <2>1, StartedType DEF Resume, Resumed, TypeOK
<1>4. CASE Approve
    <2>1. job' \in Jobs
        BY <1>4 DEF Approve, TypeOK, Jobs, JobStatus, NodeStatus
    <2> QED
        BY <1>4, <2>1, StartedType DEF Approve, TypeOK
<1>5. CASE Reject
    <2>1. job' \in Jobs
        BY <1>5 DEF Reject, TypeOK, Jobs, JobStatus, NodeStatus
    <2> QED
        BY <1>5, <2>1 DEF Reject, TypeOK
<1> QED
    BY <1>1, <1>2, <1>3, <1>4, <1>5

LEMMA PatchTypes ==
    ASSUME TypeOK, NEW c \in Patches, PatchStep(c) \/ Send(c) \/ Abort(c)
    PROVE  TypeOK'
<1> USE DEF clients, history
<1>0. patch[c] \in Appends /\ plan.revision \in Nat
    BY DEF TypeOK, Plans
<1>1. CASE ReadJob(c)
    BY <1>0, <1>1 DEF ReadJob, Fetched, TypeOK, Appends
<1>2. CASE Refuse(c)
    BY <1>0, <1>2, RestTypes DEF Refuse, Released, TypeOK, Appends
<1>3. CASE Replay(c)
    BY <1>0, <1>3, RestTypes DEF Replay, Answered, Released, TypeOK, Appends
<1>4. CASE Attach(c)
    <2>1. Applied(plan, c) \in Plans
        BY <1>4, AppliedFacts DEF Attach, TypeOK
    <2> QED
        BY <1>0, <1>4, <2>1 DEF Attach, TypeOK, Appends
<1>5. CASE SavePlan(c)
    BY <1>0, <1>5, NewTypes DEF SavePlan, TypeOK, Appends
<1>6. CASE SavePatched(c)
    <2>1. Saved(c, patch[c].job) \in Jobs
        BY <1>0, SavedFacts DEF TypeOK, Appends
    <2>2. patch' \in [Patches -> Appends]
        BY <1>0, <1>6, RestTypes DEF SavePatched, Answered, TypeOK, Appends
    <2> QED
        BY <1>6, <2>1, <2>2 DEF SavePatched, Stored, Released, TypeOK
<1>7. CASE Wake(c)
    <2>1. patch' \in [Patches -> Appends]
        BY <1>0, <1>7, RestTypes DEF Wake, Answered, TypeOK, Appends
    <2>2. job' \in Jobs /\ loop' \in Loops /\ (loop'.next = "stopped" => loop'.pc = "running")
        BY <1>7, EditedType, StartedType DEF Wake, Resumed, TypeOK, JobStatus
    <2> QED
        BY <1>7, <2>1, <2>2 DEF Wake, Resumed, TypeOK
<1>8. CASE Send(c)
    BY <1>0, <1>8 DEF Send, TypeOK, Appends
<1>9. CASE Abort(c)
    BY <1>0, <1>9, RestTypes DEF Abort, TypeOK, Appends
<1> QED
    BY <1>1, <1>2, <1>3, <1>4, <1>5, <1>6, <1>7, <1>8, <1>9 DEF PatchStep

LEMMA TypeStep ==
    ASSUME TypeOK, [Next]_vars
    PROVE  TypeOK'
<1>1. CASE Next
    BY <1>1, LoopTypes, RequestTypes, PatchTypes DEF Next
<1>2. CASE UNCHANGED vars
    BY <1>2 DEF vars, clients, history, TypeOK
<1> QED
    BY <1>1, <1>2

\* Every plan, job record, loop and patch is of its kind, in every state.
THEOREM TypeSafe == Spec => []TypeOK
<1>1. Init => TypeOK
    BY TypeInit
<1>2. TypeOK /\ [Next]_vars => TypeOK'
    BY TypeStep
<1> QED
    BY <1>1, <1>2, PTL DEF Spec

(* ---------------------- patches and the loop ---------------------------- *)

LEMMA TurnsInit == Init => Turns
<1> SUFFICES ASSUME Init PROVE Turns
    OBVIOUS
<1>1. TypeOK
    BY TypeInit
<1>2. \A c \in Patches : patch[c].pc = "idle"
    BY RestTypes DEF Init
<1>3. loop.pc = "start"
    BY RestTypes DEF Init, Loops
<1> QED
    BY <1>1, <1>2, <1>3
    DEF Turns, OneAtATime, LoopIsCurrent, PatchIsCurrent, Appending

\* While the loop stays where no patch minds it, the plan is not changed.
LEMMA LoopTurns ==
    ASSUME Turns, LoopStep, Races = {}
    PROVE  Turns'
<1> USE DEF clients, history
<1> DEFINE Mine == {"commit", "advance", "reopened", "replan"}
<1>0. TypeOK /\ loop \in Loops /\ loop.plan \in Plans /\ loop.job \in Jobs /\ plan \in Plans
    BY DEF Turns, TypeOK, Loops
<1>1. TypeOK' /\ patch' = patch /\ lock' = lock
    <2>1. TypeOK'
        BY <1>0, LoopTypes
    <2> QED
        BY <2>1
        DEF LoopStep, Start, Launch, NodeEnds, Outcome, Refresh, Load, Commit, FrontierFailed,
            AwaitPatches, Complete, NextFrontier, OutOfPlan, Advanced, SaveJob, GiveUp, Escalate,
            RecoveryEnds, Reopen, SaveReopened, LoadReplan, ReplanDeclined, Replan, Restart, Check
<1>2. \/ plan' = plan
      \/ Between /\ plan' \in Plans /\ plan'.applied = plan.applied
    <2>1. CASE Commit
        <3>1. /\ Committed(loop.plan, loop.job.nodes) \in Plans
              /\ Committed(loop.plan, loop.job.nodes).applied = loop.plan.applied
            BY <1>0, CommittedFacts
        <3> QED
            BY <2>1, <3>1 DEF Commit, Between, Turns, LoopIsCurrent
    <2>2. CASE AwaitPatches \/ Complete \/ OutOfPlan
        BY <2>2 DEF AwaitPatches, Complete, OutOfPlan, Advanced, Between, Turns, LoopIsCurrent
    <2>3. CASE NextFrontier
        BY <1>0, <2>3, MaterializedFacts DEF NextFrontier, Advanced, Between, Turns, LoopIsCurrent
    <2>4. CASE SaveReopened
        <3>1. plan'.applied = plan.applied
            BY <1>0, <2>4 DEF SaveReopened, Turns, LoopIsCurrent, Plans
        <3> QED
            BY <1>1, <2>4, <3>1 DEF SaveReopened, Between, TypeOK
    <2>5. CASE Replan
        <3> DEFINE p == Replaced(loop.plan, Tails[loop.job.replans + 1])
        <3>1. loop.job.replans + 1 \in 1 .. Len(Tails)
            BY <1>0, <2>5, LenIsNat DEF Replan, MayReplan, Jobs
        <3>2. p \in Plans /\ p.applied = loop.plan.applied
            BY <1>0, <3>1, LenIsNat, ReplacedFacts
        <3>3. plan' = Materialized(p) /\ loop.plan = plan
            BY <2>5 DEF Replan, Turns, LoopIsCurrent
        <3> HIDE DEF p
        <3> QED
            BY <2>5, <3>2, <3>3, MaterializedFacts DEF Replan, Between
    <2>6. CASE ~(Commit \/ AwaitPatches \/ Complete \/ OutOfPlan \/ NextFrontier \/ SaveReopened \/ Replan)
        BY <2>6
        DEF LoopStep, Start, Launch, NodeEnds, Outcome, Refresh, Load, FrontierFailed,
            SaveJob, GiveUp, Escalate, RecoveryEnds, Reopen, LoadReplan, ReplanDeclined, Restart,
            Check
    <2> QED
        BY <2>1, <2>2, <2>3, <2>4, <2>5, <2>6
<1>3. ~Between /\ Between' => \A c \in Patches : ~Appending(c)
    <2>1. CASE Outcome
        BY <2>1 DEF Outcome, Alone
    <2>2. CASE Start \/ Launch \/ Restart \/ Check
        BY <1>0, <2>2, RestTypes DEF Start, Launch, Restart, Check, Between, Loops
    <2>3. ASSUME NEW n \in Nodes, NEW r \in NodeStatus, NodeEnds(n, r)
          PROVE  ~Between'
        BY <1>0, <2>3 DEF NodeEnds, Between, Loops
    <2>4. CASE ~(Outcome \/ Start \/ Launch \/ Restart \/ Check
                 \/ \E n \in Nodes, r \in NodeStatus : NodeEnds(n, r))
        BY <2>4
        DEF LoopStep, Refresh, Load, Commit, FrontierFailed, AwaitPatches, Complete, NextFrontier,
            OutOfPlan, Advanced, SaveJob, GiveUp, Escalate, RecoveryEnds, Recovering, Reopen, SaveReopened,
            LoadReplan, ReplanDeclined, Replan, Between
    <2> QED
        BY <2>1, <2>2, <2>3, <2>4
<1>4. loop'.pc \in Mine => loop'.plan = plan'
    <2>1. CASE Load \/ Commit \/ Reopen \/ LoadReplan
        BY <1>0, <2>1 DEF Load, Commit, Reopen, LoadReplan, Loops
    <2>2. CASE FrontierFailed \/ AwaitPatches \/ Complete \/ NextFrontier \/ OutOfPlan
        BY <1>0, <2>2 DEF FrontierFailed, AwaitPatches, Complete, NextFrontier, OutOfPlan, Advanced, Loops
    <2>3. CASE SaveReopened \/ RecoveryEnds \/ ReplanDeclined \/ Replan
        BY <1>0, <2>3 DEF SaveReopened, RecoveryEnds, ReplanDeclined, Replan, Loops
    <2>4. CASE SaveJob
        <3>1. loop'.pc \in {"off", "recover", "start", "restart", "check"}
            BY <1>0, <2>4, RestTypes DEF SaveJob, Loops, TypeOK
        <3> QED
            BY <3>1
    <2>5. CASE Start \/ Launch \/ Outcome \/ Refresh
        BY <1>0, <2>5 DEF Start, Launch, Outcome, Refresh, Loops
    <2>6. CASE GiveUp \/ Escalate \/ Restart \/ Check
        BY <1>0, <2>6, RestTypes DEF GiveUp, Escalate, Restart, Check, Loops
    <2>7. ASSUME NEW n \in Nodes, NEW r \in NodeStatus, NodeEnds(n, r)
          PROVE  loop'.pc \notin Mine
        BY <1>0, <2>7 DEF NodeEnds, Loops
    <2> QED
        BY <2>1, <2>2, <2>3, <2>4, <2>5, <2>6, <2>7 DEF LoopStep
<1>5. OneAtATime'
    BY <1>1, <1>3 DEF Turns, OneAtATime, Appending
<1>6. PatchIsCurrent'
    <2> SUFFICES ASSUME NEW c \in Patches, patch[c].pc = "decided"
                 PROVE  patch[c].plan = Applied(plan', c) /\ Fits(plan', c, plan'.revision)
        <3>1. patch' = patch
            BY <1>1
        <3> QED
            BY <3>1 DEF PatchIsCurrent, Applied, Fits, ReadySlots
    <2>1. ~Between
        BY DEF Turns, OneAtATime, Appending
    <2>2. plan' = plan
        BY <1>2, <2>1
    <2>3. patch[c].plan = Applied(plan, c) /\ Fits(plan, c, plan.revision)
        BY DEF Turns, PatchIsCurrent
    <2> QED
        BY <2>2, <2>3
<1> QED
    BY <1>1, <1>4, <1>5, <1>6 DEF Turns, LoopIsCurrent

LEMMA RequestTurns ==
    ASSUME Turns, Cancel \/ Pause \/ Resume \/ Approve \/ Reject
    PROVE  Turns'
<1>0. TypeOK' /\ loop \in Loops
    BY RequestTypes DEF Turns, TypeOK
<1>1. plan' = plan /\ patch' = patch /\ lock' = lock
    BY DEF Cancel, Pause, Resume, Approve, Reject, clients
<1>2. loop' = loop \/ loop'.pc \in {"off", "start"}
    BY <1>0, RestTypes DEF Cancel, Pause, Resume, Resumed, Started, Approve, Reject, Loops
<1>3. OneAtATime' /\ LoopIsCurrent'
    BY <1>1, <1>2 DEF Turns, OneAtATime, LoopIsCurrent, Appending, Between
<1>4. PatchIsCurrent'
    <2> SUFFICES ASSUME NEW c \in Patches, patch'[c].pc = "decided"
                 PROVE  patch'[c].plan = Applied(plan', c) /\ Fits(plan', c, plan'.revision)
        BY DEF PatchIsCurrent, Applied, Fits, ReadySlots
    <2> QED
        BY <1>1 DEF Turns, PatchIsCurrent
<1> QED
    BY <1>0, <1>3, <1>4 DEF Turns

LEMMA PatchMoves ==
    ASSUME TypeOK, NEW c \in Patches
    PROVE  /\ ReadJob(c) => patch'[c].pc = "read"
           /\ Refuse(c) => patch'[c].pc = "refused"
           /\ Replay(c) => patch'[c].pc \in {"planned", "done"}
           /\ Attach(c) => patch'[c].pc = "decided"
           /\ SavePlan(c) => patch'[c].pc = "planned"
           /\ SavePatched(c) => patch'[c].pc \in {"wake", "done"}
           /\ Wake(c) => patch'[c].pc = "done"
           /\ Send(c) => patch'[c].pc = "sent"
           /\ Abort(c) => patch'[c].pc = "idle"
<1>0. patch \in [Patches -> Appends] /\ patch[c] \in Appends
    BY DEF TypeOK
<1>1. /\ ReadJob(c) => patch'[c].pc = "read"
      /\ Attach(c) => patch'[c].pc = "decided"
      /\ SavePlan(c) => patch'[c].pc = "planned"
      /\ Send(c) => patch'[c].pc = "sent"
    BY <1>0 DEF ReadJob, Attach, SavePlan, Send, Appends
<1>2. Refuse(c) => patch'[c].pc = "refused"
    BY <1>0, RestTypes DEF Refuse, Appends
<1>3. Replay(c) => patch'[c].pc \in {"planned", "done"}
    BY <1>0, RestTypes DEF Replay, Answered, Appends
<1>4. SavePatched(c) => patch'[c].pc \in {"wake", "done"}
    BY <1>0, RestTypes DEF SavePatched, Answered, Appends
<1>5. Wake(c) => patch'[c].pc = "done"
    BY <1>0, RestTypes DEF Wake, Answered, Appends
<1>6. Abort(c) => patch'[c].pc = "idle"
    BY <1>0, RestTypes DEF Abort, Appends
<1> QED
    BY <1>1, <1>2, <1>3, <1>4, <1>5, <1>6

\* A patch that reads the job takes the lock; one that is over gives it back.
LEMMA PatchTurns ==
    ASSUME Turns, NEW c \in Patches, PatchStep(c) \/ Send(c) \/ Abort(c), Races = {}
    PROVE  Turns'
<1> USE DEF clients, history
<1>0. /\ TypeOK' /\ loop \in Loops /\ plan \in Plans
      /\ patch \in [Patches -> Appends] /\ patch[c] \in Appends
    BY PatchTypes DEF Turns, TypeOK
<1>1. \A d \in Patches \ {c} : patch'[d] = patch[d]
    BY <1>0 DEF PatchStep, Send, Abort, ReadJob, Refuse, Replay, Attach, SavePlan, SavePatched, Wake
<1>2. /\ \A d \in Patches \ {c} : Appending(d) => lock' = lock
      /\ Appending(c)' => lock' = c /\ ~Between
    <2>1. CASE ReadJob(c)
        BY <1>0, <2>1, PatchesAreNamed DEF ReadJob, Appending, Turns, OneAtATime
    <2>2. CASE Refuse(c) \/ Abort(c)
        BY <1>0, <2>2, RestTypes DEF Refuse, Released, Abort, Appending, Turns, OneAtATime, Appends
    <2>3. CASE Replay(c)
        BY <1>0, <2>3, RestTypes DEF Replay, Released, Answered, Appending, Turns, OneAtATime, Appends
    <2>4. CASE Attach(c) \/ SavePlan(c) \/ Send(c)
        BY <1>0, <2>4 DEF Attach, SavePlan, Send, Appending, Turns, OneAtATime, Appends
    <2>5. CASE SavePatched(c)
        BY <1>0, <2>5, RestTypes DEF SavePatched, Released, Answered, Appending, Turns, OneAtATime, Appends
    <2>6. CASE Wake(c)
        BY <1>0, <2>6, RestTypes DEF Wake, Answered, Appending, Turns, OneAtATime, Appends
    <2> QED
        BY <2>1, <2>2, <2>3, <2>4, <2>5, <2>6 DEF PatchStep
<1>3. loop' = loop \/ loop'.pc \in {"off", "start"}
    BY <1>0, RestTypes
    DEF PatchStep, Send, Abort, ReadJob, Refuse, Replay, Attach, SavePlan, SavePatched, Wake,
        Resumed, Started, Loops
<1>4. \/ plan' = plan
      \/ SavePlan(c) /\ Fits(plan, c, plan.revision) /\ plan' = Applied(plan, c)
    BY DEF PatchStep, Send, Abort, ReadJob, Refuse, Replay, Attach, SavePlan, SavePatched, Wake,
           Turns, PatchIsCurrent
<1>6. OneAtATime'
    BY <1>1, <1>2, <1>3 DEF Turns, OneAtATime, Appending, Between
<1>7. LoopIsCurrent'
    <2>1. CASE plan' = plan
        BY <1>3, <2>1 DEF Turns, LoopIsCurrent
    <2>2. CASE SavePlan(c)
        BY <2>2 DEF SavePlan, Turns, OneAtATime, LoopIsCurrent, Appending, Between
    <2> QED
        BY <1>4, <2>1, <2>2
<1>8. PatchIsCurrent'
    <2> SUFFICES ASSUME NEW d \in Patches, patch'[d].pc = "decided"
                 PROVE  patch'[d].plan = Applied(plan', d) /\ Fits(plan', d, plan'.revision)
        BY DEF PatchIsCurrent, Applied, Fits, ReadySlots
    <2>1. CASE d # c
        <3>1. patch[d].pc = "decided" /\ Appending(d)
            BY <1>1, <2>1 DEF Appending
        <3>2. ~SavePlan(c)
            BY <2>1, <3>1 DEF SavePlan, Appending, Turns, OneAtATime
        <3> QED
            BY <1>1, <1>4, <2>1, <3>1, <3>2 DEF Turns, PatchIsCurrent
    <2>2. CASE d = c
        <3>1. Attach(c)
            BY <2>2, PatchMoves DEF PatchStep, Turns
        <3> QED
            BY <1>0, <2>2, <3>1 DEF Attach, Fits, Appends
    <2> QED
        BY <2>1, <2>2
<1> QED
    BY <1>0, <1>6, <1>7, <1>8 DEF Turns

LEMMA TurnsStep ==
    ASSUME Turns, [Next]_vars, Races = {}
    PROVE  Turns'
<1>1. CASE Next
    BY <1>1, LoopTurns, RequestTurns, PatchTurns DEF Next
<1>2. CASE UNCHANGED vars
    <2>1. plan' = plan /\ loop' = loop /\ patch' = patch /\ lock' = lock
        BY <1>2 DEF vars, clients
    <2>2. TypeOK'
        BY TypeStep DEF Turns
    <2>3. OneAtATime' /\ LoopIsCurrent'
        BY <2>1 DEF Turns, OneAtATime, LoopIsCurrent, Appending, Between
    <2>4. PatchIsCurrent'
        <3> SUFFICES ASSUME NEW c \in Patches, patch'[c].pc = "decided"
                     PROVE  patch'[c].plan = Applied(plan', c) /\ Fits(plan', c, plan'.revision)
            BY DEF PatchIsCurrent, Applied, Fits, ReadySlots
        <3> QED
            BY <2>1 DEF Turns, PatchIsCurrent
    <2> QED
        BY <2>2, <2>3, <2>4 DEF Turns
<1> QED
    BY <1>1, <1>2

(* ------------------- what the steps do with the job --------------------- *)

\* A step of the loop that saves an object o, and holds what was saved.
Puts(o) == /\ o \in Jobs
           /\ job' = Saved(Loop, o)
           /\ loop'.job = Saved(Loop, o)
           /\ plan' = plan

LEMMA NodeEndsFacts ==
    ASSUME TypeOK, NEW n \in Nodes, NEW r \in NodeStatus, NodeEnds(n, r)
    PROVE  \E o \in Jobs :
           /\ Puts(o)
           /\ loop.pc = "running" /\ loop'.pc = "running" /\ loop.next # "stopped"
           /\ n \in Open(loop.job)
           /\ Stop(o) = Stop(loop.job) /\ Win(o) = Win(loop.job)
           /\ Open(o) \subseteq Open(loop.job)
           /\ Escalated(o) \subseteq Escalated(loop.job) \cup {n}
           /\ o.awaiting = loop.job.awaiting
           /\ o.status \in {loop.job.status, "waiting_approval"}
           /\ loop'.next = "stopped" => n \in Escalated(o)
           /\ Ran \subseteq Ran' /\ Ran' \subseteq Ran \cup {n}
<1>0. loop \in Loops /\ loop.job \in Jobs /\ job \in Jobs
    BY DEF TypeOK, Loops
<1> DEFINE gate == r = "escalated" /\ n \in Effectful
           o == [loop.job EXCEPT !.nodes[n] = r,
                                 !.status = IF gate THEN "waiting_approval" ELSE @]
<1>1. /\ o \in Jobs
      /\ o.nodes = [loop.job.nodes EXCEPT ![n] = r]
      /\ o.awaiting = loop.job.awaiting
      /\ o.status \in {loop.job.status, "waiting_approval"}
    BY <1>0 DEF Jobs, JobStatus
<1>2. r \in {"completed", "failed", "escalated", "uncertain"} /\ n \in Open(loop.job)
    BY DEF NodeEnds
<1>3. /\ job' = Saved(Loop, o)
      /\ loop'.job = Saved(Loop, o)
      /\ loop'.pc = "running" /\ loop.pc = "running" /\ loop.next # "stopped"
      /\ loop'.next = "stopped" => gate
      /\ plan' = plan
    BY <1>0 DEF NodeEnds, Store, Stored, Loops
<1>4. past' = [past EXCEPT ![n] = IF r \in {"completed", "uncertain"} THEN r ELSE past[n]]
    BY DEF NodeEnds
<1> HIDE DEF o
<1>5. \A m \in Nodes : o.nodes[m] = IF m = n THEN r ELSE loop.job.nodes[m]
    BY <1>0, <1>1 DEF Jobs
<1>6. /\ Stop(o) = Stop(loop.job) /\ Win(o) = Win(loop.job)
      /\ Open(o) \subseteq Open(loop.job)
      /\ Escalated(o) \subseteq Escalated(loop.job) \cup {n}
      /\ gate => n \in Escalated(o)
    BY <1>2, <1>5 DEF Stop, Win, Open, Escalated
<1>7. Ran \subseteq Ran' /\ Ran' \subseteq Ran \cup {n}
    BY <1>4 DEF Ran, TypeOK
<1> QED
    BY <1>1, <1>2, <1>3, <1>6, <1>7 DEF Puts

LEMMA OutcomeFacts ==
    ASSUME TypeOK, Outcome, Races = {}
    PROVE  \E o \in Jobs :
           /\ Puts(o)
           /\ loop.pc \in {"launch", "running"} /\ loop'.pc = "refresh" /\ loop'.next = "off"
           /\ o.nodes = loop.job.nodes /\ o.awaiting = loop.job.awaiting
           /\ o.status = "waiting_approval" <=> loop.next = "stopped"
           /\ \A c \in Patches : ~Appending(c)
           /\ past' = past
<1>0. loop \in Loops /\ loop.job \in Jobs
    BY DEF TypeOK, Loops
<1> DEFINE s == IF loop.next = "stopped" THEN "waiting_approval"
                ELSE IF Open(loop.job) = {} THEN Derived(loop.job) ELSE "paused"
           o == [loop.job EXCEPT !.status = s]
<1>1. s \in JobStatus /\ (s = "waiting_approval" <=> loop.next = "stopped")
    BY DEF Derived, JobStatus
<1>2. /\ job' = Saved(Loop, o)
      /\ loop'.job = Saved(Loop, o) /\ loop'.pc = "refresh" /\ loop'.next = "off"
    BY <1>0 DEF Outcome, Store, Stored, Loops
<1>3. /\ plan' = plan /\ past' = past /\ loop.pc \in {"launch", "running"}
      /\ \A c \in Patches : ~Appending(c)
    BY DEF Outcome, Alone
<1> HIDE DEF s
<1>4. /\ o \in Jobs /\ o.status = s
      /\ o.nodes = loop.job.nodes /\ o.awaiting = loop.job.awaiting
    BY <1>0, <1>1 DEF Jobs
<1> HIDE DEF o
<1> QED
    BY <1>1, <1>2, <1>3, <1>4 DEF Puts

LEMMA SaveJobFacts ==
    ASSUME TypeOK, SaveJob
    PROVE  /\ job' = Saved(Loop, loop.job)
           /\ loop'.pc = loop.next /\ loop'.next = "off"
           /\ loop.next \in {"off", "start", "recover", "restart", "check"}
           /\ loop.next = "recover" => loop'.job = Saved(Loop, loop.job)
           /\ plan' = plan /\ past' = past /\ loop.pc = "save"
<1>1. loop \in Loops /\ loop.next \in {"off", "start", "recover", "restart", "check"}
    BY DEF SaveJob, TypeOK, Loops
<1>2. CASE loop.next = "recover"
    BY <1>1, <1>2, RestTypes DEF SaveJob, Store, Stored, Loops
<1>3. CASE loop.next # "recover"
    BY <1>1, <1>3, RestTypes DEF SaveJob, Store, Stored, Loops
<1> QED
    BY <1>1, <1>2, <1>3

LEMMA EscalateFacts ==
    ASSUME TypeOK, Escalate
    PROVE  \E o \in Jobs, n \in Escalated(loop.job) :
           /\ Puts(o)
           /\ loop.pc = "recover" /\ loop'.pc \in {"reopen", "restart"} /\ loop'.next = loop.next
           /\ Win(o) = Win(loop.job)
           /\ Open(o) \subseteq Open(loop.job) \cup {n}
           /\ Escalated(o) \subseteq Escalated(loop.job)
           /\ o.awaiting = n
           /\ past' = past
<1>0. loop \in Loops /\ loop.job \in Jobs
    BY DEF TypeOK, Loops
<1>1. PICK n \in Escalated(loop.job) :
          LET o == [loop.job EXCEPT !.nodes[n] = "pending", !.awaiting = n,
                                    !.status = "waiting_approval"]
          IN  /\ Store(o)
              /\ loop' = [loop EXCEPT
                    !.pc = IF Saved(Loop, o).status = "waiting_approval"
                           THEN "reopen" ELSE "restart",
                    !.job = Saved(Loop, o)]
    BY DEF Escalate
<1> DEFINE o == [loop.job EXCEPT !.nodes[n] = "pending", !.awaiting = n,
                                 !.status = "waiting_approval"]
<1>2. /\ job' = Saved(Loop, o) /\ loop'.job = Saved(Loop, o)
      /\ loop'.pc \in {"reopen", "restart"} /\ loop'.next = loop.next
    BY <1>0, <1>1 DEF Store, Stored, Loops
<1>3. plan' = plan /\ past' = past /\ loop.pc = "recover"
    BY DEF Escalate, Recovering
<1>4. n \in Nodes /\ loop.job.nodes[n] = "escalated"
    BY DEF Escalated
<1>5. /\ o \in Jobs /\ o.awaiting = n
      /\ o.nodes = [loop.job.nodes EXCEPT ![n] = "pending"]
    BY <1>0, <1>4 DEF Jobs, JobStatus, NodeStatus
<1> HIDE DEF o
<1>6. \A m \in Nodes : o.nodes[m] = IF m = n THEN "pending" ELSE loop.job.nodes[m]
    BY <1>0, <1>5 DEF Jobs
<1>7. /\ Win(o) = Win(loop.job)
      /\ Open(o) \subseteq Open(loop.job) \cup {n}
      /\ Escalated(o) \subseteq Escalated(loop.job)
    BY <1>4, <1>6 DEF Win, Open, Escalated
<1> QED
    BY <1>2, <1>3, <1>5, <1>7 DEF Puts

LEMMA CheckFacts ==
    ASSUME TypeOK, Check
    PROVE  /\ job'.nodes = job.nodes /\ job'.awaiting = job.awaiting
           /\ job'.status \in {job.status, "failed"}
           /\ loop'.pc = "off" /\ loop'.next = "off"
           /\ plan' = plan /\ past' = past /\ loop.pc = "check"
<1>1. job \in Jobs
    BY DEF TypeOK
<1>2. loop'.pc = "off" /\ loop'.next = "off"
    BY RestTypes DEF Check
<1>3. job' = job \/ job' = [job EXCEPT !.status = "failed"]
    BY DEF Check
<1>4. /\ job'.nodes = job.nodes /\ job'.awaiting = job.awaiting
      /\ job'.status \in {job.status, "failed"}
    BY <1>1, <1>3 DEF Jobs
<1>5. plan' = plan /\ past' = past /\ loop.pc = "check"
    BY DEF Check, history
<1> QED
    BY <1>2, <1>4, <1>5

\* The plan goes on without a new window.
LEMMA StayFacts ==
    ASSUME Turns, FrontierFailed \/ AwaitPatches \/ Complete \/ OutOfPlan
    PROVE  /\ loop.pc = "advance" /\ loop'.pc = "save" /\ loop'.next = "recover"
           /\ loop'.job.nodes = loop.job.nodes /\ loop'.job.awaiting = loop.job.awaiting
           /\ plan' = plan /\ job' = job /\ past' = past
<1>0. loop \in Loops /\ loop.job \in Jobs /\ (loop.pc = "advance" => loop.plan = plan)
    BY DEF Turns, LoopIsCurrent, TypeOK, Loops
<1>1. CASE FrontierFailed
    BY <1>0, <1>1 DEF FrontierFailed, Loops, history
<1>2. CASE AwaitPatches
    BY <1>0, <1>2 DEF AwaitPatches, Advanced, Loops, Jobs, history
<1>3. CASE Complete
    BY <1>0, <1>3 DEF Complete, Advanced, Loops, Jobs, history
<1>4. CASE OutOfPlan
    BY <1>0, <1>4 DEF OutOfPlan, Advanced, Loops, Jobs, history
<1> QED
    BY <1>1, <1>2, <1>3, <1>4

LEMMA NextFrontierFacts ==
    ASSUME Turns, NextFrontier
    PROVE  /\ loop.pc = "advance" /\ loop'.pc = "save" /\ loop'.next = "start"
           /\ loop'.job.nodes = Window(plan) /\ loop'.job.awaiting = None
           /\ loop'.job.status = "running"
           /\ plan' = Materialized(plan) /\ job' = job /\ past' = past
<1>0. loop \in Loops /\ loop.job \in Jobs /\ (loop.pc = "advance" => loop.plan = plan)
    BY DEF Turns, LoopIsCurrent, TypeOK, Loops
<1>1. loop.pc = "advance" /\ loop.plan = plan
    BY <1>0 DEF NextFrontier, Advanced
<1> QED
    BY <1>0, <1>1 DEF NextFrontier, Advanced, Loops, Jobs, history

LEMMA ReplanFacts ==
    ASSUME Turns, Replan
    PROVE  \E p \in Plans :
           /\ \A n \in Nodes : p.nodes[n] # "materialized"
           /\ p.reserved = 0 /\ p.used = plan.used
           /\ plan' = Materialized(p)
           /\ loop.pc = "replan" /\ loop'.pc = "save" /\ loop'.next \in {"check", "restart"}
           /\ \/ Frontier(p) = {} /\ loop'.job.nodes = loop.job.nodes
                                  /\ loop'.job.awaiting = loop.job.awaiting
              \/ loop'.job.nodes = Window(p) /\ loop'.job.awaiting = None
           /\ job' = job /\ past' = past
<1>0. loop \in Loops /\ loop.job \in Jobs /\ (loop.pc = "replan" => loop.plan = plan)
    BY DEF Turns, LoopIsCurrent, TypeOK, Loops
<1> DEFINE p == Replaced(loop.plan, Tails[loop.job.replans + 1])
<1>1. loop.job.replans + 1 \in 1 .. Len(Tails)
    BY <1>0, LenIsNat DEF Replan, MayReplan, Jobs
<1>2. loop.plan = plan /\ plan \in Plans /\ loop.pc = "replan" /\ job' = job /\ past' = past
    BY <1>0 DEF Replan, Turns, TypeOK, history
<1>3. /\ p \in Plans /\ \A n \in Nodes : p.nodes[n] # "materialized"
      /\ p.reserved = 0 /\ p.used = plan.used
    BY <1>1, <1>2, LenIsNat, ReplacedFacts
<1>4. /\ plan' = Materialized(p)
      /\ loop' = IF Frontier(p) = {}
                 THEN [loop EXCEPT !.pc = "save", !.job = [loop.job EXCEPT !.status = "failed"],
                                   !.next = "check"]
                 ELSE [loop EXCEPT !.pc = "save", !.next = "restart",
                         !.job = [loop.job EXCEPT !.status = "running", !.nodes = Window(p),
                                                  !.awaiting = None, !.replans = @ + 1]]
    BY DEF Replan
<1> HIDE DEF p
<1>5. CASE Frontier(p) = {}
    BY <1>0, <1>2, <1>3, <1>4, <1>5 DEF Loops, Jobs
<1>6. CASE Frontier(p) # {}
    BY <1>0, <1>2, <1>3, <1>4, <1>6 DEF Loops, Jobs
<1> QED
    BY <1>5, <1>6

LEMMA SaveReopenedFacts ==
    ASSUME Turns, SaveReopened
    PROVE  /\ loop.pc = "reopened" /\ loop'.pc = "save" /\ loop'.next = "restart"
           /\ loop'.job = loop.job /\ job' = job /\ past' = past
           /\ plan'.used = plan.used /\ plan'.reserved = plan.reserved
           /\ Handed \subseteq Handed' /\ Handed' \subseteq Handed \cup Open(loop.job)
<1>0. loop \in Loops /\ plan \in Plans /\ loop.plan = plan
    BY DEF Turns, LoopIsCurrent, TypeOK, Loops, SaveReopened
<1>1. plan'.nodes = [n \in Nodes |-> IF n \in Open(loop.job) /\ plan.nodes[n] # "none"
                                     THEN "materialized" ELSE plan.nodes[n]]
    BY <1>0 DEF SaveReopened, Plans
<1>2. Handed \subseteq Handed' /\ Handed' \subseteq Handed \cup Open(loop.job)
    BY <1>1 DEF Handed, Progress
<1>3. plan'.used = plan.used /\ plan'.reserved = plan.reserved
    BY <1>0 DEF SaveReopened, Plans
<1> QED
    BY <1>0, <1>2, <1>3 DEF SaveReopened, Loops, history

\* Every node of the window that was handed out comes back.
LEMMA CommitFacts ==
    ASSUME Turns, Commit
    PROVE  /\ Back(plan, loop.job) \in SUBSET Nodes
           /\ Handed \cap Win(loop.job) \subseteq Back(plan, loop.job)
           /\ Handed' = Handed \ Win(loop.job)
           /\ Cost(Back(plan, loop.job)) \in Nat
           /\ plan'.used = plan.used + Cost(Back(plan, loop.job))
           /\ plan'.reserved = Less(plan.reserved, Cost(Back(plan, loop.job)))
           /\ loop.pc = "commit" /\ loop'.pc = "advance" /\ loop'.job = loop.job
           /\ job' = job /\ past' = past
<1>0. loop \in Loops /\ loop.job \in Jobs /\ plan \in Plans /\ loop.plan = plan
    BY DEF Turns, LoopIsCurrent, TypeOK, Loops, Commit
<1> DEFINE back == Back(plan, loop.job)
<1> HIDE DEF back
<1>1.      /\ back \in SUBSET Nodes
           /\ Cost(back) \in Nat
           /\ Committed(plan, loop.job.nodes).nodes
                = [n \in Nodes |-> IF n \in back THEN loop.job.nodes[n] ELSE plan.nodes[n]]
           /\ Committed(plan, loop.job.nodes).used = plan.used + Cost(back)
           /\ Committed(plan, loop.job.nodes).reserved = Less(plan.reserved, Cost(back))
    BY <1>0, CommittedFacts DEF back
<1>2. plan' = Committed(plan, loop.job.nodes)
    BY <1>0 DEF Commit
<1>3. \A n \in Nodes : loop.job.nodes[n] # "materialized"
    BY <1>0 DEF Jobs, NodeStatus
<1>4. Handed \cap Win(loop.job) \subseteq back /\ Handed' = Handed \ Win(loop.job)
    BY <1>1, <1>2, <1>3 DEF Handed, Progress, Win, back, Back
<1>5. /\ loop.pc = "commit" /\ loop'.pc = "advance" /\ loop'.job = loop.job
      /\ job' = job /\ past' = past
    BY <1>0 DEF Commit, Loops, history
<1>6. plan'.used = plan.used + Cost(back) /\ plan'.reserved = Less(plan.reserved, Cost(back))
    BY <1>1, <1>2
<1> QED
    BY <1>1, <1>4, <1>5, <1>6 DEF back

\* The steps that only move the loop, or let it read.
LEMMA MoveFacts ==
    ASSUME TypeOK
    PROVE  /\ Start => /\ loop.pc = "start" /\ loop'.pc = "launch" /\ loop'.job = job
                       /\ plan' = plan /\ job' = job /\ past' = past
           /\ Launch => /\ loop.pc = "launch" /\ loop'.pc = "running" /\ loop'.job = loop.job
                        /\ plan' = plan /\ job' = job /\ Ran' = Ran \cup Open(loop.job)
           /\ Refresh => /\ loop.pc = "refresh" /\ loop'.job = job
                         /\ loop'.pc = IF job.status \in Control \cup {"waiting_approval"}
                                       THEN "recover" ELSE "load"
                         /\ plan' = plan /\ job' = job /\ past' = past
           /\ Load => /\ loop.pc = "load" /\ loop'.pc = "commit" /\ loop'.job = loop.job
                      /\ plan' = plan /\ job' = job /\ past' = past
           /\ GiveUp => /\ loop.pc = "recover" /\ loop'.pc = "check" /\ loop'.next = "off"
                        /\ plan' = plan /\ job' = job /\ past' = past
           /\ RecoveryEnds =>
                        /\ loop.pc = "recover" /\ loop'.pc = "save" /\ loop'.next = "check"
                        /\ loop'.job.nodes = loop.job.nodes
                        /\ loop'.job.awaiting = loop.job.awaiting
                        /\ loop'.job.status \in {"failed", "clarified"}
                        /\ plan' = plan /\ job' = job /\ past' = past
           /\ Reopen => /\ loop.pc = "reopen" /\ loop'.pc = "reopened" /\ loop'.job = loop.job
                        /\ plan' = plan /\ job' = job /\ past' = past
           /\ LoadReplan => /\ loop.pc = "recover" /\ loop'.pc = "replan" /\ loop'.job = loop.job
                            /\ loop.job.status \notin Control
                            /\ loop.job.status # "waiting_approval" \/ "mixed" \in Races
                            /\ plan' = plan /\ job' = job /\ past' = past
           /\ ReplanDeclined => /\ loop.pc = "replan" /\ loop'.pc = "save" /\ loop'.next = "check"
                                /\ loop'.job = loop.job
                                /\ plan' = plan /\ job' = job /\ past' = past
           /\ Restart => /\ loop.pc = "restart"
                         /\ loop'.pc = IF job.status = "running" THEN "start" ELSE "check"
                         /\ plan' = plan /\ job' = job /\ past' = past
           /\ (Start \/ Launch \/ Refresh \/ Load \/ Reopen \/ LoadReplan \/ Restart)
                    => loop'.next = loop.next
<1>0. loop \in Loops /\ past \in [Nodes -> {"fresh", "handed", "completed", "uncertain"}]
    BY DEF TypeOK
<1> USE DEF history
<1>1. Start => /\ loop.pc = "start" /\ loop'.pc = "launch" /\ loop'.job = job /\ loop'.next = loop.next
               /\ plan' = plan /\ job' = job /\ past' = past
    BY <1>0 DEF Start, Loops
<1>2. Launch => /\ loop.pc = "launch" /\ loop'.pc = "running" /\ loop'.job = loop.job
                /\ plan' = plan /\ job' = job /\ loop'.next = loop.next
    BY <1>0 DEF Launch, Loops
<1>3. Launch => Ran' = Ran \cup Open(loop.job)
    BY <1>0 DEF Launch, Ran, Open
<1>4. Refresh => /\ loop.pc = "refresh" /\ loop'.job = job /\ loop'.next = loop.next
                 /\ loop'.pc = IF job.status \in Control \cup {"waiting_approval"}
                               THEN "recover" ELSE "load"
                 /\ plan' = plan /\ job' = job /\ past' = past
    BY <1>0 DEF Refresh, Loops
<1>5. Load => /\ loop.pc = "load" /\ loop'.pc = "commit" /\ loop'.job = loop.job /\ loop'.next = loop.next
              /\ plan' = plan /\ job' = job /\ past' = past
    BY <1>0 DEF Load, Loops
<1>6. GiveUp => /\ loop.pc = "recover" /\ loop'.pc = "check" /\ loop'.next = "off"
                /\ plan' = plan /\ job' = job /\ past' = past
    BY RestTypes DEF GiveUp, Loops
<1>7. Reopen => /\ loop.pc = "reopen" /\ loop'.pc = "reopened" /\ loop'.job = loop.job
                /\ loop'.next = loop.next
                /\ plan' = plan /\ job' = job /\ past' = past
    BY <1>0 DEF Reopen, Loops
<1>8. LoadReplan => /\ loop.pc = "recover" /\ loop'.pc = "replan" /\ loop'.job = loop.job
                    /\ loop.job.status \notin Control
                    /\ loop.job.status # "waiting_approval" \/ "mixed" \in Races
                    /\ loop'.next = loop.next
                    /\ plan' = plan /\ job' = job /\ past' = past
    BY <1>0 DEF LoadReplan, Recovering, Loops
<1>9. ReplanDeclined => /\ loop.pc = "replan" /\ loop'.pc = "save" /\ loop'.next = "check"
                        /\ loop'.job = loop.job
                        /\ plan' = plan /\ job' = job /\ past' = past
    BY <1>0 DEF ReplanDeclined, Loops
<1>10. Restart => /\ loop.pc = "restart" /\ loop'.next = loop.next
                  /\ loop'.pc = IF job.status = "running" THEN "start" ELSE "check"
                  /\ plan' = plan /\ job' = job /\ past' = past
    BY <1>0 DEF Restart, Loops
<1>11. RecoveryEnds =>
           /\ loop.pc = "recover" /\ loop'.pc = "save" /\ loop'.next = "check"
           /\ loop'.job.nodes = loop.job.nodes /\ loop'.job.awaiting = loop.job.awaiting
           /\ loop'.job.status \in {"failed", "clarified"}
           /\ plan' = plan /\ job' = job /\ past' = past
    BY <1>0 DEF RecoveryEnds, Recovering, Loops, Jobs
<1> QED
    BY <1>1, <1>2, <1>3, <1>4, <1>5, <1>6, <1>7, <1>8, <1>9, <1>10, <1>11

\* What the user's requests do to the record.
LEMMA RequestFacts ==
    ASSUME TypeOK, Cancel \/ Pause \/ Resume \/ Approve \/ Reject, Races = {}
    PROVE  /\ plan' = plan /\ patch' = patch /\ past' = past
           /\ Win(job') = Win(job) \/ (job.awaiting \in Nodes /\ Win(job') = Win(job) \cup {job.awaiting})
           /\ Open(job') \subseteq Open(job) \cup {n \in Nodes : n = job.awaiting}
           /\ Escalated(job') \subseteq Escalated(job)
           /\ job'.awaiting \in {job.awaiting, None}
           /\ (\E c \in Patches : Appending(c)) => Stop(job) \subseteq Stop(job')
           /\ \/ /\ loop' = Resting /\ job'.status = "cancelled"
              \/ /\ loop' = loop /\ job'.status = "paused" /\ Stop(job') = Stop(job)
                 /\ job.status \notin Terminal
              \/ /\ loop' = loop /\ loop.pc = "off" /\ job'.status = "failed"
              \/ /\ loop.pc = "off" /\ job.status \notin Terminal /\ job'.status = "running"
                 /\ loop' = [Resting EXCEPT !.pc = "start"]
<1>0. job \in Jobs /\ plan' = plan /\ patch' = patch /\ past' = past
    BY DEF TypeOK, Cancel, Pause, Resume, Resumed, Approve, Reject, clients, history
<1>1. CASE Cancel
    <2>1. /\ job'.nodes = [n \in Nodes |-> IF job.nodes[n] = "pending" THEN "cancelled" ELSE job.nodes[n]]
          /\ job'.awaiting = job.awaiting /\ job'.status = "cancelled" /\ loop' = Resting
        BY <1>0, <1>1 DEF Cancel, Jobs
    <2>2. /\ Win(job') = Win(job) /\ Open(job') = {}
          /\ Escalated(job') = Escalated(job) /\ Stop(job) \subseteq Stop(job')
        BY <2>1 DEF Win, Open, Escalated, Stop
    <2> QED
        BY <1>0, <2>1, <2>2
<1>2. CASE Pause \/ Resume
    <2>1. /\ job'.nodes = job.nodes /\ job'.awaiting = job.awaiting
          /\ job'.status = IF Pause THEN "paused" ELSE "running"
        BY <1>0, <1>2 DEF Pause, Resume, Resumed, Jobs
    <2>2. /\ Win(job') = Win(job) /\ Open(job') = Open(job)
          /\ Escalated(job') = Escalated(job) /\ Stop(job) = Stop(job')
        BY <2>1 DEF Win, Open, Escalated, Stop
    <2>3. Pause => loop' = loop /\ job.status \notin Terminal
        BY DEF Pause, Terminal
    <2>4. Resume => /\ loop.pc = "off" /\ job.status \notin Terminal
                    /\ loop' = [Resting EXCEPT !.pc = "start"]
        BY DEF Resume, Resumed, Punctual, Started, Terminal
    <2> QED
        BY <1>0, <1>2, <2>1, <2>2, <2>3, <2>4
<1>3. CASE Approve \/ Reject
    <2>1. /\ loop.pc = "off" /\ \A c \in Patches : ~Appending(c)
          /\ job.awaiting \in Nodes
        BY <1>0, <1>3 DEF Approve, Reject, Punctual, Alone, Jobs
    <2>2. PICK s \in {"pending", "skipped"} :
              job'.nodes = [job.nodes EXCEPT ![job.awaiting] = s]
        BY <1>0, <1>3 DEF Approve, Reject, Jobs
    <2>3. \A n \in Nodes : job'.nodes[n] = IF n = job.awaiting THEN s ELSE job.nodes[n]
        BY <1>0, <2>1, <2>2 DEF Jobs
    <2>4. /\ Win(job') = Win(job) \cup {job.awaiting}
          /\ Open(job') \subseteq Open(job) \cup {n \in Nodes : n = job.awaiting}
          /\ Escalated(job') \subseteq Escalated(job)
        BY <2>1, <2>3 DEF Win, Open, Escalated
    <2>5. Approve => /\ job'.awaiting = None /\ job'.status = "running" /\ job.status \notin Terminal
                     /\ loop' = [Resting EXCEPT !.pc = "start"]
        BY <1>0, <2>1 DEF Approve, Started, Jobs
    <2>6. Reject => job'.awaiting = job.awaiting /\ job'.status = "failed" /\ loop' = loop
        BY <1>0 DEF Reject, Jobs
    <2> QED
        BY <1>0, <1>3, <2>1, <2>4, <2>5, <2>6
<1> QED
    BY <1>1, <1>2, <1>3

\* What a patch does with the job: it reads it, saves its copy, wakes the loop
\* up, or keeps its copy.
Reads(c) == /\ job' = job /\ loop' = loop /\ ~Between
            /\ patch'[c].pc = "read" /\ patch'[c].job = job
Saves(c) == /\ job' = Saved(c, patch[c].job) /\ loop' = loop
            /\ patch[c].pc = "planned" /\ patch'[c].pc \in {"wake", "done"}
Wakes(c) == /\ job'.nodes = job.nodes /\ job'.awaiting = job.awaiting
            /\ job.status \notin Terminal /\ job'.status = "running"
            /\ loop.pc = "off" /\ loop' = [Resting EXCEPT !.pc = "start"]
            /\ patch'[c].pc = "done"
Keeps(c) == /\ job' = job /\ loop' = loop
            /\ \/ patch'[c].pc \in {"idle", "sent", "refused", "done"}
               \/ /\ Appending(c) /\ patch'[c].job = patch[c].job
                  /\ \/ patch[c].pc \in {"decided", "planned"}
                     \/ patch[c].job.status \notin Terminal

LEMMA PatchFacts ==
    ASSUME Turns, NEW c \in Patches, PatchStep(c) \/ Send(c) \/ Abort(c), Races = {}
    PROVE  /\ \A d \in Patches \ {c} : patch'[d] = patch[d]
           /\ plan'.used = plan.used /\ plan'.reserved = plan.reserved
           /\ Handed' = Handed /\ past' = past
           /\ Reads(c) \/ Saves(c) \/ Wakes(c) \/ Keeps(c)
<1>0. /\ TypeOK /\ plan \in Plans /\ job \in Jobs /\ patch \in [Patches -> Appends] /\ patch[c] \in Appends
    BY DEF Turns, TypeOK
<1>1. \A d \in Patches \ {c} : patch'[d] = patch[d]
    BY <1>0 DEF PatchStep, Send, Abort, ReadJob, Refuse, Replay, Attach, SavePlan, SavePatched, Wake
<1>2. /\ plan'.used = plan.used /\ plan'.reserved = plan.reserved /\ Handed' = Handed
    <2>1. CASE SavePlan(c)
        <3>1. plan' = Applied(plan, c) /\ Fits(plan, c, plan.revision)
            BY <2>1 DEF SavePlan, Turns, PatchIsCurrent
        <3>2. /\ plan'.used = plan.used /\ plan'.reserved = plan.reserved
              /\ plan'.nodes = [n \in Nodes |-> IF n \in Added[c] THEN "pending" ELSE plan.nodes[n]]
            BY <1>0, <3>1, AppliedFacts
        <3> QED
            BY <3>1, <3>2 DEF Handed, Progress, Fits
    <2>2. CASE ~SavePlan(c)
        <3>1. plan' = plan
            BY <2>2 DEF PatchStep, Send, Abort, ReadJob, Refuse, Replay, Attach, SavePatched, Wake
        <3> QED
            BY <3>1 DEF Handed, Progress
    <2> QED
        BY <2>1, <2>2
<1>3. past' = past
    BY DEF PatchStep, Send, Abort, ReadJob, Refuse, Replay, Attach, SavePlan, SavePatched, Wake, history
<1>4. ReadJob(c) => Reads(c)
    BY <1>0 DEF ReadJob, Reads, Appends
<1>5. SavePatched(c) => Saves(c)
    BY <1>0, PatchMoves DEF SavePatched, Stored, Saves
<1>6. ASSUME Wake(c) PROVE Wakes(c) \/ Keeps(c)
    <2>1. patch'[c].pc = "done"
        BY <1>0, <1>6, PatchMoves
    <2>2. CASE job.status = "paused"
        BY <1>0, <1>6, <2>1, <2>2 DEF Wake, Wakes, Resumed, Punctual, Started, Jobs, Terminal
    <2>3. CASE job.status # "paused"
        BY <1>6, <2>1, <2>3 DEF Wake, Keeps
    <2> QED
        BY <2>2, <2>3
<1>7. Refuse(c) \/ Send(c) \/ Abort(c) => Keeps(c)
    BY <1>0, PatchMoves DEF Refuse, Send, Abort, Keeps
<1>8. ASSUME Replay(c) PROVE Keeps(c)
    <2>1. CASE Over(c)
        BY <1>0, <1>8, <2>1, RestTypes DEF Replay, Answered, Keeps, Appends
    <2>2. CASE ~Over(c)
        BY <1>0, <1>8, <2>2 DEF Replay, Over, Appending, Keeps, Appends
    <2> QED
        BY <2>1, <2>2
<1>9. Attach(c) => Keeps(c)
    BY <1>0 DEF Attach, Over, Appending, Keeps, Appends
<1>10. SavePlan(c) => Keeps(c)
    BY <1>0 DEF SavePlan, Appending, Keeps, Appends
<1> QED
    BY <1>1, <1>2, <1>3, <1>4, <1>5, <1>6, <1>7, <1>8, <1>9, <1>10 DEF PatchStep

(* ------------------------------ stops ----------------------------------- *)

LEMMA LoopKeepsPatches ==
    ASSUME LoopStep
    PROVE  patch' = patch
    BY DEF LoopStep, Start, Launch, NodeEnds, Outcome, Refresh, Load, Commit, FrontierFailed,
           AwaitPatches, Complete, NextFrontier, OutOfPlan, Advanced, SaveJob, GiveUp, Escalate,
           RecoveryEnds, Reopen, SaveReopened, LoadReplan, ReplanDeclined, Replan, Restart, Check, clients

\* A step after which the loop does not run, and the job's nodes are the same
\* as far as a patch minds.
LEMMA CalmStops ==
    ASSUME Stops, patch' = patch,
           loop'.pc \notin {"launch", "running", "start", "load", "commit", "advance"},
           ~(loop'.pc = "save" /\ loop'.next = "start"),
           (\E c \in Patches : Appending(c)) => Stop(job) \subseteq Stop(job')
    PROVE  Stops'
    BY DEF Stops, LoopKnowsStops, JobKnowsStops, PatchesLiveJobs, NotStopped, Runs, Appending, Stop

LEMMA LoopStops ==
    ASSUME Turns, Stops, LoopStep, Races = {}
    PROVE  Stops'
<1>0. TypeOK /\ patch' = patch /\ job \in Jobs /\ loop.job \in Jobs
    BY LoopKeepsPatches DEF Turns, TypeOK, Loops
<1>1. ASSUME NEW n \in Nodes, NEW r \in NodeStatus, NodeEnds(n, r)
      PROVE  Stops'
    <2>1. PICK o \in Jobs :
              /\ Puts(o) /\ loop.pc = "running" /\ loop'.pc = "running"
              /\ Stop(o) = Stop(loop.job) /\ o.status \in {loop.job.status, "waiting_approval"}
        BY <1>0, <1>1, NodeEndsFacts
    <2>2. /\ Stop(o) \subseteq Stop(job')
          /\ job'.status = o.status \/ job'.status = job.status
        BY <1>0, <2>1, SavedFacts DEF Puts
    <2>3. Stop(job) \subseteq Stop(job')
        BY <2>1, <2>2 DEF Stops, LoopKnowsStops
    <2>4. job' = loop'.job
        BY <2>1 DEF Puts
    <2>5. LoopKnowsStops'
        BY <2>4 DEF LoopKnowsStops, Stop
    <2>6. JobKnowsStops' /\ PatchesLiveJobs'
        BY <1>0, <2>3 DEF Stops, JobKnowsStops, PatchesLiveJobs, Appending, Stop
    <2>7. NotStopped'
        BY <2>1, <2>2, <2>4 DEF Stops, NotStopped, Runs
    <2> QED
        BY <2>5, <2>6, <2>7 DEF Stops
<1>2. CASE Outcome
    <2>1. loop'.pc = "refresh" /\ \A c \in Patches : ~Appending(c)
        BY <1>0, <1>2, OutcomeFacts
    <2> QED
        BY <1>0, <2>1, CalmStops
<1>3. CASE SaveJob
    <2>1. /\ job' = Saved(Loop, loop.job) /\ loop.pc = "save"
          /\ loop'.pc = loop.next /\ loop'.next = "off"
          /\ loop.next \in {"off", "start", "recover", "restart", "check"}
        BY <1>0, <1>3, SaveJobFacts
    <2>2. \A c \in Patches : ~Appending(c)
        BY <2>1 DEF Turns, OneAtATime, Between
    <2>3. CASE loop.next # "start"
        BY <1>0, <2>1, <2>2, <2>3, CalmStops
    <2>4. CASE loop.next = "start"
        <3>1. job'.status \notin {"cancelled", "interrupted"}
            BY <1>0, <2>1, <2>4, SavedFacts DEF Stops, NotStopped, Runs
        <3> QED
            BY <1>0, <2>1, <2>2, <2>4, <3>1
            DEF Stops, LoopKnowsStops, JobKnowsStops, PatchesLiveJobs, NotStopped, Runs, Appending
    <2> QED
        BY <2>3, <2>4
<1>4. CASE Escalate
    <2>1. loop.pc = "recover" /\ loop'.pc \in {"reopen", "restart"}
        BY <1>0, <1>4, EscalateFacts
    <2>2. \A c \in Patches : ~Appending(c)
        BY <2>1 DEF Turns, OneAtATime, Between
    <2> QED
        BY <1>0, <2>1, <2>2, CalmStops
<1>5. CASE Check
    <2>1. job'.nodes = job.nodes /\ loop'.pc = "off"
        BY <1>0, <1>5, CheckFacts
    <2> QED
        BY <1>0, <2>1, CalmStops DEF Stop
<1>6. CASE FrontierFailed \/ AwaitPatches \/ Complete \/ OutOfPlan
    BY <1>0, <1>6, StayFacts, CalmStops
<1>7. CASE NextFrontier
    <2>1. /\ loop.pc = "advance" /\ loop'.pc = "save" /\ loop'.next = "start" /\ job' = job
          /\ loop'.job.status = "running"
        BY <1>7, NextFrontierFacts
    <2> QED
        BY <1>0, <2>1
        DEF Stops, LoopKnowsStops, JobKnowsStops, PatchesLiveJobs, NotStopped, Runs, Appending, Stop
<1>8. CASE Replan
    <2>1. loop'.pc = "save" /\ loop'.next # "start" /\ job' = job
        BY <1>8, ReplanFacts
    <2> QED
        BY <1>0, <2>1, CalmStops
<1>9. CASE SaveReopened
    BY <1>0, <1>9, SaveReopenedFacts, CalmStops
<1>10. CASE Commit
    <2>1. loop.pc = "commit" /\ loop'.pc = "advance" /\ loop'.job = loop.job /\ job' = job
        BY <1>10, CommitFacts
    <2> QED
        BY <1>0, <2>1
        DEF Stops, LoopKnowsStops, JobKnowsStops, PatchesLiveJobs, NotStopped, Runs, Appending, Stop
<1>11. CASE Start \/ Launch \/ Load
    <2>1. /\ job' = job
          /\ \/ loop.pc = "start" /\ loop'.pc = "launch" /\ loop'.job = job
             \/ loop.pc = "launch" /\ loop'.pc = "running" /\ loop'.job = loop.job
             \/ loop.pc = "load" /\ loop'.pc = "commit" /\ loop'.job = loop.job
        BY <1>0, <1>11, MoveFacts
    <2> QED
        BY <1>0, <2>1
        DEF Stops, LoopKnowsStops, JobKnowsStops, PatchesLiveJobs, NotStopped, Runs, Appending, Stop
<1>12. CASE Refresh
    <2>1. /\ job' = job
          /\ loop'.pc = IF job.status \in Control \cup {"waiting_approval"} THEN "recover" ELSE "load"
        BY <1>0, <1>12, MoveFacts
    <2> QED
        BY <1>0, <2>1
        DEF Control, Stops, LoopKnowsStops, JobKnowsStops, PatchesLiveJobs, NotStopped, Runs, Appending, Stop
<1>13. CASE GiveUp \/ RecoveryEnds \/ Reopen \/ LoadReplan \/ ReplanDeclined
    <2>1. /\ job' = job /\ loop'.pc \in {"check", "reopened", "replan", "save"}
          /\ loop'.pc = "save" => loop'.next = "check"
        BY <1>0, <1>13, MoveFacts
    <2> QED
        BY <1>0, <2>1, CalmStops
<1>14. CASE Restart
    <2>1. job' = job /\ loop'.pc = IF job.status = "running" THEN "start" ELSE "check"
        BY <1>0, <1>14, MoveFacts
    <2> QED
        BY <1>0, <2>1
        DEF Stops, LoopKnowsStops, JobKnowsStops, PatchesLiveJobs, NotStopped, Runs, Appending, Stop
<1> QED
    BY <1>1, <1>2, <1>3, <1>4, <1>5, <1>6, <1>7, <1>8, <1>9, <1>10, <1>11, <1>12, <1>13, <1>14
    DEF LoopStep

LEMMA RequestStops ==
    ASSUME Turns, Stops, Cancel \/ Pause \/ Resume \/ Approve \/ Reject, Races = {}
    PROVE  Stops'
<1>0. /\ TypeOK /\ patch' = patch
      /\ (\E c \in Patches : Appending(c)) => Stop(job) \subseteq Stop(job')
    BY RequestFacts DEF Turns
<1>1. CASE loop' = Resting \/ (loop' = loop /\ loop.pc = "off")
    BY <1>0, <1>1, RestTypes, CalmStops
<1>2. CASE loop' = loop /\ job'.status = "paused" /\ Stop(job') = Stop(job)
    BY <1>0, <1>2
    DEF Stops, LoopKnowsStops, JobKnowsStops, PatchesLiveJobs, NotStopped, Runs, Appending, Stop
<1>3. CASE job'.status = "running" /\ loop' = [Resting EXCEPT !.pc = "start"]
    <2>1. loop'.pc = "start"
        BY <1>3, RestTypes DEF Loops
    <2> QED
        BY <1>0, <1>3, <2>1
        DEF Stops, LoopKnowsStops, JobKnowsStops, PatchesLiveJobs, NotStopped, Runs, Appending, Stop
<1> QED
    BY <1>0, <1>1, <1>2, <1>3, RequestFacts

LEMMA PatchStops ==
    ASSUME Turns, Stops, NEW c \in Patches, PatchStep(c) \/ Send(c) \/ Abort(c), Races = {}
    PROVE  Stops'
<1>0. TypeOK /\ job \in Jobs /\ patch[c].job \in Jobs /\ \A d \in Patches \ {c} : patch'[d] = patch[d]
    BY PatchFacts DEF Turns, TypeOK, Appends
<1> USE DEF Stops, LoopKnowsStops, JobKnowsStops, PatchesLiveJobs, NotStopped, Runs
<1>1. CASE Reads(c)
    BY <1>0, <1>1 DEF Reads, Appending, Stop
<1>2. CASE Saves(c)
    <2>1. Stop(job') \subseteq Stop(job)
          /\ job'.status \in {job.status, patch[c].job.status}
        BY <1>0, <1>2, SavedFacts DEF Saves, Appending
    <2>2. patch[c].job.status \notin {"cancelled", "interrupted"}
        BY <1>2 DEF Saves, Terminal
    <2>3. \A d \in Patches : ~Appending(d)'
        BY <1>0, <1>2 DEF Saves, Appending, Turns, OneAtATime
    <2>4. loop' = loop
        BY <1>2 DEF Saves
    <2>5. LoopKnowsStops'
        BY <2>1, <2>4 DEF Stop
    <2>6. JobKnowsStops' /\ PatchesLiveJobs'
        BY <2>3 DEF Appending
    <2>7. NotStopped'
        BY <2>1, <2>2, <2>4
    <2> QED
        BY <2>5, <2>6, <2>7
<1>3. CASE Wakes(c)
    <2>1. loop'.pc = "start"
        BY <1>3, RestTypes DEF Wakes, Loops
    <2>2. Stop(job') = Stop(job) /\ job'.status = "running"
        BY <1>3 DEF Wakes, Stop
    <2>3. \A d \in Patches : Appending(d)' => d # c
        BY <1>3 DEF Wakes, Appending
    <2>4. JobKnowsStops' /\ PatchesLiveJobs'
        BY <1>0, <1>3, <2>2, <2>3 DEF Wakes, Appending, Stop
    <2> QED
        BY <2>1, <2>2, <2>4
<1>4. CASE Keeps(c)
    BY <1>0, <1>4 DEF Keeps, Appending, Stop
<1> QED
    BY <1>1, <1>2, <1>3, <1>4, PatchFacts

(* ----------------------------- windows ---------------------------------- *)

LEMMA LoopWindows ==
    ASSUME Turns, Stops, Windows, Cleared, LoopStep, Races = {}
    PROVE  Windows'
<1>0. /\ TypeOK /\ patch' = patch /\ job \in Jobs /\ loop.job \in Jobs /\ plan \in Plans
      /\ Between => \A c \in Patches : ~Appending(c)
    BY LoopKeepsPatches DEF Turns, TypeOK, Loops, OneAtATime
<1>a. (Handed' \subseteq Handed) \/ (\A c \in Patches : ~Appending(c)) => PatchHasWindow'
    BY <1>0 DEF Windows, PatchHasWindow, Appending, Win
<1>b. plan' = plan => Handed' = Handed
    BY DEF Handed, Progress
<1>c. ASSUME NEW o \in Jobs, Puts(o), Handed \subseteq Win(o)
      PROVE  Windows'
    <2>1. Win(job') = Win(o) /\ Win(loop'.job) = Win(o) /\ Handed' = Handed
        BY <1>0, <1>b, <1>c, SavedFacts DEF Puts
    <2> QED
        BY <1>a, <1>c, <2>1 DEF Windows, JobHasWindow, LoopHasWindow
<1> HIDE DEF Handed
<1>1. ASSUME NEW n \in Nodes, NEW r \in NodeStatus, NodeEnds(n, r)
      PROVE  Windows'
    <2>1. PICK o \in Jobs : Puts(o) /\ loop.pc = "running" /\ Win(o) = Win(loop.job)
        BY <1>0, <1>1, NodeEndsFacts
    <2> QED
        BY <1>c, <2>1 DEF Windows, LoopHasWindow, Holds
<1>2. CASE Outcome
    <2>1. PICK o \in Jobs : Puts(o) /\ loop.pc \in {"launch", "running"} /\ o.nodes = loop.job.nodes
        BY <1>0, <1>2, OutcomeFacts
    <2>2. Win(o) = Win(loop.job)
        BY <2>1 DEF Win
    <2> QED
        BY <1>c, <2>1, <2>2 DEF Windows, LoopHasWindow, Holds
<1>3. CASE SaveJob
    <2>1. /\ job' = Saved(Loop, loop.job) /\ plan' = plan /\ loop.pc = "save"
          /\ loop'.pc \in {"off", "start", "recover", "restart", "check"}
          /\ loop'.pc = "recover" => loop'.job = Saved(Loop, loop.job)
        BY <1>0, <1>3, SaveJobFacts
    <2>2. Handed' \subseteq Win(job')
        BY <1>0, <1>b, <2>1, SavedFacts DEF Windows, LoopHasWindow, Holds
    <2> QED
        BY <1>a, <1>b, <2>1, <2>2 DEF Windows, JobHasWindow, LoopHasWindow, Holds
<1>4. CASE Escalate
    <2>1. PICK o \in Jobs : Puts(o) /\ loop.pc = "recover" /\ Win(o) = Win(loop.job)
        BY <1>0, <1>4, EscalateFacts
    <2> QED
        BY <1>c, <2>1 DEF Windows, LoopHasWindow, Holds
<1>5. CASE Check
    <2>1. job'.nodes = job.nodes /\ plan' = plan /\ loop.pc = "check" /\ loop'.pc = "off"
        BY <1>0, <1>5, CheckFacts
    <2>2. Win(job') = Win(job) /\ Handed' = Handed
        BY <1>b, <2>1 DEF Win
    <2> QED
        BY <1>a, <2>1, <2>2 DEF Windows, JobHasWindow, LoopHasWindow, Holds
<1>6. CASE FrontierFailed \/ AwaitPatches \/ Complete \/ OutOfPlan
    <2>1. /\ loop'.job.nodes = loop.job.nodes /\ plan' = plan
          /\ loop.pc = "advance" /\ loop'.pc = "save"
        BY <1>6, StayFacts
    <2>2. Win(loop'.job) = Win(loop.job) /\ Handed' = Handed
        BY <1>b, <2>1 DEF Win
    <2> QED
        BY <1>a, <2>1, <2>2 DEF Windows, JobHasWindow, LoopHasWindow, Holds
<1>7. CASE NextFrontier
    <2>1. /\ loop.pc = "advance" /\ loop'.pc = "save"
          /\ loop'.job.nodes = Window(plan) /\ plan' = Materialized(plan)
        BY <1>7, NextFrontierFacts
    <2>2. Handed = {}
        BY <2>1 DEF Cleared
    <2>3. plan'.nodes = [n \in Nodes |-> IF n \in Frontier(plan) THEN "materialized" ELSE plan.nodes[n]]
        BY <1>0, <2>1, MaterializedFacts
    <2>4. Handed' \subseteq Win(loop'.job)
        BY <1>0, <2>1, <2>2, <2>3, WindowFacts DEF Handed, Progress, Win
    <2>5. \A c \in Patches : ~Appending(c)
        BY <1>0, <2>1 DEF Between
    <2> QED
        BY <1>a, <2>1, <2>4, <2>5 DEF Windows, JobHasWindow, LoopHasWindow
<1>8. CASE Replan
    <2>1. PICK p \in Plans :
              /\ \A n \in Nodes : p.nodes[n] # "materialized"
              /\ plan' = Materialized(p) /\ loop.pc = "replan" /\ loop'.pc = "save"
              /\ Frontier(p) = {} \/ loop'.job.nodes = Window(p)
        BY <1>8, ReplanFacts
    <2>2. plan'.nodes = [n \in Nodes |-> IF n \in Frontier(p) THEN "materialized" ELSE p.nodes[n]]
        BY <2>1, MaterializedFacts
    <2>3. Handed' \subseteq Frontier(p)
        BY <2>1, <2>2 DEF Handed, Progress
    <2>4. Handed' \subseteq Win(loop'.job)
        BY <2>1, <2>3, WindowFacts DEF Handed, Progress, Win
    <2>5. \A c \in Patches : ~Appending(c)
        BY <1>0, <2>1 DEF Between
    <2> QED
        BY <1>a, <2>1, <2>4, <2>5 DEF Windows, JobHasWindow, LoopHasWindow
<1>9. CASE SaveReopened
    <2>1. /\ loop.pc = "reopened" /\ loop'.pc = "save" /\ loop'.job = loop.job
          /\ Handed' \subseteq Handed \cup Open(loop.job)
        BY <1>9, SaveReopenedFacts
    <2>2. Handed \subseteq Win(loop.job) /\ Open(loop.job) \subseteq Win(loop.job)
        BY <2>1 DEF Windows, LoopHasWindow, Holds, Open, Win
    <2>3. \A c \in Patches : ~Appending(c)
        BY <1>0, <2>1 DEF Between
    <2> QED
        BY <1>a, <2>1, <2>2, <2>3 DEF Windows, JobHasWindow, LoopHasWindow
<1>10. CASE Commit
    <2>1. /\ loop.pc = "commit" /\ loop'.pc = "advance" /\ loop'.job = loop.job /\ job' = job
          /\ Handed' \subseteq Handed
        BY <1>10, CommitFacts
    <2> QED
        BY <1>a, <2>1 DEF Windows, JobHasWindow, LoopHasWindow, Holds
<1>11. CASE Start \/ Refresh
    <2>1. /\ plan' = plan /\ job' = job /\ loop'.job = job /\ loop.pc \in {"start", "refresh"}
        BY <1>0, <1>11, MoveFacts
    <2> QED
        BY <1>a, <1>b, <2>1 DEF Windows, JobHasWindow, LoopHasWindow
<1>12. CASE Launch \/ Load \/ Reopen \/ LoadReplan \/ ReplanDeclined
    <2>1. /\ plan' = plan /\ job' = job /\ loop'.job = loop.job
          /\ loop.pc \in {"launch", "load", "reopen", "recover", "replan"}
        BY <1>0, <1>12, MoveFacts
    <2> QED
        BY <1>a, <1>b, <2>1 DEF Windows, JobHasWindow, LoopHasWindow, Holds
<1>14. CASE RecoveryEnds
    <2>1. /\ plan' = plan /\ job' = job /\ loop'.job.nodes = loop.job.nodes
          /\ loop.pc = "recover" /\ loop'.pc = "save"
        BY <1>0, <1>14, MoveFacts
    <2> QED
        BY <1>a, <1>b, <2>1 DEF Windows, JobHasWindow, LoopHasWindow, Holds, Win
<1>13. CASE GiveUp \/ Restart
    <2>1. /\ plan' = plan /\ job' = job /\ loop.pc \in {"recover", "restart"}
          /\ loop'.pc \in {"start", "check"}
        BY <1>0, <1>13, MoveFacts
    <2> QED
        BY <1>a, <1>b, <2>1 DEF Windows, JobHasWindow, LoopHasWindow, Holds
<1> QED
    BY <1>1, <1>2, <1>3, <1>4, <1>5, <1>6, <1>7, <1>8, <1>9, <1>10, <1>11, <1>12, <1>13, <1>14
    DEF LoopStep

LEMMA RequestWindows ==
    ASSUME Turns, Windows, Cancel \/ Pause \/ Resume \/ Approve \/ Reject, Races = {}
    PROVE  Windows'
<1>0. /\ TypeOK /\ patch' = patch /\ plan' = plan /\ Win(job) \subseteq Win(job')
    BY RequestFacts DEF Turns
<1>1. Handed' = Handed
    BY <1>0 DEF Handed, Progress
<1>2. PatchHasWindow'
    BY <1>0, <1>1 DEF Windows, PatchHasWindow, Appending, Win
<1>3. \/ loop' = Resting /\ job'.status = "cancelled"
      \/ loop' = loop /\ job'.status = "paused" /\ job.status \notin Terminal
      \/ loop' = loop /\ loop.pc = "off" /\ job'.status = "failed"
      \/ loop.pc = "off" /\ job.status \notin Terminal /\ loop' = [Resting EXCEPT !.pc = "start"]
    BY <1>0, RequestFacts
<1>4. LoopHasWindow'
    BY <1>1, <1>3, RestTypes DEF Windows, LoopHasWindow, Holds, Loops, Win
<1>5. JobHasWindow'
    BY <1>0, <1>1, <1>3, RestTypes DEF Windows, JobHasWindow, Terminal
<1> QED
    BY <1>2, <1>4, <1>5 DEF Windows

LEMMA PatchWindows ==
    ASSUME Turns, Stops, Windows, NEW c \in Patches, PatchStep(c) \/ Send(c) \/ Abort(c), Races = {}
    PROVE  Windows'
<1>0. /\ job \in Jobs /\ patch[c].job \in Jobs /\ \A d \in Patches \ {c} : patch'[d] = patch[d]
      /\ Handed' = Handed
    BY PatchFacts DEF Turns, TypeOK, Appends
<1>1. CASE Reads(c)
    <2>1. Handed \subseteq Win(job) \/ job.status \in Terminal
        BY <1>1 DEF Reads, Between, Windows, JobHasWindow
    <2>2. PatchHasWindow'
        BY <1>0, <1>1, <2>1 DEF Reads, Windows, PatchHasWindow, Appending, Win
    <2> QED
        BY <1>0, <1>1, <2>2 DEF Reads, Windows, JobHasWindow, LoopHasWindow, Holds, Win
<1>2. CASE Saves(c)
    <2>1. Handed \subseteq Win(patch[c].job)
        BY <1>2 DEF Saves, Stops, PatchesLiveJobs, Windows, PatchHasWindow, Appending
    <2>2. Handed' \subseteq Win(job')
        BY <1>0, <1>2, <2>1, SavedFacts DEF Saves
    <2>3. \A d \in Patches : ~Appending(d)'
        BY <1>0, <1>2 DEF Saves, Appending, Turns, OneAtATime
    <2> QED
        BY <1>0, <1>2, <2>2, <2>3
        DEF Saves, Windows, JobHasWindow, LoopHasWindow, PatchHasWindow, Holds, Win
<1>3. CASE Wakes(c)
    <2>1. loop'.pc = "start"
        BY <1>3, RestTypes DEF Wakes, Loops
    <2>2. Handed' \subseteq Win(job')
        BY <1>0, <1>3 DEF Wakes, Windows, JobHasWindow, Win
    <2>3. PatchHasWindow'
        BY <1>0, <1>3 DEF Wakes, Windows, PatchHasWindow, Appending, Win
    <2> QED
        BY <2>1, <2>2, <2>3 DEF Windows, JobHasWindow, LoopHasWindow, Holds
<1>4. CASE Keeps(c)
    <2>1. PatchHasWindow'
        BY <1>0, <1>4 DEF Keeps, Windows, PatchHasWindow, Appending, Win
    <2> QED
        BY <1>0, <1>4, <2>1 DEF Keeps, Windows, JobHasWindow, LoopHasWindow, Holds, Win
<1> QED
    BY <1>1, <1>2, <1>3, <1>4, PatchFacts

(* ------------------- escalations and cleared windows -------------------- *)

\* An escalated node that the loop saves is not taken back by a merge.
LEMMA EscalationIsSaved ==
    ASSUME Turns, Stops, loop.pc \in {"launch", "running"}, NEW o \in Jobs,
           Stop(o) = Stop(loop.job), NEW n \in Escalated(o)
    PROVE  n \in Escalated(Saved(Loop, o))
<1>1. job \in Jobs /\ job.status \notin {"cancelled", "interrupted"} /\ n \notin Stop(job)
    BY DEF Turns, TypeOK, Stops, NotStopped, Runs, LoopKnowsStops, Escalated, Stop
<1>2. Saved(Loop, o).nodes[n] = o.nodes[n] /\ n \in Nodes
    BY <1>1, SavedFacts DEF Escalated
<1> QED
    BY <1>2 DEF Escalated

LEMMA LoopCleared ==
    ASSUME Turns, Stops, Windows, Cleared, LoopStep, Races = {}
    PROVE  Cleared'
<1>0. TypeOK /\ (loop.next = "stopped" => loop.pc = "running")
    BY DEF Turns, TypeOK
<1>a. plan' = plan => Handed' = Handed
    BY DEF Handed, Progress
<1> HIDE DEF Handed
<1>1. ASSUME NEW n \in Nodes, NEW r \in NodeStatus, NodeEnds(n, r)
      PROVE  Cleared'
    <2>1. PICK o \in Jobs : /\ Puts(o) /\ loop.pc = "running" /\ loop'.pc = "running"
                            /\ Stop(o) = Stop(loop.job)
                            /\ loop'.next = "stopped" => n \in Escalated(o)
        BY <1>0, <1>1, NodeEndsFacts
    <2>2. loop'.next = "stopped" => Escalated(loop'.job) # {}
        BY <2>1, EscalationIsSaved DEF Puts
    <2> QED
        BY <2>1, <2>2 DEF Cleared
<1>2. CASE Outcome
    <2>1. PICK o \in Jobs :
              /\ Puts(o) /\ loop.pc \in {"launch", "running"}
              /\ loop'.pc = "refresh" /\ loop'.next = "off"
              /\ o.nodes = loop.job.nodes
              /\ o.status = "waiting_approval" <=> loop.next = "stopped"
        BY <1>0, <1>2, OutcomeFacts
    <2>2. job' = Saved(Loop, o) /\ Stop(o) = Stop(loop.job) /\ Escalated(o) = Escalated(loop.job)
        BY <2>1 DEF Puts, Stop, Escalated
    <2>3. ASSUME job'.status = "waiting_approval"
          PROVE  Escalated(job') # {}
        <3>1. loop.next = "stopped"
            BY <2>1, <2>2, <2>3, SavedFacts DEF Control, Turns, TypeOK
        <3>2. PICK n : n \in Escalated(o)
            BY <2>2, <3>1 DEF Cleared
        <3> QED
            BY <2>1, <2>2, <3>2, EscalationIsSaved
    <2> QED
        BY <2>1, <2>3 DEF Cleared
<1>3. CASE SaveJob
    <2>1. /\ plan' = plan /\ loop.pc = "save" /\ loop'.pc = loop.next /\ loop'.next = "off"
          /\ loop.next \in {"off", "start", "recover", "restart", "check"}
        BY <1>0, <1>3, SaveJobFacts
    <2> QED
        BY <1>a, <2>1 DEF Cleared
<1>4. CASE Escalate
    <2>1. loop.pc = "recover" /\ loop'.pc \in {"reopen", "restart"} /\ loop'.next = loop.next
        BY <1>0, <1>4, EscalateFacts
    <2> QED
        BY <1>0, <2>1 DEF Cleared
<1>5. CASE Check
    BY <1>0, <1>5, CheckFacts DEF Cleared
<1>6. CASE FrontierFailed \/ AwaitPatches \/ Complete \/ OutOfPlan
    <2>1. plan' = plan /\ loop.pc = "advance" /\ loop'.pc = "save" /\ loop'.next = "recover"
        BY <1>6, StayFacts
    <2> QED
        BY <1>a, <2>1 DEF Cleared
<1>7. CASE NextFrontier \/ Replan \/ SaveReopened
    <2>1. loop'.pc = "save" /\ loop'.next \in {"start", "check", "restart"}
        BY <1>7, NextFrontierFacts, ReplanFacts, SaveReopenedFacts
    <2> QED
        BY <2>1 DEF Cleared
<1>8. CASE Commit
    <2>1. /\ loop.pc = "commit" /\ loop'.pc = "advance" /\ Handed' = Handed \ Win(loop.job)
        BY <1>8, CommitFacts
    <2>2. Handed' = {}
        BY <2>1 DEF Windows, LoopHasWindow, Holds
    <2>3. loop'.next = loop.next
        BY <1>8 DEF Commit, Turns, TypeOK, Loops
    <2> QED
        BY <1>0, <2>1, <2>2, <2>3 DEF Cleared
<1>9. CASE Refresh
    <2>1. /\ plan' = plan /\ loop.pc = "refresh" /\ loop'.job = job /\ loop'.next = loop.next
          /\ loop'.pc = IF job.status \in Control \cup {"waiting_approval"} THEN "recover" ELSE "load"
        BY <1>0, <1>9, MoveFacts
    <2> QED
        BY <1>0, <1>a, <2>1 DEF Cleared
<1>10. CASE LoadReplan
    <2>1. /\ plan' = plan /\ loop.pc = "recover" /\ loop'.pc = "replan" /\ loop'.next = loop.next
          /\ loop.job.status \notin Control /\ loop.job.status # "waiting_approval"
        BY <1>0, <1>10, MoveFacts
    <2> QED
        BY <1>0, <1>a, <2>1 DEF Cleared
<1>11. CASE Start \/ Launch \/ Load \/ Reopen \/ Restart \/ GiveUp \/ RecoveryEnds \/ ReplanDeclined
    <2>1. /\ loop'.pc \in {"launch", "running", "commit", "reopened", "start", "check", "save"}
          /\ loop'.pc = "save" => loop'.next = "check"
          /\ loop'.next \in {loop.next, "off", "check"} /\ loop.pc # "running"
        BY <1>0, <1>11, MoveFacts
    <2> QED
        BY <1>0, <2>1 DEF Cleared
<1> QED
    BY <1>1, <1>2, <1>3, <1>4, <1>5, <1>6, <1>7, <1>8, <1>9, <1>10, <1>11 DEF LoopStep

LEMMA OtherCleared ==
    ASSUME Turns, Cleared, Races = {},
           \/ Cancel \/ Pause \/ Resume \/ Approve \/ Reject
           \/ \E c \in Patches : PatchStep(c) \/ Send(c) \/ Abort(c)
    PROVE  Cleared'
<1>0. TypeOK /\ (loop.next = "stopped" => loop.pc = "running")
    BY DEF Turns, TypeOK
<1>1. CASE Cancel \/ Pause \/ Resume \/ Approve \/ Reject
    <2>1. plan' = plan
        BY <1>0, <1>1, RequestFacts
    <2>2. \/ loop' = Resting \/ loop' = [Resting EXCEPT !.pc = "start"]
          \/ loop' = loop /\ job'.status = "paused"
          \/ loop' = loop /\ loop.pc = "off"
        BY <1>0, <1>1, RequestFacts
    <2>3. Handed' = Handed
        BY <2>1 DEF Handed, Progress
    <2>4. CASE loop' = loop
        BY <2>2, <2>3, <2>4, RestTypes DEF Cleared, Loops
    <2>5. CASE loop' # loop
        <3>1. loop'.pc \in {"off", "start"} /\ loop'.next = "off"
            BY <2>2, <2>5, RestTypes DEF Loops
        <3> QED
            BY <3>1 DEF Cleared
    <2> QED
        BY <2>4, <2>5
<1>2. ASSUME NEW c \in Patches, PatchStep(c) \/ Send(c) \/ Abort(c)
      PROVE  Cleared'
    <2>1. Handed' = Handed
        BY <1>2, PatchFacts
    <2>2. CASE Wakes(c)
        <3>1. loop'.pc = "start" /\ loop'.next = "off"
            BY <2>2, RestTypes DEF Wakes, Loops
        <3> QED
            BY <3>1 DEF Cleared
    <2>3. CASE Saves(c)
        <3>1. loop' = loop /\ loop.pc # "refresh"
            BY <2>3 DEF Saves, Turns, OneAtATime, Appending, Between
        <3> QED
            BY <2>1, <3>1 DEF Cleared, Escalated
    <2>4. CASE Reads(c) \/ Keeps(c)
        <3>1. loop' = loop /\ job' = job
            BY <2>4 DEF Reads, Keeps
        <3> QED
            BY <2>1, <3>1 DEF Cleared, Escalated
    <2> QED
        BY <1>2, <2>2, <2>3, <2>4, PatchFacts
<1> QED
    BY <1>1, <1>2

(* --------------------------- tried nodes -------------------------------- *)

LEMMA TriedSaved ==
    ASSUME TypeOK, NEW o \in Jobs, NEW h, Tried(job), Tried(o)
    PROVE  Tried(Saved(h, o))
    BY SavedFacts DEF Tried, TypeOK

\* Nodes stay tried, and so is a record with the nodes of another one.
LEMMA TriedGrows ==
    ASSUME Ran \subseteq Ran', NEW o, Tried(o), NEW q,
           q.nodes = o.nodes, q.awaiting \in {o.awaiting, None}
    PROVE  Escalated(q) \subseteq Ran' /\ (q.awaiting # None => q.awaiting \in Ran')
<1>1. Escalated(q) = Escalated(o)
    BY DEF Escalated
<1> HIDE DEF Ran
<1> QED
    BY <1>1 DEF Tried

LEMMA LoopTried ==
    ASSUME Turns, Stops, AllTried, LoopStep, Races = {}
    PROVE  AllTried'
<1>0. TypeOK /\ patch' = patch /\ job \in Jobs /\ loop.job \in Jobs
    BY LoopKeepsPatches DEF Turns, TypeOK, Loops
<1>a. ASSUME Ran \subseteq Ran'
      PROVE  \A c \in Patches : Appending(c)' => Tried(patch[c].job)'
    BY <1>0, <1>a, TriedGrows DEF AllTried, Tried, Appending
<1>b. past' = past => Ran' = Ran
    BY DEF Ran
<1>c. ASSUME NEW o \in Jobs, Puts(o), Tried(o), Ran \subseteq Ran',
             loop'.pc = "running" => Open(loop'.job) \subseteq Ran'
      PROVE  AllTried'
    <2>1. Tried(Saved(Loop, o))
        BY <1>0, <1>c, TriedSaved DEF AllTried
    <2>2. Tried(job)' /\ Tried(loop.job)'
        BY <1>c, <2>1, TriedGrows DEF Puts, Tried
    <2> QED
        BY <1>0, <1>a, <1>c, <2>2 DEF AllTried, Appending
<1>d. ASSUME past' = past, job'.nodes = job.nodes, job'.awaiting = job.awaiting, loop'.pc # "running",
             Holds' => \/ Tried(job) /\ loop'.job = job
                       \/ /\ Tried(loop.job)
                          /\ loop'.job.nodes = loop.job.nodes
                          /\ loop'.job.awaiting = loop.job.awaiting
                       \/ Escalated(loop'.job) = {} /\ loop'.job.awaiting = None
      PROVE  AllTried'
    <2>1. Ran' = Ran
        BY <1>b, <1>d
    <2>2. Tried(job)'
        BY <1>d, <2>1, TriedGrows DEF AllTried, Tried
    <2>3. Holds' => Tried(loop.job)'
        BY <1>d, <2>1, TriedGrows DEF AllTried, Tried
    <2> QED
        BY <1>0, <1>a, <1>d, <2>1, <2>2, <2>3 DEF AllTried
<1> HIDE DEF Ran
<1>1. ASSUME NEW n \in Nodes, NEW r \in NodeStatus, NodeEnds(n, r)
      PROVE  AllTried'
    <2>1. PICK o \in Jobs :
              /\ Puts(o) /\ loop.pc = "running"
              /\ n \in Open(loop.job) /\ Stop(o) = Stop(loop.job)
              /\ Open(o) \subseteq Open(loop.job)
              /\ Escalated(o) \subseteq Escalated(loop.job) \cup {n}
              /\ o.awaiting = loop.job.awaiting
              /\ Ran \subseteq Ran'
        BY <1>0, <1>1, NodeEndsFacts
    <2>2. Open(loop.job) \subseteq Ran /\ Tried(loop.job)
        BY <2>1 DEF AllTried, Holds
    <2>3. Tried(o)
        BY <2>1, <2>2 DEF Tried
    <2>4. ASSUME NEW m \in Open(Saved(Loop, o))
          PROVE  m \in Open(o)
        <3>1. m \in Nodes /\ m \notin Stop(Saved(Loop, o))
            BY <2>4 DEF Open, Stop
        <3>2. m \notin Stop(job) /\ job.status \notin {"cancelled", "interrupted"}
            BY <1>0, <2>1, <3>1, SavedFacts DEF Stops, LoopKnowsStops, NotStopped, Runs
        <3> QED
            BY <1>0, <2>4, <3>1, <3>2, SavedFacts DEF Open
    <2> QED
        BY <1>c, <2>1, <2>2, <2>3, <2>4 DEF Puts
<1>2. CASE Outcome
    <2>1. PICK o \in Jobs :
              /\ Puts(o) /\ loop.pc \in {"launch", "running"} /\ loop'.pc = "refresh"
              /\ o.nodes = loop.job.nodes /\ o.awaiting = loop.job.awaiting /\ past' = past
        BY <1>0, <1>2, OutcomeFacts
    <2>2. Tried(o)
        BY <2>1 DEF AllTried, Tried, Holds, Escalated
    <2> QED
        BY <1>b, <1>c, <2>1, <2>2
<1>3. CASE SaveJob
    <2>1. /\ job' = Saved(Loop, loop.job) /\ past' = past /\ loop.pc = "save"
          /\ loop'.pc \in {"off", "start", "recover", "restart", "check"}
          /\ loop'.pc = "recover" => loop'.job = Saved(Loop, loop.job)
        BY <1>0, <1>3, SaveJobFacts
    <2>2. Tried(Saved(Loop, loop.job))
        BY <1>0, <2>1, TriedSaved DEF AllTried, Holds
    <2>3. Tried(job)' /\ (loop'.pc = "recover" => Tried(loop.job)')
        BY <1>b, <2>1, <2>2 DEF Tried
    <2> QED
        BY <1>a, <1>b, <2>1, <2>3 DEF AllTried, Holds
<1>4. CASE Escalate
    <2>1. PICK o \in Jobs, n \in Escalated(loop.job) :
              /\ Puts(o) /\ loop.pc = "recover" /\ loop'.pc \in {"reopen", "restart"}
              /\ Escalated(o) \subseteq Escalated(loop.job) /\ o.awaiting = n /\ past' = past
        BY <1>0, <1>4, EscalateFacts
    <2>2. Tried(o)
        BY <2>1 DEF AllTried, Tried, Holds
    <2> QED
        BY <1>b, <1>c, <2>1, <2>2
<1>5. CASE Check
    BY <1>0, <1>5, <1>d, CheckFacts DEF Holds
<1>6. CASE FrontierFailed \/ AwaitPatches \/ Complete \/ OutOfPlan
    BY <1>6, <1>d, StayFacts DEF AllTried, Holds
<1>7. CASE NextFrontier
    <2>1. /\ loop'.pc = "save" /\ job' = job /\ past' = past
          /\ loop'.job.nodes = Window(plan) /\ loop'.job.awaiting = None
        BY <1>7, NextFrontierFacts
    <2>2. Escalated(loop'.job) = {}
        BY <2>1 DEF Escalated, Window
    <2> QED
        BY <1>d, <2>1, <2>2
<1>8. CASE Replan
    <2>1. PICK p \in Plans :
              /\ loop.pc = "replan" /\ loop'.pc = "save" /\ job' = job /\ past' = past
              /\ \/ loop'.job.nodes = loop.job.nodes /\ loop'.job.awaiting = loop.job.awaiting
                 \/ loop'.job.nodes = Window(p) /\ loop'.job.awaiting = None
        BY <1>8, ReplanFacts
    <2>2. loop'.job.nodes = Window(p) => Escalated(loop'.job) = {}
        BY DEF Escalated, Window
    <2> QED
        BY <1>d, <2>1, <2>2 DEF AllTried, Holds
<1>9. CASE SaveReopened
    BY <1>9, <1>d, SaveReopenedFacts DEF AllTried, Holds
<1>10. CASE Commit
    BY <1>10, <1>d, CommitFacts DEF AllTried, Holds
<1>11. CASE Start \/ Refresh
    <2>1. past' = past /\ job' = job /\ loop'.job = job /\ loop'.pc \in {"launch", "recover", "load"}
        BY <1>0, <1>11, MoveFacts
    <2> QED
        BY <1>d, <2>1 DEF AllTried
<1>12. CASE Launch
    <2>1. /\ job' = job /\ loop'.job = loop.job /\ Ran' = Ran \cup Open(loop.job)
          /\ loop.pc = "launch" /\ loop'.pc = "running"
        BY <1>0, <1>12, MoveFacts
    <2>2. Tried(job)' /\ Tried(loop.job)'
        BY <2>1, TriedGrows DEF AllTried, Tried, Holds
    <2>3. Open(loop.job)' \subseteq Ran'
        BY <2>1 DEF Open
    <2> QED
        BY <1>a, <2>1, <2>2, <2>3 DEF AllTried
<1>13. CASE Load \/ Reopen \/ LoadReplan \/ ReplanDeclined
    <2>1. /\ past' = past /\ job' = job /\ loop'.job = loop.job /\ loop'.pc # "running"
          /\ loop.pc \in {"load", "reopen", "recover", "replan"}
        BY <1>0, <1>13, MoveFacts
    <2> QED
        BY <1>d, <2>1 DEF AllTried, Holds
<1>15. CASE RecoveryEnds
    <2>1. /\ past' = past /\ job' = job /\ loop.pc = "recover" /\ loop'.pc = "save"
          /\ loop'.job.nodes = loop.job.nodes /\ loop'.job.awaiting = loop.job.awaiting
        BY <1>0, <1>15, MoveFacts
    <2>2. Tried(loop.job)' <=> Tried(loop.job)
        BY <2>1 DEF Tried, Escalated, Ran
    <2> QED
        BY <1>d, <2>1, <2>2 DEF AllTried, Holds
<1>14. CASE GiveUp \/ Restart
    <2>1. past' = past /\ job' = job /\ loop'.pc \in {"start", "check"}
        BY <1>0, <1>14, MoveFacts
    <2> QED
        BY <1>d, <2>1 DEF Holds
<1> QED
    BY <1>1, <1>2, <1>3, <1>4, <1>5, <1>6, <1>7, <1>8, <1>9, <1>10, <1>11, <1>12, <1>13, <1>14, <1>15
    DEF LoopStep

LEMMA RequestTried ==
    ASSUME Turns, AllTried, Cancel \/ Pause \/ Resume \/ Approve \/ Reject, Races = {}
    PROVE  AllTried'
<1>0. /\ TypeOK /\ patch' = patch /\ past' = past
      /\ Escalated(job') \subseteq Escalated(job) /\ job'.awaiting \in {job.awaiting, None}
    BY RequestFacts DEF Turns
<1>1. loop' = loop \/ loop' = Resting \/ loop' = [Resting EXCEPT !.pc = "start"]
    BY <1>0, RequestFacts
<1>2. Ran' = Ran
    BY <1>0 DEF Ran
<1>3. Tried(job)'
    BY <1>0, <1>2 DEF AllTried, Tried
<1>4. loop' = loop \/ loop'.pc \in {"off", "start"}
    BY <1>1, RestTypes DEF Loops
<1>5. (Holds' => Tried(loop.job)') /\ (loop'.pc = "running" => Open(loop'.job) \subseteq Ran')
    BY <1>2, <1>4 DEF AllTried, Tried, Holds, Escalated, Open
<1>6. \A c \in Patches : Appending(c)' => Tried(patch[c].job)'
    BY <1>0, <1>2 DEF AllTried, Tried, Appending, Escalated
<1> QED
    BY <1>3, <1>5, <1>6 DEF AllTried

LEMMA PatchTried ==
    ASSUME Turns, AllTried, NEW c \in Patches, PatchStep(c) \/ Send(c) \/ Abort(c), Races = {}
    PROVE  AllTried'
<1>0. /\ TypeOK /\ job \in Jobs /\ patch[c].job \in Jobs
      /\ \A d \in Patches \ {c} : patch'[d] = patch[d]
      /\ past' = past
    BY PatchFacts DEF Turns, TypeOK, Appends
<1>1. Ran' = Ran
    BY <1>0 DEF Ran
<1>2. loop' = loop \/ loop'.pc = "start"
    BY RestTypes, PatchFacts DEF Reads, Saves, Wakes, Keeps, Loops
<1>3. (Holds' => Tried(loop.job)') /\ (loop'.pc = "running" => Open(loop'.job) \subseteq Ran')
    BY <1>1, <1>2 DEF AllTried, Tried, Holds, Escalated, Open
<1>4. Tried(job)'
    <2>1. CASE Saves(c)
        <3>1. Tried(Saved(c, patch[c].job))
            BY <1>0, <2>1, TriedSaved DEF AllTried, Saves, Appending
        <3> QED
            BY <1>1, <2>1, <3>1 DEF Saves, Tried
    <2>2. CASE Reads(c) \/ Wakes(c) \/ Keeps(c)
        <3>1. job'.nodes = job.nodes /\ job'.awaiting = job.awaiting
            BY <2>2 DEF Reads, Wakes, Keeps
        <3> QED
            BY <1>1, <3>1, TriedGrows DEF AllTried, Tried
    <2> QED
        BY <2>1, <2>2, PatchFacts
<1>5. \A d \in Patches : Appending(d)' => Tried(patch[d].job)'
    <2>1. \A d \in Patches \ {c} : Appending(d)' => Tried(patch[d].job)'
        BY <1>0, <1>1 DEF AllTried, Tried, Appending, Escalated
    <2>2. Appending(c)' => patch'[c].job = job \/ (Appending(c) /\ patch'[c].job = patch[c].job)
        BY PatchFacts DEF Reads, Saves, Wakes, Keeps, Appending
    <2>3. Appending(c)' => Tried(patch[c].job)'
        BY <1>1, <2>2 DEF AllTried, Tried, Escalated
    <2> QED
        BY <2>1, <2>3
<1> QED
    BY <1>3, <1>4, <1>5 DEF AllTried

(* ------------------------------ budget ---------------------------------- *)

LEMMA LastNode ==
    ASSUME NEW F \in SUBSET Nodes, F # {}
    PROVE  \E m \in F : \A n \in F : n <= m
<1> DEFINE After(m) == {n \in F : ~(n <= m)}
           T == {k \in Nat : \E m \in F : k = Cardinality(After(m))}
<1>0. F \in SUBSET Nat
    BY NumberedInPlanOrder
<1>1. \A m \in F : Cardinality(After(m)) \in Nat
    BY Smaller
<1>2. PICK k \in T : \A l \in T : k <= l
    <2>1. T \in SUBSET Nat /\ T # {}
        BY <1>1
    <2> HIDE DEF T
    <2> QED
        BY <2>1, LeastNumber
<1>3. PICK m \in F : k = Cardinality(After(m))
    BY <1>2
<1>4. ASSUME NEW x \in After(m)
      PROVE  FALSE
    <2>1. x \in F /\ ~(x <= m)
        OBVIOUS
    <2>2. After(x) \subseteq After(m) \ {x}
        <3>1. ASSUME NEW n \in F, ~(n <= x)
              PROVE  ~(n <= m) /\ n # x
            <4>1. n \in Nat /\ x \in Nat /\ m \in Nat
                BY <1>0, <1>3, <2>1
            <4> QED
                BY <2>1, <3>1, <4>1
        <3> QED
            BY <3>1
    <2>3. After(m) \in SUBSET Nodes
        OBVIOUS
    <2>4. /\ IsFiniteSet(After(m) \ {x})
          /\ Cardinality(After(m) \ {x}) \in Nat
          /\ Cardinality(After(m) \ {x}) < Cardinality(After(m))
        BY <2>3, Smaller
    <2>5. Cardinality(After(x)) <= Cardinality(After(m) \ {x})
        BY <2>2, <2>4, FS_Subset
    <2>6. Cardinality(After(x)) \in T
        BY <1>1, <2>1
    <2>7. k <= Cardinality(After(x)) /\ k \in Nat
        <3> HIDE DEF After
        <3> QED
            BY <1>2, <2>6
    <2> HIDE DEF After
    <2> QED
        BY <1>1, <1>3, <2>1, <2>4, <2>5, <2>7
<1> QED
    BY <1>4

\* A frontier that is not empty fits the budget, with all that is in it.
LEMMA FrontierFits ==
    ASSUME NEW p \in Plans, Frontier(p) # {}
    PROVE  p.used + p.reserved + Cost(Frontier(p)) <= Limit
<1>1. Frontier(p) \in SUBSET Nodes
    BY MaterializedFacts
<1>2. PICK m \in Frontier(p) : \A n \in Frontier(p) : n <= m
    BY <1>1, LastNode
<1> DEFINE prefix == {n \in Ready(p) : n <= m}
<1>3. p.used + p.reserved + Cost(prefix) <= Limit
    BY <1>2 DEF Frontier
<1>4. Frontier(p) \in SUBSET prefix /\ prefix \in SUBSET Nodes
    BY <1>2 DEF Frontier, Ready
<1>5. Cost(Frontier(p)) <= Cost(prefix) /\ Cost(Frontier(p)) \in Nat /\ Cost(prefix) \in Nat
    <2> HIDE DEF prefix
    <2> QED
        BY <1>1, <1>4, CostGrows, CostIsNat
<1>6. p.used \in Nat /\ p.reserved \in Nat /\ Limit \in Nat
    BY Numbers DEF Plans
<1> HIDE DEF prefix
<1> QED
    BY <1>3, <1>5, <1>6

LEMMA ReachedWithin ==
    ASSUME NEW S, Ran' \subseteq S, Open(job') \subseteq S,
           Holds' => Open(loop'.job) \subseteq S,
           \A c \in Patches : Appending(c)' => Open(patch'[c].job) \subseteq S
    PROVE  Reached' \subseteq S
    BY DEF Reached, Open

LEMMA ReachedHas ==
    /\ Ran \subseteq Reached /\ Open(job) \subseteq Reached
    /\ Holds => Open(loop.job) \subseteq Reached
    /\ \A c \in Patches : Appending(c) => Open(patch[c].job) \subseteq Reached
    BY DEF Reached, Open

LEMMA ReachedNodes ==
    /\ Reached \in SUBSET Nodes /\ Handed \in SUBSET Nodes
    /\ Reached' \in SUBSET Nodes /\ Handed' \in SUBSET Nodes
    BY DEF Reached, Ran, Open, Handed, Progress

LEMMA PlanNumbers ==
    ASSUME TypeOK
    PROVE  plan.used \in Nat /\ plan.reserved \in Nat /\ Limit \in Nat
    BY Numbers DEF TypeOK, Plans

\* Nothing is reached that was not, and nothing less is handed out.
LEMMA PaidKept ==
    ASSUME TypeOK, Paid, Reached' \cup Handed' \subseteq Reached \cup Handed, Handed \subseteq Handed',
           plan'.used = plan.used, plan'.reserved = plan.reserved
    PROVE  Paid'
<1> DEFINE A == Reached \cup Handed
           B == Reached \ Handed
           C == Reached' \cup Handed'
           D == Reached' \ Handed'
<1>1. /\ A \in SUBSET Nodes /\ B \in SUBSET Nodes
      /\ C \in SUBSET A /\ D \in SUBSET B
    BY ReachedNodes
<1>2. Cost(A) <= plan.used + plan.reserved /\ Cost(B) <= plan.used /\ Cost(A) <= Limit
    BY DEF Paid
<1> HIDE DEF A, B, C, D
<1>3. Cost(C) <= Cost(A) /\ Cost(D) <= Cost(B)
    BY <1>1, CostGrows
<1>4. Cost(A) \in Nat /\ Cost(B) \in Nat /\ Cost(C) \in Nat /\ Cost(D) \in Nat
    BY <1>1, CostIsNat
<1>5. Cost(C) <= plan.used + plan.reserved /\ Cost(D) <= plan.used /\ Cost(C) <= Limit
    BY <1>2, <1>3, <1>4, PlanNumbers
<1> QED
    BY <1>5 DEF Paid, C, D

\* A new window of a plan whose used budget covers what was reached.
LEMMA PaidWindow ==
    ASSUME TypeOK, Paid, Handed = {}, NEW p \in Plans, p.used = plan.used,
           plan' = Materialized(p), Handed' = Frontier(p), Reached' \subseteq Reached \cup Frontier(p)
    PROVE  Paid'
<1> DEFINE F == Frontier(p)
           C == Reached' \cup Handed'
           D == Reached' \ Handed'
<1>1. /\ Reached \in SUBSET Nodes /\ F \in SUBSET Nodes /\ Reached \cup F \in SUBSET Nodes
      /\ C \in SUBSET (Reached \cup F) /\ D \in SUBSET Reached
    BY ReachedNodes, MaterializedFacts
<1>2. Cost(Reached) <= p.used /\ Cost(Reached) <= Limit
    <2>1. Reached \cup Handed = Reached /\ Reached \ Handed = Reached
        OBVIOUS
    <2> QED
        BY <2>1 DEF Paid
<1>3. plan'.used = p.used /\ plan'.reserved = p.reserved + Cost(F)
    BY MaterializedFacts
<1>4. p.used \in Nat /\ p.reserved \in Nat /\ Limit \in Nat
    BY Numbers DEF Plans
<1>5. F # {} => p.used + p.reserved + Cost(F) <= Limit
    BY FrontierFits
<1>6. F = {} => Reached \cup F = Reached
    OBVIOUS
<1> HIDE DEF F, C, D
<1>7. /\ Cost(C) <= Cost(Reached \cup F) /\ Cost(D) <= Cost(Reached)
      /\ Cost(Reached \cup F) <= Cost(Reached) + Cost(F)
    BY <1>1, CostGrows, CostUnion
<1>8. /\ Cost(C) \in Nat /\ Cost(D) \in Nat /\ Cost(F) \in Nat /\ Cost(Reached) \in Nat
      /\ Cost(Reached \cup F) \in Nat
    BY <1>1, CostIsNat
<1>9. Cost(C) <= plan'.used + plan'.reserved /\ Cost(D) <= plan'.used
    BY <1>2, <1>3, <1>4, <1>7, <1>8
<1>10. Cost(C) <= Limit
    <2>1. CASE F = {}
        BY <1>2, <1>4, <1>6, <1>7, <1>8, <2>1
    <2>2. CASE F # {}
        BY <1>2, <1>4, <1>5, <1>7, <1>8, <2>2
    <2> QED
        BY <2>1, <2>2
<1> QED
    BY <1>9, <1>10 DEF Paid, C, D

\* What was handed out is used once it is committed.
LEMMA PaidCommit ==
    ASSUME Turns, Windows, Paid, Commit, Reached' \subseteq Reached
    PROVE  Paid'
<1> DEFINE back == Back(plan, loop.job)
           A == Reached \cup Handed
           B == Reached \ Handed
<1>1. /\ back \in SUBSET Nodes /\ Handed \cap Win(loop.job) \subseteq back
      /\ Handed' = Handed \ Win(loop.job)
      /\ Cost(back) \in Nat
      /\ plan'.used = plan.used + Cost(back)
      /\ plan'.reserved = Less(plan.reserved, Cost(back))
      /\ loop.pc = "commit"
    BY CommitFacts
<1>2. Handed \subseteq back /\ Handed' = {}
    BY <1>1 DEF Windows, LoopHasWindow, Holds
<1>3. /\ A \in SUBSET Nodes /\ B \in SUBSET Nodes /\ B \cup back \in SUBSET Nodes
      /\ Reached' \cup Handed' \in SUBSET A /\ Reached' \ Handed' \in SUBSET (B \cup back)
    BY <1>1, <1>2, ReachedNodes
<1>4. Cost(A) <= plan.used + plan.reserved /\ Cost(B) <= plan.used /\ Cost(A) <= Limit
    BY DEF Paid
<1> HIDE DEF A, B, back
<1>5. /\ Cost(Reached' \cup Handed') <= Cost(A)
      /\ Cost(Reached' \ Handed') <= Cost(B \cup back)
      /\ Cost(B \cup back) <= Cost(B) + Cost(back)
    BY <1>1, <1>3, CostGrows, CostUnion
<1>6. /\ Cost(A) \in Nat /\ Cost(B) \in Nat /\ Cost(B \cup back) \in Nat
      /\ Cost(Reached' \cup Handed') \in Nat /\ Cost(Reached' \ Handed') \in Nat
    <2>1. Reached' \cup Handed' \in SUBSET Nodes /\ Reached' \ Handed' \in SUBSET Nodes
        BY ReachedNodes
    <2> QED
        BY <1>3, <2>1, CostIsNat
<1>7. plan.used \in Nat /\ plan.reserved \in Nat /\ Limit \in Nat
    BY PlanNumbers DEF Turns
<1>8. plan'.reserved \in Nat /\ plan.reserved <= Cost(back) + plan'.reserved
    BY <1>1, <1>7 DEF Less
<1>9. /\ Cost(Reached' \cup Handed') <= plan'.used + plan'.reserved
      /\ Cost(Reached' \ Handed') <= plan'.used
      /\ Cost(Reached' \cup Handed') <= Limit
    BY <1>1, <1>4, <1>5, <1>6, <1>7, <1>8
<1> QED
    BY <1>9 DEF Paid

LEMMA PaidInit == Init => Paid
<1> SUFFICES ASSUME Init PROVE Paid
    OBVIOUS
<1> DEFINE F == Frontier(NewPlan)
<1>1. NewPlan \in Plans /\ NewPlan.used = 0 /\ NewPlan.reserved = 0
    BY NewTypes DEF NewPlan
<1>2. /\ plan.used = 0 /\ plan.reserved = Cost(F) /\ F \in SUBSET Nodes /\ Cost(F) \in Nat
      /\ plan.nodes = [n \in Nodes |-> IF n \in F THEN "materialized" ELSE NewPlan.nodes[n]]
    BY <1>1, MaterializedFacts DEF Init
<1>3. Handed = F
    BY <1>2 DEF Handed, Progress, NewPlan
<1>4. Reached \subseteq F
    <2>1. Ran = {}
        BY DEF Init, Ran
    <2>2. Open(job) \subseteq F
        BY DEF Init, NewJob, Window, Open
    <2>3. ~Holds /\ \A c \in Patches : ~Appending(c)
        BY RestTypes DEF Init, Holds, Appending, Loops
    <2> QED
        BY <2>1, <2>2, <2>3 DEF Reached
<1>5. Reached \cup Handed = F /\ Reached \ Handed = {}
    BY <1>3, <1>4
<1>6. Cost(F) <= Limit /\ Cost({}) = 0
    <2>1. Cost({}) = 0 /\ Limit \in Nat
        BY CostStep, Numbers
    <2>2. F # {} => 0 + 0 + Cost(F) <= Limit
        BY <1>1, FrontierFits
    <2>3. F = {} => Cost(F) = 0
        BY <2>1
    <2> QED
        BY <1>2, <2>1, <2>2, <2>3
<1> HIDE DEF F
<1>7. plan.used = 0 /\ plan.used + plan.reserved = Cost(F)
    BY <1>2
<1> QED
    BY <1>2, <1>5, <1>6, <1>7 DEF Paid

LEMMA LoopPaid ==
    ASSUME Turns, Windows, Cleared, AllTried, Paid, LoopStep, Races = {}
    PROVE  Paid'
<1>0. /\ TypeOK /\ patch' = patch /\ job \in Jobs /\ loop.job \in Jobs /\ plan \in Plans
    BY LoopKeepsPatches DEF Turns, TypeOK, Loops
<1>a. \A c \in Patches : Appending(c)' => Open(patch'[c].job) \subseteq Reached
    BY <1>0, ReachedHas DEF Appending
<1>b. /\ past' = past => Ran' \subseteq Reached
      /\ job' = job => Open(job') \subseteq Reached
      /\ loop'.job = loop.job /\ Holds => Open(loop'.job) \subseteq Reached
      /\ loop'.job = job => Open(loop'.job) \subseteq Reached
    <2>1. past' = past => Ran' = Ran
        BY DEF Ran
    <2> QED
        BY <2>1, ReachedHas
<1>c. ASSUME plan' = plan, Ran' \subseteq Reached, Open(job') \subseteq Reached,
             Holds' => Open(loop'.job) \subseteq Reached
      PROVE  Paid'
    <2>1. Handed' = Handed
        BY <1>c DEF Handed, Progress
    <2>2. Reached' \subseteq Reached
        BY <1>a, <1>c, ReachedWithin
    <2> QED
        BY <1>0, <1>c, <2>1, <2>2, PaidKept
<1>d. ASSUME NEW o \in Jobs, Puts(o), Open(o) \subseteq Reached, Ran' \subseteq Reached
      PROVE  Paid'
    <2>1. Open(Saved(Loop, o)) \subseteq Reached
        BY <1>0, <1>d, SavedFacts, ReachedHas
    <2> QED
        BY <1>c, <1>d, <2>1 DEF Puts
<1>1. ASSUME NEW n \in Nodes, NEW r \in NodeStatus, NodeEnds(n, r)
      PROVE  Paid'
    <2>1. PICK o \in Jobs : /\ Puts(o) /\ loop.pc = "running" /\ n \in Open(loop.job)
                            /\ Open(o) \subseteq Open(loop.job) /\ Ran' \subseteq Ran \cup {n}
        BY <1>0, <1>1, NodeEndsFacts
    <2>2. Open(loop.job) \subseteq Reached /\ Ran \subseteq Reached
        BY <2>1, ReachedHas DEF Holds
    <2> QED
        BY <1>d, <2>1, <2>2
<1>2. CASE Outcome
    <2>1. PICK o \in Jobs : /\ Puts(o) /\ loop.pc \in {"launch", "running"}
                            /\ o.nodes = loop.job.nodes /\ past' = past
        BY <1>0, <1>2, OutcomeFacts
    <2>2. Open(o) = Open(loop.job) /\ Open(loop.job) \subseteq Reached
        BY <2>1, ReachedHas DEF Open, Holds
    <2> QED
        BY <1>b, <1>d, <2>1, <2>2
<1>3. CASE SaveJob
    <2>1. /\ job' = Saved(Loop, loop.job) /\ plan' = plan /\ past' = past /\ loop.pc = "save"
          /\ loop'.pc \in {"off", "start", "recover", "restart", "check"}
          /\ loop'.pc = "recover" => loop'.job = Saved(Loop, loop.job)
        BY <1>0, <1>3, SaveJobFacts
    <2>2. Open(Saved(Loop, loop.job)) \subseteq Reached
        BY <1>0, <2>1, SavedFacts, ReachedHas DEF Holds
    <2>3. Open(job') \subseteq Reached /\ (Holds' => Open(loop'.job) \subseteq Reached)
        BY <2>1, <2>2 DEF Holds
    <2> QED
        BY <1>b, <1>c, <2>1, <2>3
<1>4. CASE Escalate
    <2>1. PICK o \in Jobs, n \in Escalated(loop.job) :
              Puts(o) /\ loop.pc = "recover" /\ Open(o) \subseteq Open(loop.job) \cup {n} /\ past' = past
        BY <1>0, <1>4, EscalateFacts
    <2>2. Open(loop.job) \subseteq Reached /\ n \in Reached
        BY <2>1, ReachedHas DEF AllTried, Tried, Holds
    <2> QED
        BY <1>b, <1>d, <2>1, <2>2
<1>5. CASE Check
    <2>1. job'.nodes = job.nodes /\ plan' = plan /\ past' = past /\ loop'.pc = "off"
        BY <1>0, <1>5, CheckFacts
    <2>2. Open(job') \subseteq Reached
        BY <2>1, ReachedHas DEF Open
    <2> QED
        BY <1>b, <1>c, <2>1, <2>2 DEF Holds
<1>6. CASE FrontierFailed \/ AwaitPatches \/ Complete \/ OutOfPlan
    <2>1. /\ loop.pc = "advance" /\ loop'.job.nodes = loop.job.nodes
          /\ plan' = plan /\ job' = job /\ past' = past
        BY <1>6, StayFacts
    <2>2. Open(loop'.job) \subseteq Reached
        BY <2>1, ReachedHas DEF Open, Holds
    <2> QED
        BY <1>b, <1>c, <2>1, <2>2
<1>7. CASE NextFrontier
    <2>1. /\ loop.pc = "advance" /\ loop'.job.nodes = Window(plan) /\ plan' = Materialized(plan)
          /\ job' = job /\ past' = past
        BY <1>7, NextFrontierFacts
    <2>2. Handed = {}
        BY <2>1 DEF Cleared
    <2>3. plan'.nodes = [n \in Nodes |-> IF n \in Frontier(plan) THEN "materialized" ELSE plan.nodes[n]]
        BY <1>0, <2>1, MaterializedFacts
    <2>4. Handed' = Frontier(plan)
        BY <1>0, <2>2, <2>3, MaterializedFacts DEF Handed, Progress
    <2>5. Open(loop'.job) \subseteq Frontier(plan)
        BY <2>1 DEF Open, Window
    <2>6. Reached' \subseteq Reached \cup Frontier(plan)
        BY <1>a, <1>b, <2>1, <2>5, ReachedWithin
    <2> QED
        BY <1>0, <2>1, <2>2, <2>4, <2>6, PaidWindow
<1>8. CASE Replan
    <2>1. PICK p \in Plans :
              /\ \A n \in Nodes : p.nodes[n] # "materialized"
              /\ p.used = plan.used /\ plan' = Materialized(p) /\ loop.pc = "replan"
              /\ loop'.job.nodes = loop.job.nodes \/ loop'.job.nodes = Window(p)
              /\ job' = job /\ past' = past
        BY <1>8, ReplanFacts
    <2>2. Handed = {}
        BY <2>1 DEF Cleared
    <2>3. plan'.nodes = [n \in Nodes |-> IF n \in Frontier(p) THEN "materialized" ELSE p.nodes[n]]
        BY <2>1, MaterializedFacts
    <2>4. Handed' = Frontier(p)
        BY <2>1, <2>3, MaterializedFacts DEF Handed, Progress
    <2>5. Open(loop'.job) \subseteq Reached \cup Frontier(p)
        <3>1. loop'.job.nodes = Window(p) => Open(loop'.job) \subseteq Frontier(p)
            BY DEF Open, Window
        <3>2. loop'.job.nodes = loop.job.nodes => Open(loop'.job) = Open(loop.job)
            BY DEF Open
        <3> QED
            BY <2>1, <3>1, <3>2, ReachedHas DEF Holds
    <2>6. Reached' \subseteq Reached \cup Frontier(p)
        BY <1>a, <1>b, <2>1, <2>5, ReachedWithin
    <2> QED
        BY <1>0, <2>1, <2>2, <2>4, <2>6, PaidWindow
<1>9. CASE SaveReopened
    <2>1. /\ loop.pc = "reopened" /\ loop'.job = loop.job /\ job' = job /\ past' = past
          /\ plan'.used = plan.used /\ plan'.reserved = plan.reserved
          /\ Handed \subseteq Handed' /\ Handed' \subseteq Handed \cup Open(loop.job)
        BY <1>9, SaveReopenedFacts
    <2>2. Holds /\ Open(loop.job) \subseteq Reached
        BY <2>1, ReachedHas DEF Holds
    <2>3. Reached' \subseteq Reached
        BY <1>a, <1>b, <2>1, <2>2, ReachedWithin
    <2>4. Reached' \cup Handed' \subseteq Reached \cup Handed
        BY <2>1, <2>2, <2>3
    <2> QED
        BY <1>0, <2>1, <2>4, PaidKept
<1>10. CASE Commit
    <2>1. loop.pc = "commit" /\ loop'.job = loop.job /\ job' = job /\ past' = past
        BY <1>10, CommitFacts
    <2>2. Reached' \subseteq Reached
        BY <1>a, <1>b, <2>1, ReachedWithin DEF Holds
    <2> QED
        BY <1>10, <2>2, PaidCommit
<1>11. CASE Start \/ Refresh
    <2>1. plan' = plan /\ past' = past /\ job' = job /\ loop'.job = job
        BY <1>0, <1>11, MoveFacts
    <2> QED
        BY <1>b, <1>c, <2>1
<1>12. CASE Launch
    <2>1. /\ plan' = plan /\ job' = job /\ loop'.job = loop.job /\ loop.pc = "launch"
          /\ Ran' = Ran \cup Open(loop.job)
        BY <1>0, <1>12, MoveFacts
    <2>2. Ran' \subseteq Reached /\ Holds
        BY <2>1, ReachedHas DEF Holds
    <2> QED
        BY <1>b, <1>c, <2>1, <2>2
<1>13. CASE Load \/ Reopen \/ LoadReplan \/ ReplanDeclined
    <2>1. /\ plan' = plan /\ past' = past /\ job' = job /\ loop'.job = loop.job
          /\ loop.pc \in {"load", "reopen", "recover", "replan"}
        BY <1>0, <1>13, MoveFacts
    <2> QED
        BY <1>b, <1>c, <2>1 DEF Holds
<1>15. CASE RecoveryEnds
    <2>1. /\ plan' = plan /\ past' = past /\ job' = job
          /\ loop'.job.nodes = loop.job.nodes /\ loop.pc = "recover" /\ loop'.pc = "save"
        BY <1>0, <1>15, MoveFacts
    <2>2. Open(loop'.job) \subseteq Reached
        BY <2>1, ReachedHas DEF Open, Holds
    <2> QED
        BY <1>b, <1>c, <2>1, <2>2
<1>14. CASE GiveUp \/ Restart
    <2>1. plan' = plan /\ past' = past /\ job' = job /\ loop'.pc \in {"start", "check"}
        BY <1>0, <1>14, MoveFacts
    <2> QED
        BY <1>b, <1>c, <2>1 DEF Holds
<1> QED
    BY <1>1, <1>2, <1>3, <1>4, <1>5, <1>6, <1>7, <1>8, <1>9, <1>10, <1>11, <1>12, <1>13, <1>14, <1>15
    DEF LoopStep

LEMMA RequestPaid ==
    ASSUME Turns, AllTried, Paid, Cancel \/ Pause \/ Resume \/ Approve \/ Reject, Races = {}
    PROVE  Paid'
<1>0. /\ TypeOK /\ patch' = patch /\ past' = past /\ plan' = plan
      /\ Open(job') \subseteq Open(job) \cup {n \in Nodes : n = job.awaiting}
    BY RequestFacts DEF Turns
<1>1. loop' = loop \/ loop' = Resting \/ loop' = [Resting EXCEPT !.pc = "start"]
    BY <1>0, RequestFacts
<1>2. loop' = loop \/ loop'.pc \in {"off", "start"}
    BY <1>1, RestTypes DEF Loops
<1>3. Holds' => Open(loop'.job) \subseteq Reached
    BY <1>2, ReachedHas DEF Holds
<1>4. Open(job') \subseteq Reached
    BY <1>0, ReachedHas, NoneIsNoNode DEF AllTried, Tried
<1>5. Ran' \subseteq Reached /\ \A c \in Patches : Appending(c)' => Open(patch'[c].job) \subseteq Reached
    <2>1. Ran' = Ran
        BY <1>0 DEF Ran
    <2> QED
        BY <1>0, <2>1, ReachedHas DEF Appending
<1>6. Reached' \subseteq Reached
    BY <1>3, <1>4, <1>5, ReachedWithin
<1>7. Handed' = Handed
    BY <1>0 DEF Handed, Progress
<1> QED
    BY <1>0, <1>6, <1>7, PaidKept

LEMMA PatchPaid ==
    ASSUME Turns, Paid, NEW c \in Patches, PatchStep(c) \/ Send(c) \/ Abort(c), Races = {}
    PROVE  Paid'
<1>0. /\ TypeOK /\ job \in Jobs /\ patch[c].job \in Jobs
      /\ \A d \in Patches \ {c} : patch'[d] = patch[d]
      /\ past' = past /\ Handed' = Handed
      /\ plan'.used = plan.used /\ plan'.reserved = plan.reserved
    BY PatchFacts DEF Turns, TypeOK, Appends
<1>1. Ran' \subseteq Reached
    <2>1. Ran' = Ran
        BY <1>0 DEF Ran
    <2> QED
        BY <2>1, ReachedHas
<1>2. loop' = loop \/ loop'.pc = "start"
    BY RestTypes, PatchFacts DEF Reads, Saves, Wakes, Keeps, Loops
<1>3. Holds' => Open(loop'.job) \subseteq Reached
    BY <1>2, ReachedHas DEF Holds
<1>4. Open(job') \subseteq Reached
    <2>1. CASE Saves(c)
        BY <1>0, <2>1, SavedFacts, ReachedHas DEF Saves, Appending
    <2>2. CASE Reads(c) \/ Wakes(c) \/ Keeps(c)
        <3>1. Open(job') = Open(job)
            BY <2>2 DEF Reads, Wakes, Keeps, Open
        <3> QED
            BY <3>1, ReachedHas
    <2> QED
        BY <2>1, <2>2, PatchFacts
<1>5. \A d \in Patches : Appending(d)' => Open(patch'[d].job) \subseteq Reached
    <2>1. \A d \in Patches \ {c} : Appending(d)' => Open(patch'[d].job) \subseteq Reached
        BY <1>0, ReachedHas DEF Appending
    <2>2. Appending(c)' => patch'[c].job = job \/ (Appending(c) /\ patch'[c].job = patch[c].job)
        BY PatchFacts DEF Reads, Saves, Wakes, Keeps, Appending
    <2> QED
        BY <2>1, <2>2, ReachedHas
<1>6. Reached' \subseteq Reached
    BY <1>1, <1>3, <1>4, <1>5, ReachedWithin
<1> QED
    BY <1>0, <1>6, PaidKept

(* ------------------------------ theorems -------------------------------- *)

LEMMA IInvInit == Init => IInv
<1> SUFFICES ASSUME Init PROVE IInv
    OBVIOUS
<1>1. Turns /\ Paid
    BY TurnsInit, PaidInit
<1>2. /\ job = NewJob /\ loop.pc = "start" /\ loop.next = "off" /\ plan = Materialized(NewPlan)
      /\ \A c \in Patches : patch[c].pc = "idle"
    BY RestTypes DEF Init, Loops
<1>3. job.status = "running" /\ job.awaiting = None /\ job.nodes = Window(NewPlan)
    BY <1>2 DEF NewJob
<1>4. Handed \subseteq Win(job)
    <2>1. plan.nodes = [n \in Nodes |-> IF n \in Frontier(NewPlan) THEN "materialized" ELSE NewPlan.nodes[n]]
        BY <1>2, NewTypes, MaterializedFacts
    <2> QED
        BY <1>3, <2>1 DEF Handed, Progress, Win, Window, NewPlan
<1>5. Escalated(job) = {}
    BY <1>3 DEF Escalated, Window
<1>6. Stops /\ Windows
    BY <1>2, <1>3, <1>4
    DEF Stops, LoopKnowsStops, JobKnowsStops, PatchesLiveJobs, NotStopped, Runs, Appending,
        Windows, JobHasWindow, LoopHasWindow, PatchHasWindow, Holds
<1>7. Cleared /\ AllTried
    BY <1>2, <1>3, <1>5 DEF Cleared, AllTried, Tried, Holds, Appending
<1> QED
    BY <1>1, <1>6, <1>7 DEF IInv

LEMMA Stutter ==
    ASSUME IInv, UNCHANGED vars
    PROVE  Stops' /\ Windows' /\ Cleared' /\ AllTried' /\ Paid'
<1>1. plan' = plan /\ job' = job /\ loop' = loop /\ patch' = patch /\ past' = past
    BY DEF vars, clients, history
<1>2. Handed' = Handed /\ Ran' = Ran
    BY <1>1 DEF Handed, Progress, Ran
<1>3. Stops'
    BY <1>1 DEF IInv, Stops, LoopKnowsStops, JobKnowsStops, PatchesLiveJobs, NotStopped, Runs, Appending, Stop
<1>4. Windows'
    BY <1>1, <1>2 DEF IInv, Windows, JobHasWindow, LoopHasWindow, PatchHasWindow, Holds, Appending, Win
<1>5. Cleared'
    BY <1>1, <1>2 DEF IInv, Cleared, Escalated
<1>6. AllTried'
    BY <1>1, <1>2 DEF IInv, AllTried, Tried, Holds, Appending, Escalated, Open
<1>7. Reached' = Reached
    BY <1>1, <1>2 DEF Reached, Holds, Appending, Open
<1>8. Paid'
    BY <1>1, <1>2, <1>7 DEF IInv, Paid
<1> QED
    BY <1>3, <1>4, <1>5, <1>6, <1>8

LEMMA IInvStep ==
    ASSUME IInv, [Next]_vars, Races = {}
    PROVE  IInv'
<1>0. Turns /\ Stops /\ Windows /\ Cleared /\ AllTried /\ Paid
    BY DEF IInv
<1>1. Turns'
    BY <1>0, TurnsStep
<1>2. CASE LoopStep
    BY <1>0, <1>1, <1>2, LoopStops, LoopWindows, LoopCleared, LoopTried, LoopPaid DEF IInv
<1>3. CASE Cancel \/ Pause \/ Resume \/ Approve \/ Reject
    BY <1>0, <1>1, <1>3, RequestStops, RequestWindows, OtherCleared, RequestTried, RequestPaid DEF IInv
<1>4. ASSUME NEW c \in Patches, PatchStep(c) \/ Send(c) \/ Abort(c)
      PROVE  IInv'
    BY <1>0, <1>1, <1>4, PatchStops, PatchWindows, OtherCleared, PatchTried, PatchPaid DEF IInv
<1>5. CASE UNCHANGED vars
    BY <1>1, <1>5, Stutter DEF IInv
<1> QED
    BY <1>2, <1>3, <1>4, <1>5 DEF Next

\* What is run fits the budget, over all windows, replanned tails and patches.
THEOREM BudgetKept == ASSUME Races = {} PROVE Spec => []BudgetHolds
<1>1. Init => IInv
    BY IInvInit
<1>2. IInv /\ [Next]_vars => IInv'
    BY IInvStep
<1>3. IInv => BudgetHolds
    <2> SUFFICES ASSUME IInv PROVE BudgetHolds
        OBVIOUS
    <2>1. Ran \in SUBSET (Reached \cup Handed) /\ Reached \cup Handed \in SUBSET Nodes
        BY ReachedHas, ReachedNodes
    <2>2. Cost(Ran) <= Cost(Reached \cup Handed)
        BY <2>1, CostGrows
    <2>3. Cost(Ran) \in Nat /\ Cost(Reached \cup Handed) \in Nat /\ Limit \in Nat
        BY <2>1, CostIsNat, Numbers
    <2>4. Cost(Reached \cup Handed) <= Limit
        BY DEF IInv, Paid
    <2> QED
        BY <2>2, <2>3, <2>4 DEF BudgetHolds, Ran
<1> QED
    BY <1>1, <1>2, <1>3, PTL DEF Spec
===============================================================================
