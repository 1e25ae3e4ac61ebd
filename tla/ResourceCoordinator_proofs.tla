---------------------- MODULE ResourceCoordinator_proofs ----------------------
(***************************************************************************)
(* Proofs about ResourceCoordinator, for every set of keys, of processes   *)
(* and of calls, whatever they claim.  The local locks are counted right   *)
(* in every state; the leases exclude when each call claims one key and    *)
(* every lease is longer than the longest renewal interval.                *)
(***************************************************************************)
EXTENDS ResourceCoordinator, FiniteSetTheorems, WellFoundedInduction, TLAPS

\* A call that has not started or is over holds nothing; one that waits for a
\* key has a key to wait for.
Places ==
    \A c \in Calls : /\ pc[c] \in {"start", "done"} => Acquired(c) = {}
                     /\ pc[c] \in {"acquire", "local"} => Acquired(c) # Wants(c)

\* The calls that hold the lock of a key in a process.
LockReaders(p, k) ==
    {c \in Calls : ProcOf[c] = p /\ k \in Wants(c) /\ via[c][k] = "local" /\ ~Writes(c, k)}
LockWriters(p, k) ==
    {c \in Calls : ProcOf[c] = p /\ k \in Wants(c) /\ via[c][k] = "local" /\ Writes(c, k)}

ReadersCounted ==
    \A p \in Procs, k \in Keys : Cardinality(LockReaders(p, k)) <= local[p][k].readers

WriterAlone ==
    \A p \in Procs, k \in Keys : \A c \in LockWriters(p, k) :
        local[p][k].writer /\ LockReaders(p, k) = {} /\ LockWriters(p, k) = {c}

\* Without faults a lock is held for somebody, and so is a field in Redis.
LocksAccounted ==
    faults = 0 => \A p \in Procs, k \in Keys :
        /\ local[p][k].readers = Cardinality(LockReaders(p, k))
        /\ local[p][k].writer => LockWriters(p, k) # {}

FieldsAccounted ==
    faults = 0 => \A k \in Keys, c \in Calls : hash[k][c] # Absent => k \in Leased(c)

IInv == TypeOK /\ Places /\ ReadersCounted /\ WriterAlone /\ LocksAccounted /\ FieldsAccounted

(* ---------------------------- constants -------------------------------- *)

LEMMA ClaimsAreKeys ==
    ASSUME NEW c \in Calls
    PROVE  /\ Wants(c) \subseteq Keys
           /\ Wants(c) \subseteq Nat
           /\ Wants(c) # {}
           /\ IsFiniteSet(Wants(c))
           /\ TtlOf[c] \in Nat \ {0}
           /\ ProcOf[c] \in Procs
<1>1. Wants(c) \subseteq Keys /\ Wants(c) # {}
    BY CallsAssumption DEF Wants
<1>2. TtlOf[c] \in Nat \ {0} /\ ProcOf[c] \in Procs
    BY CallsAssumption
<1> QED
    BY <1>1, <1>2, KeysAssumption, FS_Subset

LEMMA LeastExists ==
    ASSUME NEW S \in SUBSET Nat, S # {}
    PROVE  Min(S) \in S
<1>1. PICK x \in S : \A y \in S : ~(<<y, x>> \in OpToRel(<, Nat))
    BY WFMin, NatLessThanWellFounded
<1>2. \A y \in S : x <= y
    <2> SUFFICES ASSUME NEW y \in S, ~(x <= y)
                 PROVE  FALSE
        OBVIOUS
    <2>1. y < x /\ <<y, x>> \in Nat \X Nat
        OBVIOUS
    <2>2. <<y, x>> \in OpToRel(<, Nat)
        BY <2>1 DEF OpToRel
    <2> QED
        BY <1>1, <2>2
<1> QED
    BY <1>2 DEF Min

\* The greatest element is the one with the fewest elements above it.
LEMMA GreatestExists ==
    ASSUME NEW S \in SUBSET Nat, IsFiniteSet(S), S # {}
    PROVE  Max(S) \in S
<1> DEFINE Above(x) == {z \in S : z > x}
           Counts == {n \in Nat : \E x \in S : n = Cardinality(Above(x))}
<1>1. \A x \in S : IsFiniteSet(Above(x)) /\ Cardinality(Above(x)) \in Nat
    <2> TAKE x \in S
    <2>1. Above(x) \in SUBSET S
        OBVIOUS
    <2>2. IsFiniteSet(Above(x))
        BY <2>1, FS_Subset
    <2> QED
        BY <2>2, FS_CardinalityType
<1>2. Counts \subseteq Nat /\ Counts # {}
    BY <1>1
<1>3. PICK n \in Counts : \A m \in Counts : ~(<<m, n>> \in OpToRel(<, Nat))
    BY <1>2, WFMin, NatLessThanWellFounded
<1>4. PICK x \in S : n = Cardinality(Above(x))
    BY <1>3
<1>5. \A y \in S : x >= y
    <2> SUFFICES ASSUME NEW y \in S, ~(x >= y)
                 PROVE  FALSE
        OBVIOUS
    <2>0. x \in Nat /\ y \in Nat /\ \A z \in S : z \in Nat
        OBVIOUS
    <2>6. y > x /\ \A z \in S : z > y => z > x
        BY <2>0
    <2>1. Above(y) \subseteq Above(x) /\ y \in Above(x) /\ y \notin Above(y)
        <3>1. ~(y > y)
            BY <2>0
        <3> QED
            BY <2>6, <3>1, Zenon
    <2>2. Cardinality(Above(y)) <= Cardinality(Above(x)) /\ Cardinality(Above(y)) # Cardinality(Above(x))
        BY <1>1, <2>1, FS_Subset
    <2>3. Cardinality(Above(y)) \in Counts
        BY <1>1
    <2>5. Cardinality(Above(y)) < n
        <3> HIDE DEF Above
        <3> QED
            BY <1>1, <1>4, <2>2
    <2>4. <<Cardinality(Above(y)), n>> \in OpToRel(<, Nat)
        BY <1>2, <2>3, <2>5 DEF OpToRel
    <2> QED
        BY <1>3, <2>3, <2>4
<1> QED
    BY <1>5 DEF Max

LEMMA LargerOfTwo ==
    ASSUME NEW m \in Int, NEW n \in Int
    PROVE  Max({m, n}) = IF m >= n THEN m ELSE n
    BY DEF Max

LEMMA CountedDown == \A n \in Nat : Max({0, n - 1}) \in Nat
    BY LargerOfTwo

LEMMA SmallerOfTwo ==
    ASSUME NEW m \in Int, NEW n \in Int
    PROVE  Min({m, n}) = IF m <= n THEN m ELSE n
    BY DEF Min

\* A renewal is at least a tick away, and not further than the cap.
LEMMA IntervalBounds ==
    ASSUME NEW c \in Calls
    PROVE  /\ RenewInterval(TtlOf[c]) \in Nat
           /\ RenewInterval(TtlOf[c]) <= Cap
<1>1. TtlOf[c] \div 3 \in Int /\ Cap \in Int /\ Cap >= 1
    BY ClaimsAreKeys, SettingsAssumption
<1>2. Min({Cap, TtlOf[c] \div 3}) \in Int /\ Min({Cap, TtlOf[c] \div 3}) <= Cap
    BY <1>1, SmallerOfTwo
<1>3. RenewInterval(TtlOf[c]) = IF 1 >= Min({Cap, TtlOf[c] \div 3}) THEN 1 ELSE Min({Cap, TtlOf[c] \div 3})
    BY <1>2, LargerOfTwo DEF RenewInterval
<1> QED
    BY <1>1, <1>2, <1>3

\* The next key is one the call has not got, the last one is one it has.
LEMMA NextKeyIsMissing ==
    ASSUME NEW c \in Calls, Acquired(c) # Wants(c)
    PROVE  NextKey(c) \in Wants(c) \ Acquired(c)
<1>1. Wants(c) \ Acquired(c) \in SUBSET Nat /\ Wants(c) \ Acquired(c) # {}
    BY ClaimsAreKeys DEF Acquired
<1> QED
    BY <1>1, LeastExists DEF NextKey

LEMMA LastKeyIsHeld ==
    ASSUME NEW c \in Calls, Acquired(c) # {}
    PROVE  Max(Acquired(c)) \in Acquired(c)
<1>1. Acquired(c) \in SUBSET Wants(c)
    BY DEF Acquired
<1>2. Acquired(c) \in SUBSET Nat /\ IsFiniteSet(Acquired(c))
    BY <1>1, ClaimsAreKeys, FS_Subset
<1> QED
    BY <1>2, GreatestExists

(* -------------------------------- types -------------------------------- *)

\* The key a call waits for, and the one it releases, are among its keys.
LEMMA KeyWaitedFor ==
    ASSUME Places, NEW c \in Calls, pc[c] \in {"acquire", "local"}
    PROVE  NextKey(c) \in Keys /\ NextKey(c) \in Wants(c) \ Acquired(c)
<1>1. Acquired(c) # Wants(c)
    BY DEF Places
<1> QED
    BY <1>1, NextKeyIsMissing, ClaimsAreKeys

LEMMA KeyReleased ==
    ASSUME NEW c \in Calls, Acquired(c) # {}
    PROVE  Max(Acquired(c)) \in Keys /\ Max(Acquired(c)) \in Acquired(c) /\ Max(Acquired(c)) \in Wants(c)
    BY LastKeyIsHeld, ClaimsAreKeys DEF Acquired

LEMMA TakeTypes ==
    ASSUME TypeOK, NEW c \in Calls, NEW k, NEW how \in {"redis", "local"}, Take(c, k, how)
    PROVE  /\ via' \in [Calls -> [Keys -> {"none", "redis", "local"}]]
           /\ pc' \in [Calls -> {"start", "acquire", "local", "body", "release", "done"}]
           /\ timer' \in [Calls -> Nat]
<1>1. via' \in [Calls -> [Keys -> {"none", "redis", "local"}]]
    BY DEF TypeOK, Take
<1>2. pc' \in [Calls -> {"start", "acquire", "local", "body", "release", "done"}]
    BY DEF TypeOK, Take, Goto
<1>3. timer' \in [Calls -> Nat]
    BY IntervalBounds DEF TypeOK, Take
<1> QED
    BY <1>1, <1>2, <1>3

LEMMA SweptType ==
    ASSUME NEW h \in [Calls -> Int]
    PROVE  Swept(h) \in [Calls -> Int]
    BY DEF Swept, Absent

LEMMA GrantTypes ==
    ASSUME TypeOK, NEW c \in Calls, NEW k \in Keys, ScriptLost(c, k) \/ LeaseGranted(c, k)
    PROVE  hash' \in [Keys -> [Calls -> Int]] /\ expiry' \in [Keys -> Nat]
<1>1. CASE UNCHANGED <<hash, expiry>>
    BY <1>1 DEF TypeOK
<1>2. CASE LeaseGranted(c, k)
    <2>1. Swept(hash[k]) \in [Calls -> Int]
        BY SweptType DEF TypeOK
    <2>2. TtlOf[c] \in Nat
        BY ClaimsAreKeys
    <2>3. [Swept(hash[k]) EXCEPT ![c] = TtlOf[c]] \in [Calls -> Int]
        BY <2>1, <2>2
    <2> QED
        BY <1>2, <2>2, <2>3 DEF LeaseGranted, TypeOK
<1> QED
    BY <1>1, <1>2 DEF ScriptLost

LEMMA RenewTypes ==
    ASSUME TypeOK, NEW c \in Calls, NEW S, WithLease(c, S)
    PROVE  hash' \in [Keys -> [Calls -> Int]] /\ expiry' \in [Keys -> Nat]
<1>1. TtlOf[c] \in Nat
    BY ClaimsAreKeys
<1>2. \A k \in Keys : [hash[k] EXCEPT ![c] = TtlOf[c]] \in [Calls -> Int]
    BY <1>1 DEF TypeOK
<1> QED
    BY <1>1, <1>2 DEF WithLease, TypeOK

LEMMA TypeStep ==
    ASSUME TypeOK, Places, Next
    PROVE  TypeOK'
<1>1. ASSUME NEW c \in Calls, Start(c)
      PROVE  TypeOK'
    <2>1. UNCHANGED <<hash, expiry, local, via, timer>>
        BY <1>1 DEF Start
    <2>2. pc' = [pc EXCEPT ![c] = "acquire"] \/ pc' = [pc EXCEPT ![c] = "done"]
        BY <1>1 DEF Start, Goto
    <2>3. pc' \in [Calls -> {"start", "acquire", "local", "body", "release", "done"}]
        BY <2>2 DEF TypeOK
    <2>4. faults' \in Nat
        BY <1>1 DEF Start, Fault, TypeOK
    <2> QED
        BY <2>1, <2>3, <2>4 DEF TypeOK
<1>2. ASSUME NEW c \in Calls, AcquireLease(c)
      PROVE  TypeOK'
    <2> DEFINE k == NextKey(c)
    <2>1. k \in Keys
        BY <1>2, KeyWaitedFor DEF AcquireLease
    <2>2. CASE LeaseGranted(c, k) /\ Take(c, k, "redis")
        <3>1. hash' \in [Keys -> [Calls -> Int]] /\ expiry' \in [Keys -> Nat]
            BY <2>1, <2>2, GrantTypes
        <3>2. /\ via' \in [Calls -> [Keys -> {"none", "redis", "local"}]]
              /\ pc' \in [Calls -> {"start", "acquire", "local", "body", "release", "done"}]
              /\ timer' \in [Calls -> Nat]
            BY <2>2, TakeTypes
        <3>3. UNCHANGED <<local, faults>>
            BY <1>2 DEF AcquireLease
        <3> QED
            BY <3>1, <3>2, <3>3 DEF TypeOK
    <2>3. CASE hash' = [hash EXCEPT ![k] = Swept(hash[k])] /\ UNCHANGED <<expiry, pc, via, timer>>
        <3>1. Swept(hash[k]) \in [Calls -> Int]
            BY <2>1, SweptType DEF TypeOK
        <3>2. UNCHANGED <<local, faults>>
            BY <1>2 DEF AcquireLease
        <3>3. hash' \in [Keys -> [Calls -> Int]]
            BY <2>3, <3>1 DEF TypeOK
        <3> QED
            BY <2>3, <3>2, <3>3 DEF TypeOK
    <2> QED
        BY <1>2, <2>2, <2>3 DEF AcquireLease
<1>3. ASSUME NEW c \in Calls, AcquireWithoutRedis(c)
      PROVE  TypeOK'
    BY <1>3 DEF AcquireWithoutRedis, Fallback, Goto, TypeOK
<1>4. ASSUME NEW c \in Calls, AcquireFails(c)
      PROVE  TypeOK'
    <2>1. NextKey(c) \in Keys
        BY <1>4, KeyWaitedFor DEF AcquireFails
    <2>2. hash' \in [Keys -> [Calls -> Int]] /\ expiry' \in [Keys -> Nat]
        BY <1>4, <2>1, GrantTypes DEF AcquireFails
    <2> QED
        BY <1>4, <2>2 DEF AcquireFails, Fallback, Goto, Fault, TypeOK
<1>5. ASSUME NEW c \in Calls, AcquireLocal(c)
      PROVE  TypeOK'
    <2> DEFINE k == NextKey(c)
    <2>1. Take(c, k, "local") /\ UNCHANGED <<hash, expiry, faults>>
        BY <1>5 DEF AcquireLocal
    <2>2. /\ via' \in [Calls -> [Keys -> {"none", "redis", "local"}]]
          /\ pc' \in [Calls -> {"start", "acquire", "local", "body", "release", "done"}]
          /\ timer' \in [Calls -> Nat]
        BY <2>1, TakeTypes
    <2>3. k \in Keys /\ ProcOf[c] \in Procs
        BY <1>5, KeyWaitedFor, ClaimsAreKeys DEF AcquireLocal
    <2>4. local' \in [Procs -> [Keys -> [readers : Nat, writer : BOOLEAN]]]
        <3> DEFINE lock == local[ProcOf[c]][k]
                   new == IF Writes(c, k) THEN [lock EXCEPT !.writer = TRUE]
                                          ELSE [lock EXCEPT !.readers = @ + 1]
        <3>1. lock \in [readers : Nat, writer : BOOLEAN]
            BY <2>3 DEF TypeOK
        <3>2. new \in [readers : Nat, writer : BOOLEAN]
            <4>1. [lock EXCEPT !.writer = TRUE] \in [readers : Nat, writer : BOOLEAN]
                <5> HIDE DEF lock
                <5> QED
                    BY <3>1
            <4>2. [lock EXCEPT !.readers = @ + 1] \in [readers : Nat, writer : BOOLEAN]
                <5> HIDE DEF lock
                <5> QED
                    BY <3>1
            <4> QED
                BY <4>1, <4>2
        <3>3. local' = [local EXCEPT ![ProcOf[c]][k] = new]
            BY <1>5 DEF AcquireLocal
        <3> HIDE DEF new
        <3> QED
            BY <2>3, <3>2, <3>3 DEF TypeOK
    <2> QED
        BY <2>1, <2>2, <2>4 DEF TypeOK
<1>6. ASSUME NEW c \in Calls, CancelWaiting(c)
      PROVE  TypeOK'
    <2>1. NextKey(c) \in Keys
        BY <1>6, KeyWaitedFor DEF CancelWaiting
    <2>2. hash' \in [Keys -> [Calls -> Int]] /\ expiry' \in [Keys -> Nat]
        BY <1>6, <2>1, GrantTypes DEF CancelWaiting, TypeOK
    <2> QED
        BY <1>6, <2>2 DEF CancelWaiting, Goto, Fault, TypeOK
<1>7. ASSUME NEW c \in Calls, Renew(c)
      PROVE  TypeOK'
    <2>1. hash' \in [Keys -> [Calls -> Int]] /\ expiry' \in [Keys -> Nat]
        BY <1>7, RenewTypes DEF Renew
    <2> QED
        BY <1>7, <2>1, IntervalBounds DEF Renew, Leave, Goto, TypeOK
<1>8. ASSUME NEW c \in Calls, RenewFails(c)
      PROVE  TypeOK'
    <2>1. hash' \in [Keys -> [Calls -> Int]] /\ expiry' \in [Keys -> Nat]
        BY <1>8, RenewTypes DEF RenewFails
    <2> QED
        BY <1>8, <2>1 DEF RenewFails, Fault, Leave, Goto, TypeOK
<1>9. ASSUME NEW c \in Calls, Finish(c)
      PROVE  TypeOK'
    BY <1>9 DEF Finish, Leave, Goto, TypeOK
<1>10. ASSUME NEW c \in Calls, ReleaseOne(c)
       PROVE  TypeOK'
    <2> DEFINE k == Max(Acquired(c))
    <2>1. k \in Keys /\ ProcOf[c] \in Procs
        BY <1>10, KeyReleased, ClaimsAreKeys DEF ReleaseOne
    <2>2. via' \in [Calls -> [Keys -> {"none", "redis", "local"}]] /\ UNCHANGED <<pc, timer, faults>>
        BY <1>10, <2>1 DEF ReleaseOne, TypeOK
    <2>3. hash' \in [Keys -> [Calls -> Int]] /\ expiry' \in [Keys -> Nat]
        <3>1. \/ UNCHANGED <<hash, expiry>>
              \/ /\ hash' = [hash EXCEPT ![k][c] = Absent]
                 /\ \/ expiry' = [expiry EXCEPT ![k] = 0]
                    \/ expiry' = [expiry EXCEPT ![k] = expiry[k]]
            BY <1>10 DEF ReleaseOne
        <3>2. Absent \in Int /\ \A j \in Keys : hash[j] \in [Calls -> Int]
            BY DEF Absent, TypeOK
        <3> HIDE DEF k
        <3>3. [hash EXCEPT ![k][c] = Absent] \in [Keys -> [Calls -> Int]]
            BY <2>1, <3>2 DEF TypeOK
        <3>4. hash' \in [Keys -> [Calls -> Int]]
            BY <3>1, <3>3 DEF TypeOK
        <3>5. expiry' \in [Keys -> Nat]
            <4>1. \A n \in Nat : [expiry EXCEPT ![k] = n] \in [Keys -> Nat]
                BY DEF TypeOK
            <4>2. expiry \in [Keys -> Nat] /\ expiry[k] \in Nat
                BY <2>1 DEF TypeOK
            <4> QED
                BY <3>1, <4>1, <4>2
        <3> QED
            BY <3>4, <3>5
    <2>4. Unlocked(local[ProcOf[c]][k], c, k) \in [readers : Nat, writer : BOOLEAN]
        <3>1. local[ProcOf[c]][k] \in [readers : Nat, writer : BOOLEAN]
            BY <2>1 DEF TypeOK
        <3>2. Max({0, local[ProcOf[c]][k].readers - 1}) \in Nat
            <4>1. local[ProcOf[c]][k].readers \in Nat
                BY <3>1
            <4> QED
                BY <4>1, CountedDown, Zenon
        <3> QED
            BY <3>1, <3>2 DEF Unlocked
    <2>5. local' \in [Procs -> [Keys -> [readers : Nat, writer : BOOLEAN]]]
        <3> DEFINE new == Unlocked(local[ProcOf[c]][k], c, k)
        <3>1. local' = [local EXCEPT ![ProcOf[c]][k] = new] \/ UNCHANGED local
            BY <1>10 DEF ReleaseOne
        <3>2. new \in [readers : Nat, writer : BOOLEAN]
            BY <2>4
        <3> HIDE DEF new, k
        <3>3. [local EXCEPT ![ProcOf[c]][k] = new] \in [Procs -> [Keys -> [readers : Nat, writer : BOOLEAN]]]
            BY <2>1, <3>2 DEF TypeOK
        <3> QED
            BY <3>1, <3>3 DEF TypeOK
    <2> QED
        BY <2>2, <2>3, <2>5 DEF TypeOK
<1>11. ASSUME NEW c \in Calls, Released(c)
       PROVE  TypeOK'
    BY <1>11 DEF Released, Goto, TypeOK
<1>12. ASSUME NEW c \in Calls, ReleaseFails(c)
       PROVE  TypeOK'
    BY <1>12 DEF ReleaseFails, Fault, End, Goto, TypeOK
<1>13. ASSUME NEW p \in Procs, Crash(p)
       PROVE  TypeOK'
    BY <1>13 DEF Crash, Fault, Free, TypeOK
<1>14. ASSUME Tick
       PROVE  TypeOK'
    BY <1>14 DEF Tick, Less, Absent, TypeOK
<1> QED
    BY <1>1, <1>2, <1>3, <1>4, <1>5, <1>6, <1>7, <1>8, <1>9, <1>10, <1>11, <1>12, <1>13, <1>14
    DEF Next, Progress

(* ------------------------ where the calls are -------------------------- *)

\* Taking a key adds it to the acquired list.
LEMMA TakeAdds ==
    ASSUME TypeOK, NEW c \in Calls, NEW k \in Keys, k \in Wants(c),
           NEW how \in {"redis", "local"}, Take(c, k, how)
    PROVE  /\ Acquired(c)' = Acquired(c) \cup {k}
           /\ \A d \in Calls \ {c} : Acquired(d)' = Acquired(d)
           /\ \/ pc'[c] = "body" /\ Acquired(c)' = Wants(c)
              \/ pc'[c] = "acquire" /\ Acquired(c)' # Wants(c)
           /\ \A d \in Calls \ {c} : pc'[d] = pc[d]
<1>1. via' = [via EXCEPT ![c][k] = how] /\ via \in [Calls -> [Keys -> {"none", "redis", "local"}]]
    BY DEF Take, TypeOK
<1>2. \A j \in Keys : via'[c][j] = IF j = k THEN how ELSE via[c][j]
    BY <1>1
<1>3. \A d \in Calls \ {c} : via'[d] = via[d]
    BY <1>1
<1>4. Acquired(c)' = Acquired(c) \cup {k}
    BY <1>2, ClaimsAreKeys DEF Acquired, Wants
<1>5. \A d \in Calls \ {c} : Acquired(d)' = Acquired(d)
    BY <1>3 DEF Acquired, Wants
<1>6. pc \in [Calls -> {"start", "acquire", "local", "body", "release", "done"}]
    BY DEF TypeOK
<1>7. pc'[c] = IF Acquired(c) \cup {k} = Wants(c) THEN "body" ELSE "acquire"
    BY <1>6 DEF Take, Goto
<1>8. \A d \in Calls \ {c} : pc'[d] = pc[d]
    BY <1>6 DEF Take, Goto
<1>9. \/ pc'[c] = "body" /\ Acquired(c)' = Wants(c)
      \/ pc'[c] = "acquire" /\ Acquired(c)' # Wants(c)
    BY <1>4, <1>7
<1> QED
    BY <1>4, <1>5, <1>8, <1>9

\* A step that only moves a call keeps its place right if it may go there.
LEMMA MovedPlaces ==
    ASSUME TypeOK, Places, UNCHANGED via, NEW c \in Calls, NEW location, Goto(c, location),
           location \in {"start", "done"} => Acquired(c) = {},
           location \in {"acquire", "local"} => Acquired(c) # Wants(c)
    PROVE  Places'
<1>1. \A d \in Calls : Acquired(d)' = Acquired(d) /\ Wants(d)' = Wants(d)
    BY DEF Acquired, Wants
<1>2. \A d \in Calls : pc'[d] = IF d = c THEN location ELSE pc[d]
    BY DEF Goto, TypeOK
<1> QED
    BY <1>1, <1>2 DEF Places

LEMMA PlacesStep ==
    ASSUME TypeOK, Places, Next
    PROVE  Places'
<1> DEFINE Same(d) == pc'[d] = pc[d] /\ via'[d] = via[d]
           Fine(d) == /\ pc'[d] \in {"start", "done"} => Acquired(d)' = {}
                      /\ pc'[d] \in {"acquire", "local"} => Acquired(d)' # Wants(d)
<1>a. ASSUME NEW d \in Calls, Same(d)
      PROVE  Fine(d)
    BY <1>a DEF Places, Acquired, Wants
<1>b. ASSUME \A d \in Calls : Fine(d)
      PROVE  Places'
    BY <1>b DEF Places, Wants
<1>1. ASSUME NEW c \in Calls, Start(c)
      PROVE  Places'
    <2>1. Acquired(c) = {} /\ Wants(c) # {} /\ UNCHANGED via
        BY <1>1, ClaimsAreKeys DEF Start, Places
    <2>2. Goto(c, "acquire") \/ Goto(c, "done")
        BY <1>1 DEF Start
    <2> QED
        BY <2>1, <2>2, MovedPlaces
<1>2. ASSUME NEW c \in Calls, NEW how \in {"redis", "local"},
             pc[c] \in {"acquire", "local"}, Take(c, NextKey(c), how)
      PROVE  Places'
    <2>1. NextKey(c) \in Keys /\ NextKey(c) \in Wants(c)
        BY <1>2, KeyWaitedFor
    <2>2. Fine(c)
        BY <1>2, <2>1, TakeAdds
    <2>3. \A d \in Calls \ {c} : Fine(d)
        BY <1>2, <2>1, TakeAdds DEF Places
    <2> QED
        BY <1>b, <2>2, <2>3
<1>3. ASSUME NEW c \in Calls, AcquireLease(c)
      PROVE  Places'
    <2>1. CASE Take(c, NextKey(c), "redis")
        BY <1>2, <1>3, <2>1 DEF AcquireLease
    <2>2. CASE UNCHANGED <<expiry, pc, via, timer>>
        BY <1>a, <1>b, <2>2
    <2> QED
        BY <1>3, <2>1, <2>2 DEF AcquireLease
<1>4. ASSUME NEW c \in Calls, AcquireWithoutRedis(c) \/ AcquireFails(c)
      PROVE  Places'
    <2>1. Acquired(c) # Wants(c) /\ UNCHANGED via
        BY <1>4 DEF AcquireWithoutRedis, AcquireFails, Places
    <2>2. Goto(c, "release") \/ Goto(c, "local")
        BY <1>4 DEF AcquireWithoutRedis, AcquireFails, Fallback
    <2> QED
        BY <2>1, <2>2, MovedPlaces
<1>5. ASSUME NEW c \in Calls, AcquireLocal(c)
      PROVE  Places'
    BY <1>2, <1>5 DEF AcquireLocal
<1>6. ASSUME NEW c \in Calls, UNCHANGED via, Goto(c, "release") \/ UNCHANGED pc
      PROVE  Places'
    <2>1. CASE Goto(c, "release")
        BY <1>6, <2>1, MovedPlaces
    <2>2. CASE UNCHANGED pc
        BY <1>6, <1>a, <1>b, <2>2
    <2> QED
        BY <1>6, <2>1, <2>2
<1>7. ASSUME NEW c \in Calls, CancelWaiting(c) \/ Renew(c) \/ RenewFails(c) \/ Finish(c)
      PROVE  Places'
    BY <1>6, <1>7 DEF CancelWaiting, Renew, RenewFails, Finish, Leave
<1>8. ASSUME NEW c \in Calls, ReleaseOne(c)
      PROVE  Places'
    <2>1. via' = [via EXCEPT ![c][Max(Acquired(c))] = "none"] /\ UNCHANGED pc /\ pc[c] = "release"
        BY <1>8 DEF ReleaseOne
    <2>2. Fine(c)
        BY <2>1
    <2>3. \A d \in Calls \ {c} : Same(d)
        BY <2>1 DEF TypeOK
    <2> QED
        BY <1>a, <1>b, <2>2, <2>3
<1>9. ASSUME NEW c \in Calls, Released(c)
      PROVE  Places'
    <2>1. Acquired(c) = {} /\ UNCHANGED via /\ Goto(c, "done")
        BY <1>9 DEF Released
    <2> QED
        BY <2>1, MovedPlaces
<1>10. ASSUME NEW c \in Calls, ReleaseFails(c)
       PROVE  Places'
    <2>1. /\ via' = [via EXCEPT ![c] = [k \in Keys |-> "none"]]
          /\ pc' = [pc EXCEPT ![c] = "done"]
        BY <1>10 DEF ReleaseFails, End, Goto
    <2>2. \A d \in Calls \ {c} : Same(d)
        BY <2>1 DEF TypeOK
    <2>3. via'[c] = [k \in Keys |-> "none"] /\ pc'[c] = "done"
        BY <2>1 DEF TypeOK
    <2>4. Acquired(c)' = {}
        BY <2>3, ClaimsAreKeys DEF Acquired, Wants
    <2> QED
        BY <1>a, <1>b, <2>2, <2>3, <2>4
<1>11. ASSUME NEW p \in Procs, Crash(p)
       PROVE  Places'
    <2> DEFINE dead == {c \in Calls : ProcOf[c] = p /\ pc[c] # "start"}
    <2>1. \A d \in Calls \ dead : Same(d)
        BY <1>11 DEF Crash, TypeOK
    <2>2. \A d \in dead : pc'[d] = "done" /\ via'[d] = [k \in Keys |-> "none"]
        BY <1>11 DEF Crash
    <2>3. \A d \in dead : Acquired(d)' = {}
        BY <2>2, ClaimsAreKeys DEF Acquired, Wants
    <2> HIDE DEF dead
    <2>4. \A d \in Calls : d \in dead => Fine(d)
        BY <2>2, <2>3
    <2> QED
        BY <1>a, <1>b, <2>1, <2>4
<1>12. ASSUME Tick
       PROVE  Places'
    BY <1>12, <1>a, <1>b DEF Tick
<1> QED
    BY <1>1, <1>3, <1>4, <1>5, <1>7, <1>8, <1>9, <1>10, <1>11, <1>12 DEF Next, Progress

(* ------------------------------ local locks ---------------------------- *)

LocksInv == ReadersCounted /\ WriterAlone /\ LocksAccounted

LEMMA HoldersFinite ==
    ASSUME NEW p, NEW k
    PROVE  /\ IsFiniteSet(LockReaders(p, k)) /\ Cardinality(LockReaders(p, k)) \in Nat
           /\ IsFiniteSet(LockReaders(p, k)') /\ Cardinality(LockReaders(p, k)') \in Nat
<1>1. LockReaders(p, k) \in SUBSET Calls /\ LockReaders(p, k)' \in SUBSET Calls
    BY DEF LockReaders
<1>2. IsFiniteSet(LockReaders(p, k)) /\ IsFiniteSet(LockReaders(p, k)')
    BY <1>1, CallsAssumption, FS_Subset
<1> QED
    BY <1>2, FS_CardinalityType

\* A step that leaves the locks and their holders alone.
LEMMA LocksKept ==
    ASSUME LocksInv, UNCHANGED local, faults' = 0 => faults = 0,
           \A d \in Calls : \A k \in Wants(d) : via'[d][k] = "local" <=> via[d][k] = "local"
    PROVE  LocksInv'
<1>1. \A p \in Procs, k \in Keys : LockReaders(p, k)' = LockReaders(p, k)
    BY DEF LockReaders, Wants, Writes
<1>2. \A p \in Procs, k \in Keys : LockWriters(p, k)' = LockWriters(p, k)
    BY DEF LockWriters, Wants, Writes
<1> QED
    BY <1>1, <1>2 DEF LocksInv, ReadersCounted, WriterAlone, LocksAccounted

\* A call takes the lock of a free key for writing.
LEMMA WriterEnters ==
    ASSUME TypeOK, LocksInv, NEW p \in Procs, NEW k \in Keys, NEW c \in Calls,
           ProcOf[c] = p, k \in Wants(c), Writes(c, k), faults' = faults,
           ~local[p][k].writer, local[p][k].readers = 0,
           via' = [via EXCEPT ![c][k] = "local"],
           local' = [local EXCEPT ![p][k] = [local[p][k] EXCEPT !.writer = TRUE]]
    PROVE  LocksInv'
<1>1. \A q \in Procs, j \in Keys :
         local'[q][j] = IF q = p /\ j = k THEN [local[p][k] EXCEPT !.writer = TRUE] ELSE local[q][j]
    BY DEF TypeOK
<1>2. \A d \in Calls, j \in Keys : via'[d][j] = IF d = c /\ j = k THEN "local" ELSE via[d][j]
    BY DEF TypeOK
<1>3. LockReaders(p, k) = {} /\ LockWriters(p, k) = {}
    <2>1. Cardinality(LockReaders(p, k)) = 0
        BY HoldersFinite DEF LocksInv, ReadersCounted
    <2>2. LockReaders(p, k) = {}
        BY <2>1, HoldersFinite, FS_EmptySet
    <2> QED
        BY <2>2 DEF LocksInv, WriterAlone
<1>4. local[p][k] \in [readers : Nat, writer : BOOLEAN]
    BY DEF TypeOK
<1>5. LockReaders(p, k)' = LockReaders(p, k) /\ LockWriters(p, k)' = {c}
    <2>1. LockReaders(p, k)' = LockReaders(p, k)
        BY <1>2 DEF LockReaders, Wants, Writes
    <2>2. LockWriters(p, k)' = LockWriters(p, k) \cup {c}
        BY <1>2 DEF LockWriters, Wants, Writes
    <2> QED
        BY <1>3, <2>1, <2>2
<1>6. \A q \in Procs, j \in Keys : ~(q = p /\ j = k) =>
         LockReaders(q, j)' = LockReaders(q, j) /\ LockWriters(q, j)' = LockWriters(q, j)
    BY <1>2 DEF LockReaders, LockWriters, Wants, Writes
<1>7. ReadersCounted'
    BY <1>1, <1>4, <1>5, <1>6 DEF LocksInv, ReadersCounted
<1>8. WriterAlone'
    BY <1>1, <1>3, <1>4, <1>5, <1>6 DEF LocksInv, WriterAlone
<1>9. LocksAccounted'
    BY <1>1, <1>4, <1>5, <1>6 DEF LocksInv, LocksAccounted
<1> QED
    BY <1>7, <1>8, <1>9 DEF LocksInv

\* A call that does not hold a key yet takes its lock for reading.
LEMMA ReaderEnters ==
    ASSUME TypeOK, LocksInv, NEW p \in Procs, NEW k \in Keys, NEW c \in Calls,
           ProcOf[c] = p, k \in Wants(c), ~Writes(c, k), faults' = faults,
           ~local[p][k].writer, via[c][k] = "none",
           via' = [via EXCEPT ![c][k] = "local"],
           local' = [local EXCEPT ![p][k] = [local[p][k] EXCEPT !.readers = @ + 1]]
    PROVE  LocksInv'
<1>1. \A q \in Procs, j \in Keys :
         local'[q][j] = IF q = p /\ j = k THEN [local[p][k] EXCEPT !.readers = @ + 1] ELSE local[q][j]
    BY DEF TypeOK
<1>2. \A d \in Calls, j \in Keys : via'[d][j] = IF d = c /\ j = k THEN "local" ELSE via[d][j]
    BY DEF TypeOK
<1>3. LockWriters(p, k) = {}
    BY DEF LocksInv, WriterAlone
<1>4. local[p][k] \in [readers : Nat, writer : BOOLEAN]
    BY DEF TypeOK
<1>5. LockReaders(p, k)' = LockReaders(p, k) \cup {c} /\ c \notin LockReaders(p, k)
    BY <1>2 DEF LockReaders, Wants, Writes
<1>6. LockWriters(p, k)' = {}
    <2>1. LockWriters(p, k)' = LockWriters(p, k)
        BY <1>2 DEF LockWriters, Wants, Writes
    <2> QED
        BY <1>3, <2>1
<1>7. \A q \in Procs, j \in Keys : ~(q = p /\ j = k) =>
         LockReaders(q, j)' = LockReaders(q, j) /\ LockWriters(q, j)' = LockWriters(q, j)
    BY <1>2 DEF LockReaders, LockWriters, Wants, Writes
<1>8. Cardinality(LockReaders(p, k)') = Cardinality(LockReaders(p, k)) + 1
    BY <1>5, HoldersFinite, FS_AddElement
<1>9. local'[p][k].readers = local[p][k].readers + 1 /\ local'[p][k].writer = local[p][k].writer
    BY <1>1, <1>4
<1>10. Cardinality(LockReaders(p, k)) \in Nat
    BY HoldersFinite
<1>11. ReadersCounted'
    BY <1>1, <1>4, <1>7, <1>8, <1>9, <1>10 DEF LocksInv, ReadersCounted
<1>12. WriterAlone'
    BY <1>1, <1>6, <1>7 DEF LocksInv, WriterAlone
<1>13. LocksAccounted'
    BY <1>1, <1>4, <1>7, <1>8, <1>9, <1>10 DEF LocksInv, LocksAccounted
<1> QED
    BY <1>11, <1>12, <1>13 DEF LocksInv

\* The writer of a key gives its lock back.
LEMMA WriterLeaves ==
    ASSUME TypeOK, LocksInv, NEW p \in Procs, NEW k \in Keys, NEW c \in Calls,
           ProcOf[c] = p, k \in Wants(c), Writes(c, k), faults' = faults,
           via[c][k] = "local", via' = [via EXCEPT ![c][k] = "none"],
           local' = [local EXCEPT ![p][k] = [local[p][k] EXCEPT !.writer = FALSE]]
    PROVE  LocksInv'
<1>1. \A q \in Procs, j \in Keys :
         local'[q][j] = IF q = p /\ j = k THEN [local[p][k] EXCEPT !.writer = FALSE] ELSE local[q][j]
    BY DEF TypeOK
<1>2. \A d \in Calls, j \in Keys : via'[d][j] = IF d = c /\ j = k THEN "none" ELSE via[d][j]
    BY DEF TypeOK
<1>3. LockWriters(p, k) = {c}
    BY DEF LocksInv, WriterAlone, LockWriters
<1>4. local[p][k] \in [readers : Nat, writer : BOOLEAN]
    BY DEF TypeOK
<1>5. LockReaders(p, k)' = LockReaders(p, k)
    BY <1>2 DEF LockReaders, Wants, Writes
<1>6. LockWriters(p, k)' = {}
    <2>1. LockWriters(p, k)' = LockWriters(p, k) \ {c}
        BY <1>2 DEF LockWriters, Wants, Writes
    <2> QED
        BY <1>3, <2>1
<1>7. \A q \in Procs, j \in Keys : ~(q = p /\ j = k) =>
         LockReaders(q, j)' = LockReaders(q, j) /\ LockWriters(q, j)' = LockWriters(q, j)
    BY <1>2 DEF LockReaders, LockWriters, Wants, Writes
<1>8. ReadersCounted'
    BY <1>1, <1>4, <1>5, <1>7 DEF LocksInv, ReadersCounted
<1>9. WriterAlone'
    BY <1>1, <1>6, <1>7 DEF LocksInv, WriterAlone
<1>10. LocksAccounted'
    BY <1>1, <1>4, <1>5, <1>7 DEF LocksInv, LocksAccounted
<1> QED
    BY <1>8, <1>9, <1>10 DEF LocksInv

\* A reader is among those its lock counts.
LEMMA ReaderIsCounted ==
    ASSUME TypeOK, LocksInv, NEW p \in Procs, NEW k \in Keys, NEW c \in Calls,
           ProcOf[c] = p, k \in Wants(c), ~Writes(c, k), via[c][k] = "local"
    PROVE  local[p][k].readers \in Nat \ {0}
<1>1. c \in LockReaders(p, k)
    BY DEF LockReaders
<1>2. Cardinality(LockReaders(p, k)) \in Nat /\ Cardinality(LockReaders(p, k)) # 0
    BY <1>1, HoldersFinite, FS_EmptySet
<1>3. Cardinality(LockReaders(p, k)) <= local[p][k].readers /\ local[p][k].readers \in Nat
    BY DEF LocksInv, ReadersCounted, TypeOK
<1> QED
    BY <1>2, <1>3

\* A reader of a key gives its lock back.
LEMMA ReaderLeaves ==
    ASSUME TypeOK, LocksInv, NEW p \in Procs, NEW k \in Keys, NEW c \in Calls,
           ProcOf[c] = p, k \in Wants(c), ~Writes(c, k), faults' = faults,
           via[c][k] = "local", via' = [via EXCEPT ![c][k] = "none"],
           NEW n \in Nat, n = local[p][k].readers - 1,
           local' = [local EXCEPT ![p][k] = [local[p][k] EXCEPT !.readers = n]]
    PROVE  LocksInv'
<1>1. local[p][k] \in [readers : Nat, writer : BOOLEAN]
    BY DEF TypeOK
<1>2. \A d \in Calls, j \in Keys : via'[d][j] = IF d = c /\ j = k THEN "none" ELSE via[d][j]
    BY DEF TypeOK
<1>3. c \in LockReaders(p, k)
    BY DEF LockReaders
<1>4. LockWriters(p, k) = {} /\ LockWriters(p, k)' = {}
    <2>1. LockWriters(p, k)' = LockWriters(p, k)
        BY <1>2 DEF LockWriters, Wants, Writes
    <2> QED
        BY <1>3, <2>1 DEF LocksInv, WriterAlone
<1>5. LockReaders(p, k)' = LockReaders(p, k) \ {c}
    BY <1>2 DEF LockReaders, Wants, Writes
<1>6. \A q \in Procs, j \in Keys : ~(q = p /\ j = k) =>
         LockReaders(q, j)' = LockReaders(q, j) /\ LockWriters(q, j)' = LockWriters(q, j)
    BY <1>2 DEF LockReaders, LockWriters, Wants, Writes
<1>7. /\ Cardinality(LockReaders(p, k)') = Cardinality(LockReaders(p, k)) - 1
      /\ Cardinality(LockReaders(p, k)) \in Nat
      /\ Cardinality(LockReaders(p, k)') \in Nat
    <2>1. Cardinality(LockReaders(p, k) \ {c}) = Cardinality(LockReaders(p, k)) - 1
        BY <1>3, HoldersFinite, FS_RemoveElement
    <2>2. Cardinality(LockReaders(p, k)') = Cardinality(LockReaders(p, k)) - 1
        BY <1>5, <2>1
    <2> QED
        BY <2>2, HoldersFinite
<1>8. \A q \in Procs, j \in Keys :
         local'[q][j] = IF q = p /\ j = k THEN [local[p][k] EXCEPT !.readers = n] ELSE local[q][j]
    BY DEF TypeOK
<1>9. local'[p][k].readers = n /\ local'[p][k].writer = local[p][k].writer
    BY <1>1, <1>8
<1>10. ReadersCounted'
    BY <1>1, <1>6, <1>7, <1>8, <1>9 DEF LocksInv, ReadersCounted
<1>11. WriterAlone'
    BY <1>4, <1>6, <1>8 DEF LocksInv, WriterAlone
<1>12. LocksAccounted'
    BY <1>1, <1>4, <1>6, <1>7, <1>8, <1>9 DEF LocksInv, LocksAccounted
<1> QED
    BY <1>10, <1>11, <1>12 DEF LocksInv

LEMMA FaultCounts ==
    ASSUME TypeOK, Fault
    PROVE  faults' # 0
    BY DEF TypeOK, Fault

LEMMA LocksStep ==
    ASSUME TypeOK, Places, LocksInv, Next
    PROVE  LocksInv'
<1>1. ASSUME UNCHANGED <<local, via>>, UNCHANGED faults \/ Fault
      PROVE  LocksInv'
    BY <1>1, FaultCounts, LocksKept
<1>2. ASSUME NEW c \in Calls,
             \/ Start(c) \/ AcquireWithoutRedis(c) \/ AcquireFails(c) \/ CancelWaiting(c)
             \/ Renew(c) \/ RenewFails(c) \/ Finish(c) \/ Released(c)
      PROVE  LocksInv'
    BY <1>1, <1>2
    DEF Start, AcquireWithoutRedis, AcquireFails, CancelWaiting, Renew, RenewFails, Finish, Released
<1>3. ASSUME NEW c \in Calls, AcquireLease(c)
      PROVE  LocksInv'
    <2>1. CASE Take(c, NextKey(c), "redis")
        <3>1. NextKey(c) \in Keys /\ NextKey(c) \in Wants(c) \ Acquired(c)
            BY <1>3, KeyWaitedFor DEF AcquireLease
        <3>2. via' = [via EXCEPT ![c][NextKey(c)] = "redis"] /\ via[c][NextKey(c)] = "none"
            BY <2>1, <3>1 DEF Take, Acquired
        <3>3. \A d \in Calls : \A k \in Wants(d) : via'[d][k] = "local" <=> via[d][k] = "local"
            BY <3>1, <3>2, ClaimsAreKeys DEF TypeOK
        <3>4. UNCHANGED <<local, faults>>
            BY <1>3 DEF AcquireLease
        <3> QED
            BY <3>3, <3>4, LocksKept
    <2>2. CASE UNCHANGED <<expiry, pc, via, timer>>
        BY <1>1, <1>3, <2>2 DEF AcquireLease
    <2> QED
        BY <1>3, <2>1, <2>2 DEF AcquireLease
<1>4. ASSUME NEW c \in Calls, AcquireLocal(c)
      PROVE  LocksInv'
    <2> DEFINE k == NextKey(c)
               p == ProcOf[c]
    <2>1. k \in Keys /\ k \in Wants(c) /\ via[c][k] = "none" /\ p \in Procs
        BY <1>4, KeyWaitedFor, ClaimsAreKeys DEF AcquireLocal, Acquired
    <2>2. /\ faults' = faults /\ via' = [via EXCEPT ![c][k] = "local"]
          /\ ~local[p][k].writer /\ (Writes(c, k) => local[p][k].readers = 0)
          /\ local' = [local EXCEPT ![p][k] =
                          IF Writes(c, k) THEN [local[p][k] EXCEPT !.writer = TRUE]
                                          ELSE [local[p][k] EXCEPT !.readers = @ + 1]]
        BY <1>4 DEF AcquireLocal, Available, Take
    <2> HIDE DEF k
    <2>3. CASE Writes(c, k)
        <3>1. local' = [local EXCEPT ![p][k] = [local[p][k] EXCEPT !.writer = TRUE]]
            BY <2>2, <2>3
        <3> QED
            BY <2>1, <2>2, <2>3, <3>1, WriterEnters
    <2>4. CASE ~Writes(c, k)
        <3>1. local' = [local EXCEPT ![p][k] = [local[p][k] EXCEPT !.readers = @ + 1]]
            BY <2>2, <2>4
        <3> QED
            BY <2>1, <2>2, <2>4, <3>1, ReaderEnters
    <2> QED
        BY <2>3, <2>4
<1>5. ASSUME NEW c \in Calls, ReleaseOne(c)
      PROVE  LocksInv'
    <2> DEFINE k == Max(Acquired(c))
               p == ProcOf[c]
    <2>1. k \in Keys /\ k \in Wants(c) /\ via[c][k] \in {"redis", "local"} /\ p \in Procs
        <3>1. k \in Keys /\ k \in Acquired(c) /\ k \in Wants(c)
            BY <1>5, KeyReleased DEF ReleaseOne
        <3>2. via[c][k] # "none"
            BY <3>1 DEF Acquired
        <3> QED
            BY <3>1, <3>2, ClaimsAreKeys DEF TypeOK
    <2>2. /\ faults' = faults /\ via' = [via EXCEPT ![c][k] = "none"]
          /\ IF via[c][k] = "redis" THEN UNCHANGED local
             ELSE local' = [local EXCEPT ![p][k] = Unlocked(local[p][k], c, k)]
        BY <1>5 DEF ReleaseOne
    <2> HIDE DEF k
    <2>3. CASE via[c][k] = "redis"
        <3>1. \A d \in Calls : \A j \in Wants(d) : via'[d][j] = "local" <=> via[d][j] = "local"
            BY <2>1, <2>2, <2>3, ClaimsAreKeys DEF TypeOK
        <3> QED
            BY <2>2, <2>3, <3>1, LocksKept
    <2>4. CASE via[c][k] = "local" /\ Writes(c, k)
        <3>1. local' = [local EXCEPT ![p][k] = [local[p][k] EXCEPT !.writer = FALSE]]
            BY <2>2, <2>4 DEF Unlocked
        <3> QED
            BY <2>1, <2>2, <2>4, <3>1, WriterLeaves
    <2>5. CASE via[c][k] = "local" /\ ~Writes(c, k)
        <3>1. PICK n \in Nat : n = local[p][k].readers - 1
            BY <2>1, <2>5, ReaderIsCounted
        <3>2. Max({0, local[p][k].readers - 1}) = n
            <4>1. Max({0, n}) = n
                BY LargerOfTwo
            <4> QED
                BY <3>1, <4>1
        <3>3. Unlocked(local[p][k], c, k) = [local[p][k] EXCEPT !.readers = n]
            BY <2>5, <3>2 DEF Unlocked
        <3>4. local' = [local EXCEPT ![p][k] = [local[p][k] EXCEPT !.readers = n]]
            BY <2>2, <2>5, <3>3
        <3> QED
            BY <2>1, <2>2, <2>5, <3>1, <3>4, ReaderLeaves
    <2> QED
        BY <2>1, <2>3, <2>4, <2>5
<1>6. ASSUME Fault,
             \A p \in Procs, k \in Keys :
                \/ /\ local'[p][k] = local[p][k]
                   /\ LockReaders(p, k)' \subseteq LockReaders(p, k)
                   /\ LockWriters(p, k)' \subseteq LockWriters(p, k)
                \/ /\ local'[p][k].readers \in Nat
                   /\ LockReaders(p, k)' = {} /\ LockWriters(p, k)' = {}
      PROVE  LocksInv'
    <2>1. ReadersCounted'
        <3> SUFFICES ASSUME NEW p \in Procs, NEW k \in Keys
                     PROVE  Cardinality(LockReaders(p, k)') <= local'[p][k].readers
            BY DEF ReadersCounted
        <3>1. CASE local'[p][k] = local[p][k] /\ LockReaders(p, k)' \subseteq LockReaders(p, k)
            <4>1. Cardinality(LockReaders(p, k)') <= Cardinality(LockReaders(p, k))
                BY <3>1, HoldersFinite, FS_Subset
            <4>2. Cardinality(LockReaders(p, k)) <= local[p][k].readers
                BY DEF LocksInv, ReadersCounted
            <4>3. local[p][k].readers \in Nat
                BY DEF TypeOK
            <4> QED
                BY <3>1, <4>1, <4>2, <4>3, HoldersFinite
        <3>2. CASE local'[p][k].readers \in Nat /\ LockReaders(p, k)' = {}
            BY <3>2, FS_EmptySet
        <3> QED
            BY <1>6, <3>1, <3>2
    <2>2. WriterAlone'
        BY <1>6 DEF LocksInv, WriterAlone
    <2>3. LocksAccounted'
        BY <1>6, FaultCounts DEF LocksAccounted
    <2> QED
        BY <2>1, <2>2, <2>3 DEF LocksInv
<1>7. ASSUME NEW c \in Calls, ReleaseFails(c)
      PROVE  LocksInv'
    <2>1. via' = [via EXCEPT ![c] = [k \in Keys |-> "none"]] /\ UNCHANGED local /\ Fault
        BY <1>7 DEF ReleaseFails, End
    <2>2. \A d \in Calls, k \in Keys : via'[d][k] = "local" => via[d][k] = "local"
        BY <2>1 DEF TypeOK
    <2>3. \A p \in Procs, k \in Keys : /\ LockReaders(p, k)' \subseteq LockReaders(p, k)
                                       /\ LockWriters(p, k)' \subseteq LockWriters(p, k)
        BY <2>2 DEF LockReaders, LockWriters, Wants, Writes
    <2> QED
        BY <1>6, <2>1, <2>3
<1>8. ASSUME NEW q \in Procs, Crash(q)
      PROVE  LocksInv'
    <2> DEFINE dead == {c \in Calls : ProcOf[c] = q /\ pc[c] # "start"}
    <2>1. /\ Fault /\ local' = [local EXCEPT ![q] = [k \in Keys |-> Free]]
          /\ via' = [c \in Calls |-> IF c \in dead THEN [k \in Keys |-> "none"] ELSE via[c]]
        BY <1>8 DEF Crash
    <2>2. \A d \in Calls, k \in Keys : via'[d][k] = "local" => via[d][k] = "local" /\ d \notin dead
        BY <2>1
    <2>3. \A d \in Calls : \A k \in Wants(d) : ProcOf[d] = q => via'[d][k] # "local"
        BY <2>2, ClaimsAreKeys DEF Places, Acquired
    <2> HIDE DEF dead
    <2> SUFFICES ASSUME NEW p \in Procs, NEW k \in Keys
                 PROVE  \/ /\ local'[p][k] = local[p][k]
                           /\ LockReaders(p, k)' \subseteq LockReaders(p, k)
                           /\ LockWriters(p, k)' \subseteq LockWriters(p, k)
                        \/ /\ local'[p][k].readers \in Nat
                           /\ LockReaders(p, k)' = {} /\ LockWriters(p, k)' = {}
        BY <1>6, <2>1
    <2>4. CASE p = q
        <3>1. local'[p][k].readers \in Nat
            BY <2>1, <2>4 DEF Free, TypeOK
        <3>2. LockReaders(p, k)' = {} /\ LockWriters(p, k)' = {}
            BY <2>3, <2>4 DEF LockReaders, LockWriters, Wants
        <3> QED
            BY <3>1, <3>2
    <2>5. CASE p # q
        <3>1. local'[p][k] = local[p][k]
            BY <2>1, <2>5 DEF TypeOK
        <3>2. /\ LockReaders(p, k)' \subseteq LockReaders(p, k)
              /\ LockWriters(p, k)' \subseteq LockWriters(p, k)
            BY <2>2 DEF LockReaders, LockWriters, Wants, Writes
        <3> QED
            BY <3>1, <3>2
    <2> QED
        BY <2>4, <2>5
<1>9. ASSUME Tick
      PROVE  LocksInv'
    BY <1>1, <1>9 DEF Tick
<1> QED
    BY <1>2, <1>3, <1>4, <1>5, <1>7, <1>8, <1>9 DEF Next, Progress

(* ------------------------- what is left in Redis ----------------------- *)

LEMMA FieldsStep ==
    ASSUME TypeOK, Places, FieldsAccounted, Next
    PROVE  FieldsAccounted'
<1> DEFINE Field(k, d) == hash[k][d] # Absent
           Held(k, d) == k \in Leased(d)
<1>1. ASSUME Fault
      PROVE  FieldsAccounted'
    BY <1>1, FaultCounts DEF FieldsAccounted
<1>2. ASSUME UNCHANGED faults,
             \A k \in Keys, d \in Calls : Field(k, d)' => Field(k, d) \/ Held(k, d)',
             \A k \in Keys, d \in Calls : Field(k, d)' /\ Held(k, d) => Held(k, d)'
      PROVE  FieldsAccounted'
    BY <1>2 DEF FieldsAccounted
<1>3. ASSUME UNCHANGED via
      PROVE  \A k \in Keys, d \in Calls : Held(k, d)' = Held(k, d)
    BY <1>3 DEF Leased, Wants
<1>4. ASSUME UNCHANGED <<hash, via, faults>>
      PROVE  FieldsAccounted'
    BY <1>2, <1>3, <1>4
<1>5. ASSUME NEW c \in Calls,
             Start(c) \/ AcquireWithoutRedis(c) \/ CancelWaiting(c) \/ Finish(c) \/ Released(c)
      PROVE  FieldsAccounted'
    BY <1>1, <1>4, <1>5 DEF Start, AcquireWithoutRedis, CancelWaiting, Finish, Released
<1>6. ASSUME NEW c \in Calls, AcquireFails(c) \/ RenewFails(c) \/ ReleaseFails(c)
      PROVE  FieldsAccounted'
    BY <1>1, <1>6 DEF AcquireFails, RenewFails, ReleaseFails
<1>7. ASSUME NEW c \in Calls, NEW k \in Keys, k \in Wants(c), NEW how \in {"redis", "local"},
             via[c][k] = "none", via' = [via EXCEPT ![c][k] = how]
      PROVE  /\ \A j \in Keys, d \in Calls : Held(j, d) => Held(j, d)'
             /\ how = "redis" => Held(k, c)'
    BY <1>7 DEF Leased, Wants, TypeOK
<1>8. ASSUME NEW c \in Calls, AcquireLease(c)
      PROVE  FieldsAccounted'
    <2> DEFINE k == NextKey(c)
    <2>1. k \in Keys /\ k \in Wants(c) /\ via[c][k] = "none" /\ UNCHANGED faults
        BY <1>8, KeyWaitedFor DEF AcquireLease, Acquired
    <2>2. CASE LeaseGranted(c, k) /\ Take(c, k, "redis")
        <3>1. /\ hash' = [hash EXCEPT ![k] = [Swept(hash[k]) EXCEPT ![c] = TtlOf[c]]]
              /\ via' = [via EXCEPT ![c][k] = "redis"]
            BY <2>2 DEF LeaseGranted, Take
        <3> HIDE DEF k
        <3>2. \A j \in Keys, d \in Calls : Field(j, d)' => Field(j, d) \/ (j = k /\ d = c)
            BY <2>1, <3>1 DEF Swept, TypeOK
        <3> QED
            BY <1>2, <1>7, <2>1, <3>1, <3>2
    <2>3. CASE hash' = [hash EXCEPT ![k] = Swept(hash[k])] /\ UNCHANGED <<expiry, pc, via, timer>>
        <3> HIDE DEF k
        <3>1. \A j \in Keys, d \in Calls : Field(j, d)' => Field(j, d)
            BY <2>1, <2>3 DEF Swept, TypeOK
        <3> QED
            BY <1>2, <1>3, <2>1, <2>3, <3>1
    <2> QED
        BY <1>8, <2>2, <2>3 DEF AcquireLease
<1>9. ASSUME NEW c \in Calls, AcquireLocal(c)
      PROVE  FieldsAccounted'
    <2> DEFINE k == NextKey(c)
    <2>1. k \in Keys /\ k \in Wants(c) /\ via[c][k] = "none"
        BY <1>9, KeyWaitedFor DEF AcquireLocal, Acquired
    <2>2. via' = [via EXCEPT ![c][k] = "local"] /\ UNCHANGED <<hash, faults>>
        BY <1>9 DEF AcquireLocal, Take
    <2> QED
        BY <1>2, <1>7, <2>1, <2>2
<1>10. ASSUME NEW c \in Calls, Renew(c)
       PROVE  FieldsAccounted'
    <2>1. UNCHANGED <<via, faults>>
        BY <1>10 DEF Renew
    <2>2. \A k \in Keys, d \in Calls : Field(k, d)' => Field(k, d)
        BY <1>10 DEF Renew, WithLease, Renews, TypeOK
    <2> QED
        BY <1>2, <1>3, <2>1, <2>2
<1>11. ASSUME NEW c \in Calls, ReleaseOne(c)
       PROVE  FieldsAccounted'
    <2> DEFINE k == Max(Acquired(c))
    <2>1. k \in Keys /\ k \in Wants(c)
        BY <1>11, KeyReleased DEF ReleaseOne
    <2>2. /\ via' = [via EXCEPT ![c][k] = "none"] /\ UNCHANGED faults
          /\ IF via[c][k] = "redis" THEN hash' = [hash EXCEPT ![k][c] = Absent] ELSE UNCHANGED hash
        BY <1>11 DEF ReleaseOne
    <2> HIDE DEF k
    <2>3. \A j \in Keys, d \in Calls : Field(j, d)' => Field(j, d)
        BY <2>1, <2>2 DEF TypeOK
    <2>4. \A j \in Keys, d \in Calls : Field(j, d)' /\ Held(j, d) => Held(j, d)'
        BY <2>1, <2>2 DEF Leased, Wants, TypeOK
    <2> QED
        BY <1>2, <2>2, <2>3, <2>4
<1>12. ASSUME NEW p \in Procs, Crash(p)
       PROVE  FieldsAccounted'
    BY <1>1, <1>12 DEF Crash
<1>13. ASSUME Tick
       PROVE  FieldsAccounted'
    <2>1. \A k \in Keys, d \in Calls : Field(k, d)' => Field(k, d)
        BY <1>13 DEF Tick, Less, Absent
    <2> QED
        BY <1>2, <1>3, <1>13, <2>1 DEF Tick
<1> QED
    BY <1>5, <1>6, <1>8, <1>9, <1>10, <1>11, <1>12, <1>13 DEF Next, Progress

(* ------------------------------ theorems ------------------------------- *)

LEMMA InvInit == Init => IInv
<1> SUFFICES ASSUME Init
             PROVE  IInv
    OBVIOUS
<1>1. TypeOK
    BY DEF Init, TypeOK, Free, Absent
<1>2. \A c \in Calls : Acquired(c) = {} /\ pc[c] = "start"
    BY ClaimsAreKeys DEF Init, Acquired
<1>3. \A p \in Procs, k \in Keys : LockReaders(p, k) = {} /\ LockWriters(p, k) = {}
    BY DEF Init, LockReaders, LockWriters
<1>4. \A p \in Procs, k \in Keys : local[p][k].readers = 0 /\ local[p][k].writer = FALSE
    BY DEF Init, Free
<1>5. ReadersCounted /\ WriterAlone /\ LocksAccounted
    <2>1. \A p \in Procs, k \in Keys : Cardinality(LockReaders(p, k)) = 0
        BY <1>3, FS_EmptySet
    <2> QED
        BY <1>3, <1>4, <2>1 DEF ReadersCounted, WriterAlone, LocksAccounted
<1>6. FieldsAccounted
    BY DEF Init, FieldsAccounted
<1> QED
    BY <1>1, <1>2, <1>5, <1>6 DEF IInv, Places

LEMMA InvStep == IInv /\ [Next]_vars => IInv'
<1> SUFFICES ASSUME IInv, [Next]_vars
             PROVE  IInv'
    OBVIOUS
<1>1. CASE Next
    <2>1. TypeOK /\ Places /\ LocksInv /\ FieldsAccounted
        BY DEF IInv, LocksInv
    <2>2. TypeOK' /\ Places' /\ LocksInv' /\ FieldsAccounted'
        BY <1>1, <2>1, TypeStep, PlacesStep, LocksStep, FieldsStep
    <2> QED
        BY <2>2 DEF IInv, LocksInv
<1>2. CASE UNCHANGED vars
    <2>1. UNCHANGED <<hash, expiry, local, pc, via, timer, faults>>
        BY <1>2 DEF vars
    <2>2. TypeOK'
        BY <2>1 DEF IInv, TypeOK
    <2>3. \A c \in Calls : Acquired(c)' = Acquired(c) /\ Leased(c)' = Leased(c) /\ Wants(c)' = Wants(c)
        BY <2>1 DEF Acquired, Leased, Wants
    <2>4. Places' /\ FieldsAccounted'
        BY <2>1, <2>3 DEF IInv, Places, FieldsAccounted
    <2>5. LocksInv'
        BY <2>1, LocksKept DEF IInv, LocksInv
    <2> QED
        BY <2>2, <2>4, <2>5 DEF IInv, LocksInv
<1> QED
    BY <1>1, <1>2

THEOREM InvAlways == Spec => []IInv
    BY InvInit, InvStep, PTL DEF Spec

\* The variables keep their types.
THEOREM TypeSafe == Spec => []TypeOK
<1>1. IInv => TypeOK
    BY DEF IInv
<1> QED
    BY <1>1, InvAlways, PTL

\* Claims that fell back to the locks of one process exclude each other,
\* whatever is lost, cancelled or crashes.
THEOREM LocalLocksExclude == Spec => []LocksExclude
<1>1. IInv => LocksExclude
    <2> SUFFICES ASSUME IInv, NEW c \in Calls, NEW d \in Calls, NEW k \in Wants(c) \cap Wants(d),
                        ProcOf[c] = ProcOf[d], via[c][k] = "local", via[d][k] = "local",
                        Conflict(c, d, k)
                 PROVE  FALSE
        BY DEF LocksExclude
    <2> DEFINE p == ProcOf[c]
    <2>1. p \in Procs /\ k \in Keys
        BY ClaimsAreKeys
    <2>2. c \in LockReaders(p, k) \cup LockWriters(p, k) /\ d \in LockReaders(p, k) \cup LockWriters(p, k)
        BY DEF LockReaders, LockWriters
    <2>3. c \in LockWriters(p, k) \/ d \in LockWriters(p, k)
        BY DEF LockWriters, Conflict
    <2> QED
        BY <2>1, <2>2, <2>3 DEF IInv, WriterAlone, Conflict
<1> QED
    BY <1>1, InvAlways, PTL

\* When every call is over and nothing failed, no lock and no lease is left.
THEOREM NothingIsLeft == Spec => []NothingLeaks
<1>1. IInv => NothingLeaks
    <2> SUFFICES ASSUME IInv, faults = 0, \A c \in Calls : pc[c] = "done"
                 PROVE  /\ \A k \in Keys : Fields(hash[k]) = {}
                        /\ \A p \in Procs, k \in Keys : local[p][k] = Free
        BY DEF NothingLeaks
    <2>1. \A c \in Calls : Acquired(c) = {}
        BY DEF IInv, Places
    <2>2. \A k \in Keys : Fields(hash[k]) = {}
        BY <2>1 DEF IInv, FieldsAccounted, Fields, Leased, Acquired
    <2>3. \A p \in Procs, k \in Keys : LockReaders(p, k) = {} /\ LockWriters(p, k) = {}
        BY <2>1 DEF LockReaders, LockWriters, Acquired
    <2>4. \A p \in Procs, k \in Keys : local[p][k] \in [readers : Nat, writer : BOOLEAN]
        BY DEF IInv, TypeOK
    <2>5. \A p \in Procs, k \in Keys : local[p][k].readers = 0 /\ local[p][k].writer = FALSE
        BY <2>3, <2>4, FS_EmptySet DEF IInv, LocksAccounted
    <2>6. \A p \in Procs, k \in Keys : local[p][k] = Free
        BY <2>4, <2>5 DEF Free
    <2> QED
        BY <2>2, <2>6
<1> QED
    BY <1>1, InvAlways, PTL

(* -------------------------------- leases ------------------------------- *)

OneKeyEach == \A c \in Calls : \A j, k \in Wants(c) : j = k
LeasesOutlastRenewals == \A c \in Calls : TtlOf[c] > Cap

\* The body of a call runs under a lease.
Bears(c, k) == pc[c] = "body" /\ via[c][k] = "redis"

\* A lease in use lives longer than its renewal is away, and so does its hash.
LeaseInv ==
    \A c \in Calls :
        /\ timer[c] <= Cap
        /\ \A k \in Wants(c) : Bears(c, k) => hash[k][c] > timer[c] /\ expiry[k] > timer[c]

\* What a step of another call may do to a call: end its lease, or prolong it.
Calm(c) ==
    /\ timer'[c] <= Cap
    /\ \A k \in Wants(c) : Bears(c, k)' =>
          /\ Bears(c, k) /\ timer'[c] = timer[c]
          /\ hash'[k][c] = hash[k][c] \/ hash'[k][c] > Cap
          /\ expiry'[k] = expiry[k] \/ expiry'[k] > Cap

LEMMA CalmKeeps ==
    ASSUME TypeOK, TypeOK', LeaseInv, NEW c \in Calls, Calm(c)
    PROVE  /\ timer'[c] <= Cap
           /\ \A k \in Wants(c) : Bears(c, k)' => hash'[k][c] > timer'[c] /\ expiry'[k] > timer'[c]
<1> SUFFICES ASSUME NEW k \in Wants(c), Bears(c, k)'
             PROVE  hash'[k][c] > timer'[c] /\ expiry'[k] > timer'[c]
    BY DEF Calm
<1>1. k \in Keys
    BY ClaimsAreKeys
<1>2. /\ hash[k][c] \in Int /\ expiry[k] \in Int /\ timer[c] \in Int
      /\ hash'[k][c] \in Int /\ expiry'[k] \in Int /\ timer'[c] \in Int /\ Cap \in Int
    BY <1>1, SettingsAssumption DEF TypeOK
<1>3. timer[c] <= Cap /\ hash[k][c] > timer[c] /\ expiry[k] > timer[c]
    BY DEF Calm, LeaseInv
<1> QED
    BY <1>2, <1>3 DEF Calm

\* A step that gives nobody a lease in use.
LEMMA NobodyEnters ==
    ASSUME LeasesExclude, \A c \in Calls : \A k \in Wants(c) : Bears(c, k)' => Bears(c, k)
    PROVE  LeasesExclude'
    BY DEF LeasesExclude, Bears, Conflict, Wants, Writes

LEMMA AllCalm ==
    ASSUME TypeOK, TypeOK', LeaseInv, LeasesExclude, \A c \in Calls : Calm(c)
    PROVE  LeaseInv' /\ LeasesExclude'
<1>1. LeaseInv'
    BY CalmKeeps DEF LeaseInv, Wants
<1>2. LeasesExclude'
    BY NobodyEnters DEF Calm
<1> QED
    BY <1>1, <1>2

\* A script of another call leaves a living lease and sets a long expiry.
LEMMA GrantIsCalm ==
    ASSUME TypeOK, LeaseInv, LeasesOutlastRenewals, NEW c \in Calls, NEW k \in Keys,
           ScriptLost(c, k) \/ LeaseGranted(c, k),
           NEW d \in Calls, c # d, NEW j \in Wants(d), Bears(d, j)
    PROVE  hash'[j][d] = hash[j][d] /\ (expiry'[j] = expiry[j] \/ expiry'[j] > Cap)
<1>1. j \in Keys
    BY ClaimsAreKeys
<1>2. CASE UNCHANGED <<hash, expiry>>
    BY <1>2
<1>3. CASE LeaseGranted(c, k)
    <2>1. hash[j][d] > timer[d] /\ timer[d] \in Nat /\ hash[j][d] \in Int
        BY <1>1 DEF LeaseInv, TypeOK
    <2>2. Swept(hash[j])[d] = hash[j][d]
        BY <2>1 DEF Swept
    <2>3. hash'[j][d] = hash[j][d]
        BY <1>1, <1>3, <2>2 DEF LeaseGranted, TypeOK, Swept
    <2>4. expiry'[j] = expiry[j] \/ expiry'[j] = TtlOf[c]
        BY <1>1, <1>3 DEF LeaseGranted, TypeOK
    <2> QED
        BY <2>3, <2>4 DEF LeasesOutlastRenewals
<1> QED
    BY <1>2, <1>3 DEF ScriptLost

LEMMA LeaseStep ==
    ASSUME TypeOK, TypeOK', Places, OneKeyEach, LeasesOutlastRenewals,
           LeaseInv, LeasesExclude, Next
    PROVE  LeaseInv' /\ LeasesExclude'
<1>1. ASSUME NEW d \in Calls, timer'[d] <= timer[d] \/ timer'[d] <= Cap,
             pc'[d] # "body" \/ \A k \in Wants(d) : via'[d][k] # "redis"
      PROVE  Calm(d)
    BY <1>1, SettingsAssumption DEF Calm, Bears, LeaseInv, TypeOK
<1>2. ASSUME NEW d \in Calls, timer'[d] = timer[d],
             pc'[d] = "body" => pc[d] = "body" /\ via'[d] = via[d],
             \A k \in Wants(d) : Bears(d, k) =>
                hash'[k][d] = hash[k][d] /\ (expiry'[k] = expiry[k] \/ expiry'[k] > Cap)
      PROVE  Calm(d)
    BY <1>2 DEF Calm, Bears, LeaseInv
<1>3. ASSUME UNCHANGED <<hash, expiry, via>>, NEW c \in Calls, timer'[c] = timer[c] \/ timer'[c] = 0,
             (pc'[c] = pc[c] /\ timer'[c] = timer[c]) \/ pc'[c] # "body",
             \A d \in Calls \ {c} : pc'[d] = pc[d] /\ timer'[d] = timer[d]
      PROVE  LeaseInv' /\ LeasesExclude'
    <2>1. 0 <= Cap
        BY SettingsAssumption
    <2>2. Calm(c)
        <3>1. CASE pc'[c] # "body"
            BY <1>1, <1>3, <2>1, <3>1 DEF LeaseInv
        <3>2. CASE pc'[c] = pc[c] /\ timer'[c] = timer[c]
            BY <1>2, <1>3, <3>2
        <3> QED
            BY <1>3, <3>1, <3>2
    <2>3. \A d \in Calls \ {c} : Calm(d)
        BY <1>2, <1>3
    <2> QED
        BY <2>2, <2>3, AllCalm
<1>4. ASSUME NEW c \in Calls, Start(c) \/ AcquireWithoutRedis(c) \/ Finish(c) \/ Released(c)
      PROVE  LeaseInv' /\ LeasesExclude'
    <2>1. UNCHANGED <<hash, expiry, via>>
        BY <1>4 DEF Start, AcquireWithoutRedis, Finish, Released
    <2>2. pc'[c] # "body" /\ \A d \in Calls \ {c} : pc'[d] = pc[d]
        BY <1>4 DEF Start, AcquireWithoutRedis, Fallback, Finish, Leave, Released, Goto, TypeOK
    <2>3. (timer'[c] = timer[c] \/ timer'[c] = 0) /\ \A d \in Calls \ {c} : timer'[d] = timer[d]
        BY <1>4 DEF Start, AcquireWithoutRedis, Finish, Leave, Released, TypeOK
    <2> QED
        BY <1>3, <2>1, <2>2, <2>3
<1>5. ASSUME NEW c \in Calls, NEW k \in Keys, ScriptLost(c, k), UNCHANGED <<via, timer>>,
             pc'[c] # "body", \A d \in Calls \ {c} : pc'[d] = pc[d]
      PROVE  LeaseInv' /\ LeasesExclude'
    <2>1. Calm(c)
        BY <1>1, <1>5 DEF LeaseInv
    <2>2. \A d \in Calls \ {c} : Calm(d)
        BY <1>2, <1>5, GrantIsCalm
    <2> QED
        BY <2>1, <2>2, AllCalm
<1>6. ASSUME NEW c \in Calls, AcquireFails(c) \/ CancelWaiting(c)
      PROVE  LeaseInv' /\ LeasesExclude'
    <2>1. NextKey(c) \in Keys
        BY <1>6, KeyWaitedFor DEF AcquireFails, CancelWaiting
    <2>2. ScriptLost(c, NextKey(c)) /\ UNCHANGED <<via, timer>>
        BY <1>6 DEF AcquireFails, CancelWaiting, ScriptLost
    <2>3. pc'[c] # "body" /\ \A d \in Calls \ {c} : pc'[d] = pc[d]
        BY <1>6 DEF AcquireFails, CancelWaiting, Fallback, Goto, TypeOK
    <2> QED
        BY <1>5, <2>1, <2>2, <2>3
<1>7. ASSUME NEW c \in Calls, NEW k \in Keys, k \in Wants(c), NEW how \in {"redis", "local"},
             Acquired(c) # Wants(c), Take(c, k, how)
      PROVE  /\ \A j \in Wants(c) : j = k
             /\ via'[c][k] = how
             /\ timer'[c] = IF how = "redis" THEN RenewInterval(TtlOf[c]) ELSE 0
             /\ \A d \in Calls \ {c} : pc'[d] = pc[d] /\ via'[d] = via[d] /\ timer'[d] = timer[d]
    <2>1. \A j \in Wants(c) : j = k
        BY <1>7 DEF OneKeyEach
    <2>2. Acquired(c) = {} /\ Acquired(c) \cup {k} = Wants(c)
        BY <1>7, <2>1 DEF Acquired
    <2>3. Leased(c) = {}
        BY <2>2 DEF Acquired, Leased
    <2>4. via'[c][k] = how /\ \A d \in Calls \ {c} : via'[d] = via[d]
        BY <1>7 DEF Take, TypeOK
    <2>5. /\ timer' = [timer EXCEPT ![c] = IF how = "redis" THEN RenewInterval(TtlOf[c]) ELSE 0]
          /\ pc' = [pc EXCEPT ![c] = "body"]
        BY <1>7, <2>2, <2>3 DEF Take, Goto
    <2> QED
        BY <2>1, <2>4, <2>5 DEF TypeOK
<1>8. ASSUME NEW c \in Calls, AcquireLease(c)
      PROVE  LeaseInv' /\ LeasesExclude'
    <2> DEFINE k == NextKey(c)
    <2>1. k \in Keys /\ k \in Wants(c) /\ Acquired(c) # Wants(c) /\ pc[c] = "acquire"
        BY <1>8, KeyWaitedFor DEF AcquireLease
    <2>2. CASE LeaseGranted(c, k) /\ Take(c, k, "redis")
        <3> HIDE DEF k
        <3>1. /\ \A j \in Wants(c) : j = k
              /\ via'[c][k] = "redis"
              /\ timer'[c] = RenewInterval(TtlOf[c])
              /\ \A d \in Calls \ {c} : pc'[d] = pc[d] /\ via'[d] = via[d] /\ timer'[d] = timer[d]
            BY <1>7, <2>1, <2>2
        <3>2. \A d \in Calls \ {c} : Calm(d)
            BY <1>2, <2>1, <2>2, <3>1, GrantIsCalm
        <3>3. hash'[k][c] = TtlOf[c] /\ expiry'[k] = TtlOf[c]
            BY <2>1, <2>2 DEF LeaseGranted, TypeOK, Swept
        <3>4. timer'[c] <= Cap /\ TtlOf[c] > timer'[c]
            BY <3>1, IntervalBounds, ClaimsAreKeys, SettingsAssumption DEF LeasesOutlastRenewals
        <3>5. LeaseInv'
            BY <3>1, <3>2, <3>3, <3>4, CalmKeeps DEF LeaseInv, Wants
        <3>6. \A d \in Calls \ {c} : k \in Wants(d) /\ Bears(d, k) => ~Conflict(c, d, k)
            <4> SUFFICES ASSUME NEW d \in Calls \ {c}, k \in Wants(d), Bears(d, k)
                         PROVE  ~Writes(c, k) /\ ~Writes(d, k)
                BY DEF Conflict
            <4>1. hash[k][d] > timer[d] /\ timer[d] \in Nat /\ hash[k][d] \in Int
                BY <2>1 DEF LeaseInv, TypeOK
            <4>2. d \in Fields(Swept(hash[k]))
                BY <4>1 DEF Fields, Swept, Absent
            <4> QED
                BY <2>2, <4>2 DEF LeaseGranted, Grants
        <3>7. LeasesExclude'
            <4> SUFFICES ASSUME NEW a \in Calls, NEW b \in Calls, NEW j \in Wants(a) \cap Wants(b),
                                Bears(a, j)', Bears(b, j)', Conflict(a, b, j)
                         PROVE  FALSE
                BY DEF LeasesExclude, Bears, Wants, Conflict, Writes
            <4>1. a # b /\ Conflict(b, a, j)
                BY DEF Conflict
            <4>2. CASE a = c
                BY <3>1, <3>2, <3>6, <4>1, <4>2 DEF Calm
            <4>3. CASE b = c
                BY <3>1, <3>2, <3>6, <4>1, <4>3 DEF Calm
            <4>4. CASE a # c /\ b # c
                BY <3>2, <4>4 DEF Calm, LeasesExclude, Bears
            <4> QED
                BY <4>2, <4>3, <4>4
        <3> QED
            BY <3>5, <3>7
    <2>3. CASE hash' = [hash EXCEPT ![k] = Swept(hash[k])] /\ UNCHANGED <<expiry, pc, via, timer>>
        <3> HIDE DEF k
        <3>1. ASSUME NEW d \in Calls, NEW j \in Wants(d), Bears(d, j)
              PROVE  hash'[j][d] = hash[j][d]
            <4>1. j \in Keys
                BY ClaimsAreKeys
            <4>2. hash[j][d] > timer[d] /\ timer[d] \in Nat /\ hash[j][d] \in Int
                BY <3>1, <4>1 DEF LeaseInv, TypeOK
            <4> QED
                BY <2>3, <4>1, <4>2 DEF Swept, TypeOK
        <3>2. \A d \in Calls : Calm(d)
            BY <1>2, <2>3, <3>1
        <3> QED
            BY <3>2, AllCalm
    <2> QED
        BY <1>8, <2>2, <2>3 DEF AcquireLease
<1>9. ASSUME NEW c \in Calls, AcquireLocal(c)
      PROVE  LeaseInv' /\ LeasesExclude'
    <2> DEFINE k == NextKey(c)
    <2>1. k \in Keys /\ k \in Wants(c) /\ Acquired(c) # Wants(c) /\ Take(c, k, "local")
        BY <1>9, KeyWaitedFor DEF AcquireLocal
    <2>2. UNCHANGED <<hash, expiry>>
        BY <1>9 DEF AcquireLocal
    <2> HIDE DEF k
    <2>3. /\ \A j \in Wants(c) : j = k
          /\ via'[c][k] = "local"
          /\ timer'[c] = 0
          /\ \A d \in Calls \ {c} : pc'[d] = pc[d] /\ via'[d] = via[d] /\ timer'[d] = timer[d]
        BY <1>7, <2>1
    <2>4. Calm(c)
        BY <1>1, <2>3, SettingsAssumption
    <2>5. \A d \in Calls \ {c} : Calm(d)
        BY <1>2, <2>2, <2>3
    <2> QED
        BY <2>4, <2>5, AllCalm
<1>10. ASSUME NEW c \in Calls, NEW S, WithLease(c, S), NEW d \in Calls \ {c}, NEW k \in Wants(d)
       PROVE  hash'[k][d] = hash[k][d] /\ (expiry'[k] = expiry[k] \/ expiry'[k] > Cap)
    <2>1. k \in Keys
        BY ClaimsAreKeys
    <2> QED
        BY <1>10, <2>1 DEF WithLease, TypeOK, LeasesOutlastRenewals
<1>11. ASSUME NEW c \in Calls, NEW S, WithLease(c, S), UNCHANGED via, Leave(c)
       PROVE  LeaseInv' /\ LeasesExclude'
    <2>1. pc'[c] # "body" /\ timer'[c] = 0 /\ \A d \in Calls \ {c} : pc'[d] = pc[d] /\ timer'[d] = timer[d]
        BY <1>11 DEF Leave, Goto, TypeOK
    <2>2. Calm(c)
        BY <1>1, <2>1, SettingsAssumption
    <2>3. \A d \in Calls \ {c} : Calm(d)
        BY <1>2, <1>10, <1>11, <2>1
    <2> QED
        BY <2>2, <2>3, AllCalm
<1>12. ASSUME NEW c \in Calls, Renew(c)
       PROVE  LeaseInv' /\ LeasesExclude'
    <2> DEFINE alive == {k \in Leased(c) : Renews(hash[k], c)}
    <2>1. UNCHANGED via /\ WithLease(c, alive)
        BY <1>12 DEF Renew
    <2>2. CASE Leave(c)
        BY <1>11, <2>1, <2>2
    <2>3. CASE alive = Leased(c) /\ timer' = [timer EXCEPT ![c] = RenewInterval(TtlOf[c])] /\ UNCHANGED pc
        <3>1. \A d \in Calls \ {c} : Calm(d)
            BY <1>2, <1>10, <2>1, <2>3 DEF TypeOK
        <3>2. timer'[c] = RenewInterval(TtlOf[c]) /\ timer'[c] <= Cap /\ TtlOf[c] > timer'[c]
            BY <2>3, IntervalBounds, ClaimsAreKeys, SettingsAssumption DEF LeasesOutlastRenewals, TypeOK
        <3>3. \A k \in Leased(c) : hash'[k][c] = TtlOf[c] /\ expiry'[k] = TtlOf[c]
            <4>1. Leased(c) \subseteq Keys
                BY ClaimsAreKeys DEF Leased
            <4> QED
                BY <2>1, <2>3, <4>1 DEF WithLease, TypeOK
        <3>4. \A k \in Wants(c) : Bears(c, k)' => k \in Leased(c) /\ Bears(c, k)
            BY <2>1, <2>3 DEF Bears, Leased
        <3>5. LeaseInv'
            BY <3>1, <3>2, <3>3, <3>4, CalmKeeps DEF LeaseInv, Wants
        <3>6. LeasesExclude'
            BY <3>1, <3>4, NobodyEnters DEF Calm
        <3> QED
            BY <3>5, <3>6
    <2> QED
        BY <1>12, <2>2, <2>3 DEF Renew
<1>13. ASSUME NEW c \in Calls, RenewFails(c)
       PROVE  LeaseInv' /\ LeasesExclude'
    <2>1. UNCHANGED via /\ Leave(c) /\ \E S : WithLease(c, S)
        BY <1>13 DEF RenewFails
    <2> QED
        BY <1>11, <2>1
<1>14. ASSUME NEW c \in Calls, ReleaseOne(c)
       PROVE  LeaseInv' /\ LeasesExclude'
    <2> DEFINE k == Max(Acquired(c))
    <2>1. k \in Keys /\ pc[c] = "release" /\ UNCHANGED <<pc, timer>>
        BY <1>14, KeyReleased DEF ReleaseOne
    <2>2. /\ via' = [via EXCEPT ![c][k] = "none"]
          /\ \/ UNCHANGED <<hash, expiry>>
             \/ /\ hash' = [hash EXCEPT ![k][c] = Absent]
                /\ expiry' = [expiry EXCEPT ![k] = IF Fields(hash'[k]) = {} THEN 0 ELSE @]
        BY <1>14 DEF ReleaseOne
    <2> HIDE DEF k
    <2>3. Calm(c)
        BY <1>1, <2>1 DEF LeaseInv
    <2>4. ASSUME NEW d \in Calls \ {c}, NEW j \in Wants(d), Bears(d, j)
          PROVE  hash'[j][d] = hash[j][d] /\ expiry'[j] = expiry[j]
        <3>1. j \in Keys
            BY ClaimsAreKeys
        <3>2. hash[j][d] > timer[d] /\ timer[d] \in Nat /\ hash[j][d] \in Int
            BY <2>4, <3>1 DEF LeaseInv, TypeOK
        <3>3. hash'[j][d] = hash[j][d]
            BY <2>1, <2>2, <3>1 DEF TypeOK
        <3>4. d \in Fields(hash'[j])
            BY <3>2, <3>3 DEF Fields, Absent
        <3> QED
            BY <2>1, <2>2, <3>1, <3>3, <3>4 DEF TypeOK
    <2>5. \A d \in Calls \ {c} : via'[d] = via[d]
        BY <2>2 DEF TypeOK
    <2>6. \A d \in Calls \ {c} : Calm(d)
        BY <1>2, <2>1, <2>4, <2>5
    <2> QED
        BY <2>3, <2>6, AllCalm
<1>15. ASSUME NEW c \in Calls, ReleaseFails(c)
       PROVE  LeaseInv' /\ LeasesExclude'
    <2>1. UNCHANGED <<hash, expiry, timer>> /\ pc'[c] # "body"
        BY <1>15 DEF ReleaseFails, End, Goto, TypeOK
    <2>2. \A d \in Calls \ {c} : pc'[d] = pc[d] /\ via'[d] = via[d]
        BY <1>15 DEF ReleaseFails, End, Goto, TypeOK
    <2>3. Calm(c)
        BY <1>1, <2>1 DEF LeaseInv
    <2>4. \A d \in Calls \ {c} : Calm(d)
        BY <1>2, <2>1, <2>2
    <2> QED
        BY <2>3, <2>4, AllCalm
<1>16. ASSUME NEW p \in Procs, Crash(p)
       PROVE  LeaseInv' /\ LeasesExclude'
    <2> DEFINE dead == {c \in Calls : ProcOf[c] = p /\ pc[c] # "start"}
    <2>1. /\ pc' = [c \in Calls |-> IF c \in dead THEN "done" ELSE pc[c]]
          /\ via' = [c \in Calls |-> IF c \in dead THEN [k \in Keys |-> "none"] ELSE via[c]]
          /\ timer' = [c \in Calls |-> IF c \in dead THEN 0 ELSE timer[c]]
          /\ UNCHANGED <<hash, expiry>>
        BY <1>16 DEF Crash
    <2> HIDE DEF dead
    <2>2. \A d \in Calls : Calm(d)
        <3> TAKE d \in Calls
        <3>1. CASE d \in dead
            BY <1>1, <2>1, <3>1, SettingsAssumption
        <3>2. CASE d \notin dead
            BY <1>2, <2>1, <3>2
        <3> QED
            BY <3>1, <3>2
    <2> QED
        BY <2>2, AllCalm
<1>17. ASSUME Tick
       PROVE  LeaseInv' /\ LeasesExclude'
    <2>1. UNCHANGED <<pc, via>>
        BY <1>17 DEF Tick
    <2>2. \A d \in Calls : timer'[d] <= Cap
        BY <1>17, SettingsAssumption DEF Tick, Less, LeaseInv, TypeOK
    <2>3. ASSUME NEW d \in Calls, NEW k \in Wants(d), Bears(d, k)
          PROVE  hash'[k][d] > timer'[d] /\ expiry'[k] > timer'[d]
        <3>1. k \in Keys
            BY ClaimsAreKeys
        <3>2. hash[k][d] > timer[d] /\ expiry[k] > timer[d]
            BY <2>3 DEF LeaseInv
        <3>3. timer[d] > 0
            BY <1>17, <2>3 DEF Tick, Bears, Leased
        <3>4. hash[k][d] \in Int /\ expiry[k] \in Nat /\ timer[d] \in Nat
            BY <3>1 DEF TypeOK
        <3>5. timer'[d] = timer[d] - 1 /\ expiry'[k] = expiry[k] - 1
            BY <1>17, <3>1, <3>2, <3>3, <3>4 DEF Tick, Less
        <3>6. hash'[k][d] = hash[k][d] - 1
            BY <1>17, <3>1, <3>2, <3>3, <3>4, <3>5 DEF Tick, Less
        <3> QED
            BY <3>2, <3>4, <3>5, <3>6
    <2>4. LeaseInv'
        BY <2>1, <2>2, <2>3 DEF LeaseInv, Bears, Wants
    <2>5. LeasesExclude'
        BY <2>1, NobodyEnters DEF Bears
    <2> QED
        BY <2>4, <2>5
<1> QED
    BY <1>4, <1>6, <1>8, <1>9, <1>12, <1>13, <1>14, <1>15, <1>16, <1>17 DEF Next, Progress

LEMMA LeaseInvAlways ==
    ASSUME OneKeyEach, LeasesOutlastRenewals
    PROVE  Spec => [](IInv /\ LeaseInv /\ LeasesExclude)
<1>1. Init => IInv /\ LeaseInv /\ LeasesExclude
    <2> SUFFICES ASSUME Init
                 PROVE  LeaseInv /\ LeasesExclude
        BY InvInit
    <2> QED
        BY SettingsAssumption DEF Init, LeaseInv, LeasesExclude, Bears
<1>2. IInv /\ LeaseInv /\ LeasesExclude /\ [Next]_vars => (IInv /\ LeaseInv /\ LeasesExclude)'
    <2> SUFFICES ASSUME IInv, LeaseInv, LeasesExclude, [Next]_vars
                 PROVE  LeaseInv' /\ LeasesExclude'
        BY InvStep
    <2>1. IInv'
        BY InvStep
    <2>2. CASE Next
        BY <2>1, <2>2, LeaseStep DEF IInv
    <2>3. CASE UNCHANGED vars
        BY <2>3 DEF vars, LeaseInv, LeasesExclude, Bears, Conflict, Wants, Writes
    <2> QED
        BY <2>2, <2>3
<1> QED
    BY <1>1, <1>2, PTL DEF Spec

\* When each call claims one key and every lease is longer than the longest
\* renewal interval, a body that writes under a lease never overlaps another
\* leased body on its key.
THEOREM LeasedBodiesExclude ==
    ASSUME OneKeyEach, LeasesOutlastRenewals
    PROVE  Spec => []LeasesExclude
    BY LeaseInvAlways, PTL

\* Under the same two conditions a running body has time left on its lease,
\* although the EXPIRE of another call applies to its field too.
THEOREM BodiesKeepLeases ==
    ASSUME OneKeyEach, LeasesOutlastRenewals
    PROVE  Spec => []BodyKeepsLease
<1>1. IInv /\ LeaseInv => BodyKeepsLease
    <2> SUFFICES ASSUME IInv, LeaseInv, NEW c \in Calls, pc[c] = "body", NEW k \in Leased(c)
                 PROVE  hash[k][c] > 0
        BY DEF BodyKeepsLease
    <2>1. k \in Wants(c) /\ Bears(c, k) /\ k \in Keys
        BY ClaimsAreKeys DEF Leased, Bears
    <2>2. hash[k][c] \in Int /\ timer[c] \in Nat
        BY <2>1 DEF IInv, TypeOK
    <2> QED
        BY <2>1, <2>2 DEF LeaseInv
<1> QED
    BY <1>1, LeaseInvAlways, PTL

===============================================================================
