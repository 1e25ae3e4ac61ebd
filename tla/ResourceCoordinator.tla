------------------------- MODULE ResourceCoordinator -------------------------
(***************************************************************************)
(* Read/write claims on shared resources (lumi_orch ResourceCoordinator):  *)
(* calls of claim() in several processes take leases in a Redis hash per   *)
(* key, or locks of their own process when Redis cannot be used, renew     *)
(* them while their body runs and release them in reverse order.           *)
(*                                                                         *)
(* Every Lua script is one atomic step.  Time is counted down in ticks: a  *)
(* hash field holds the ticks its lease still has, 0 for a lease that is   *)
(* over but whose field nobody removed.  A call of claim() has an owner    *)
(* id of its own, so calls and owners are the same thing here.             *)
(***************************************************************************)
EXTENDS Integers, FiniteSets, FiniteSetsExt

CONSTANTS
    Keys,           \* resource keys; their order is that of sorted(claims)
    Calls,          \* the calls of claim()
    Procs,          \* processes (event loops)
    ProcOf,         \* the process of each call
    ClaimsOf,       \* of each call: the mode it claims each of its keys in
    TtlOf,          \* of each call: the lease time in ticks
    Cap,            \* the 30 seconds cap on the renewal interval, in ticks
    HasRedis,       \* the processes have a Redis client
    FailClosed,     \* AGENT_WRITE_RESOURCE_FAIL_CLOSED
    MaxFaults       \* bound: lost or failed Redis calls, double cancels, crashes

VARIABLES
    hash,       \* hash[k][c]: ticks left on the lease of c on k, or Absent
    expiry,     \* ticks until EXPIRE removes the whole hash of a key
    local,      \* local[p][k]: the reader count and writer flag of process p
    pc,         \* where each call is
    via,        \* the acquired list: how each call holds each key
    timer,      \* ticks until the renew loop of a call wakes up
    faults      \* faults so far

vars == <<hash, expiry, local, pc, via, timer, faults>>

Mode == {"read", "write"}
Absent == -1

ASSUME KeysAssumption == Keys \subseteq Nat /\ IsFiniteSet(Keys)
ASSUME CallsAssumption ==
    /\ IsFiniteSet(Calls)
    /\ ProcOf \in [Calls -> Procs]
    /\ \A c \in Calls : /\ DOMAIN ClaimsOf[c] \in (SUBSET Keys) \ {{}}
                        /\ \A k \in DOMAIN ClaimsOf[c] : ClaimsOf[c][k] \in Mode
                        /\ TtlOf[c] \in Nat \ {0}
ASSUME SettingsAssumption ==
    Cap \in Nat \ {0} /\ HasRedis \in BOOLEAN /\ FailClosed \in BOOLEAN /\ MaxFaults \in Nat

Wants(c) == DOMAIN ClaimsOf[c]
Writes(c, k) == ClaimsOf[c][k] = "write"
RequiresFailClosed(c, k) == FailClosed /\ Writes(c, k)
Acquired(c) == {k \in Wants(c) : via[c][k] # "none"}
Leased(c) == {k \in Wants(c) : via[c][k] = "redis"}

\* Mutant: sorted by mode, writes first.
NextKeyByMode(c) ==
    LET rest == Wants(c) \ Acquired(c)
        writes == {k \in rest : Writes(c, k)}
    IN  IF writes # {} THEN Min(writes) ELSE Min(rest)
\* claim() goes through its keys in sorted order.
NextKey(c) == Min(Wants(c) \ Acquired(c))

\* Mutant: no cap.
RenewIntervalUncapped(ttl) == Max({1, ttl \div 3})
\* interval = max(1.0, min(30.0, ttl / 3))
RenewInterval(ttl) == Max({1, Min({Cap, ttl \div 3})})

Free == [readers |-> 0, writer |-> FALSE]

Init ==
    /\ hash = [k \in Keys |-> [c \in Calls |-> Absent]]
    /\ expiry = [k \in Keys |-> 0]
    /\ local = [p \in Procs |-> [k \in Keys |-> Free]]
    /\ pc = [c \in Calls |-> "start"]
    /\ via = [c \in Calls |-> [k \in Keys |-> "none"]]
    /\ timer = [c \in Calls |-> 0]
    /\ faults = 0

Goto(c, location) == pc' = [pc EXCEPT ![c] = location]

\* The call ends and forgets what it acquired.
End(c) ==
    /\ Goto(c, "done")
    /\ via' = [via EXCEPT ![c] = [k \in Keys |-> "none"]]

\* The finally clause of claim() first stops the renew loop.
Leave(c) ==
    /\ Goto(c, "release")
    /\ timer' = [timer EXCEPT ![c] = 0]

Fault ==
    /\ faults < MaxFaults
    /\ faults' = faults + 1

(* ------------------------------ Lua scripts ---------------------------- *)

\* A hash without the fields whose lease is over.
Swept(h) == [c \in Calls |-> IF h[c] = 0 THEN Absent ELSE h[c]]
Fields(h) == {c \in Calls : h[c] # Absent}

\* Mutant: a writer only looks for another writer.
GrantsBesideReaders(h, c, k) == \A d \in Fields(Swept(h)) : ~Writes(d, k)
\* _ACQUIRE_SCRIPT: a reader is stopped by a writer, a writer by anybody.
Grants(h, c, k) == \A d \in Fields(Swept(h)) : ~Writes(c, k) /\ ~Writes(d, k)

\* _RENEW_SCRIPT looks for the owner's field, not at its time.
Renews(h, c) == h[c] # Absent

\* EXPIRE applies to the hash, whoever else has a field in it.
WithLease(c, S) ==
    /\ hash' = [k \in Keys |-> IF k \in S THEN [hash[k] EXCEPT ![c] = TtlOf[c]]
                                          ELSE hash[k]]
    /\ expiry' = [k \in Keys |-> IF k \in S THEN TtlOf[c] ELSE expiry[k]]

(* -------------------------------- acquire ------------------------------ *)

\* The caller first asks write_coordination_available.
Start(c) ==
    /\ pc[c] = "start"
    /\ \/ /\ HasRedis \/ \A k \in Wants(c) : ~RequiresFailClosed(c, k)
          /\ Goto(c, "acquire")
          /\ UNCHANGED faults
       \/ /\ \E k \in Wants(c) : RequiresFailClosed(c, k)
          /\ Goto(c, "done")
          /\ IF HasRedis THEN Fault ELSE UNCHANGED faults
    /\ UNCHANGED <<hash, expiry, local, via, timer>>

\* The key is taken: go on with the next one, or start the renew loop and
\* enter the body.
Take(c, k, how) ==
    /\ via' = [via EXCEPT ![c][k] = how]
    /\ IF Acquired(c) \cup {k} = Wants(c)
       THEN /\ Goto(c, "body")
            /\ timer' = [timer EXCEPT ![c] =
                            IF how = "redis" \/ Leased(c) # {} THEN RenewInterval(TtlOf[c]) ELSE 0]
       ELSE Goto(c, "acquire") /\ UNCHANGED timer

\* _ACQUIRE_SCRIPT when it answers 1.
LeaseGranted(c, k) ==
    /\ Grants(hash[k], c, k)
    /\ hash' = [hash EXCEPT ![k] = [Swept(hash[k]) EXCEPT ![c] = TtlOf[c]]]
    /\ expiry' = [expiry EXCEPT ![k] = TtlOf[c]]

AcquireLease(c) ==
    /\ pc[c] = "acquire"
    /\ HasRedis
    /\ LET k == NextKey(c)
       IN  \/ LeaseGranted(c, k) /\ Take(c, k, "redis")
           \/ /\ ~Grants(hash[k], c, k)
              /\ hash' = [hash EXCEPT ![k] = Swept(hash[k])]
              /\ UNCHANGED <<expiry, pc, via, timer>>
    /\ UNCHANGED <<local, faults>>

\* The script raised, or ran and its answer was lost.
ScriptLost(c, k) ==
    \/ UNCHANGED <<hash, expiry>>
    \/ LeaseGranted(c, k)

\* Without Redis a fail-closed write gives up; any other claim falls back to
\* the lock of its process.
Fallback(c) == Goto(c, IF RequiresFailClosed(c, NextKey(c)) THEN "release" ELSE "local")

AcquireWithoutRedis(c) ==
    /\ pc[c] = "acquire"
    /\ ~HasRedis
    /\ Fallback(c)
    /\ UNCHANGED <<hash, expiry, local, via, timer, faults>>

AcquireFails(c) ==
    /\ pc[c] = "acquire"
    /\ HasRedis
    /\ Fault
    /\ ScriptLost(c, NextKey(c))
    /\ Fallback(c)
    /\ UNCHANGED <<local, via, timer>>

\* Mutant: readers are not looked at.
AvailableBesideReaders(lock, c, k) == ~lock.writer
Available(lock, c, k) == ~lock.writer /\ (Writes(c, k) => lock.readers = 0)

AcquireLocal(c) ==
    /\ pc[c] = "local"
    /\ LET k == NextKey(c)
           lock == local[ProcOf[c]][k]
       IN  /\ Available(lock, c, k)
           /\ local' = [local EXCEPT ![ProcOf[c]][k] =
                           IF Writes(c, k) THEN [lock EXCEPT !.writer = TRUE]
                                           ELSE [lock EXCEPT !.readers = @ + 1]]
           /\ Take(c, k, "local")
    /\ UNCHANGED <<hash, expiry, faults>>

\* The task is cancelled while it waits; a script in flight may still run.
CancelWaiting(c) ==
    /\ pc[c] \in {"acquire", "local"}
    /\ \/ UNCHANGED <<faults, hash, expiry>>
       \/ /\ HasRedis /\ pc[c] = "acquire"
          /\ Fault /\ ScriptLost(c, NextKey(c))
    /\ Goto(c, "release")
    /\ UNCHANGED <<local, via, timer>>

(* --------------------------------- body -------------------------------- *)

\* The renew loop wakes up: every lease is renewed; one that is gone cancels
\* the holder.
Renew(c) ==
    /\ pc[c] = "body"
    /\ Leased(c) # {}
    /\ timer[c] = 0
    /\ LET alive == {k \in Leased(c) : Renews(hash[k], c)}
       IN  /\ WithLease(c, alive)
           /\ IF alive = Leased(c)
              THEN /\ timer' = [timer EXCEPT ![c] = RenewInterval(TtlOf[c])]
                   /\ UNCHANGED pc
              ELSE Leave(c)
    /\ UNCHANGED <<local, via, faults>>

\* A renewal raised: the loop cancels the holder.
RenewFails(c) ==
    /\ pc[c] = "body"
    /\ Leased(c) # {}
    /\ timer[c] = 0
    /\ Fault
    /\ \E S \in SUBSET {k \in Leased(c) : Renews(hash[k], c)} : WithLease(c, S)
    /\ Leave(c)
    /\ UNCHANGED <<local, via>>

\* The body returns, raises, times out or is cancelled.
Finish(c) ==
    /\ pc[c] = "body"
    /\ Leave(c)
    /\ UNCHANGED <<hash, expiry, local, via, faults>>

(* -------------------------------- release ------------------------------ *)

\* Mutant: a reader is never counted down.
UnlockedWriter(lock, c, k) == [lock EXCEPT !.writer = FALSE]
Unlocked(lock, c, k) ==
    IF Writes(c, k) THEN [lock EXCEPT !.writer = FALSE]
                    ELSE [lock EXCEPT !.readers = Max({0, @ - 1})]

\* _release_one of the last key in the acquired list; releasing the last field
\* of a hash deletes it.
ReleaseOne(c) ==
    /\ pc[c] = "release"
    /\ Acquired(c) # {}
    /\ LET k == Max(Acquired(c))
           p == ProcOf[c]
       IN  /\ via' = [via EXCEPT ![c][k] = "none"]
           /\ IF via[c][k] = "redis"
              THEN /\ hash' = [hash EXCEPT ![k][c] = Absent]
                   /\ expiry' = [expiry EXCEPT ![k] = IF Fields(hash'[k]) = {} THEN 0 ELSE @]
                   /\ UNCHANGED local
              ELSE /\ local' = [local EXCEPT ![p][k] = Unlocked(@, c, k)]
                   /\ UNCHANGED <<hash, expiry>>
    /\ UNCHANGED <<pc, timer, faults>>

Released(c) ==
    /\ pc[c] = "release"
    /\ Acquired(c) = {}
    /\ Goto(c, "done")
    /\ UNCHANGED <<hash, expiry, local, via, timer, faults>>

\* A release raised or was cancelled: the rest of the list is not released.
ReleaseFails(c) ==
    /\ pc[c] = "release"
    /\ Acquired(c) # {}
    /\ Fault
    /\ End(c)
    /\ UNCHANGED <<hash, expiry, local, timer>>

(* ------------------------- processes and time -------------------------- *)

\* A process dies with its calls and its locks; its leases stay in Redis.
Crash(p) ==
    /\ Fault
    /\ LET dead == {c \in Calls : ProcOf[c] = p /\ pc[c] # "start"}
       IN  /\ \E c \in dead : pc[c] # "done"
           /\ pc' = [c \in Calls |-> IF c \in dead THEN "done" ELSE pc[c]]
           /\ via' = [c \in Calls |-> IF c \in dead THEN [k \in Keys |-> "none"] ELSE via[c]]
           /\ timer' = [c \in Calls |-> IF c \in dead THEN 0 ELSE timer[c]]
    /\ local' = [local EXCEPT ![p] = [k \in Keys |-> Free]]
    /\ UNCHANGED <<hash, expiry>>

\* One tick less, down to zero.
Less(n) == IF n > 0 THEN n - 1 ELSE n

\* Time passes, but not past a renewal that is due: the event loop of a holder
\* is assumed to run its renew loop within a tick.
Tick ==
    /\ \A c \in Calls : pc[c] = "body" /\ Leased(c) # {} => timer[c] > 0
    /\ expiry' = [k \in Keys |-> Less(expiry[k])]
    /\ hash' = [k \in Keys |-> [c \in Calls |->
                   IF expiry'[k] = 0 THEN Absent ELSE Less(hash[k][c])]]
    /\ timer' = [c \in Calls |-> Less(timer[c])]
    /\ UNCHANGED <<local, pc, via, faults>>

Progress(c) ==
    \/ Start(c) \/ AcquireLease(c) \/ AcquireWithoutRedis(c) \/ AcquireFails(c)
    \/ AcquireLocal(c) \/ Renew(c) \/ RenewFails(c) \/ ReleaseOne(c) \/ Released(c) \/ ReleaseFails(c)

Next ==
    \/ \E c \in Calls : Progress(c) \/ CancelWaiting(c) \/ Finish(c)
    \/ \E p \in Procs : Crash(p)
    \/ Tick

Spec == Init /\ [][Next]_vars

\* Calls poll and renew, a node timeout ends every body, and time passes.
\* Nobody has to be cancelled and nothing has to fail.
FairSpec ==
    /\ Spec
    /\ WF_vars(Tick)
    /\ \A c \in Calls :
          /\ WF_vars(Start(c)) /\ WF_vars(AcquireLease(c)) /\ WF_vars(AcquireLocal(c))
          /\ WF_vars(AcquireWithoutRedis(c))
          /\ WF_vars(Renew(c)) /\ WF_vars(Finish(c))
          /\ WF_vars(ReleaseOne(c) \/ Released(c))

(* ------------------------------ properties ----------------------------- *)

TypeOK ==
    /\ hash \in [Keys -> [Calls -> Int]]
    /\ expiry \in [Keys -> Nat]
    /\ local \in [Procs -> [Keys -> [readers : Nat, writer : BOOLEAN]]]
    /\ pc \in [Calls -> {"start", "acquire", "local", "body", "release", "done"}]
    /\ via \in [Calls -> [Keys -> {"none", "redis", "local"}]]
    /\ timer \in [Calls -> Nat]
    /\ faults \in Nat

Conflict(c, d, k) == c # d /\ (Writes(c, k) \/ Writes(d, k))

\* Across processes, a body that writes under a lease never overlaps another
\* leased body on that key, whatever renewals, expiries, lost answers, crashes
\* and fallbacks happen.
LeasesExclude ==
    \A c, d \in Calls : \A k \in Wants(c) \cap Wants(d) :
        (/\ pc[c] = "body" /\ via[c][k] = "redis"
         /\ pc[d] = "body" /\ via[d][k] = "redis") => ~Conflict(c, d, k)

\* Within one process the fallback locks exclude as well.
LocksExclude ==
    \A c, d \in Calls : \A k \in Wants(c) \cap Wants(d) :
        (/\ ProcOf[c] = ProcOf[d]
         /\ pc[c] = "body" /\ via[c][k] = "local"
         /\ pc[d] = "body" /\ via[d][k] = "local") => ~Conflict(c, d, k)

\* While a body runs its leases are in Redis and have time left, although the
\* EXPIRE of a reader with a short lease also applies to one with a long lease.
BodyKeepsLease ==
    \A c \in Calls : pc[c] = "body" => \A k \in Leased(c) : hash[k][c] > 0

\* What WriteResourceCoordinationUnavailable and the setting say: a write never
\* proceeds without a distributed ownership lease.  It does not hold for claims
\* on two keys: section 4 of the README.
WriteHasLease ==
    \A c \in Calls : pc[c] = "body" =>
        \A k \in Wants(c) : RequiresFailClosed(c, k) => hash[k][c] # Absent

\* Without faults nothing stays behind: when every call is over, no lease and
\* no lock is left for anybody to wait for.
NothingLeaks ==
    (faults = 0 /\ \A c \in Calls : pc[c] = "done") =>
        /\ \A k \in Keys : Fields(hash[k]) = {}
        /\ \A p \in Procs, k \in Keys : local[p][k] = Free

\* Every call ends: calls with several keys never wait for each other, and what
\* a crashed or cut off owner left in Redis is waited for only until it expires.
ClaimsEnd == \A c \in Calls : (pc[c] # "done") ~> (pc[c] = "done")

===============================================================================
