-------------------------- MODULE AdmissionProofs --------------------------
(***************************************************************************)
(* Proofs about how a request becomes a run: the capacity it is given      *)
(* (RuntimeControl), and the request itself, from the guards to the row of *)
(* the run (RunRequests), which sees of the former only a lease that is    *)
(* given or refused.                                                       *)
(***************************************************************************)
EXTENDS RuntimeControl, RunRequests, FiniteSetTheorems, TLAPS

(***************************************************************************)
(* RuntimeControl.  The limit on leases holds whatever the clock does; the *)
(* limit on runs only if no run outlives its lease.                        *)
(***************************************************************************)

\* The limits and the lengths of time are numbers.
LEMMA ConstantTypes ==
    /\ RateLimit \in Nat /\ RunLimit \in Nat /\ RateTtl \in Nat /\ LeaseTtl \in Nat
    /\ MaxRun \in Nat /\ MaxTime \in Nat /\ MaxOutages \in Nat
    /\ RunLimit > 0 /\ LeaseTtl > 0
BY RuntimeConstants

\* The counter of a minute stays a number when a request is counted.
LEMMA IncrementType ==
    ASSUME TypeOK, NEW m, Increment(m)
    PROVE  rate' \in [Minutes -> Nat] /\ rateExpiry' \in [Minutes -> Nat]
<1>1. CASE m \in Minutes
  <2>1. rate[m] + 1 \in Nat /\ rateExpiry[m] \in Nat
      BY <1>1 DEF TypeOK
  <2>2. Incr(m) \in Nat /\ (IF Dropped(m) THEN 0 ELSE rateExpiry[m]) \in Nat
      BY <2>1 DEF Incr
  <2> HIDE DEF Incr
  <2> QED BY <2>2 DEF Increment, TypeOK
<1>2. CASE m \notin Minutes
    BY <1>2 DEF Increment, TypeOK
<1> QED BY <1>1, <1>2

\* The scores stay numbers when the script runs.
LEMMA ScriptType ==
    ASSUME TypeOK, NEW r \in Requests, RunScript(r)
    PROVE  expires' \in [Requests -> Nat]
<1>1. stamp[r] + LeaseTtl \in Nat
    BY ConstantTypes DEF TypeOK
<1>2. \A x \in Requests : expires'[x] \in Nat
  <2> TAKE x \in Requests
  <2>1. expires'[x] \in {stamp[r] + LeaseTtl, expires[x], 0}
      BY DEF RunScript
  <2> QED BY <1>1, <2>1 DEF TypeOK
<1>3. DOMAIN expires' = Requests /\ expires' = [x \in Requests |-> expires'[x]]
    BY DEF RunScript
<1> QED BY <1>2, <1>3

\* The initial state has the types of the model.
LEMMA TypeInit == Init => TypeOK
BY RuntimeConstants DEF Init, TypeOK, Minutes

\* Every step of a request, a connection, a process or the clock keeps the types.
LEMMA TypeStep == TypeOK /\ [Next]_vars => TypeOK'
<1> SUFFICES ASSUME TypeOK, [Next]_vars PROVE TypeOK'
    OBVIOUS
<1> USE RuntimeConstants DEF TypeOK, Goto, redis, maps
<1>1. ASSUME NEW r \in Requests, Begin(r) PROVE TypeOK'
    BY <1>1 DEF Begin
<1>2. ASSUME NEW r \in Requests, CountRequest(r) PROVE TypeOK'
  <2>1. rate' \in [Minutes -> Nat] /\ rateExpiry' \in [Minutes -> Nat]
      BY <1>2, IncrementType DEF CountRequest
  <2>2. admitted' \in [Minutes -> Nat]
      BY <1>2 DEF CountRequest
  <2>3. pc' \in [Requests -> {"idle", "count", "expire", "lease", "running", "local", "refused", "done"}]
      BY <1>2 DEF CountRequest
  <2>4. stamp' \in [Requests -> Nat]
      BY <1>2 DEF CountRequest
  <2> QED BY <1>2, <2>1, <2>2, <2>3, <2>4 DEF CountRequest
<1>3. ASSUME NEW r \in Requests, ExpireCounter(r) PROVE TypeOK'
  <2>1. now + RateTtl \in Nat /\ now \in Nat
      BY ConstantTypes
  <2>2. rateExpiry' \in [Minutes -> Nat]
      BY <1>3, <2>1 DEF ExpireCounter
  <2>3. stamp' \in [Requests -> Nat]
      BY <1>3, <2>1 DEF ExpireCounter
  <2> QED BY <1>3, <2>2, <2>3 DEF ExpireCounter
<1>5. ASSUME NEW r \in Requests, TakeLease(r) PROVE TypeOK'
    BY ScriptType, <1>5 DEF TakeLease
<1>6. ASSUME NEW r \in Requests, Unanswered(r) PROVE TypeOK'
  <2>1. CASE pc[r] = "count" /\ Increment(MinuteOf(r)) /\ UNCHANGED expires
      BY <1>6, <2>1, IncrementType DEF Unanswered, Outage
  <2>2. CASE pc[r] = "lease" /\ RunScript(r) /\ UNCHANGED <<rate, rateExpiry>>
      BY ScriptType, <1>6, <2>2 DEF Unanswered, Outage
  <2> QED BY <1>6, <2>1, <2>2 DEF Unanswered
<1>7. ASSUME NEW r \in Requests, RefuseUncoordinated(r) PROVE TypeOK'
    BY <1>7 DEF RefuseUncoordinated
<1>8. ASSUME NEW r \in Requests, AcquireLocal(r) PROVE TypeOK'
  <2>1. localCount' \in [Processes -> Nat] /\ localReset' \in [Processes -> Nat]
      BY <1>8 DEF AcquireLocal
  <2>2. /\ localLeases' \in [Processes -> SUBSET Requests]
        /\ stamp' \in [Requests -> Nat]
        /\ pc' \in [Requests -> {"idle", "count", "expire", "lease", "running", "local", "refused", "done"}]
      BY <1>8 DEF AcquireLocal
  <2> QED BY <1>8, <2>1, <2>2 DEF AcquireLocal
<1>9. ASSUME NEW r \in Requests, Release(r) PROVE TypeOK'
    BY <1>9 DEF Release
<1>10. ASSUME NEW p \in Processes, Connection(p) PROVE TypeOK'
    BY <1>10 DEF Connection, Outage
<1>11. ASSUME NEW p \in Processes, Crash(p) PROVE TypeOK'
    BY <1>11 DEF Crash, Outage
<1>12. CASE Tick
    BY <1>12 DEF Tick
<1>13. CASE UNCHANGED vars
    BY <1>13 DEF vars
<1> QED
    BY <1>1, <1>2, <1>3, <1>5, <1>6, <1>7, <1>8, <1>9, <1>10, <1>11, <1>12, <1>13 DEF Next

\* The variables of Redis, of the processes and of the requests keep their types.
THEOREM Typing == Spec => []TypeOK
BY TypeInit, TypeStep, PTL DEF Spec

-----------------------------------------------------------------------------
\* What the script leaves is what had not expired, and one lease more if there was room.
LEMMA ScriptKeepsLimit ==
    ASSUME NEW r \in Requests, TypeOK, RunScript(r), LeasesWithinLimit
    PROVE  LeasesWithinLimit'
<1> DEFINE U == Unexpired(stamp[r])
<1>1. IsFiniteSet(leases) /\ IsFiniteSet(U)
    BY FS_Subset, RuntimeConstants DEF leases, Unexpired
<1>2. leases' \subseteq U \cup (IF Room(r) THEN {r} ELSE {})
    BY DEF RunScript, leases, Unexpired, TypeOK
<1>3. U \subseteq leases
    BY RuntimeConstants DEF Unexpired, leases, TypeOK
<1>4. Cardinality(U) <= Cardinality(leases)
    BY <1>1, <1>3, FS_Subset
<1>5. Cardinality(U) \in Nat /\ Cardinality(leases) \in Nat
    BY <1>1, FS_CardinalityType
<1>6. CASE Room(r)
  <2> HIDE DEF U
  <2>0. /\ IsFiniteSet(U \cup {r})
        /\ Cardinality(U \cup {r}) = IF r \in U THEN Cardinality(U) ELSE Cardinality(U) + 1
      BY <1>1, FS_AddElement
  <2>1. IsFiniteSet(U \cup {r}) /\ Cardinality(U \cup {r}) <= Cardinality(U) + 1
      BY <1>5, <2>0
  <2>2. leases' \subseteq U \cup {r}
      BY <1>2, <1>6
  <2>3. Cardinality(leases') <= Cardinality(U \cup {r})
      BY <2>1, <2>2, FS_Subset
  <2>4. Cardinality(leases') \in Nat /\ Cardinality(U \cup {r}) \in Nat
      BY <2>1, <2>2, FS_Subset, FS_CardinalityType
  <2>5. Cardinality(U) < RunLimit
      BY <1>6 DEF Room, U
  <2> QED BY <1>5, <2>1, <2>3, <2>4, <2>5, RuntimeConstants DEF LeasesWithinLimit
<1>7. CASE ~Room(r)
  <2>1. leases' \subseteq leases
      BY <1>2, <1>3, <1>7
  <2>2. Cardinality(leases') <= Cardinality(leases) /\ Cardinality(leases') \in Nat
      BY <1>1, <2>1, FS_Subset, FS_CardinalityType
  <2> QED BY <1>5, <2>2, RuntimeConstants DEF LeasesWithinLimit
<1> QED BY <1>6, <1>7

\* A step that adds no lease keeps their number within the limit.
LEMMA FewerLeases ==
    ASSUME TypeOK, leases' \subseteq leases, LeasesWithinLimit
    PROVE  LeasesWithinLimit'
<1>1. IsFiniteSet(leases)
    BY FS_Subset, RuntimeConstants DEF leases
<1>2. Cardinality(leases') <= Cardinality(leases) /\ Cardinality(leases') \in Nat /\ Cardinality(leases) \in Nat
    BY <1>1, FS_Subset, FS_CardinalityType
<1> QED BY <1>2, RuntimeConstants DEF LeasesWithinLimit

\* Redis never holds more leases than the limit, whatever the clock, the connections and
\* the processes do: only the script adds one, and it counts and adds in one step.
THEOREM LeaseLimit == Spec => []LeasesWithinLimit
<1>1. Init => LeasesWithinLimit
  <2> SUFFICES ASSUME Init PROVE LeasesWithinLimit
      OBVIOUS
  <2>1. leases = {}
      BY DEF Init, leases
  <2>2. Cardinality(leases) = 0
      BY <2>1, FS_EmptySet
  <2> QED BY <2>2, ConstantTypes DEF LeasesWithinLimit
<1>2. TypeOK /\ LeasesWithinLimit /\ [Next]_vars => LeasesWithinLimit'
  <2> SUFFICES ASSUME TypeOK, LeasesWithinLimit, [Next]_vars PROVE LeasesWithinLimit'
      OBVIOUS
  <2>1. ASSUME NEW r \in Requests, TakeLease(r) PROVE LeasesWithinLimit'
      BY <2>1, ScriptKeepsLimit DEF TakeLease
  <2>2. ASSUME NEW r \in Requests, Unanswered(r) PROVE LeasesWithinLimit'
    <3>1. CASE RunScript(r)
        BY <3>1, ScriptKeepsLimit
    <3>2. CASE UNCHANGED expires
        BY <3>2, FewerLeases DEF leases
    <3> QED BY <2>2, <3>1, <3>2 DEF Unanswered
  <2>3. ASSUME NEW r \in Requests, Release(r) PROVE LeasesWithinLimit'
    <3>1. leases' \subseteq leases
        BY <2>3 DEF Release, leases, TypeOK
    <3> QED BY <3>1, FewerLeases
  <2>4. CASE UNCHANGED expires
      BY <2>4, FewerLeases DEF leases
  <2>5. ASSUME NEW r \in Requests,
               Begin(r) \/ CountRequest(r) \/ ExpireCounter(r) \/ RefuseUncoordinated(r) \/ AcquireLocal(r)
        PROVE  UNCHANGED expires
      BY <2>5 DEF Begin, CountRequest, ExpireCounter, RefuseUncoordinated, AcquireLocal, redis
  <2>6. ASSUME NEW p \in Processes, Connection(p) \/ Crash(p) PROVE UNCHANGED expires
      BY <2>6 DEF Connection, Crash, redis
  <2>7. CASE Tick \/ UNCHANGED vars
      BY <2>4, <2>7 DEF Tick, vars, redis
  <2> QED BY <2>1, <2>2, <2>3, <2>4, <2>5, <2>6, <2>7 DEF Next
<1> QED BY <1>1, <1>2, Typing, PTL DEF Spec

-----------------------------------------------------------------------------
\* The clock and the requests: no stamp is of the future, and a run has not had more
\* than its MaxRun.
LEMMA StampsStep == TypeOK /\ StampsPast /\ [Next]_vars => StampsPast'
<1> SUFFICES ASSUME TypeOK, StampsPast, [Next]_vars, NEW q \in Requests
             PROVE  stamp'[q] <= now' /\ (q \in Leasing' => now' <= stamp'[q] + MaxRun)
    BY DEF StampsPast
<1> USE DEF TypeOK, StampsPast, Leasing, Running, Goto
<1>0. now \in Nat /\ stamp[q] \in Nat /\ MaxRun \in Nat /\ q \in DOMAIN stamp /\ q \in DOMAIN pc
    BY ConstantTypes
<1>1. ASSUME NEW r \in Requests, Begin(r) \/ CountRequest(r) \/ ExpireCounter(r)
      PROVE  stamp'[q] <= now' /\ (q \in Leasing' => now' <= stamp'[q] + MaxRun)
  <2>1. CASE q # r
      BY <1>0, <1>1, <2>1 DEF Begin, CountRequest, ExpireCounter
  <2>2. CASE q = r
      BY <1>0, <1>1, <2>2 DEF Begin, CountRequest, ExpireCounter
  <2> QED BY <2>1, <2>2
<1>2. ASSUME NEW r \in Requests, TakeLease(r) \/ RefuseUncoordinated(r) \/ Release(r)
      PROVE  stamp'[q] <= now' /\ (q \in Leasing' => now' <= stamp'[q] + MaxRun)
    BY <1>0, <1>2 DEF TakeLease, RefuseUncoordinated, Release
<1>3. ASSUME NEW r \in Requests, AcquireLocal(r)
      PROVE  stamp'[q] <= now' /\ (q \in Leasing' => now' <= stamp'[q] + MaxRun)
    BY <1>0, <1>3 DEF AcquireLocal
<1>4. ASSUME NEW p \in Processes, Crash(p)
      PROVE  stamp'[q] <= now' /\ (q \in Leasing' => now' <= stamp'[q] + MaxRun)
    BY <1>0, <1>4 DEF Crash
<1>5. CASE Tick
    BY <1>0, <1>5 DEF Tick
<1>6. CASE UNCHANGED <<now, stamp, pc>>
    BY <1>0, <1>6
<1>7. ASSUME NEW r \in Requests, Unanswered(r) PROVE UNCHANGED <<now, stamp, pc>>
    BY <1>7 DEF Unanswered
<1>8. ASSUME NEW p \in Processes, Connection(p) PROVE UNCHANGED <<now, stamp, pc>>
    BY <1>8 DEF Connection
<1>9. CASE UNCHANGED vars
    BY <1>6, <1>9 DEF vars
<1> QED BY <1>1, <1>2, <1>3, <1>4, <1>5, <1>6, <1>7, <1>8, <1>9 DEF Next

\* The map of a process never holds more leases than the limit: a lease is put into it
\* only if fewer than the limit are left when the expired ones are dropped.
LEMMA MapsStep == TypeOK /\ MapsWithinLimit /\ [Next]_vars => MapsWithinLimit'
<1> SUFFICES ASSUME TypeOK, MapsWithinLimit, [Next]_vars, NEW p \in Processes
             PROVE  Cardinality(localLeases'[p]) <= RunLimit
    BY DEF MapsWithinLimit
<1>1. IsFiniteSet(localLeases[p]) /\ Cardinality(localLeases[p]) \in Nat
    BY FS_Subset, FS_CardinalityType, RuntimeConstants DEF TypeOK
<1>2. Cardinality(localLeases[p]) <= RunLimit
    BY DEF MapsWithinLimit
<1>3. CASE localLeases'[p] \subseteq localLeases[p]
  <2>1. Cardinality(localLeases'[p]) <= Cardinality(localLeases[p]) /\ Cardinality(localLeases'[p]) \in Nat
      BY <1>1, <1>3, FS_Subset, FS_CardinalityType
  <2> QED BY <1>1, <1>2, <2>1, ConstantTypes
<1>4. ASSUME NEW r \in Requests, AcquireLocal(r) PROVE Cardinality(localLeases'[p]) <= RunLimit
  <2> DEFINE live == {x \in localLeases[p] : stamp[x] + LeaseTtl > now}
  <2>1. CASE localLeases'[p] \subseteq localLeases[p]
      BY <1>3, <2>1
  <2>2. CASE p = Home[r] /\ Cardinality(live) < RunLimit /\ localLeases'[p] = live \cup {r}
    <3>1. live \subseteq localLeases[p]
        OBVIOUS
    <3> HIDE DEF live
    <3>2. IsFiniteSet(live) /\ Cardinality(live) \in Nat
        BY <1>1, <3>1, FS_Subset, FS_CardinalityType
    <3>3. Cardinality(live \cup {r}) = IF r \in live THEN Cardinality(live) ELSE Cardinality(live) + 1
        BY <3>2, FS_AddElement
    <3> QED BY <2>2, <3>2, <3>3, ConstantTypes
  <2>3. \/ localLeases'[p] \subseteq localLeases[p]
        \/ p = Home[r] /\ Cardinality(live) < RunLimit /\ localLeases'[p] = live \cup {r}
    <3>1. CASE p # Home[r]
        BY <1>4, <3>1 DEF AcquireLocal, TypeOK
    <3>2. CASE p = Home[r]
        BY <1>4, <3>2 DEF AcquireLocal, TypeOK
    <3> QED BY <3>1, <3>2
  <2> QED BY <2>1, <2>2, <2>3
<1>5. ASSUME NEW r \in Requests, Release(r) PROVE localLeases'[p] \subseteq localLeases[p]
    BY <1>5 DEF Release, TypeOK
<1>6. ASSUME NEW q \in Processes, Crash(q) PROVE localLeases'[p] \subseteq localLeases[p]
    BY <1>6 DEF Crash, TypeOK
<1>7. ASSUME NEW r \in Requests,
             Begin(r) \/ CountRequest(r) \/ ExpireCounter(r) \/ TakeLease(r) \/ Unanswered(r)
               \/ RefuseUncoordinated(r)
      PROVE  UNCHANGED localLeases
    BY <1>7 DEF Begin, CountRequest, ExpireCounter, TakeLease, Unanswered, RefuseUncoordinated, maps
<1>8. ASSUME NEW q \in Processes, Connection(q) PROVE UNCHANGED localLeases
    BY <1>8 DEF Connection, maps
<1>9. CASE Tick \/ UNCHANGED vars
    BY <1>3, <1>9 DEF Tick, vars, maps
<1> QED BY <1>3, <1>4, <1>5, <1>6, <1>7, <1>8, <1>9 DEF Next

\* If no run outlives its lease, no request drops the lease of another that is running:
\* at the time a request asks, the lease of a running one has not expired.
LEMMA CoveredStep ==
    ASSUME MaxRun < LeaseTtl, TypeOK, StampsPast, RunsCovered, [Next]_vars
    PROVE  RunsCovered'
<1> SUFFICES ASSUME NEW q \in Requests
             PROVE  /\ pc'[q] = "running" => expires'[q] = stamp'[q] + LeaseTtl
                    /\ pc'[q] = "local" => q \in localLeases'[Home[q]]
    BY DEF RunsCovered
<1> DEFINE Covered == /\ pc'[q] = "running" => expires'[q] = stamp'[q] + LeaseTtl
                      /\ pc'[q] = "local" => q \in localLeases'[Home[q]]
<1>0. /\ now \in Nat /\ stamp[q] \in Nat /\ q \in DOMAIN stamp /\ q \in DOMAIN pc /\ q \in DOMAIN expires
      /\ Home[q] \in Processes /\ Home[q] \in DOMAIN localLeases
      /\ pc[q] = "running" => expires[q] = stamp[q] + LeaseTtl
      /\ pc[q] = "local" => q \in localLeases[Home[q]]
      /\ stamp[q] <= now /\ (q \in Leasing => now <= stamp[q] + MaxRun)
    BY ConstantTypes, RuntimeConstants DEF TypeOK, StampsPast, RunsCovered
<1>1. ASSUME NEW r \in Requests,
             Begin(r) \/ CountRequest(r) \/ ExpireCounter(r) \/ RefuseUncoordinated(r)
      PROVE  Covered
  <2>1. pc[r] \notin {"running", "local"} /\ pc'[r] \notin {"running", "local"}
      BY <1>1 DEF Begin, CountRequest, ExpireCounter, RefuseUncoordinated, Goto, TypeOK
  <2>2. UNCHANGED <<expires, localLeases>>
      BY <1>1 DEF Begin, CountRequest, ExpireCounter, RefuseUncoordinated, redis, maps
  <2>3. q # r => pc'[q] = pc[q] /\ stamp'[q] = stamp[q]
      BY <1>0, <1>1 DEF Begin, CountRequest, ExpireCounter, RefuseUncoordinated, Goto, TypeOK
  <2> QED BY <1>0, <2>1, <2>2, <2>3
<1>2. ASSUME NEW r \in Requests, RunScript(r), pc[r] = "lease"
      PROVE  /\ pc[q] = "running" => expires'[q] = expires[q]
             /\ Room(r) => expires'[r] = stamp[r] + LeaseTtl
  <2>1. Room(r) => expires'[r] = stamp[r] + LeaseTtl
      BY <1>2 DEF RunScript
  <2>2. ASSUME pc[q] = "running" PROVE q \in Unexpired(stamp[r])
    <3>1. stamp[r] \in Nat /\ stamp[r] <= now
        BY DEF StampsPast, TypeOK
    <3>2. expires[q] = stamp[q] + LeaseTtl /\ now <= stamp[q] + MaxRun
        BY <1>0, <2>2 DEF Leasing, Running
    <3>3. expires[q] > stamp[r]
        BY <1>0, <3>1, <3>2, ConstantTypes
    <3> QED BY <3>3 DEF Unexpired
  <2>3. pc[q] = "running" => q # r
      BY <1>2
  <2> QED BY <1>2, <2>1, <2>2, <2>3 DEF RunScript
<1>3. ASSUME NEW r \in Requests, TakeLease(r) PROVE Covered
  <2>1. RunScript(r) /\ pc[r] = "lease" /\ UNCHANGED <<stamp, localLeases>>
      BY <1>3 DEF TakeLease, maps
  <2>2. CASE q = r
    <3>1. pc'[q] = "running" => Room(r)
        BY <1>0, <1>3, <2>2 DEF TakeLease, Goto
    <3>2. pc'[q] # "local"
        BY <1>0, <1>3, <2>2 DEF TakeLease, Goto
    <3> QED BY <1>2, <2>1, <2>2, <3>1, <3>2
  <2>3. CASE q # r
    <3>1. pc'[q] = pc[q]
        BY <1>0, <1>3, <2>3 DEF TakeLease, Goto, TypeOK
    <3> QED BY <1>0, <1>2, <2>1, <3>1
  <2> QED BY <2>2, <2>3
<1>4. ASSUME NEW r \in Requests, Unanswered(r) PROVE Covered
  <2>1. UNCHANGED <<pc, stamp, localLeases>>
      BY <1>4 DEF Unanswered, maps
  <2>2. CASE UNCHANGED expires
      BY <1>0, <2>1, <2>2
  <2>3. CASE RunScript(r) /\ pc[r] = "lease"
      BY <1>0, <1>2, <2>1, <2>3
  <2> QED BY <1>4, <2>2, <2>3 DEF Unanswered
<1>5. ASSUME NEW r \in Requests, AcquireLocal(r) PROVE Covered
  <2> DEFINE live == {x \in localLeases[Home[r]] : stamp[x] + LeaseTtl > now}
  <2>1. UNCHANGED expires /\ pc[r] = "idle"
      BY <1>5 DEF AcquireLocal, redis
  <2>2. ASSUME pc[q] = "local", Home[q] = Home[r] PROVE q \in live
    <3>1. now <= stamp[q] + MaxRun
        BY <1>0, <2>2 DEF Leasing, Running
    <3>2. stamp[q] + LeaseTtl > now
        BY <1>0, <3>1, ConstantTypes
    <3> QED BY <1>0, <2>2, <3>2
  <2>3. CASE q = r
    <3>1. pc'[q] # "running" /\ (pc'[q] = "local" => localLeases' = [localLeases EXCEPT ![Home[r]] = live \cup {r}])
        BY <1>0, <1>5, <2>3 DEF AcquireLocal, Goto
    <3> QED BY <1>0, <2>3, <3>1
  <2>4. CASE q # r
    <3>1. pc'[q] = pc[q] /\ stamp'[q] = stamp[q]
        BY <1>0, <1>5, <2>4 DEF AcquireLocal, Goto, TypeOK
    <3>2. \/ localLeases' = localLeases
          \/ localLeases' = [localLeases EXCEPT ![Home[r]] = live]
          \/ localLeases' = [localLeases EXCEPT ![Home[r]] = live \cup {r}]
        BY <1>5 DEF AcquireLocal
    <3>3. pc[q] = "local" => q \in localLeases'[Home[q]]
      <4>1. CASE Home[q] = Home[r]
          BY <1>0, <2>2, <3>2, <4>1
      <4>2. CASE Home[q] # Home[r]
        <5>1. localLeases'[Home[q]] = localLeases[Home[q]]
            BY <1>0, <3>2, <4>2
        <5> QED BY <1>0, <5>1
      <4> QED BY <4>1, <4>2
    <3> QED BY <1>0, <2>1, <3>1, <3>3
  <2> QED BY <2>3, <2>4
<1>6. ASSUME NEW r \in Requests, Release(r) PROVE Covered
  <2>1. CASE q = r
      BY <1>0, <1>6, <2>1 DEF Release, Goto
  <2>2. CASE q # r
    <3>1. pc'[q] = pc[q] /\ stamp' = stamp
        BY <1>0, <1>6, <2>2 DEF Release, Goto, TypeOK
    <3>2. expires'[q] = expires[q]
        BY <1>0, <1>6, <2>2 DEF Release, TypeOK
    <3>3. q \in localLeases[Home[q]] => q \in localLeases'[Home[q]]
        BY <1>0, <1>6, <2>2 DEF Release, TypeOK
    <3> QED BY <1>0, <3>1, <3>2, <3>3
  <2> QED BY <2>1, <2>2
<1>7. ASSUME NEW p \in Processes, Crash(p) PROVE Covered
  <2>1. UNCHANGED <<expires, stamp>>
      BY <1>7 DEF Crash, redis
  <2>2. CASE Home[q] = p
      BY <1>0, <1>7, <2>2 DEF Crash
  <2>3. CASE Home[q] # p
    <3>1. pc'[q] = pc[q] /\ localLeases'[Home[q]] = localLeases[Home[q]]
        BY <1>0, <1>7, <2>3 DEF Crash
    <3> QED BY <1>0, <2>1, <3>1
  <2> QED BY <2>2, <2>3
<1>8. ASSUME UNCHANGED <<redis, maps, pc, stamp>> PROVE Covered
    BY <1>0, <1>8 DEF redis, maps
<1>9. ASSUME NEW p \in Processes, Connection(p) PROVE Covered
    BY <1>8, <1>9 DEF Connection
<1>10. CASE Tick \/ UNCHANGED vars
    BY <1>8, <1>10 DEF Tick, vars
<1> QED BY <1>1, <1>3, <1>4, <1>5, <1>6, <1>7, <1>9, <1>10 DEF Next

\* Covered runs are no more than leases: those of Redis are members of the sorted set,
\* those of a process members of its map.
LEMMA CoveredRunsAreFew == TypeOK /\ LeaseInv => RunsWithinLimit
<1> SUFFICES ASSUME TypeOK, LeaseInv PROVE RunsWithinLimit
    OBVIOUS
<1>1. Cardinality({r \in Requests : pc[r] = "running"}) <= RunLimit
  <2> DEFINE R == {r \in Requests : pc[r] = "running"}
  <2>1. IsFiniteSet(leases)
      BY FS_Subset, RuntimeConstants DEF leases
  <2>2. R \subseteq leases
      BY ConstantTypes DEF LeaseInv, RunsCovered, leases, TypeOK
  <2> HIDE DEF R
  <2>3. Cardinality(R) <= Cardinality(leases) /\ Cardinality(R) \in Nat /\ Cardinality(leases) \in Nat
      BY <2>1, <2>2, FS_Subset, FS_CardinalityType
  <2>4. Cardinality(R) <= RunLimit
      BY <2>3, ConstantTypes DEF LeaseInv, LeasesWithinLimit
  <2> QED BY <2>4 DEF R
<1>2. ASSUME NEW p \in Processes
      PROVE  Cardinality({r \in Requests : Home[r] = p /\ pc[r] = "local"}) <= RunLimit
  <2> DEFINE R == {r \in Requests : Home[r] = p /\ pc[r] = "local"}
  <2>1. IsFiniteSet(localLeases[p])
      BY FS_Subset, RuntimeConstants DEF TypeOK
  <2>2. R \subseteq localLeases[p]
      BY DEF LeaseInv, RunsCovered
  <2> HIDE DEF R
  <2>3. Cardinality(R) <= Cardinality(localLeases[p]) /\ Cardinality(R) \in Nat
           /\ Cardinality(localLeases[p]) \in Nat
      BY <2>1, <2>2, FS_Subset, FS_CardinalityType
  <2>4. Cardinality(R) <= RunLimit
      BY <2>3, ConstantTypes DEF LeaseInv, MapsWithinLimit
  <2> QED BY <2>4 DEF R
<1> QED BY <1>1, <1>2 DEF RunsWithinLimit

\* If no run outlives its lease, no more runs than the limit go on under leases of Redis
\* at once, and no more than that without Redis in any one process.
THEOREM RunLimitHolds ==
    ASSUME MaxRun < LeaseTtl
    PROVE  Spec => []RunsWithinLimit
<1>1. Init => StampsPast /\ RunsCovered /\ MapsWithinLimit
  <2> SUFFICES ASSUME Init PROVE StampsPast /\ RunsCovered /\ MapsWithinLimit
      OBVIOUS
  <2>1. StampsPast /\ RunsCovered
      BY ConstantTypes DEF Init, StampsPast, RunsCovered, Leasing, Running
  <2>2. \A p \in Processes : Cardinality(localLeases[p]) = 0
      BY FS_EmptySet DEF Init
  <2> QED BY <2>1, <2>2, ConstantTypes DEF MapsWithinLimit
<1>2. TypeOK /\ StampsPast /\ RunsCovered /\ [Next]_vars => RunsCovered'
    BY CoveredStep
<1>3. TypeOK /\ LeasesWithinLimit /\ MapsWithinLimit /\ StampsPast /\ RunsCovered => RunsWithinLimit
    BY CoveredRunsAreFew DEF LeaseInv
<1> QED BY <1>1, <1>2, <1>3, Typing, LeaseLimit, StampsStep, MapsStep, PTL DEF Spec

-----------------------------------------------------------------------------
\* Where leases of requests are that are not running: only of those that lost their answer or
\* their release, and with the expiry of the time they asked.
LeakSound(r) ==
    /\ r \in leases => /\ expires[r] <= stamp[r] + LeaseTtl
                       /\ pc[r] \in {"lease", "running", "refused", "done"}
                       /\ pc[r] # "running" => r \in lost
    /\ r \in localLeases[Home[r]] =>
         pc[r] = "local" \/ (pc[r] = "done" /\ r \in lost)

LEMMA LeakStep ==
    ASSUME TypeOK, NEW q \in Requests, LeakSound(q), [Next]_vars
    PROVE  LeakSound(q)'
<1>0. /\ stamp[q] \in Nat /\ expires[q] \in Nat /\ LeaseTtl \in Nat /\ LeaseTtl > 0
      /\ q \in DOMAIN pc /\ q \in DOMAIN stamp /\ q \in DOMAIN expires
      /\ Home[q] \in Processes /\ Home[q] \in DOMAIN localLeases
    BY ConstantTypes, RuntimeConstants DEF TypeOK
<1>1. q \in leases <=> expires[q] # 0
    BY DEF leases
<1>2. q \in leases' <=> expires'[q] # 0
    BY DEF leases
<1>3. ASSUME NEW r \in Requests,
             Begin(r) \/ CountRequest(r) \/ ExpireCounter(r) \/ RefuseUncoordinated(r)
      PROVE  LeakSound(q)'
  <2>1. UNCHANGED <<expires, localLeases, lost>>
      BY <1>3 DEF Begin, CountRequest, ExpireCounter, RefuseUncoordinated, redis, maps
  <2>2. pc[r] \in {"idle", "count", "expire"}
      BY <1>3 DEF Begin, CountRequest, ExpireCounter, RefuseUncoordinated
  <2>3. q # r => pc'[q] = pc[q] /\ stamp'[q] = stamp[q]
      BY <1>0, <1>3 DEF Begin, CountRequest, ExpireCounter, RefuseUncoordinated, Goto
  <2>4. q = r => q \notin leases /\ q \notin localLeases[Home[q]]
      BY <2>2 DEF LeakSound
  <2> QED BY <1>1, <1>2, <2>1, <2>3, <2>4 DEF LeakSound
<1>4. ASSUME NEW r \in Requests, RunScript(r)
      PROVE  /\ q # r => expires'[q] \in {expires[q], 0}
             /\ Room(r) => expires'[r] = stamp[r] + LeaseTtl
             /\ ~Room(r) => expires'[r] \in {expires[r], 0}
    BY <1>4 DEF RunScript
<1>5. ASSUME NEW r \in Requests, TakeLease(r) PROVE LeakSound(q)'
  <2>1. /\ RunScript(r) /\ pc[r] = "lease" /\ UNCHANGED <<localLeases, stamp, lost>>
        /\ pc' = [pc EXCEPT ![r] = IF Room(r) THEN "running" ELSE "refused"]
      BY <1>5 DEF TakeLease, maps, Goto
  <2>2. CASE q # r
    <3>1. pc'[q] = pc[q]
        BY <1>0, <2>1, <2>2
    <3> QED BY <1>0, <1>1, <1>2, <1>4, <2>1, <2>2, <3>1 DEF LeakSound
  <2>3. CASE q = r
    <3>1. q \notin localLeases[Home[q]]
        BY <2>1, <2>3 DEF LeakSound
    <3>2. pc'[q] = IF Room(r) THEN "running" ELSE "refused"
        BY <1>0, <2>1, <2>3
    <3>3. CASE Room(r)
        BY <1>0, <1>2, <1>4, <2>1, <2>3, <3>1, <3>2, <3>3 DEF LeakSound
    <3>4. CASE ~Room(r)
        BY <1>0, <1>1, <1>2, <1>4, <2>1, <2>3, <3>1, <3>2, <3>4 DEF LeakSound
    <3> QED BY <3>3, <3>4
  <2> QED BY <2>2, <2>3
<1>6. ASSUME NEW r \in Requests, Unanswered(r) PROVE LeakSound(q)'
  <2>1. lost' = lost \cup {r} /\ UNCHANGED <<pc, stamp, localLeases>>
      BY <1>6 DEF Unanswered, maps
  <2>2. CASE UNCHANGED expires
      BY <1>1, <1>2, <2>1, <2>2 DEF LeakSound
  <2>3. CASE pc[r] = "lease" /\ RunScript(r)
    <3>1. CASE q # r
        BY <1>0, <1>1, <1>2, <1>4, <2>1, <2>3, <3>1 DEF LeakSound
    <3>2. CASE q = r
      <4>1. q \in leases' => expires'[q] <= stamp[q] + LeaseTtl
          BY <1>0, <1>1, <1>2, <1>4, <2>3, <3>2 DEF LeakSound
      <4>2. q \notin localLeases[Home[q]]
          BY <2>3, <3>2 DEF LeakSound
      <4> QED BY <2>1, <2>3, <3>2, <4>1, <4>2 DEF LeakSound
    <3> QED BY <3>1, <3>2
  <2> QED BY <1>6, <2>2, <2>3 DEF Unanswered
<1>7. ASSUME NEW r \in Requests, AcquireLocal(r) PROVE LeakSound(q)'
  <2> DEFINE live == {x \in localLeases[Home[r]] : stamp[x] + LeaseTtl > now}
  <2>1. pc[r] = "idle" /\ UNCHANGED <<expires, lost>>
      BY <1>7 DEF AcquireLocal, redis
  <2>2. \/ localLeases' = localLeases
        \/ localLeases' = [localLeases EXCEPT ![Home[r]] = live]
        \/ localLeases' = [localLeases EXCEPT ![Home[r]] = live \cup {r}] /\ pc' = [pc EXCEPT ![r] = "local"]
      BY <1>7 DEF AcquireLocal, Goto
  <2>3. CASE q # r
    <3>1. pc'[q] = pc[q] /\ stamp'[q] = stamp[q]
        BY <1>0, <1>7, <2>3 DEF AcquireLocal, Goto
    <3>2. q \in localLeases'[Home[q]] => q \in localLeases[Home[q]]
        BY <1>0, <2>2, <2>3
    <3> QED BY <1>1, <1>2, <2>1, <3>1, <3>2 DEF LeakSound
  <2>4. CASE q = r
    <3>1. q \notin leases /\ q \notin localLeases[Home[q]]
        BY <2>1, <2>4 DEF LeakSound
    <3>2. q \in localLeases'[Home[q]] => pc'[q] = "local"
        BY <1>0, <2>2, <2>4, <3>1
    <3> QED BY <1>1, <1>2, <2>1, <3>1, <3>2 DEF LeakSound
  <2> QED BY <2>3, <2>4
<1>8. ASSUME NEW r \in Requests, Release(r) PROVE LeakSound(q)'
  <2>1. /\ pc[r] \in {"running", "local"} /\ pc' = [pc EXCEPT ![r] = "done"] /\ stamp' = stamp
        /\ lost' = IF Ready(r) = (pc[r] = "running") THEN lost ELSE lost \cup {r}
        /\ IF Ready(r)
           THEN expires' = [expires EXCEPT ![r] = 0] /\ localLeases' = localLeases
           ELSE localLeases' = [localLeases EXCEPT ![Home[r]] = @ \ {r}] /\ expires' = expires
      BY <1>8 DEF Release, Running, Goto
  <2>2. CASE q # r
    <3>1. pc'[q] = pc[q] /\ (expires'[q] = expires[q])
        BY <1>0, <2>1, <2>2
    <3>2. q \in localLeases'[Home[q]] => q \in localLeases[Home[q]]
        BY <1>0, <2>1
    <3>3. q \in lost => q \in lost'
        BY <2>1
    <3> QED BY <1>1, <1>2, <2>1, <3>1, <3>2, <3>3 DEF LeakSound
  <2>3. CASE q = r
    <3>1. pc'[q] = "done"
        BY <1>0, <2>1, <2>3
    <3>2. CASE Ready(r)
      <4>1. q \notin leases'
          BY <1>0, <1>2, <2>1, <2>3, <3>2
      <4>2. q \in localLeases'[Home[q]] => q \in lost'
        <5>1. q \in localLeases'[Home[q]] => pc[r] # "running" \/ r \in lost
            BY <2>1, <2>3, <3>2 DEF LeakSound
        <5>2. pc[r] # "running" => r \in lost'
            BY <2>1, <3>2
        <5>3. lost \subseteq lost'
            BY <2>1
        <5> QED BY <2>3, <5>1, <5>2, <5>3
      <4> QED BY <3>1, <4>1, <4>2 DEF LeakSound
    <3>3. CASE ~Ready(r)
      <4>1. q \notin localLeases'[Home[q]]
          BY <1>0, <2>1, <2>3, <3>3
      <4>2. q \in leases' => q \in lost'
        <5>1. q \in leases' => pc[r] = "running" \/ r \in lost
            BY <1>1, <1>2, <2>1, <2>3, <3>3 DEF LeakSound
        <5>2. pc[r] = "running" => r \in lost'
          <6>1. Ready(r) \in BOOLEAN
              BY RuntimeConstants DEF Ready, TypeOK
          <6> QED BY <2>1, <3>3, <6>1
        <5>3. lost \subseteq lost'
            BY <2>1
        <5> QED BY <2>3, <5>1, <5>2, <5>3
      <4>3. q \in leases' => expires'[q] <= stamp'[q] + LeaseTtl
          BY <1>1, <1>2, <2>1, <3>3 DEF LeakSound
      <4> QED BY <3>1, <4>1, <4>2, <4>3 DEF LeakSound
    <3> QED BY <3>2, <3>3
  <2> QED BY <2>2, <2>3
<1>9. ASSUME NEW p \in Processes, Crash(p) PROVE LeakSound(q)'
  <2> DEFINE served == {r \in Requests : Home[r] = p /\ pc[r] \notin {"idle", "refused", "done"}}
  <2>1. /\ pc'[q] = IF q \in served THEN "done" ELSE pc[q]
        /\ lost' = lost \cup served /\ UNCHANGED <<expires, stamp>>
        /\ localLeases' = [localLeases EXCEPT ![p] = {}]
      BY <1>9 DEF Crash, redis
  <2>2. q \in localLeases'[Home[q]] => q \in localLeases[Home[q]] /\ q \notin served
      BY <1>0, <2>1
  <2> QED BY <1>1, <1>2, <2>1, <2>2 DEF LeakSound
<1>10. CASE UNCHANGED <<expires, localLeases, stamp, pc, lost>>
    BY <1>1, <1>2, <1>10 DEF LeakSound
<1>11. ASSUME NEW p \in Processes, Connection(p) PROVE UNCHANGED <<expires, localLeases, stamp, pc, lost>>
    BY <1>11 DEF Connection, redis, maps
<1>12. CASE Tick \/ UNCHANGED vars
    BY <1>10, <1>12 DEF Tick, vars, redis, maps
<1> QED BY <1>3, <1>5, <1>6, <1>7, <1>8, <1>9, <1>10, <1>11, <1>12 DEF Next

\* A request that is over keeps a lease only if an answer or its release was lost to an outage,
\* and no longer than LeaseTtl from the time it asked.
THEOREM LeaksBounded == Spec => []LeaksOnlyByOutage
<1> DEFINE Inv == \A r \in Requests : LeakSound(r)
<1>1. Init => Inv
    BY RuntimeConstants DEF Init, LeakSound, leases
<1>2. TypeOK /\ Inv /\ [Next]_vars => Inv'
    BY LeakStep
<1>3. Inv => LeaksOnlyByOutage
    BY DEF LeakSound, LeaksOnlyByOutage
<1> QED BY <1>1, <1>2, <1>3, Typing, PTL DEF Spec

-----------------------------------------------------------------------------
\* Which minute a time belongs to: later times to no earlier minutes, and a whole window
\* later to the next one at least.
LEMMA LaterMinute ==
    ASSUME NEW a \in Nat, NEW b \in Nat, a <= b
    PROVE  /\ a \div Minute \in Nat /\ a \div Minute <= b \div Minute
           /\ b \div Minute >= 0
<1>0. Minute \in Nat /\ Minute > 0
    BY RuntimeConstants
<1> QED BY <1>0

LEMMA NextMinute ==
    ASSUME NEW a \in Nat, NEW b \in Nat, a <= b
    PROVE  a \div Minute < (b + RateTtl) \div Minute
<1>0. Minute \in Nat /\ Minute > 0 /\ RateTtl \in Nat /\ Minute <= RateTtl
    BY RuntimeConstants
<1>1. (a + Minute) \div Minute = a \div Minute + 1
    BY <1>0
<1>2. a + Minute \in Nat /\ b + RateTtl \in Nat /\ a + Minute <= b + RateTtl
    BY <1>0
<1>3. (a + Minute) \div Minute <= (b + RateTtl) \div Minute
    BY <1>2, LaterMinute
<1>4. a \div Minute \in Nat
    BY LaterMinute
<1> QED BY <1>1, <1>3, <1>4, <1>2, LaterMinute

LEMMA MinuteTypes ==
    ASSUME TypeOK, NEW m \in Minutes
    PROVE  /\ rate[m] \in Nat /\ rateExpiry[m] \in Nat /\ admitted[m] \in Nat
           /\ now \in Nat /\ m \in Nat
           /\ now \div Minute \in Nat /\ RateLimit \in Nat
           /\ m \in DOMAIN rate /\ m \in DOMAIN rateExpiry /\ m \in DOMAIN admitted
<1>1. rate \in [Minutes -> Nat] /\ rateExpiry \in [Minutes -> Nat] /\ admitted \in [Minutes -> Nat]
    BY DEF TypeOK
<1>2. rate[m] \in Nat /\ rateExpiry[m] \in Nat /\ admitted[m] \in Nat
    BY <1>1
<1>3. m \in DOMAIN rate /\ m \in DOMAIN rateExpiry /\ m \in DOMAIN admitted
    BY <1>1
<1>4. now \in Nat /\ MaxTime \in Nat /\ RateLimit \in Nat
    BY ConstantTypes, RuntimeConstants DEF TypeOK
<1>5. now \div Minute \in Nat /\ MaxTime \div Minute \in Nat
    BY <1>4, LaterMinute
<1>6. m \in Nat
    BY <1>5 DEF Minutes
<1> QED BY <1>2, <1>3, <1>4, <1>5, <1>6

\* A counter is not dropped before its minute is over, and counts what it has admitted.
RateSound(m) ==
    /\ rateExpiry[m] # 0 => m < rateExpiry[m] \div Minute
    /\ admitted[m] <= RateLimit
    /\ now \div Minute <= m => admitted[m] <= rate[m]

LEMMA NotDropped ==
    ASSUME TypeOK, NEW m \in Minutes, RateSound(m), now \div Minute <= m
    PROVE  ~Dropped(m) /\ Incr(m) = rate[m] + 1
<1>1. rateExpiry[m] \in Nat /\ now \in Nat /\ m \in Nat
    BY MinuteTypes
<1>2. rateExpiry[m] # 0 /\ rateExpiry[m] <= now => rateExpiry[m] \div Minute <= now \div Minute
    BY <1>1, LaterMinute
<1>3. rateExpiry[m] \div Minute \in Nat /\ now \div Minute \in Nat
    BY <1>1, LaterMinute
<1>4. ~Dropped(m)
    BY <1>1, <1>2, <1>3 DEF Dropped, RateSound
<1> QED BY <1>4 DEF Incr

LEMMA RateStep ==
    ASSUME TypeOK, StampsPast, NEW m \in Minutes, RateSound(m), [Next]_vars
    PROVE  RateSound(m)'
<1>0. /\ rate[m] \in Nat /\ rateExpiry[m] \in Nat /\ admitted[m] \in Nat /\ now \in Nat /\ m \in Nat
      /\ now \div Minute \in Nat /\ RateLimit \in Nat
      /\ m \in DOMAIN rate /\ m \in DOMAIN rateExpiry /\ m \in DOMAIN admitted
    BY MinuteTypes
<1>1. ASSUME NEW r \in Requests, Increment(MinuteOf(r))
      PROVE  /\ rateExpiry'[m] \in {rateExpiry[m], 0}
             /\ now \div Minute <= m =>
                  rate'[m] = IF m = MinuteOf(r) THEN rate[m] + 1 ELSE rate[m]
  <2>1. /\ rate' = [rate EXCEPT ![MinuteOf(r)] = Incr(MinuteOf(r))]
        /\ rateExpiry' = [rateExpiry EXCEPT ![MinuteOf(r)] = IF Dropped(MinuteOf(r)) THEN 0 ELSE @]
      BY <1>1 DEF Increment
  <2>2. now \div Minute <= m => Incr(m) = rate[m] + 1
      BY NotDropped
  <2> QED BY <1>0, <2>1, <2>2
<1>2. ASSUME NEW r \in Requests, CountRequest(r) PROVE RateSound(m)'
  <2>1. /\ Increment(MinuteOf(r)) /\ now' = now
        /\ \/ admitted' = admitted
           \/ /\ Incr(MinuteOf(r)) <= RateLimit
              /\ admitted' = [admitted EXCEPT ![MinuteOf(r)] =
                                IF now \div Minute = MinuteOf(r) THEN @ + 1 ELSE @]
    <3>1. /\ Increment(MinuteOf(r)) /\ now' = now
          /\ \/ admitted' = admitted
             \/ /\ ~(Incr(MinuteOf(r)) > RateLimit)
                /\ admitted' = [admitted EXCEPT ![MinuteOf(r)] =
                                  IF now \div Minute = MinuteOf(r) THEN @ + 1 ELSE @]
        BY <1>2 DEF CountRequest
    <3>2. CASE MinuteOf(r) \in Minutes
      <4>1. Incr(MinuteOf(r)) \in Nat
          BY <3>2 DEF Incr, TypeOK
      <4> QED BY <1>0, <3>1, <4>1
    <3>3. CASE MinuteOf(r) \notin Minutes
        BY <3>1, <3>3 DEF TypeOK
    <3> QED BY <3>2, <3>3
  <2>2. CASE m # MinuteOf(r) \/ now \div Minute # m
    <3>1. admitted'[m] = admitted[m]
        BY <1>0, <2>1, <2>2
    <3>2. now \div Minute <= m => rate'[m] >= rate[m]
        BY <1>0, <1>1, <2>1
    <3>3. now \div Minute <= m => rate'[m] \in Nat
        BY <1>0, <1>1, <2>1
    <3> QED BY <1>0, <1>1, <2>1, <3>1, <3>2, <3>3 DEF RateSound
  <2>3. CASE m = MinuteOf(r) /\ now \div Minute = m
    <3>1. Incr(m) = rate[m] + 1 /\ admitted[m] <= rate[m]
        BY <1>0, <2>3, NotDropped DEF RateSound
    <3>2. rate'[m] = rate[m] + 1
        BY <1>0, <1>1, <2>1, <2>3
    <3>3. admitted'[m] = admitted[m] \/ (admitted'[m] = admitted[m] + 1 /\ rate[m] + 1 <= RateLimit)
        BY <1>0, <2>1, <2>3, <3>1
    <3> QED BY <1>0, <1>1, <2>1, <3>1, <3>2, <3>3 DEF RateSound
  <2> QED BY <2>2, <2>3
<1>3. ASSUME NEW r \in Requests, ExpireCounter(r) PROVE RateSound(m)'
  <2>1. /\ rateExpiry' = [rateExpiry EXCEPT ![MinuteOf(r)] = now + RateTtl]
        /\ UNCHANGED <<now, rate, admitted>>
      BY <1>3 DEF ExpireCounter
  <2>2. stamp[r] \in Nat /\ stamp[r] <= now
      BY DEF TypeOK, StampsPast
  <2>3. MinuteOf(r) < (now + RateTtl) \div Minute
      BY <1>0, <2>2, NextMinute DEF MinuteOf
  <2>4. rateExpiry'[m] # 0 => m < rateExpiry'[m] \div Minute
      BY <1>0, <2>1, <2>3 DEF RateSound
  <2> QED BY <2>1, <2>4 DEF RateSound
<1>4. ASSUME NEW r \in Requests, Unanswered(r) PROVE RateSound(m)'
  <2>1. now' = now /\ admitted' = admitted
      BY <1>4 DEF Unanswered
  <2>2. CASE Increment(MinuteOf(r))
    <3>1. now \div Minute <= m => rate'[m] >= rate[m] /\ rate'[m] \in Nat
        BY <1>0, <1>1, <2>2
    <3> QED BY <1>0, <1>1, <2>1, <2>2, <3>1 DEF RateSound
  <2>3. CASE UNCHANGED <<rate, rateExpiry>>
      BY <2>1, <2>3 DEF RateSound
  <2> QED BY <1>4, <2>2, <2>3 DEF Unanswered
<1>5. CASE Tick
  <2>1. now' = now + 1 /\ UNCHANGED <<rate, rateExpiry, admitted>>
      BY <1>5 DEF Tick, redis
  <2>2. now \div Minute <= now' \div Minute /\ now' \div Minute \in Nat
      BY <1>0, <2>1, LaterMinute
  <2> QED BY <1>0, <2>1, <2>2 DEF RateSound
<1>6. CASE UNCHANGED <<now, rate, rateExpiry, admitted>>
    BY <1>6 DEF RateSound
<1>7. ASSUME NEW r \in Requests,
             Begin(r) \/ TakeLease(r) \/ RefuseUncoordinated(r) \/ AcquireLocal(r) \/ Release(r)
      PROVE  UNCHANGED <<now, rate, rateExpiry, admitted>>
    BY <1>7 DEF Begin, TakeLease, RefuseUncoordinated, AcquireLocal, Release, redis
<1>8. ASSUME NEW p \in Processes, Connection(p) \/ Crash(p)
      PROVE  UNCHANGED <<now, rate, rateExpiry, admitted>>
    BY <1>8 DEF Connection, Crash, redis
<1>9. CASE UNCHANGED vars
    BY <1>6, <1>9 DEF vars, redis
<1> QED BY <1>2, <1>3, <1>4, <1>5, <1>6, <1>7, <1>8, <1>9 DEF Next

\* No more requests than RateLimit get past the counter of a minute within that minute, however
\* processes die and commands are sent again.
THEOREM RateHolds == Spec => []AdmittedWithinRate
<1> DEFINE Inv == \A m \in Minutes : RateSound(m)
<1>1. Init => Inv /\ StampsPast
    BY ConstantTypes DEF Init, RateSound, StampsPast, Leasing, Running
<1>2. TypeOK /\ StampsPast /\ Inv /\ [Next]_vars => Inv'
  <2>1. Minutes' = Minutes
      BY DEF Minutes
  <2> QED BY <2>1, RateStep
<1>3. Inv => AdmittedWithinRate
    BY DEF RateSound, AdmittedWithinRate
<1> QED BY <1>1, <1>2, <1>3, Typing, StampsStep, PTL DEF Spec

-----------------------------------------------------------------------------
(***************************************************************************)
(* RunRequests, for every number of users, keys, workspaces and requests.  *)
(* RequestsInv says, await by await, what a request has learnt; what it    *)
(* has learnt stays true, because the fields it is about are never written *)
(* again: those of a key that has been given out, and those of a           *)
(* conversation that has been created.                                     *)
(***************************************************************************)

\* The fields of keys and conversations that are written once.
KeyStays(k) ==
    key[k].ws # None => /\ key'[k].ws = key[k].ws /\ key'[k].agent = key[k].agent
                        /\ key'[k].by = key[k].by
ConversationSame(c) ==
    /\ conv'[c].ws = conv[c].ws /\ conv'[c].agent = conv[c].agent
    /\ conv'[c].user = conv[c].user /\ conv'[c].key = conv[c].key
ConversationStays(c) == conv[c].ws # None => ConversationSame(c)
RequestSame(r) ==
    at'[r] = at[r] /\ ask'[r] = ask[r] /\ ctx'[r] = ctx[r] /\ run'[r] = run[r]

\* RequestsInv without the history.
Known(r) ==
    /\ OneCaller(r) /\ WorkspaceSelected(r) /\ AgentSelected(r) /\ ConversationSelected(r)
    /\ RunRecorded(r) /\ ConversationOnce(r)

-----------------------------------------------------------------------------
(* Types.                                                                  *)

LEMMA RequestsInitHolds == RequestsInit => RequestsTypeOK /\ RequestsInv
<1> SUFFICES ASSUME RequestsInit PROVE RequestsTypeOK /\ RequestsInv
    OBVIOUS
<1>1. RequestsTypeOK
    BY RunRequestsConstants DEF RequestsInit, RequestsTypeOK, NoKey, NoConversation, NoAsk, NoContext, NoRun,
                                Stages, Scopes
<1>2. ASSUME NEW r \in Reqs PROVE Known(r) /\ RightsSoFar(r)
    BY <1>2 DEF RequestsInit, Known, OneCaller, WorkspaceSelected, AgentSelected, ConversationSelected,
            RunRecorded, ConversationOnce, RightsSoFar, Keyed, NoAsk, NoRun, NoConversation
<1>3. KeysGiven
    BY DEF RequestsInit, KeysGiven
<1> QED BY <1>1, <1>2, <1>3 DEF RequestsInv, Known

\* Who calls, and where: a member's organization and workspace.
LEMMA CallerTyped ==
    ASSUME RequestsTypeOK, NEW r \in Reqs, OneCaller(r), at[r] \notin {"idle", "done"}
    PROVE  /\ Caller(r) \in Users
           /\ Org(r) \in Orgs \cup {None} /\ Ws(r) \in Workspaces \cup {None}
           /\ Keyed(r) => ask[r].key \in Keys /\ key[ask[r].key].ws \in Workspaces
<1>1. /\ ask[r].key \in Keys \cup {None} /\ ask[r].user \in Users \cup {None}
      /\ ask[r].org \in Orgs \cup {None} /\ ask[r].ws \in Workspaces \cup {None}
    BY DEF RequestsTypeOK
<1>2. CASE Keyed(r)
  <2>1. ask[r].key \in Keys
      BY <1>1, <1>2 DEF Keyed
  <2>2. key[ask[r].key].ws \in Workspaces /\ key[ask[r].key].by \in Users
      BY <2>1, <1>2 DEF RequestsTypeOK, OneCaller
  <2>3. OrgOf[key[ask[r].key].ws] \in Orgs
      BY <2>2, RunRequestsConstants
  <2> QED BY <1>1, <1>2, <2>1, <2>2, <2>3 DEF Caller, Org, Ws
<1>3. CASE ~Keyed(r)
    BY <1>1, <1>3 DEF Keyed, OneCaller, Caller, Org, Ws
<1> QED BY <1>2, <1>3

LEMMA RefuseTyped ==
    ASSUME RequestsTypeOK, NEW r \in Reqs, Refuse(r), UNCHANGED <<role, key, agent, conv, run>>
    PROVE  /\ at' \in [Reqs -> Stages] /\ ask' \in [Reqs -> [key : Keys \cup {None},
                user : Users \cup {None}, org : Orgs \cup {None}, ws : Workspaces \cup {None},
                agent : Agents \cup {None}, debug : BOOLEAN, conv : Reqs \cup {None}]]
           /\ ctx' \in [Reqs -> [ws : Workspaces \cup {None},
                permissions : SUBSET {"agent:run", "agent:debug"}, conv : Reqs \cup {None}]]
           /\ leased' \subseteq Reqs
<1>1. NoAsk \in [key : Keys \cup {None}, user : Users \cup {None}, org : Orgs \cup {None},
                 ws : Workspaces \cup {None}, agent : Agents \cup {None}, debug : BOOLEAN,
                 conv : Reqs \cup {None}]
    BY DEF NoAsk
<1>2. NoContext \in [ws : Workspaces \cup {None}, permissions : SUBSET {"agent:run", "agent:debug"},
                     conv : Reqs \cup {None}]
    BY DEF NoContext
<1>3. "done" \in Stages
    BY DEF Stages
<1> QED BY <1>1, <1>2, <1>3 DEF Refuse, GoOn, RequestsTypeOK

Contexts == [ws : Workspaces \cup {None}, permissions : SUBSET {"agent:run", "agent:debug"},
             conv : Reqs \cup {None}]

\* A context that has found its conversation.
LEMMA ContextTyped ==
    ASSUME RequestsTypeOK, NEW r \in Reqs
    PROVE  /\ [ctx[r] EXCEPT !.conv = r] \in Contexts
           /\ [ctx[r] EXCEPT !.conv = ask[r].conv] \in Contexts
<1>1. ctx[r] \in Contexts /\ ask[r].conv \in Reqs \cup {None}
    BY DEF RequestsTypeOK, Contexts
<1> QED BY <1>1 DEF Contexts

LEMMA StepTyped ==
    ASSUME RequestsTypeOK, NEW r \in Reqs, OneCaller(r), Step(r),
           seen' \in [Reqs -> SUBSET {"credential", "role", "agent"}]
    PROVE  RequestsTypeOK'
<1>1. CASE Arrive(r)
  <2>1. PICK q \in Asks, c \in (Reqs \ {r}) \cup {None},
             caller \in Users \cup {k \in Keys : key[k] # NoKey} :
            /\ ask' = [ask EXCEPT ![r] =
                         [key |-> IF caller \in Keys THEN caller ELSE None,
                          user |-> IF caller \in Users THEN caller ELSE None,
                          org |-> q.org, ws |-> q.ws, agent |-> q.agent, debug |-> q.debug,
                          conv |-> c]]
            /\ at' = [at EXCEPT ![r] = IF caller \in Keys THEN "authenticate" ELSE "tenant"]
      BY <1>1 DEF Arrive, GoOn
  <2>2. q \in [org : Orgs \cup {None}, ws : Workspaces \cup {None}, agent : Agents, debug : BOOLEAN]
      BY RunRequestsConstants
  <2> QED BY <1>1, <2>1, <2>2 DEF Arrive, RequestsTypeOK, Stages, world
<1>2. CASE Authenticate(r)
    BY <1>2, RefuseTyped DEF Authenticate, RequestsTypeOK, Stages, world, GoOn
<1>3. CASE Tenant(r)
  <2>1. CASE Refuse(r)
      BY <1>3, <2>1, RefuseTyped DEF Tenant, RequestsTypeOK, world
  <2>2. CASE ~Refuse(r)
    <3>1. /\ ctx' = [ctx EXCEPT ![r] = [ws |-> Ws(r), permissions |-> Granted(r), conv |-> None]]
          /\ Selects(r) /\ GoOn(r, "acquire") /\ UNCHANGED <<ask, leased, world, conv, run>>
        BY <1>3, <2>2 DEF Tenant
    <3>2. Caller(r) \in Users /\ Org(r) \in Orgs /\ Ws(r) \in Workspaces
        BY <1>3, <3>1, CallerTyped DEF Tenant, Selects
    <3>3. Granted(r) \in SUBSET {"agent:run", "agent:debug"}
        BY <3>2 DEF Granted, RequestsTypeOK
    <3> QED BY <3>1, <3>2, <3>3 DEF GoOn, RequestsTypeOK, Stages, world
  <2> QED BY <2>1, <2>2
<1>4. CASE Acquire(r)
    BY <1>4, RefuseTyped DEF Acquire, RequestsTypeOK, Stages, world, GoOn
<1>5. CASE Executable(r)
    BY <1>5, RefuseTyped DEF Executable, RequestsTypeOK, Stages, world, GoOn
<1>6. CASE Converse(r)
  <2>0. "start" \in Stages
      BY DEF Stages
  <2>1. CASE ask[r].conv = None
    <3>1. /\ ctx[r].ws \in Workspaces \cup {None} /\ ask[r].agent \in Agents \cup {None}
          /\ ask[r].user \in Users \cup {None} /\ ask[r].key \in Keys \cup {None}
        BY DEF RequestsTypeOK
    <3>2. [ws |-> ctx[r].ws, agent |-> ask[r].agent, user |-> ask[r].user, key |-> ask[r].key,
           live |-> TRUE] \in [ws : Workspaces \cup {None}, agent : Agents \cup {None},
                              user : Users \cup {None}, key : Keys \cup {None}, live : BOOLEAN]
        BY <3>1
    <3>3. /\ conv' = [conv EXCEPT ![r] = [ws |-> ctx[r].ws, agent |-> ask[r].agent,
                          user |-> ask[r].user, key |-> ask[r].key, live |-> TRUE]]
          /\ ctx' = [ctx EXCEPT ![r] = [ctx[r] EXCEPT !.conv = r]]
        BY <1>6, <2>1 DEF Converse
    <3>4. /\ conv' \in [Reqs -> [ws : Workspaces \cup {None}, agent : Agents \cup {None},
                             user : Users \cup {None}, key : Keys \cup {None}, live : BOOLEAN]]
          /\ ctx' \in [Reqs -> Contexts]
        BY <3>2, <3>3, ContextTyped DEF RequestsTypeOK, Contexts
    <3>5. at' \in [Reqs -> Stages]
        BY <1>6, <2>0, <2>1 DEF Converse, GoOn, RequestsTypeOK
    <3> QED BY <1>6, <2>1, <3>4, <3>5 DEF Converse, world, RequestsTypeOK, Contexts
  <2>2. CASE ask[r].conv # None
    <3>1. CASE Refuse(r)
        BY <1>6, <2>2, <3>1, RefuseTyped DEF Converse, RequestsTypeOK, world
    <3>2. CASE ~Refuse(r)
      <4>1. ctx' = [ctx EXCEPT ![r] = [ctx[r] EXCEPT !.conv = ask[r].conv]] /\ GoOn(r, "start")
            /\ UNCHANGED <<ask, leased, conv, run, world>>
          BY <1>6, <2>2, <3>2 DEF Converse
      <4>2. ctx' \in [Reqs -> Contexts]
          BY <4>1, ContextTyped DEF RequestsTypeOK, Contexts
      <4>3. at' \in [Reqs -> Stages]
          BY <4>1, <2>0 DEF GoOn, RequestsTypeOK
      <4> QED BY <4>1, <4>2, <4>3 DEF world, RequestsTypeOK, Contexts
    <3> QED BY <3>1, <3>2
  <2> QED BY <2>1, <2>2
<1>7. CASE Start(r)
  <2>1. CASE conv[ctx[r].conv].live
    <3>1. Caller(r) \in Users
        BY <1>7, CallerTyped DEF Start
    <3>2. /\ Draft(r) \in BOOLEAN /\ ask[r].key \in Keys \cup {None}
          /\ ask[r].agent \in Agents \cup {None}
          /\ ctx[r].ws \in Workspaces \cup {None} /\ ctx[r].conv \in Reqs \cup {None}
        BY DEF Draft, RequestsTypeOK
    <3>3. [ws |-> ctx[r].ws, agent |-> ask[r].agent, draft |-> Draft(r), conv |-> ctx[r].conv,
           key |-> ask[r].key, user |-> Caller(r)]
            \in [ws : Workspaces \cup {None}, agent : Agents \cup {None}, draft : BOOLEAN,
                 conv : Reqs \cup {None}, key : Keys \cup {None}, user : Users \cup {None}]
        BY <3>1, <3>2
    <3>4. "running" \in Stages
        BY DEF Stages
    <3>5. run' \in [Reqs -> [ws : Workspaces \cup {None}, agent : Agents \cup {None},
                draft : BOOLEAN, conv : Reqs \cup {None}, key : Keys \cup {None},
                user : Users \cup {None}]]
        BY <1>7, <2>1, <3>3 DEF Start, RequestsTypeOK
    <3>6. at' \in [Reqs -> Stages]
        BY <1>7, <2>1, <3>4 DEF Start, GoOn, RequestsTypeOK
    <3> QED BY <1>7, <2>1, <3>5, <3>6 DEF Start, world, RequestsTypeOK
  <2>2. CASE ~conv[ctx[r].conv].live
      BY <1>7, <2>2, RefuseTyped DEF Start, RequestsTypeOK, world
  <2> QED BY <2>1, <2>2
<1>8. CASE End(r)
    BY <1>8, RefuseTyped DEF End, RequestsTypeOK, world
<1> QED BY <1>1, <1>2, <1>3, <1>4, <1>5, <1>6, <1>7, <1>8 DEF Step

LEMMA AdministerTyped ==
    ASSUME RequestsTypeOK, Administer, seen' \in [Reqs -> SUBSET {"credential", "role", "agent"}]
    PROVE  RequestsTypeOK'
<1>a. changes' \in 0..MaxChanges
    BY RunRequestsConstants DEF Administer, Change, RequestsTypeOK
<1>b. UNCHANGED <<at, ask, ctx, leased, run>>
    BY DEF Administer, CreateKey, EndKey, ChangeRole, UpdateStatus, Publish, Remove, Forget, requests
<1>0. changes' \in 0..MaxChanges /\ UNCHANGED <<at, ask, ctx, leased, run>>
    BY <1>a, <1>b
<1>1. ASSUME NEW k \in Keys, NEW u \in Users, NEW w \in Workspaces, NEW pin \in Agents \cup {None},
             NEW scopes \in Scopes, CreateKey(k, u, w, pin, scopes)
      PROVE  RequestsTypeOK'
    BY <1>0, <1>1 DEF CreateKey, RequestsTypeOK
<1>2. ASSUME NEW k \in Keys, EndKey(k) PROVE RequestsTypeOK'
  <2>1. key[k] \in
           [ws : Workspaces \cup {None}, agent : Agents \cup {None}, scopes : Scopes \cup {{}},
            by : Users \cup {None}, live : BOOLEAN]
      BY DEF RequestsTypeOK
  <2>2. [key[k] EXCEPT !.live = FALSE] \in
           [ws : Workspaces \cup {None}, agent : Agents \cup {None}, scopes : Scopes \cup {{}},
            by : Users \cup {None}, live : BOOLEAN]
      BY <2>1
  <2>3. key' = [key EXCEPT ![k] = [key[k] EXCEPT !.live = FALSE]]
      BY <1>2 DEF EndKey
  <2> QED BY <1>0, <1>2, <2>2, <2>3 DEF EndKey, RequestsTypeOK
<1>3. ASSUME NEW u \in Users, NEW w \in Workspaces, NEW ps \in Roles, ChangeRole(u, OrgOf[w], ps)
      PROVE  RequestsTypeOK'
    BY <1>0, <1>3, RunRequestsConstants DEF ChangeRole, RequestsTypeOK, Roles
<1>4. ASSUME NEW a \in Agents, NEW s \in {"DRAFT", "PUBLISHED", "ARCHIVED"}, UpdateStatus(a, s)
      PROVE  RequestsTypeOK'
    BY <1>0, <1>4 DEF UpdateStatus, RequestsTypeOK
<1>5. ASSUME NEW a \in Agents, Publish(a) \/ Remove(a) PROVE RequestsTypeOK'
  <2> DEFINE Rows == [status : {"DRAFT", "PUBLISHED", "ARCHIVED"}, published : BOOLEAN,
                      removed : BOOLEAN]
  <2>0. agent[a] \in Rows
      BY DEF RequestsTypeOK
  <2>1. /\ [agent[a] EXCEPT !.published = TRUE, !.status = "PUBLISHED"] \in Rows
        /\ [agent[a] EXCEPT !.removed = TRUE, !.status = "ARCHIVED"] \in Rows
      BY <2>0
  <2>2. \/ agent' = [agent EXCEPT ![a] = [agent[a] EXCEPT !.published = TRUE, !.status = "PUBLISHED"]]
        \/ agent' = [agent EXCEPT ![a] = [agent[a] EXCEPT !.removed = TRUE, !.status = "ARCHIVED"]]
      BY <1>5 DEF Publish, Remove
  <2>3. agent \in [Agents -> Rows]
      BY DEF RequestsTypeOK
  <2>4. agent' \in [Agents -> Rows]
    <3> HIDE DEF Rows
    <3> QED BY <2>1, <2>2, <2>3
  <2> QED BY <1>0, <1>5, <2>4 DEF Publish, Remove, RequestsTypeOK
<1>6. ASSUME NEW c \in Reqs, Forget(c) PROVE RequestsTypeOK'
  <2>1. conv[c] \in
           [ws : Workspaces \cup {None}, agent : Agents \cup {None}, user : Users \cup {None},
            key : Keys \cup {None}, live : BOOLEAN]
      BY DEF RequestsTypeOK
  <2>2. [conv[c] EXCEPT !.live = FALSE] \in
           [ws : Workspaces \cup {None}, agent : Agents \cup {None}, user : Users \cup {None},
            key : Keys \cup {None}, live : BOOLEAN]
      BY <2>1
  <2>3. conv' = [conv EXCEPT ![c] = [conv[c] EXCEPT !.live = FALSE]]
      BY <1>6 DEF Forget
  <2> QED BY <1>0, <1>6, <2>2, <2>3 DEF Forget, RequestsTypeOK
<1> QED BY <1>1, <1>2, <1>3, <1>4, <1>5, <1>6 DEF Administer

-----------------------------------------------------------------------------
(* What others do leaves what a request knows as it is.                    *)

LEMMA AdministerKeeps ==
    ASSUME RequestsTypeOK, Administer
    PROVE  /\ \A k \in Keys : KeyStays(k)
           /\ \A c \in Reqs : ConversationSame(c)
           /\ \A r \in Reqs : RequestSame(r)
<1>1. ASSUME NEW k \in Keys, NEW u \in Users, NEW w \in Workspaces, NEW pin \in Agents \cup {None},
             NEW scopes \in Scopes, CreateKey(k, u, w, pin, scopes)
      PROVE  /\ \A l \in Keys : KeyStays(l)
             /\ UNCHANGED conv
    BY <1>1 DEF CreateKey, RequestsTypeOK, KeyStays, NoKey
<1>2. ASSUME NEW k \in Keys, EndKey(k)
      PROVE  /\ \A l \in Keys : KeyStays(l)
             /\ UNCHANGED conv
    BY <1>2 DEF EndKey, RequestsTypeOK, KeyStays
<1>3. ASSUME NEW c \in Reqs, Forget(c)
      PROVE  /\ UNCHANGED key
             /\ \A d \in Reqs : ConversationSame(d)
    BY <1>3 DEF Forget, RequestsTypeOK, ConversationSame
<1>4. \/ (\A l \in Keys : KeyStays(l)) /\ UNCHANGED conv
      \/ UNCHANGED key /\ \A d \in Reqs : ConversationSame(d)
    BY <1>1, <1>2, <1>3 DEF Administer, ChangeRole, UpdateStatus, Publish, Remove, KeyStays, ConversationSame
<1>5. UNCHANGED requests
    BY DEF Administer, CreateKey, EndKey, ChangeRole, UpdateStatus, Publish, Remove, Forget
<1> QED BY <1>4, <1>5 DEF KeyStays, ConversationSame, RequestSame, requests

LEMMA StepKeeps ==
    ASSUME RequestsTypeOK, NEW r \in Reqs, ConversationOnce(r), Step(r)
    PROVE  /\ UNCHANGED world
           /\ \A c \in Reqs : ConversationStays(c)
           /\ \A q \in Reqs \ {r} : RequestSame(q) /\ ConversationSame(q)
           /\ at[r] # "converse" => UNCHANGED conv
           /\ at[r] # "start" => UNCHANGED run
<1>1. /\ \A q \in Reqs \ {r} : at'[q] = at[q] /\ ask'[q] = ask[q] /\ ctx'[q] = ctx[q]
      /\ UNCHANGED world
    BY DEF Step, Arrive, Authenticate, Tenant, Acquire, Executable, Converse, Start, End, Refuse, GoOn,
           RequestsTypeOK
<1>2. \/ UNCHANGED conv
      \/ /\ at[r] = "converse"
         /\ \E c \in [ws : Workspaces \cup {None}, agent : Agents \cup {None},
                      user : Users \cup {None}, key : Keys \cup {None}, live : BOOLEAN] :
              conv' = [conv EXCEPT ![r] = c]
  <2>1. [ws |-> ctx[r].ws, agent |-> ask[r].agent, user |-> ask[r].user, key |-> ask[r].key,
         live |-> TRUE] \in [ws : Workspaces \cup {None}, agent : Agents \cup {None},
                            user : Users \cup {None}, key : Keys \cup {None}, live : BOOLEAN]
      BY DEF RequestsTypeOK
  <2> QED BY <2>1 DEF Step, Arrive, Authenticate, Tenant, Acquire, Executable, Converse, Start, End
<1>3. \A q \in Reqs \ {r} : run'[q] = run[q]
    BY DEF Step, Arrive, Authenticate, Tenant, Acquire, Executable, Converse, Start, End, RequestsTypeOK
<1>4. at[r] # "start" => UNCHANGED run
    BY DEF Step, Arrive, Authenticate, Tenant, Acquire, Executable, Converse, Start, End
<1>5. \A q \in Reqs \ {r} : ConversationSame(q)
    BY <1>2 DEF ConversationSame, RequestsTypeOK
<1>6. ConversationStays(r)
    BY <1>2 DEF ConversationStays, ConversationSame, ConversationOnce
<1> QED BY <1>1, <1>2, <1>3, <1>4, <1>5, <1>6 DEF RequestSame, ConversationStays

\* A request that makes no step keeps what it knows.
LEMMA Bystander ==
    ASSUME RequestsTypeOK, NEW r \in Reqs, Known(r), RequestSame(r), ConversationSame(r),
           \A k \in Keys : KeyStays(k),
           \A c \in Reqs : ConversationStays(c)
    PROVE  Known(r)'
<1>0. /\ ask[r].key \in Keys \cup {None} /\ run[r].key \in Keys \cup {None}
      /\ ctx[r].conv \in Reqs \cup {None} /\ run[r].conv \in Reqs \cup {None}
    BY DEF RequestsTypeOK
<1>1. /\ Keyed(r)' = Keyed(r)
      /\ Keyed(r) => /\ key'[ask[r].key].ws = key[ask[r].key].ws
                     /\ key'[ask[r].key].agent = key[ask[r].key].agent
                     /\ key'[ask[r].key].by = key[ask[r].key].by
    BY <1>0 DEF Keyed, RequestSame, KeyStays, Known, OneCaller
<1>2. OneCaller(r)'
    BY <1>1 DEF RequestSame, Known, OneCaller
<1>3. Ws(r)' = Ws(r)
    BY <1>1 DEF Ws, RequestSame
<1>4. WorkspaceSelected(r)'
    BY <1>1, <1>3 DEF WorkspaceSelected, RequestSame, Known
<1>5. AgentSelected(r)'
    BY DEF AgentSelected, RequestSame, Known
<1>6. ConversationSelected(r)'
    BY <1>0, <1>1 DEF ConversationSelected, WorkspaceSelected, RequestSame, Known, ConversationStays,
                      ConversationSame
<1>7. RunRecorded(r)'
  <2>1. run[r].conv # None => ConversationSame(run[r].conv)
      BY <1>0 DEF RunRecorded, Known, ConversationStays
  <2>2. run[r].key # None => /\ key'[run[r].key].ws = key[run[r].key].ws
                             /\ key'[run[r].key].agent = key[run[r].key].agent
                             /\ key'[run[r].key].by = key[run[r].key].by
      BY <1>0 DEF RunRecorded, Known, KeyStays
  <2> QED BY <2>1, <2>2 DEF RunRecorded, Known, RequestSame, ConversationSame
<1>8. ConversationOnce(r)'
    BY DEF ConversationOnce, Known, RequestSame, ConversationSame
<1> QED BY <1>2, <1>4, <1>5, <1>6, <1>7, <1>8 DEF Known

-----------------------------------------------------------------------------
(* What a request learns by its own steps.                                 *)

\* A request that has ended knows nothing more; its run, if it has one, is as it was.
LEMMA Ended ==
    ASSUME RequestsTypeOK, NEW r \in Reqs, Known(r), Refuse(r), UNCHANGED <<key, conv, run>>
    PROVE  Known(r)'
<1>1. at'[r] = "done" /\ ask'[r] = NoAsk
    BY DEF Refuse, GoOn, RequestsTypeOK
<1>2. ~Keyed(r)'
    BY <1>1 DEF Keyed, NoAsk
<1>3. OneCaller(r)' /\ WorkspaceSelected(r)' /\ AgentSelected(r)' /\ ConversationSelected(r)'
    BY <1>1, <1>2 DEF OneCaller, WorkspaceSelected, AgentSelected, ConversationSelected
<1>4. RunRecorded(r)' /\ ConversationOnce(r)'
    BY <1>1 DEF Known, RunRecorded, ConversationOnce
<1> QED BY <1>3, <1>4 DEF Known

\* A request that goes on from one await to another, with what it carries and keys,
\* conversations and runs as they were, knows what it knew.
LEMMA GoesOn ==
    ASSUME RequestsTypeOK, NEW r \in Reqs, Known(r), UNCHANGED <<key, conv, run, ask>>, at'[r] # "done"
    PROVE  /\ RunRecorded(r)' /\ Ws(r)' = Ws(r) /\ Keyed(r)' = Keyed(r)
           /\ at[r] \notin {"idle", "done"} => OneCaller(r)'
           /\ at[r] \notin {"start", "running", "done"} => ConversationOnce(r)'
           /\ ConversationOnce(r) /\ at'[r] \in {"start", "running"} => ConversationOnce(r)'
<1>1. Ws(r)' = Ws(r) /\ Keyed(r)' = Keyed(r) /\ (Caller(r))' = Caller(r)
    BY DEF Ws, Keyed, Caller
<1> QED BY <1>1 DEF Known, RunRecorded, OneCaller, ConversationOnce, Keyed

LEMMA ArriveKnows ==
    ASSUME RequestsTypeOK, KeysGiven, NEW r \in Reqs, Known(r), Arrive(r)
    PROVE  Known(r)'
<1>1. PICK q \in Asks, c \in (Reqs \ {r}) \cup {None},
           caller \in Users \cup {k \in Keys : key[k] # NoKey} :
          /\ ask' = [ask EXCEPT ![r] =
                       [key |-> IF caller \in Keys THEN caller ELSE None,
                        user |-> IF caller \in Users THEN caller ELSE None,
                        org |-> q.org, ws |-> q.ws, agent |-> q.agent, debug |-> q.debug,
                        conv |-> c]]
          /\ at' = [at EXCEPT ![r] = IF caller \in Keys THEN "authenticate" ELSE "tenant"]
    BY DEF Arrive, GoOn
<1>2. UNCHANGED <<key, conv, run>> /\ at[r] = "idle"
    BY DEF Arrive, world
<1>3. q.agent \in Agents
    BY RunRequestsConstants
<1>4. /\ ask'[r].key = IF caller \in Keys THEN caller ELSE None
      /\ ask'[r].user = IF caller \in Users THEN caller ELSE None
      /\ ask'[r].agent # None
      /\ at'[r] \in {"authenticate", "tenant"}
    BY <1>1, <1>3, RunRequestsConstants DEF RequestsTypeOK
<1>5. caller \in Keys => key[caller].ws # None /\ key[caller].by # None
    BY RunRequestsConstants DEF KeysGiven
<1>6. OneCaller(r)'
    BY <1>2, <1>4, <1>5, RunRequestsConstants DEF OneCaller, Keyed
<1>7. WorkspaceSelected(r)' /\ AgentSelected(r)' /\ ConversationSelected(r)'
    BY <1>4 DEF WorkspaceSelected, AgentSelected, ConversationSelected
<1>8. RunRecorded(r)' /\ ConversationOnce(r)'
    BY <1>2, <1>4 DEF Known, RunRecorded, ConversationOnce
<1> QED BY <1>6, <1>7, <1>8 DEF Known

LEMMA AuthenticateKnows ==
    ASSUME RequestsTypeOK, NEW r \in Reqs, Known(r), Authenticate(r)
    PROVE  Known(r)'
<1>1. CASE Refuse(r)
    BY <1>1, Ended DEF Authenticate, world
<1>2. CASE GoOn(r, "tenant") /\ UNCHANGED <<ask, ctx>>
  <2>1. at'[r] = "tenant" /\ at[r] = "authenticate"
      BY <1>2 DEF Authenticate, GoOn, RequestsTypeOK
  <2>2. WorkspaceSelected(r)' /\ AgentSelected(r)' /\ ConversationSelected(r)'
      BY <2>1 DEF WorkspaceSelected, AgentSelected, ConversationSelected
  <2> QED BY <1>2, <2>1, <2>2, GoesOn DEF Authenticate, world, Known, ConversationOnce
<1> QED BY <1>1, <1>2 DEF Authenticate

LEMMA TenantKnows ==
    ASSUME RequestsTypeOK, NEW r \in Reqs, Known(r), Tenant(r)
    PROVE  Known(r)'
<1>1. CASE Refuse(r)
    BY <1>1, Ended DEF Tenant, world
<1>2. CASE ~Refuse(r)
  <2>1. /\ Selects(r) /\ MayRun(r)
        /\ ctx' = [ctx EXCEPT ![r] = [ws |-> Ws(r), permissions |-> Granted(r), conv |-> None]]
        /\ GoOn(r, "acquire") /\ UNCHANGED <<ask, key, conv, run>>
      BY <1>2 DEF Tenant, world
  <2>2. at'[r] = "acquire" /\ at[r] = "tenant" /\ ctx'[r].ws = Ws(r)
      BY <2>1 DEF Tenant, GoOn, RequestsTypeOK
  <2>3. /\ RunRecorded(r)' /\ OneCaller(r)' /\ ConversationOnce(r)'
        /\ Ws(r)' = Ws(r) /\ Keyed(r)' = Keyed(r)
      BY <2>1, <2>2, GoesOn
  <2>4. Keyed(r) => Ws(r) = key[ask[r].key].ws
      BY <2>1 DEF Selects, KeepsToItsKey, Ws
  <2>5. WorkspaceSelected(r)'
      BY <2>1, <2>2, <2>3, <2>4 DEF WorkspaceSelected, MayRun, Selects
  <2>6. AgentSelected(r)' /\ ConversationSelected(r)'
      BY <2>2 DEF AgentSelected, ConversationSelected
  <2> QED BY <2>3, <2>5, <2>6 DEF Known
<1> QED BY <1>1, <1>2

LEMMA AcquireKnows ==
    ASSUME RequestsTypeOK, NEW r \in Reqs, Known(r), Acquire(r) \/ Executable(r)
    PROVE  Known(r)'
<1>1. CASE Refuse(r)
    BY <1>1, Ended DEF Acquire, Executable, world
<1>2. CASE /\ \/ at[r] = "acquire" /\ GoOn(r, "executable")
              \/ at[r] = "executable" /\ GoOn(r, "converse") /\ Place[ask[r].agent] = ctx[r].ws
           /\ ask' = ask /\ ctx' = ctx
  <2>1. /\ at[r] \in {"acquire", "executable"} /\ at'[r] \in {"executable", "converse"}
        /\ at'[r] = "converse" => Place[ask[r].agent] = ctx[r].ws
      BY <1>2 DEF GoOn, RequestsTypeOK
  <2>2. UNCHANGED <<key, conv, run>>
      BY DEF Acquire, Executable, world
  <2>3. /\ RunRecorded(r)' /\ OneCaller(r)' /\ ConversationOnce(r)'
        /\ Ws(r)' = Ws(r) /\ Keyed(r)' = Keyed(r)
      BY <1>2, <2>1, <2>2, GoesOn
  <2>4. WorkspaceSelected(r)'
      BY <1>2, <2>1, <2>2, <2>3 DEF WorkspaceSelected, Known
  <2>5. AgentSelected(r)' /\ ConversationSelected(r)'
      BY <1>2, <2>1 DEF AgentSelected, ConversationSelected
  <2> QED BY <2>3, <2>4, <2>5 DEF Known
<1> QED BY <1>1, <1>2 DEF Acquire, Executable

LEMMA ConverseKnows ==
    ASSUME RequestsTypeOK, NEW r \in Reqs, Known(r), Converse(r),
           ask[r].conv \in Reqs => ConversationOnce(ask[r].conv)
    PROVE  Known(r)'
<1>0. at[r] = "converse" /\ UNCHANGED <<key, run>>
    BY DEF Converse, world
<1>1. CASE Refuse(r) /\ UNCHANGED conv
    BY <1>0, <1>1, Ended
<1>2. CASE /\ ask[r].conv = None /\ GoOn(r, "start") /\ UNCHANGED ask
           /\ conv' = [conv EXCEPT ![r] = [ws |-> ctx[r].ws, agent |-> ask[r].agent,
                          user |-> ask[r].user, key |-> ask[r].key, live |-> TRUE]]
           /\ ctx' = [ctx EXCEPT ![r].conv = r]
  <2>1. /\ at'[r] = "start" /\ ctx'[r].conv = r /\ ctx'[r].ws = ctx[r].ws
        /\ conv'[r] = [ws |-> ctx[r].ws, agent |-> ask[r].agent, user |-> ask[r].user,
                       key |-> ask[r].key, live |-> TRUE]
      BY <1>2 DEF GoOn, RequestsTypeOK
  <2>2. Ws(r)' = Ws(r) /\ Keyed(r)' = Keyed(r)
      BY <1>0, <1>2 DEF Ws, Keyed
  <2>3. OneCaller(r)' /\ WorkspaceSelected(r)' /\ AgentSelected(r)'
      BY <1>0, <1>2, <2>1, <2>2 DEF Known, OneCaller, WorkspaceSelected, AgentSelected
  <2>4. ConversationSelected(r)'
      BY <1>2, <2>1, RunRequestsConstants DEF ConversationSelected
  <2>5. ConversationOnce(r)'
      BY <1>0, <2>1 DEF ConversationOnce, Known, OneCaller
  <2>6. run[r].conv # r
      BY <1>0, RunRequestsConstants DEF Known, RunRecorded, ConversationOnce
  <2>7. RunRecorded(r)'
    <3>1. run[r].conv \in Reqs \cup {None} /\ run[r].key \in Keys \cup {None}
        BY DEF RequestsTypeOK
    <3>2. run[r].conv # None => conv'[run[r].conv] = conv[run[r].conv]
        BY <1>2, <2>6, <3>1 DEF RequestsTypeOK
    <3>3. run[r].key = None
        BY <2>6 DEF Known, RunRecorded
    <3> QED BY <1>0, <3>2, <3>3 DEF Known, RunRecorded
  <2> QED BY <2>3, <2>4, <2>5, <2>7 DEF Known
<1>3. CASE /\ ask[r].conv # None /\ GoOn(r, "start") /\ UNCHANGED <<ask, conv>>
           /\ ~Keyed(r) /\ Found(r, ask[r].conv)
           /\ ctx' = [ctx EXCEPT ![r].conv = ask[r].conv]
  <2>1. at'[r] = "start" /\ ctx'[r].conv = ask[r].conv /\ ctx'[r].ws = ctx[r].ws
      BY <1>3 DEF GoOn, RequestsTypeOK
  <2>2. /\ RunRecorded(r)' /\ OneCaller(r)' /\ ConversationOnce(r)'
        /\ Ws(r)' = Ws(r) /\ Keyed(r)' = Keyed(r)
      BY <1>0, <1>3, <2>1, GoesOn DEF Known
  <2>3. WorkspaceSelected(r)' /\ AgentSelected(r)'
      BY <1>0, <1>3, <2>1, <2>2 DEF Known, WorkspaceSelected, AgentSelected
  <2>4. ask[r].user # None /\ ask[r].key = None
      BY <1>0, <1>3 DEF Known, OneCaller, Keyed
  <2>5. ask[r].conv \in Reqs
      BY <1>3 DEF RequestsTypeOK
  <2>6. conv[ask[r].conv].user = ask[r].user /\ conv[ask[r].conv].key = None
      BY <1>3, <2>4, <2>5 DEF Found, Caller, ConversationOnce
  <2>7. ConversationSelected(r)'
      BY <1>3, <2>1, <2>2, <2>4, <2>6 DEF ConversationSelected, Found
  <2> QED BY <2>2, <2>3, <2>7 DEF Known
<1> QED BY <1>1, <1>2, <1>3 DEF Converse

LEMMA StartKnows ==
    ASSUME RequestsTypeOK, NEW r \in Reqs, Known(r), Start(r)
    PROVE  Known(r)'
<1>0. at[r] = "start" /\ UNCHANGED <<key, conv>>
    BY DEF Start, world
<1>1. CASE Refuse(r) /\ UNCHANGED run
    BY <1>0, <1>1, Ended
<1>2. CASE /\ run' = [run EXCEPT ![r] = [ws |-> ctx[r].ws, agent |-> ask[r].agent,
                        draft |-> Draft(r), conv |-> ctx[r].conv,
                        key |-> ask[r].key, user |-> Caller(r)]]
           /\ GoOn(r, "running") /\ ask' = ask /\ ctx' = ctx
  <2>1. /\ at'[r] = "running"
        /\ run'[r] = [ws |-> ctx[r].ws, agent |-> ask[r].agent, draft |-> Draft(r),
                      conv |-> ctx[r].conv, key |-> ask[r].key, user |-> Caller(r)]
      BY <1>2 DEF GoOn, RequestsTypeOK
  <2>2. Ws(r)' = Ws(r) /\ Keyed(r)' = Keyed(r)
      BY <1>0, <1>2 DEF Ws, Keyed
  <2>3. OneCaller(r)' /\ WorkspaceSelected(r)' /\ AgentSelected(r)' /\ ConversationSelected(r)'
      BY <1>0, <1>2, <2>1, <2>2 DEF Known, OneCaller, WorkspaceSelected, AgentSelected,
                                    ConversationSelected
  <2>4. ConversationOnce(r)'
      BY <1>0, <2>1 DEF Known, ConversationOnce
  <2>5. /\ ctx[r].conv # None /\ ctx[r].ws # None /\ ask[r].agent # None
        /\ conv[ctx[r].conv].ws = ctx[r].ws /\ conv[ctx[r].conv].agent = ask[r].agent
        /\ conv[ctx[r].conv].key = ask[r].key /\ conv[ctx[r].conv].user = ask[r].user
        /\ Place[ask[r].agent] = ctx[r].ws
      BY <1>0 DEF Known, OneCaller, WorkspaceSelected, AgentSelected, ConversationSelected
  <2>6. ~Keyed(r) => ask[r].key = None /\ Caller(r) = ask[r].user
      BY DEF Keyed, Caller
  <2>7. Keyed(r) => /\ key[ask[r].key].ws = ctx[r].ws /\ key[ask[r].key].by = Caller(r)
                    /\ key[ask[r].key].agent \in {None, ask[r].agent}
                    /\ ~Draft(r) /\ ctx[r].conv = r /\ ask[r].user = None
      BY <1>0 DEF Known, OneCaller, WorkspaceSelected, ConversationSelected, Keyed, Caller, Draft
  <2>8. RunRecorded(r)'
      BY <1>0, <2>1, <2>5, <2>6, <2>7 DEF RunRecorded, Keyed
  <2> QED BY <2>3, <2>4, <2>8 DEF Known
<1> QED BY <1>1, <1>2 DEF Start

LEMMA StepKnows ==
    ASSUME RequestsTypeOK, KeysGiven, \A q \in Reqs : Known(q), NEW r \in Reqs, Step(r)
    PROVE  KeysGiven' /\ \A q \in Reqs : Known(q)'
<1>1. Known(r)'
  <2>1. ask[r].conv \in Reqs => ConversationOnce(ask[r].conv)
      BY DEF Known
  <2>2. CASE End(r)
      BY <2>2, Ended DEF End, world
  <2> QED BY <2>1, <2>2, ArriveKnows, AuthenticateKnows, TenantKnows, AcquireKnows, ConverseKnows,
             StartKnows DEF Step
<1>2. /\ UNCHANGED key
      /\ \A c \in Reqs : ConversationStays(c)
      /\ \A q \in Reqs \ {r} : RequestSame(q) /\ ConversationSame(q)
    BY StepKeeps DEF Known, world
<1>3. \A k \in Keys : KeyStays(k)
    BY <1>2 DEF KeyStays
<1>4. \A q \in Reqs \ {r} : Known(q)'
    BY <1>2, <1>3, Bystander
<1> QED BY <1>1, <1>2, <1>4 DEF KeysGiven

LEMMA AdministerKnows ==
    ASSUME RequestsTypeOK, KeysGiven, \A q \in Reqs : Known(q), Administer
    PROVE  KeysGiven' /\ \A q \in Reqs : Known(q)'
<1>1. \A q \in Reqs : Known(q)'
    BY AdministerKeeps, Bystander DEF ConversationStays
<1>2. ASSUME NEW k \in Keys, NEW u \in Users, NEW w \in Workspaces, NEW pin \in Agents \cup {None},
             NEW scopes \in Scopes, CreateKey(k, u, w, pin, scopes)
      PROVE  KeysGiven'
    BY <1>2, RunRequestsConstants DEF CreateKey, KeysGiven, RequestsTypeOK
<1>3. ASSUME NEW k \in Keys, EndKey(k) PROVE KeysGiven'
  <2>1. key[k] # NoKey
      BY <1>3 DEF EndKey, NoKey
  <2>2. key'[k].ws = key[k].ws /\ key'[k].by = key[k].by /\ \A l \in Keys \ {k} : key'[l] = key[l]
      BY <1>3 DEF EndKey, RequestsTypeOK
  <2> QED BY <2>1, <2>2 DEF KeysGiven
<1>4. UNCHANGED key => KeysGiven'
    BY DEF KeysGiven
<1>5. KeysGiven'
    BY <1>2, <1>3, <1>4 DEF Administer, ChangeRole, UpdateStatus, Publish, Remove, Forget
<1> QED BY <1>1, <1>5

-----------------------------------------------------------------------------
(* The history: the rights a request has had.                              *)

\* The await by which a right has been looked at.
LEMMA RightsLooked ==
    ASSUME RequestsTypeOK, NEW r \in Reqs, Known(r), Step(r)
    PROVE  /\ at'[r] = "tenant" => "credential" \in Rights(r)'
           /\ at'[r] = "acquire" => at[r] = "tenant" /\ "role" \in Rights(r)'
           /\ at'[r] = "converse" => at[r] = "executable" /\ "agent" \in Rights(r)'
           /\ at'[r] = "executable" => at[r] = "acquire"
           /\ at'[r] = "start" => at[r] = "converse"
           /\ at'[r] = "running" => at[r] = "start"
<1>r. Refuse(r) => at'[r] = "done"
    BY DEF Refuse, GoOn, RequestsTypeOK
<1>1. CASE Arrive(r)
  <2>1. PICK q \in Asks, c \in (Reqs \ {r}) \cup {None},
             caller \in Users \cup {k \in Keys : key[k] # NoKey} :
            /\ ask' = [ask EXCEPT ![r] =
                         [key |-> IF caller \in Keys THEN caller ELSE None,
                          user |-> IF caller \in Users THEN caller ELSE None,
                          org |-> q.org, ws |-> q.ws, agent |-> q.agent, debug |-> q.debug,
                          conv |-> c]]
            /\ at' = [at EXCEPT ![r] = IF caller \in Keys THEN "authenticate" ELSE "tenant"]
      BY <1>1 DEF Arrive, GoOn
  <2>2. /\ at'[r] = IF caller \in Keys THEN "authenticate" ELSE "tenant"
        /\ ask'[r].key = IF caller \in Keys THEN caller ELSE None
      BY <2>1 DEF RequestsTypeOK
  <2>3. at'[r] = "tenant" => ~Keyed(r)'
      BY <2>2 DEF Keyed
  <2> QED BY <2>2, <2>3 DEF Rights
<1>2. CASE Authenticate(r)
  <2>1. CASE Refuse(r)
      BY <1>r, <2>1
  <2>2. CASE key[ask[r].key].live /\ GoOn(r, "tenant") /\ ask' = ask
    <3>1. at'[r] = "tenant" /\ key'[ask'[r].key].live
        BY <1>2, <2>2 DEF Authenticate, GoOn, RequestsTypeOK, world
    <3> QED BY <3>1 DEF Rights
  <2> QED BY <1>2, <2>1, <2>2 DEF Authenticate
<1>3. CASE Tenant(r)
  <2>1. CASE Refuse(r)
      BY <1>r, <2>1
  <2>2. CASE ~Refuse(r)
    <3>1. /\ at'[r] = "acquire" /\ at[r] = "tenant" /\ Selects(r) /\ MayRun(r)
          /\ "agent:run" \in Granted(r) /\ UNCHANGED <<ask, key, role>>
        BY <1>3, <2>2 DEF Tenant, GoOn, RequestsTypeOK, world
    <3>2. Keyed(r)' = Keyed(r) /\ Caller(r)' = Caller(r) /\ Ws(r)' = Ws(r)
        BY <3>1 DEF Keyed, Caller, Ws
    <3>3. Ws(r) # None /\ "agent:run" \in role[Caller(r)][OrgOf[Ws(r)]]
        BY <3>1 DEF Selects, Granted
    <3>4. Keyed(r) => "agent:run" \in key[ask[r].key].scopes
        BY <3>1 DEF Granted
    <3>5. ask[r].debug => "agent:debug" \in role[Caller(r)][OrgOf[Ws(r)]]
        BY <3>1 DEF MayRun, Granted, Selects
    <3>6. "role" \in Rights(r)'
        BY <3>1, <3>2, <3>3, <3>4, <3>5 DEF Rights
    <3> QED BY <3>1, <3>6
  <2> QED BY <2>1, <2>2
<1>4. CASE Acquire(r)
    BY <1>4, <1>r DEF Acquire, GoOn, RequestsTypeOK
<1>5. CASE Executable(r)
  <2>1. CASE Refuse(r)
      BY <1>r, <2>1
  <2>2. CASE ~Refuse(r)
    <3>1. /\ at[r] = "executable" /\ at'[r] = "converse" /\ UNCHANGED <<ask, key, agent>>
          /\ Place[ask[r].agent] = ctx[r].ws /\ Runnable(ask[r].agent, Draft(r))
        BY <1>5, <2>2 DEF Executable, GoOn, RequestsTypeOK, world
    <3>2. Ws(r)' = Ws(r) /\ Draft(r)' = Draft(r) /\ ctx[r].ws = Ws(r)
        BY <3>1 DEF Ws, Draft, Keyed, Known, WorkspaceSelected
    <3>3. Runnable(ask[r].agent, Draft(r))' = Runnable(ask[r].agent, Draft(r))
        BY <3>1, <3>2 DEF Runnable
    <3>4. "agent" \in Rights(r)'
        BY <3>1, <3>2, <3>3 DEF Rights
    <3> QED BY <3>1, <3>4
  <2> QED BY <2>1, <2>2
<1>6. CASE Converse(r)
    BY <1>6, <1>r DEF Converse, GoOn, RequestsTypeOK
<1>7. CASE Start(r)
    BY <1>7, <1>r DEF Start, GoOn, RequestsTypeOK
<1>8. CASE End(r)
    BY <1>8, <1>r DEF End
<1> QED BY <1>1, <1>2, <1>3, <1>4, <1>5, <1>6, <1>7, <1>8 DEF Step

LEMMA StageTyped ==
    ASSUME RequestsTypeOK, NEW r \in Reqs, Known(r), Step(r)
    PROVE  at'[r] \in Stages
BY DEF Step, Arrive, Authenticate, Tenant, Acquire, Executable, Converse, Start, End, Refuse, GoOn,
       RequestsTypeOK, Stages

\* Rights accumulate while a request is under way.
LEMMA RightsStep ==
    ASSUME RequestsTypeOK, RequestsInv, NEW r \in Reqs,
           Step(r) \/ RequestSame(r),
           seen' = [q \in Reqs |-> IF UnderWay(q)' THEN seen[q] \cup Rights(q)' ELSE {}]
    PROVE  RightsSoFar(r)'
<1>0. Known(r) /\ RightsSoFar(r)
    BY DEF RequestsInv, Known
<1>1. seen'[r] = IF UnderWay(r)' THEN seen[r] \cup Rights(r)' ELSE {}
    OBVIOUS
<1>2. at'[r] \notin {"idle", "done"} => seen'[r] = seen[r] \cup Rights(r)'
    BY <1>1 DEF UnderWay
<1>3. CASE at'[r] = at[r]
    BY <1>0, <1>2, <1>3 DEF RightsSoFar
<1>4. CASE Step(r)
  <2>1. /\ at'[r] = "tenant" => "credential" \in Rights(r)'
        /\ at'[r] = "acquire" => at[r] = "tenant" /\ "role" \in Rights(r)'
        /\ at'[r] = "converse" => at[r] = "executable" /\ "agent" \in Rights(r)'
        /\ at'[r] = "executable" => at[r] = "acquire"
        /\ at'[r] = "start" => at[r] = "converse"
        /\ at'[r] = "running" => at[r] = "start"
      BY <1>0, <1>4, RightsLooked
  <2>2. at'[r] \in Stages
      BY StageTyped, <1>0, <1>4
  <2> QED BY <1>0, <1>2, <2>1, <2>2 DEF RightsSoFar, Stages
<1> QED BY <1>3, <1>4 DEF RequestSame

-----------------------------------------------------------------------------
(* The invariant.                                                          *)

LEMMA RequestsNextKeeps ==
    RequestsTypeOK /\ RequestsInv /\ [RequestsNext]_requestsVars => RequestsTypeOK' /\ RequestsInv'
<1> SUFFICES ASSUME RequestsTypeOK, RequestsInv, [RequestsNext]_requestsVars
             PROVE  RequestsTypeOK' /\ RequestsInv'
    OBVIOUS
<1>0. KeysGiven /\ \A q \in Reqs : Known(q)
    BY DEF RequestsInv, Known
<1>1. CASE UNCHANGED requestsVars
  <2>1. RequestsTypeOK'
      BY <1>1 DEF requestsVars, RequestsTypeOK
  <2>2. KeysGiven' /\ \A q \in Reqs : Known(q)' /\ RightsSoFar(q)'
      BY <1>1 DEF requestsVars, RequestsInv, Known, KeysGiven, OneCaller, WorkspaceSelected, AgentSelected,
                  ConversationSelected, RunRecorded, ConversationOnce, RightsSoFar, Keyed, Ws
  <2> QED BY <2>1, <2>2 DEF RequestsInv, Known
<1>2. CASE RequestsNext
  <2>1. seen' = [q \in Reqs |-> IF UnderWay(q)' THEN seen[q] \cup Rights(q)' ELSE {}]
      BY <1>2 DEF RequestsNext
  <2>2. seen' \in [Reqs -> SUBSET {"credential", "role", "agent"}]
      BY <2>1 DEF Rights, RequestsTypeOK
  <2>3. CASE \E r \in Reqs : Step(r)
    <3>1. PICK r \in Reqs : Step(r)
        BY <2>3
    <3>2. RequestsTypeOK'
        BY <1>0, <2>2, <3>1, StepTyped DEF Known
    <3>3. KeysGiven' /\ \A q \in Reqs : Known(q)'
        BY <1>0, <3>1, StepKnows
    <3>4. \A q \in Reqs : RightsSoFar(q)'
        BY <1>0, <2>1, <3>1, StepKeeps, RightsStep DEF Known
    <3> QED BY <3>2, <3>3, <3>4 DEF RequestsInv, Known
  <2>4. CASE Administer
    <3>1. \A q \in Reqs : RightsSoFar(q)'
        BY <2>1, <2>4, AdministerKeeps, RightsStep
    <3> QED BY <1>0, <2>2, <2>4, <3>1, AdministerTyped, AdministerKnows DEF RequestsInv, Known
  <2> QED BY <1>2, <2>3, <2>4 DEF RequestsNext
<1> QED BY <1>1, <1>2

\* Whatever callers and administrators do, every variable keeps its type, and a request keeps
\* what it has learnt.
THEOREM RequestsInductive == RequestsSpec => [](RequestsTypeOK /\ RequestsInv)
BY RequestsInitHolds, RequestsNextKeeps, PTL DEF RequestsSpec

\* A run that a key started stays within the key's workspace and agent, is no draft and has a
\* conversation of its own (TenantGuard, prepare(), conversation()).
THEOREM RunsWithinKey == RequestsSpec => []WithinKey
<1>1. RequestsTypeOK /\ RequestsInv => WithinKey
    BY DEF RequestsInv, RunRecorded, WithinKey
<1> QED BY <1>1, RequestsInductive, PTL

\* The runs of a conversation have one caller, one agent and one workspace (conversation()).
THEOREM OneCallerPerConversation == RequestsSpec => []ConversationKept
<1>1. RequestsTypeOK /\ RequestsInv => ConversationKept
    BY DEF RequestsInv, RunRecorded, ConversationKept
<1> QED BY <1>1, RequestsInductive, PTL

\* A run starts only for a request that had each right at some instant since it arrived
\* (JwtAuthGuard, TenantGuard, PermissionsGuard, executable()).
THEOREM NothingWithoutRights == RequestsSpec => []RightsWereHeld
<1>1. RequestsTypeOK /\ RequestsInv => RightsWereHeld
  <2> SUFFICES ASSUME RequestsTypeOK, RequestsInv, NEW r \in Reqs, at[r] = "running"
               PROVE  seen[r] = {"credential", "role", "agent"}
      BY DEF RightsWereHeld
  <2>1. seen[r] \subseteq {"credential", "role", "agent"}
      BY DEF RequestsTypeOK
  <2>2. {"credential", "role", "agent"} \subseteq seen[r]
      BY DEF RequestsInv, RightsSoFar
  <2> QED BY <2>1, <2>2
<1> QED BY <1>1, RequestsInductive, PTL

-----------------------------------------------------------------------------
(* Leases.                                                                 *)

LEMMA LeasesStep == RequestsTypeOK /\ NoLeaseLost /\ [RequestsNext]_requestsVars => NoLeaseLost'
<1> SUFFICES ASSUME RequestsTypeOK, NoLeaseLost, [RequestsNext]_requestsVars PROVE NoLeaseLost'
    OBVIOUS
<1> DEFINE Holding == {"executable", "converse", "start", "running"}
<1>1. CASE UNCHANGED requestsVars
    BY <1>1 DEF requestsVars, NoLeaseLost
<1>2. CASE Administer
  <2>1. UNCHANGED requests
      BY <1>2 DEF Administer, CreateKey, EndKey, ChangeRole, UpdateStatus, Publish, Remove, Forget
  <2> QED BY <2>1 DEF requests, NoLeaseLost
<1>3. ASSUME NEW r \in Reqs, Step(r) PROVE NoLeaseLost'
  <2>1. \A q \in Reqs \ {r} : at'[q] = at[q]
      BY <1>3 DEF Step, Arrive, Authenticate, Tenant, Acquire, Executable, Converse, Start, End, Refuse,
             GoOn, RequestsTypeOK
  <2>2. \/ at'[r] \notin Holding /\ leased' = leased \ {r}
        \/ at'[r] \in Holding /\ at[r] \in Holding /\ leased' = leased
        \/ at'[r] \in Holding /\ leased' = leased \cup {r}
        \/ at'[r] \notin Holding /\ at[r] \notin Holding /\ leased' = leased
    <3>1. CASE Refuse(r)
        BY <3>1 DEF Refuse, GoOn, RequestsTypeOK
    <3>2. CASE ~Refuse(r)
        BY <1>3, <3>2 DEF Step, Arrive, Authenticate, Tenant, Acquire, Executable, Converse, Start,
               End, GoOn, RequestsTypeOK
    <3> QED BY <3>1, <3>2
  <2>3. \A q \in Reqs : q \in leased <=> at[q] \in Holding
      BY DEF NoLeaseLost
  <2>4. \A q \in Reqs : q \in leased' <=> at'[q] \in Holding
      BY <2>1, <2>2, <2>3
  <2>5. leased' \subseteq Reqs
      BY <2>2 DEF RequestsTypeOK
  <2> QED BY <2>4, <2>5 DEF NoLeaseLost
<1> QED BY <1>1, <1>2, <1>3 DEF RequestsNext

\* Leases are held between acquire() and the end of the run only, however requests end
\* (prepare(), and the release that follows every run).
THEOREM LeasesReleased == RequestsSpec => []NoLeaseLost
<1>1. RequestsInit => NoLeaseLost
    BY DEF RequestsInit, NoLeaseLost
<1> QED BY <1>1, LeasesStep, RequestsInductive, PTL DEF RequestsSpec
=============================================================================
