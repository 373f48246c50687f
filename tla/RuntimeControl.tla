--------------------------- MODULE RuntimeControl ---------------------------
(***************************************************************************)
(* Admission of agent runs in one workspace (runtime-control.service.ts):  *)
(* a request counts against the rate of its minute, takes a lease, runs,   *)
(* and gives the lease back.  Several API processes share Redis; each has  *)
(* its own view of whether Redis is ready, and outside production falls    *)
(* back on maps of its own.  One clock drives all processes.               *)
(***************************************************************************)
EXTENDS Naturals, FiniteSets

CONSTANTS Requests, Processes,
          Home,         \* the process that serves each request
          RateLimit,    \* workspace.rateLimitPerMinute
          RunLimit,     \* workspace.concurrentRunLimit
          Minute,       \* length of a rate window
          RateTtl,      \* life of a rate key: 70 s against windows of 60
          LeaseTtl,     \* life of a lease: 1 800 000 ms
          MaxRun,       \* longest time from asking for a lease to ending the run
          Production,   \* the processes with NODE_ENV = 'production'
          MaxTime,      \* bound on the clock
          MaxOutages    \* bound on crashes and on changes of a connection

ASSUME RuntimeConstants ==
    /\ IsFiniteSet(Requests) /\ Home \in [Requests -> Processes]
    /\ {RateLimit, RunLimit, Minute, RateTtl, LeaseTtl} \subseteq Nat \ {0}
    /\ {MaxRun, MaxTime, MaxOutages} \subseteq Nat
    /\ Minute <= RateTtl
    /\ Production \subseteq Processes

VARIABLES
    now,
    ready,        \* redis.ready of each process
    \* Redis
    rate,         \* counter of each minute
    rateExpiry,   \* when the counter is dropped; 0 as long as it has no EXPIRE
    expires,      \* scores of the leases in the sorted set; 0 for what is not in it
    \* maps of each process
    localCount, localReset, localLeases,
    \* requests
    pc,
    stamp,        \* Date.now() as read before the lease was asked for
    \* not in the code
    admitted,     \* requests let through by the counter of each minute
    lost,         \* requests whose release or whose answer did not get through
    outages       \* crashes and changes of a connection so far

redis == <<rate, rateExpiry, expires>>
maps  == <<localCount, localReset, localLeases>>
vars  == <<now, ready, redis, maps, pc, stamp, admitted, lost, outages>>

Minutes == 0 .. MaxTime \div Minute

Init ==
    /\ now = 0
    /\ ready \in [Processes -> BOOLEAN]
    /\ rate = [m \in Minutes |-> 0] /\ rateExpiry = [m \in Minutes |-> 0]
    /\ expires = [r \in Requests |-> 0]
    /\ localCount = [p \in Processes |-> 0] /\ localReset = [p \in Processes |-> 0]
    /\ localLeases = [p \in Processes |-> {}]
    /\ pc = [r \in Requests |-> "idle"] /\ stamp = [r \in Requests |-> 0]
    /\ admitted = [m \in Minutes |-> 0] /\ lost = {} /\ outages = 0

Goto(r, there) == pc' = [pc EXCEPT ![r] = there]
Ready(r) == ready[Home[r]]
Outage == outages < MaxOutages /\ outages' = outages + 1

-----------------------------------------------------------------------------
(* acquire() through Redis: ready is looked at once, and one step follows  *)
(* for each command. ioredis keeps a command until the connection is back. *)

\* The key of the minute is named before INCR is sent.
Begin(r) ==
    /\ pc[r] = "idle" /\ Ready(r)
    /\ Goto(r, "count") /\ stamp' = [stamp EXCEPT ![r] = now]
    /\ UNCHANGED <<now, ready, redis, maps, admitted, lost, outages>>

\* INCR, of a new counter if there is none or the old one has expired.
MinuteOf(r) == stamp[r] \div Minute
Dropped(m)  == rateExpiry[m] # 0 /\ rateExpiry[m] <= now
Incr(m)     == IF Dropped(m) THEN 1 ELSE rate[m] + 1
Increment(m) ==
    /\ rate' = [rate EXCEPT ![m] = Incr(m)]
    /\ rateExpiry' = [rateExpiry EXCEPT ![m] = IF Dropped(m) THEN 0 ELSE @]

CountRequest(r) ==
    /\ pc[r] = "count" /\ Ready(r)
    /\ LET m == MinuteOf(r)
       IN  /\ Increment(m)
           /\ IF Incr(m) > RateLimit
              THEN Goto(r, "refused") /\ UNCHANGED admitted
              ELSE /\ Goto(r, IF Incr(m) = 1 THEN "expire" ELSE "lease")
                   /\ admitted' = [admitted EXCEPT ![m] = IF now \div Minute = m THEN @ + 1 ELSE @]
    /\ stamp' = [stamp EXCEPT ![r] = IF Incr(MinuteOf(r)) = 1 THEN @ ELSE now]
    /\ UNCHANGED <<now, ready, expires, maps, lost, outages>>

\* EXPIRE of the counter the request created.
ExpireCounterEarly(r) ==   \* Mutant: a time to live shorter than the window
    /\ pc[r] = "expire" /\ Ready(r)
    /\ rateExpiry' = [rateExpiry EXCEPT ![MinuteOf(r)] = now + RateTtl \div Minute]
    /\ stamp' = [stamp EXCEPT ![r] = now]
    /\ Goto(r, "lease")
    /\ UNCHANGED <<now, ready, rate, expires, maps, admitted, lost, outages>>
ExpireCounter(r) ==
    /\ pc[r] = "expire" /\ Ready(r)
    /\ rateExpiry' = [rateExpiry EXCEPT ![MinuteOf(r)] = now + RateTtl]
    /\ stamp' = [stamp EXCEPT ![r] = now]
    /\ Goto(r, "lease")
    /\ UNCHANGED <<now, ready, rate, expires, maps, admitted, lost, outages>>

\* The script: drop what has expired, then take a lease if fewer than RunLimit are left.
\* (The set as a whole outlives the last lease taken, and needs no expiry here.)
leases == {x \in Requests : expires[x] # 0}
Unexpired(at) == {x \in Requests : expires[x] > at}
Room(r) == Cardinality(Unexpired(stamp[r])) < RunLimit
RunScriptScoredNow(r) ==   \* Mutant: scored with the time of the request
    expires' = [x \in Requests |-> IF x = r /\ Room(r) THEN stamp[r] + 1
                                   ELSE IF x \in Unexpired(stamp[r]) THEN expires[x] ELSE 0]
RunScript(r) ==
    expires' = [x \in Requests |-> IF x = r /\ Room(r) THEN stamp[r] + LeaseTtl
                                   ELSE IF x \in Unexpired(stamp[r]) THEN expires[x] ELSE 0]

TakeLease(r) ==
    /\ pc[r] = "lease" /\ Ready(r)
    /\ RunScript(r)
    /\ Goto(r, IF Room(r) THEN "running" ELSE "refused")
    /\ UNCHANGED <<now, ready, rate, rateExpiry, maps, stamp, admitted, lost, outages>>

\* The connection drops after Redis ran a command and before it answered: ioredis sends
\* the same command again once it has reconnected.
Unanswered(r) ==
    /\ Ready(r) /\ Outage
    /\ \/ pc[r] = "count" /\ Increment(MinuteOf(r)) /\ UNCHANGED expires
       \/ pc[r] = "lease" /\ RunScript(r) /\ UNCHANGED <<rate, rateExpiry>>
    /\ ready' = [ready EXCEPT ![Home[r]] = FALSE]
    /\ lost' = lost \cup {r}
    /\ UNCHANGED <<now, maps, pc, stamp, admitted>>

-----------------------------------------------------------------------------
(* acquire() without Redis.                                                *)

RefuseUncoordinated(r) ==
    /\ pc[r] = "idle" /\ ~Ready(r) /\ Home[r] \in Production
    /\ Goto(r, "refused")
    /\ UNCHANGED <<now, ready, redis, maps, stamp, admitted, lost, outages>>

AcquireLocal(r) ==
    /\ pc[r] = "idle" /\ ~Ready(r) /\ Home[r] \notin Production
    /\ LET p == Home[r]
           fresh == localReset[p] <= now
           count == IF fresh THEN 1 ELSE localCount[p] + 1
           live == {x \in localLeases[p] : stamp[x] + LeaseTtl > now}
       IN  /\ localCount' = [localCount EXCEPT ![p] = count]
           /\ localReset' = [localReset EXCEPT ![p] = IF fresh THEN now + Minute ELSE @]
           /\ \/ /\ count > RateLimit
                 /\ Goto(r, "refused") /\ UNCHANGED <<localLeases, stamp>>
              \/ /\ count <= RateLimit /\ Cardinality(live) >= RunLimit
                 /\ localLeases' = [localLeases EXCEPT ![p] = live]
                 /\ Goto(r, "refused") /\ UNCHANGED stamp
              \/ /\ count <= RateLimit /\ Cardinality(live) < RunLimit
                 /\ localLeases' = [localLeases EXCEPT ![p] = live \cup {r}]
                 /\ stamp' = [stamp EXCEPT ![r] = now]
                 /\ Goto(r, "local")
    /\ UNCHANGED <<now, ready, redis, admitted, lost, outages>>

-----------------------------------------------------------------------------
(* release(), in the finally of chat() and stream() or in the catch of     *)
(* prepare(): where it looks for the lease depends on Redis at that time,  *)
(* not on where the lease was taken.                                       *)
Running == {r \in Requests : pc[r] \in {"running", "local"}}

ReleaseFromMaps(r) ==   \* Mutant: Redis is never asked
    /\ r \in Running /\ Goto(r, "done")
    /\ localLeases' = [localLeases EXCEPT ![Home[r]] = @ \ {r}]
    /\ UNCHANGED <<now, ready, redis, localCount, localReset, stamp, admitted, lost, outages>>
Release(r) ==
    /\ r \in Running /\ Goto(r, "done")
    /\ IF Ready(r)
       THEN expires' = [expires EXCEPT ![r] = 0] /\ UNCHANGED localLeases
       ELSE localLeases' = [localLeases EXCEPT ![Home[r]] = @ \ {r}] /\ UNCHANGED expires
    /\ lost' = IF Ready(r) = (pc[r] = "running") THEN lost ELSE lost \cup {r}
    /\ UNCHANGED <<now, ready, rate, rateExpiry, localCount, localReset, stamp, admitted, outages>>

-----------------------------------------------------------------------------
(* The environment.                                                        *)

Connection(p) ==
    /\ Outage
    /\ ready' = [ready EXCEPT ![p] = ~@]
    /\ UNCHANGED <<now, redis, maps, pc, stamp, admitted, lost>>

\* A process dies with its requests and its maps, and is started again.
Crash(p) ==
    LET served == {r \in Requests : Home[r] = p /\ pc[r] \notin {"idle", "refused", "done"}}
    IN  /\ served # {} /\ Outage
        /\ pc' = [r \in Requests |-> IF r \in served THEN "done" ELSE pc[r]]
        /\ lost' = lost \cup served
        /\ localCount' = [localCount EXCEPT ![p] = 0]
        /\ localReset' = [localReset EXCEPT ![p] = 0]
        /\ localLeases' = [localLeases EXCEPT ![p] = {}]
        /\ UNCHANGED <<now, ready, redis, stamp, admitted>>

\* Time goes on unless a run has had its MaxRun.
Leasing == Running \cup {r \in Requests : pc[r] = "lease"}
Tick ==
    /\ now < MaxTime /\ \A r \in Leasing : now < stamp[r] + MaxRun
    /\ now' = now + 1
    /\ UNCHANGED <<ready, redis, maps, pc, stamp, admitted, lost, outages>>

Next ==
    \/ \E r \in Requests :
          \/ Begin(r) \/ CountRequest(r) \/ ExpireCounter(r) \/ TakeLease(r) \/ Unanswered(r)
          \/ RefuseUncoordinated(r) \/ AcquireLocal(r) \/ Release(r)
    \/ \E p \in Processes : Connection(p) \/ Crash(p)
    \/ Tick

Spec == Init /\ [][Next]_vars

-----------------------------------------------------------------------------
(* Properties.                                                             *)

TypeOK ==
    /\ now \in 0 .. MaxTime /\ ready \in [Processes -> BOOLEAN]
    /\ rate \in [Minutes -> Nat] /\ rateExpiry \in [Minutes -> Nat]
    /\ expires \in [Requests -> Nat]
    /\ localCount \in [Processes -> Nat] /\ localReset \in [Processes -> Nat]
    /\ localLeases \in [Processes -> SUBSET Requests]
    /\ pc \in [Requests -> {"idle", "count", "expire", "lease", "running", "local", "refused", "done"}]
    /\ stamp \in [Requests -> Nat]
    /\ admitted \in [Minutes -> Nat] /\ lost \subseteq Requests
    /\ outages \in 0 .. MaxOutages

\* Redis never holds more leases than the limit, however acquires of several processes
\* interleave, and also when a script is run twice.
LeasesWithinLimit == Cardinality(leases) <= RunLimit

\* As long as no run outlives its lease, no more runs than the limit go on under leases
\* of Redis, and none more than that in any process that had to do without.
RunsWithinLimit ==
    /\ Cardinality({r \in Requests : pc[r] = "running"}) <= RunLimit
    /\ \A p \in Processes :
          Cardinality({r \in Requests : Home[r] = p /\ pc[r] = "local"}) <= RunLimit

\* What RunsWithinLimit rests on if MaxRun < LeaseTtl: every run is covered by a lease
\* that has not expired, in Redis or in the map of its process.
StampsPast ==
    \A r \in Requests : stamp[r] <= now /\ (r \in Leasing => now <= stamp[r] + MaxRun)
RunsCovered ==
    \A r \in Requests :
        /\ pc[r] = "running" => expires[r] = stamp[r] + LeaseTtl
        /\ pc[r] = "local" => r \in localLeases[Home[r]]
MapsWithinLimit == \A p \in Processes : Cardinality(localLeases[p]) <= RunLimit
LeaseInv == LeasesWithinLimit /\ MapsWithinLimit /\ StampsPast /\ RunsCovered

\* A request that is over keeps no lease, unless its process crashed or its connection
\* to Redis was interrupted, and then only for LeaseTtl from the time it asked.
LeaksOnlyByOutage ==
    \A r \in Requests : pc[r] \in {"refused", "done"} =>
        /\ r \in leases => r \in lost /\ expires[r] <= stamp[r] + LeaseTtl
        /\ r \in localLeases[Home[r]] => r \in lost

\* No more requests than RateLimit get past the counter of a minute within that minute:
\* it is not dropped before the minute is over, even if the process that made it dies
\* before the EXPIRE, or INCR is sent twice.
AdmittedWithinRate == \A m \in Minutes : admitted[m] <= RateLimit

\* The deployment guide: Redis coordinates the concurrency limit of a workspace.
NeverAboveRunLimit == Cardinality({r \in Requests : pc[r] = "running"}) <= RunLimit
=============================================================================
