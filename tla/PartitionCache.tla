--------------------------- MODULE PartitionCache ---------------------------
(***************************************************************************)
(* The bounded cache of compiled oneDNN attention partitions that one      *)
(* worker thread keeps for one device queue, and the queue itself.         *)
(*                                                                         *)
(* BoundedPartitionCache<Key, Value>::get (bounded_partition_cache.h)       *)
(* finds or compiles the partition of a shape; sdpa_impl (exl3_ops.sycl)    *)
(* then submits it.  The queue is out of order: a kernel may complete as   *)
(* soon as the kernels it depends on have.  Each submission depends on the *)
(* previous use of the same partition, so the event in Entry::last_use     *)
(* stands for every earlier use too, and it is the only thing eviction     *)
(* asks about before it destroys a partition.                              *)
(***************************************************************************)
EXTENDS Naturals, FiniteSets

CONSTANTS Keys,       \* PartitionKeys in std::map order; 0 is "no key"
          Scales,     \* values of 1/scale the calls use
          Capacity,   \* EXL3_SDPA_CACHE_CAPACITY
          MaxCalls    \* bound on the calls of a behaviour

ASSUME KeysAssumption == Keys \subseteq Nat \ {0} /\ IsFiniteSet(Keys)
ASSUME CapacityAssumption == Capacity \in Nat \ {0}
ASSUME CallsAssumption == MaxCalls \in Nat

NoKey == 0
NoEvent == 0

VARIABLES
    entries,     \* entries_: key -> [used, born, last]
    tick,        \* tick_
    stats,       \* Stats
    scales,      \* keys of Ctx::inverse_scales
    pc, key,     \* where the call is, and the key it asked for
    todo, victim, oldest,   \* the loop over a full cache
    submitted,   \* number of kernels submitted so far
    inflight,    \* kernels not completed: [id, dep, born, scale]
    idleAtMiss,  \* history: the keys that were ready when the miss began
    failed       \* history: misses that left by an exception before inserting

hostVars == <<pc, key, todo, victim, oldest, idleAtMiss>>
cacheVars == <<entries, tick, stats, scales, failed>>
queueVars == <<submitted, inflight>>
vars == <<hostVars, cacheVars, queueVars>>

Entry == [used : Nat, born : Nat, last : Nat]
Job == [id : Nat, dep : Nat, born : Nat, scale : Scales]

Complete(e) == \A j \in inflight : j.id # e
\* The `ready` predicate: the entry was never used, or its last use is done.
Ready(k) == entries[k].last = NoEvent \/ Complete(entries[k].last)

Full == Cardinality(DOMAIN entries) = Capacity

NextTick == tick + 1
Calls == stats.hits + stats.misses

Init ==
    /\ entries = [k \in {} |-> [used |-> 0, born |-> 0, last |-> NoEvent]]
    /\ tick = 0
    /\ stats = [hits |-> 0, misses |-> 0, evictions |-> 0,
                pressure_waits |-> 0, peak_entries |-> 0]
    /\ scales = {} /\ inflight = {} /\ submitted = 0 /\ failed = 0
    /\ pc = "idle" /\ key = NoKey
    /\ todo = {} /\ victim = NoKey /\ oldest = NoKey /\ idleAtMiss = {}

(***************************************************************************)
(* BoundedPartitionCache::get, up to its return or its exception.          *)
(***************************************************************************)
BeginKeyless(k) ==                                       \* mutant of Begin
    pc = "idle" /\ Calls < MaxCalls /\ key' = NoKey
Begin(k) == pc = "idle" /\ Calls < MaxCalls /\ key' = k

Hit(k) ==
    /\ Begin(k)
    /\ k \in DOMAIN entries
    /\ tick' = NextTick
    /\ entries' = [entries EXCEPT ![k].used = NextTick]
    /\ stats' = [stats EXCEPT !.hits = @ + 1]
    /\ pc' = "execute"
    /\ UNCHANGED <<scales, failed, todo, victim, oldest, idleAtMiss, queueVars>>

Miss(k) ==
    /\ Begin(k)
    /\ k \notin DOMAIN entries
    /\ stats' = [stats EXCEPT !.misses = @ + 1]
    /\ pc' = (IF Full THEN "scan" ELSE "compile")
    /\ todo' = (IF Full THEN DOMAIN entries ELSE {})
    /\ victim' = NoKey /\ oldest' = NoKey
    /\ idleAtMiss' = {i \in DOMAIN entries : Ready(i)}
    /\ UNCHANGED <<entries, tick, scales, failed, queueVars>>

PicksMostRecent(k) ==                                    \* mutants of Picks
    Ready(k) /\ (victim = NoKey \/ entries[k].used > entries[victim].used)
PicksAgainstOldest(k) ==
    Ready(k) /\ (oldest = NoKey \/ entries[k].used < entries[oldest].used)
Picks(k) ==
    Ready(k) /\ (victim = NoKey \/ entries[k].used < entries[victim].used)

\* One iteration of the loop: kernels may complete between two of them.
Visit(k) ==
    /\ pc = "scan"
    /\ k \in todo /\ \A i \in todo : k <= i
    /\ todo' = todo \ {k}
    /\ oldest' = (IF oldest = NoKey \/ entries[k].used < entries[oldest].used
                  THEN k ELSE oldest)
    /\ victim' = (IF Picks(k) THEN k ELSE victim)
    /\ UNCHANGED <<pc, key, idleAtMiss, cacheVars, queueVars>>

EraseUncounted(v) ==                                     \* mutant of Erase
    /\ entries' = [k \in DOMAIN entries \ {v} |-> entries[k]]
    /\ pc' = "compile"
    /\ UNCHANGED <<stats, tick, scales, failed, key, todo, victim, oldest, idleAtMiss, queueVars>>
Erase(v) ==
    /\ entries' = [k \in DOMAIN entries \ {v} |-> entries[k]]
    /\ stats' = [stats EXCEPT !.evictions = @ + 1]
    /\ pc' = "compile"
    /\ UNCHANGED <<tick, scales, failed, key, todo, victim, oldest, idleAtMiss, queueVars>>

EvictReady ==
    /\ pc = "scan" /\ todo = {} /\ victim # NoKey
    /\ Erase(victim)

PressureWait ==
    /\ pc = "scan" /\ todo = {} /\ victim = NoKey
    /\ victim' = oldest
    /\ stats' = [stats EXCEPT !.pressure_waits = @ + 1]
    /\ pc' = "wait"
    /\ UNCHANGED <<entries, tick, scales, failed, key, todo, oldest, idleAtMiss, queueVars>>

EvictWaited ==
    /\ pc = "wait" /\ Ready(victim)
    /\ Erase(victim)

\* The exception leaves the cache as it is: the call is over.
Abort(counted) ==
    /\ pc' = "idle"
    /\ failed' = failed + counted
    /\ UNCHANGED <<entries, tick, stats, key, todo, victim, oldest, idleAtMiss, queueVars>>

\* wait_and_throw reports an asynchronous error once the chain is done.
WaitThrows ==
    /\ pc = "wait" /\ Ready(victim)
    /\ Abort(1) /\ UNCHANGED scales

Compile ==
    /\ pc = "compile"
    /\ tick' = NextTick
    /\ entries' = [k \in DOMAIN entries \cup {key} |->
                     IF k = key THEN [used |-> NextTick, born |-> NextTick, last |-> NoEvent]
                                ELSE entries[k]]
    /\ LET size == Cardinality(DOMAIN entries \cup {key}) IN
         stats' = [stats EXCEPT !.peak_entries = IF size > @ THEN size ELSE @]
    /\ pc' = "execute"
    /\ UNCHANGED <<scales, failed, key, todo, victim, oldest, idleAtMiss, queueVars>>

CompileThrows ==
    /\ pc = "compile"
    /\ Abort(1) /\ UNCHANGED scales

(***************************************************************************)
(* The rest of sdpa_impl: retain the scale constant, submit, chain.        *)
(***************************************************************************)
NoDeps(e) == NoEvent                                     \* mutants of Deps
SelfDeps(e) == submitted + 1
Deps(e) == e.last

ReplaceScale(s) == {s}                                   \* mutant of Retain
Retain(s) == scales \cup {s}

Execute(s) ==
    /\ pc = "execute"
    /\ scales' = Retain(s)
    /\ submitted' = submitted + 1
    /\ inflight' = inflight \cup
         {[id |-> submitted + 1, dep |-> Deps(entries[key]),
           born |-> entries[key].born, scale |-> s]}
    /\ entries' = [entries EXCEPT ![key].last = submitted + 1]
    /\ pc' = "idle"
    /\ UNCHANGED <<tick, stats, failed, key, todo, victim, oldest, idleAtMiss>>

\* at::full or execute throws: the partition stays cached, last_use as it was.
ExecuteThrows(s) ==
    /\ pc = "execute"
    /\ scales' \in {scales, Retain(s)}
    /\ Abort(0)

(***************************************************************************)
(* The device.                                                             *)
(***************************************************************************)
GpuComplete(j) ==
    /\ j \in inflight
    /\ j.dep = NoEvent \/ Complete(j.dep)
    /\ inflight' = inflight \ {j}
    /\ UNCHANGED <<submitted, hostVars, cacheVars>>

Next ==
    \/ \E k \in Keys : Hit(k) \/ Miss(k) \/ Visit(k)
    \/ EvictReady \/ PressureWait \/ EvictWaited \/ WaitThrows
    \/ Compile \/ CompileThrows
    \/ \E s \in Scales : Execute(s) \/ ExecuteThrows(s)
    \/ \E j \in inflight : GpuComplete(j)

Spec == Init /\ [][Next]_vars

\* The host thread runs, and the device finishes what it was given.
Fairness ==
    /\ WF_vars(\E k \in Keys : Visit(k))
    /\ WF_vars(EvictReady) /\ WF_vars(PressureWait) /\ WF_vars(EvictWaited)
    /\ WF_vars(Compile) /\ WF_vars(\E s \in Scales : Execute(s))
    /\ WF_vars(\E j \in inflight : GpuComplete(j))
FairSpec == Spec /\ Fairness

-----------------------------------------------------------------------------
TypeOK ==
    /\ DOMAIN entries \subseteq Keys
    /\ entries \in [DOMAIN entries -> Entry]
    /\ tick \in Nat /\ submitted \in Nat /\ failed \in Nat
    /\ stats \in [hits : Nat, misses : Nat, evictions : Nat,
                  pressure_waits : Nat, peak_entries : Nat]
    /\ scales \subseteq Scales
    /\ inflight \subseteq Job
    /\ pc \in {"idle", "scan", "wait", "compile", "execute"}
    /\ key \in Keys \cup {NoKey}
    /\ todo \subseteq Keys /\ idleAtMiss \subseteq Keys
    /\ victim \in Keys \cup {NoKey} /\ oldest \in Keys \cup {NoKey}

\* Eviction is lifetime-safe: every kernel still on the device runs on a
\* partition that is still in the cache ("making eviction lifetime-safe",
\* sdpa_impl).  It takes a chain of uses, an eviction and a late kernel to
\* break it.
LifetimeSafe ==
    \A j \in inflight : \E k \in DOMAIN entries : entries[k].born = j.born

\* Completion of last_use covers every prior use of the partition, although
\* the queue is out of order (the comment over `deps` in sdpa_impl).
LastUseCoversPriorUses ==
    \A k \in DOMAIN entries, j \in inflight :
        j.born = entries[k].born => ~ Ready(k)

\* The scale constant of a queued kernel is still owned by the context.
ScaleRetained == \A j \in inflight : j.scale \in scales

\* The cache never grows past its capacity, at any point of a call, and a
\* partition about to be compiled has room.
Bounded ==
    /\ Cardinality(DOMAIN entries) <= Capacity
    /\ pc = "compile" => Cardinality(DOMAIN entries) < Capacity /\ key \notin DOMAIN entries

\* The counters exl3_sdpa_cache_stats returns account for every partition:
\* each miss is still cached, was evicted, is being served, or failed.
StatsBalance ==
    /\ stats.misses = stats.evictions + Cardinality(DOMAIN entries) + failed
                      + (IF pc \in {"scan", "wait", "compile"} THEN 1 ELSE 0)
    /\ Cardinality(DOMAIN entries) <= stats.peak_entries
    /\ stats.pressure_waits <= stats.evictions + failed
                      + (IF pc = "wait" THEN 1 ELSE 0)

\* Recency is a total order of the cached partitions: two never share a tick.
RecencyTotal ==
    \A i, k \in DOMAIN entries : entries[i].used = entries[k].used => i = k

\* "Only a full-cache MISS waits": the host blocks on the device only if every
\* partition was in use when the miss began, and then on the least recent one.
WaitsOnlyUnderPressure ==
    pc = "wait" =>
        /\ idleAtMiss = {}
        /\ Full /\ key \notin DOMAIN entries
        /\ \A k \in DOMAIN entries : entries[victim].used <= entries[k].used

\* An eviction takes the least recently used of the partitions that were
\* ready when the miss began, or one that became ready during the scan and is
\* older still; it never touches the entries it keeps.
EvictsLeastRecentReady ==
    [][\A v \in DOMAIN entries \ DOMAIN entries' :
         /\ Ready(v)
         /\ \A k \in idleAtMiss : entries[v].used <= entries[k].used
         /\ \A k \in DOMAIN entries' : entries'[k] = entries[k]]_vars

\* A call that began ends: even the one that waits for a victim's chain.
CallsReturn == pc # "idle" ~> pc = "idle"

\* The lifetime contract; a partition is named by the tick it was born at.
Lifetime == INSTANCE PartitionLifetime WITH
    live <- {entries[k].born : k \in DOMAIN entries},
    running <- {<<j.id, j.born>> : j \in inflight}
LifetimeSpec == Lifetime!LSpec
=============================================================================
