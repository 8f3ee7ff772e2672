------------------------ MODULE PartitionCacheProofs ------------------------
(***************************************************************************)
(* What holds of PartitionCache for every set of keys and scales, every    *)
(* capacity and every bound on the calls.  The argument has four layers:   *)
(* the types and the position of a call (CallInv), the size (SizeInv), the *)
(* names of partitions and kernels (NameInv), and the chain of uses        *)
(* (ChainInv) from which lifetime safety and the refinement follow.        *)
(***************************************************************************)
EXTENDS PartitionCache, FiniteSetTheorems, FunctionTheorems, TLAPS

CallInv ==
    /\ TypeOK
    /\ pc # "idle" => key \in Keys
    /\ pc = "execute" => key \in DOMAIN entries
    /\ pc \in {"scan", "wait", "compile"} => key \notin DOMAIN entries

\* Every action that keeps the entries' domain and types is covered action by
\* action; Execute and Compile are the ones that build new records.
LEMMA CallInvInit == Init => CallInv
  BY DEF Init, CallInv, TypeOK, NoKey, NoEvent

LEMMA CallInvStep == CallInv /\ [Next]_vars => CallInv'
<1> SUFFICES ASSUME CallInv, [Next]_vars PROVE CallInv'
  OBVIOUS
<1> USE KeysAssumption DEF CallInv, TypeOK, NoKey, NoEvent
<1>1. ASSUME NEW k \in Keys, Hit(k) PROVE CallInv'
  BY <1>1 DEF Hit, Begin, NextTick, queueVars, Entry
<1>2. ASSUME NEW k \in Keys, Miss(k) PROVE CallInv'
  BY <1>2 DEF Miss, Begin, queueVars
<1>3. ASSUME NEW k \in Keys, Visit(k) PROVE CallInv'
  BY <1>3 DEF Visit, Picks, queueVars, cacheVars
<1>4. ASSUME NEW v \in Keys \cup {NoKey}, Erase(v), pc # "idle", pc # "execute"
      PROVE CallInv'
  BY <1>4 DEF Erase, queueVars
<1>5. CASE EvictReady
  BY <1>4, <1>5 DEF EvictReady
<1>6. CASE PressureWait
  BY <1>6 DEF PressureWait, queueVars
<1>7. CASE EvictWaited
  BY <1>4, <1>7 DEF EvictWaited
<1>8. ASSUME NEW n \in {0, 1}, Abort(n), scales' \subseteq Scales PROVE CallInv'
  BY <1>8 DEF Abort, queueVars
<1>9. CASE WaitThrows
  BY <1>8, <1>9 DEF WaitThrows
<1>10. CASE CompileThrows
  BY <1>8, <1>10 DEF CompileThrows
<1>11. CASE Compile
  <2>1. /\ DOMAIN entries' = DOMAIN entries \cup {key}
        /\ entries' \in [DOMAIN entries' -> Entry]
    BY <1>11 DEF Compile, NextTick, Entry
  <2>2. Cardinality(DOMAIN entries \cup {key}) \in Nat
    <3>1. IsFiniteSet(DOMAIN entries \cup {key})
      BY <1>11, FS_Subset DEF Compile, NextTick
    <3> QED BY <3>1, FS_CardinalityType
  <2> QED BY <1>11, <2>1, <2>2 DEF Compile, NextTick, queueVars
<1>12. ASSUME NEW s \in Scales, Execute(s) PROVE CallInv'
  <2>1. entries[key] \in Entry
    BY <1>12 DEF Execute
  <2>2. entries' \in [DOMAIN entries -> Entry] /\ DOMAIN entries' = DOMAIN entries
    BY <1>12 DEF Execute, Entry
  <2>3. inflight' \subseteq Job
    BY <1>12, <2>1 DEF Execute, Entry, Job, Deps
  <2> QED BY <1>12, <2>2, <2>3 DEF Execute, Retain
<1>13. ASSUME NEW s \in Scales, ExecuteThrows(s) PROVE CallInv'
  BY <1>8, <1>13 DEF ExecuteThrows, Retain
<1>14. ASSUME NEW j \in inflight, GpuComplete(j) PROVE CallInv'
  BY <1>14 DEF GpuComplete, hostVars, cacheVars
<1>15. CASE UNCHANGED vars
  BY <1>15 DEF vars, hostVars, cacheVars, queueVars
<1> QED BY <1>1, <1>2, <1>3, <1>5, <1>6, <1>7, <1>9, <1>10, <1>11, <1>12,
           <1>13, <1>14, <1>15 DEF Next

\* The state of the cache and of the call stays within its types.
THEOREM TypeCorrect == Spec => []TypeOK
<1>1. CallInv => TypeOK
  BY DEF CallInv
<1> QED BY CallInvInit, CallInvStep, <1>1, PTL DEF Spec

-----------------------------------------------------------------------------
\* The number of entries: finite by the type of the keys.
LEMMA EntriesFinite == CallInv => IsFiniteSet(DOMAIN entries) /\ Cardinality(DOMAIN entries) \in Nat
  BY KeysAssumption, FS_Subset, FS_CardinalityType DEF CallInv, TypeOK

\* A miss on a full cache erases one entry before it compiles; the scan and
\* the wait name an entry that is there.
ScanInv ==
    /\ pc = "scan" =>
         /\ todo \subseteq DOMAIN entries
         /\ Full
         /\ victim \in DOMAIN entries \cup {NoKey}
         /\ oldest \in DOMAIN entries \cup {NoKey}
         /\ oldest = NoKey => todo = DOMAIN entries
         /\ victim # NoKey => Ready(victim)
    /\ pc = "wait" => victim \in DOMAIN entries /\ Full
    /\ Bounded

LEMMA FullNotEmpty == CallInv /\ Full => DOMAIN entries # {}
  BY CapacityAssumption, FS_EmptySet DEF Full

LEMMA ErasedOne ==
  ASSUME CallInv, NEW v \in DOMAIN entries, Full, Erase(v)
  PROVE  /\ DOMAIN entries' = DOMAIN entries \ {v}
         /\ Cardinality(DOMAIN entries') = Capacity - 1
<1>1. DOMAIN entries' = DOMAIN entries \ {v}
  BY DEF Erase
<1> QED BY <1>1, EntriesFinite, FS_RemoveElement DEF Full

LEMMA ScanInvInit == Init => ScanInv
  BY FS_EmptySet, CapacityAssumption DEF Init, ScanInv, Bounded

LEMMA ScanInvStep == CallInv /\ ScanInv /\ [Next]_vars => ScanInv'
<1> SUFFICES ASSUME CallInv, ScanInv, [Next]_vars PROVE ScanInv'
  OBVIOUS
<1> USE CapacityAssumption
<1>0. Cardinality(DOMAIN entries) \in Nat /\ Cardinality(DOMAIN entries) <= Capacity
  BY EntriesFinite DEF ScanInv, Bounded
<1>1. ASSUME NEW k \in Keys, Hit(k) PROVE ScanInv'
  BY <1>0, <1>1 DEF Hit, Begin, NextTick, ScanInv, Bounded, CallInv, TypeOK
<1>2. ASSUME NEW k \in Keys, Miss(k) PROVE ScanInv'
  BY <1>0, <1>2 DEF Miss, Begin, ScanInv, Bounded, Full, CallInv, TypeOK
<1>3. ASSUME NEW k \in Keys, Visit(k) PROVE ScanInv'
  <2>1. k # NoKey /\ k \in DOMAIN entries
    BY <1>3, KeysAssumption DEF Visit, NoKey, ScanInv
  <2>2. (victim' = k /\ Ready(k)) \/ victim' = victim
    BY <1>3 DEF Visit, Picks
  <2>3. oldest' \in {k, oldest} /\ oldest' # NoKey
    BY <1>3, <2>1 DEF Visit
  <2>4. \A i : Ready(i)' <=> Ready(i)
    BY <1>3 DEF Visit, Ready, Complete, cacheVars, queueVars
  <2> QED BY <1>0, <1>3, <2>1, <2>2, <2>3, <2>4
      DEF Visit, ScanInv, Bounded, Full, cacheVars
<1>4. CASE EvictReady
  <2>1. victim \in DOMAIN entries /\ Full /\ Erase(victim) /\ key \notin DOMAIN entries
    BY <1>4 DEF EvictReady, ScanInv, CallInv
  <2>2. pc' = "compile" /\ key' = key
    BY <2>1 DEF Erase
  <2>3. /\ DOMAIN entries' = DOMAIN entries \ {victim}
        /\ Cardinality(DOMAIN entries') = Capacity - 1
    BY <2>1, ErasedOne
  <2>4. Cardinality(DOMAIN entries') < Capacity /\ key' \notin DOMAIN entries'
    BY <2>1, <2>2, <2>3
  <2>5. Cardinality(DOMAIN entries') <= Capacity
    BY <2>3
  <2> QED BY <2>2, <2>4, <2>5 DEF ScanInv, Bounded
<1>5. CASE PressureWait
  <2>1. oldest \in DOMAIN entries
    BY <1>5, FullNotEmpty DEF PressureWait, ScanInv
  <2> QED BY <1>0, <1>5, <2>1 DEF PressureWait, ScanInv, Bounded, Full
<1>6. CASE EvictWaited
  <2>1. victim \in DOMAIN entries /\ Full /\ Erase(victim) /\ key \notin DOMAIN entries
    BY <1>6 DEF EvictWaited, ScanInv, CallInv
  <2>2. pc' = "compile" /\ key' = key
    BY <2>1 DEF Erase
  <2>3. /\ DOMAIN entries' = DOMAIN entries \ {victim}
        /\ Cardinality(DOMAIN entries') = Capacity - 1
    BY <2>1, ErasedOne
  <2>4. Cardinality(DOMAIN entries') < Capacity /\ key' \notin DOMAIN entries'
    BY <2>1, <2>2, <2>3
  <2>5. Cardinality(DOMAIN entries') <= Capacity
    BY <2>3
  <2> QED BY <2>2, <2>4, <2>5 DEF ScanInv, Bounded
<1>7. ASSUME NEW n, Abort(n) PROVE ScanInv'
  BY <1>0, <1>7 DEF Abort, ScanInv, Bounded
<1>8. CASE Compile
  <2>1. DOMAIN entries' = DOMAIN entries \cup {key}
    BY <1>8 DEF Compile, NextTick
  <2>2. Cardinality(DOMAIN entries \cup {key}) = Cardinality(DOMAIN entries) + 1
    BY <1>8, EntriesFinite, FS_AddElement DEF Compile, NextTick, CallInv
  <2>3. Cardinality(DOMAIN entries) < Capacity
    BY <1>8 DEF Compile, NextTick, ScanInv, Bounded
  <2> QED BY <1>0, <1>8, <2>1, <2>2, <2>3 DEF Compile, NextTick, ScanInv, Bounded
<1>9. ASSUME NEW s \in Scales, Execute(s) PROVE ScanInv'
  BY <1>0, <1>9 DEF Execute, ScanInv, Bounded
<1>10. ASSUME NEW j \in inflight, GpuComplete(j) PROVE ScanInv'
  <2>1. \A i : Ready(i) => Ready(i)'
    BY <1>10 DEF GpuComplete, Ready, Complete, cacheVars
  <2> QED BY <1>0, <1>10, <2>1 DEF GpuComplete, hostVars, cacheVars, ScanInv, Bounded, Full
<1>11. CASE UNCHANGED vars
  BY <1>0, <1>11 DEF vars, hostVars, cacheVars, queueVars, ScanInv, Bounded, Full, Ready, Complete
<1> QED BY <1>1, <1>2, <1>3, <1>4, <1>5, <1>6, <1>7, <1>8, <1>9, <1>10, <1>11
    DEF Next, WaitThrows, CompileThrows, ExecuteThrows

\* The cache never holds more than Capacity partitions.
THEOREM NeverOverCapacity == Spec => []Bounded
<1>1. ScanInv => Bounded
  BY DEF ScanInv
<1> QED BY CallInvInit, CallInvStep, ScanInvInit, ScanInvStep, <1>1, PTL DEF Spec

-----------------------------------------------------------------------------
\* Ticks and kernel ids are fresh, so they name partitions and kernels.
NameInv ==
    /\ \A k \in DOMAIN entries :
         /\ 0 < entries[k].born /\ entries[k].born <= tick
         /\ entries[k].used <= tick
         /\ entries[k].last <= submitted
    /\ \A i, k \in DOMAIN entries :
         entries[i].born = entries[k].born \/ entries[i].used = entries[k].used => i = k
    /\ \A j \in inflight :
         /\ 0 < j.id /\ j.id <= submitted
         /\ j.dep < j.id
         /\ j.born <= tick
    /\ \A i, j \in inflight : i.id = j.id => i = j

LEMMA NameInvInit == Init => NameInv
  BY DEF Init, NameInv

LEMMA NameInvStep == CallInv /\ CallInv' /\ NameInv /\ [Next]_vars => NameInv'
<1> SUFFICES ASSUME CallInv, CallInv', NameInv, [Next]_vars PROVE NameInv'
  OBVIOUS
<1>0. /\ \A k \in DOMAIN entries : entries[k] \in Entry
      /\ \A j \in inflight : j \in Job
      /\ tick \in Nat /\ submitted \in Nat
  BY DEF CallInv, TypeOK
<1> USE <1>0 DEF NameInv, Entry, Job
<1>1. ASSUME NEW k \in Keys, Hit(k) PROVE NameInv'
  BY <1>1 DEF Hit, Begin, NextTick, queueVars
<1>2. ASSUME NEW k \in Keys, Miss(k) PROVE NameInv'
  BY <1>2 DEF Miss, Begin, queueVars
<1>3. ASSUME NEW k \in Keys, Visit(k) PROVE NameInv'
  BY <1>3 DEF Visit, cacheVars, queueVars
<1>4. ASSUME NEW v, Erase(v) PROVE NameInv'
  BY <1>4 DEF Erase, queueVars
<1>5. CASE PressureWait
  BY <1>5 DEF PressureWait, queueVars
<1>6. ASSUME NEW n, Abort(n) PROVE NameInv'
  BY <1>6 DEF Abort, queueVars
<1>7. CASE Compile
  BY <1>7 DEF Compile, NextTick, queueVars, NoEvent
<1>8. ASSUME NEW s \in Scales, Execute(s) PROVE NameInv'
  <2>1. key \in DOMAIN entries
    BY <1>8 DEF Execute, CallInv
  <2>2. /\ entries' = [entries EXCEPT ![key].last = submitted + 1]
        /\ tick' = tick /\ submitted' = submitted + 1
    BY <1>8 DEF Execute
  <2>3. inflight' = inflight \cup
          {[id |-> submitted + 1, dep |-> entries[key].last,
            born |-> entries[key].born, scale |-> s]}
    BY <1>8 DEF Execute, Deps
  <2>4. \A k \in DOMAIN entries' :
          /\ k \in DOMAIN entries
          /\ entries'[k].born = entries[k].born /\ entries'[k].used = entries[k].used
          /\ entries'[k].last <= submitted + 1
    BY <2>1, <2>2
  <2>5. \A j \in inflight' :
          /\ 0 < j.id /\ j.id <= submitted'
          /\ j.dep < j.id
          /\ j.born <= tick'
    BY <2>1, <2>2, <2>3
  <2>6. \A i, j \in inflight' : i.id = j.id => i = j
    BY <2>3
  <2> QED BY <2>2, <2>4, <2>5, <2>6
<1>9. ASSUME NEW j \in inflight, GpuComplete(j) PROVE NameInv'
  BY <1>9 DEF GpuComplete, cacheVars
<1>10. CASE UNCHANGED vars
  BY <1>10 DEF vars, cacheVars, queueVars
<1> QED BY <1>1, <1>2, <1>3, <1>4, <1>5, <1>6, <1>7, <1>8, <1>9, <1>10
    DEF Next, EvictReady, EvictWaited, WaitThrows, CompileThrows, ExecuteThrows

\* Two cached partitions never share a recency tick.
THEOREM RecencyIsTotal == Spec => []RecencyTotal
<1>1. NameInv => RecencyTotal
  BY DEF NameInv, RecencyTotal
<1> QED BY CallInvInit, CallInvStep, NameInvInit, NameInvStep, <1>1, PTL DEF Spec

-----------------------------------------------------------------------------
(***************************************************************************)
(* The kernels of one partition form a chain of dependencies that ends in  *)
(* last_use, so while one of them runs, so does last_use.                  *)
(***************************************************************************)
Running(queue, id, born) == \E l \in queue : l.id = id /\ l.born = born

ChainInv ==
    /\ \A k \in DOMAIN entries, j \in inflight :
         j.born = entries[k].born =>
           j.id <= entries[k].last /\ Running(inflight, entries[k].last, j.born)
    /\ \A i, j \in inflight :
         i.born = j.born /\ i.id < j.id => i.id <= j.dep /\ Running(inflight, j.dep, j.born)
    /\ LifetimeSafe

LEMMA ChainInvInit == Init => ChainInv
  BY DEF Init, ChainInv, LifetimeSafe

\* A ready partition has no kernel left on the device.
LEMMA ReadyIsUnused ==
  ASSUME CallInv, NameInv, ChainInv, NEW k \in DOMAIN entries, Ready(k),
         NEW j \in inflight
  PROVE  j.born # entries[k].born
<1> SUFFICES ASSUME j.born = entries[k].born PROVE FALSE
  OBVIOUS
<1>1. 0 < j.id /\ j.id <= entries[k].last /\ Running(inflight, entries[k].last, j.born)
  BY DEF ChainInv, NameInv
<1>2. j \in Job /\ entries[k] \in Entry
  BY DEF CallInv, TypeOK
<1>3. entries[k].last # NoEvent
  BY <1>1, <1>2 DEF NoEvent, Job, Entry
<1> QED BY <1>1, <1>3 DEF Ready, Complete, Running
LEMMA EraseKeepsChain ==
  ASSUME CallInv, NameInv, ChainInv, NEW v \in DOMAIN entries, Ready(v), Erase(v)
  PROVE  ChainInv'
<1>1. /\ inflight' = inflight
      /\ DOMAIN entries' = DOMAIN entries \ {v}
      /\ \A k \in DOMAIN entries' : entries'[k] = entries[k]
  BY DEF Erase, queueVars
<1>2. \A j \in inflight : j.born # entries[v].born
  BY ReadyIsUnused
<1>3. \A k \in DOMAIN entries', j \in inflight' :
         j.born = entries'[k].born =>
           j.id <= entries'[k].last /\ Running(inflight', entries'[k].last, j.born)
  BY <1>1 DEF ChainInv
<1>4. LifetimeSafe'
  BY <1>1, <1>2 DEF ChainInv, LifetimeSafe
<1> QED BY <1>1, <1>3, <1>4 DEF ChainInv

\* Steps that touch neither the queue nor an entry's birth and last use.
LEMMA SameChain ==
  ASSUME ChainInv, inflight' = inflight, DOMAIN entries' = DOMAIN entries,
         \A k \in DOMAIN entries : /\ entries'[k].born = entries[k].born
                                   /\ entries'[k].last = entries[k].last
  PROVE  ChainInv'
  BY DEF ChainInv, LifetimeSafe, Running

LEMMA ChainInvStep ==
  CallInv /\ ScanInv /\ NameInv /\ ChainInv /\ [Next]_vars => ChainInv'
<1> SUFFICES ASSUME CallInv, ScanInv, NameInv, ChainInv, [Next]_vars PROVE ChainInv'
  OBVIOUS
<1>0. /\ \A k \in DOMAIN entries : entries[k] \in Entry
      /\ \A j \in inflight : j \in Job
      /\ tick \in Nat /\ submitted \in Nat
  BY DEF CallInv, TypeOK
<1>1. ASSUME NEW k \in Keys, Hit(k) PROVE ChainInv'
  BY <1>0, <1>1, SameChain DEF Hit, Begin, NextTick, queueVars, Entry
<1>2. ASSUME NEW k \in Keys, Miss(k) PROVE ChainInv'
  BY <1>2, SameChain DEF Miss, queueVars
<1>3. ASSUME NEW k \in Keys, Visit(k) PROVE ChainInv'
  BY <1>3, SameChain DEF Visit, cacheVars, queueVars
<1>4. CASE EvictReady
  BY <1>4, EraseKeepsChain DEF EvictReady, ScanInv
<1>5. CASE PressureWait
  BY <1>5, SameChain DEF PressureWait, queueVars
<1>6. CASE EvictWaited
  BY <1>6, EraseKeepsChain DEF EvictWaited, ScanInv
<1>7. ASSUME NEW n, Abort(n) PROVE ChainInv'
  BY <1>7, SameChain DEF Abort, queueVars
<1>8. CASE Compile
  <2>1. /\ inflight' = inflight
        /\ DOMAIN entries' = DOMAIN entries \cup {key}
        /\ \A k \in DOMAIN entries : entries'[k] = entries[k]
        /\ entries'[key].born = tick + 1
    BY <1>8 DEF Compile, NextTick, queueVars, CallInv
  <2>2. \A j \in inflight : j.born # tick + 1
    BY <1>0 DEF NameInv, Job
  <2>3. \A k \in DOMAIN entries', j \in inflight' :
           j.born = entries'[k].born =>
             j.id <= entries'[k].last /\ Running(inflight', entries'[k].last, j.born)
    BY <2>1, <2>2 DEF ChainInv
  <2>4. LifetimeSafe'
    BY <2>1, <2>2 DEF ChainInv, LifetimeSafe
  <2> QED BY <2>1, <2>3, <2>4 DEF ChainInv
<1>9. ASSUME NEW s \in Scales, Execute(s) PROVE ChainInv'
  <2> DEFINE new == [id |-> submitted + 1, dep |-> entries[key].last,
                     born |-> entries[key].born, scale |-> s]
  <2>1. key \in DOMAIN entries
    BY <1>9 DEF Execute, CallInv
  <2>2. inflight' = inflight \cup {new}
    BY <1>9 DEF Execute, Deps
  <2>3. /\ DOMAIN entries' = DOMAIN entries
        /\ \A k \in DOMAIN entries : entries'[k].born = entries[k].born
        /\ \A k \in DOMAIN entries \ {key} : entries'[k].last = entries[k].last
        /\ entries'[key].last = submitted + 1
    BY <1>0, <1>9, <2>1 DEF Execute, Entry
  <2>4. \A id, born : Running(inflight, id, born) => Running(inflight', id, born)
    BY <2>2 DEF Running
  <2>5. Running(inflight', submitted + 1, entries[key].born)
    <3>1. new \in inflight' /\ new.id = submitted + 1 /\ new.born = entries[key].born
      BY <2>2
    <3> QED BY <3>1 DEF Running
  <2>6. ASSUME NEW k \in DOMAIN entries, NEW j \in inflight', j.born = entries'[k].born
        PROVE  j.id <= entries'[k].last /\ Running(inflight', entries'[k].last, j.born)
    <3>1. CASE k = key
      BY <1>0, <2>1, <2>2, <2>3, <2>5, <2>6, <3>1 DEF NameInv, Job
    <3>2. CASE k # key
      <4>1. j \in inflight /\ j.born = entries[k].born
        BY <2>1, <2>2, <2>3, <2>6, <3>2 DEF NameInv
      <4> QED BY <2>3, <2>4, <3>2, <4>1 DEF ChainInv
    <3> QED BY <3>1, <3>2
  <2>7. ASSUME NEW i \in inflight', NEW j \in inflight', i.born = j.born, i.id < j.id
        PROVE  i.id <= j.dep /\ Running(inflight', j.dep, j.born)
    <3>1. i \in inflight
      BY <1>0, <2>2, <2>7 DEF NameInv, Job
    <3>2. CASE j \in inflight
      BY <2>4, <2>7, <3>1, <3>2 DEF ChainInv
    <3>3. CASE j = new
      BY <2>1, <2>4, <2>7, <3>1, <3>3 DEF ChainInv
    <3> QED BY <2>2, <3>2, <3>3
  <2>8. LifetimeSafe'
    BY <2>1, <2>2, <2>3 DEF ChainInv, LifetimeSafe
  <2> QED BY <2>3, <2>6, <2>7, <2>8 DEF ChainInv
<1>10. ASSUME NEW x \in inflight, GpuComplete(x) PROVE ChainInv'
  <2>1. entries' = entries /\ inflight' = inflight \ {x}
    BY <1>10 DEF GpuComplete, cacheVars
  <2>2. ~ Running(inflight, x.dep, x.born) \/ x.dep = NoEvent
    BY <1>10 DEF GpuComplete, Complete, Running
  \* x is the oldest kernel of its partition, so no other relies on it.
  <2>3. ASSUME NEW i \in inflight, i # x, i.born = x.born PROVE x.id < i.id
    <3>1. SUFFICES ASSUME i.id < x.id PROVE FALSE
      BY <1>0, <2>3 DEF NameInv, Job
    <3>2. i.id <= x.dep /\ Running(inflight, x.dep, x.born)
      BY <2>3, <3>1 DEF ChainInv
    <3> QED BY <1>0, <2>2, <3>2 DEF NameInv, Job, NoEvent
  <2>4. ASSUME NEW k \in DOMAIN entries, NEW j \in inflight', j.born = entries[k].born
        PROVE  j.id <= entries[k].last /\ Running(inflight', entries[k].last, j.born)
    <3>1. j \in inflight /\ j # x /\ j.id <= entries[k].last /\ Running(inflight, entries[k].last, j.born)
      BY <2>1, <2>4 DEF ChainInv
    <3>2. ~ (x.id = entries[k].last /\ x.born = j.born)
      BY <1>0, <2>3, <3>1 DEF Job
    <3> QED BY <2>1, <3>1, <3>2 DEF Running
  <2>5. ASSUME NEW i \in inflight', NEW j \in inflight', i.born = j.born, i.id < j.id
        PROVE  i.id <= j.dep /\ Running(inflight', j.dep, j.born)
    <3>1. i \in inflight /\ i # x /\ j \in inflight /\ j # x
      BY <2>1
    <3>2. i.id <= j.dep /\ Running(inflight, j.dep, j.born)
      BY <2>5, <3>1 DEF ChainInv
    <3>3. ~ (x.id = j.dep /\ x.born = j.born)
      BY <1>0, <2>3, <2>5, <3>1, <3>2 DEF Job
    <3> QED BY <2>1, <3>2, <3>3 DEF Running
  <2> QED BY <2>1, <2>4, <2>5 DEF ChainInv, LifetimeSafe
<1>11. CASE UNCHANGED vars
  BY <1>11, SameChain DEF vars, cacheVars, queueVars
<1> QED BY <1>1, <1>2, <1>3, <1>4, <1>5, <1>6, <1>7, <1>8, <1>9, <1>10, <1>11
    DEF Next, WaitThrows, CompileThrows, ExecuteThrows

AllInv == CallInv /\ ScanInv /\ NameInv /\ ChainInv

LEMMA AllInvAlways == Spec => []AllInv
<1>1. Init => AllInv
  BY CallInvInit, ScanInvInit, NameInvInit, ChainInvInit DEF AllInv
<1>2. AllInv /\ [Next]_vars => AllInv'
  BY CallInvStep, ScanInvStep, NameInvStep, ChainInvStep DEF AllInv
<1> QED BY <1>1, <1>2, PTL DEF Spec

\* No kernel on the device ever runs on a partition the cache destroyed.
THEOREM EvictionIsLifetimeSafe == Spec => []LifetimeSafe
<1>1. AllInv => LifetimeSafe
  BY DEF AllInv, ChainInv
<1> QED BY AllInvAlways, <1>1, PTL

\* While any use of a partition runs, its last_use event is not complete.
THEOREM LastUseIsEnough == Spec => []LastUseCoversPriorUses
<1>1. AllInv => LastUseCoversPriorUses
  BY ReadyIsUnused DEF AllInv, LastUseCoversPriorUses
<1> QED BY AllInvAlways, <1>1, PTL

-----------------------------------------------------------------------------
\* The constant of a queued kernel stays owned by the context.
LEMMA ScaleStep == CallInv /\ ScaleRetained /\ [Next]_vars => ScaleRetained'
<1> SUFFICES ASSUME CallInv, ScaleRetained, [Next]_vars PROVE ScaleRetained'
  OBVIOUS
<1> USE DEF ScaleRetained
<1>1. ASSUME NEW s \in Scales, Execute(s) PROVE ScaleRetained'
  BY <1>1 DEF Execute, Retain
<1>2. ASSUME NEW s \in Scales, ExecuteThrows(s) PROVE ScaleRetained'
  BY <1>2 DEF ExecuteThrows, Abort, Retain, queueVars
<1>3. ASSUME NEW j \in inflight, GpuComplete(j) PROVE ScaleRetained'
  BY <1>3 DEF GpuComplete, cacheVars
<1>4. ASSUME UNCHANGED <<scales, inflight>> PROVE ScaleRetained'
  BY <1>4
<1> QED BY <1>1, <1>2, <1>3, <1>4 DEF Next, Hit, Miss, Visit, EvictReady, PressureWait,
      EvictWaited, Erase, WaitThrows, CompileThrows, Abort, Compile, vars, cacheVars, queueVars

\* No queued kernel reads a scale constant the context has let go.
THEOREM ScalesOutliveKernels == Spec => []ScaleRetained
<1>1. Init => ScaleRetained
  BY DEF Init, ScaleRetained
<1> QED BY CallInvInit, CallInvStep, <1>1, ScaleStep, PTL DEF Spec

-----------------------------------------------------------------------------
(***************************************************************************)
(* Refinement: each step is a step of the lifetime contract, or a stutter.  *)
(***************************************************************************)
Live == {entries[k].born : k \in DOMAIN entries}
RunningPairs == {<<j.id, j.born>> : j \in inflight}

LEMMA LiveSize ==
  ASSUME CallInv
  PROVE  Cardinality(Live) \in Nat /\ Cardinality(Live) <= Cardinality(DOMAIN entries)
<1> DEFINE f == [k \in DOMAIN entries |-> entries[k].born]
<1>1. f \in Surjection(DOMAIN entries, Live)
  <2>1. f \in [DOMAIN entries -> Live]
    BY DEF Live
  <2>2. \A p \in Live : \E k \in DOMAIN entries : f[k] = p
    BY DEF Live
  <2> QED BY <2>1, <2>2, Fun_IsSurj
<1>2. IsFiniteSet(Live) /\ Cardinality(Live) <= Cardinality(DOMAIN entries)
  BY <1>1, EntriesFinite, FS_Surjection
<1> QED BY <1>2, FS_CardinalityType

LEMMA SameLife ==
  ASSUME inflight' = inflight, DOMAIN entries' = DOMAIN entries,
         \A k \in DOMAIN entries : entries'[k].born = entries[k].born
  PROVE  Live' = Live /\ RunningPairs' = RunningPairs
  BY DEF Live, RunningPairs

LEMMA EraseDestroys ==
  ASSUME AllInv, NEW v \in DOMAIN entries, Ready(v), Erase(v)
  PROVE  Lifetime!Destroy
<1> USE DEF AllInv
<1>1. /\ inflight' = inflight
      /\ DOMAIN entries' = DOMAIN entries \ {v}
      /\ \A k \in DOMAIN entries' : entries'[k] = entries[k]
  BY DEF Erase, queueVars
<1>2. Live' = Live \ {entries[v].born} /\ entries[v].born \in Live
  BY <1>1 DEF Live, NameInv
<1>3. RunningPairs' = RunningPairs
  BY <1>1 DEF RunningPairs
<1>4. \A r \in RunningPairs : r[2] # entries[v].born
  BY ReadyIsUnused DEF RunningPairs
<1> QED BY <1>2, <1>3, <1>4 DEF Lifetime!Destroy, Lifetime!InUse, Live, RunningPairs

LEMMA CompileBuilds ==
  ASSUME AllInv, Compile
  PROVE  Lifetime!Build
<1> USE DEF AllInv
<1>1. /\ inflight' = inflight
      /\ DOMAIN entries' = DOMAIN entries \cup {key}
      /\ \A k \in DOMAIN entries : entries'[k] = entries[k]
      /\ entries'[key].born = tick + 1
  BY DEF Compile, NextTick, queueVars, CallInv
<1>2. Live' = Live \cup {tick + 1}
  BY <1>1 DEF Live
<1>3. tick + 1 \notin Live
  BY DEF Live, NameInv, CallInv, TypeOK, Entry
<1>4. Cardinality(Live) < Capacity
  BY LiveSize, EntriesFinite, CapacityAssumption DEF Compile, NextTick, ScanInv, Bounded
<1>5. RunningPairs' = RunningPairs
  BY <1>1 DEF RunningPairs
<1>6. Lifetime!Cardinality(Live) < Capacity
  BY <1>4 DEF Cardinality, Lifetime!Cardinality
<1> QED BY <1>2, <1>3, <1>5, <1>6 DEF Lifetime!Build, Live, RunningPairs

LEMMA ExecuteSubmits ==
  ASSUME AllInv, NEW s \in Scales, Execute(s)
  PROVE  Lifetime!Submit
<1> DEFINE pair == <<submitted + 1, entries[key].born>>
<1> USE DEF AllInv
<1>1. key \in DOMAIN entries
  BY DEF Execute, CallInv
<1>2. RunningPairs' = RunningPairs \cup {pair}
  <2> DEFINE new == [id |-> submitted + 1, dep |-> entries[key].last,
                     born |-> entries[key].born, scale |-> s]
  <2>1. inflight' = inflight \cup {new}
    BY DEF Execute, Deps
  <2>2. <<new.id, new.born>> = pair
    OBVIOUS
  <2> HIDE DEF new
  <2> QED BY <2>1, <2>2 DEF RunningPairs
<1>3. DOMAIN entries' = DOMAIN entries
      /\ \A k \in DOMAIN entries : entries'[k].born = entries[k].born
  BY <1>1 DEF Execute, CallInv, TypeOK, Entry
<1>4. Live' = Live /\ entries[key].born \in Live
  BY <1>1, <1>3 DEF Live
<1>5. \A q \in RunningPairs : q[1] # submitted + 1
  BY DEF RunningPairs, NameInv, CallInv, TypeOK, Job
<1> QED BY <1>2, <1>4, <1>5 DEF Lifetime!Submit, Live, RunningPairs

LEMMA CompletionRetires ==
  ASSUME AllInv, NEW j \in inflight, GpuComplete(j)
  PROVE  Lifetime!Retire
<1>1. inflight' = inflight \ {j} /\ entries' = entries
  BY DEF GpuComplete, cacheVars
<1>2. \A i \in inflight : <<i.id, i.born>> = <<j.id, j.born>> => i = j
  BY DEF AllInv, NameInv
<1>3. RunningPairs' = RunningPairs \ {<<j.id, j.born>>}
  BY <1>1, <1>2 DEF RunningPairs
<1>4. <<j.id, j.born>> \in RunningPairs /\ Live' = Live
  BY <1>1 DEF RunningPairs, Live
<1> QED BY <1>3, <1>4 DEF Lifetime!Retire, Live, RunningPairs

LEMMA StepRefines == AllInv /\ [Next]_vars => [Lifetime!LNext]_(Lifetime!absVars)
<1> SUFFICES ASSUME AllInv, [Next]_vars
             PROVE  Lifetime!LNext \/ (Live' = Live /\ RunningPairs' = RunningPairs)
  BY DEF Lifetime!absVars, Live, RunningPairs
<1>1. ASSUME NEW k \in Keys, Hit(k) PROVE Live' = Live /\ RunningPairs' = RunningPairs
  BY <1>1, SameLife DEF Hit, queueVars, AllInv, CallInv, TypeOK, Entry
<1>2. ASSUME NEW k \in Keys, Miss(k) \/ Visit(k)
      PROVE  Live' = Live /\ RunningPairs' = RunningPairs
  BY <1>2, SameLife DEF Miss, Visit, cacheVars, queueVars
<1>3. CASE EvictReady
  BY <1>3, EraseDestroys DEF EvictReady, AllInv, ScanInv, Lifetime!LNext
<1>4. CASE EvictWaited
  BY <1>4, EraseDestroys DEF EvictWaited, AllInv, ScanInv, Lifetime!LNext
<1>5. CASE PressureWait
  BY <1>5, SameLife DEF PressureWait, queueVars
<1>6. ASSUME NEW n, Abort(n) PROVE Live' = Live /\ RunningPairs' = RunningPairs
  BY <1>6, SameLife DEF Abort, queueVars
<1>7. CASE Compile
  BY <1>7, CompileBuilds DEF Lifetime!LNext
<1>8. ASSUME NEW s \in Scales, Execute(s) PROVE Lifetime!LNext
  BY <1>8, ExecuteSubmits DEF Lifetime!LNext
<1>9. ASSUME NEW j \in inflight, GpuComplete(j) PROVE Lifetime!LNext
  BY <1>9, CompletionRetires DEF Lifetime!LNext
<1>10. CASE UNCHANGED vars
  BY <1>10, SameLife DEF vars, cacheVars, queueVars
<1> QED BY <1>1, <1>2, <1>3, <1>4, <1>5, <1>6, <1>7, <1>8, <1>9, <1>10
    DEF Next, WaitThrows, CompileThrows, ExecuteThrows

\* The cache implements the lifetime contract for every capacity and key set.
THEOREM ImplementsLifetime == Spec => LifetimeSpec
<1>1. Init => Lifetime!LInit
  BY DEF Init, Lifetime!LInit
<1> QED BY <1>1, AllInvAlways, StepRefines, PTL DEF Spec, LifetimeSpec, Lifetime!LSpec

-----------------------------------------------------------------------------
\* One step of a miss changes the size by at most one, and its counter with it.
LEMMA StatsStep == CallInv /\ CallInv' /\ ScanInv /\ StatsBalance /\ [Next]_vars => StatsBalance'
<1> SUFFICES ASSUME CallInv, CallInv', ScanInv, StatsBalance, [Next]_vars PROVE StatsBalance'
  OBVIOUS
<1> DEFINE size == Cardinality(DOMAIN entries)
<1> USE DEF StatsBalance
<1>0. /\ size \in Nat /\ failed \in Nat
      /\ stats \in [hits : Nat, misses : Nat, evictions : Nat,
                    pressure_waits : Nat, peak_entries : Nat]
  BY EntriesFinite DEF CallInv, TypeOK
<1>1. ASSUME NEW k \in Keys, Hit(k) PROVE StatsBalance'
  <2>1. DOMAIN entries' = DOMAIN entries
    BY <1>1 DEF Hit, NextTick
  <2> QED BY <1>0, <1>1, <2>1 DEF Hit, Begin
<1>2. ASSUME NEW k \in Keys, Miss(k) PROVE StatsBalance'
  BY <1>0, <1>2 DEF Miss, Begin
<1>3. ASSUME NEW k \in Keys, Visit(k) PROVE StatsBalance'
  BY <1>0, <1>3 DEF Visit, cacheVars
<1>4. ASSUME NEW v \in DOMAIN entries, pc \in {"scan", "wait"}, Full, Erase(v)
      PROVE  StatsBalance'
  <2>1. Cardinality(DOMAIN entries') = size - 1
    BY <1>4, ErasedOne DEF Full
  <2> QED BY <1>0, <1>4, <2>1 DEF Erase
<1>5. CASE EvictReady
  BY <1>4, <1>5 DEF EvictReady, ScanInv
<1>6. CASE PressureWait
  BY <1>0, <1>6 DEF PressureWait
<1>7. CASE EvictWaited
  BY <1>4, <1>7 DEF EvictWaited, ScanInv
<1>8. CASE WaitThrows \/ CompileThrows
  BY <1>0, <1>8 DEF WaitThrows, CompileThrows, Abort
<1>9. CASE Compile
  <2>1. DOMAIN entries' = DOMAIN entries \cup {key}
    BY <1>9 DEF Compile, NextTick
  <2>2. Cardinality(DOMAIN entries \cup {key}) = size + 1
    BY <1>9, EntriesFinite, FS_AddElement DEF Compile, NextTick, CallInv
  <2>3. /\ pc = "compile" /\ pc' = "execute" /\ failed' = failed
        /\ stats' = [stats EXCEPT !.peak_entries = IF size + 1 > @ THEN size + 1 ELSE @]
    BY <1>9, <2>2 DEF Compile, NextTick
  <2> QED BY <1>0, <2>1, <2>2, <2>3
<1>10. ASSUME NEW s \in Scales, Execute(s) \/ ExecuteThrows(s) PROVE StatsBalance'
  <2>1. DOMAIN entries' = DOMAIN entries
    BY <1>10 DEF Execute, ExecuteThrows, Abort
  <2>2. UNCHANGED <<stats, failed>> /\ pc = "execute" /\ pc' = "idle"
    BY <1>0, <1>10 DEF Execute, ExecuteThrows, Abort
  <2> QED BY <1>0, <2>1, <2>2
<1>11. ASSUME NEW j \in inflight, GpuComplete(j) PROVE StatsBalance'
  BY <1>0, <1>11 DEF GpuComplete, hostVars, cacheVars
<1>12. CASE UNCHANGED vars
  BY <1>0, <1>12 DEF vars, hostVars, cacheVars
<1> QED BY <1>1, <1>2, <1>3, <1>5, <1>6, <1>7, <1>8, <1>9, <1>10, <1>11, <1>12 DEF Next

\* The counters account for every miss: it is cached, evicted, being served
\* or failed; the peak covers the size, and no wait goes unanswered.
THEOREM StatsAddUp == Spec => []StatsBalance
<1>1. Init => StatsBalance
  BY FS_EmptySet DEF Init, StatsBalance
<1> QED BY <1>1, CallInvInit, CallInvStep, ScanInvInit, ScanInvStep, StatsStep, PTL DEF Spec

-----------------------------------------------------------------------------
(***************************************************************************)
(* What the scan knows: kernels complete while it runs, so a partition that *)
(* was ready when it began still is, and the part of the cache it has      *)
(* visited is represented by its oldest and by its oldest ready partition. *)
(***************************************************************************)
PressureInv ==
    /\ pc = "scan" =>
         /\ idleAtMiss \subseteq DOMAIN entries
         /\ \A k \in idleAtMiss : Ready(k)
         /\ \A k \in DOMAIN entries \ todo :
              oldest # NoKey /\ entries[oldest].used <= entries[k].used
         /\ \A k \in idleAtMiss \ todo :
              victim # NoKey /\ entries[victim].used <= entries[k].used
    /\ WaitsOnlyUnderPressure

LEMMA PressureInvInit == Init => PressureInv
  BY DEF Init, PressureInv, WaitsOnlyUnderPressure

LEMMA PressureStep == CallInv /\ ScanInv /\ PressureInv /\ [Next]_vars => PressureInv'
<1> SUFFICES ASSUME CallInv, ScanInv, PressureInv, [Next]_vars PROVE PressureInv'
  OBVIOUS
<1>0. \A k \in DOMAIN entries : entries[k] \in Entry
  BY DEF CallInv, TypeOK
<1>1. ASSUME pc' \notin {"scan", "wait"} PROVE PressureInv'
  BY <1>1 DEF PressureInv, WaitsOnlyUnderPressure
<1>2. ASSUME NEW k \in Keys, Miss(k) PROVE PressureInv'
  <2>1. /\ todo' = DOMAIN entries \/ pc' = "compile"
        /\ idleAtMiss' = {i \in DOMAIN entries : Ready(i)}
        /\ UNCHANGED <<entries, inflight>> /\ pc' \in {"scan", "compile"}
    BY <1>2 DEF Miss, queueVars
  <2>2. \A i : Ready(i)' <=> Ready(i)
    BY <2>1 DEF Ready, Complete
  <2> QED BY <2>1, <2>2 DEF PressureInv, WaitsOnlyUnderPressure
<1>3. ASSUME NEW k \in Keys, Visit(k) PROVE PressureInv'
  <2>1. /\ pc = "scan" /\ k \in todo /\ todo' = todo \ {k} /\ pc' = pc
        /\ oldest' = (IF oldest = NoKey \/ entries[k].used < entries[oldest].used
                      THEN k ELSE oldest)
        /\ victim' = (IF Picks(k) THEN k ELSE victim)
        /\ UNCHANGED <<entries, inflight, idleAtMiss>>
    BY <1>3 DEF Visit, cacheVars, queueVars
  <2>2. k # NoKey /\ k \in DOMAIN entries
    BY <2>1, KeysAssumption DEF NoKey, ScanInv
  <2>3. \A i : Ready(i)' <=> Ready(i)
    BY <2>1 DEF Ready, Complete
  <2>4. ASSUME NEW i \in DOMAIN entries \ todo'
        PROVE  oldest' # NoKey /\ entries[oldest'].used <= entries[i].used
    <3>1. i = k \/ i \in DOMAIN entries \ todo
      BY <2>1, <2>4
    <3>2. oldest # NoKey => oldest \in DOMAIN entries
      BY <2>1 DEF ScanInv
    <3>3. i \in DOMAIN entries \ todo => oldest # NoKey /\ entries[oldest].used <= entries[i].used
      BY <2>1 DEF PressureInv
    <3> QED BY <1>0, <2>1, <2>2, <3>1, <3>2, <3>3 DEF Entry
  <2>5. ASSUME NEW i \in idleAtMiss \ todo'
        PROVE  victim' # NoKey /\ entries[victim'].used <= entries[i].used
    <3>1. i \in DOMAIN entries /\ Ready(i) /\ (i = k \/ i \in idleAtMiss \ todo)
      BY <2>1, <2>5 DEF PressureInv
    <3>2. victim # NoKey => victim \in DOMAIN entries
      BY <2>1 DEF ScanInv
    <3>3. i \in idleAtMiss \ todo => victim # NoKey /\ entries[victim].used <= entries[i].used
      BY <2>1 DEF PressureInv
    <3> QED BY <1>0, <2>1, <2>2, <3>1, <3>2, <3>3 DEF Entry, Picks
  <2>6. idleAtMiss' \subseteq DOMAIN entries' /\ \A i \in idleAtMiss' : Ready(i)'
    BY <2>1, <2>3 DEF PressureInv
  <2>7. pc' # "wait"
    BY <2>1
  <2> QED BY <2>1, <2>4, <2>5, <2>6, <2>7 DEF PressureInv, WaitsOnlyUnderPressure
<1>4. CASE PressureWait
  <2>1. /\ pc = "scan" /\ todo = {} /\ victim = NoKey /\ victim' = oldest /\ pc' = "wait"
        /\ UNCHANGED <<entries, key, idleAtMiss>>
    BY <1>4 DEF PressureWait
  <2>2. idleAtMiss = {}
    BY <2>1 DEF PressureInv
  <2>3. \A k \in DOMAIN entries : entries[oldest].used <= entries[k].used
    BY <2>1 DEF PressureInv
  <2>4. Full' /\ key' \notin DOMAIN entries'
    BY <2>1 DEF ScanInv, CallInv, Full
  <2> QED BY <2>1, <2>2, <2>3, <2>4 DEF PressureInv, WaitsOnlyUnderPressure
<1>5. ASSUME NEW j \in inflight, GpuComplete(j) PROVE PressureInv'
  <2>1. UNCHANGED <<entries, pc, key, todo, victim, oldest, idleAtMiss>>
    BY <1>5 DEF GpuComplete, hostVars, cacheVars
  <2>2. \A i : Ready(i) => Ready(i)'
    BY <1>5, <2>1 DEF GpuComplete, Ready, Complete
  <2> QED BY <2>1, <2>2 DEF PressureInv, WaitsOnlyUnderPressure, Full
<1>6. CASE UNCHANGED vars
  <2>1. UNCHANGED <<entries, pc, key, todo, victim, oldest, idleAtMiss, inflight>>
    BY <1>6 DEF vars, hostVars, cacheVars, queueVars
  <2>2. \A i : Ready(i)' <=> Ready(i)
    BY <2>1 DEF Ready, Complete
  <2> QED BY <2>1, <2>2 DEF PressureInv, WaitsOnlyUnderPressure, Full
<1>7. ASSUME NEW k \in Keys, Hit(k) PROVE pc' = "execute"
  BY <1>7 DEF Hit
<1>8. ASSUME NEW s \in Scales, Execute(s) \/ ExecuteThrows(s) PROVE pc' = "idle"
  BY <1>8 DEF Execute, ExecuteThrows, Abort
<1>9. ASSUME EvictReady \/ EvictWaited \/ WaitThrows \/ CompileThrows \/ Compile
      PROVE  pc' \in {"compile", "idle", "execute"}
  BY <1>9 DEF EvictReady, EvictWaited, WaitThrows, CompileThrows, Compile, Erase, Abort
<1> QED BY <1>1, <1>2, <1>3, <1>4, <1>5, <1>6, <1>7, <1>8, <1>9 DEF Next

LEMMA PressureAlways == Spec => [](CallInv /\ ScanInv /\ PressureInv)
BY CallInvInit, CallInvStep, ScanInvInit, ScanInvStep, PressureInvInit, PressureStep, PTL DEF Spec

\* The host blocks on the device only when every partition was in use as the
\* miss began, and then on the least recently used of all.
THEOREM BlocksOnlyUnderPressure == Spec => []WaitsOnlyUnderPressure
<1>1. PressureInv => WaitsOnlyUnderPressure
  BY DEF PressureInv
<1> QED BY <1>1, PressureAlways, PTL

\* Only a ready partition is evicted, and none that was ready when the miss
\* began is older, although kernels complete between two steps of the scan.
THEOREM EvictsTheRightOne == Spec => EvictsLeastRecentReady
<1> DEFINE Right == \A v \in DOMAIN entries \ DOMAIN entries' :
                       /\ Ready(v)
                       /\ \A k \in idleAtMiss : entries[v].used <= entries[k].used
                       /\ \A k \in DOMAIN entries' : entries'[k] = entries[k]
<1>1. ASSUME CallInv, ScanInv, PressureInv, [Next]_vars PROVE Right
  <2>1. ASSUME NEW v \in DOMAIN entries, Ready(v), Erase(v),
               \A k \in idleAtMiss : entries[v].used <= entries[k].used
        PROVE  Right
    BY <2>1 DEF Erase
  <2>2. CASE EvictReady
    BY <1>1, <2>1, <2>2 DEF EvictReady, ScanInv, PressureInv
  <2>3. CASE EvictWaited
    BY <1>1, <2>1, <2>3 DEF EvictWaited, ScanInv, PressureInv, WaitsOnlyUnderPressure
  <2>4. ASSUME DOMAIN entries \subseteq DOMAIN entries' PROVE Right
    BY <2>4
  <2>5. ASSUME NEW k \in Keys, Hit(k) \/ Miss(k) \/ Visit(k) PROVE Right
    BY <2>4, <2>5 DEF Hit, Miss, Visit, NextTick, cacheVars
  <2>6. ASSUME NEW s \in Scales, Execute(s) \/ ExecuteThrows(s) PROVE Right
    BY <2>4, <2>6 DEF Execute, ExecuteThrows, Abort
  <2>7. CASE PressureWait \/ WaitThrows \/ CompileThrows \/ Compile
    BY <2>4, <2>7 DEF PressureWait, WaitThrows, CompileThrows, Compile, Abort, NextTick
  <2>8. ASSUME NEW j \in inflight, GpuComplete(j) PROVE Right
    BY <2>4, <2>8 DEF GpuComplete, cacheVars
  <2>9. CASE UNCHANGED vars
    BY <2>4, <2>9 DEF vars, cacheVars
  <2> QED BY <1>1, <2>2, <2>3, <2>5, <2>6, <2>7, <2>8, <2>9 DEF Next
<1>2. CallInv /\ ScanInv /\ PressureInv /\ [Next]_vars => [Right]_vars
  BY <1>1
<1> QED BY <1>2, PressureAlways, PTL DEF Spec, EvictsLeastRecentReady
=============================================================================
