------------------------ MODULE BenchmarkWaveProofs ------------------------
(***************************************************************************)
(* The barrier and the accounting of a wave, for any Concurrency, any load *)
(* of other clients and any failures.                                      *)
(*                                                                         *)
(* The accounting: since the first snapshot the engine has finished at     *)
(* least the wave's answered requests and the finished ones of those that  *)
(* ran beside them.  When the engine is found idle after the wave nobody   *)
(* of either kind is left in it, so a difference of exactly Concurrency    *)
(* leaves no room for the second kind.                                     *)
(***************************************************************************)
EXTENDS BenchmarkWave, TLAPS, FiniteSetTheorems

Clients == Requests \cup Others
Type ==
    /\ main \in MainLabels /\ before \in Nat /\ finished \in Nat
    /\ thread \in [Requests -> {"none", "queued", "atBarrier", "streaming", "ok", "failed"}]
    /\ phase \in [Clients -> {"absent", "waiting", "running", "done"}]
    /\ beside \subseteq Others

Early == {"waitIdle", "prompts", "submit", "barrier"}
Gate ==
    /\ released => arrived = Parties
    /\ Main \in arrived => main \notin Early
    /\ \A r \in Requests : r \in arrived => thread[r] \notin {"none", "queued"}
    /\ \A r \in Requests : phase[r] # "absent" \/ thread[r] = "streaming" => released

Threads == \A r \in Requests :
    /\ thread[r] \in {"none", "queued", "atBarrier"} => phase[r] = "absent"
    /\ thread[r] \in {"ok", "failed"} => phase[r] = "done"

Over == {"account", "accepted"}
Served == {q \in Requests : phase[q] = "done" /\ thread[q] # "failed"}
            \cup {q \in beside : phase[q] = "done"}
Accounting ==
    /\ main \in {"waitIdle", "prompts"} => beside = {} /\ Served = {}
    /\ main \notin {"waitIdle", "prompts", "failed"} => before + Cardinality(Served) <= finished
    /\ main \in Over \cup {"idleAgain"} => \A r \in Requests : thread[r] = "ok"
    /\ \A q \in beside : phase[q] = "done" \/ (phase[q] = "running" /\ main \notin Over)

\* The loop submits in order, so the next request is a new one.
InOrder ==
    /\ main \in {"waitIdle", "prompts"} => Submitted = {}
    /\ main = "submit" => \E k \in 0..Concurrency - 1 : Submitted = 1..k

IInv == Type /\ Gate /\ Threads /\ InOrder /\ Accounting /\ AcceptedAlone

-----------------------------------------------------------------------------
(* What was served is a finite number of requests. *)
LEMMA ServedFinite == Type => IsFiniteSet(Served) /\ Cardinality(Served) \in Nat
<1> SUFFICES ASSUME Type PROVE IsFiniteSet(Served) /\ Cardinality(Served) \in Nat
  OBVIOUS
<1>1. IsFiniteSet(Requests)
  BY FS_Interval, ConcurrencyAssumption DEF Requests
<1>2. IsFiniteSet(Requests \cup Others)
  BY <1>1, FS_Union, OthersAssumption
<1>3. Served \subseteq Requests \cup Others
  BY DEF Served, Type
<1> QED
  BY <1>2, <1>3, FS_Subset, FS_CardinalityType

LEMMA InitIInv == Init => IInv
<1> SUFFICES ASSUME Init PROVE IInv
  OBVIOUS
<1> USE DEF Init
<1>1. Type
  BY DEF Type, MainLabels, Clients
<1>2. Gate /\ Threads /\ InOrder
  BY DEF Gate, Threads, InOrder, Parties, Main, Requests, Submitted, Clients
<1>3. Accounting /\ AcceptedAlone
  BY DEF Accounting, AcceptedAlone, Over, Served, Clients
<1> QED
  BY <1>1, <1>2, <1>3 DEF IInv

(* The main thread moves between labels that owe nothing new. *)
LEMMA MainMoves ==
    ASSUME IInv, WaitIdle \/ SubmitRaises \/ MainReleased \/ Collect \/ Shutdown \/ IdleTimeout
    PROVE  IInv'
<1> USE DEF WaitIdle, SubmitRaises, MainReleased, Collect, Shutdown, IdleTimeout, IInv, Goto, script, barrier, engine
<1>1. Type'
  BY DEF Type, MainLabels
<1>2. Gate' /\ Threads' /\ InOrder'
  BY DEF Gate, Threads, InOrder, Early, Submitted
<1>3. Served' = Served
  BY DEF Served
<1>4. AcceptedAlone'
  BY DEF AcceptedAlone
<1>5. main' \notin Over /\ (main' \in {"waitIdle", "prompts"} <=> main \in {"waitIdle", "prompts"} /\ main' # "failed")
  BY DEF Over
<1>6. main' = "idleAgain" => \A r \in Requests : thread'[r] = "ok"
  BY DEF Over
<1>7. Accounting'
  BY <1>3, <1>5, <1>6 DEF Accounting, Over
<1> QED
  BY <1>1, <1>2, <1>4, <1>7

LEMMA SnapshotKeeps == ASSUME IInv, Snapshot PROVE IInv'
<1> USE DEF Snapshot, IInv, Goto, barrier, engine
<1>1. Type'
  BY DEF Type, MainLabels
<1>2. Gate' /\ Threads'
  BY DEF Gate, Threads, Early
<1>3. Submitted' = {} /\ 1..0 = {}
  BY DEF InOrder, Submitted
<1>4. InOrder'
  BY <1>3, ConcurrencyAssumption DEF InOrder
<1>5. Served' = {} /\ finished \in Nat
  BY DEF Served, Accounting, Type
<1>6. Accounting' /\ AcceptedAlone'
  BY <1>5, FS_EmptySet DEF Accounting, AcceptedAlone, Over
<1> QED
  BY <1>1, <1>2, <1>4, <1>6

LEMMA SubmitKeeps == ASSUME IInv, Submit PROVE IInv'
<1> USE DEF IInv, barrier, engine, script
<1>1. PICK k \in 0..Concurrency - 1 : Submitted = 1..k
  BY DEF InOrder, Submit
<1>2. Cardinality(1..k) = k
  BY <1>1, FS_Interval, ConcurrencyAssumption
<1> DEFINE r == k + 1
<1>3. r \in Requests /\ r \notin Submitted /\ thread[r] = "none"
  BY <1>1, ConcurrencyAssumption DEF Requests, Submitted
<1>4. /\ thread' = [thread EXCEPT ![r] = "queued"]
      /\ main' = IF r = Concurrency THEN "barrier" ELSE "submit"
      /\ main = "submit" /\ UNCHANGED <<before, stranded, arrived, released, phase, finished, beside, faults>>
  BY <1>1, <1>2 DEF Submit, Goto
<1> HIDE DEF r
<1>5. Type'
  BY <1>3, <1>4 DEF Type, MainLabels
<1>6. Gate' /\ Threads'
  BY <1>3, <1>4 DEF Gate, Threads, Early, Type
<1>7. Submitted' = Submitted \cup {r}
  BY <1>3, <1>4 DEF Submitted, Type
<1>8. Submitted' = 1..r /\ (r # Concurrency => r \in 0..Concurrency - 1)
  BY <1>1, <1>7, ConcurrencyAssumption DEF r
<1>9. InOrder'
  BY <1>4, <1>8 DEF InOrder
<1>10. Served' = Served
  BY <1>3, <1>4 DEF Served, Type, Threads
<1>11. Accounting' /\ AcceptedAlone'
  BY <1>4, <1>10 DEF Accounting, AcceptedAlone, Over
<1> QED
  BY <1>5, <1>6, <1>9, <1>11

(* At the barrier: it opens when everybody is there. *)
LEMMA MainArrivesKeeps == ASSUME IInv, MainArrives PROVE IInv'
<1> USE DEF MainArrives, Arrive, IInv, Goto, script, engine
<1>1. Type'
  BY DEF Type, MainLabels
<1>2. released => released'
  BY DEF Gate, Parties
<1>3. Main \notin Requests
  BY ConcurrencyAssumption DEF Main, Requests
<1>6. Gate' /\ Threads' /\ InOrder'
  BY <1>2, <1>3 DEF Gate, Threads, InOrder, Early, Submitted
<1>4. Served' = Served
  BY DEF Served
<1>5. Accounting' /\ AcceptedAlone'
  BY <1>4 DEF Accounting, AcceptedAlone, Over
<1> QED
  BY <1>1, <1>5, <1>6

LEMMA InterruptedKeeps == ASSUME IInv, InterruptedAtBarrier PROVE IInv'
<1> USE DEF InterruptedAtBarrier, IInv, Goto, script, engine
<1>1. Type'
  BY DEF Type, MainLabels
<1>2. Gate' /\ Threads' /\ InOrder'
  BY DEF Gate, Threads, InOrder, Early, Submitted
<1>3. Served' = Served
  BY DEF Served
<1>4. Accounting' /\ AcceptedAlone'
  BY <1>3 DEF Accounting, AcceptedAlone, Over
<1> QED
  BY <1>1, <1>2, <1>4

LEMMA ThreadArrivesKeeps == ASSUME IInv, NEW r \in Requests, ThreadArrives(r) PROVE IInv'
<1> USE DEF ThreadArrives, Arrive, IInv, script, engine
<1>1. Type'
  BY DEF Type
<1>2. released => released'
  BY DEF Gate, Parties
<1>3. Submitted' = Submitted
  BY DEF Submitted, Type
<1>4. r # Main
  BY ConcurrencyAssumption DEF Requests, Main
<1>5. Gate' /\ Threads' /\ InOrder'
  BY <1>2, <1>3, <1>4 DEF Gate, Threads, InOrder, Type
<1>6. Served' = Served
  BY DEF Served, Type
<1>7. Accounting' /\ AcceptedAlone'
  BY <1>6 DEF Accounting, AcceptedAlone, Over
<1> QED
  BY <1>1, <1>5, <1>7

(* A thread sends, is answered, or gives up. *)
LEMMA SendKeeps == ASSUME IInv, NEW r \in Requests, Send(r) PROVE IInv'
<1> USE DEF Send, IInv, script, barrier, Clients
<1>1. Type'
  BY DEF Type
<1>2. Submitted' = Submitted
  BY DEF Submitted, Type
<1>3. Gate' /\ Threads' /\ InOrder'
  BY <1>2 DEF Gate, Threads, InOrder, Type
<1>4. phase[r] = "absent" /\ r \notin beside
  BY OthersAssumption DEF Threads, Type, Requests
<1>5. Served' = Served
  BY <1>4 DEF Served, Type
<1>6. Accounting' /\ AcceptedAlone'
  BY <1>4, <1>5 DEF Accounting, AcceptedAlone, Over, Type
<1> QED
  BY <1>1, <1>3, <1>6

LEMMA AnsweredKeeps == ASSUME IInv, NEW r \in Requests, Answered(r) PROVE IInv'
<1> USE DEF Answered, IInv, script, barrier, engine
<1>1. Type'
  BY DEF Type
<1>2. Submitted' = Submitted
  BY DEF Submitted, Type
<1>3. Gate' /\ Threads' /\ InOrder'
  BY <1>2 DEF Gate, Threads, InOrder, Type
<1>4. Served' = Served
  BY DEF Served, Type
<1>5. Accounting' /\ AcceptedAlone'
  BY <1>4 DEF Accounting, AcceptedAlone, Over, Type
<1> QED
  BY <1>1, <1>3, <1>5

LEMMA RequestRaisesKeeps == ASSUME IInv, NEW r \in Requests, RequestRaises(r) PROVE IInv'
<1> USE DEF RequestRaises, IInv, script, barrier, Clients
<1>1. Type'
  BY DEF Type
<1>2. Submitted' = Submitted
  BY DEF Submitted, Type
<1>3. Gate' /\ Threads' /\ InOrder'
  BY <1>2 DEF Gate, Threads, InOrder, Type
<1>4. r \notin beside /\ Served' \subseteq Served
  BY OthersAssumption DEF Served, Type, Requests
<1>5. Cardinality(Served') <= Cardinality(Served) /\ Cardinality(Served') \in Nat
  BY <1>4, ServedFinite, FS_Subset, FS_CardinalityType
<1>6. Cardinality(Served)' = Cardinality(Served') /\ before \in Nat /\ finished \in Nat /\ Cardinality(Served) \in Nat
  BY ServedFinite DEF Type
<1>7. \A n \in Nat : n <= Cardinality(Served) /\ before + Cardinality(Served) <= finished => before + n <= finished
  BY <1>6
<1>8. Accounting'
  BY <1>4, <1>5, <1>6, <1>7 DEF Accounting, Over, Type
<1>9. AcceptedAlone'
  BY DEF AcceptedAlone
<1> QED
  BY <1>1, <1>3, <1>8, <1>9

(* The engine is idle after the wave: everybody has been counted. *)
LEMMA WaitIdleAgainKeeps == ASSUME IInv, WaitIdleAgain PROVE IInv'
<1> USE DEF WaitIdleAgain, WaveOver, IInv, Goto, script, barrier, engine
<1>1. Type'
  BY DEF Type, MainLabels
<1>2. Gate' /\ Threads' /\ InOrder'
  BY DEF Gate, Threads, InOrder, Early, Submitted
<1>3. \A q \in beside : phase[q] \in {"absent", "done"}
  BY DEF Type, Idle, Serving, Clients
<1>4. Served' = Served
  BY DEF Served
<1>5. Accounting' /\ AcceptedAlone'
  BY <1>3, <1>4 DEF Accounting, AcceptedAlone, Over
<1> QED
  BY <1>1, <1>2, <1>5

(* Exactly Concurrency more: the wave accounts for them all. *)
LEMMA AccountKeeps == ASSUME IInv, Account PROVE IInv'
<1> USE DEF Account, IInv, Goto, script, barrier, engine
<1>1. Type'
  BY DEF Type, MainLabels
<1>2. Gate' /\ Threads' /\ InOrder'
  BY DEF Gate, Threads, InOrder, Early, Submitted
<1>3. Served' = Served
  BY DEF Served
<1>4. Accounting'
  BY <1>3 DEF Accounting, Over
<1>5. Served = Requests \cup beside
  BY DEF Served, Accounting, Threads, Over
<1>6. Requests \subseteq Served /\ Cardinality(Requests) = Concurrency
  BY <1>5, FS_Interval, ConcurrencyAssumption DEF Requests
<1>7. main' = "accepted" => Cardinality(Served) <= Concurrency
  <2>1. before + Cardinality(Served) <= finished /\ before \in Nat /\ finished \in Nat /\ Cardinality(Served) \in Nat
    BY ServedFinite DEF Accounting, Type
  <2> QED
    BY <2>1, ConcurrencyAssumption
<1>8. Cardinality(Served) <= Concurrency => Served = Requests
  <2>1. Cardinality(Requests) <= Cardinality(Served)
    BY <1>6, ServedFinite, FS_Subset
  <2> QED
    BY <1>6, <2>1, ServedFinite, FS_Subset, ConcurrencyAssumption
<1>9. beside \cap Requests = {}
  BY OthersAssumption DEF Type, Requests
<1>10. AcceptedAlone'
  BY <1>5, <1>7, <1>8, <1>9 DEF AcceptedAlone
<1> QED
  BY <1>1, <1>2, <1>4, <1>10

(* After the wave nobody runs beside it any more. *)
LEMMA OtherArrivesKeeps == ASSUME IInv, NEW q \in Clients, OtherArrives(q) PROVE IInv'
<1> USE DEF OtherArrives, IInv, script, barrier, Clients
<1>1. Type'
  BY DEF Type
<1>2. q \notin Requests /\ q \notin beside
  BY OthersAssumption DEF Requests, Accounting
<1>3. Gate' /\ Threads' /\ InOrder'
  BY <1>2 DEF Gate, Threads, InOrder, Submitted, Type
<1>4. Served' = Served
  BY <1>2 DEF Served, Type
<1>5. Accounting' /\ AcceptedAlone'
  BY <1>2, <1>4 DEF Accounting, AcceptedAlone, Over, Type
<1> QED
  BY <1>1, <1>3, <1>5

LEMMA ScheduleKeeps == ASSUME IInv, NEW q \in Clients, Schedule(q) PROVE IInv'
<1> USE DEF Schedule, IInv, script, barrier, Clients
<1> DEFINE new == Together({p \in DOMAIN phase : phase'[p] = "running"})
<1>1. /\ phase[q] = "waiting" /\ phase' = [phase EXCEPT ![q] = "running"] /\ beside' = beside \cup new
      /\ UNCHANGED <<main, before, stranded, thread, arrived, released, finished, faults>>
  OBVIOUS
<1>2. new \subseteq Others /\ \A p \in new : phase'[p] = "running"
  BY DEF Together, Type
<1>3. new # {} => \E r \in Requests : phase'[r] = "running"
  BY DEF Together
<1> HIDE DEF new, Schedule
<1>4. Type'
  BY <1>1, <1>2 DEF Type
<1>5. Gate' /\ Threads' /\ InOrder'
  BY <1>1 DEF Gate, Threads, InOrder, Submitted, Type
<1>6. Served' = Served
  BY <1>1, <1>2 DEF Served, Type
<1>7. main \in {"waitIdle", "prompts"} \cup Over => new = {}
  <2>1. main \in {"waitIdle", "prompts"} => \A r \in Requests : thread[r] = "none" /\ phase[r] = "absent"
    BY DEF InOrder, Submitted, Threads
  <2>2. main \in Over => \A r \in Requests : phase[r] = "done"
    BY DEF Accounting, Threads
  <2> QED
    BY <1>1, <1>3, <2>1, <2>2 DEF Type
<1>8. \A p \in beside : phase[p] # "waiting"
  BY DEF Accounting
<1>9. Accounting'
  BY <1>1, <1>2, <1>6, <1>7, <1>8 DEF Accounting, Over, Type
<1>10. AcceptedAlone'
  BY <1>1, <1>7 DEF AcceptedAlone, Over
<1> QED
  BY <1>4, <1>5, <1>9, <1>10

(* A finished request is counted once, whoever's it is. *)
LEMMA FinishKeeps == ASSUME IInv, NEW q \in Clients, Finish(q) PROVE IInv'
<1> USE DEF Finish, IInv, script, barrier, Clients
<1>1. Type'
  BY DEF Type
<1>2. Gate' /\ Threads' /\ InOrder'
  BY DEF Gate, Threads, InOrder, Submitted, Type
<1>3. Served' \subseteq Served \cup {q} /\ finished' = finished + 1
  BY DEF Served, Type
<1>4. Cardinality(Served') <= Cardinality(Served) + 1 /\ Cardinality(Served') \in Nat
  <2>1. IsFiniteSet(Served \cup {q}) /\ Cardinality(Served \cup {q}) <= Cardinality(Served) + 1
    <3>1. IsFiniteSet(Served) /\ Cardinality(Served) \in Nat
      BY ServedFinite
    <3>2. /\ IsFiniteSet(Served \cup {q})
          /\ Cardinality(Served \cup {q}) = IF q \in Served THEN Cardinality(Served) ELSE Cardinality(Served) + 1
      BY <3>1, FS_AddElement
    <3>3. \A n \in Nat : n <= n + 1
      OBVIOUS
    <3> HIDE DEF Served
    <3> QED
      BY <3>1, <3>2, <3>3
  <2>2. Cardinality(Served') <= Cardinality(Served \cup {q}) /\ Cardinality(Served') \in Nat
    BY <1>3, <2>1, FS_Subset, FS_CardinalityType
  <2>3. Cardinality(Served \cup {q}) \in Nat /\ Cardinality(Served) \in Nat
    BY <2>1, ServedFinite, FS_CardinalityType
  <2> QED
    BY <2>1, <2>2, <2>3
<1>5. before \in Nat /\ finished \in Nat /\ Cardinality(Served) \in Nat
  BY ServedFinite DEF Type
<1>6. before + Cardinality(Served) <= finished => before + Cardinality(Served') <= finished'
  BY <1>3, <1>4, <1>5
<1>7. main \in {"waitIdle", "prompts"} => Served' = {}
  <2>1. main \in {"waitIdle", "prompts"} => \A r \in Requests : thread[r] = "none" /\ phase[r] = "absent"
    BY DEF InOrder, Submitted, Threads
  <2> QED
    BY <2>1 DEF Served, Type, Accounting
<1>8. \A p \in beside : phase'[p] = "done" \/ (phase'[p] = "running" /\ main \notin Over)
  BY DEF Accounting, Type
<1>9. main' = main /\ beside' = beside /\ thread' = thread /\ before' = before /\ Cardinality(Served)' = Cardinality(Served')
  OBVIOUS
<1> HIDE DEF Finish
<1>10. Accounting'
  BY <1>6, <1>7, <1>8, <1>9 DEF Accounting
<1>11. AcceptedAlone'
  BY <1>9 DEF AcceptedAlone
<1> QED
  BY <1>1, <1>2, <1>10, <1>11

(* Every step keeps the inductive invariant. *)
LEMMA NextIInv == IInv /\ [Next]_vars => IInv'
<1> SUFFICES ASSUME IInv, [Next]_vars PROVE IInv'
  OBVIOUS
<1>1. CASE MainStep \/ SubmitRaises \/ InterruptedAtBarrier
  BY <1>1, MainMoves, SnapshotKeeps, SubmitKeeps, MainArrivesKeeps, InterruptedKeeps,
     WaitIdleAgainKeeps, AccountKeeps DEF MainStep
<1>2. ASSUME NEW r \in Requests, ThreadStep(r) \/ RequestRaises(r) PROVE IInv'
  BY <1>2, ThreadArrivesKeeps, SendKeeps, AnsweredKeeps, RequestRaisesKeeps DEF ThreadStep
<1>3. ASSUME NEW q \in Requests \cup Others, EngineStep(q) \/ OtherArrives(q) PROVE IInv'
  BY <1>3, ScheduleKeeps, FinishKeeps, OtherArrivesKeeps DEF EngineStep, Clients
<1>4. CASE UNCHANGED vars
  BY <1>4 DEF vars, IInv, Type, Gate, Threads, InOrder, Submitted, Accounting, Served, AcceptedAlone
<1> QED
  BY <1>1, <1>2, <1>3, <1>4 DEF Next

(* An accepted wave ran beside no other client's request, for every number  *)
(* of requests, of other clients and of failures.                           *)
THEOREM AcceptedWavesAreAlone == Spec => []AcceptedAlone
<1>1. IInv => AcceptedAlone
  BY DEF IInv
<1> QED
  BY <1>1, InitIInv, NextIInv, PTL DEF Spec

(* No request reaches the engine before every thread of the wave and the    *)
(* main thread have arrived at the barrier.                                 *)
THEOREM WavesAreReleasedTogether == Spec => []ReleasedTogether
<1>1. IInv => ReleasedTogether
  BY DEF IInv, Gate, ReleasedTogether, Parties, Early
<1> QED
  BY <1>1, InitIInv, NextIInv, PTL DEF Spec

-----------------------------------------------------------------------------
(* The rest of the types, and what a stranded wave is: the barrier is shut, *)
(* the main thread will not come back to it, and no thread of the wave can  *)
(* end.                                                                     *)
Loose ==
    /\ stranded \in BOOLEAN /\ released \in BOOLEAN
    /\ arrived \subseteq Parties /\ faults \in 0..MaxFaults

Stranding == stranded => ~released /\ Main \notin arrived /\ main \in {"shutdown", "failed"}

LEMMA InitLoose == Init => Loose /\ Stranding
<1>1. Init => stranded \in BOOLEAN /\ released \in BOOLEAN
  BY DEF Init
<1>2. Init => arrived \subseteq Parties /\ faults \in 0..MaxFaults
  BY FaultsAssumption DEF Init
<1>3. Init => Stranding
  BY DEF Init, Stranding
<1> QED BY <1>1, <1>2, <1>3 DEF Loose

LEMMA LooseStep == IInv /\ Loose /\ [Next]_vars => Loose'
<1> SUFFICES ASSUME IInv, Loose, [Next]_vars PROVE Loose'
  OBVIOUS
<1> USE FaultsAssumption DEF Loose
<1>1. faults' \in 0..MaxFaults
  <2>1. faults' = faults \/ (faults < MaxFaults /\ faults' = faults + 1)
    BY DEF Next, MainStep, WaitIdle, Snapshot, Submit, SubmitRaises, MainArrives, MainReleased,
           InterruptedAtBarrier, ThreadStep, ThreadArrives, Send, Answered, RequestRaises, Collect,
           Shutdown, WaitIdleAgain, IdleTimeout, Account, EngineStep, OtherArrives, Schedule,
           Finish, vars
  <2> QED BY <2>1
<1>2. stranded' \in BOOLEAN
  <2>1. stranded' = stranded \/ stranded' = TRUE
    BY DEF Next, MainStep, WaitIdle, Snapshot, Submit, SubmitRaises, MainArrives, MainReleased,
           InterruptedAtBarrier, ThreadStep, ThreadArrives, Send, Answered, RequestRaises, Collect,
           Shutdown, WaitIdleAgain, IdleTimeout, Account, EngineStep, OtherArrives, Schedule,
           Finish, vars, script
  <2> QED BY <2>1
<1>3. \/ UNCHANGED <<arrived, released>>
      \/ \E t \in Parties : Arrive(t)
      \/ arrived' = arrived \ {Main} /\ released' = released
  <2>1. CASE MainArrives
    BY <2>1 DEF MainArrives, Parties
  <2>2. ASSUME NEW r \in Requests, ThreadArrives(r) PROVE \E t \in Parties : Arrive(t)
    BY <2>2 DEF ThreadArrives, Parties
  <2>3. CASE InterruptedAtBarrier
    BY <2>3 DEF InterruptedAtBarrier
  <2> QED BY <2>1, <2>2, <2>3
          DEF Next, MainStep, WaitIdle, Snapshot, Submit, SubmitRaises, MainReleased, ThreadStep,
              Send, Answered, RequestRaises, Collect, Shutdown, WaitIdleAgain, IdleTimeout, Account,
              EngineStep, OtherArrives, Schedule, Finish, vars, barrier
<1>4. arrived' \subseteq Parties
  BY <1>3 DEF Arrive
<1>5. released' \in BOOLEAN
  BY <1>3 DEF Arrive
<1> QED BY <1>1, <1>2, <1>4, <1>5

LEMMA StrandingStep == IInv /\ Stranding /\ [Next]_vars => Stranding'
<1> SUFFICES ASSUME IInv, Stranding, [Next]_vars PROVE Stranding'
  OBVIOUS
<1> USE DEF Stranding
<1>1. CASE SubmitRaises
  BY <1>1 DEF SubmitRaises, IInv, Gate, Early, Parties, barrier, Goto
<1>2. CASE InterruptedAtBarrier
  BY <1>2 DEF InterruptedAtBarrier, Goto
<1>3. ASSUME NEW r \in Requests, ThreadArrives(r) PROVE Stranding'
  <2>1. /\ arrived' = arrived \cup {r} /\ released' = (arrived' = Parties)
        /\ stranded' = stranded /\ main' = main
    BY <1>3 DEF ThreadArrives, Arrive, script
  <2>2. r # Main /\ Main \in Parties
    BY ConcurrencyAssumption DEF Requests, Main, Parties
  <2>3. stranded => Main \notin arrived'
    BY <2>1, <2>2
  <2>4. stranded => ~released'
    BY <2>1, <2>2, <2>3
  <2> QED BY <2>1, <2>3, <2>4
<1>4. CASE MainStep
  BY <1>4 DEF MainStep, WaitIdle, Snapshot, Submit, MainArrives, MainReleased, Collect, Shutdown,
              WaitIdleAgain, IdleTimeout, Account, Goto, script, barrier
<1>5. ASSUME NEW r \in Requests, Send(r) \/ Answered(r) \/ RequestRaises(r) PROVE Stranding'
  BY <1>5 DEF Send, Answered, RequestRaises, script, barrier
<1>6. ASSUME NEW q \in Requests \cup Others, EngineStep(q) \/ OtherArrives(q) PROVE Stranding'
  BY <1>6 DEF EngineStep, Schedule, Finish, OtherArrives, script, barrier
<1>7. CASE UNCHANGED vars
  BY <1>7 DEF vars
<1> QED BY <1>1, <1>2, <1>3, <1>4, <1>5, <1>6, <1>7 DEF Next, ThreadStep

LEMMA StrandingAlways == Spec => [](IInv /\ Loose /\ Stranding)
<1>1. Init => IInv /\ Loose /\ Stranding
  BY InitIInv, InitLoose
<1>2. IInv /\ Loose /\ Stranding /\ [Next]_vars => (IInv /\ Loose /\ Stranding)'
  BY NextIInv, LooseStep, StrandingStep
<1> QED BY <1>1, <1>2, PTL DEF Spec

\* Everything the script, its threads and the engine keep stays in its type.
THEOREM TypeCorrect == Spec => []TypeOK
<1>1. IInv /\ Loose => TypeOK
  BY DEF IInv, Type, Loose, TypeOK, Clients
<1> QED BY <1>1, StrandingAlways, PTL

\* When the main thread leaves before the barrier opens, and a request was
\* submitted, it stays in the executor's shutdown for ever.
THEOREM StrandedStays == Spec => StrandedForever
<1>1. ASSUME IInv, Stranding, [Next]_vars, stranded, Submitted # {} PROVE main' = main
  <2>1. \A r \in Requests : ~Ended(r)
    BY <1>1 DEF IInv, Gate, Threads, Stranding, Ended
  <2>2. main \in {"shutdown", "failed"}
    BY <1>1 DEF Stranding
  <2>3. ~Shutdown
    BY <1>1, <2>1 DEF Shutdown, Submitted
  <2>4. CASE MainStep
    BY <2>2, <2>3, <2>4 DEF MainStep, WaitIdle, Snapshot, Submit, MainArrives, MainReleased,
                            Collect, WaitIdleAgain, IdleTimeout, Account
  <2>5. CASE SubmitRaises \/ InterruptedAtBarrier
    BY <2>2, <2>5 DEF SubmitRaises, InterruptedAtBarrier
  <2> QED BY <1>1, <2>4, <2>5 DEF Next, ThreadStep, ThreadArrives, Send, Answered, RequestRaises,
                                  EngineStep, Schedule, Finish, OtherArrives, vars
<1>2. IInv /\ Stranding /\ [Next]_vars => [stranded /\ Submitted # {} => main' = main]_vars
  BY <1>1
<1> QED BY <1>2, StrandingAlways, PTL DEF Spec, StrandedForever
=============================================================================
