---------------------------- MODULE BenchmarkWave ----------------------------
(***************************************************************************)
(* current-profile-benchmark.py, run_once(): one wave of Concurrency       *)
(* simultaneous requests.  The main thread waits for an idle engine, takes *)
(* the counters, submits one thread per request to a pool, and releases    *)
(* them through a barrier it takes part in.  When all have answered it     *)
(* waits for an idle engine again and takes the counters again: the wave   *)
(* is accepted if the engine finished exactly Concurrency requests.        *)
(*                                                                         *)
(* The engine is shared: the benchmark takes no lock, and other clients    *)
(* may send requests at any time.  They wait for their answers.            *)
(***************************************************************************)
EXTENDS Naturals, FiniteSets

CONSTANTS Concurrency,     \* requests in a wave
          Others,          \* requests of other clients, a bound on the load
          MaxFaults        \* bound on failing requests
ASSUME ConcurrencyAssumption == Concurrency \in Nat \ {0}
ASSUME OthersAssumption == Others \cap Nat = {} /\ IsFiniteSet(Others)
ASSUME FaultsAssumption == MaxFaults \in Nat

Requests == 1..Concurrency
Main == 0

VARIABLES
    main,       \* where run_once() is
    before,     \* finished_requests in the first snapshot
    stranded,   \* the submission loop or the barrier raised
    thread,     \* the future of each request
    arrived,    \* who waits at the barrier
    released,   \* the barrier has let everybody go
    phase,      \* the requests in the engine
    finished,   \* vllm:request_success_total
    beside,     \* the other requests served while a request of the wave was
    faults
vars == <<main, before, stranded, thread, arrived, released, phase, finished, beside, faults>>
script == <<before, stranded>>
barrier == <<arrived, released>>
engine == <<phase, finished, beside>>

MainLabels == {"waitIdle", "prompts", "submit", "barrier", "waiting", "collect", "shutdown",
               "idleAgain", "account", "accepted", "failed"}
Init ==
    /\ main = "waitIdle" /\ before = 0 /\ stranded = FALSE
    /\ thread = [r \in Requests |-> "none"]
    /\ arrived = {} /\ released = FALSE
    /\ phase = [q \in Requests \cup Others |-> "absent"]
    /\ finished = 0 /\ beside = {} /\ faults = 0

Serving(q) == phase[q] \in {"waiting", "running"}
Idle == \A q \in DOMAIN phase : ~Serving(q)
Goto(label) == main' = label
Ended(r) == thread[r] \in {"ok", "failed"}
Submitted == {r \in Requests : thread[r] # "none"}

(***************************************************************************)
(* The main thread, up to the barrier.                                     *)
(***************************************************************************)
WaitIdle ==
    /\ main = "waitIdle" /\ Idle
    /\ Goto("prompts") /\ UNCHANGED <<script, thread, barrier, engine, faults>>

\* Building the prompts takes a while; then the first snapshot.
Snapshot ==
    /\ main = "prompts"
    /\ before' = finished /\ Goto("submit")
    /\ UNCHANGED <<stranded, thread, barrier, engine, faults>>

Submit ==
    /\ main = "submit"
    /\ LET r == Cardinality(Submitted) + 1 IN
       /\ thread' = [thread EXCEPT ![r] = "queued"]
       /\ Goto(IF r = Concurrency THEN "barrier" ELSE "submit")
    /\ UNCHANGED <<script, barrier, engine, faults>>

\* An exception on the way leaves through the executor's __exit__.
SubmitRaises ==
    /\ main = "submit" /\ faults < MaxFaults
    /\ Goto("shutdown") /\ stranded' = TRUE /\ faults' = faults + 1
    /\ UNCHANGED <<before, thread, barrier, engine>>

WithoutMain == Requests                                  \* mutant of Parties
Parties == Requests \cup {Main}
Arrive(t) == arrived' = arrived \cup {t} /\ released' = (arrived' = Parties)

MainArrives ==
    /\ main = "barrier" /\ Arrive(Main) /\ Goto("waiting")
    /\ UNCHANGED <<script, thread, engine, faults>>
MainReleased ==
    /\ main = "waiting" /\ released /\ Goto("collect")
    /\ UNCHANGED <<script, thread, barrier, engine, faults>>
\* Ctrl-C in barrier.wait(): the main thread leaves, and breaks nothing.
InterruptedAtBarrier ==
    /\ main = "waiting" /\ ~released /\ faults < MaxFaults
    /\ arrived' = arrived \ {Main} /\ Goto("shutdown")
    /\ stranded' = TRUE /\ faults' = faults + 1
    /\ UNCHANGED <<before, thread, released, engine>>

(***************************************************************************)
(* The pool's threads: stream_completion().                                *)
(***************************************************************************)
OneShort == Concurrency - 1                              \* mutant of MaxWorkers
MaxWorkers == Concurrency
Busy == {r \in Submitted : thread[r] # "queued" /\ ~Ended(r)}
ThreadArrives(r) ==
    /\ thread[r] = "queued" /\ Cardinality(Busy) < MaxWorkers
    /\ thread' = [thread EXCEPT ![r] = "atBarrier"] /\ Arrive(r)
    /\ UNCHANGED <<main, script, engine, faults>>

Send(r) ==
    /\ thread[r] = "atBarrier" /\ released
    /\ thread' = [thread EXCEPT ![r] = "streaming"]
    /\ phase' = [phase EXCEPT ![r] = "waiting"]
    /\ UNCHANGED <<main, script, barrier, finished, beside, faults>>

Answered(r) ==
    /\ thread[r] = "streaming" /\ phase[r] = "done"
    /\ thread' = [thread EXCEPT ![r] = "ok"]
    /\ UNCHANGED <<main, script, barrier, engine, faults>>

\* An HTTP error, an error event or the 7200 s timeout.
RequestRaises(r) ==
    /\ thread[r] = "streaming" /\ faults < MaxFaults
    /\ thread' = [thread EXCEPT ![r] = "failed"] /\ faults' = faults + 1
    /\ phase' = [phase EXCEPT ![r] = "done"]
    /\ UNCHANGED <<main, script, barrier, finished, beside>>

(***************************************************************************)
(* The main thread, after the barrier.  The executor's __exit__ waits for  *)
(* every thread it was given; then the monitor is stopped and joined, for  *)
(* five seconds at most.                                                   *)
(***************************************************************************)
Collect ==
    /\ main = "collect"
    /\ \/ (\A r \in Requests : thread[r] = "ok") /\ Goto("idleAgain")
       \/ (\E r \in Requests : thread[r] = "failed") /\ Goto("shutdown")
    /\ UNCHANGED <<script, thread, barrier, engine, faults>>

Shutdown ==
    /\ main = "shutdown" /\ \A r \in Submitted : Ended(r)
    /\ Goto("failed") /\ UNCHANGED <<script, thread, barrier, engine, faults>>

AtOnce == TRUE                                           \* mutant of WaveOver
WaveOver == Idle
WaitIdleAgain ==
    /\ main = "idleAgain" /\ WaveOver
    /\ Goto("account") /\ UNCHANGED <<script, thread, barrier, engine, faults>>

\* wait_idle() gives up after 120 seconds.
IdleTimeout ==
    /\ main \in {"waitIdle", "idleAgain"} /\ ~Idle
    /\ Goto("failed") /\ UNCHANGED <<script, thread, barrier, engine, faults>>

Account ==
    /\ main = "account"
    /\ Goto(IF finished - before = Concurrency THEN "accepted" ELSE "failed")
    /\ UNCHANGED <<script, thread, barrier, engine, faults>>

(***************************************************************************)
(* The engine, and its other clients.                                      *)
(***************************************************************************)
OtherArrives(q) ==
    /\ q \in Others /\ phase[q] = "absent"
    /\ phase' = [phase EXCEPT ![q] = "waiting"]
    /\ UNCHANGED <<main, script, thread, barrier, finished, beside, faults>>

Together(running) == IF running \cap Requests = {} THEN {} ELSE running \cap Others
Schedule(q) ==
    /\ phase[q] = "waiting"
    /\ phase' = [phase EXCEPT ![q] = "running"]
    /\ beside' = beside \cup Together({p \in DOMAIN phase : phase'[p] = "running"})
    /\ UNCHANGED <<main, script, thread, barrier, finished, faults>>

Finish(q) ==
    /\ phase[q] = "running"
    /\ phase' = [phase EXCEPT ![q] = "done"] /\ finished' = finished + 1
    /\ UNCHANGED <<main, script, thread, barrier, beside, faults>>

MainStep ==
    \/ WaitIdle \/ Snapshot \/ Submit \/ MainArrives \/ MainReleased \/ Collect \/ Shutdown
    \/ WaitIdleAgain \/ IdleTimeout \/ Account
ThreadStep(r) == ThreadArrives(r) \/ Send(r) \/ Answered(r)
EngineStep(q) == Schedule(q) \/ Finish(q)

Next ==
    \/ MainStep \/ SubmitRaises \/ InterruptedAtBarrier
    \/ \E r \in Requests : ThreadStep(r) \/ RequestRaises(r)
    \/ \E q \in Requests \cup Others : EngineStep(q) \/ OtherArrives(q)

Spec == Init /\ [][Next]_vars
\* The threads run, and the engine serves what it is given.
FairSpec ==
    /\ Spec /\ WF_vars(MainStep)
    /\ \A r \in Requests : WF_vars(ThreadStep(r))
    /\ \A q \in Requests \cup Others : WF_vars(EngineStep(q))

-----------------------------------------------------------------------------
TypeOK ==
    /\ main \in MainLabels /\ before \in Nat /\ stranded \in BOOLEAN
    /\ thread \in [Requests -> {"none", "queued", "atBarrier", "streaming", "ok", "failed"}]
    /\ arrived \subseteq Parties /\ released \in BOOLEAN
    /\ phase \in [Requests \cup Others -> {"absent", "waiting", "running", "done"}]
    /\ finished \in Nat /\ beside \subseteq Others /\ faults \in 0..MaxFaults

\* Simultaneous release: no request of the wave reaches the engine before the
\* threads of all of them, and the main thread, have arrived at the barrier.
ReleasedTogether ==
    \A r \in Requests : phase[r] # "absent" =>
        /\ \A s \in Requests : thread[s] \notin {"none", "queued"}
        /\ main \notin {"waitIdle", "prompts", "submit", "barrier"}

\* A wave whose accounting is accepted was served alone: no request of another
\* client was in the engine's batch while one of the wave was.
AcceptedAlone == main = "accepted" => beside = {}

\* A wave ends, whatever its requests meet, unless the main thread leaves
\* before the barrier opens.
WaveEnds == <>(main \in {"accepted", "failed"} \/ stranded)

\* And then it never ends: the executor waits for a thread that waits for the
\* main thread.  Only a failure before the first submission gets away.
StrandedForever == [][stranded /\ Submitted # {} => main' = main]_vars
==============================================================================
