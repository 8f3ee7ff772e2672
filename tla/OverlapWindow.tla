---------------------------- MODULE OverlapWindow ----------------------------
(***************************************************************************)
(* The clocks of current-profile-benchmark.py and decode_overlap.py.       *)
(* The monitor thread samples the engine's counters, and stamps a sample,  *)
(* after it was taken, with the time since the monitor started.  A         *)
(* request's ttft_s and wall_s are measured from its own start, after the  *)
(* barrier.  run_once() compares the two: the samples between the largest  *)
(* ttft_s and the smallest wall_s are its fully overlapped window, and     *)
(* summarize_overlap() decides from their counters whether to believe it.  *)
(*                                                                         *)
(* Only the wave's own requests are here: BenchmarkWave shows that an      *)
(* accepted wave was served alone.  Time counts from monitor_start.        *)
(***************************************************************************)
EXTENDS Naturals, Sequences, FiniteSets

CONSTANTS Requests,
          Interval,    \* stop_monitor.wait(0.25)
          MaxSetup,    \* the longest time from monitor_start to a request's start
          Horizon,     \* bound on time
          MaxDrafts,   \* bound on speculative rounds
          MaxErrors    \* bound on failing metric requests

ASSUME RequestsAssumption == IsFiniteSet(Requests) /\ Requests # {}
ASSUME TimeAssumption == Interval \in Nat /\ MaxSetup \in Nat /\ Horizon \in Nat
ASSUME BoundsAssumption == MaxDrafts \in Nat /\ MaxErrors \in Nat
\* Writing the prompts and requests of a wave takes less than a sampling interval.
ASSUME SetupAssumption == MaxSetup < Interval

Never == Horizon + 1

VARIABLES
    now,
    start, ttft, wall,  \* of each request; ttft and wall count from start
    phase,              \* where the engine has it; "waiting" before it has it
    drafts,             \* vllm:spec_decode_num_draft_tokens_total, in rounds of one request
    reading,            \* a snapshot without its stamp: a place for one
    nextRead,
    samples,
    errors
client == <<start, ttft, wall>>
engine == <<phase, drafts>>
monitor == <<reading, nextRead, samples, errors>>
vars == <<now, client, engine, monitor>>

Phases == {"waiting", "prefill", "decode", "done"}
Unmeasured == [r \in Requests |-> Never]
Init ==
    /\ now = 0 /\ drafts = 0 /\ errors = 0
    /\ start = Unmeasured /\ ttft = Unmeasured /\ wall = Unmeasured
    /\ phase = [r \in Requests |-> "waiting"]
    /\ reading = <<>> /\ nextRead = 0 /\ samples = <<>>

AllStarted == \A r \in Requests : start[r] # Never
Over == \A r \in Requests : wall[r] # Never

Tick ==
    /\ ~Over /\ now < Horizon /\ (now < MaxSetup \/ AllStarted)
    /\ now' = now + 1
    /\ UNCHANGED <<client, engine, monitor>>

(***************************************************************************)
(* stream_completion(): the start, the first token, the end.               *)
(***************************************************************************)
Start(r) ==
    /\ start[r] = Never
    /\ start' = [start EXCEPT ![r] = now]
    /\ UNCHANGED <<now, ttft, wall, engine, monitor>>

SeesFirst(r) ==
    /\ phase[r] \in {"decode", "done"} /\ ttft[r] = Never
    /\ ttft' = [ttft EXCEPT ![r] = now - start[r]]
    /\ UNCHANGED <<now, start, wall, engine, monitor>>

SeesEnd(r) ==
    /\ phase[r] = "done" /\ ttft[r] # Never /\ wall[r] = Never
    /\ wall' = [wall EXCEPT ![r] = now - start[r]]
    /\ UNCHANGED <<now, start, ttft, engine, monitor>>

(***************************************************************************)
(* The engine.  A first token comes out of prefill without drafts; a       *)
(* speculative round drafts for every decoding request, and yields one     *)
(* token more than it accepts.                                             *)
(***************************************************************************)
Becomes(r, old, new) ==
    /\ phase[r] = old /\ phase' = [phase EXCEPT ![r] = new]
    /\ UNCHANGED <<now, client, drafts, monitor>>
ScheduleUnsent(r) == Becomes(r, "waiting", "prefill")    \* mutant of Schedule
Schedule(r) == start[r] # Never /\ Becomes(r, "waiting", "prefill")
FirstToken(r) == Becomes(r, "prefill", "decode")
Finish(r) == Becomes(r, "decode", "done")

In(places, p) == {r \in Requests : p[r] \in places}
Round ==
    LET decoding == Cardinality(In({"decode"}, phase)) IN
    /\ decoding > 0 /\ drafts + decoding <= MaxDrafts
    /\ drafts' = drafts + decoding
    /\ UNCHANGED <<now, client, phase, monitor>>

(***************************************************************************)
(* monitor(): take a snapshot, stamp it, wait.                             *)
(***************************************************************************)
NoValue == [error |-> TRUE, phase |-> [r \in Requests |-> "waiting"], drafts |-> 0]
Read ==
    /\ ~Over /\ reading = <<>> /\ now >= nextRead
    /\ \E failed \in BOOLEAN :
         /\ failed => errors < MaxErrors
         /\ errors' = errors + (IF failed THEN 1 ELSE 0)
         /\ reading' = <<IF failed THEN NoValue
                          ELSE [error |-> FALSE, phase |-> phase, drafts |-> drafts]>>
    /\ UNCHANGED <<now, client, engine, nextRead, samples>>

Stamp ==
    /\ reading # <<>>
    /\ samples' = Append(samples, [elapsed |-> now, value |-> reading[1]])
    /\ reading' = <<>> /\ nextRead' = now + Interval
    /\ UNCHANGED <<now, client, engine, errors>>

Next ==
    \/ Tick \/ Round \/ Read \/ Stamp
    \/ \E r \in Requests : \/ Start(r) \/ SeesFirst(r) \/ SeesEnd(r)
                           \/ Schedule(r) \/ FirstToken(r) \/ Finish(r)

Spec == Init /\ [][Next]_vars

(***************************************************************************)
(* summarize_overlap(samples, max ttft_s, min wall_s, concurrency).        *)
(***************************************************************************)
InWindow(s) == \A r \in Requests : ttft[r] <= s.elapsed /\ s.elapsed <= wall[r]
Window == {i \in DOMAIN samples : InWindow(samples[i])}
Valid == {i \in Window : ~samples[i].value.error}

FirstTokens(v) == Cardinality(In({"decode", "done"}, v.phase))
FullOccupancy(v) == In({"prefill", "decode"}, v.phase) = Requests
DraftsOnlyDelta(v, w) ==                                 \* mutant of CleanDelta
    w.drafts > v.drafts /\ (w.drafts - v.drafts) % Cardinality(Requests) = 0
\* Between two samples: drafts, and a whole number of rounds for all; no
\* request's prefill counted, which happens when it finishes; and as many
\* tokens as the rounds yield, that is, no first token.
CleanDelta(v, w) ==
    /\ w.drafts > v.drafts /\ (w.drafts - v.drafts) % Cardinality(Requests) = 0
    /\ FirstTokens(v) = FirstTokens(w)

CounterWindowValid ==
    /\ Over /\ Valid = Window
    /\ \A i \in Window : FullOccupancy(samples[i].value)
    /\ \E i, j \in Window :
         /\ \A k \in Window : i <= k /\ k <= j
         /\ i < j /\ CleanDelta(samples[i].value, samples[j].value)

Overlapped(v) == \A r \in Requests : v.phase[r] = "decode"

-----------------------------------------------------------------------------
Snapshots == [error : BOOLEAN, phase : [Requests -> Phases], drafts : Nat]
TypeOK ==
    /\ now \in 0..Horizon /\ drafts \in 0..MaxDrafts /\ errors \in 0..MaxErrors
    /\ start \in [Requests -> 0..Never]
    /\ ttft \in [Requests -> 0..Never] /\ wall \in [Requests -> 0..Never]
    /\ phase \in [Requests -> Phases]
    /\ Len(reading) <= 1 /\ (reading # <<>> => reading[1] \in Snapshots)
    /\ nextRead \in Nat
    /\ samples \in Seq([elapsed : 0..Horizon, value : Snapshots])

\* A window the counters vouch for is what it claims to be: in every sample of
\* it, every request of the wave was decoding -- although its bounds and its
\* stamps come from different clocks.  This needs the requests to start
\* within one sampling interval of the monitor.
ValidWindowIsOverlapped ==
    CounterWindowValid => \A i \in Window : Overlapped(samples[i].value)

\* RESULTS.md: measured "only after every request emitted its first token and
\* before any request completed".  The published rate uses every window of
\* two samples, vouched for or not.
MeasuredWhileOverlapped ==
    Over /\ Cardinality(Valid) >= 2 => \A i \in Valid : Overlapped(samples[i].value)
==============================================================================
