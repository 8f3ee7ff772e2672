------------------------ MODULE OverlapWindowProofs ------------------------
(***************************************************************************)
(* A window the counters vouch for is fully overlapped, for any wave, any  *)
(* delays of the client and of the monitor, and any sampling interval that *)
(* is longer than the setup.                                               *)
(*                                                                         *)
(* The argument: a sample that does not show r's first token was read      *)
(* before r saw it.  The last sample of the window was read an interval    *)
(* after the first was stamped, at ttft[r] at the earliest; on the         *)
(* monitor's clock r saw its first token less than an interval after       *)
(* that.  So the last sample shows every first token; the residual says    *)
(* that the first sample shows as many, hence all; and full occupancy that *)
(* no request was done.                                                    *)
(***************************************************************************)
EXTENDS OverlapWindow, TLAPS, FiniteSetTheorems, SequenceTheorems

First == {"decode", "done"}
Known(v) == ~v.error
Behind(p, q) == \A r \in Requests : (p[r] \in First => q[r] \in First) /\ (p[r] = "done" => q[r] = "done")
\* r saw its first token at t or later, if it did.
Unseen(r, t) == ttft[r] = Never \/ start[r] + ttft[r] >= t

Type ==
    /\ now \in 0..Horizon /\ drafts \in Nat /\ errors \in Nat
    /\ start \in [Requests -> 0..Never]
    /\ ttft \in [Requests -> 0..Never] /\ wall \in [Requests -> 0..Never]
    /\ phase \in [Requests -> Phases]
    /\ reading \in Seq(Snapshots) /\ Len(reading) <= 1
    /\ nextRead \in Nat
    /\ samples \in Seq([elapsed : 0..Horizon, value : Snapshots])

Clocks ==
    /\ now <= MaxSetup \/ AllStarted
    /\ \A r \in Requests :
         /\ start[r] # Never => start[r] <= MaxSetup /\ start[r] <= now
         /\ phase[r] # "waiting" => start[r] # Never
         /\ ttft[r] # Never => start[r] # Never /\ phase[r] \in First /\ start[r] + ttft[r] <= now

Reading ==
    reading # <<>> =>
      /\ now >= nextRead
      /\ Known(reading[1]) =>
           /\ Behind(reading[1].phase, phase)
           /\ \A r \in Requests : reading[1].phase[r] \notin First => Unseen(r, nextRead)
           /\ \A i \in DOMAIN samples :
                Known(samples[i].value) => Behind(samples[i].value.phase, reading[1].phase)

Sampled ==
    \A j \in DOMAIN samples :
      /\ samples[j].elapsed <= now /\ samples[j].elapsed + Interval <= nextRead
      /\ Known(samples[j].value) => Behind(samples[j].value.phase, phase)
      /\ \A i \in DOMAIN samples : i < j =>
           /\ samples[i].elapsed + Interval <= samples[j].elapsed
           /\ Known(samples[j].value) =>
                /\ Known(samples[i].value) => Behind(samples[i].value.phase, samples[j].value.phase)
                /\ \A r \in Requests : samples[j].value.phase[r] \notin First
                                          => Unseen(r, samples[i].elapsed + Interval)

IInv == Type /\ Clocks /\ Reading /\ Sampled

-----------------------------------------------------------------------------
(* Being behind is a preorder: the engine only moves forward. *)
LEMMA BehindTransitive ==
    ASSUME NEW p, NEW q, NEW s, Behind(p, q), Behind(q, s)
    PROVE  Behind(p, s)
BY DEF Behind

(* The place for a reading is empty or holds a snapshot. *)
LEMMA ReadingType ==
    ASSUME Type
    PROVE  reading = <<>> \/ (reading[1] \in Snapshots /\ Len(reading) = 1)
<1>1. ASSUME NEW S, reading \in Seq(S), Len(reading) <= 1
      PROVE  reading = <<>> \/ (reading[1] \in S /\ Len(reading) = 1)
  <2>1. CASE Len(reading) = 0
    <3>1. <<>> \in Seq(S) /\ Len(<<>>) = 0
      OBVIOUS
    <3> QED
      BY <1>1, <2>1, <3>1, SeqEqual
  <2>2. CASE Len(reading) = 1
    BY <1>1, <2>2
  <2>3. Len(reading) \in Nat
    BY <1>1
  <2>4. \A n \in Nat : n <= 1 => n = 0 \/ n = 1
    OBVIOUS
  <2>5. Len(reading) = 0 \/ Len(reading) = 1
    BY <1>1, <2>3, <2>4
  <2> QED
    BY <2>1, <2>2, <2>5
<1> HIDE DEF Snapshots
<1> QED
  BY <1>1 DEF Type

(* What the samples are made of. *)
LEMMA SampleType ==
    ASSUME Type, NEW i \in DOMAIN samples
    PROVE  /\ i \in Nat /\ samples[i].value \in Snapshots
           /\ samples[i].elapsed \in 0..Horizon /\ samples[i].elapsed \in Nat
           /\ samples[i].elapsed + Interval \in Nat
<1>1. ASSUME NEW S, samples \in Seq(S) PROVE i \in Nat /\ samples[i] \in S
  BY <1>1
<1>2. i \in Nat /\ samples[i] \in [elapsed : 0..Horizon, value : Snapshots]
  BY <1>1 DEF Type
<1>3. samples[i].elapsed \in 0..Horizon /\ samples[i].value \in Snapshots
  BY <1>2
<1>4. \A n \in 0..Horizon : n \in Nat /\ n + Interval \in Nat
  BY TimeAssumption
<1> HIDE DEF Snapshots
<1> QED
  BY <1>2, <1>3, <1>4

(* The initial state satisfies the inductive invariant. *)
LEMMA InitIInv == Init => IInv
<1>1. Init => Type
  BY TimeAssumption, BoundsAssumption DEF Init, Type, Unmeasured, Phases, Never
<1>2. Init => Clocks /\ Reading /\ Sampled
  BY TimeAssumption DEF Init, Clocks, Reading, Sampled, Unmeasured
<1> QED
  BY <1>1, <1>2 DEF IInv

(* Steps of the clock alone disturb only bounds by the clock. *)
LEMMA TickKeeps == ASSUME IInv, Tick PROVE IInv'
<1> USE TimeAssumption DEF IInv, Tick, client, engine, monitor
<1>1. Type'
  BY DEF Type
<1>2. Clocks'
  BY DEF Clocks, Type, AllStarted, Never
<1>3. Reading'
  BY DEF Reading, Type, Behind, Unseen
<1>4. now \in Nat /\ now' = now + 1
  BY DEF Type
<1>5. \A j \in DOMAIN samples : samples[j].elapsed <= now'
  BY <1>4, SampleType DEF Sampled
<1>6. Sampled'
  BY <1>5 DEF Sampled, Behind, Unseen
<1> QED
  BY <1>1, <1>2, <1>3, <1>6

(* A request starts before the end of the setup. *)
LEMMA StartKeeps == ASSUME IInv, NEW r \in Requests, Start(r) PROVE IInv'
<1> USE TimeAssumption DEF IInv, Start, engine, monitor
<1>1. Type'
  BY DEF Type, Never
<1>2. ttft[r] = Never /\ now <= MaxSetup
  BY DEF Clocks, AllStarted
<1>3. Clocks'
  BY <1>2 DEF Clocks, Type, AllStarted, Never
<1>4. \A q \in Requests : \A t : Unseen(q, t) => Unseen(q, t)'
  BY <1>2 DEF Unseen, Type
<1>5. Reading'
  BY <1>4 DEF Reading, Behind
<1>6. Sampled'
  BY <1>4 DEF Sampled, Behind
<1> QED
  BY <1>1, <1>3, <1>5, <1>6

(* The first token is seen now, an interval after every stamp before the    *)
(* last sample's.                                                           *)
LEMMA SeesFirstKeeps == ASSUME IInv, NEW r \in Requests, SeesFirst(r) PROVE IInv'
<1> USE TimeAssumption DEF IInv, SeesFirst, engine, monitor
<1>1. phase[r] \in First /\ start[r] # Never /\ start[r] <= now
  BY DEF Clocks, First
<1>2. ttft'[r] = now - start[r] /\ start[r] + ttft'[r] = now /\ now - start[r] \in 0..Horizon
  BY <1>1 DEF Type, Never
<1>3. Type'
  BY <1>2 DEF Type, Never
<1>4. Clocks'
  BY <1>1, <1>2 DEF Clocks, Type, AllStarted, Never
<1>5. ASSUME NEW q \in Requests, NEW t \in Nat, t <= now, Unseen(q, t) PROVE Unseen(q, t)'
  BY <1>2, <1>5 DEF Unseen, Type
<1>6. Reading'
  BY <1>5 DEF Reading, Behind, Type
<1>7. Sampled'
  <2>1. now \in Nat
    BY DEF Type
  <2>2. ASSUME NEW i \in DOMAIN samples, NEW j \in DOMAIN samples, i < j
        PROVE  samples[i].elapsed + Interval <= now
    BY <2>1, <2>2, SampleType DEF Sampled
  <2> QED
    BY <1>5, <2>2, SampleType DEF Sampled, Behind
<1> QED
  BY <1>3, <1>4, <1>6, <1>7

(* The end of a request is no concern of the invariant. *)
LEMMA SeesEndKeeps == ASSUME IInv, NEW r \in Requests, SeesEnd(r) PROVE IInv'
<1> USE TimeAssumption DEF IInv, SeesEnd, engine, monitor
<1>1. start[r] # Never /\ start[r] <= now
  BY DEF Clocks
<1>2. Type'
  BY <1>1 DEF Type, Never
<1>3. Clocks' /\ Reading' /\ Sampled'
  BY DEF Clocks, Reading, Sampled, Behind, Unseen, AllStarted
<1> QED
  BY <1>2, <1>3

(* The engine moves a request forward. *)
LEMMA EngineKeeps ==
    ASSUME IInv, NEW r \in Requests, Schedule(r) \/ FirstToken(r) \/ Finish(r)
    PROVE  IInv'
<1> USE TimeAssumption DEF IInv, Schedule, FirstToken, Finish, Becomes, client, monitor
<1>1. Type'
  BY DEF Type, Phases
<1>2. Behind(phase, phase') /\ \A q \in Requests : phase'[q] # "waiting" => start[q] # Never
  BY DEF Behind, First, Type, Clocks
<1>3. Clocks'
  BY <1>2 DEF Clocks, Behind, AllStarted
<1>4. ASSUME NEW p, Behind(p, phase) PROVE Behind(p, phase')
  BY <1>2, <1>4, BehindTransitive
<1>5. Reading'
  BY <1>4 DEF Reading, Unseen, Behind
<1>6. Sampled'
  BY <1>4 DEF Sampled, Unseen, Behind
<1> QED
  BY <1>1, <1>3, <1>5, <1>6
(* A snapshot is of this moment, or of none. *)
LEMMA ReadKeeps == ASSUME IInv, Read PROVE IInv'
<1> USE TimeAssumption DEF IInv, Read, client, engine
<1>1. PICK failed \in BOOLEAN :
        /\ errors' = errors + (IF failed THEN 1 ELSE 0)
        /\ reading' = <<IF failed THEN NoValue ELSE [error |-> FALSE, phase |-> phase, drafts |-> drafts]>>
  OBVIOUS
<1>2. reading'[1] = (IF failed THEN NoValue ELSE [error |-> FALSE, phase |-> phase, drafts |-> drafts])
  BY <1>1
<1>3. reading'[1] \in Snapshots /\ Len(reading') = 1 /\ reading' \in Seq(Snapshots)
  <2>1. NoValue \in Snapshots /\ [error |-> FALSE, phase |-> phase, drafts |-> drafts] \in Snapshots
    BY DEF NoValue, Snapshots, Type, Phases
  <2> QED
    BY <1>1, <2>1
<1>4. Type'
  BY <1>1, <1>3 DEF Type
<1>5. Clocks' /\ Sampled'
  BY DEF Clocks, Sampled, AllStarted, Unseen
<1>6. Known(reading'[1]) => reading'[1].phase = phase
  BY <1>2 DEF NoValue, Known
<1>7. \A r \in Requests : phase[r] \notin First => Unseen(r, nextRead)'
  BY DEF Unseen, Clocks
<1>8. Behind(phase, phase)' /\ \A i \in DOMAIN samples : Known(samples[i].value) => Behind(samples[i].value.phase, phase)
  BY DEF Behind, Sampled
<1>9. Reading'
  BY <1>6, <1>7, <1>8 DEF Reading, Behind
<1> QED
  BY <1>4, <1>5, <1>9

(* A reading gets its stamp, and joins the samples. *)
LEMMA StampKeeps == ASSUME IInv, Stamp PROVE IInv'
<1> USE TimeAssumption DEF IInv, Stamp, client, engine
<1> DEFINE last == Len(samples) + 1
           new == [elapsed |-> now, value |-> reading[1]]
<1>1. reading[1] \in Snapshots /\ now \in Nat /\ now >= nextRead /\ nextRead \in Nat /\ nextRead' = now + Interval
  BY ReadingType DEF Reading, Type
<1>2. Type'
  <2>1. new \in [elapsed : 0..Horizon, value : Snapshots]
    BY <1>1 DEF Type
  <2>2. ASSUME NEW S, samples \in Seq(S), new \in S PROVE Append(samples, new) \in Seq(S)
    BY <2>2
  <2>3. samples' \in Seq([elapsed : 0..Horizon, value : Snapshots])
    BY <2>1, <2>2 DEF Type
  <2> QED
    BY <1>1, <2>3 DEF Type
<1>3. Clocks' /\ Reading'
  BY DEF Clocks, Reading, AllStarted
<1>4. /\ DOMAIN samples' = DOMAIN samples \cup {last} /\ last \notin DOMAIN samples /\ last \in Nat
      /\ samples'[last] = new /\ \A i \in DOMAIN samples : samples'[i] = samples[i] /\ i < last /\ i \in Nat
  <2>1. ASSUME NEW S, samples \in Seq(S)
        PROVE  LET s == Append(samples, new) IN
               /\ DOMAIN s = DOMAIN samples \cup {last} /\ last \notin DOMAIN samples /\ last \in Nat
               /\ s[last] = new /\ \A i \in DOMAIN samples : s[i] = samples[i] /\ i < last /\ i \in Nat
    BY <2>1
  <2> QED
    BY <2>1 DEF Type
<1>5. \A i \in DOMAIN samples : samples[i].elapsed + Interval <= now /\ samples[i].elapsed \in Nat
  BY <1>1, SampleType DEF Sampled
<1>6. \A r \in Requests : start[r] \in Nat /\ ttft[r] \in Nat
  BY DEF Type, Never
<1>7. ASSUME Known(reading[1]), NEW r \in Requests, reading[1].phase[r] \notin First, NEW i \in DOMAIN samples
      PROVE  Unseen(r, samples[i].elapsed + Interval)
  <2>1. Unseen(r, nextRead) /\ samples[i].elapsed + Interval <= nextRead
    BY <1>7 DEF Reading, Sampled
  <2> QED
    BY <1>1, <1>5, <1>6, <2>1 DEF Unseen
<1>8. \A r, t : Unseen(r, t)' = Unseen(r, t)
  BY DEF Unseen
<1> HIDE DEF Stamp, new, last
<1>9. samples'[last].elapsed = now /\ samples'[last].value = reading[1]
  BY <1>4 DEF new
<1>10. Known(reading[1]) => Behind(reading[1].phase, phase)
                         /\ \A i \in DOMAIN samples :
                              Known(samples[i].value) => Behind(samples[i].value.phase, reading[1].phase)
  BY DEF Reading, Stamp
<1>11. phase' = phase /\ now' = now /\ now \in Nat
  BY <1>1 DEF Stamp
<1>12. \A i \in DOMAIN samples : samples[i].elapsed + Interval <= nextRead' /\ samples[i].elapsed <= now
  BY <1>1, <1>5
<1>13. ASSUME NEW j \in DOMAIN samples' PROVE
        /\ samples'[j].elapsed <= now' /\ samples'[j].elapsed + Interval <= nextRead'
        /\ Known(samples'[j].value) => Behind(samples'[j].value.phase, phase')
  BY <1>1, <1>4, <1>9, <1>10, <1>11, <1>12 DEF Sampled
<1>14. ASSUME NEW j \in DOMAIN samples', NEW i \in DOMAIN samples', i < j PROVE
           /\ samples'[i].elapsed + Interval <= samples'[j].elapsed
           /\ Known(samples'[j].value) =>
                /\ Known(samples'[i].value) => Behind(samples'[i].value.phase, samples'[j].value.phase)
                /\ \A r \in Requests : samples'[j].value.phase[r] \notin First
                                          => Unseen(r, samples'[i].elapsed + Interval)
  <2>1. i \in DOMAIN samples
    BY <1>4, <1>14
  <2>2. CASE j \in DOMAIN samples
    BY <1>4, <1>14, <2>1, <2>2 DEF Sampled
  <2>3. CASE j = last
    BY <1>4, <1>5, <1>7, <1>9, <1>10, <2>1, <2>3
  <2> QED
    BY <1>4, <2>2, <2>3
<1>15. Sampled'
  BY <1>8, <1>13, <1>14 DEF Sampled, Behind
<1> QED
  BY <1>2, <1>3, <1>15

(* Every step keeps the inductive invariant. *)
LEMMA NextIInv == IInv /\ [Next]_vars => IInv'
<1> SUFFICES ASSUME IInv, [Next]_vars PROVE IInv'
  OBVIOUS
<1>1. CASE Tick
  BY <1>1, TickKeeps
<1>2. CASE Round
  <2> USE <1>2 DEF IInv, Round, client, monitor
  <2>1. In({"decode"}, phase) \subseteq Requests
    BY DEF In
  <2>2. Cardinality(In({"decode"}, phase)) \in Nat
    BY <2>1, FS_Subset, FS_CardinalityType, RequestsAssumption
  <2>3. Type'
    BY <2>2 DEF Type
  <2>4. Clocks' /\ Reading' /\ Sampled'
    BY DEF Clocks, Reading, Sampled, Behind, Unseen, AllStarted
  <2> QED
    BY <2>3, <2>4
<1>3. CASE Read
  BY <1>3, ReadKeeps
<1>4. CASE Stamp
  BY <1>4, StampKeeps
<1>5. ASSUME NEW r \in Requests,
             Start(r) \/ SeesFirst(r) \/ SeesEnd(r) \/ Schedule(r) \/ FirstToken(r) \/ Finish(r)
      PROVE  IInv'
  BY <1>5, StartKeeps, SeesFirstKeeps, SeesEndKeeps, EngineKeeps
<1>6. CASE UNCHANGED vars
  BY <1>6 DEF vars, client, engine, monitor, IInv, Type, Clocks, Reading, Sampled, Behind, Unseen, AllStarted
<1> QED
  BY <1>1, <1>2, <1>3, <1>4, <1>5, <1>6 DEF Next

(* In a window the counters vouch for every request decodes in every sample. *)
LEMMA IInvOverlapped == IInv => ValidWindowIsOverlapped
<1> SUFFICES ASSUME IInv, CounterWindowValid, NEW k \in Window PROVE Overlapped(samples[k].value)
  BY DEF ValidWindowIsOverlapped
<1> USE DEF IInv
<1> DEFINE P(n) == samples[n].value.phase
<1>1. \A n \in Window : /\ n \in DOMAIN samples /\ InWindow(samples[n]) /\ Known(samples[n].value)
                        /\ FullOccupancy(samples[n].value)
  BY DEF CounterWindowValid, Valid, Window, Known
<1>2. PICK i \in Window, j \in Window :
        (\A n \in Window : i <= n /\ n <= j) /\ i < j /\ CleanDelta(samples[i].value, samples[j].value)
  BY DEF CounterWindowValid
<1>3. \A n \in Window : n \in Nat /\ P(n) \in [Requests -> Phases] /\ samples[n].elapsed \in 0..Horizon
  BY <1>1, SampleType DEF Snapshots
<1>4. ASSUME NEW r \in Requests PROVE P(j)[r] \in First
  <2>1. ttft[r] <= samples[i].elapsed /\ ttft[r] \in Nat /\ ttft[r] # Never
    BY <1>1, <1>3, TimeAssumption DEF InWindow, Type, Never
  <2>2. start[r] \in Nat /\ start[r] <= MaxSetup
    BY <2>1, TimeAssumption DEF Clocks, Type, Never
  <2>3. ~Unseen(r, samples[i].elapsed + Interval)
    BY <1>3, <2>1, <2>2, TimeAssumption, SetupAssumption DEF Unseen
  <2>4. P(j)[r] \notin First => Unseen(r, samples[i].elapsed + Interval)
    BY <1>1, <1>2 DEF Sampled
  <2> QED
    BY <2>3, <2>4
<1>5. In(First, P(j)) = Requests /\ In(First, P(i)) \subseteq Requests
  BY <1>4 DEF In
<1>6. Cardinality(In(First, P(i))) = Cardinality(Requests)
  BY <1>2, <1>5 DEF CleanDelta, FirstTokens, First
<1>7. In(First, P(i)) = Requests
  BY <1>5, <1>6, FS_Subset, RequestsAssumption
<1>8. k = i \/ i < k
  BY <1>2, <1>3
<1>9. ASSUME NEW r \in Requests PROVE P(k)[r] \in First
  <2>1. P(i)[r] \in First
    BY <1>7 DEF In
  <2>2. CASE k = i
    BY <2>1, <2>2
  <2>3. CASE i < k
    <3>1. Behind(P(i), P(k))
      BY <1>1, <2>3 DEF Sampled
    <3> QED
      BY <2>1, <3>1 DEF Behind
  <2> QED
    BY <1>8, <2>2, <2>3
<1>10. In({"prefill", "decode"}, P(k)) = Requests
  BY <1>1 DEF FullOccupancy
<1>11. ASSUME NEW r \in Requests PROVE P(k)[r] = "decode"
  BY <1>9, <1>10 DEF In, First
<1> QED
  BY <1>11 DEF Overlapped

(* decode_overlap.py believes a window only if every request of the wave was *)
(* decoding in every one of its samples, whatever the delays between the     *)
(* engine, the monitor and the clients.                                      *)
THEOREM BelievedWindowsAreOverlapped == Spec => []ValidWindowIsOverlapped
<1>1. Init => IInv
  BY InitIInv
<1>2. IInv /\ [Next]_vars => IInv'
  BY NextIInv
<1>3. IInv => ValidWindowIsOverlapped
  BY IInvOverlapped
<1> QED
  BY <1>1, <1>2, <1>3, PTL DEF Spec

-----------------------------------------------------------------------------
(* The counters' bounds: a round drafts for every decoding request, of which *)
(* there are finitely many.                                                  *)
Counters == drafts \in 0..MaxDrafts /\ errors \in 0..MaxErrors

LEMMA CountersStep == IInv /\ Counters /\ [Next]_vars => Counters'
<1> SUFFICES ASSUME IInv, Counters, [Next]_vars PROVE Counters'
  OBVIOUS
<1> USE BoundsAssumption DEF Counters
<1>1. CASE Round
  <2> DEFINE decoding == Cardinality(In({"decode"}, phase))
  <2>1. decoding \in Nat
    <3>1. In({"decode"}, phase) \subseteq Requests
      BY DEF In
    <3> QED BY <3>1, RequestsAssumption, FS_Subset, FS_CardinalityType
  <2>2. drafts' = drafts + decoding /\ drafts + decoding <= MaxDrafts /\ errors' = errors
    BY <1>1 DEF Round, monitor
  <2> HIDE DEF decoding
  <2> QED BY <2>1, <2>2
<1>2. CASE Read
  <2>1. /\ drafts' = drafts
        /\ errors' = errors \/ (errors < MaxErrors /\ errors' = errors + 1)
    <3>1. PICK failed \in BOOLEAN :
             /\ failed => errors < MaxErrors
             /\ errors' = errors + (IF failed THEN 1 ELSE 0)
      BY <1>2 DEF Read
    <3>2. errors + 0 = errors
      OBVIOUS
    <3> QED BY <1>2, <3>1, <3>2 DEF Read, engine
  <2> QED BY <2>1
<1>3. UNCHANGED <<drafts, errors>> => Counters'
  OBVIOUS
<1> QED BY <1>1, <1>2, <1>3 DEF Next, Tick, Start, SeesFirst, SeesEnd, Schedule, FirstToken, Finish,
           Becomes, Stamp, vars, engine, monitor

\* The clocks, the counters and the samples stay in their types.
THEOREM TypeCorrect == Spec => []TypeOK
<1>1. Init => IInv /\ Counters
  BY InitIInv, BoundsAssumption DEF Init, Counters
<1>2. IInv /\ Counters /\ [Next]_vars => IInv' /\ Counters'
  BY NextIInv, CountersStep
<1>3. IInv /\ Counters => TypeOK
  <2>1. Type => (reading # <<>> => reading[1] \in Snapshots)
    BY ReadingType
  <2> QED BY <2>1 DEF IInv, Type, Counters, TypeOK
<1> QED BY <1>1, <1>2, <1>3, PTL DEF Spec
=============================================================================
