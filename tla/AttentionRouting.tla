-------------------------- MODULE AttentionRouting --------------------------
(***************************************************************************)
(* The guarded attention of the engine, attention_metadata.py and          *)
(* attention_dispatch.py inside migration.patch.  Once a step the builder  *)
(* cuts the batch into segments, one for each long prefill and one for     *)
(* each run of other requests between them; then every layer attends, with *)
(* one kernel over the whole batch or with one kernel for each segment.    *)
(*                                                                         *)
(* A request has its query positions in the batch and its keys in a row of *)
(* the block table.  What attention computes at a position is determined   *)
(* by that row and by the last key the position sees, so this is what out  *)
(* holds.  The kernels and vLLM's metadata are external: Contract is what  *)
(* the source says of the metadata.                                        *)
(***************************************************************************)
EXTENDS Integers, Sequences

CONSTANTS Batches,       \* the metadata of the steps, records as in Contract
          Layers,        \* what a layer is like, records as in LayersAssumption
          LongQuery,     \* 64
          LongLength,    \* 4096
          Capacity,      \* the keys a row of the block table can hold
          OneDnn,        \* EXL3_GUARDED_PREFILL
          M04            \* a library of the verification kernel is loaded

\* The requests of a batch, and the positions of one of them.
Rows(b) == 0..(b.n - 1)
Positions(b, r) == b.bounds[r]..(b.bounds[r + 1] - 1)
Query(b, r) == b.bounds[r + 1] - b.bounds[r]
HostQuery(b, r) == b.host[r + 1] - b.host[r]

\* The device knows bounds and lengths.  The host has bounds of its own, and
\* lengths that are exact on prefilling rows only: both unless a speculative
\* verification adapts the queries (fixed is FALSE), when it only has guesses
\* that are no smaller.
Lengths(b) == {u \in [Rows(b) -> 0..b.maxkv] : \A r \in Rows(b) : Query(b, r) <= u[r]}
Contract(b) ==
  /\ b.n \in Nat \ {0} /\ b.tokens \in Nat \ {0} /\ b.maxq \in Nat /\ b.maxkv \in Nat
  /\ b.fixed \in BOOLEAN /\ b.capturing \in BOOLEAN
  /\ b.bounds \in [0..b.n -> Nat] /\ b.bounds[0] = 0 /\ b.bounds[b.n] <= b.tokens
  /\ \A r, s \in 0..b.n : r <= s => b.bounds[r] <= b.bounds[s]
  /\ \A r \in Rows(b) : Query(b, r) <= b.maxq
  /\ b.exact \in Lengths(b)
  /\ b.host \in [0..b.n -> Nat] /\ b.upper \in [Rows(b) -> Nat] /\ b.prefilling \in [Rows(b) -> BOOLEAN]
  /\ b.fixed => /\ b.host = b.bounds /\ b.bounds[b.n] = b.tokens
                /\ \A r \in Rows(b) : /\ b.exact[r] <= b.upper[r]
                                      /\ b.prefilling[r] => b.exact[r] = b.upper[r]
ASSUME BatchesAssumption == \A b \in Batches : Contract(b)
\* decoder: the attention the guard is written for.  scales: of the checkpoint,
\* not computed.  shapes: the kernels whose checks of types, layouts and options
\* the arguments pass.
ASSUME LayersAssumption ==
  Layers \subseteq [decoder : BOOLEAN, scales : BOOLEAN, shapes : SUBSET {"oneDNN", "M04"}]
ASSUME LimitsAssumption == {LongQuery, LongLength, Capacity} \subseteq Nat /\ {OneDnn, M04} \subseteq BOOLEAN

VARIABLES
    batch,      \* common_attn_metadata of the step
    used,       \* seqused_k, on the device
    pc,
    i, j,       \* of the loops of host_segments()
    segments,
    planned,    \* _exl3_host_plan is not None
    layer,      \* the layer that attends
    k,          \* the segment, or the call of a replay, that is next
    tape,       \* the kernels the layer has launched
    out         \* its output, by position
vars == <<batch, used, pc, i, j, segments, planned, layer, k, tape, out>>
plan == <<i, j, segments, planned>>

Nothing == [row |-> -1, seen |-> 0]
Blank == [t \in 0..(batch.tokens - 1) |-> Nothing]

Init == /\ batch \in Batches /\ used = batch.exact
        /\ pc = "build" /\ i = 0 /\ j = 1 /\ segments = <<>> /\ planned = FALSE
        /\ layer \in Layers /\ k = 1 /\ tape = <<>> /\ out = Blank

-----------------------------------------------------------------------------
(* The metadata, once a step: prepare() and host_segments().                *)
Long(r) == /\ batch.prefilling[r]
           /\ HostQuery(batch, r) >= LongQuery
           /\ batch.upper[r] >= LongLength
Trusted == /\ OneDnn /\ batch.fixed /\ batch.maxq >= LongQuery /\ batch.tokens > 0
           /\ batch.host[0] = 0 /\ batch.host[batch.n] = batch.tokens
           /\ \A r \in Rows(batch) : HostQuery(batch, r) > 0 /\ batch.upper[r] >= HostQuery(batch, r)
Prepare == /\ pc = "build"
           /\ pc' = IF Trusted /\ \E r \in Rows(batch) : Long(r) THEN "cut" ELSE "ready"
           /\ UNCHANGED <<batch, used, plan, layer, k, tape, out>>
\* A run goes on over the next request.
Extends == i < batch.n /\ ~ Long(i) /\ j < batch.n /\ ~ Long(j)
Extend == /\ pc = "cut" /\ Extends
          /\ j' = j + 1
          /\ UNCHANGED <<batch, used, pc, i, segments, planned, layer, k, tape, out>>
Largest(S) == CHOOSE x \in S : \A y \in S : y <= x
\* cu_query: the bounds of a run, from its first position.
AsTheyAre(first, last) == [r \in first..last |-> batch.host[r]]   \* mutant of Rebased
Rebased(first, last) == [r \in first..last |-> batch.host[r] - batch.host[first]]
Segment(first, last) ==
  [first |-> first, last |-> last, start |-> batch.host[first], stop |-> batch.host[last],
   maxq |-> Largest({HostQuery(batch, r) : r \in first..(last - 1)}),
   maxkv |-> Largest({batch.upper[r] : r \in first..(last - 1)}),
   prefill |-> Long(first),
   cu |-> Rebased(first, last)]
SkipsOne == /\ pc = "cut" /\ i < batch.n /\ ~ Extends         \* mutant of Cut
            /\ segments' = Append(segments, Segment(i, j))
            /\ i' = j + 1 /\ j' = j + 2
            /\ UNCHANGED <<batch, used, pc, planned, layer, k, tape, out>>
Cut == /\ pc = "cut" /\ i < batch.n /\ ~ Extends
       /\ segments' = Append(segments, Segment(i, j))
       /\ i' = j /\ j' = j + 1
       /\ UNCHANGED <<batch, used, pc, planned, layer, k, tape, out>>
Planned == /\ pc = "cut" /\ i >= batch.n
           /\ planned' = TRUE /\ pc' = "ready"
           /\ UNCHANGED <<batch, used, i, j, segments, layer, k, tape, out>>

-----------------------------------------------------------------------------
(* The kernels.  A call serves the requests first..last-1; request r has    *)
(* the positions from start + cu[r] up to start + cu[r + 1], of which a     *)
(* kernel launches maxq.  The lengths are the device's, within the capacity *)
(* maxkv it was launched for, but for oneDNN: that length is of the host.   *)
Launch(kernel, first, last, start, cu, maxq, maxkv) ==
  [kernel |-> kernel, first |-> first, last |-> last, start |-> start, cu |-> cu,
   maxq |-> maxq, maxkv |-> maxkv]
Keys(c, r) == IF c.kernel # "oneDNN" /\ used[r] <= c.maxkv THEN used[r] ELSE c.maxkv
Offset(c, r, t) == t - (c.start + c.cu[r])
Attends(c, r, t) == /\ Offset(c, r, t) \in 0..(c.maxq - 1)
                    /\ t < c.start + c.cu[r + 1]
Seen(c, r, t) == [row |-> r, seen |-> Keys(c, r) - (c.cu[r + 1] - c.cu[r]) + Offset(c, r, t)]
Computed(c, before) ==
  [t \in DOMAIN before |->
     IF \E r \in c.first..(c.last - 1) : Attends(c, r, t)
     THEN Seen(c, CHOOSE r \in c.first..(c.last - 1) : Attends(c, r, t), t)
     ELSE before[t]]
\* The queries of a call in a matrix, rows of them for each request.
Uniform(first, last, rows) == [r \in first..last |-> (r - first) * rows]

-----------------------------------------------------------------------------
(* A layer: layer_forward(), select_route(), _dispatch_selected().          *)
Allowed == batch.fixed /\ layer.decoder
PrefillsCaptured == /\ OneDnn /\ planned /\ layer.scales         \* mutant of Prefills
                    /\ "oneDNN" \in layer.shapes
                    /\ \A n \in 1..Len(segments) : segments[n].maxkv <= Capacity
Prefills == /\ OneDnn /\ ~ batch.capturing /\ planned /\ layer.scales
            /\ "oneDNN" \in layer.shapes
            /\ \A n \in 1..Len(segments) : segments[n].maxkv <= Capacity
Verifies(requests, tokens, maxq, maxkv) ==
  /\ M04 /\ "M04" \in layer.shapes
  /\ maxq \in 2..5 /\ requests \in 1..4 /\ tokens = requests * maxq
  /\ maxkv \in maxq..Capacity
Route == IF ~ Allowed THEN "native"
         ELSE IF Prefills THEN "mixed"
         ELSE IF Verifies(batch.n, batch.tokens, batch.maxq, batch.maxkv) THEN "M04"
         ELSE "native"

\* The whole batch, by what the device knows or as a matrix.
WholeCall(kernel) ==
  Launch(kernel, 0, batch.n, 0,
         IF kernel = "M04" THEN Uniform(0, batch.n, batch.maxq) ELSE batch.bounds,
         batch.maxq, batch.maxkv)
\* One segment; a run chooses its kernel for itself.
SegmentCall(s) ==
  LET rows == s.stop - s.start
  IN IF s.prefill
     THEN Launch("oneDNN", s.first, s.last, s.start, Uniform(s.first, s.last, rows), rows, s.maxkv)
     ELSE IF Verifies(s.last - s.first, rows, s.maxq, s.maxkv)
     THEN Launch("M04", s.first, s.last, s.start, Uniform(s.first, s.last, s.maxq), s.maxq, s.maxkv)
     ELSE Launch("native", s.first, s.last, s.start, s.cu, s.maxq, s.maxkv)
Do(c) == tape' = Append(tape, c) /\ out' = Computed(c, out)

Enter == /\ pc \in {"ready", "done"}
         /\ layer' \in Layers
         /\ pc' = "attend" /\ k' = 1 /\ tape' = <<>> /\ out' = Blank
         /\ UNCHANGED <<batch, used, plan>>
AttendWhole == /\ pc = "attend" /\ Route # "mixed"
               /\ Do(WholeCall(Route))
               /\ pc' = "done"
               /\ UNCHANGED <<batch, used, plan, layer, k>>
AttendSegment == /\ pc = "attend" /\ Route = "mixed" /\ k <= Len(segments)
                 /\ Do(SegmentCall(segments[k]))
                 /\ k' = k + 1
                 /\ UNCHANGED <<batch, used, pc, plan, layer>>
Attended == /\ pc = "attend" /\ Route = "mixed" /\ k > Len(segments)
            /\ pc' = "done"
            /\ UNCHANGED <<batch, used, plan, layer, k, tape, out>>

-----------------------------------------------------------------------------
(* A step that was captured is replayed with other lengths and blocks: the  *)
(* calls are launched again as they were, and read what the device has now. *)
Refill == /\ batch.capturing /\ pc \in {"done", "replayed"}
          /\ used' \in Lengths(batch)
          /\ pc' = "replay" /\ k' = 1 /\ out' = Blank
          /\ UNCHANGED <<batch, plan, layer, tape>>
Replay == /\ pc = "replay" /\ k <= Len(tape)
          /\ out' = Computed(tape[k], out)
          /\ k' = k + 1
          /\ UNCHANGED <<batch, used, pc, plan, layer, tape>>
Replayed == /\ pc = "replay" /\ k > Len(tape)
            /\ pc' = "replayed"
            /\ UNCHANGED <<batch, used, plan, layer, k, tape, out>>

Next == \/ Prepare \/ Extend \/ Cut \/ Planned
        \/ Enter \/ AttendWhole \/ AttendSegment \/ Attended
        \/ Refill \/ Replay \/ Replayed
Spec == Init /\ [][Next]_vars

-----------------------------------------------------------------------------
\* The host's part of the state stays within its types: the loops within the
\* batch, the calls within the requests and positions of it.
TypeOK ==
  /\ Contract(batch) /\ layer \in Layers /\ used \in Lengths(batch)
  /\ pc \in {"build", "cut", "ready", "attend", "done", "replay", "replayed"}
  /\ i \in 0..batch.n /\ j \in 1..(batch.n + 1) /\ k \in Nat \ {0} /\ planned \in BOOLEAN
  /\ \A n \in 1..Len(segments) : /\ segments[n].first \in Rows(batch)
                                 /\ segments[n].last \in (segments[n].first + 1)..batch.n
                                 /\ segments[n].cu \in [segments[n].first..segments[n].last -> Nat]
  /\ DOMAIN out = 0..(batch.tokens - 1)

\* When a layer is through, or a replay of it, every position has attended to
\* the keys of its own request, up to its own, whatever kernels were chosen,
\* on whatever lengths the device then had.
Right(r, t) == [row |-> r, seen |-> used[r] - Query(batch, r) + (t - batch.bounds[r])]
RowsExact == pc \in {"done", "replayed"} =>
               \A r \in Rows(batch) : \A t \in Positions(batch, r) : out[t] = Right(r, t)

\* No kernel of a layer writes a position another one has written: within a
\* layer, and within a replay, a result stays.
WrittenOnce ==
  [][\/ Enter \/ Refill
     \/ \A t \in DOMAIN out : out[t] # Nothing => out'[t] = out[t]]_vars

\* The plan has as few segments as there can be: a run is cut off only by a long
\* prefill, so that no two runs are neighbours, and no run holds a long prefill.
RunsAreLongest ==
  planned => \A n \in 1..Len(segments) :
    /\ ~ segments[n].prefill =>
         /\ \A r \in segments[n].first..(segments[n].last - 1) : ~ Long(r)
         /\ segments[n].first = 0 \/ Long(segments[n].first - 1)
         /\ segments[n].last = batch.n \/ Long(segments[n].last)
    /\ segments[n].prefill => segments[n].last = segments[n].first + 1
=============================================================================
