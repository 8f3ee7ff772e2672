------------------------- MODULE MCAttentionRouting -------------------------
(* Small batches for AttentionRouting.  A request is a record of its queries, *)
(* its length, what the host believes the length to be, and whether it is a   *)
(* prefill; the thresholds are 3 queries and 4 keys.                          *)
EXTENDS AttentionRouting

Request(query, length, upper, prefilling) ==
  [query |-> query, length |-> length, upper |-> upper, prefilling |-> prefilling]
LongPrefill == Request(3, 4, 4, TRUE)
Decode == Request(1, 3, 4, FALSE)
Verify == Request(2, 3, 5, FALSE)
LongVerify == Request(3, 5, 6, FALSE)
ShortPrefill == Request(3, 3, 3, TRUE)
Beyond == Request(2, 5, 7, FALSE)
Empty == Request(0, 2, 2, FALSE)
MCRequests == {LongPrefill, Decode, Verify, LongVerify, ShortPrefill, Beyond, Empty}
MCLayers == [decoder : BOOLEAN, scales : BOOLEAN, shapes : SUBSET {"oneDNN", "M04"}]

Bounds(s) == LET sum[r \in 0..Len(s)] == IF r = 0 THEN 0 ELSE sum[r - 1] + s[r].query IN sum
Greatest(f) == Largest({f[r] : r \in DOMAIN f})
\* The device has the requests of s; the host takes them for those of h.
Step(s, h, fixed, capturing) ==
  LET rows == 0..(Len(s) - 1)
      length == [r \in rows |-> s[r + 1].length]
      upper == [r \in rows |-> h[r + 1].upper]
      queries == [r \in rows |-> Largest({s[r + 1].query, h[r + 1].query})]
      total == Largest({Bounds(s)[Len(s)], Bounds(h)[Len(s)]})
  IN [n |-> Len(s), tokens |-> total, fixed |-> fixed, capturing |-> capturing,
      maxq |-> Greatest(queries), maxkv |-> Largest({Greatest(length), Greatest(upper)}),
      bounds |-> Bounds(s), exact |-> length,
      host |-> Bounds(h), upper |-> upper, prefilling |-> [r \in rows |-> h[r + 1].prefilling]]
Batched(S, lengths) == UNION {[1..n -> S] : n \in lengths}
Plain == {Step(s, s, TRUE, FALSE) : s \in Batched(MCRequests, 1..3) \cup Batched({LongPrefill, Verify}, {4})}
Captured == {Step(s, s, TRUE, TRUE) : s \in Batched(MCRequests, 1..2)}
\* Under an adaptive verification the host may take a request for another.
Guessed == LET S == {LongPrefill, Verify, Decode}
           IN UNION {{Step(s, h, FALSE, FALSE) : h \in [DOMAIN s -> S]} : s \in Batched(S, 1..2)}
MCBatches == {b \in Plain \cup Captured \cup Guessed : b.tokens > 0}
=============================================================================
