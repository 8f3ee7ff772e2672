----------------------- MODULE AttentionRoutingProofs -----------------------
(***************************************************************************)
(* Proofs about AttentionRouting: every position attends to its own keys,  *)
(* whatever the batch, the thresholds and the kernels chosen.              *)
(*                                                                         *)
(* What induction the proofs need is by a least counterexample (Least):    *)
(* the set of the numbers that fail is empty, or has a least element.      *)
(***************************************************************************)
EXTENDS AttentionRouting, WellFoundedInduction, TLAPS

-----------------------------------------------------------------------------
(* Numbers and maxima.                                                      *)
LEMMA Least ==
  ASSUME NEW T, T \subseteq Nat, T # {}
  PROVE  \E x \in T : \A y \in T : x <= y
<1> DEFINE R == OpToRel(<, Nat)
<1>1. IsWellFoundedOn(R, Nat)
  BY NatLessThanWellFounded, Zenon
<1>2. R = {ss \in Nat \X Nat : ss[1] < ss[2]}
  BY Zenon DEF OpToRel
<1> HIDE DEF R
<1>3. PICK x \in T : \A y \in T : ~(<<y, x>> \in R)
  BY <1>1, WFMin
<1>4. ASSUME NEW y \in T PROVE x <= y
  <2>1. <<y, x>> \in Nat \X Nat /\ <<y, x>>[1] = y /\ <<y, x>>[2] = x
    OBVIOUS
  <2>2. ~(y < x)
    BY <1>2, <1>3, <2>1
  <2> QED
    BY <2>2
<1> QED
  BY <1>4

\* The values of a function on finitely many numbers are bounded.
LEMMA Bounding ==
  ASSUME NEW lo \in Nat, NEW hi \in Nat, NEW f, \A r \in lo..(hi - 1) : f[r] \in Nat
  PROVE  \E B \in Nat : \A r \in lo..(hi - 1) : f[r] <= B
<1> DEFINE Fine(m) == \E B \in Nat : \A r \in lo..(m - 1) : f[r] <= B
           Bad == {m \in lo..hi : ~ Fine(m)}
<1> SUFFICES ASSUME ~ Fine(hi) PROVE FALSE
  OBVIOUS
<1>1. lo < hi
  OBVIOUS
<1>2. hi \in Bad
  BY <1>1
<1>3. PICK m \in Bad : \A y \in Bad : m <= y
  <2>1. Bad \subseteq Nat
    OBVIOUS
  <2> HIDE DEF Bad
  <2> QED
    BY <1>2, <2>1, Least
<1>4. m # lo
  OBVIOUS
<1>5. m - 1 \in lo..hi /\ m - 1 \notin Bad
  <2>1. m \in lo..hi
    OBVIOUS
  <2>2. m - 1 \in lo..hi /\ ~(m <= m - 1)
    BY <1>4, <2>1
  <2> HIDE DEF Bad
  <2> QED
    BY <1>3, <2>2
<1>6. PICK B \in Nat : \A r \in lo..((m - 1) - 1) : f[r] <= B
  BY <1>5
<1>7. m \in lo..hi /\ m - 1 \in lo..(hi - 1)
  BY <1>4, <1>5
<1>8. f[m - 1] \in Nat
  BY <1>7
<1>9. PICK C \in Nat : B <= C /\ f[m - 1] <= C
  <2>1. CASE B <= f[m - 1]
    BY <1>8, <2>1
  <2>2. CASE ~(B <= f[m - 1])
    BY <1>8, <2>2
  <2> QED
    BY <2>1, <2>2
<1>10. ASSUME NEW r \in lo..(m - 1) PROVE f[r] <= C
  <2>1. r = m - 1 \/ r \in lo..((m - 1) - 1)
    BY <1>7
  <2>2. f[r] \in Nat
    BY <1>7
  <2>3. CASE r = m - 1
    BY <1>9, <2>3
  <2>4. CASE r \in lo..((m - 1) - 1)
    <3>1. f[r] <= B
      BY <1>6, <2>4
    <3> QED
      BY <1>9, <2>2, <3>1
  <2> QED
    BY <2>1, <2>3, <2>4
<1> QED
  BY <1>3, <1>10

\* max() of a slice of a list is an element of it, and no element is larger.
Values(S, f, lo, hi) ==
  /\ lo \in Nat /\ hi \in Nat /\ lo < hi
  /\ \A r \in lo..(hi - 1) : f[r] \in Nat
  /\ S = {f[r] : r \in lo..(hi - 1)}
LEMMA LargestIs ==
  ASSUME NEW S, NEW f, NEW lo, NEW hi, Values(S, f, lo, hi)
  PROVE  Largest(S) \in S /\ Largest(S) \in Nat /\ \A r \in lo..(hi - 1) : f[r] <= Largest(S)
<1> USE DEF Values
<1>1. PICK B \in Nat : \A r \in lo..(hi - 1) : f[r] <= B
  BY Bounding
<1> DEFINE Above == {x \in Nat : \A y \in S : y <= x}
<1>2. S \subseteq Nat /\ S # {}
  OBVIOUS
<1>3. B \in Above
  BY <1>1
<1>4. PICK m \in Above : \A y \in Above : m <= y
  <2>1. Above \subseteq Nat /\ Above # {}
    BY <1>3
  <2> HIDE DEF Above
  <2> QED
    BY <2>1, Least
<1>5. m \in S
  <2> SUFFICES ASSUME m \notin S PROVE FALSE
    OBVIOUS
  <2>1. \A y \in S : y <= m /\ y # m /\ y \in Nat
    BY <1>2, <1>4
  <2>2. m - 1 \in Nat /\ \A y \in S : y <= m - 1
    BY <1>2, <1>4, <2>1
  <2> QED
    BY <1>4, <2>2
<1>6. \A y \in S : y <= m
  BY <1>4
<1>7. Largest(S) \in S /\ \A y \in S : y <= Largest(S)
  BY <1>5, <1>6, Zenon DEF Largest
<1> QED
  BY <1>2, <1>7

\* At most four requests that fill a matrix of rows each: every one has as many.
Fills(f, first, last, rows) ==
  /\ first \in Nat /\ last \in Nat /\ last - first \in 1..4 /\ rows \in 2..5
  /\ \A r \in first..last : f[r] \in Nat
  /\ \A r \in first..(last - 1) : f[r + 1] - f[r] <= rows
  /\ f[last] - f[first] = (last - first) * rows
LEMMA UniformBounds ==
  ASSUME NEW first, NEW last, NEW rows, NEW f, Fills(f, first, last, rows)
  PROVE  \A r \in first..last : f[first] + (r - first) * rows = f[r]
<1> USE DEF Fills
<1> DEFINE x(m) == f[first + m]
<1>1. \A m \in 0..(last - first) : first + m \in first..last
  OBVIOUS
<1>2. \A m \in 0..(last - first) : x(m) \in Nat
  BY <1>1
<1>3. \A m \in 0..(last - first - 1) : x(m + 1) - x(m) <= rows
  <2> SUFFICES ASSUME NEW m \in 0..(last - first - 1) PROVE x(m + 1) - x(m) <= rows
    OBVIOUS
  <2>1. first + m \in first..(last - 1) /\ (first + m) + 1 = first + (m + 1)
    OBVIOUS
  <2> QED
    BY <2>1
<1>4. x(last - first) - x(0) = (last - first) * rows
  OBVIOUS
<1> SUFFICES ASSUME NEW m \in 0..(last - first) PROVE x(0) + m * rows = x(m)
  <2>1. \A r \in first..last : r - first \in 0..(last - first) /\ first + (r - first) = r
    OBVIOUS
  <2> QED
    BY <2>1
<1> HIDE DEF x
<1>5. CASE last - first = 1
  BY <1>2, <1>3, <1>4, <1>5
<1>6. CASE last - first = 2
  <2>1. m \in {0, 1, 2} /\ x(1) - x(0) <= rows /\ x(2) - x(1) <= rows /\ x(2) - x(0) = 2 * rows
        /\ x(0) \in Nat /\ x(1) \in Nat /\ x(2) \in Nat
    BY <1>2, <1>3, <1>4, <1>6
  <2> QED
    BY <2>1
<1>7. CASE last - first = 3
  <2>1. m \in {0, 1, 2, 3} /\ x(1) - x(0) <= rows /\ x(2) - x(1) <= rows /\ x(3) - x(2) <= rows
        /\ x(3) - x(0) = 3 * rows
        /\ x(0) \in Nat /\ x(1) \in Nat /\ x(2) \in Nat /\ x(3) \in Nat
    BY <1>2, <1>3, <1>4, <1>7
  <2> QED
    BY <2>1
<1>8. CASE last - first = 4
  <2>1. m \in {0, 1, 2, 3, 4} /\ x(1) - x(0) <= rows /\ x(2) - x(1) <= rows /\ x(3) - x(2) <= rows
        /\ x(4) - x(3) <= rows /\ x(4) - x(0) = 4 * rows
        /\ x(0) \in Nat /\ x(1) \in Nat /\ x(2) \in Nat /\ x(3) \in Nat /\ x(4) \in Nat
    BY <1>2, <1>3, <1>4, <1>8
  <2> QED
    BY <2>1
<1> QED
  BY <1>5, <1>6, <1>7, <1>8

-----------------------------------------------------------------------------
(* Kernels.  A call that has the bounds and lengths of its requests right   *)
(* gets their positions right, and touches no other.                        *)
Exact(c) ==
  /\ c.first \in Rows(batch) /\ c.last \in (c.first + 1)..batch.n
  /\ \A r \in c.first..c.last : c.cu[r] \in Int /\ c.start + c.cu[r] = batch.bounds[r]
  /\ c.start \in Nat /\ c.maxq \in Nat
  /\ \A r \in c.first..(c.last - 1) : Query(batch, r) <= c.maxq /\ Keys(c, r) = used[r]
Good(r, o) == \A t \in Positions(batch, r) : o[t] = Right(r, t)

\* The bounds of a batch, request by request, and from any to any later one.
LEMMA BoundsRise ==
  ASSUME Contract(batch), NEW r \in Rows(batch)
  PROVE  /\ batch.n \in Nat \ {0} /\ r \in 0..batch.n /\ r + 1 \in 0..batch.n
         /\ batch.bounds[r] \in Nat /\ batch.bounds[r + 1] \in Nat
         /\ batch.bounds[r + 1] <= batch.tokens /\ batch.tokens \in Nat
<1>1. batch.n \in Nat \ {0} /\ batch.bounds \in [0..batch.n -> Nat] /\ batch.tokens \in Nat
      /\ batch.bounds[batch.n] <= batch.tokens
      /\ \A q, s \in 0..batch.n : q <= s => batch.bounds[q] <= batch.bounds[s]
  BY DEF Contract
<1>2. r \in 0..batch.n /\ r + 1 \in 0..batch.n /\ batch.n \in 0..batch.n /\ r + 1 <= batch.n
  BY <1>1 DEF Rows
<1>3. batch.bounds[r + 1] <= batch.bounds[batch.n]
  BY <1>1, <1>2
<1> QED
  BY <1>1, <1>2, <1>3

LEMMA BoundsMonotone ==
  ASSUME Contract(batch), NEW r \in 0..batch.n, NEW s \in 0..batch.n, r <= s
  PROVE  /\ batch.bounds[r] \in Nat /\ batch.bounds[s] \in Nat
         /\ batch.bounds[r] <= batch.bounds[s] /\ batch.bounds[s] <= batch.tokens
<1>1. batch.n \in Nat \ {0} /\ batch.bounds \in [0..batch.n -> Nat] /\ batch.tokens \in Nat
      /\ batch.bounds[batch.n] <= batch.tokens
      /\ \A q, u \in 0..batch.n : q <= u => batch.bounds[q] <= batch.bounds[u]
  BY DEF Contract
<1>2. batch.n \in 0..batch.n /\ s <= batch.n
  BY <1>1
<1>3. batch.bounds[s] <= batch.bounds[batch.n]
  BY <1>1, <1>2
<1> QED
  BY <1>1, <1>3

\* What a call with exact bounds serves.
LEMMA ExactRows ==
  ASSUME Contract(batch), NEW c, Exact(c)
  PROVE  /\ batch.n \in Nat \ {0} /\ batch.tokens \in Nat
         /\ c.first \in 0..batch.n /\ c.last \in 0..batch.n /\ c.first < c.last
         /\ \A r \in c.first..(c.last - 1) : /\ r \in Rows(batch) /\ r \in 0..batch.n /\ r + 1 \in 0..batch.n
                                              /\ r \in c.first..c.last /\ r + 1 \in c.first..c.last
<1>1. batch.n \in Nat \ {0} /\ batch.tokens \in Nat
  BY DEF Contract
<1>2. c.first \in 0..(batch.n - 1) /\ c.last \in (c.first + 1)..batch.n
  BY DEF Exact, Rows
<1> QED
  BY <1>1, <1>2 DEF Rows

LEMMA AttendsItsOwn ==
  ASSUME Contract(batch), NEW c, Exact(c), NEW r \in c.first..(c.last - 1), NEW t \in Int
  PROVE  /\ Attends(c, r, t) <=> t \in Positions(batch, r)
         /\ Offset(c, r, t) = t - batch.bounds[r]
<1>1. r \in c.first..c.last /\ r + 1 \in c.first..c.last /\ r \in Rows(batch)
  BY DEF Exact, Rows, Contract
<1>2. c.start + c.cu[r] = batch.bounds[r] /\ c.start + c.cu[r + 1] = batch.bounds[r + 1]
      /\ batch.bounds[r + 1] - batch.bounds[r] <= c.maxq /\ c.maxq \in Nat
  BY <1>1 DEF Exact, Query
<1>3. batch.bounds[r] \in Nat /\ batch.bounds[r + 1] \in Nat
  BY <1>1, BoundsRise
<1> QED
  BY <1>2, <1>3 DEF Attends, Offset, Positions

\* What a kernel writes it gets right, ...
LEMMA KernelWrites ==
  ASSUME Contract(batch), NEW c, Exact(c), NEW before, DOMAIN before = 0..(batch.tokens - 1),
         NEW r \in c.first..(c.last - 1)
  PROVE  Good(r, Computed(c, before))
<1> SUFFICES ASSUME NEW t \in Positions(batch, r)
             PROVE  Computed(c, before)[t] = Right(r, t)
  BY DEF Good
<1>1. r \in Rows(batch) /\ c.first..(c.last - 1) \subseteq Rows(batch)
  BY DEF Exact, Rows, Contract
<1>2. t \in Int /\ t \in DOMAIN before
  BY <1>1, BoundsRise DEF Positions
<1>3. Attends(c, r, t)
  BY <1>2, AttendsItsOwn
<1>4. ASSUME NEW s \in c.first..(c.last - 1), Attends(c, s, t) PROVE s = r
  <2>1. t \in Positions(batch, s) /\ s \in Rows(batch)
    BY <1>1, <1>2, <1>4, AttendsItsOwn
  <2>2. /\ r \in 0..batch.n /\ s \in 0..batch.n /\ r + 1 \in 0..batch.n /\ s + 1 \in 0..batch.n
        /\ batch.n \in Nat
    BY ExactRows
  <2>3. ~(r + 1 <= s)
    <3> SUFFICES ASSUME r + 1 <= s PROVE FALSE
      OBVIOUS
    <3>1. batch.bounds[r + 1] <= batch.bounds[s] /\ batch.bounds[r + 1] \in Nat /\ batch.bounds[s] \in Nat
      BY <2>2, BoundsMonotone
    <3> QED
      BY <1>2, <2>1, <3>1 DEF Positions
  <2>4. ~(s + 1 <= r)
    <3> SUFFICES ASSUME s + 1 <= r PROVE FALSE
      OBVIOUS
    <3>1. batch.bounds[s + 1] <= batch.bounds[r] /\ batch.bounds[s + 1] \in Nat /\ batch.bounds[r] \in Nat
      BY <2>2, BoundsMonotone
    <3> QED
      BY <1>2, <2>1, <3>1 DEF Positions
  <2> QED
    BY <2>2, <2>3, <2>4
<1> DEFINE s == CHOOSE s \in c.first..(c.last - 1) : Attends(c, s, t)
<1>5. s \in c.first..(c.last - 1) /\ Attends(c, s, t)
  BY <1>3, Zenon
<1>6. s = r
  BY <1>4, <1>5
<1>7. Computed(c, before)[t] = Seen(c, r, t)
  BY <1>2, <1>3, <1>6 DEF Computed
<1>8. Seen(c, r, t) = Right(r, t)
  <2>1. /\ Keys(c, r) = used[r] /\ c.start + c.cu[r] = batch.bounds[r]
        /\ c.start + c.cu[r + 1] = batch.bounds[r + 1]
        /\ c.start \in Nat /\ c.cu[r] \in Int /\ c.cu[r + 1] \in Int
    <3>1. r \in c.first..c.last /\ r + 1 \in c.first..c.last
      BY ExactRows
    <3> QED
      BY <3>1 DEF Exact
  <2>2. batch.bounds[r] \in Nat /\ batch.bounds[r + 1] \in Nat
    BY <1>1, BoundsRise
  <2>3. c.cu[r + 1] - c.cu[r] = Query(batch, r)
    BY <2>1, <2>2 DEF Query
  <2>4. Offset(c, r, t) = t - batch.bounds[r]
    BY <1>2, AttendsItsOwn
  <2> QED
    BY <2>1, <2>3, <2>4 DEF Seen, Right
<1> QED
  BY <1>7, <1>8

\* ... and it writes nothing else.
Outside(first, last, t) == t \notin batch.bounds[first]..(batch.bounds[last] - 1)
LEMMA KernelSpares ==
  ASSUME Contract(batch), NEW c, Exact(c), NEW before, DOMAIN before = 0..(batch.tokens - 1),
         NEW t \in DOMAIN before, Outside(c.first, c.last, t)
  PROVE  Computed(c, before)[t] = before[t]
<1>1. ASSUME NEW r \in c.first..(c.last - 1) PROVE ~ Attends(c, r, t)
  <2> SUFFICES ASSUME Attends(c, r, t) PROVE FALSE
    OBVIOUS
  <2>1. t \in Int /\ r \in Rows(batch)
    BY ExactRows
  <2>2. t \in Positions(batch, r)
    BY <2>1, AttendsItsOwn
  <2>3. /\ c.first \in 0..batch.n /\ c.last \in 0..batch.n /\ r \in 0..batch.n /\ r + 1 \in 0..batch.n
        /\ c.first <= r /\ r + 1 <= c.last /\ batch.n \in Nat
    BY ExactRows
  <2>4. /\ batch.bounds[c.first] <= batch.bounds[r] /\ batch.bounds[r + 1] <= batch.bounds[c.last]
        /\ batch.bounds[c.first] \in Nat /\ batch.bounds[c.last] \in Nat
        /\ batch.bounds[r] \in Nat /\ batch.bounds[r + 1] \in Nat
    BY <2>3, BoundsMonotone
  <2> QED
    BY <2>1, <2>2, <2>4 DEF Positions, Outside
<1> QED
  BY <1>1 DEF Computed

-----------------------------------------------------------------------------
(* The plan.                                                                *)
\* A segment, as host_segments() cuts it.
Fits(s) ==
  /\ s.first \in Rows(batch) /\ s.last \in (s.first + 1)..batch.n
  /\ s.start = batch.host[s.first] /\ s.stop = batch.host[s.last]
  /\ s.maxq \in Nat /\ s.maxkv \in Nat
  /\ \A r \in s.first..(s.last - 1) : HostQuery(batch, r) <= s.maxq /\ batch.upper[r] <= s.maxkv
  /\ s.cu = Rebased(s.first, s.last)
  /\ s.prefill = Long(s.first)
  /\ Long(s.first) => s.last = s.first + 1 /\ s.maxkv = batch.upper[s.first]
  /\ ~ Long(s.first) =>
       /\ \A r \in s.first..(s.last - 1) : ~ Long(r)
       /\ s.first = 0 \/ Long(s.first - 1)
       /\ s.last = batch.n \/ Long(s.last)
\* The segments cover the requests before i, in order.
Chained ==
  /\ \E S : segments \in Seq(S)
  /\ i = IF Len(segments) = 0 THEN 0 ELSE segments[Len(segments)].last
  /\ Len(segments) # 0 => segments[1].first = 0
  /\ \A n \in 1..(Len(segments) - 1) : segments[n].last = segments[n + 1].first
  /\ \A n \in 1..Len(segments) : Fits(segments[n])
\* The run or the prefill that is open.
Open == i < batch.n =>
          /\ j \in (i + 1)..batch.n
          /\ Long(i) => j = i + 1
          /\ ~ Long(i) => /\ \A r \in i..(j - 1) : ~ Long(r)
                          /\ i = 0 \/ Long(i - 1)
PlanInv ==
  /\ Chained
  /\ i \in 0..batch.n /\ j \in 1..(batch.n + 1)
  /\ pc = "cut" => ~ planned /\ Trusted /\ Open
  /\ planned => Trusted /\ i = batch.n /\ pc \notin {"build", "cut"}
  /\ ~ planned /\ pc # "cut" => Len(segments) = 0 /\ j = 1

\* What the host trusts is what the device has.
LEMMA TrustedHost ==
  ASSUME Contract(batch), Trusted
  PROVE  /\ batch.fixed /\ batch.host = batch.bounds /\ batch.bounds[batch.n] = batch.tokens
         /\ \A r \in Rows(batch) : /\ batch.exact[r] <= batch.upper[r] /\ batch.upper[r] \in Nat
                                   /\ batch.exact[r] \in Nat
                                   /\ batch.prefilling[r] => batch.exact[r] = batch.upper[r]
                                   /\ HostQuery(batch, r) = Query(batch, r)
                                   /\ HostQuery(batch, r) \in Nat
<1>1. /\ batch.fixed /\ batch.host = batch.bounds /\ batch.bounds[batch.n] = batch.tokens
      /\ batch.upper \in [Rows(batch) -> Nat] /\ batch.exact \in [Rows(batch) -> 0..batch.maxkv]
      /\ batch.maxkv \in Nat
      /\ \A r \in Rows(batch) : /\ batch.exact[r] <= batch.upper[r]
                                /\ batch.prefilling[r] => batch.exact[r] = batch.upper[r]
  BY DEF Contract, Trusted, Lengths
<1>2. ASSUME NEW r \in Rows(batch)
      PROVE  HostQuery(batch, r) = Query(batch, r) /\ HostQuery(batch, r) \in Nat
  <2>1. r \in 0..batch.n /\ r + 1 \in 0..batch.n /\ batch.n \in Nat
    BY BoundsRise
  <2>2. batch.bounds[r] \in Nat /\ batch.bounds[r + 1] \in Nat /\ batch.bounds[r] <= batch.bounds[r + 1]
    BY <2>1, BoundsMonotone
  <2> QED
    BY <1>1, <2>2 DEF HostQuery, Query
<1> QED
  BY <1>1, <1>2

-----------------------------------------------------------------------------
(* Every call a layer makes has its bounds and lengths right.               *)
LEMMA LengthsFacts ==
  ASSUME Contract(batch), used \in Lengths(batch), NEW r \in Rows(batch)
  PROVE  used[r] \in Nat /\ used[r] <= batch.maxkv /\ batch.maxkv \in Nat /\ Query(batch, r) <= used[r]
<1>1. used \in [Rows(batch) -> 0..batch.maxkv] /\ batch.maxkv \in Nat
  BY DEF Lengths, Contract
<1>2. Query(batch, r) <= used[r]
  BY DEF Lengths
<1> QED
  BY <1>1, <1>2

\* The rows of a batch are those of a call over the whole of it.
LEMMA WholeRows ==
  ASSUME Contract(batch)
  PROVE  /\ batch.n \in Nat \ {0} /\ 0 \in Rows(batch) /\ batch.n \in (0 + 1)..batch.n
         /\ 0..(batch.n - 1) = Rows(batch)
         /\ batch.maxq \in Nat /\ batch.maxkv \in Nat
         /\ \A r \in Rows(batch) : Query(batch, r) <= batch.maxq
         /\ batch.bounds \in [0..batch.n -> Nat] /\ batch.bounds[0] = 0
<1>1. batch.n \in Nat \ {0}
  BY DEF Contract
<1>2. 0..(batch.n - 1) = Rows(batch)
  BY DEF Rows
<1>3. /\ batch.maxq \in Nat /\ batch.maxkv \in Nat
      /\ \A r \in Rows(batch) : Query(batch, r) <= batch.maxq
      /\ batch.bounds \in [0..batch.n -> Nat] /\ batch.bounds[0] = 0
  BY DEF Contract
<1> QED
  BY <1>1, <1>2, <1>3

LEMMA NativeIsExact ==
  ASSUME Contract(batch), used \in Lengths(batch)
  PROVE  Exact(WholeCall("native"))
<1> DEFINE c == WholeCall("native")
<1>1. /\ c.first = 0 /\ c.last = batch.n /\ c.start = 0 /\ c.cu = batch.bounds
      /\ c.maxq = batch.maxq /\ c.maxkv = batch.maxkv /\ c.kernel = "native"
  BY DEF WholeCall, Launch
<1> HIDE DEF c
<1>2. \A r \in 0..batch.n : c.cu[r] \in Int /\ c.start + c.cu[r] = batch.bounds[r]
  BY <1>1, WholeRows
<1>3. ASSUME NEW r \in Rows(batch) PROVE Keys(c, r) = used[r]
  BY <1>1, LengthsFacts DEF Keys
<1>4. c.start \in Nat /\ c.maxq \in Nat /\ c.first..(c.last - 1) = Rows(batch)
  BY <1>1, WholeRows
<1>5. c.first \in Rows(batch) /\ c.last \in (c.first + 1)..batch.n /\ c.first = 0 /\ c.last = batch.n
  BY <1>1, WholeRows
<1>6. \A r \in Rows(batch) : Query(batch, r) <= c.maxq
  BY <1>1, WholeRows
<1>7. Exact(c)
  BY <1>2, <1>3, <1>4, <1>5, <1>6 DEF Exact
<1> QED
  BY <1>7 DEF c

LEMMA VerificationIsExact ==
  ASSUME Contract(batch), used \in Lengths(batch), batch.fixed,
         Verifies(batch.n, batch.tokens, batch.maxq, batch.maxkv)
  PROVE  Exact(WholeCall("M04"))
<1> DEFINE c == WholeCall("M04")
<1>1. /\ c.first = 0 /\ c.last = batch.n /\ c.start = 0 /\ c.cu = Uniform(0, batch.n, batch.maxq)
      /\ c.maxq = batch.maxq /\ c.maxkv = batch.maxkv /\ c.kernel = "M04"
  BY DEF WholeCall, Launch
<1> HIDE DEF c
<1>2. /\ batch.n - 0 \in 1..4 /\ batch.maxq \in 2..5
      /\ batch.bounds[batch.n] - batch.bounds[0] = (batch.n - 0) * batch.maxq
  <2>1. batch.n \in 1..4 /\ batch.maxq \in 2..5 /\ batch.tokens = batch.n * batch.maxq
    BY DEF Verifies
  <2>2. batch.bounds[batch.n] = batch.tokens
    BY DEF Contract
  <2> QED
    BY <2>1, <2>2, WholeRows
<1>3. /\ \A r \in 0..batch.n : batch.bounds[r] \in Nat
      /\ \A r \in 0..(batch.n - 1) : batch.bounds[r + 1] - batch.bounds[r] <= batch.maxq
  BY WholeRows DEF Query
<1>4. \A r \in 0..batch.n : batch.bounds[0] + (r - 0) * batch.maxq = batch.bounds[r]
  <2>1. 0 \in Nat /\ batch.n \in Nat
    BY WholeRows
  <2>2. Fills(batch.bounds, 0, batch.n, batch.maxq)
    BY <1>2, <1>3, <2>1 DEF Fills
  <2> QED
    BY <2>2, UniformBounds
<1>5. ASSUME NEW r \in 0..batch.n
      PROVE  c.cu[r] \in Int /\ c.start + c.cu[r] = batch.bounds[r]
  <2>1. c.cu[r] = (r - 0) * batch.maxq
    BY <1>1 DEF Uniform
  <2>2. r - 0 \in Int /\ batch.maxq \in Int
    BY WholeRows
  <2>3. (r - 0) * batch.maxq \in Int
    BY <2>2
  <2>4. 0 + (r - 0) * batch.maxq = batch.bounds[r]
    BY <1>4, WholeRows
  <2> QED
    BY <1>1, <2>1, <2>3, <2>4
<1>6. ASSUME NEW r \in Rows(batch) PROVE Keys(c, r) = used[r]
  BY <1>1, LengthsFacts DEF Keys
<1>7. c.start \in Nat /\ c.maxq \in Nat /\ c.first..(c.last - 1) = Rows(batch)
  BY <1>1, WholeRows
<1>8. c.first \in Rows(batch) /\ c.last \in (c.first + 1)..batch.n /\ c.first = 0 /\ c.last = batch.n
  BY <1>1, WholeRows
<1>9. \A r \in Rows(batch) : Query(batch, r) <= c.maxq
  BY <1>1, WholeRows
<1>10. Exact(c)
  BY <1>5, <1>6, <1>7, <1>8, <1>9 DEF Exact
<1> QED
  BY <1>10 DEF c

\* The requests of a segment, and what the host knows of them.
LEMMA FitsFacts ==
  ASSUME Contract(batch), Trusted, NEW s, Fits(s)
  PROVE  /\ batch.n \in Nat /\ s.first \in 0..batch.n /\ s.last \in 0..batch.n /\ s.first < s.last
         /\ s.first \in Rows(batch) /\ s.last \in (s.first + 1)..batch.n
         /\ s.start = batch.bounds[s.first] /\ s.stop = batch.bounds[s.last] /\ s.start \in Nat /\ s.stop \in Nat
         /\ \A r \in s.first..s.last : r \in 0..batch.n /\ batch.bounds[r] \in Nat
         /\ \A r \in s.first..(s.last - 1) :
              /\ r \in Rows(batch) /\ r + 1 \in s.first..s.last
              /\ Query(batch, r) <= s.maxq /\ Query(batch, r) \in Nat
              /\ batch.exact[r] <= s.maxkv
         /\ s.maxq \in Nat /\ s.maxkv \in Nat
<1>1. batch.n \in Nat /\ s.first \in 0..(batch.n - 1) /\ s.last \in (s.first + 1)..batch.n
  BY DEF Contract, Fits, Rows
<1>2. batch.host = batch.bounds
  BY TrustedHost
<1>3. \A r \in 0..batch.n : batch.bounds[r] \in Nat
  BY WholeRows
<1>4. s.start = batch.bounds[s.first] /\ s.stop = batch.bounds[s.last] /\ s.maxq \in Nat /\ s.maxkv \in Nat
  BY <1>2 DEF Fits
<1>5. ASSUME NEW r \in s.first..(s.last - 1)
      PROVE  /\ r \in Rows(batch) /\ Query(batch, r) <= s.maxq /\ Query(batch, r) \in Nat
             /\ batch.exact[r] <= s.maxkv
  <2>1. r \in Rows(batch)
    BY <1>1 DEF Rows
  <2>2. HostQuery(batch, r) <= s.maxq /\ batch.upper[r] <= s.maxkv
    BY DEF Fits
  <2>3. /\ HostQuery(batch, r) = Query(batch, r) /\ HostQuery(batch, r) \in Nat
        /\ batch.exact[r] <= batch.upper[r] /\ batch.exact[r] \in Nat /\ batch.upper[r] \in Nat
    BY <2>1, TrustedHost
  <2> QED
    BY <1>4, <2>1, <2>2, <2>3
<1> QED
  BY <1>1, <1>3, <1>4, <1>5 DEF Rows

\* A long prefill: its length is the host's, which is exact.
LEMMA PrefillIsExact ==
  ASSUME Contract(batch), Trusted, used = batch.exact, NEW s, Fits(s), s.prefill
  PROVE  Exact(SegmentCall(s))
<1> DEFINE rows == s.stop - s.start
           c == SegmentCall(s)
<1>1. /\ c.first = s.first /\ c.last = s.last /\ c.start = s.start /\ c.cu = Uniform(s.first, s.last, rows)
      /\ c.maxq = rows /\ c.maxkv = s.maxkv /\ c.kernel = "oneDNN"
  BY DEF SegmentCall, Launch
<1> HIDE DEF c
<1>2. Long(s.first) /\ s.last = s.first + 1 /\ s.maxkv = batch.upper[s.first]
  BY DEF Fits
<1>3. used[s.first] = s.maxkv
  <2>1. batch.prefilling[s.first] /\ s.first \in Rows(batch)
    BY <1>2 DEF Long, Fits
  <2> QED
    BY <1>2, <2>1, TrustedHost
<1>4. /\ s.first \in Rows(batch) /\ s.first \in Nat
      /\ s.first \in 0..batch.n /\ s.last \in (s.first + 1)..batch.n
      /\ batch.bounds[s.first] \in Nat /\ batch.bounds[s.first + 1] \in Nat
      /\ s.start = batch.bounds[s.first] /\ s.stop = batch.bounds[s.first + 1]
  BY <1>2, FitsFacts, BoundsRise
<1>5. rows \in Nat /\ rows = Query(batch, s.first)
  <2>1. Query(batch, s.first) \in Nat
    BY <1>2, <1>4, FitsFacts
  <2> QED
    BY <1>4, <2>1 DEF Query
<1>6. c.cu[s.first] = 0 /\ c.cu[s.first + 1] = rows
  <2>1. s.first \in s.first..s.last /\ s.first + 1 \in s.first..s.last
        /\ s.first - s.first = 0 /\ s.first + 1 - s.first = 1
    BY <1>2, <1>4
  <2>2. c.cu[s.first] = 0 * rows /\ c.cu[s.first + 1] = 1 * rows
    BY <1>1, <2>1 DEF Uniform
  <2> QED
    BY <1>5, <2>2
<1>7. ASSUME NEW r \in c.first..c.last PROVE c.cu[r] \in Int /\ c.start + c.cu[r] = batch.bounds[r]
  <2>1. r = s.first \/ r = s.first + 1
    BY <1>1, <1>2, <1>4
  <2>2. s.start + rows = s.stop /\ rows \in Int /\ s.start + 0 = s.start
    BY <1>4
  <2> QED
    BY <1>1, <1>4, <1>6, <2>1, <2>2
<1>8. ASSUME NEW r \in c.first..(c.last - 1) PROVE Query(batch, r) <= c.maxq /\ Keys(c, r) = used[r]
  <2>1. r = s.first
    BY <1>1, <1>2, <1>4
  <2> QED
    BY <1>1, <1>3, <1>5, <2>1 DEF Keys
<1>9. Exact(c)
  BY <1>1, <1>4, <1>5, <1>7, <1>8 DEF Exact
<1> QED
  BY <1>9 DEF c

\* What a segment's kernel reads of the device is within what the host launched it for.
LEMMA SegmentKeys ==
  ASSUME Contract(batch), Trusted, used = batch.exact, NEW s, Fits(s),
         NEW c, c.kernel # "oneDNN", c.maxkv = s.maxkv, NEW r \in s.first..(s.last - 1)
  PROVE  Keys(c, r) = used[r]
  BY FitsFacts DEF Keys

\* A run whose queries fill a matrix.
LEMMA MatrixIsExact ==
  ASSUME Contract(batch), Trusted, used = batch.exact, NEW s, Fits(s), ~ s.prefill,
         Verifies(s.last - s.first, s.stop - s.start, s.maxq, s.maxkv)
  PROVE  Exact(SegmentCall(s))
<1> DEFINE c == SegmentCall(s)
<1>1. /\ c.first = s.first /\ c.last = s.last /\ c.start = s.start /\ c.cu = Uniform(s.first, s.last, s.maxq)
      /\ c.maxq = s.maxq /\ c.maxkv = s.maxkv /\ c.kernel = "M04"
  BY DEF SegmentCall, Launch
<1> HIDE DEF c
<1>2. Fills(batch.bounds, s.first, s.last, s.maxq)
  <2>1. /\ s.last - s.first \in 1..4 /\ s.maxq \in 2..5
        /\ s.stop - s.start = (s.last - s.first) * s.maxq
    BY DEF Verifies
  <2>2. s.first \in Nat /\ s.last \in Nat
    BY FitsFacts
  <2>3. \A r \in s.first..s.last : batch.bounds[r] \in Nat
    BY FitsFacts
  <2>4. \A r \in s.first..(s.last - 1) : batch.bounds[r + 1] - batch.bounds[r] <= s.maxq
    BY FitsFacts DEF Query
  <2>5. batch.bounds[s.last] - batch.bounds[s.first] = (s.last - s.first) * s.maxq
    BY <2>1, FitsFacts
  <2> QED
    BY <2>1, <2>2, <2>3, <2>4, <2>5 DEF Fills
<1>3. \A r \in s.first..s.last : batch.bounds[s.first] + (r - s.first) * s.maxq = batch.bounds[r]
  BY <1>2, UniformBounds
<1>4. ASSUME NEW r \in s.first..s.last PROVE c.cu[r] \in Int /\ c.start + c.cu[r] = batch.bounds[r]
  <2>1. c.cu[r] = (r - s.first) * s.maxq
    BY <1>1 DEF Uniform
  <2>2. r - s.first \in Int /\ s.maxq \in Int
    BY FitsFacts
  <2>3. (r - s.first) * s.maxq \in Int
    BY <2>2
  <2>4. c.start = batch.bounds[s.first]
    BY <1>1, FitsFacts
  <2> QED
    BY <1>3, <2>1, <2>3, <2>4
<1>5. ASSUME NEW r \in s.first..(s.last - 1) PROVE Query(batch, r) <= c.maxq /\ Keys(c, r) = used[r]
  BY <1>1, FitsFacts, SegmentKeys
<1>6. s.first \in Rows(batch) /\ s.last \in (s.first + 1)..batch.n /\ s.start \in Nat /\ s.maxq \in Nat
  BY FitsFacts
<1>7. Exact(c)
  BY <1>1, <1>4, <1>5, <1>6 DEF Exact
<1> QED
  BY <1>7 DEF c

\* Any other run, with its bounds from its first position.
LEMMA RunIsExact ==
  ASSUME Contract(batch), Trusted, used = batch.exact, NEW s, Fits(s), ~ s.prefill,
         ~ Verifies(s.last - s.first, s.stop - s.start, s.maxq, s.maxkv)
  PROVE  Exact(SegmentCall(s))
<1> DEFINE c == SegmentCall(s)
<1>1. /\ c.first = s.first /\ c.last = s.last /\ c.start = s.start /\ c.cu = s.cu
      /\ c.maxq = s.maxq /\ c.maxkv = s.maxkv /\ c.kernel = "native"
  BY DEF SegmentCall, Launch
<1> HIDE DEF c
<1>2. ASSUME NEW r \in s.first..s.last PROVE c.cu[r] \in Int /\ c.start + c.cu[r] = batch.bounds[r]
  <2>1. c.cu[r] = batch.host[r] - batch.host[s.first]
    BY <1>1 DEF Fits, Rebased
  <2>2. batch.host = batch.bounds
    BY TrustedHost
  <2>3. batch.bounds[r] \in Nat /\ batch.bounds[s.first] \in Nat /\ c.start = batch.bounds[s.first]
    BY <1>1, FitsFacts
  <2> QED
    BY <2>1, <2>2, <2>3
<1>3. ASSUME NEW r \in s.first..(s.last - 1) PROVE Query(batch, r) <= c.maxq /\ Keys(c, r) = used[r]
  BY <1>1, FitsFacts, SegmentKeys
<1>4. s.first \in Rows(batch) /\ s.last \in (s.first + 1)..batch.n /\ s.start \in Nat /\ s.maxq \in Nat
  BY FitsFacts
<1>5. Exact(c)
  BY <1>1, <1>2, <1>3, <1>4 DEF Exact
<1> QED
  BY <1>5 DEF c

LEMMA SegmentIsExact ==
  ASSUME Contract(batch), Trusted, used = batch.exact, NEW s, Fits(s)
  PROVE  Exact(SegmentCall(s)) /\ SegmentCall(s).first = s.first /\ SegmentCall(s).last = s.last
<1>1. Exact(SegmentCall(s))
  BY PrefillIsExact, MatrixIsExact, RunIsExact
<1>2. SegmentCall(s).first = s.first /\ SegmentCall(s).last = s.last
  BY DEF SegmentCall, Launch
<1> QED
  BY <1>1, <1>2

-----------------------------------------------------------------------------
(* host_segments().                                                         *)
LEMMA Appended ==
  ASSUME NEW S, NEW s \in Seq(S), NEW e
  PROVE  /\ Append(s, e) \in Seq(S \cup {e}) /\ Len(s) \in Nat /\ Len(Append(s, e)) = Len(s) + 1
         /\ Append(s, e)[Len(s) + 1] = e
         /\ \A n \in 1..Len(s) : Append(s, e)[n] = s[n]
<1>1. s \in Seq(S \cup {e}) /\ e \in S \cup {e}
  OBVIOUS
<1> QED
  BY <1>1

\* What is cut off, when it cannot be extended, fits.
LEMMA CutFits ==
  ASSUME Contract(batch), Trusted, Open, i \in 0..batch.n, i < batch.n, ~ Extends
  PROVE  Fits(Segment(i, j))
<1> DEFINE s == Segment(i, j)
           queries == [r \in i..(j - 1) |-> HostQuery(batch, r)]
           lengths == [r \in i..(j - 1) |-> batch.upper[r]]
           Q == {HostQuery(batch, r) : r \in i..(j - 1)}
           U == {batch.upper[r] : r \in i..(j - 1)}
<1>1. /\ s.first = i /\ s.last = j /\ s.start = batch.host[i] /\ s.stop = batch.host[j]
      /\ s.maxq = Largest(Q) /\ s.maxkv = Largest(U)
      /\ s.prefill = Long(i) /\ s.cu = Rebased(i, j)
  BY DEF Segment
<1> HIDE DEF s
<1>2. /\ batch.n \in Nat /\ i \in Nat /\ j \in Nat /\ i < j /\ j \in (i + 1)..batch.n
      /\ i \in Rows(batch) /\ i..(j - 1) \subseteq Rows(batch)
  BY DEF Contract, Open, Rows
<1>3. \A r \in i..(j - 1) : queries[r] \in Nat /\ lengths[r] \in Nat
  BY <1>2, TrustedHost
<1>4. Q = {queries[r] : r \in i..(j - 1)} /\ U = {lengths[r] : r \in i..(j - 1)}
  OBVIOUS
<1>5. \A r \in i..(j - 1) : queries[r] = HostQuery(batch, r) /\ lengths[r] = batch.upper[r]
  OBVIOUS
<1>6. Largest(Q) \in Q /\ Largest(Q) \in Nat /\ \A r \in i..(j - 1) : HostQuery(batch, r) <= Largest(Q)
  <2>1. Values(Q, queries, i, j)
    BY <1>2, <1>3, <1>4, Zenon DEF Values
  <2> HIDE DEF queries, Q
  <2>2. Largest(Q) \in Q /\ Largest(Q) \in Nat /\ \A r \in i..(j - 1) : queries[r] <= Largest(Q)
    BY <2>1, LargestIs
  <2> QED
    BY <1>5, <2>2
<1>7. Largest(U) \in U /\ Largest(U) \in Nat /\ \A r \in i..(j - 1) : batch.upper[r] <= Largest(U)
  <2>1. Values(U, lengths, i, j)
    BY <1>2, <1>3, <1>4, Zenon DEF Values
  <2> HIDE DEF lengths, U
  <2>2. Largest(U) \in U /\ Largest(U) \in Nat /\ \A r \in i..(j - 1) : lengths[r] <= Largest(U)
    BY <2>1, LargestIs
  <2> QED
    BY <1>5, <2>2
<1>8. ASSUME Long(i) PROVE j = i + 1 /\ Largest(U) = batch.upper[i]
  <2>1. j = i + 1
    BY <1>8 DEF Open
  <2>2. i..(j - 1) = {i}
    BY <1>2, <2>1
  <2>3. U = {batch.upper[i]}
    BY <2>2
  <2> QED
    BY <1>7, <2>1, <2>3
<1>9. ASSUME ~ Long(i)
      PROVE  /\ \A r \in i..(j - 1) : ~ Long(r)
             /\ i = 0 \/ Long(i - 1)
             /\ j = batch.n \/ Long(j)
  BY <1>2, <1>9 DEF Open, Extends
<1> HIDE DEF queries, lengths, Q, U
<1>10. Fits(s)
  BY <1>1, <1>2, <1>6, <1>7, <1>8, <1>9 DEF Fits
<1> QED
  BY <1>10 DEF s

\* A step that keeps the batch keeps what its requests are, ...
LEMMA SameBatch ==
  ASSUME UNCHANGED batch
  PROVE  /\ \A s : Fits(s)' <=> Fits(s)
         /\ Trusted' <=> Trusted
         /\ Rows(batch)' = Rows(batch)
<1>1. \A r : Long(r)' <=> Long(r)
  BY DEF Long, HostQuery
<1>2. \A a, b : Rebased(a, b)' = Rebased(a, b)
  BY DEF Rebased
<1>3. \A r : HostQuery(batch, r)' = HostQuery(batch, r)
  BY DEF HostQuery
<1>4. Rows(batch)' = Rows(batch)
  BY DEF Rows
<1>5. Trusted' <=> Trusted
  BY DEF Trusted, Rows, HostQuery
<1>6. ASSUME NEW s PROVE Fits(s)' <=> Fits(s)
  BY <1>1, <1>2, <1>3, <1>4 DEF Fits
<1> QED
  BY <1>4, <1>5, <1>6

\* ... and one that keeps the plan, out of its making, keeps what it is.
LEMMA SamePlan ==
  ASSUME PlanInv, UNCHANGED <<batch, plan>>, pc # "cut", pc' \notin {"build", "cut"}
  PROVE  PlanInv'
<1>1. Chained'
  BY SameBatch DEF PlanInv, Chained, plan
<1>2. Trusted' <=> Trusted
  BY SameBatch
<1> QED
  BY <1>1, <1>2 DEF PlanInv, plan

LEMMA PrepareKeepsPlan ==
  ASSUME Contract(batch), PlanInv, Prepare
  PROVE  PlanInv'
<1>1. pc = "build" /\ ~ planned /\ Len(segments) = 0 /\ i = 0 /\ j = 1
  BY DEF Prepare, PlanInv, Chained
<1>2. Chained' /\ i' = i /\ j' = j /\ planned' = planned /\ segments' = segments /\ batch' = batch
  BY SameBatch DEF Prepare, PlanInv, Chained, plan
<1>3. (pc' = "cut" /\ Trusted) \/ pc' = "ready"
  BY DEF Prepare
<1>4. Open'
  <2>1. batch.n \in Nat \ {0}
    BY DEF Contract
  <2>2. 1 \in (0 + 1)..batch.n /\ 0..(1 - 1) = {0}
    BY <2>1
  <2>3. \A r : Long(r)' <=> Long(r)
    BY <1>2 DEF Long, HostQuery
  <2> QED
    BY <1>1, <1>2, <2>2, <2>3 DEF Open
<1>5. Trusted' <=> Trusted
  BY <1>2, SameBatch
<1> QED
  BY <1>1, <1>2, <1>3, <1>4, <1>5 DEF PlanInv

LEMMA ExtendKeepsPlan ==
  ASSUME Contract(batch), PlanInv, Extend
  PROVE  PlanInv'
<1>1. /\ pc = "cut" /\ pc' = pc /\ i' = i /\ j' = j + 1 /\ planned' = planned
      /\ segments' = segments /\ batch' = batch
  BY DEF Extend
<1>2. Chained' /\ (Trusted' <=> Trusted)
  BY <1>1, SameBatch DEF PlanInv, Chained
<1>3. /\ batch.n \in Nat /\ i \in 0..batch.n /\ j \in (i + 1)..batch.n /\ i < batch.n /\ j < batch.n
      /\ ~ Long(i) /\ ~ Long(j) /\ \A r \in i..(j - 1) : ~ Long(r)
      /\ i = 0 \/ Long(i - 1)
  BY DEF Extend, Extends, PlanInv, Open, Contract
<1>4. Open'
  <2>1. \A r : Long(r)' <=> Long(r)
    BY <1>1 DEF Long, HostQuery
  <2>2. j + 1 \in (i + 1)..batch.n /\ \A r \in i..((j + 1) - 1) : r = j \/ r \in i..(j - 1)
    BY <1>3
  <2> QED
    BY <1>1, <1>3, <2>1, <2>2 DEF Open
<1>5. j' \in 1..(batch.n + 1)
  BY <1>1, <1>3
<1> QED
  BY <1>1, <1>2, <1>4, <1>5 DEF PlanInv

LEMMA CutKeepsPlan ==
  ASSUME Contract(batch), PlanInv, Cut
  PROVE  PlanInv'
<1> DEFINE s == Segment(i, j)
<1>1. /\ pc = "cut" /\ pc' = pc /\ i' = j /\ j' = j + 1 /\ planned' = planned /\ ~ planned
      /\ segments' = Append(segments, s) /\ batch' = batch /\ i < batch.n /\ ~ Extends /\ Trusted /\ Open
      /\ i \in 0..batch.n
  BY DEF Cut, PlanInv
<1>2. Fits(s)
  BY <1>1, CutFits
<1>3. s.first = i /\ s.last = j
  BY DEF Segment
<1> HIDE DEF s
<1>4. PICK S : segments \in Seq(S)
  BY DEF PlanInv, Chained
<1>5. /\ segments' \in Seq(S \cup {s}) /\ Len(segments) \in Nat /\ Len(segments') = Len(segments) + 1
      /\ segments'[Len(segments) + 1] = s
      /\ \A n \in 1..Len(segments) : segments'[n] = segments[n]
  BY <1>1, <1>4, Appended
<1>6. Chained'
  <2>1. i' = segments'[Len(segments')].last
    BY <1>1, <1>3, <1>5
  <2>2. segments'[1].first = 0
    <3>1. CASE Len(segments) = 0
      BY <1>3, <1>5, <3>1 DEF PlanInv, Chained
    <3>2. CASE Len(segments) # 0
      BY <1>5, <3>2 DEF PlanInv, Chained
    <3> QED
      BY <3>1, <3>2
  <2>3. ASSUME NEW n \in 1..(Len(segments') - 1) PROVE segments'[n].last = segments'[n + 1].first
    <3>1. CASE n = Len(segments)
      <4>1. Len(segments) # 0 /\ i = segments[n].last
        BY <3>1, <1>5 DEF PlanInv, Chained
      <4> QED
        BY <1>3, <1>5, <3>1, <4>1
    <3>2. CASE n # Len(segments)
      <4>1. n \in 1..(Len(segments) - 1) /\ n \in 1..Len(segments) /\ n + 1 \in 1..Len(segments)
        BY <1>5, <3>2
      <4>2. segments[n].last = segments[n + 1].first
        BY <4>1 DEF PlanInv, Chained
      <4> QED
        BY <1>5, <4>1, <4>2
    <3> QED
      BY <3>1, <3>2
  <2>4. ASSUME NEW n \in 1..Len(segments') PROVE Fits(segments'[n])
    <3>1. CASE n = Len(segments) + 1
      BY <1>2, <1>5, <3>1
    <3>2. CASE n # Len(segments) + 1
      <4>1. n \in 1..Len(segments)
        BY <1>5, <3>2
      <4> QED
        BY <1>5, <4>1 DEF PlanInv, Chained
    <3> QED
      BY <3>1, <3>2
  <2>5. \A x : Fits(x)' <=> Fits(x)
    BY <1>1, SameBatch
  <2>6. \A n \in 1..Len(segments') : Fits(segments[n])'
    BY <2>4, <2>5
  <2>7. Len(segments') # 0
    BY <1>5
  <2>8. \E T : segments' \in Seq(T)
    BY <1>5
  <2> QED
    BY <2>1, <2>2, <2>3, <2>6, <2>7, <2>8 DEF Chained
<1>7. batch.n \in Nat /\ j \in (i + 1)..batch.n
  BY <1>1 DEF Open, Contract
<1>8. Open'
  <2>1. \A r : Long(r)' <=> Long(r)
    BY <1>1 DEF Long, HostQuery
  <2> SUFFICES ASSUME j < batch.n
               PROVE  /\ j + 1 \in (j + 1)..batch.n
                      /\ ~ Long(j) => /\ \A r \in j..((j + 1) - 1) : ~ Long(r)
                                      /\ j = 0 \/ Long(j - 1)
    BY <1>1, <2>1 DEF Open
  <2>2. j + 1 \in (j + 1)..batch.n /\ j..((j + 1) - 1) = {j}
    BY <1>1, <1>7
  <2>3. ASSUME ~ Long(j) PROVE Long(j - 1)
    <3>1. Long(i)
      BY <1>1, <2>3 DEF Extends
    <3>2. j = i + 1
      BY <1>1, <3>1 DEF Open
    <3>3. j - 1 = i
      BY <1>1, <3>2
    <3> QED
      BY <3>1, <3>3
  <2> QED
    BY <2>2, <2>3
<1>9. i' \in 0..batch.n /\ j' \in 1..(batch.n + 1)
  BY <1>1, <1>7
<1>10. Trusted'
  BY <1>1, SameBatch
<1> QED
  BY <1>1, <1>6, <1>8, <1>9, <1>10 DEF PlanInv

LEMMA PlannedKeepsPlan ==
  ASSUME Contract(batch), PlanInv, Planned
  PROVE  PlanInv'
<1>1. /\ pc = "cut" /\ pc' = "ready" /\ planned' /\ i' = i /\ j' = j /\ segments' = segments /\ batch' = batch
      /\ i >= batch.n /\ Trusted
  BY DEF Planned, PlanInv
<1>2. Chained' /\ (Trusted' <=> Trusted)
  BY <1>1, SameBatch DEF PlanInv, Chained
<1>3. i = batch.n
  BY <1>1 DEF PlanInv, Contract
<1> QED
  BY <1>1, <1>2, <1>3 DEF PlanInv

LEMMA PlanKept ==
  ASSUME Contract(batch), PlanInv, [Next]_vars
  PROVE  PlanInv'
<1>1. CASE Prepare
  BY <1>1, PrepareKeepsPlan
<1>2. CASE Extend
  BY <1>2, ExtendKeepsPlan
<1>3. CASE Cut
  BY <1>3, CutKeepsPlan
<1>4. CASE Planned
  BY <1>4, PlannedKeepsPlan
<1>5. CASE Enter \/ AttendWhole \/ AttendSegment \/ Attended
  BY <1>5, SamePlan DEF Enter, AttendWhole, AttendSegment, Attended
<1>6. CASE Refill \/ Replay \/ Replayed
  BY <1>6, SamePlan DEF Refill, Replay, Replayed
<1>7. CASE UNCHANGED vars
  <2>1. UNCHANGED <<batch, pc, i, j, segments, planned>>
    BY <1>7 DEF vars
  <2>2. \A r : Long(r)' <=> Long(r)
    BY <2>1 DEF Long, HostQuery
  <2>3. Chained' /\ (Trusted' <=> Trusted) /\ (Open' <=> Open)
    BY <2>1, <2>2, SameBatch DEF PlanInv, Chained, Open
  <2> QED
    BY <2>1, <2>3 DEF PlanInv
<1> QED
  BY <1>1, <1>2, <1>3, <1>4, <1>5, <1>6, <1>7 DEF Next

-----------------------------------------------------------------------------
(* A layer, and a replay of it.                                             *)
\* The requests before q are right, and the positions from q's on untouched.
Through(q, o) ==
  /\ DOMAIN o = 0..(batch.tokens - 1)
  /\ \A r \in Rows(batch) : r < q => Good(r, o)
  /\ \A t \in DOMAIN o : batch.bounds[q] <= t => o[t] = Nothing
\* Where the next segment begins.
Front == IF k <= Len(segments) THEN segments[k].first ELSE batch.n
AttendInv ==
  /\ pc \in {"build", "cut", "ready", "attend", "done"} => used = batch.exact
  /\ pc = "attend" /\ Route # "mixed" => out = Blank /\ tape = <<>>
  /\ pc = "attend" /\ Route = "mixed" =>
       k \in 1..(Len(segments) + 1) /\ Through(Front, out)
  /\ pc \in {"done", "replayed"} => \A r \in Rows(batch) : Good(r, out)
  /\ pc \in {"replay", "replayed"} => batch.capturing
  /\ batch.capturing /\ pc \in {"done", "replay", "replayed"} => tape = <<WholeCall(Route)>>
  /\ pc = "replay" => \/ k = 1 /\ out = Blank
                      \/ k = 2 /\ \A r \in Rows(batch) : Good(r, out)
IInv == TypeOK /\ PlanInv /\ AttendInv

\* The route that a layer takes, and what it was checked for.
LEMMA RouteChecks ==
  /\ Route = "mixed" => planned /\ ~ batch.capturing
  /\ Route = "M04" => batch.fixed /\ Verifies(batch.n, batch.tokens, batch.maxq, batch.maxkv)
  /\ Route \in {"native", "mixed", "M04"}
  BY DEF Route, Allowed, Prefills

LEMMA SameRoute ==
  ASSUME UNCHANGED <<batch, planned, segments, layer>>
  PROVE  Route' = Route /\ WholeCall(Route)' = WholeCall(Route) /\ Blank' = Blank
<1>1. Allowed' = Allowed /\ Prefills' = Prefills
      /\ Verifies(batch.n, batch.tokens, batch.maxq, batch.maxkv)'
         = Verifies(batch.n, batch.tokens, batch.maxq, batch.maxkv)
  BY DEF Allowed, Prefills, Verifies
<1>2. Route' = Route
  BY <1>1 DEF Route
<1> QED
  BY <1>2 DEF WholeCall, Blank

LEMMA SameRight ==
  ASSUME UNCHANGED <<batch, used>>
  PROVE  /\ \A r, t : Right(r, t)' = Right(r, t)
         /\ \A r : Positions(batch, r)' = Positions(batch, r)
         /\ Rows(batch)' = Rows(batch)
  BY DEF Right, Positions, Rows, Query

\* The positions of a request are positions of the batch.
LEMMA PositionsWithin ==
  ASSUME Contract(batch), NEW r \in Rows(batch), NEW t \in Positions(batch, r)
  PROVE  t \in 0..(batch.tokens - 1) /\ t \in Nat
  BY BoundsRise DEF Positions

\* A call over the whole batch leaves every position right.
LEMMA WholeRight ==
  ASSUME Contract(batch), used \in Lengths(batch), Route # "mixed",
         NEW before, DOMAIN before = 0..(batch.tokens - 1)
  PROVE  LET after == Computed(WholeCall(Route), before)
         IN DOMAIN after = DOMAIN before /\ \A r \in Rows(batch) : Good(r, after)
<1> DEFINE c == WholeCall(Route)
<1>1. Exact(c)
  BY NativeIsExact, VerificationIsExact, RouteChecks
<1>2. c.first = 0 /\ c.last = batch.n
  BY DEF WholeCall, Launch
<1> HIDE DEF c
<1>3. ASSUME NEW r \in Rows(batch) PROVE Good(r, Computed(c, before))
  BY <1>1, <1>2, KernelWrites DEF Rows
<1>4. DOMAIN Computed(c, before) = DOMAIN before
  BY DEF Computed
<1>5. DOMAIN Computed(c, before) = DOMAIN before /\ \A r \in Rows(batch) : Good(r, Computed(c, before))
  BY <1>3, <1>4
<1> QED
  BY <1>5 DEF c

\* The call of a segment leaves its requests right as well as those before it, the
\* positions after it untouched, and every result that was there.
LEMMA SegmentRight ==
  ASSUME Contract(batch), Trusted, used = batch.exact, NEW s, Fits(s),
         NEW before, Through(s.first, before)
  PROVE  LET after == Computed(SegmentCall(s), before)
         IN /\ Through(s.last, after)
            /\ \A t \in DOMAIN before : before[t] # Nothing => after[t] = before[t]
<1> DEFINE c == SegmentCall(s)
           after == Computed(c, before)
<1>0. /\ DOMAIN before = 0..(batch.tokens - 1)
      /\ \A r \in Rows(batch) : r < s.first => Good(r, before)
      /\ \A t \in DOMAIN before : batch.bounds[s.first] <= t => before[t] = Nothing
  BY DEF Through
<1>1. Exact(c) /\ c.first = s.first /\ c.last = s.last
  BY SegmentIsExact
<1> HIDE DEF c
<1>2. DOMAIN after = DOMAIN before
  BY DEF Computed
<1>3. /\ s.first \in 0..batch.n /\ s.last \in 0..batch.n /\ s.first < s.last /\ batch.n \in Nat
      /\ batch.bounds[s.first] \in Nat /\ batch.bounds[s.last] \in Nat
      /\ batch.bounds[s.first] <= batch.bounds[s.last] /\ batch.tokens \in Nat
  <2>1. s.first \in 0..batch.n /\ s.last \in 0..batch.n /\ s.first < s.last /\ batch.n \in Nat
    BY FitsFacts
  <2>2. s.first <= s.last /\ batch.tokens \in Nat
    BY <2>1 DEF Contract
  <2> QED
    BY <2>1, <2>2, BoundsMonotone
<1> HIDE DEF after
<1>4. ASSUME NEW t \in DOMAIN before, Outside(s.first, s.last, t)
      PROVE  after[t] = before[t]
  <2>1. Outside(c.first, c.last, t) /\ Exact(c) /\ DOMAIN before = 0..(batch.tokens - 1)
    BY <1>0, <1>1, <1>4
  <2>2. Computed(c, before)[t] = before[t]
    BY <2>1, KernelSpares
  <2> QED
    BY <2>2 DEF after
<1>5. ASSUME NEW r \in Rows(batch), r < s.last PROVE Good(r, after)
  <2>1. CASE s.first <= r
    <3>1. r \in c.first..(c.last - 1)
      BY <1>1, <1>3, <1>5, <2>1 DEF Rows
    <3> QED
      BY <1>0, <1>1, <3>1, KernelWrites DEF after
  <2>2. CASE ~(s.first <= r)
    <3> SUFFICES ASSUME NEW t \in Positions(batch, r) PROVE after[t] = Right(r, t)
      BY DEF Good
    <3>1. r \in 0..batch.n /\ r + 1 \in 0..batch.n /\ r < s.first /\ r + 1 <= s.first
      BY <1>3, <2>2 DEF Rows
    <3>2. before[t] = Right(r, t)
      BY <1>0, <3>1 DEF Good
    <3>3. batch.bounds[r + 1] <= batch.bounds[s.first] /\ batch.bounds[r + 1] \in Nat /\ batch.bounds[r] \in Nat
      BY <1>3, <3>1, BoundsMonotone, BoundsRise
    <3>4. Outside(s.first, s.last, t)
      BY <1>3, <3>3 DEF Positions, Outside
    <3> QED
      BY <1>0, <1>4, <3>2, <3>4, PositionsWithin
  <2> QED
    BY <2>1, <2>2
<1>6. ASSUME NEW t \in DOMAIN before, batch.bounds[s.last] <= t PROVE after[t] = Nothing
  <2>1. t \in Nat /\ batch.bounds[s.first] <= t /\ Outside(s.first, s.last, t)
    BY <1>0, <1>3, <1>6 DEF Outside
  <2> QED
    BY <1>0, <1>4, <2>1
<1>7. ASSUME NEW t \in DOMAIN before, before[t] # Nothing PROVE after[t] = before[t]
  <2>1. t \in Nat /\ ~(batch.bounds[s.first] <= t)
    BY <1>0, <1>3, <1>7
  <2>2. Outside(s.first, s.last, t)
    BY <1>3, <2>1 DEF Outside
  <2> QED
    BY <1>4, <2>2
<1>8. Through(s.last, after)
  BY <1>0, <1>2, <1>5, <1>6 DEF Through
<1> QED
  BY <1>7, <1>8 DEF c, after

\* A plan that is made goes from the first request to the last.
LEMMA WholePlan ==
  ASSUME Contract(batch), PlanInv, planned
  PROVE  /\ Trusted /\ Len(segments) \in Nat \ {0} /\ segments[1].first = 0
         /\ \A n \in 1..Len(segments) :
              /\ Fits(segments[n])
              /\ segments[n].last = IF n + 1 <= Len(segments) THEN segments[n + 1].first ELSE batch.n
<1>1. Len(segments) \in Nat
  BY DEF PlanInv, Chained
<1>2. i = batch.n /\ batch.n # 0
  BY DEF PlanInv, Contract
<1>3. Len(segments) # 0
  BY <1>2 DEF PlanInv, Chained
<1>4. ASSUME NEW n \in 1..Len(segments)
      PROVE  segments[n].last = IF n + 1 <= Len(segments) THEN segments[n + 1].first ELSE batch.n
  <2>1. CASE n + 1 <= Len(segments)
    <3>1. n \in 1..(Len(segments) - 1)
      BY <1>1, <2>1
    <3> QED
      BY <2>1, <3>1 DEF PlanInv, Chained
  <2>2. CASE ~(n + 1 <= Len(segments))
    <3>1. n = Len(segments)
      BY <1>1, <2>2
    <3> QED
      BY <1>2, <1>3, <2>2, <3>1 DEF PlanInv, Chained
  <2> QED
    BY <2>1, <2>2
<1> QED
  BY <1>1, <1>3, <1>4 DEF PlanInv, Chained

-----------------------------------------------------------------------------
(* The invariant is kept, action by action.                                 *)
LEMMA TypeKept ==
  ASSUME TypeOK, PlanInv, PlanInv', [Next]_vars
  PROVE  TypeOK'
<1>1. batch' = batch
  BY DEF Next, Prepare, Extend, Cut, Planned, Enter, AttendWhole, AttendSegment, Attended,
         Refill, Replay, Replayed, vars
<1>2. Contract(batch)' /\ Rows(batch)' = Rows(batch)
  BY <1>1 DEF TypeOK, Rows
<1>3. used' \in Lengths(batch)'
  <2>1. used' = used \/ used' \in Lengths(batch)
    BY DEF Next, Prepare, Extend, Cut, Planned, Enter, AttendWhole, AttendSegment, Attended,
           Refill, Replay, Replayed, vars
  <2>2. used \in Lengths(batch)
    BY DEF TypeOK
  <2>3. Lengths(batch)' = Lengths(batch)
    BY <1>1 DEF Lengths, Rows, Query
  <2> QED
    BY <2>1, <2>2, <2>3
<1>4. layer' \in Layers
  BY DEF TypeOK, Next, Prepare, Extend, Cut, Planned, Enter, AttendWhole, AttendSegment, Attended,
         Refill, Replay, Replayed, vars
<1>5. pc' \in {"build", "cut", "ready", "attend", "done", "replay", "replayed"}
  BY DEF TypeOK, Next, Prepare, Extend, Cut, Planned, Enter, AttendWhole, AttendSegment, Attended,
         Refill, Replay, Replayed, vars
<1>6. k' \in Nat \ {0}
  <2>1. k' = k \/ k' = 1 \/ k' = k + 1
    BY DEF Next, Prepare, Extend, Cut, Planned, Enter, AttendWhole, AttendSegment, Attended,
           Refill, Replay, Replayed, plan, vars
  <2> QED
    BY <2>1 DEF TypeOK
<1>7. planned' \in BOOLEAN
  BY DEF TypeOK, Next, Prepare, Extend, Cut, Planned, Enter, AttendWhole, AttendSegment, Attended,
         Refill, Replay, Replayed, plan, vars
<1>8. i' \in 0..batch'.n /\ j' \in 1..(batch'.n + 1)
  BY DEF PlanInv
<1>9. DOMAIN out' = 0..(batch'.tokens - 1)
  <2>1. \/ out' = out \/ out' = Blank \/ \E c : out' = Computed(c, out)
    BY DEF Next, Prepare, Extend, Cut, Planned, Enter, AttendWhole, AttendSegment, Attended, Do,
           Refill, Replay, Replayed, vars
  <2>2. DOMAIN out = 0..(batch.tokens - 1) /\ DOMAIN Blank = 0..(batch.tokens - 1)
    BY DEF TypeOK, Blank
  <2>3. \A c : DOMAIN Computed(c, out) = DOMAIN out
    BY DEF Computed
  <2> QED
    BY <1>1, <2>1, <2>2, <2>3
<1> DEFINE Typed(s) == /\ s.first \in Rows(batch)
                       /\ s.last \in (s.first + 1)..batch.n
                       /\ s.cu \in [s.first..s.last -> Nat]
<1>10. \A n \in 1..Len(segments') : Typed(segments'[n])
  <2>1. \A n \in 1..Len(segments) : Typed(segments[n])
    BY DEF TypeOK
  <2>2. CASE Cut
    <3> DEFINE s == Segment(i, j)
    <3>1. segments' = Append(segments, s) /\ i < batch.n /\ ~ Extends /\ pc = "cut"
      BY <2>2 DEF Cut
    <3>2. Contract(batch) /\ Trusted /\ Open /\ i \in 0..batch.n
      BY <3>1 DEF TypeOK, PlanInv
    <3>3. Fits(s)
      BY <3>1, <3>2, CutFits
    <3> HIDE DEF s
    <3>4. s.cu = Rebased(s.first, s.last)
      BY <3>3 DEF Fits
    <3>5. ASSUME NEW r \in s.first..s.last PROVE batch.host[r] - batch.host[s.first] \in Nat
      <4>1. s.first \in 0..batch.n /\ r \in 0..batch.n /\ s.first <= r /\ batch.host = batch.bounds
        BY <3>2, <3>3, FitsFacts, TrustedHost
      <4> QED
        BY <3>2, <4>1, BoundsMonotone
    <3>6. s.cu \in [s.first..s.last -> Nat]
      BY <3>4, <3>5 DEF Rebased
    <3>7. Typed(s)
      BY <3>3, <3>6 DEF Fits
    <3>8. PICK S : segments \in Seq(S)
      BY DEF PlanInv, Chained
    <3> HIDE DEF Typed
    <3>9. /\ Len(segments) \in Nat /\ Len(segments') = Len(segments) + 1
          /\ segments'[Len(segments) + 1] = s
          /\ \A n \in 1..Len(segments) : segments'[n] = segments[n]
      BY <3>1, <3>8, Appended
    <3>10. ASSUME NEW n \in 1..Len(segments') PROVE Typed(segments'[n])
      <4>1. n = Len(segments) + 1 \/ n \in 1..Len(segments)
        BY <3>9
      <4> QED
        BY <2>1, <3>7, <3>9, <4>1
    <3> QED
      BY <3>10
  <2>3. CASE ~ Cut
    <3>1. segments' = segments
      BY <2>3 DEF Next, Prepare, Extend, Planned, Enter, AttendWhole, AttendSegment, Attended,
                  Refill, Replay, Replayed, plan, vars
    <3> QED
      BY <2>1, <3>1
  <2> QED
    BY <2>2, <2>3
<1> QED
  BY <1>1, <1>2, <1>3, <1>4, <1>5, <1>6, <1>7, <1>8, <1>9, <1>10 DEF TypeOK

\* While the plan is made, no layer attends.
LEMMA MakingKeeps ==
  ASSUME IInv, Prepare \/ Extend \/ Cut \/ Planned
  PROVE  AttendInv'
<1>1. pc' \in {"cut", "ready"} /\ pc \in {"build", "cut"} /\ used' = used /\ batch' = batch
  BY DEF Prepare, Extend, Cut, Planned
<1> QED
  BY <1>1 DEF IInv, AttendInv

LEMMA EnterKeeps ==
  ASSUME IInv, Enter
  PROVE  AttendInv'
<1>1. /\ pc \in {"ready", "done"} /\ pc' = "attend" /\ k' = 1 /\ tape' = <<>> /\ out' = Blank
      /\ UNCHANGED <<batch, used, planned, segments>>
  BY DEF Enter, plan
<1>2. used' = batch'.exact
  BY <1>1 DEF IInv, AttendInv
<1>3. out' = Blank'
  BY <1>1 DEF Blank
<1>4. ASSUME Route' = "mixed"
      PROVE  k' \in 1..(Len(segments') + 1) /\ Through(Front, out)'
  <2>1. planned
    BY <1>1, <1>4 DEF Route, Allowed, Prefills
  <2>2. Len(segments) \in Nat \ {0} /\ segments[1].first = 0
    BY <2>1, WholePlan DEF IInv, TypeOK
  <2>3. Front' = 0
    BY <1>1, <2>2 DEF Front
  <2>4. \A r \in Rows(batch') : ~(r < 0)
    BY <1>1 DEF Rows
  <2>5. DOMAIN out' = 0..(batch'.tokens - 1) /\ \A t \in DOMAIN out' : out'[t] = Nothing
    BY <1>1 DEF Blank
  <2>6. Through(Front, out)'
    BY <2>3, <2>4, <2>5 DEF Through
  <2> QED
    BY <1>1, <2>2, <2>6
<1> QED
  BY <1>1, <1>2, <1>3, <1>4 DEF AttendInv

LEMMA WholeKeeps ==
  ASSUME IInv, AttendWhole
  PROVE  AttendInv'
<1>1. /\ pc = "attend" /\ Route # "mixed" /\ pc' = "done"
      /\ tape' = Append(tape, WholeCall(Route)) /\ out' = Computed(WholeCall(Route), out)
      /\ UNCHANGED <<batch, used, planned, segments, layer>>
  BY DEF AttendWhole, Do, plan
<1>2. used' = batch'.exact
  BY <1>1 DEF IInv, AttendInv
<1>3. tape' = <<WholeCall(Route)'>>
  <2>1. tape = <<>>
    BY <1>1 DEF IInv, AttendInv
  <2> QED
    BY <1>1, <2>1, SameRoute
<1>4. \A r \in Rows(batch) : Good(r, Computed(WholeCall(Route), out))
  BY <1>1, WholeRight DEF IInv, TypeOK
<1>5. \A r \in Rows(batch') : Good(r, out)'
  BY <1>1, <1>4, SameRight DEF Good
<1> QED
  BY <1>1, <1>2, <1>3, <1>5 DEF AttendInv

\* The segment that is next, and what the layer has found so far.
LEMMA SegmentMeets ==
  ASSUME IInv, AttendSegment
  PROVE  /\ Contract(batch) /\ Trusted /\ used = batch.exact /\ Fits(segments[k])
         /\ k \in 1..Len(segments) /\ Len(segments) \in Nat
         /\ segments[k].last = IF k + 1 <= Len(segments) THEN segments[k + 1].first ELSE batch.n
         /\ Through(segments[k].first, out)
<1>1. pc = "attend" /\ Route = "mixed" /\ k <= Len(segments)
  BY DEF AttendSegment
<1>2. Contract(batch) /\ planned /\ PlanInv /\ used = batch.exact /\ k \in 1..Len(segments) /\ Len(segments) \in Nat
  <2>1. Len(segments) \in Nat /\ k \in 1..(Len(segments) + 1) /\ used = batch.exact
    BY <1>1 DEF IInv, AttendInv, PlanInv, Chained
  <2> QED
    BY <1>1, <2>1, RouteChecks DEF IInv, TypeOK
<1>3. /\ Trusted /\ Fits(segments[k])
      /\ segments[k].last = IF k + 1 <= Len(segments) THEN segments[k + 1].first ELSE batch.n
  BY <1>2, WholePlan
<1>4. Through(Front, out)
  BY <1>1 DEF IInv, AttendInv
<1> QED
  BY <1>1, <1>2, <1>3, <1>4 DEF Front

LEMMA SegmentKeeps ==
  ASSUME IInv, AttendSegment
  PROVE  AttendInv'
<1> DEFINE s == segments[k]
<1>1. /\ Route = "mixed" /\ pc' = "attend" /\ k' = k + 1
      /\ out' = Computed(SegmentCall(s), out)
      /\ UNCHANGED <<batch, used, planned, segments, layer>>
  BY DEF AttendSegment, Do, plan
<1>2. /\ Contract(batch) /\ Trusted /\ used = batch.exact /\ Fits(s)
      /\ k \in 1..Len(segments) /\ Len(segments) \in Nat
      /\ s.last = IF k + 1 <= Len(segments) THEN segments[k + 1].first ELSE batch.n
      /\ Through(s.first, out)
  BY SegmentMeets
<1>3. Front' = s.last
  BY <1>1, <1>2 DEF Front
<1> HIDE DEF s
<1>4. Through(s.last, Computed(SegmentCall(s), out))
  BY <1>2, SegmentRight
<1>5. Through(Front, out)'
  BY <1>1, <1>3, <1>4, SameRight DEF Through, Good
<1>6. k' \in 1..(Len(segments') + 1)
  BY <1>1, <1>2
<1>7. Route' = "mixed"
  BY <1>1, SameRoute
<1> QED
  BY <1>1, <1>2, <1>5, <1>6, <1>7 DEF AttendInv

LEMMA AttendedKeeps ==
  ASSUME IInv, Attended
  PROVE  AttendInv'
<1>1. /\ pc = "attend" /\ Route = "mixed" /\ ~(k <= Len(segments)) /\ pc' = "done"
      /\ UNCHANGED <<batch, used, planned, segments, layer, tape, out>>
  <2>1. k \in Nat /\ Len(segments) \in Nat
    BY DEF IInv, TypeOK, PlanInv, Chained
  <2> QED
    BY <2>1 DEF Attended, plan
<1>2. Front = batch.n /\ used = batch.exact /\ ~ batch.capturing
  BY <1>1, RouteChecks DEF Front, IInv, AttendInv
<1>3. \A r \in Rows(batch) : Good(r, out)
  <2>1. \A r \in Rows(batch) : r < Front
    BY <1>2 DEF Rows, IInv, TypeOK, Contract
  <2> QED
    BY <1>1, <2>1 DEF IInv, AttendInv, Through
<1>4. \A r \in Rows(batch') : Good(r, out)'
  BY <1>1, <1>3, SameRight DEF Good
<1> QED
  BY <1>1, <1>2, <1>4 DEF AttendInv

LEMMA RefillKeeps ==
  ASSUME IInv, Refill
  PROVE  AttendInv'
<1>1. /\ batch.capturing /\ pc \in {"done", "replayed"} /\ pc' = "replay" /\ k' = 1 /\ out' = Blank
      /\ UNCHANGED <<batch, planned, segments, layer, tape>>
  BY DEF Refill, plan
<1>2. tape = <<WholeCall(Route)>>
  BY <1>1 DEF IInv, AttendInv
<1>3. tape' = <<WholeCall(Route)'>> /\ out' = Blank'
  BY <1>1, <1>2, SameRoute
<1> QED
  BY <1>1, <1>3 DEF AttendInv

\* The calls of a replay are those of the capture, with other lengths.
LEMMA ReplayFacts ==
  ASSUME IInv, Replay
  PROVE  /\ k = 1 /\ out = Blank /\ Route # "mixed" /\ out' = Computed(WholeCall(Route), out)
         /\ batch.capturing /\ tape = <<WholeCall(Route)>>
<1>1. pc = "replay" /\ k <= Len(tape) /\ out' = Computed(tape[k], out)
  BY DEF Replay
<1>2. batch.capturing /\ tape = <<WholeCall(Route)>> /\ ((k = 1 /\ out = Blank) \/ k = 2)
  BY <1>1 DEF IInv, AttendInv
<1>3. Len(tape) = 1 /\ tape[1] = WholeCall(Route)
  BY <1>2
<1>4. k = 1 /\ out = Blank
  BY <1>1, <1>2, <1>3
<1> QED
  BY <1>1, <1>2, <1>3, <1>4, RouteChecks

LEMMA ReplayKeeps ==
  ASSUME IInv, Replay
  PROVE  AttendInv'
<1>1. /\ pc = "replay" /\ pc' = "replay" /\ k' = k + 1
      /\ UNCHANGED <<batch, used, planned, segments, layer, tape>>
  BY DEF Replay, plan
<1>2. k' = 2
  BY <1>1, ReplayFacts
<1>3. \A r \in Rows(batch) : Good(r, Computed(WholeCall(Route), out))
  BY ReplayFacts, WholeRight DEF IInv, TypeOK
<1>4. \A r \in Rows(batch') : Good(r, out)'
  BY <1>1, <1>3, ReplayFacts, SameRight DEF Good
<1>5. tape' = <<WholeCall(Route)'>>
  BY <1>1, ReplayFacts, SameRoute
<1>6. batch'.capturing
  BY <1>1, ReplayFacts
<1> QED
  BY <1>1, <1>2, <1>4, <1>5, <1>6 DEF AttendInv

LEMMA ReplayedKeeps ==
  ASSUME IInv, Replayed
  PROVE  AttendInv'
<1>1. /\ pc = "replay" /\ k > Len(tape) /\ pc' = "replayed"
      /\ UNCHANGED <<batch, used, planned, segments, layer, k, tape, out>>
  BY DEF Replayed, plan
<1>2. batch.capturing /\ tape = <<WholeCall(Route)>>
  BY <1>1 DEF IInv, AttendInv
<1>3. Len(tape) = 1
  BY <1>2
<1>4. k = 2
  BY <1>1, <1>3 DEF IInv, AttendInv
<1>5. \A r \in Rows(batch) : Good(r, out)
  BY <1>1, <1>4 DEF IInv, AttendInv
<1>6. \A r \in Rows(batch') : Good(r, out)'
  BY <1>1, <1>5, SameRight DEF Good
<1>7. tape' = <<WholeCall(Route)'>>
  BY <1>1, <1>2, SameRoute
<1> QED
  BY <1>1, <1>2, <1>6, <1>7 DEF AttendInv

LEMMA StutterKeeps ==
  ASSUME IInv, UNCHANGED vars
  PROVE  AttendInv'
<1>1. UNCHANGED <<batch, used, pc, planned, segments, layer, k, tape, out>>
  BY DEF vars
<1>2. Route' = Route /\ WholeCall(Route)' = WholeCall(Route) /\ Blank' = Blank
  BY <1>1, SameRoute
<1>3. Front' = Front
  BY <1>1 DEF Front
<1>4. \A r : Good(r, out)' <=> Good(r, out)
  BY <1>1, SameRight DEF Good
<1>5. Rows(batch)' = Rows(batch) /\ AttendInv
  BY <1>1 DEF Rows, IInv
<1>6. Through(Front, out)' <=> Through(Front, out)
  BY <1>1, <1>3, <1>4, <1>5 DEF Through
<1> QED
  BY <1>1, <1>2, <1>3, <1>4, <1>5, <1>6 DEF AttendInv

LEMMA AttendKept ==
  ASSUME IInv, [Next]_vars
  PROVE  AttendInv'
<1>1. CASE Prepare \/ Extend \/ Cut \/ Planned
  BY <1>1, MakingKeeps
<1>2. CASE Enter
  BY <1>2, EnterKeeps
<1>3. CASE AttendWhole
  BY <1>3, WholeKeeps
<1>4. CASE AttendSegment
  BY <1>4, SegmentKeeps
<1>5. CASE Attended
  BY <1>5, AttendedKeeps
<1>6. CASE Refill
  BY <1>6, RefillKeeps
<1>7. CASE Replay
  BY <1>7, ReplayKeeps
<1>8. CASE Replayed
  BY <1>8, ReplayedKeeps
<1>9. CASE UNCHANGED vars
  BY <1>9, StutterKeeps
<1> QED
  BY <1>1, <1>2, <1>3, <1>4, <1>5, <1>6, <1>7, <1>8, <1>9 DEF Next

LEMMA InitInv == Init => IInv
<1> SUFFICES ASSUME Init PROVE IInv
  OBVIOUS
<1>1. Contract(batch) /\ batch.n \in Nat \ {0} /\ batch.exact \in Lengths(batch)
  <2>1. Contract(batch)
    BY BatchesAssumption DEF Init
  <2> QED
    BY <2>1 DEF Contract
<1>2. segments = <<>> /\ Len(segments) = 0 /\ i = 0 /\ j = 1 /\ ~ planned /\ pc = "build" /\ k = 1 /\ used = batch.exact
  BY DEF Init
<1>3. TypeOK
  <2>1. 0 \in 0..batch.n /\ 1 \in 1..(batch.n + 1) /\ 1 \in Nat \ {0}
    BY <1>1
  <2>2. DOMAIN out = 0..(batch.tokens - 1) /\ layer \in Layers /\ planned \in BOOLEAN
    BY DEF Init, Blank
  <2>3. 1..Len(segments) = {}
    BY <1>2
  <2> QED
    BY <1>1, <1>2, <2>1, <2>2, <2>3 DEF TypeOK
<1>4. PlanInv
  <2>1. segments \in Seq({})
    BY <1>2
  <2>2. 0 \in 0..batch.n /\ 1 \in 1..(batch.n + 1)
    BY <1>1
  <2> QED
    BY <1>2, <2>1, <2>2 DEF PlanInv, Chained
<1>5. AttendInv
  BY <1>2 DEF AttendInv
<1> QED
  BY <1>3, <1>4, <1>5 DEF IInv

\* The invariant is inductive.
LEMMA Invariant == Spec => []IInv
<1>1. Init => IInv
  BY InitInv
<1>2. IInv /\ [Next]_vars => IInv'
  <2> SUFFICES ASSUME IInv, [Next]_vars PROVE IInv'
    OBVIOUS
  <2>1. PlanInv'
    BY PlanKept DEF IInv, TypeOK
  <2>2. TypeOK'
    BY <2>1, TypeKept DEF IInv
  <2>3. AttendInv'
    BY AttendKept
  <2> QED
    BY <2>1, <2>2, <2>3 DEF IInv
<1> QED
  BY <1>1, <1>2, PTL DEF Spec

-----------------------------------------------------------------------------
(* What is guaranteed.                                                      *)
\* The loops of host_segments() stay within the batch, the segments within its
\* requests, and the output is that of the batch's positions.
THEOREM TypeCorrect == Spec => []TypeOK
<1>1. IInv => TypeOK
  BY DEF IInv
<1> QED
  BY <1>1, Invariant, PTL

\* A layer that is through, or a replay of it, has attended at every position to
\* the keys of that position's own request, up to its own: for every batch within
\* the contract, every threshold and every kernel that is there.
THEOREM RowsAreExact == Spec => []RowsExact
<1>1. IInv => RowsExact
  <2> SUFFICES ASSUME IInv, pc \in {"done", "replayed"}, NEW r \in Rows(batch), NEW t \in Positions(batch, r)
               PROVE  out[t] = Right(r, t)
    BY DEF RowsExact
  <2> QED
    BY DEF IInv, AttendInv, Good
<1> QED
  BY <1>1, Invariant, PTL

\* Within a layer and within a replay, no kernel writes over another's result.
THEOREM NothingOverwritten == Spec => WrittenOnce
<1> DEFINE Kept == \A t \in DOMAIN out : out[t] # Nothing => out'[t] = out[t]
<1>1. IInv /\ [Next]_vars => [Enter \/ Refill \/ Kept]_vars
  <2> SUFFICES ASSUME IInv, Next PROVE Enter \/ Refill \/ Kept
    BY Zenon
  <2>1. CASE Prepare \/ Extend \/ Cut \/ Planned \/ Attended \/ Replayed
    BY <2>1 DEF Prepare, Extend, Cut, Planned, Attended, Replayed
  <2>2. CASE AttendWhole
    <3>1. out = Blank
      BY <2>2 DEF AttendWhole, IInv, AttendInv
    <3> QED
      BY <3>1 DEF Blank
  <2>3. CASE Replay
    <3>1. out = Blank
      BY <2>3, ReplayFacts
    <3> QED
      BY <3>1 DEF Blank
  <2>4. CASE AttendSegment
    <3>1. /\ Fits(segments[k]) /\ Trusted /\ Contract(batch) /\ used = batch.exact
          /\ Through(segments[k].first, out)
      BY <2>4, SegmentMeets
    <3>2. out' = Computed(SegmentCall(segments[k]), out)
      BY <2>4 DEF AttendSegment, Do
    <3>3. \A t \in DOMAIN out : out[t] # Nothing => Computed(SegmentCall(segments[k]), out)[t] = out[t]
      BY <3>1, SegmentRight
    <3> QED
      BY <3>2, <3>3
  <2> QED
    BY <2>1, <2>2, <2>3, <2>4 DEF Next
<1> QED
  BY <1>1, Invariant, PTL DEF Spec, WrittenOnce

\* The plan cuts a run off only at a long prefill.
THEOREM RunsStayLongest == Spec => []RunsAreLongest
<1>1. IInv => RunsAreLongest
  <2> SUFFICES ASSUME IInv, planned, NEW n \in 1..Len(segments)
               PROVE  /\ ~ segments[n].prefill =>
                           /\ \A r \in segments[n].first..(segments[n].last - 1) : ~ Long(r)
                           /\ segments[n].first = 0 \/ Long(segments[n].first - 1)
                           /\ segments[n].last = batch.n \/ Long(segments[n].last)
                      /\ segments[n].prefill => segments[n].last = segments[n].first + 1
    BY DEF RunsAreLongest
  <2>1. Fits(segments[n])
    BY DEF IInv, PlanInv, Chained
  <2> QED
    BY <2>1 DEF Fits
<1> QED
  BY <1>1, Invariant, PTL
=============================================================================
