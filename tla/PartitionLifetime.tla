-------------------------- MODULE PartitionLifetime --------------------------
(***************************************************************************)
(* What the compiled-partition cache promises, and nothing of how: at most  *)
(* Capacity partitions are alive, a kernel is only ever submitted on a     *)
(* live one, and a partition is destroyed only when no kernel submitted on *)
(* it is still on the device.  PartitionCache implements this              *)
(* specification; a partition is named by the tick of its insertion.       *)
(***************************************************************************)
EXTENDS Naturals, FiniteSets

CONSTANT Capacity

VARIABLES live,      \* the partitions that exist
          running    \* <<kernel, partition>> of the kernels not completed

absVars == <<live, running>>

InUse(p) == \E r \in running : r[2] = p

LInit == live = {} /\ running = {}

\* A new partition appears, within the capacity.
Build ==
    /\ Cardinality(live) < Capacity
    /\ \E p \in live' \ live : live' = live \cup {p}
    /\ UNCHANGED running

\* A kernel is submitted on a live partition, under a fresh name.
Submit ==
    /\ \E r \in running' \ running :
         /\ r[2] \in live
         /\ \A q \in running : q[1] # r[1]
         /\ running' = running \cup {r}
    /\ UNCHANGED live

Retire ==
    /\ \E r \in running : running' = running \ {r}
    /\ UNCHANGED live

\* A partition goes, and no kernel of it is running.
Destroy ==
    /\ \E p \in live : ~ InUse(p) /\ live' = live \ {p}
    /\ UNCHANGED running

LNext == Build \/ Submit \/ Retire \/ Destroy

LSpec == LInit /\ [][LNext]_absVars
=============================================================================
