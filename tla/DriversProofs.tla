-------------------------- MODULE DriversProofs --------------------------
(* The types of Drivers and the promise of run.lock, for any drivers: any   *)
(* programs, any processes beside each other, any faults.                   *)
EXTENDS Drivers, TLAPS

Locks == {"wait_lock", "try_lock"}
\* A step nothing leads past but out of the program, before all of the later.
Gateway(j, gate, later) ==
  CHOOSE n \in Steps(j, gate) : Steps(j, later) \cap 1..n = {} /\ Passes(j, n)
\* The lock step of an orderly driver.
Gate(j) == Gateway(j, Locks, Creates)

\* It is there if all of the later steps lie behind one.
LEMMA GatewayFacts ==
  ASSUME NEW j \in Jobs, NEW gate, NEW later, Before(j, gate, later)
  PROVE  /\ Gateway(j, gate, later) \in 1..Len(Programs[j])
         /\ Programs[j][Gateway(j, gate, later)].op \in gate
         /\ Steps(j, later) \cap 1..Gateway(j, gate, later) = {}
         /\ Passes(j, Gateway(j, gate, later))
<1> DEFINE n == Gateway(j, gate, later)
<1>1. \E m \in Steps(j, gate) : Steps(j, later) \cap 1..m = {} /\ Passes(j, m)
  BY DEF Before
<1>2. n \in Steps(j, gate) /\ (Steps(j, later) \cap 1..n = {} /\ Passes(j, n))
  BY <1>1, Zenon DEF Gateway
<1>3. n \in 1..Len(Programs[j]) /\ Programs[j][n].op \in gate
  BY <1>2, Zenon DEF Steps
<1> QED
  BY <1>2, <1>3

LEMMA PostingIsSteps ==
  ASSUME NEW j \in Jobs
  PROVE  Posting[j] = Steps(j, {"post"})
BY DEF Posting

\* Where a step of p may lead it.
Leads(p, m) ==
  \/ m = 0
  \/ m \in Posting[job[p]] /\ m > at[p]
  \/ /\ At(p)
     /\ \/ m = at[p] + 1 /\ (Here(p).op \in Locks => lock' = p)
        \/ m = at[p] + Arg(p) /\ Here(p).op = "either"
        \/ m = Handler(p)
  \/ at[p] = Last(p) + 1 /\ m = 0

\* What a step of p does to its place, to the lock and to the card.
Steady(p) ==
  /\ job' = job
  /\ \E m \in Nat : at' = [at EXCEPT ![p] = m] /\ Leads(p, m)
  /\ \/ lock' = lock
     \/ lock = NoProc /\ lock' = p /\ At(p) /\ Here(p).op \in Locks
     \/ lock = p /\ lock' = NoProc /\ (at'[p] = 0 \/ Now(p, "post") \/ at'[p] \in Posting[job[p]])
  /\ \A b \in boxes' \cup coming' :
       b \in boxes \cup coming \/ (b[1] = p /\ At(p) /\ Here(p).op \in Creates)

-----------------------------------------------------------------------------
(* Types.                                                                   *)

\* Every process runs one of the programs, at a place in it or at none.
LEMMA JobTyped ==
  ASSUME TypeOK, NEW p \in Procs
  PROVE  job[p] \in Jobs /\ at[p] \in Nat
<1>1. job \in Starts /\ at \in [Procs -> Nat]
  BY DEF TypeOK
<1>2. job \in [Procs -> Jobs]
  BY <1>1, StartsAssumption
<1> QED
  BY <1>1, <1>2

\* The offsets of a program lead forward, and no further than its end or beyond.
LEMMA HandlerAhead ==
  ASSUME TypeOK, NEW p \in Procs, At(p)
  PROVE  /\ Handler(p) \in Nat /\ Handler(p) > at[p]
         /\ at[p] \in Nat /\ at[p] > 0 /\ at[p] <= Last(p) /\ Last(p) \in Nat
         /\ Here(p).h \in Nat
         /\ Here(p).op = "either" => Arg(p) \in Nat \ {0}
         /\ Here(p).op = "note" => Arg(p) \subseteq Statuses
<1>1. job[p] \in Jobs
  BY JobTyped
<1>2. Last(p) \in Nat /\ at[p] \in 1..Last(p)
  BY <1>1, ProgramsAssumption DEF At, Last
<1>3. /\ Here(p).h \in Nat
      /\ Here(p).op = "either" => Arg(p) \in Nat \ {0}
      /\ Here(p).op = "note" => Arg(p) \subseteq Statuses
  BY <1>1, <1>2, ProgramsAssumption DEF Here, Arg, Last
<1>4. \A n, k, h \in Nat : n \in 1..k =>
        /\ IF h = 0 THEN k + 1 > n /\ k + 1 \in Nat ELSE n + h > n /\ n + h \in Nat
        /\ n > 0 /\ n <= k
  OBVIOUS
<1>5. at[p] \in Nat
  BY <1>2
<1> QED
  BY <1>2, <1>3, <1>4, <1>5 DEF Handler

\* The place and the exception of p after a step.
Moved(p) == /\ \E m \in Nat : at' = [at EXCEPT ![p] = m] /\ Leads(p, m)
            /\ at' \in [Procs -> Nat]
            /\ raised' \in [Procs -> {"", Error, Signal}]

\* Going on to the next step; past a lock step, with the lock.
LEMMA OnwardMoves ==
  ASSUME TypeOK, NEW p \in Procs, At(p), Onward(p), Here(p).op \in Locks => lock' = p
  PROVE  Moved(p)
<1>1. at[p] \in Nat
  BY HandlerAhead
<1>2. at[p] + 1 \in Nat /\ Leads(p, at[p] + 1)
  BY <1>1 DEF Leads
<1> QED
  BY <1>2 DEF Onward, To, Moved, TypeOK

\* Raising, wherever the handler is.
LEMMA ThrowMoves ==
  ASSUME TypeOK, NEW p \in Procs, At(p), NEW kind \in {"", Error, Signal}, Throw(p, kind)
  PROVE  Moved(p)
<1>1. Handler(p) \in Nat /\ Leads(p, Handler(p))
  BY HandlerAhead DEF Leads
<1> QED
  BY <1>1 DEF Throw, To, Moved, TypeOK

\* Going on if the check holds, raising if it does not.
LEMMA DemandMoves ==
  ASSUME TypeOK, NEW p \in Procs, At(p), Here(p).op \in Locks => lock' = p,
         Onward(p) \/ Throw(p, Error)
  PROVE  Moved(p)
BY OnwardMoves, ThrowMoves

-----------------------------------------------------------------------------
(* What an operation does to the memory of its process, to the records, the *)
(* service and the card, whether its step succeeds or is struck.            *)
Fits(p) == /\ image' \in [Procs -> {NoImage} \cup Images]
           /\ noted' \in [Procs -> Statuses]
           /\ ran' \in [Procs -> SUBSET Images]
           /\ service' \in {"off", "starting", "up"}
           /\ worker' \in [Procs -> Acquaintance]
           /\ file' \in [{job[q] : q \in Procs} -> Records]
           /\ \A b \in boxes' \cup coming' :
                b \in boxes \cup coming \/ (b[1] = p /\ At(p) /\ Here(p).op \in Creates)

\* The lock is taken when it is free, and let go by a driver that is done.
LockMoves(p) ==
  \/ lock' = lock
  \/ lock = NoProc /\ lock' = p /\ At(p) /\ Here(p).op \in Locks
  \/ lock = p /\ lock' = NoProc /\ (at'[p] = 0 \/ Now(p, "post") \/ at'[p] \in Posting[job[p]])

\* An operation that fits, in a step that moves its process.
LEMMA StepKeeps ==
  ASSUME TypeOK, NEW p \in Procs, Moved(p), Fits(p), LockMoves(p),
         UNCHANGED <<job, tag>>, faults' \in 0..MaxFaults[job]
  PROVE  TypeOK' /\ Steady(p)
<1>1. file' \in [{job'[q] : q \in Procs} -> Records]
  BY DEF Fits
<1>2. \A b \in (boxes \cup coming)' : b[1] \in Procs
  BY DEF Fits, TypeOK
<1>3. lock' \in Procs \cup {NoProc}
  BY DEF LockMoves, TypeOK
<1>4. TypeOK'
  BY <1>1, <1>2, <1>3 DEF Fits, Moved, TypeOK
<1>5. Steady(p)
  BY DEF Fits, LockMoves, Moved, Steady
<1> QED
  BY <1>4, <1>5

\* Nothing but the places changes.
LEMMA IdleFits ==
  ASSUME TypeOK, NEW p \in Procs, UNCHANGED <<memory, serving, boxes, coming, file>>
  PROVE  Fits(p)
BY DEF Fits, TypeOK, memory, serving

\* A status in the driver's record.
LEMMA RecordFits ==
  ASSUME TypeOK, NEW p \in Procs, NEW s \in Statuses, Record(p, s),
         UNCHANGED <<image, ran, serving, boxes, coming>>, noted' \in [Procs -> Statuses]
  PROVE  Fits(p)
<1>1. [status |-> s, image |-> image[p]] \in Records
  BY DEF Records, TypeOK
<1>2. file' \in [{job[q] : q \in Procs} -> Records]
  BY <1>1 DEF Record, TypeOK
<1> QED
  BY <1>2 DEF Fits, TypeOK, serving

\* The service put into one of its states.
LEMMA ServingFits ==
  ASSUME TypeOK, NEW p \in Procs, NEW s \in {"off", "starting", "up"},
         Serving(p, s, worker) \/ Serving(p, s, Replaced)
  PROVE  Fits(p)
<1>1. Replaced \in [Procs -> Acquaintance] /\ worker \in [Procs -> Acquaintance]
  BY DEF Replaced, Acquaintance, TypeOK
<1> QED
  BY <1>1 DEF Serving, Fits, TypeOK, memory

\* The image a driver runs is one of those that were built.
LEMMA RunsTyped ==
  ASSUME TypeOK, NEW p \in Procs, Runs(p)
  PROVE  ran' \in [Procs -> SUBSET Images]
<1>1. (IF image[p] = NoImage THEN tag ELSE image[p]) \in Images
  BY DEF TypeOK
<1> QED
  BY <1>1 DEF Runs, TypeOK

\* Containers of p, started or asked for in a step that creates.
LEMMA CreatingFits ==
  ASSUME TypeOK, NEW p \in Procs, At(p), Here(p).op \in Creates, Creating(p) \/ Asking(p)
  PROVE  Fits(p)
<1>0. <<p, Arg(p)>>[1] = p
  OBVIOUS
<1>1. CASE Creating(p) /\ Taken(Arg(p))
  BY <1>1, IdleFits DEF Creating, world
<1>2. CASE Creating(p) /\ ~ Taken(Arg(p))
  <2>1. Runs(p) /\ Boxing(boxes \cup {<<p, Arg(p)>>}, coming)
    BY <1>2 DEF Creating
  <2> QED
    BY <1>0, <2>1, RunsTyped DEF Boxing, Fits, TypeOK, serving
<1>3. CASE Asking(p)
  <2>1. Runs(p) /\ Boxing(boxes, coming \cup {<<p, Arg(p)>>})
    BY <1>3 DEF Asking
  <2> QED
    BY <1>0, <2>1, RunsTyped DEF Boxing, Fits, TypeOK, serving
<1> QED
  BY <1>1, <1>2, <1>3

\* Containers taken off the card.
LEMMA RemovingFits ==
  ASSUME TypeOK, NEW p \in Procs, Removing(p) \/ Leaving(p)
  PROVE  Fits(p)
BY DEF Removing, Leaving, Boxing, Fits, TypeOK, serving

-----------------------------------------------------------------------------
(* Each action keeps the types and is steady.                               *)

\* Steps that look at the machine, the records and the service.
LEMMA LooksKeep ==
  ASSUME TypeOK, NEW p \in Procs, UNCHANGED <<job, hurt, faults, tag>>,
         Check(p) \/ AwaitService(p) \/ PollsService(p) \/ SeesOutcome(p) \/ Readies(p)
  PROVE  TypeOK' /\ Steady(p)
<1>1. At(p) /\ Here(p).op \notin Locks
  BY DEF Check, Looks, AwaitService, PollsService, SeesOutcome, Readies, Now, Locks
<1>2. Onward(p) \/ Throw(p, Error)
  BY DEF Check, AwaitService, PollsService, SeesOutcome, Readies, Demand
<1>3. UNCHANGED <<memory, world>>
  BY DEF Check, AwaitService, PollsService, SeesOutcome, Readies
<1>4. Fits(p) /\ LockMoves(p)
  BY <1>3, IdleFits DEF world, LockMoves
<1> QED
  BY <1>1, <1>2, <1>4, DemandMoves, StepKeeps DEF TypeOK

\* Steps of the driver's own memory.
LEMMA MemoryKeeps ==
  ASSUME TypeOK, NEW p \in Procs, UNCHANGED <<job, hurt, faults, tag>>,
         Inspects(p) \/ Notes(p)
  PROVE  TypeOK' /\ Steady(p)
<1>1. At(p) /\ Here(p).op \notin Locks /\ Onward(p) /\ UNCHANGED <<ran, world>>
  BY DEF Inspects, Notes, Now, Locks
<1>2. CASE Inspects(p)
  <2>1. Fits(p) /\ LockMoves(p)
    BY <1>1, <1>2 DEF Inspects, Fits, LockMoves, TypeOK, world, serving
  <2> QED
    BY <1>1, <2>1, DemandMoves, StepKeeps DEF TypeOK
<1>3. CASE Notes(p)
  <2>1. Arg(p) \subseteq Statuses
    BY <1>1, <1>3, HandlerAhead DEF Notes, Now
  <2>2. Fits(p) /\ LockMoves(p)
    BY <1>1, <1>3, <2>1 DEF Notes, Fits, LockMoves, TypeOK, world, serving
  <2> QED
    BY <1>1, <2>2, DemandMoves, StepKeeps DEF TypeOK
<1> QED
  BY <1>2, <1>3

\* Steps of the record.
LEMMA RecordsKeep ==
  ASSUME TypeOK, NEW p \in Procs, UNCHANGED <<job, hurt, faults, tag>>,
         Opens(p) \/ Reopens(p) \/ Announces(p) \/ Saves(p)
  PROVE  TypeOK' /\ Steady(p)
<1>1. At(p) /\ Here(p).op \notin Locks
  BY DEF Opens, Reopens, Announces, Saves, Now, Locks
<1>2. Onward(p) \/ Throw(p, Error)
  BY DEF Opens, Reopens, Announces, Saves, Demand
<1>3. LockMoves(p)
  BY DEF Opens, Reopens, Announces, Saves, Saving, LockMoves
<1>4. Running \in Statuses /\ noted[p] \in Statuses
  BY DEF Statuses, TypeOK
<1>5. Fits(p)
  <2>1. CASE Opens(p)
    <3>1. noted' \in [Procs -> Statuses]
      BY <1>4, <2>1 DEF Opens, TypeOK
    <3>2. CASE UNCHANGED file
      BY <2>1, <3>1, <3>2 DEF Opens, Fits, TypeOK, serving
    <3>3. CASE Record(p, Running)
      BY <1>4, <2>1, <3>1, <3>3, RecordFits DEF Opens
    <3> QED
      BY <2>1, <3>2, <3>3 DEF Opens
  <2>2. CASE Reopens(p)
    <3>1. file' \in [{job[q] : q \in Procs} -> Records]
      BY <1>4, <2>2 DEF Reopens, Records, TypeOK
    <3> QED
      BY <1>4, <2>2, <3>1 DEF Reopens, Fits, TypeOK, serving
  <2>3. CASE Announces(p)
    BY <1>4, <2>3, RecordFits DEF Announces, memory, TypeOK
  <2>4. CASE Saves(p)
    BY <1>4, <2>4, RecordFits DEF Saves, Saving, memory, TypeOK
  <2> QED
    BY <2>1, <2>2, <2>3, <2>4
<1> QED
  BY <1>1, <1>2, <1>3, <1>5, DemandMoves, StepKeeps DEF TypeOK

\* Steps of the lock.
LEMMA LocksKeep ==
  ASSUME TypeOK, NEW p \in Procs, UNCHANGED <<job, hurt, faults, tag>>,
         WaitsForLock(p) \/ TriesLock(p)
  PROVE  TypeOK' /\ Steady(p)
<1>1. At(p)
  BY DEF WaitsForLock, TriesLock, Now
<1>2. \/ lock = NoProc /\ Takes(p) /\ Onward(p)
      \/ lock # NoProc /\ UNCHANGED <<memory, world>> /\ Throw(p, Error)
  BY DEF WaitsForLock, TriesLock, Demand
<1>0. Here(p).op \in Locks
  BY DEF WaitsForLock, TriesLock, Now, Locks
<1>3. Fits(p) /\ LockMoves(p)
  BY <1>0, <1>1, <1>2, IdleFits DEF Takes, LockMoves, world
<1>4. Moved(p)
  BY <1>1, <1>2, OnwardMoves, ThrowMoves DEF Takes
<1> QED
  BY <1>3, <1>4, StepKeeps DEF TypeOK

\* Steps of the production service.
LEMMA ServiceKeeps ==
  ASSUME TypeOK, NEW p \in Procs, UNCHANGED <<job, hurt, faults, tag>>,
         Stops(p) \/ StartsService(p) \/ RestartsService(p)
  PROVE  TypeOK' /\ Steady(p)
<1>1. At(p) /\ Here(p).op \notin Locks /\ Onward(p)
  BY DEF Stops, StartsService, RestartsService, Now, Locks
<1>2. Fits(p) /\ LockMoves(p)
  <2>1. Stopping(p) \/ Starting(p) \/ Restarting(p)
    BY DEF Stops, StartsService, RestartsService
  <2>2. (IF service = "off" THEN "starting" ELSE service) \in {"off", "starting", "up"}
    BY DEF TypeOK
  <2> QED
    BY <2>1, <2>2, ServingFits DEF Stopping, Starting, Restarting, Serving, LockMoves
<1> QED
  BY <1>1, <1>2, DemandMoves, StepKeeps DEF TypeOK

\* Steps of a client: it identifies its worker, or is answered by one.
LEMMA ClientsKeep ==
  ASSUME TypeOK, NEW p \in Procs, UNCHANGED <<job, hurt, faults, tag>>,
         Identifies(p) \/ Asks(p)
  PROVE  TypeOK' /\ Steady(p)
<1>1. At(p) /\ Here(p).op \notin Locks
  BY DEF Identifies, Asks, Now, Locks
<1>2. Onward(p) \/ Throw(p, Error)
  BY DEF Identifies, Asks, Demand
<1>3. worker' \in [Procs -> Acquaintance]
  BY DEF Identifies, Asks, Acquaintance, TypeOK
<1>4. UNCHANGED <<memory, lock, service, boxes, coming, file>>
  BY DEF Identifies, Asks
<1>5. Fits(p) /\ LockMoves(p)
  BY <1>3, <1>4 DEF Fits, LockMoves, TypeOK, memory
<1> QED
  BY <1>1, <1>2, <1>5, DemandMoves, StepKeeps DEF TypeOK

\* Steps of containers.
LEMMA BoxesKeep ==
  ASSUME TypeOK, NEW p \in Procs, UNCHANGED <<job, hurt, faults, tag>>,
         Ups(p) \/ Exits(p) \/ Spawns(p) \/ Downs(p)
  PROVE  TypeOK' /\ Steady(p)
<1>1. At(p) /\ Here(p).op \notin Locks
  BY DEF Ups, Exits, Spawns, Downs, Now, Locks
<1>2. Onward(p) \/ Throw(p, Error)
  BY DEF Ups, Exits, Spawns, Downs, Demand
<1>3. Fits(p)
  <2>1. CASE Ups(p) \/ Spawns(p)
    BY <1>1, <2>1, CreatingFits DEF Ups, Spawns, Now, Creates
  <2>2. CASE Exits(p) \/ Downs(p)
    BY <2>2, RemovingFits DEF Exits, Downs
  <2> QED
    BY <2>1, <2>2
<1>4. LockMoves(p)
  BY DEF Ups, Exits, Spawns, Downs, Creating, Asking, Leaving, Removing, Boxing, world, LockMoves
<1> QED
  BY <1>1, <1>2, <1>3, <1>4, DemandMoves, StepKeeps DEF TypeOK

\* Steps that let an exception pass, note it or swallow it, and choices.
LEMMA ClausesKeep ==
  ASSUME TypeOK, NEW p \in Procs, UNCHANGED <<job, hurt, faults, tag>>,
         Excepts(p) \/ Swallows(p) \/ Reraises(p) \/ Chooses(p)
  PROVE  TypeOK' /\ Steady(p)
<1>1. At(p) /\ Here(p).op \notin Locks
  BY DEF Excepts, Swallows, Reraises, Chooses, Now, Locks
<1>2. at[p] \in Nat /\ (Here(p).op = "either" => Arg(p) \in Nat \ {0})
  BY <1>1, HandlerAhead
<1>3. LockMoves(p)
  BY DEF Excepts, Swallows, Reraises, Chooses, world, LockMoves
<1>4. CASE Excepts(p)
  <2>1. Failed \in Statuses
    BY DEF Statuses
  <2>2. /\ Onward(p) /\ UNCHANGED <<image, ran, lock, serving, boxes, coming>>
        /\ noted' = noted \/ noted' = [noted EXCEPT ![p] = Failed]
        /\ file' = file \/ Record(p, Failed)
    BY <1>4 DEF Excepts, Caught
  <2>3. noted' \in [Procs -> Statuses]
    BY <2>1, <2>2 DEF TypeOK
  <2>6. Fits(p)
    <3>1. CASE file' = file
      BY <2>2, <2>3, <3>1 DEF Fits, TypeOK, serving
    <3>2. CASE Record(p, Failed)
      BY <2>1, <2>2, <2>3, <3>2, RecordFits
    <3> QED
      BY <2>2, <3>1, <3>2
  <2> QED
    BY <1>1, <1>3, <2>2, <2>6, DemandMoves, StepKeeps DEF TypeOK
<1>5. CASE Swallows(p)
  <2>1. Fits(p)
    BY <1>5, IdleFits DEF Swallows, world
  <2>2. at[p] + 1 \in Nat /\ Leads(p, at[p] + 1)
    BY <1>1, <1>2 DEF Leads
  <2>3. Moved(p)
    BY <1>5, <2>2 DEF Swallows, To, Moved, TypeOK
  <2> QED
    BY <1>3, <2>1, <2>3, StepKeeps DEF TypeOK
<1>6. CASE Reraises(p)
  <2>1. Fits(p)
    BY <1>6, IdleFits DEF Reraises, world
  <2>2. Moved(p)
    BY <1>1, <1>6, OnwardMoves, ThrowMoves DEF Reraises, TypeOK
  <2> QED
    BY <1>3, <2>1, <2>2, StepKeeps DEF TypeOK
<1>7. CASE Chooses(p)
  <2>1. Fits(p)
    BY <1>7, IdleFits DEF Chooses, world
  <2>2. /\ at[p] + 1 \in Nat /\ Leads(p, at[p] + 1)
        /\ at[p] + Arg(p) \in Nat /\ Leads(p, at[p] + Arg(p))
    BY <1>1, <1>2, <1>7 DEF Chooses, Now, Leads
  <2>3. Moved(p)
    BY <1>7, <2>2 DEF Chooses, To, Moved, TypeOK
  <2> QED
    BY <1>3, <2>1, <2>3, StepKeeps DEF TypeOK
<1> QED
  BY <1>4, <1>5, <1>6, <1>7

\* Steps with which a process leaves, or its unit goes on to ExecStopPost.
LEMMA LeavingKeeps ==
  ASSUME TypeOK, NEW p \in Procs, UNCHANGED <<job, tag>>, faults' \in 0..MaxFaults[job],
         Hooks(p) \/ Ends(p) \/ Killed(p)
  PROVE  TypeOK' /\ Steady(p)
<1>1. at[p] \in Nat /\ job[p] \in Jobs
  BY JobTyped
<1>2. Absent \in Statuses
  BY DEF Statuses
<1>3. Fits(p) /\ raised' \in [Procs -> {"", Error, Signal}]
  <2>1. Forgets(p) /\ UNCHANGED <<ran, service, boxes, coming, file>>
    BY DEF Hooks, Ends, Killed
  <2>2. worker' \in [Procs -> Acquaintance]
    BY <2>1 DEF Forgets, Acquaintance, TypeOK
  <2>3. /\ image' \in [Procs -> {NoImage} \cup Images]
        /\ noted' \in [Procs -> Statuses]
        /\ raised' \in [Procs -> {"", Error, Signal}]
    BY <1>2, <2>1 DEF Forgets, TypeOK
  <2> QED
    BY <2>1, <2>2, <2>3 DEF Fits, TypeOK
<1>4. Moved(p) /\ (Now(p, "post") \/ at'[p] = 0 \/ at'[p] \in Posting[job[p]])
  <2>1. CASE Hooks(p)
    <3>1. at[p] + 1 \in Nat /\ Leads(p, at[p] + 1)
      BY <1>1, <2>1 DEF Hooks, Now, Leads, Locks
    <3> QED
      BY <1>3, <2>1, <3>1 DEF Hooks, To, Moved, TypeOK
  <2>2. CASE Ends(p)
    BY <1>3, <2>2 DEF Ends, To, Leads, Moved, TypeOK
  <2>3. CASE Killed(p)
    <3> DEFINE ahead == {n \in Posting[job[p]] : n > at[p]}
               m == IF ahead = {} THEN 0 ELSE CHOOSE n \in ahead : TRUE
    <3>1. Posting[job[p]] \subseteq Nat
      BY <1>1, PostingIsSteps, ProgramsAssumption DEF Steps
    <3>0. \A n \in ahead : n \in Nat /\ n \in Posting[job[p]] /\ n > at[p]
      BY <3>1
    <3>4. at' = [at EXCEPT ![p] = m]
      BY <2>3 DEF Killed, To
    <3> HIDE DEF ahead
    <3>2. m \in Nat /\ (m = 0 \/ (m \in Posting[job[p]] /\ m > at[p]))
      <4>1. CASE ahead = {}
        BY <4>1
      <4>2. CASE ahead # {}
        <5>1. m \in ahead
          BY <4>2
        <5> QED
          BY <3>0, <5>1
      <4> QED
        BY <4>1, <4>2
    <3> HIDE DEF m
    <3> QED
      BY <1>3, <3>2, <3>4 DEF Leads, Moved, TypeOK
  <2> QED
    BY <2>1, <2>2, <2>3
<1>5. LockMoves(p)
  BY <1>4 DEF Hooks, Ends, Killed, Free, LockMoves
<1> QED
  BY <1>3, <1>4, <1>5, StepKeeps

\* An error or a signal, before or after the operation took effect.
LEMMA StrikesKeep ==
  ASSUME TypeOK, NEW p \in Procs, Frail, Falls(p)
  PROVE  TypeOK' /\ Steady(p)
<1>1. /\ At(p) /\ Halfway(p) /\ UNCHANGED <<job, tag>>
      /\ Throw(p, Error) \/ Throw(p, Signal)
      /\ faults < MaxFaults[job] /\ faults' = faults + 1
  BY DEF Falls, Raises, Interrupted, Strikes, Frail
<1>2. faults' \in 0..MaxFaults[job]
  <2>1. MaxFaults[job] \in Nat
    BY StartsAssumption DEF TypeOK
  <2> QED
    <3>1. \A k \in Nat : \A n \in 0..k : n < k => n + 1 \in 0..k
      OBVIOUS
    <3>2. faults \in 0..MaxFaults[job]
      BY DEF TypeOK
    <3> QED
      BY <1>1, <2>1, <3>1, <3>2
<1>3. Moved(p)
  BY <1>1, ThrowMoves
<1>4. Fits(p)
  <2>1. CASE UNCHANGED <<memory, world>>
    BY <2>1, IdleFits DEF world
  <2>2. CASE Record(p, Running) /\ UNCHANGED <<memory, lock, serving, boxes, coming>>
    <3>1. Running \in Statuses
      BY DEF Statuses
    <3> QED
      BY <2>2, <3>1, RecordFits DEF memory, TypeOK
  <2>3. CASE Saving(p)
    <3>1. noted[p] \in Statuses
      BY DEF TypeOK
    <3> QED
      BY <2>3, <3>1, RecordFits DEF Saving, memory, TypeOK
  <2>4. CASE Stopping(p) \/ Starting(p) \/ Restarting(p)
    <3>1. (IF service = "off" THEN "starting" ELSE service) \in {"off", "starting", "up"}
      BY DEF TypeOK
    <3> QED
      BY <2>4, <3>1, ServingFits DEF Stopping, Starting, Restarting
  <2>5. CASE (Now(p, "up") /\ Creating(p)) \/ (Now(p, "spawn") /\ Asking(p))
    BY <1>1, <2>5, CreatingFits DEF Now, Creates
  <2>6. CASE Leaving(p) \/ Removing(p)
    BY <2>6, RemovingFits
  <2>7. \/ UNCHANGED <<memory, world>>
        \/ Record(p, Running) /\ UNCHANGED <<memory, lock, serving, boxes, coming>>
        \/ Saving(p)
        \/ Stopping(p) \/ Starting(p) \/ Restarting(p)
        \/ (Now(p, "up") /\ Creating(p)) \/ (Now(p, "spawn") /\ Asking(p))
        \/ Leaving(p) \/ Removing(p)
    BY <1>1 DEF Halfway, Now
  <2> QED
    BY <2>1, <2>2, <2>3, <2>4, <2>5, <2>6, <2>7
<1>5. LockMoves(p)
  BY <1>1 DEF Halfway, Saving, Stopping, Starting, Restarting, Serving, Creating, Asking, Leaving, Removing,
              Boxing, world, LockMoves
<1> QED
  BY <1>1, <1>2, <1>3, <1>4, <1>5, StepKeeps

\* Steps of a process.
LEMMA ProcessKeeps ==
  ASSUME TypeOK, NEW p \in Procs, Moves(p) \/ (Frail /\ (Falls(p) \/ Killed(p)))
  PROVE  TypeOK' /\ Steady(p)
<1>1. CASE Moves(p)
  <2>1. UNCHANGED <<job, hurt, faults, tag>> /\ faults' \in 0..MaxFaults[job]
    BY <1>1 DEF Moves, TypeOK
  <2> QED
    BY <1>1, <2>1, LooksKeep, MemoryKeeps, RecordsKeep, LocksKeep, ServiceKeeps, ClientsKeep, BoxesKeep,
       ClausesKeep, LeavingKeeps
       DEF Moves, Waits, Writes, Commands, Contains, Turns
<1>2. CASE Frail /\ (Falls(p))
  BY <1>2, StrikesKeep
<1>3. CASE Frail /\ Killed(p)
  <2>1. faults < MaxFaults[job] /\ faults' = faults + 1 /\ UNCHANGED <<job, tag>>
    BY <1>3 DEF Killed, Strikes, Frail
  <2>2. \A k \in Nat : \A n \in 0..k : n < k => n + 1 \in 0..k
    OBVIOUS
  <2>3. MaxFaults[job] \in Nat /\ faults \in 0..MaxFaults[job]
    BY StartsAssumption DEF TypeOK
  <2>4. faults' \in 0..MaxFaults[job]
    BY <2>1, <2>2, <2>3
  <2> QED
    BY <1>3, <2>1, <2>4, LeavingKeeps
<1> QED
  BY <1>1, <1>2, <1>3

\* The daemon, systemd and whoever builds images.
Quiet == UNCHANGED <<job, at, lock>> /\ boxes' \cup coming' \subseteq boxes \cup coming

LEMMA WorldKeeps ==
  ASSUME TypeOK, Created \/ Healthy \/ (Frail /\ Crashes) \/ Rebuilt \/ UNCHANGED vars
  PROVE  TypeOK' /\ Quiet
<1>1. Quiet
  BY DEF Created, Healthy, Crashes, Rebuilt, vars, control, world, Quiet
<1>2. UNCHANGED <<job, at, raised, image, noted, ran, lock, file>>
  BY DEF Created, Healthy, Crashes, Rebuilt, vars, control, memory, world
<1>3. service' \in {"off", "starting", "up"} /\ tag' \in Images
  <2>1. \A b \in Nat : \A t \in 1..b : t < b => t + 1 \in 1..b
    OBVIOUS
  <2>2. tag' = tag \/ (tag < MaxBuilds /\ tag' = tag + 1)
    BY DEF Created, Healthy, Crashes, Rebuilt, vars
  <2>3. tag' \in Images
    BY <2>1, <2>2, BuildsAssumption DEF Images, TypeOK
  <2>4. service' = service \/ service' = "up" \/ service' = "starting"
    BY DEF Created, Healthy, Crashes, Rebuilt, vars, world, serving
  <2> QED
    BY <2>3, <2>4 DEF TypeOK
<1>4. faults' \in 0..MaxFaults[job']
  <2>1. faults' = faults \/ (faults < MaxFaults[job] /\ faults' = faults + 1)
    BY DEF Created, Healthy, Crashes, Rebuilt, vars, Frail
  <2>2. \A k \in Nat : \A n \in 0..k : n < k => n + 1 \in 0..k
    OBVIOUS
  <2>3. MaxFaults[job] \in Nat /\ faults \in 0..MaxFaults[job]
    BY StartsAssumption DEF TypeOK
  <2> QED
    BY <1>2, <2>1, <2>2, <2>3
<1>5. \A b \in (boxes \cup coming)' : b[1] \in Procs
  BY <1>1 DEF Quiet, TypeOK
<1>6. worker' \in [Procs -> Acquaintance]
  <2>1. worker' = worker \/ worker' = Replaced
    BY DEF Created, Healthy, Crashes, Rebuilt, vars, world, serving
  <2> QED
    BY <2>1 DEF Replaced, Acquaintance, TypeOK
<1>7. file' \in [{job'[q] : q \in Procs} -> Records]
  BY <1>2 DEF TypeOK
<1> QED
  BY <1>1, <1>2, <1>3, <1>4, <1>5, <1>6, <1>7 DEF TypeOK

-----------------------------------------------------------------------------
(* The types, for every set of drivers.                                     *)

\* The drivers begin with the right types.
LEMMA InitTyped == Init => TypeOK
<1> SUFFICES ASSUME Init PROVE TypeOK
  OBVIOUS
<1>1. 1 \in Images
  BY BuildsAssumption DEF Images
<1>2. MaxFaults[job] \in Nat
  BY StartsAssumption DEF Init
<1>3. NoRecord \in Records /\ Unfinished \subseteq Records
  BY <1>1 DEF NoRecord, Records, Unfinished, Statuses
<1>4. file \in [{job[q] : q \in Procs} -> Records]
  BY <1>3 DEF Init
<1>5. noted \in [Procs -> Statuses] /\ image \in [Procs -> {NoImage} \cup Images]
  BY DEF Init, Statuses
<1>6. at \in [Procs -> Nat] /\ raised \in [Procs -> {"", Error, Signal}]
      /\ ran \in [Procs -> SUBSET Images]
  BY DEF Init
<1>7. faults \in 0..MaxFaults[job]
  <2>1. \A k \in Nat : 0 \in 0..k
    OBVIOUS
  <2> QED
    BY <1>2, <2>1 DEF Init
<1>8. worker \in [Procs -> Acquaintance]
  BY DEF Init, Acquaintance
<1>9. /\ job \in Starts /\ lock \in Procs \cup {NoProc} /\ tag \in Images
      /\ service \in {"off", "starting", "up"} /\ \A b \in boxes \cup coming : b[1] \in Procs
  BY <1>1 DEF Init
<1> QED
  BY <1>4, <1>5, <1>6, <1>7, <1>8, <1>9 DEF TypeOK

\* Every step keeps the types; a step of a process is steady, any other quiet.
LEMMA NextKeeps ==
  ASSUME TypeOK, [Next]_vars
  PROVE  TypeOK' /\ (Quiet \/ \E p \in Procs : Steady(p))
BY ProcessKeeps, WorldKeeps DEF Next, Over

\* Types: places, exceptions, images, statuses and records stay within their
\* sets, whatever is raised, interrupted or killed.
THEOREM TypeCorrect == Spec => []TypeOK
<1>1. TypeOK /\ [Next]_vars => TypeOK'
  BY NextKeeps
<1> QED
  BY <1>1, InitTyped, PTL DEF Spec

-----------------------------------------------------------------------------
(* On the way.  Where a step of a process takes it.                         *)

\* Where a process goes that raises.
LEMMA ThrowGoes ==
  ASSUME TypeOK, NEW p \in Procs, NEW kind, Throw(p, kind)
  PROVE  at'[p] = Handler(p)
BY DEF Throw, To, TypeOK

\* A process that is driving after a step was driving before it, and went on.
LEMMA DrivesOn ==
  ASSUME TypeOK, NEW p \in Procs, Steady(p), Driving(p)'
  PROVE  Driving(p) /\ At(p) /\ at'[p] > at[p] /\ ~ Now(p, "post")
<1>1. PICK m \in Nat : at' = [at EXCEPT ![p] = m] /\ Leads(p, m)
  BY DEF Steady
<1>2. at'[p] = m /\ at[p] \in Nat /\ job' = job /\ job[p] \in Jobs
  <2>1. at \in [Procs -> Nat] /\ job \in [Procs -> Jobs] /\ job' = job
    BY StartsAssumption DEF TypeOK, Steady
  <2> QED
    BY <1>1, <2>1
<1>3. m # 0 /\ \A n \in Posting[job[p]] : m < n
  BY <1>2 DEF Driving
<1>4. ~ (m \in Posting[job[p]])
  BY <1>2, <1>3
<1>5. /\ At(p)
      /\ \/ m = at[p] + 1
         \/ m = at[p] + Arg(p) /\ Here(p).op = "either"
         \/ m = Handler(p)
  BY <1>1, <1>3, <1>4 DEF Leads
<1>6. m > at[p] /\ at[p] > 0
  BY <1>2, <1>5, HandlerAhead
<1>7. Posting[job[p]] \subseteq Nat
  BY <1>2, PostingIsSteps, ProgramsAssumption DEF Steps
<1>8. Driving(p)
  BY <1>2, <1>3, <1>6, <1>7 DEF Driving
<1>9. ~ Now(p, "post")
  <2>1. Now(p, "post") => at[p] \in Posting[job[p]]
    BY <1>2, PostingIsSteps DEF Now, At, Last, Here, Steps
  <2> QED
    BY <1>2, <1>8, <2>1 DEF Driving
<1> QED
  BY <1>2, <1>5, <1>6, <1>8, <1>9

\* Whoever leaves is not driving any more.
LEMMA LeavesDriving ==
  ASSUME TypeOK, NEW p \in Procs, Steady(p), Hooks(p) \/ Ends(p) \/ Killed(p)
  PROVE  ~ Driving(p)'
<1>1. CASE Hooks(p)
  BY <1>1, DrivesOn DEF Hooks
<1>2. CASE Ends(p)
  <2>1. at'[p] = 0
    BY <1>2 DEF Ends, To, TypeOK
  <2> QED
    BY <2>1 DEF Driving
<1>3. CASE Killed(p)
  <2>1. job' = job /\ job[p] \in Jobs
    BY JobTyped DEF Steady
  <2>2. Posting[job[p]] \subseteq Nat
    BY <2>1, PostingIsSteps, ProgramsAssumption DEF Steps
  <2> DEFINE ahead == {n \in Posting[job[p]] : n > at[p]}
             m == IF ahead = {} THEN 0 ELSE CHOOSE n \in ahead : TRUE
  <2>0. at' = [at EXCEPT ![p] = m]
    BY <1>3 DEF Killed, To
  <2>3. \A n \in ahead : n \in Posting[job[p]] /\ ~ (n < n)
    BY <2>2
  <2> HIDE DEF ahead
  <2>6. at'[p] = m
    <3> HIDE DEF m
    <3> QED
      BY <2>0 DEF TypeOK
  <2>4. CASE ahead = {}
    BY <2>4, <2>6 DEF Driving
  <2>5. CASE ahead # {}
    <3>1. m \in ahead
      BY <2>5
    <3> HIDE DEF m
    <3> QED
      BY <2>1, <2>3, <2>6, <3>1 DEF Driving
  <2> QED
    BY <2>4, <2>5
<1> QED
  BY <1>1, <1>2, <1>3

-----------------------------------------------------------------------------
(* Gates.  A step that nothing leads past but out of the program.           *)
\* p goes on past its step, not to a clause and not out.
Succeeds(p) == At(p) /\ at'[p] = at[p] + 1 /\ at'[p] # Handler(p) /\ Driving(p)'
Past(p, n) == Driving(p) /\ at[p] > n /\ at[p] <= Last(p)

\* Whoever is past a gate after a step was past it before, or has just gone
\* through it.
LEMMA ThroughGate ==
  ASSUME TypeOK, NEW p \in Procs, Steady(p), NEW n \in 1..Last(p), Passes(job[p], n), Past(p, n)'
  PROVE  Past(p, n) \/ (at[p] = n /\ Succeeds(p))
<1>1. Driving(p) /\ At(p) /\ at'[p] > at[p]
  BY DrivesOn DEF Past
<1>2. job' = job /\ job[p] \in Jobs /\ at'[p] > n /\ at'[p] <= Last(p)
  BY JobTyped DEF Steady, Past, Last
<1>3. at[p] \in 1..Last(p) /\ Last(p) \in Nat
  BY <1>1, HandlerAhead DEF At
<1>4. CASE at[p] > n
  <2>1. at[p] <= Last(p)
    BY <1>3
  <2> QED
    BY <1>1, <1>4, <2>1 DEF Past
<1>5. CASE at[p] <= n
  <2>1. at[p] \in 1..n /\ (at[p] + 1 > n => at[p] = n)
    BY <1>3, <1>5
  <2>2. /\ Here(p).op \notin {"either", "post"}
        /\ Here(p).h = 0 \/ at[p] + Here(p).h \in Posting[job[p]]
    BY <2>1 DEF Passes, Here
  <2>3. \A k \in Posting[job[p]] : at'[p] < k
    BY <1>2 DEF Past, Driving
  <2>4. at'[p] \in Nat /\ at'[p] # 0 /\ ~ (at'[p] < at'[p]) /\ at'[p] # Last(p) + 1
    <3>1. at'[p] \in Nat /\ at'[p] # 0
      BY DEF Steady, TypeOK, Past, Driving
    <3> QED
      BY <1>2, <1>3, <3>1
  <2>5. at'[p] # Handler(p)
    BY <2>2, <2>3, <2>4 DEF Handler
  <2>6. PICK m \in Nat : at' = [at EXCEPT ![p] = m] /\ Leads(p, m)
    BY DEF Steady
  <2>7. at'[p] = m
    BY <2>6 DEF TypeOK
  <2>8. at'[p] = at[p] + 1
    BY <1>1, <2>2, <2>3, <2>4, <2>5, <2>6, <2>7 DEF Leads
  <2>9. at[p] = n
    BY <1>2, <2>1, <2>8
  <2> QED
    BY <1>1, <2>5, <2>8, <2>9 DEF Succeeds, Past
<1> QED
  BY <1>3, <1>4, <1>5

\* Whoever holds the lock and is driving after a step of p holds it still.
LEMMA LockStays ==
  ASSUME TypeOK, NEW p \in Procs, NEW q \in Procs, Steady(p), lock = q, q = p => Driving(p)'
  PROVE  lock' = q
<1>1. CASE lock' = lock
  BY <1>1
<1>2. CASE lock = NoProc
  BY <1>2, ProcsAssumption
<1>3. CASE lock = p /\ (at'[p] = 0 \/ Now(p, "post") \/ at'[p] \in Posting[job[p]])
  <2>1. p = q /\ Driving(p)'
    BY <1>3
  <2>2. ~ Now(p, "post")
    BY <2>1, DrivesOn
  <2>3. at'[p] # 0 /\ \A n \in Posting[job'[p]] : at'[p] < n
    BY <2>1 DEF Driving
  <2>4. at'[p] \in Nat /\ job' = job
    BY DEF Steady, TypeOK
  <2>5. ~ (at'[p] < at'[p])
    BY <2>4
  <2> QED
    BY <1>3, <2>2, <2>3, <2>4, <2>5
<1> QED
  BY <1>1, <1>2, <1>3 DEF Steady

\* Past a lock step that nothing leads past, a driver has the lock.
LEMMA BehindLock ==
  ASSUME TypeOK, NEW p \in Procs, Steady(p), NEW n \in 1..Last(p), Passes(job[p], n),
         Programs[job[p]][n].op \in Locks, Past(p, n)', Past(p, n) => lock = p
  PROVE  lock' = p
<1>1. CASE Past(p, n)
  BY <1>1, LockStays DEF Past
<1>2. CASE at[p] = n /\ Succeeds(p)
  <2>1. PICK m \in Nat : at' = [at EXCEPT ![p] = m] /\ Leads(p, m)
    BY DEF Steady
  <2>2. at'[p] = m
    BY <2>1 DEF TypeOK
  <2>3. m # 0 /\ m \notin Posting[job[p]] /\ m # Handler(p) /\ At(p) /\ Here(p).op \in Locks
    <3>1. \A k \in Posting[job[p]] : m < k
      BY <1>2, <2>2 DEF Succeeds, Driving, Steady
    <3>2. ~ (m < m)
      BY <2>1
    <3> QED
      BY <1>2, <2>2, <3>1, <3>2 DEF Succeeds, Driving, Here
  <2>4. at[p] # Last(p) + 1
    BY <2>3, HandlerAhead
  <2> QED
    BY <2>1, <2>3, <2>4 DEF Leads, Locks
<1> QED
  BY <1>1, <1>2, ThroughGate

-----------------------------------------------------------------------------
(* run.lock.  An orderly driver past its lock step holds the lock until it  *)
(* ends; so does one that has anything on the card.                         *)
PastGate(p) == job[p] \in Orderly /\ Driving(p) /\ at[p] > Gate(job[p]) /\ at[p] <= Last(p)
HoldsLock == /\ \A p \in Procs : PastGate(p) => lock = p
             /\ \A b \in boxes \cup coming :
                  job[b[1]] \in Orderly /\ Driving(b[1]) => lock = b[1]

\* The lock step of an orderly driver: nothing passes it by.
LEMMA GateFacts ==
  ASSUME NEW j \in Jobs, j \in Orderly
  PROVE  /\ Gate(j) \in 1..Len(Programs[j])
         /\ Programs[j][Gate(j)].op \in Locks
         /\ Steps(j, Creates) \cap 1..Gate(j) = {}
         /\ Passes(j, Gate(j))
BY GatewayFacts DEF Orderly, Gate, Locks

\* Past its lock step, a driver has it.
LEMMA GateLocks ==
  ASSUME TypeOK, HoldsLock, NEW p \in Procs, Steady(p), PastGate(p)'
  PROVE  lock' = p
<1>1. job' = job /\ job[p] \in Jobs /\ job[p] \in Orderly
  BY JobTyped DEF Steady, PastGate
<1>2. /\ Gate(job[p]) \in 1..Last(p) /\ Passes(job[p], Gate(job[p]))
      /\ Programs[job[p]][Gate(job[p])].op \in Locks
  BY <1>1, GateFacts DEF Last
<1>3. PICK n \in 1..Last(p) : n = Gate(job[p])
  BY <1>2
<1>4. Past(p, n)' /\ (Past(p, n) => lock = p)
  BY <1>1, <1>3 DEF PastGate, HoldsLock, Past
<1> QED
  BY <1>2, <1>3, <1>4, BehindLock

\* A step of p leaves the place of every other process alone.
LEMMA OthersStand ==
  ASSUME TypeOK, NEW p \in Procs, NEW q \in Procs, q # p, Steady(p)
  PROVE  at'[q] = at[q] /\ (Driving(q)' <=> Driving(q)) /\ (PastGate(q)' <=> PastGate(q))
<1>1. at'[q] = at[q] /\ job' = job
  BY DEF Steady, TypeOK
<1> QED
  BY <1>1 DEF Driving, PastGate, Last

\* A step of a process keeps the lock with those who rely on it.
LEMMA SteadyHolds ==
  ASSUME TypeOK, HoldsLock, NEW p \in Procs, Steady(p)
  PROVE  HoldsLock'
<1>1. ASSUME NEW q \in Procs, PastGate(q)' PROVE lock' = q
  <2>1. CASE q = p
    BY <1>1, <2>1, GateLocks
  <2>2. CASE q # p
    <3>1. lock = q
      BY <1>1, <2>2, OthersStand DEF HoldsLock
    <3> QED
      BY <2>2, <3>1, LockStays
  <2> QED
    BY <2>1, <2>2
<1>2. ASSUME NEW b \in boxes' \cup coming', job'[b[1]] \in Orderly, Driving(b[1])'
      PROVE  lock' = b[1]
  <2>1. CASE b \in boxes \cup coming
    <3>1. b[1] \in Procs /\ job' = job
      BY <2>1 DEF TypeOK, Steady
    <3>2. Driving(b[1])
      BY <1>2, <3>1, OthersStand, DrivesOn
    <3>3. lock = b[1]
      BY <1>2, <2>1, <3>1, <3>2 DEF HoldsLock
    <3> QED
      BY <1>2, <3>1, <3>3, LockStays
  <2>2. CASE b \notin boxes \cup coming
    <3>1. b[1] = p /\ At(p) /\ Here(p).op \in Creates /\ job' = job
      BY <1>2, <2>2 DEF Steady
    <3>2. Driving(p) /\ job[p] \in Jobs /\ job[p] \in Orderly
      BY <1>2, <3>1, DrivesOn, JobTyped
    <3>3. at[p] \in 1..Last(p) /\ Last(p) \in Nat /\ Gate(job[p]) \in 1..Last(p)
      BY <3>1, <3>2, HandlerAhead, GateFacts DEF At, Last
    <3>4. at[p] \in Steps(job[p], Creates)
      BY <3>1, <3>3 DEF Steps, Here, Last
    <3>5. at[p] \notin 1..Gate(job[p])
      BY <3>2, <3>4, GateFacts
    <3>6. at[p] > Gate(job[p]) /\ at[p] <= Last(p)
      BY <3>3, <3>5
    <3>7. lock = p
      BY <3>2, <3>6 DEF HoldsLock, PastGate
    <3> QED
      BY <1>2, <3>1, <3>7, LockStays
  <2> QED
    BY <2>1, <2>2
<1> QED
  BY <1>1, <1>2 DEF HoldsLock

\* Nothing but a step of a process moves the lock or a driver.
LEMMA QuietHolds ==
  ASSUME HoldsLock, Quiet
  PROVE  HoldsLock'
BY DEF HoldsLock, Quiet, PastGate, Driving, Last

\* In the beginning nobody is past a lock step and the card is empty.
LEMMA InitHolds == Init => HoldsLock
<1> SUFFICES ASSUME Init PROVE HoldsLock
  OBVIOUS
<1>1. ASSUME NEW p \in Procs PROVE ~ PastGate(p)
  <2>1. job[p] \in Jobs /\ at[p] \in {0, 1}
    BY StartsAssumption DEF Init
  <2>2. job[p] \in Orderly => Gate(job[p]) \in 1..Last(p)
    BY <2>1, GateFacts DEF Last
  <2>3. Last(p) \in Nat
    BY <2>1, ProgramsAssumption DEF Last
  <2>4. \A k \in Nat : \A n \in 1..k : ~ (1 > n) /\ ~ (0 > n)
    OBVIOUS
  <2> QED
    BY <2>1, <2>2, <2>3, <2>4 DEF PastGate
<1>2. boxes \cup coming = {}
  BY DEF Init
<1> QED
  BY <1>1, <1>2 DEF HoldsLock

\* Two drivers with something on the card would both hold the lock.
LEMMA HolderIsOne == TypeOK /\ HoldsLock => OneDriverOnTheCard
BY DEF HoldsLock, OneDriverOnTheCard

\* The lock with those who rely on it, for all drivers.
LEMMA LockHolds == Spec => []HoldsLock
<1>1. TypeOK /\ HoldsLock /\ [Next]_vars => HoldsLock'
  BY NextKeeps, SteadyHolds, QuietHolds
<1> QED
  BY <1>1, InitHolds, TypeCorrect, PTL DEF Spec

\* run.lock excludes: of the drivers whose every way to a container leads past
\* flock(), one at a time has containers on the card or on their way, for any
\* number of processes, any programs and any faults.
THEOREM LockExcludes == Spec => []OneDriverOnTheCard
BY LockHolds, HolderIsOne, TypeCorrect, PTL
-----------------------------------------------------------------------------
(* The card.  What a step of a process does to the containers and to the    *)
(* service, and how it is struck.                                           *)

\* A container was there before the step, or the step creates it.
Hoists(p) ==
  \A b \in boxes' \cup coming' :
    \/ b \in boxes \cup coming /\ (b \in coming' => b \in coming)
    \/ /\ b = <<p, Arg(p)>> /\ At(p) /\ Here(p).op \in Creates
       /\ Here(p).op = "up" => (b \in coming' => b \in coming)
\* Only two operations begin production, and only one stops it.
Serves(p) == \/ service' = service
             \/ service' = "off" /\ At(p) /\ Here(p).op = "stop"
             \/ service' # "off" /\ At(p) /\ Here(p).op \in Begins
\* A step that nothing strikes.
Smooth(p) ==
  /\ \/ at'[p] = at[p] + 1
     \/ at'[p] = at[p] + Arg(p) /\ Here(p).op = "either"
     \/ at'[p] = Handler(p) /\ Here(p).op \in Fails
  /\ Here(p).op # "post"
  /\ Here(p).op = "up" /\ Arg(p) = Unnamed => at'[p] = at[p] + 1
  /\ Here(p).op = "exit" => <<p, Arg(p)>> \notin boxes' /\ coming' = coming
  /\ Here(p).op = "down" => (\A b \in boxes' : b[2] # Arg(p)) /\ coming' = coming
  /\ Here(p).op = "ready" => <<p, Arg(p)>> \notin coming
  /\ Here(p).op = "stop" => service' = "off"
  /\ Here(p).op \in Begins => service' # "off"
\* A driver leaves, is struck, or goes on.
Departs(p) == /\ ~ Driving(p)' /\ lock' # p
              /\ \/ hurt'[p] = hurt[p] \cup {"kill"}
                 \/ hurt' = hurt /\ Now(p, "post") /\ at'[p] = at[p] + 1
                 \/ hurt' = hurt /\ at[p] = Last(p) + 1
Struck(p) == At(p) /\ Here(p).op # "post" /\ at'[p] = Handler(p) /\ hurt'[p] = hurt[p] \cup Where(p)
Hauls(p) == /\ Hoists(p) /\ Serves(p)
            /\ DOMAIN hurt' = Procs /\ \A q \in Procs \ {p} : hurt'[q] = hurt[q]
            /\ Departs(p) \/ Struck(p) \/ (At(p) /\ hurt' = hurt /\ Smooth(p))

\* Where a step leads that may raise.
LEMMA FailsGoes ==
  ASSUME TypeOK, NEW p \in Procs, Onward(p) \/ Throw(p, Error) \/ Throw(p, raised[p]),
         Here(p).op \in Fails \/ Onward(p)
  PROVE  at'[p] = at[p] + 1 \/ (at'[p] = Handler(p) /\ Here(p).op \in Fails)
BY DEF Onward, Throw, To, TypeOK

\* Steps that look, write, take the lock, ask or turn.
LEMMA PlainHauls ==
  ASSUME TypeOK, DOMAIN hurt = Procs, NEW p \in Procs, hurt' = hurt,
         \/ Check(p) \/ AwaitService(p) \/ PollsService(p) \/ SeesOutcome(p) \/ Readies(p)
         \/ Inspects(p) \/ Notes(p) \/ Opens(p) \/ Reopens(p) \/ Announces(p) \/ Saves(p)
         \/ WaitsForLock(p) \/ TriesLock(p) \/ Identifies(p) \/ Asks(p)
         \/ Excepts(p) \/ Swallows(p) \/ Reraises(p) \/ Chooses(p)
  PROVE  Hauls(p) /\ Smooth(p)
<1>1. At(p) /\ UNCHANGED <<service, boxes, coming>>
  BY DEF Check, AwaitService, PollsService, SeesOutcome, Readies, Inspects, Notes, Opens, Reopens, Announces,
         Saves, Saving, WaitsForLock, TriesLock, Takes, Identifies, Asks, Excepts, Swallows, Reraises, Chooses,
         Now, world, serving
<1>2. /\ Here(p).op \notin {"post", "up", "exit", "down", "stop", "start", "restart"}
      /\ Here(p).op = "ready" => <<p, Arg(p)>> \notin coming
  BY DEF Check, Looks, AwaitService, PollsService, SeesOutcome, Readies, Inspects, Notes, Opens, Reopens,
         Announces, Saves, WaitsForLock, TriesLock, Identifies, Asks, Excepts, Swallows, Reraises, Chooses, Now
<1>3. \/ at'[p] = at[p] + 1
      \/ at'[p] = at[p] + Arg(p) /\ Here(p).op = "either"
      \/ at'[p] = Handler(p) /\ Here(p).op \in Fails
  <2>1. CASE Check(p)
    <3>1. Here(p).op \in {"work", "look"} => Onward(p)
      BY <2>1 DEF Check, Demand, Holds
    <3>2. Onward(p) \/ Throw(p, Error)
      BY <2>1 DEF Check, Demand
    <3>3. Here(p).op \in Fails \/ Here(p).op \in {"work", "look"}
      BY <2>1 DEF Check, Looks, Fails
    <3> QED
      BY <3>1, <3>2, <3>3, FailsGoes
  <2>2. CASE \/ AwaitService(p) \/ SeesOutcome(p) \/ Readies(p) \/ TriesLock(p) \/ Opens(p)
             \/ Identifies(p) \/ Asks(p)
    <3>1. Onward(p) \/ Throw(p, Error)
      BY <2>2 DEF AwaitService, SeesOutcome, Readies, TriesLock, Opens, Identifies, Asks, Demand
    <3>2. Here(p).op \in Fails
      BY <2>2 DEF AwaitService, SeesOutcome, Readies, TriesLock, Opens, Identifies, Asks, Now, Fails
    <3> QED
      BY <3>1, <3>2, FailsGoes
  <2>3. CASE \/ PollsService(p) \/ Inspects(p) \/ Notes(p) \/ Reopens(p) \/ Announces(p) \/ Saves(p)
             \/ WaitsForLock(p) \/ Excepts(p)
    <3>1. Onward(p)
      BY <2>3 DEF PollsService, Inspects, Notes, Reopens, Announces, Saves, WaitsForLock, Excepts
    <3> QED
      BY <3>1, FailsGoes
  <2>4. CASE Reraises(p)
    <3>1. Onward(p) \/ Throw(p, raised[p])
      BY <2>4 DEF Reraises
    <3>2. Here(p).op \in Fails
      BY <2>4 DEF Reraises, Now, Fails
    <3> QED
      BY <3>1, <3>2, FailsGoes
  <2>5. CASE Swallows(p) \/ Chooses(p)
    BY <2>5 DEF Swallows, Chooses, To, Now, TypeOK
  <2> QED
    BY <2>1, <2>2, <2>3, <2>4, <2>5
<1>4. Smooth(p)
  BY <1>2, <1>3 DEF Smooth, Begins
<1> QED
  BY <1>1, <1>4 DEF Hauls, Hoists, Serves

\* Steps of the production service.
LEMMA ServiceHauls ==
  ASSUME TypeOK, DOMAIN hurt = Procs, NEW p \in Procs, hurt' = hurt,
         Stops(p) \/ StartsService(p) \/ RestartsService(p)
  PROVE  Hauls(p) /\ Smooth(p)
<1>1. At(p) /\ UNCHANGED <<boxes, coming>> /\ Onward(p) /\ Here(p).op \in {"stop", "start", "restart"}
  BY DEF Stops, StartsService, RestartsService, Stopping, Starting, Restarting, Serving, Now
<1>2. /\ Here(p).op = "stop" => service' = "off"
      /\ Here(p).op \in Begins => service' # "off"
  BY DEF Stops, StartsService, RestartsService, Stopping, Starting, Restarting, Serving, Now, Begins
<1>3. Smooth(p)
  BY <1>1, <1>2, FailsGoes DEF Smooth, Begins
<1>4. Serves(p)
  BY <1>1, <1>2 DEF Serves, Begins
<1> QED
  BY <1>1, <1>3, <1>4 DEF Hauls, Hoists

\* Containers that are created or taken off the card, whether the step is struck or not.
LEMMA CreatingHoists ==
  ASSUME TypeOK, NEW p \in Procs, At(p),
         \/ Here(p).op = "up" /\ Creating(p)
         \/ Here(p).op = "spawn" /\ Asking(p)
         \/ Leaving(p) \/ Removing(p)
  PROVE  Hoists(p) /\ service' = service
<1>1. CASE Here(p).op = "up" /\ Creating(p)
  BY <1>1 DEF Creating, Boxing, Hoists, Creates, world, serving
<1>2. CASE Here(p).op = "spawn" /\ Asking(p)
  BY <1>2 DEF Asking, Boxing, Hoists, Creates, serving
<1>3. CASE Leaving(p) \/ Removing(p)
  BY <1>3 DEF Leaving, Removing, Boxing, Hoists, serving
<1> QED
  BY <1>1, <1>2, <1>3

\* Steps of containers.
LEMMA BoxesHaul ==
  ASSUME TypeOK, DOMAIN hurt = Procs, NEW p \in Procs, hurt' = hurt,
         Ups(p) \/ Exits(p) \/ Spawns(p) \/ Downs(p)
  PROVE  Hauls(p) /\ Smooth(p)
<1>1. At(p) /\ Hoists(p) /\ service' = service
  BY CreatingHoists DEF Ups, Exits, Spawns, Downs, Now
<1>2. at'[p] = at[p] + 1 \/ (at'[p] = Handler(p) /\ Here(p).op \in Fails)
  <2>1. Onward(p) \/ Throw(p, Error)
    BY DEF Ups, Exits, Spawns, Downs, Demand
  <2>2. Here(p).op \in Fails \/ Onward(p)
    BY DEF Ups, Exits, Spawns, Downs, Now, Fails
  <2> QED
    BY <2>1, <2>2, FailsGoes
<1>3. Here(p).op = "up" /\ Arg(p) = Unnamed => at'[p] = at[p] + 1
  <2>1. Here(p).op = "up" /\ Arg(p) = Unnamed => Onward(p)
    BY DEF Ups, Exits, Spawns, Downs, Now, Taken, Demand
  <2> QED
    BY <2>1 DEF Onward, To, TypeOK
<1>4. /\ Here(p).op = "exit" => <<p, Arg(p)>> \notin boxes' /\ coming' = coming
      /\ Here(p).op = "down" => (\A b \in boxes' : b[2] # Arg(p)) /\ coming' = coming
  BY DEF Ups, Exits, Spawns, Downs, Now, Leaving, Removing, Boxing
<1>5. Here(p).op \notin {"post", "ready", "stop", "start", "restart"}
  BY DEF Ups, Exits, Spawns, Downs, Now
<1> QED
  BY <1>1, <1>2, <1>3, <1>4, <1>5 DEF Hauls, Smooth, Serves, Begins

\* Errors and signals.
LEMMA StruckHauls ==
  ASSUME TypeOK, DOMAIN hurt = Procs, NEW p \in Procs, Falls(p)
  PROVE  Hauls(p) /\ Struck(p)
<1>1. At(p) /\ Halfway(p) /\ at'[p] = Handler(p) /\ hurt' = [hurt EXCEPT ![p] = @ \cup Where(p)]
  BY ThrowGoes DEF Falls, Raises, Interrupted, Strikes
<1>0. Here(p).op # "post"
  BY DEF Falls, Raises, Interrupted, Harmless
<1>2. Hoists(p) /\ Serves(p)
  <2>1. CASE UNCHANGED <<service, boxes, coming>>
    BY <2>1 DEF Hoists, Serves
  <2>2. CASE \/ Now(p, "up") /\ Creating(p)
             \/ Now(p, "exit") /\ Leaving(p)
             \/ Now(p, "spawn") /\ Asking(p)
             \/ Now(p, "down") /\ Removing(p)
    BY <2>2, CreatingHoists DEF Now, Serves
  <2>3. CASE \/ Now(p, "stop") /\ Stopping(p)
             \/ Now(p, "start") /\ Starting(p)
             \/ Now(p, "restart") /\ Restarting(p)
    BY <2>3 DEF Now, Begins, Stopping, Starting, Restarting, Serving, Hoists, Serves
  <2> QED
    <3>1. \/ UNCHANGED <<memory, world>>
          \/ UNCHANGED <<memory, lock, serving, boxes, coming>>
          \/ Now(p, "save") /\ Saving(p)
          \/ Now(p, "up") /\ Creating(p)
          \/ Now(p, "exit") /\ Leaving(p)
          \/ Now(p, "spawn") /\ Asking(p)
          \/ Now(p, "down") /\ Removing(p)
          \/ Now(p, "stop") /\ Stopping(p)
          \/ Now(p, "start") /\ Starting(p)
          \/ Now(p, "restart") /\ Restarting(p)
      BY <1>1 DEF Halfway, Now
    <3>2. UNCHANGED <<memory, world>> \/ UNCHANGED <<memory, lock, serving, boxes, coming>> \/ Saving(p)
          => UNCHANGED <<service, boxes, coming>>
      BY DEF Saving, world, serving
    <3> QED
      BY <2>1, <2>2, <2>3, <3>1, <3>2
<1>3. DOMAIN hurt' = Procs /\ Struck(p) /\ \A q \in Procs \ {p} : hurt'[q] = hurt[q]
  BY <1>0, <1>1 DEF Struck
<1> QED
  BY <1>2, <1>3 DEF Hauls

\* Steps with which a process leaves, or its unit goes on to ExecStopPost.
LEMMA LeavingHauls ==
  ASSUME TypeOK, DOMAIN hurt = Procs, NEW p \in Procs, Steady(p),
         (hurt' = hurt /\ (Hooks(p) \/ Ends(p))) \/ Killed(p)
  PROVE  Hauls(p)
<1>1. UNCHANGED <<service, boxes, coming>>
  BY DEF Hooks, Ends, Killed
<1>2. ~ Driving(p)' /\ lock' # p
  BY LeavesDriving, ProcsAssumption DEF Hooks, Ends, Killed, Free
<1>3. CASE Killed(p)
  <2>1. hurt' = [hurt EXCEPT ![p] = @ \cup {"kill"}]
    BY <1>3 DEF Killed, Strikes
  <2>2. /\ DOMAIN hurt' = Procs /\ hurt'[p] = hurt[p] \cup {"kill"}
        /\ \A q \in Procs \ {p} : hurt'[q] = hurt[q]
    BY <2>1
  <2>3. Hoists(p) /\ Serves(p)
    BY <1>1 DEF Hoists, Serves
  <2> QED
    BY <1>2, <2>2, <2>3 DEF Hauls, Departs
<1>4. CASE hurt' = hurt /\ (Hooks(p) \/ Ends(p))
  <2>1. (Now(p, "post") /\ at'[p] = at[p] + 1) \/ at[p] = Last(p) + 1
    BY <1>4 DEF Hooks, Ends, To, TypeOK
  <2> QED
    BY <1>1, <1>2, <1>4, <2>1 DEF Hauls, Hoists, Serves, Departs
<1> QED
  BY <1>3, <1>4

\* Every step of a process.
LEMMA ProcessHauls ==
  ASSUME TypeOK, DOMAIN hurt = Procs, NEW p \in Procs,
         Moves(p) \/ (Frail /\ (Falls(p) \/ Killed(p)))
  PROVE  Steady(p) /\ Hauls(p)
<1>1. Steady(p)
  BY ProcessKeeps
<1>2. CASE Moves(p)
  BY <1>1, <1>2, PlainHauls, ServiceHauls, BoxesHaul, LeavingHauls
     DEF Moves, Waits, Writes, Commands, Contains, Turns
<1>3. CASE Frail /\ (Falls(p) \/ Killed(p))
  BY <1>1, <1>3, StruckHauls, LeavingHauls
<1> QED
  BY <1>1, <1>2, <1>3
-----------------------------------------------------------------------------
(* Cleanup.  What a driver has on the card is due at its next step: the end *)
(* of a docker run in the foreground, or a removal that every way leads to. *)

\* Container c awaits its end when the driver is at step n; soon, if the daemon
\* is still to create it.
Due(j, n, c, soon) ==
  /\ n \in 1..Len(Programs[j])
  /\ soon => Programs[j][n].op = "ready" /\ Programs[j][n].arg = c
  /\ IF c = Unnamed THEN Programs[j][n].op = "exit" /\ Programs[j][n].arg = c /\ j \in Nameless
     ELSE \E d \in Steps(j, {"down"}) : Removal(j, n, c, d)
Awaits(p, c) == Due(job[p], at[p], c, <<p, c>> \in coming)
\* It was struck where no clause lies ahead, or killed.
Gone(p) == hurt[p] \cap {"kill", "outside"} # {} /\ ~ (Driving(p) /\ At(p))
Brought(b) == \E u \in Steps(job[b[1]], Creates) : Programs[job[b[1]]][u].arg = b[2]
CardInv == /\ DOMAIN hurt = Procs
           /\ \A b \in boxes \cup coming :
                /\ b = <<b[1], b[2]>> /\ Brought(b)
                /\ Sweeps(b[1]) => Awaits(b[1], b[2]) \/ Gone(b[1])

\* The way to a removal from a step further on.
LEMMA RemovalOn ==
  ASSUME NEW j \in Jobs, NEW n \in Nat \ {0}, NEW c, NEW d \in Steps(j, {"down"}), Removal(j, n, c, d),
         NEW m \in Nat, n <= m, m <= d
  PROVE  Removal(j, m, c, d) /\ m \in 1..Len(Programs[j])
<1>1. d \in 1..Len(Programs[j]) /\ Len(Programs[j]) \in Nat /\ d \in Nat
  BY ProgramsAssumption DEF Steps
<1>2. m..(d - 1) \subseteq n..(d - 1) /\ m..d \subseteq n..d /\ m \in 1..Len(Programs[j])
  BY <1>1
<1>3. Comes(j, m, d)
  BY <1>2 DEF Removal, Comes
<1> QED
  BY <1>2, <1>3 DEF Removal

\* A step before the removal leads to it, or is struck outside of every try.
LEMMA RemovalAhead ==
  ASSUME NEW j \in Jobs, NEW n \in 1..Len(Programs[j]), NEW c, NEW d \in Steps(j, {"down"}),
         Removal(j, n, c, d), n # d
  PROVE  /\ n < d
         /\ Programs[j][n].op # "post"
         /\ Programs[j][n].op = "either" => n + Programs[j][n].arg <= d
         /\ Programs[j][n].h = 0 => Programs[j][n].op \notin Fails
         /\ Programs[j][n].h # 0 => Programs[j][n].op = "look" \/ n + Programs[j][n].h <= d
<1>1. n \in Nat /\ d \in Nat /\ n <= d
  BY DEF Steps, Removal
<1>2. n < d /\ n \in n..(d - 1)
  BY <1>1
<1> QED
  BY <1>2 DEF Removal, Comes

\* A container is due from the step behind its creation on; its removal is ahead
\* from the creation itself.
LEMMA DueBegins ==
  ASSUME NEW j \in Jobs, NEW n \in Steps(j, Creates), NEW c, c = Programs[j][n].arg
  PROVE  /\ Due(j, n + 1, c, FALSE)
         /\ Programs[j][n].op = "spawn" => Due(j, n + 1, c, TRUE)
         /\ c = Unnamed => j \in Nameless /\ Programs[j][n].op = "up"
         /\ c # Unnamed => \E d \in Steps(j, {"down"}) : Removal(j, n, c, d) /\ d # n
<1>1. /\ n \in 1..Len(Programs[j]) /\ Len(Programs[j]) \in Nat /\ n \in Nat \ {0}
      /\ Programs[j][n].op \in {"up", "spawn"}
  BY ProgramsAssumption DEF Steps, Creates
<1>2. /\ Programs[j][n].op = "spawn" => n + 1 \in Steps(j, {"ready"}) /\ Programs[j][n + 1].arg = c
      /\ c = Unnamed => /\ Programs[j][n].op = "up"
                        /\ n + 1 \in Steps(j, {"exit"}) /\ Programs[j][n + 1].arg = c
      /\ c # Unnamed => \E d \in n..Len(Programs[j]) : Removal(j, n, c, d)
  BY CleanupAssumption
<1>3. c = Unnamed => j \in Nameless
  <2>1. Programs[j][n].op = "up" => n \in Steps(j, {"up"})
    BY <1>1 DEF Steps
  <2> QED
    BY <1>2, <2>1 DEF Nameless
<1>4. CASE c = Unnamed
  BY <1>1, <1>2, <1>3, <1>4 DEF Due, Steps
<1>5. CASE c # Unnamed
  <2>1. PICK d \in Steps(j, {"down"}) : Removal(j, n, c, d)
    BY <1>2, <1>5 DEF Removal
  <2>2. d \in Nat /\ n <= d /\ d # n
    BY <1>1, <2>1 DEF Removal, Steps
  <2>3. n + 1 \in Nat /\ n <= n + 1 /\ n + 1 <= d
    BY <1>1, <2>2
  <2>4. Removal(j, n + 1, c, d) /\ n + 1 \in 1..Len(Programs[j])
    BY <1>1, <2>1, <2>3, RemovalOn
  <2> QED
    BY <1>1, <1>2, <1>5, <2>1, <2>2, <2>4 DEF Due, Steps
<1> QED
  BY <1>4, <1>5

\* A driver that is gone stays gone.
LEMMA GoneStays ==
  ASSUME TypeOK, NEW p \in Procs, Steady(p), Hauls(p), Gone(p)
  PROVE  Gone(p)'
<1>1. hurt[p] \subseteq hurt'[p]
  BY DEF Hauls, Departs, Struck
<1>2. ~ Driving(p)'
  BY DrivesOn DEF Gone
<1> QED
  BY <1>1, <1>2 DEF Gone

\* Struck outside of every try, a driver is out at once.
LEMMA StruckOutside ==
  ASSUME TypeOK, NEW p \in Procs, job' = job, Struck(p), Here(p).h = 0
  PROVE  Gone(p)'
<1>1. at'[p] = Last(p) + 1 /\ "outside" \in hurt'[p]
  BY DEF Struck, Handler, Where
<1>2. ~ (Last(p) + 1 \in 1..Last(p))
  BY HandlerAhead DEF Struck
<1> QED
  BY <1>1, <1>2 DEF Gone, At, Last

\* A container with a name comes nearer to its removal.
LEMMA NamedComes ==
  ASSUME TypeOK, NEW p \in Procs, Steady(p), Hauls(p), At(p), Sweeps(p)',
         NEW c, NEW d \in Steps(job[p], {"down"}), Removal(job[p], at[p], c, d), at[p] # d
  PROVE  Gone(p)' \/ (Removal(job[p], at'[p], c, d) /\ at'[p] \in 1..Last(p))
<1>1. /\ job' = job /\ job[p] \in Jobs /\ at[p] \in 1..Last(p) /\ at[p] \in Nat \ {0} /\ Last(p) \in Nat
      /\ Here(p).h \in Nat /\ (Here(p).op = "either" => Arg(p) \in Nat \ {0})
  <2>1. job' = job /\ job[p] \in Jobs
    BY JobTyped DEF Steady
  <2> QED
    BY <2>1, HandlerAhead DEF At
<1>2. /\ at[p] < d
      /\ Here(p).op # "post"
      /\ Here(p).op = "either" => at[p] + Arg(p) <= d
      /\ Here(p).h = 0 => Here(p).op \notin Fails
      /\ Here(p).h # 0 => Here(p).op = "look" \/ at[p] + Here(p).h <= d
  BY <1>1, RemovalAhead DEF Here, Arg, Last
<1>3. ASSUME NEW m \in Nat, at'[p] = m, at[p] <= m, m <= d
      PROVE  Removal(job[p], at'[p], c, d) /\ at'[p] \in 1..Last(p)
  BY <1>1, <1>3, RemovalOn DEF Last
<1>4. d \in Nat
  BY DEF Steps
<1>5. CASE Here(p).h # 0 /\ Here(p).op # "look" /\ at'[p] = Handler(p)
  <2>1. at'[p] = at[p] + Here(p).h
    BY <1>5 DEF Handler
  <2>2. at[p] + Here(p).h \in Nat /\ at[p] <= at[p] + Here(p).h
    BY <1>1
  <2> QED
    BY <1>2, <1>3, <1>5, <2>1, <2>2
<1>6. CASE Departs(p)
  <2>1. ~ Driving(p)' /\ "kill" \in hurt'[p]
    BY <1>1, <1>2, <1>6 DEF Departs, Now
  <2> QED
    BY <2>1 DEF Gone
<1>7. CASE Struck(p)
  <2>1. CASE Here(p).h = 0
    BY <1>1, <1>7, <2>1, StruckOutside
  <2>2. CASE Here(p).h # 0
    <3>1. Here(p).op \in hurt'[p]
      BY <1>7, <2>2 DEF Struck, Where
    <3>2. Here(p).op # "look"
      BY <3>1 DEF Sweeps
    <3> QED
      BY <1>5, <1>7, <2>2, <3>2 DEF Struck
  <2> QED
    BY <2>1, <2>2
<1>8. CASE Smooth(p)
  <2>1. CASE at'[p] = at[p] + 1
    <3>1. at[p] + 1 \in Nat /\ at[p] <= at[p] + 1 /\ at[p] + 1 <= d
      BY <1>1, <1>2, <1>4
    <3> QED
      BY <1>3, <2>1, <3>1
  <2>2. CASE Here(p).op = "either" /\ at'[p] = at[p] + Arg(p)
    <3>1. at[p] + Arg(p) \in Nat /\ at[p] <= at[p] + Arg(p)
      BY <1>1, <2>2
    <3> QED
      BY <1>2, <1>3, <2>2, <3>1
  <2>3. CASE at'[p] = Handler(p) /\ Here(p).op \in Fails
    BY <1>2, <1>5, <2>3 DEF Fails
  <2> QED
    BY <1>8, <2>1, <2>2, <2>3 DEF Smooth
<1> QED
  BY <1>6, <1>7, <1>8 DEF Hauls

\* At a step that brings a container in or takes it away, a driver that departs
\* or is struck outside of every try is gone; struck in its try, it does not sweep.
LEMMA StruckAtWork ==
  ASSUME TypeOK, NEW p \in Procs, job' = job, At(p), Sweeps(p)', Departs(p) \/ Struck(p),
         \/ Here(p).op \in {"spawn", "ready", "down"}
         \/ Here(p).op \in {"up", "exit"} /\ job[p] \in Nameless
  PROVE  Gone(p)'
<1>1. CASE Departs(p)
  <2>1. ~ Driving(p)' /\ "kill" \in hurt'[p]
    BY <1>1, HandlerAhead DEF Departs, Now
  <2> QED
    BY <2>1 DEF Gone
<1>2. CASE Struck(p) /\ Here(p).h = 0
  BY <1>2, StruckOutside
<1>3. CASE Struck(p) /\ Here(p).h # 0
  <2>1. Here(p).op \in hurt'[p]
    BY <1>3 DEF Struck, Where
  <2> QED
    BY <2>1 DEF Sweeps
<1> QED
  BY <1>1, <1>2, <1>3

\* A container that a step of its driver leaves on the card is still due.
LEMMA OldAwaits ==
  ASSUME TypeOK, NEW p \in Procs, Steady(p), Hauls(p), Sweeps(p)', NEW c, Awaits(p, c),
         <<p, c>> \in boxes' \cup coming', <<p, c>> \in coming' => <<p, c>> \in coming
  PROVE  Awaits(p, c)' \/ Gone(p)'
<1>1. job' = job /\ job[p] \in Jobs /\ At(p) /\ at[p] \in 1..Last(p)
  BY JobTyped DEF Steady, Awaits, Due, At, Last
<1>2. CASE <<p, c>> \in coming
  <2>1. Here(p).op = "ready" /\ Arg(p) = c
    BY <1>2 DEF Awaits, Due, Here, Arg
  <2>2. ~ Smooth(p)
    BY <1>2, <2>1 DEF Smooth
  <2> QED
    BY <1>1, <2>1, <2>2, StruckAtWork DEF Hauls
<1>3. CASE <<p, c>> \notin coming /\ c = Unnamed
  <2>1. Here(p).op = "exit" /\ Arg(p) = c /\ job[p] \in Nameless
    BY <1>3 DEF Awaits, Due, Here, Arg
  <2>2. ~ Smooth(p)
    BY <1>3, <2>1 DEF Smooth
  <2> QED
    BY <1>1, <2>1, <2>2, StruckAtWork DEF Hauls
<1>4. CASE <<p, c>> \notin coming /\ c # Unnamed
  <2>1. PICK d \in Steps(job[p], {"down"}) : Removal(job[p], at[p], c, d)
    BY <1>4 DEF Awaits, Due
  <2>2. CASE at[p] = d
    <3>1. Here(p).op = "down" /\ Arg(p) = c
      BY <2>1, <2>2 DEF Removal, Steps, Here, Arg
    <3>2. <<p, c>>[2] = c
      OBVIOUS
    <3>3. ~ Smooth(p)
      BY <1>4, <3>1, <3>2 DEF Smooth
    <3> QED
      BY <1>1, <3>1, <3>3, StruckAtWork DEF Hauls
  <2>3. CASE at[p] # d
    <3>1. Gone(p)' \/ (Removal(job[p], at'[p], c, d) /\ at'[p] \in 1..Last(p))
      BY <1>1, <2>1, <2>3, NamedComes
    <3>2. <<p, c>> \notin coming'
      BY <1>4
    <3> QED
      BY <1>1, <1>4, <3>1, <3>2 DEF Awaits, Due, Last
  <2> QED
    BY <2>2, <2>3
<1> QED
  BY <1>2, <1>3, <1>4

\* So is the container it creates.
LEMMA NewAwaits ==
  ASSUME TypeOK, NEW p \in Procs, Steady(p), Hauls(p), Sweeps(p)', At(p), Here(p).op \in Creates,
         NEW c, c = Arg(p), Here(p).op = "up" => <<p, c>> \notin coming'
  PROVE  Awaits(p, c)' \/ Gone(p)'
<1>1. job' = job /\ job[p] \in Jobs /\ at[p] \in Steps(job[p], Creates) /\ Here(p).op \in {"up", "spawn"}
  BY JobTyped DEF Steady, At, Last, Here, Steps, Creates
<1>2. /\ Due(job[p], at[p] + 1, c, FALSE)
      /\ Here(p).op = "spawn" => Due(job[p], at[p] + 1, c, TRUE)
      /\ c = Unnamed => job[p] \in Nameless /\ Here(p).op = "up"
      /\ c # Unnamed => \E d \in Steps(job[p], {"down"}) : Removal(job[p], at[p], c, d) /\ d # at[p]
  BY <1>1, DueBegins DEF Here, Arg
<1>3. CASE Here(p).op = "spawn" /\ Smooth(p)
  <2>1. at'[p] = at[p] + 1
    BY <1>3 DEF Smooth, Fails
  <2>2. Due(job[p], at[p] + 1, c, <<p, c>> \in coming')
    BY <1>2, <1>3 DEF Due
  <2> QED
    BY <1>1, <2>1, <2>2 DEF Awaits
<1>4. CASE c = Unnamed /\ Smooth(p)
  <2>1. at'[p] = at[p] + 1 /\ <<p, c>> \notin coming'
    BY <1>2, <1>4 DEF Smooth
  <2>2. Due(job[p], at[p] + 1, c, <<p, c>> \in coming')
    BY <1>2, <2>1 DEF Due
  <2> QED
    BY <1>1, <2>1, <2>2 DEF Awaits
<1>5. CASE c # Unnamed /\ Here(p).op = "up"
  <2>1. PICK d \in Steps(job[p], {"down"}) : Removal(job[p], at[p], c, d) /\ d # at[p]
    BY <1>2, <1>5
  <2>2. Gone(p)' \/ (Removal(job[p], at'[p], c, d) /\ at'[p] \in 1..Last(p))
    BY <2>1, NamedComes
  <2> QED
    BY <1>1, <1>5, <2>2 DEF Awaits, Due, Last
<1>6. CASE ~ Smooth(p) /\ (c = Unnamed \/ Here(p).op = "spawn")
  BY <1>1, <1>2, <1>6, StruckAtWork DEF Hauls
<1> QED
  BY <1>1, <1>3, <1>4, <1>5, <1>6

\* Steps of processes keep the cleanup ahead.
LEMMA ProcessCleans ==
  ASSUME TypeOK, CardInv, NEW q \in Procs, Steady(q), Hauls(q)
  PROVE  CardInv'
<1>0. job' = job /\ DOMAIN hurt' = Procs
  BY DEF Steady, Hauls
<1> SUFFICES ASSUME NEW b \in boxes' \cup coming', NEW p, NEW c, p = b[1], c = b[2]
             PROVE  /\ b = <<p, c>> /\ \E u \in Steps(job[p], Creates) : Programs[job[p]][u].arg = c
                    /\ Sweeps(p)' => Awaits(p, c)' \/ Gone(p)'
  BY <1>0 DEF CardInv, Brought, Awaits, Gone, Sweeps, Driving, At, Last
<1>1. \/ b \in boxes \cup coming /\ (b \in coming' => b \in coming)
      \/ /\ b = <<q, Arg(q)>> /\ At(q) /\ Here(q).op \in Creates
         /\ Here(q).op = "up" => (b \in coming' => b \in coming)
  BY DEF Hauls, Hoists
<1>2. CASE b \in boxes \cup coming /\ (b \in coming' => b \in coming)
  <2>1. /\ p \in Procs /\ b = <<p, c>> /\ \E u \in Steps(job[p], Creates) : Programs[job[p]][u].arg = c
        /\ Sweeps(p) => Awaits(p, c) \/ Gone(p)
    BY <1>2 DEF CardInv, Brought, TypeOK
  <2>2. ASSUME Sweeps(p)' PROVE Awaits(p, c)' \/ Gone(p)'
    <3>1. CASE p = q
      <4>1. hurt[p] \subseteq hurt'[p]
        BY <3>1 DEF Hauls, Departs, Struck
      <4>2. Sweeps(p)
        BY <1>0, <2>2, <4>1 DEF Sweeps
      <4> QED
        BY <1>2, <2>1, <2>2, <3>1, <4>2, OldAwaits, GoneStays
    <3>2. CASE p # q
      <4>1. at'[p] = at[p] /\ (Driving(p)' <=> Driving(p)) /\ hurt'[p] = hurt[p]
        BY <2>1, <3>2, OthersStand DEF Hauls
      <4>2. Sweeps(p)
        BY <1>0, <2>2, <4>1 DEF Sweeps
      <4>3. CASE Awaits(p, c)
        BY <1>0, <1>2, <2>1, <4>1, <4>3 DEF Awaits, Due
      <4>4. CASE Gone(p)
        BY <1>0, <4>1, <4>4 DEF Gone, At, Last
      <4> QED
        BY <2>1, <4>2, <4>3, <4>4
    <3> QED
      BY <3>1, <3>2
  <2> QED
    BY <2>1, <2>2
<1>3. CASE /\ b = <<q, Arg(q)>> /\ At(q) /\ Here(q).op \in Creates
           /\ Here(q).op = "up" => (b \in coming' => b \in coming)
  <2>1. p = q /\ c = Arg(q) /\ b = <<p, c>>
    BY <1>3
  <2>2. at[q] \in Steps(job[q], Creates) /\ Programs[job[q]][at[q]].arg = c
    BY <1>3, <2>1 DEF At, Last, Here, Arg, Steps
  <2>3. ASSUME Sweeps(p)' PROVE Awaits(p, c)' \/ Gone(p)'
    <3>1. CASE b \in coming
      <4>1. hurt[p] \subseteq hurt'[p]
        BY <2>1 DEF Hauls, Departs, Struck
      <4>2. Sweeps(p)
        BY <1>0, <2>3, <4>1 DEF Sweeps
      <4>3. Awaits(p, c) \/ Gone(p)
        BY <2>1, <3>1, <4>2 DEF CardInv
      <4>4. ~ Awaits(p, c)
        BY <1>3, <2>1, <3>1 DEF Awaits, Due, Here, Creates
      <4> QED
        BY <2>1, <4>3, <4>4, GoneStays
    <3>2. CASE b \notin coming
      BY <1>3, <2>1, <2>3, <3>2, NewAwaits
    <3> QED
      BY <3>1, <3>2
  <2> QED
    BY <2>1, <2>2, <2>3
<1> QED
  BY <1>1, <1>2, <1>3

\* The daemon creates what was asked for; nobody else touches the card.
Idly == /\ UNCHANGED <<job, at, hurt, lock>>
        /\ boxes' \cup coming' \subseteq boxes \cup coming /\ coming' \subseteq coming
        /\ service' = "off" <=> service = "off"

LEMMA IdlyCleans == ASSUME CardInv, Idly PROVE CardInv'
BY DEF CardInv, Idly, Brought, Awaits, Due, Gone, Sweeps, Driving, At, Last

\* Every step, as the card sees it.
LEMMA NextHauls ==
  ASSUME TypeOK, DOMAIN hurt = Procs, [Next]_vars
  PROVE  Idly \/ \E p \in Procs : Steady(p) /\ Hauls(p)
<1>1. CASE \E p \in Procs : Moves(p) \/ (Frail /\ (Falls(p) \/ Killed(p)))
  BY <1>1, ProcessHauls
<1>2. CASE Created \/ Healthy \/ (Frail /\ Crashes) \/ Rebuilt \/ UNCHANGED vars
  BY <1>2 DEF Created, Healthy, Crashes, Rebuilt, vars, control, world, serving, Idly
<1> QED
  BY <1>1, <1>2 DEF Next, Over

\* The cleanup, for all drivers.
LEMMA CardHolds == Spec => []CardInv
<1>1. Init => CardInv
  BY DEF Init, CardInv
<1>2. TypeOK /\ CardInv /\ [Next]_vars => CardInv'
  BY NextHauls, ProcessCleans, IdlyCleans DEF CardInv
<1> QED
  BY <1>1, <1>2, TypeCorrect, PTL DEF Spec

\* A driver that is gone left nothing on the card: wherever inside its try it was
\* struck, however often, the removal of each of its containers lay ahead on
\* every way out, unless the cleanup itself was struck, or came while a container
\* was still to be created or had no name to be removed by.
THEOREM CardIsCleared == Spec => []NothingLeftBehind
<1>1. TypeOK /\ CardInv => NothingLeftBehind
  <2> SUFFICES ASSUME TypeOK, CardInv, NEW p \in Procs, at[p] = 0, hurt[p] \cap {"kill", "outside"} = {},
                      Sweeps(p), NEW b \in boxes \cup coming, b[1] = p
               PROVE  FALSE
    BY DEF NothingLeftBehind
  <2>1. Awaits(p, b[2])
    BY DEF CardInv, Gone
  <2> QED
    BY <2>1 DEF Awaits, Due
<1> QED
  BY <1>1, CardHolds, TypeCorrect, PTL
-----------------------------------------------------------------------------
(* Production.  Beside drivers that touch it under the lock only, a driver  *)
(* that stopped it has it off until its containers are gone.                *)

Toll(j) == Gateway(j, Locks, Touches)
AllTame == \A p \in Procs : job[p] \in Tame
\* Behind its lock step a tame driver has the lock; between its stop and its
\* creation, production is off; so it is beside its containers.
Tolled == \A p \in Procs :
            job[p] \in Tame /\ Steps(job[p], Touches) # {} /\ Past(p, Toll(job[p])) => lock = p
Zoned == \A p \in Procs : \A u \in Steps(job[p], Creates) : \A s \in Steps(job[p], {"stop"}) :
           StopFor(job[p], s, u) /\ Driving(p) /\ at[p] \in (s + 1)..u => service = "off"
Unshared == \A b \in boxes \cup coming :
            job[b[1]] \in StopsFirst /\ Driving(b[1]) /\ Sweeps(b[1]) => service = "off"
AloneInv == Tolled /\ (AllTame => Zoned /\ Unshared)

LEMMA TollFacts ==
  ASSUME NEW j \in Jobs, j \in Tame, Steps(j, Touches) # {}
  PROVE  /\ Toll(j) \in 1..Len(Programs[j])
         /\ Programs[j][Toll(j)].op \in Locks
         /\ Steps(j, Touches) \cap 1..Toll(j) = {}
         /\ Passes(j, Toll(j))
BY GatewayFacts DEF Tame, Toll, Locks

\* Whoever touches production holds the lock.
LEMMA TouchersHold ==
  ASSUME TypeOK, Tolled, NEW p \in Procs, job[p] \in Tame, NEW n \in Steps(job[p], Touches),
         at[p] \in n..Last(p)
  PROVE  lock = p /\ Driving(p)
<1>1. job[p] \in Jobs
  BY JobTyped
<1>2. /\ Toll(job[p]) \in 1..Last(p) /\ n \notin 1..Toll(job[p])
      /\ n \in 1..Last(p) /\ Last(p) \in Nat
  BY <1>1, TollFacts, ProgramsAssumption DEF Steps, Last
<1>3. at[p] > Toll(job[p]) /\ at[p] <= Last(p) /\ at[p] # 0
  BY <1>2
<1>4. Driving(p)
  BY <1>3 DEF Driving, Tame
<1> QED
  BY <1>3, <1>4 DEF Tolled, Past

\* Off, production stays off unless a process begins it.
LEMMA StaysOff ==
  ASSUME NEW p \in Procs, Hauls(p), service = "off", ~ (At(p) /\ Here(p).op \in Begins)
  PROVE  service' = "off"
BY DEF Hauls, Serves

\* While one driver holds the lock, no other tame driver begins production.
LEMMA OthersLeaveOff ==
  ASSUME TypeOK, Tolled, AllTame, NEW q \in Procs, Hauls(q), service = "off", lock # q
  PROVE  service' = "off"
<1>1. ASSUME At(q), Here(q).op \in Begins PROVE FALSE
  <2>1. at[q] \in Steps(job[q], Touches) /\ at[q] \in at[q]..Last(q)
    <3>1. at[q] \in 1..Last(q) /\ at[q] \in Nat /\ Last(q) \in Nat
      BY <1>1, HandlerAhead DEF At
    <3> QED
      BY <1>1, <3>1 DEF Steps, Here, Last, Begins, Touches
  <2> QED
    BY <2>1, TouchersHold DEF AllTame
<1> QED
  BY <1>1, StaysOff

\* Behind its lock step a driver has the lock.
LEMMA TolledStays ==
  ASSUME TypeOK, Tolled, NEW q \in Procs, Steady(q)
  PROVE  Tolled'
<1>0. job' = job
  BY DEF Steady
<1> SUFFICES ASSUME NEW p \in Procs, job[p] \in Tame, Steps(job[p], Touches) # {},
                    NEW n, n = Toll(job[p]), Past(p, n)'
             PROVE  lock' = p
  BY <1>0 DEF Tolled, Past
<1>1. n \in 1..Last(p) /\ Programs[job[p]][n].op \in Locks /\ Passes(job[p], n)
  BY JobTyped, TollFacts DEF Last
<1>2. Past(p, n) => lock = p
  BY DEF Tolled, Past
<1>3. CASE p = q
  BY <1>1, <1>2, <1>3, BehindLock
<1>4. CASE p # q
  <2>1. Past(p, n)
    BY <1>0, <1>4, OthersStand DEF Past, Last
  <2> QED
    BY <1>2, <1>4, <2>1, LockStays
<1> QED
  BY <1>3, <1>4

\* A driver that comes between its stop and its creation has just stopped production.
LEMMA EntersZone ==
  ASSUME TypeOK, NEW p \in Procs, Steady(p), Hauls(p), Driving(p)',
         NEW u \in Steps(job[p], Creates), NEW s \in Steps(job[p], {"stop"}), StopFor(job[p], s, u),
         at'[p] \in (s + 1)..u, at[p] <= s
  PROVE  service' = "off"
<1>1. /\ at[p] \in Nat /\ at[p] > 0 /\ s \in 1..Last(p) /\ u \in 1..Last(p)
      /\ At(p) /\ Last(p) \in Nat /\ Programs[job[p]][s].op = "stop"
  <2>1. At(p)
    BY DrivesOn
  <2> QED
    BY <2>1, HandlerAhead DEF Steps, Last
<1>2. at[p] \in 1..s
  BY <1>1
<1>3. /\ at[p] + Here(p).h \notin (s + 1)..u
      /\ Here(p).op = "either" => at[p] + Arg(p) \notin (s + 1)..u
  BY <1>2 DEF StopFor, Here, Arg
<1>4. Last(p) + 1 \notin (s + 1)..u
  BY <1>1
<1>5. at'[p] # Handler(p)
  BY <1>3, <1>4 DEF Handler
<1>6. Smooth(p) /\ at'[p] = at[p] + 1
  BY <1>3, <1>5 DEF Hauls, Departs, Struck, Smooth
<1>7. at[p] = s
  BY <1>1, <1>6
<1> QED
  BY <1>1, <1>6, <1>7 DEF Smooth, Here

\* Between its stop and its creation a driver has production off.
LEMMA ZonedStays ==
  ASSUME TypeOK, Tolled, Zoned, AllTame, NEW q \in Procs, Steady(q), Hauls(q)
  PROVE  Zoned'
<1>0. job' = job
  BY DEF Steady
<1> SUFFICES ASSUME NEW p \in Procs, NEW u \in Steps(job[p], Creates), NEW s \in Steps(job[p], {"stop"}),
                    StopFor(job[p], s, u), Driving(p)', at'[p] \in (s + 1)..u
             PROVE  service' = "off"
  BY <1>0 DEF Zoned
<1>1. s \in 1..Last(p) /\ u \in 1..Last(p) /\ Last(p) \in Nat
  BY JobTyped, ProgramsAssumption DEF Steps, Last
<1>2. CASE p = q
  <2>1. Driving(p) /\ At(p) /\ at'[p] > at[p] /\ at[p] \in Nat
    BY <1>2, DrivesOn, HandlerAhead
  <2>2. CASE at[p] <= s
    BY <1>2, <2>2, EntersZone
  <2>3. CASE at[p] > s
    <3>1. at[p] \in (s + 1)..u /\ at[p] \in s..u
      BY <1>1, <2>1, <2>3
    <3>2. service = "off"
      BY <2>1, <3>1 DEF Zoned
    <3>3. at[p] \notin Steps(job[p], Begins)
      BY <3>1 DEF StopFor
    <3>4. Here(p).op \notin Begins
      BY <2>1, <3>3 DEF At, Last, Here, Steps
    <3> QED
      BY <1>2, <3>2, <3>4, StaysOff
  <2> QED
    BY <1>1, <2>1, <2>2, <2>3
<1>3. CASE p # q
  <2>1. at'[p] = at[p] /\ Driving(p)
    BY <1>3, OthersStand
  <2>2. service = "off"
    BY <2>1 DEF Zoned
  <2>3. s \in Steps(job[p], Touches) /\ at[p] \in s..Last(p)
    BY <1>1, <2>1 DEF Steps, Touches
  <2>4. lock = p
    BY <2>3, TouchersHold DEF AllTame
  <2> QED
    BY <1>3, <2>2, <2>4, OthersLeaveOff, ProcsAssumption
<1> QED
  BY <1>2, <1>3

\* A container's driver holds the lock.
LEMMA BoxesLock ==
  ASSUME TypeOK, HoldsLock, CardInv, AllTame, NEW b \in boxes \cup coming, Driving(b[1])
  PROVE  lock = b[1]
<1>1. PICK u \in Steps(job[b[1]], Creates) : TRUE
  BY DEF CardInv, Brought
<1>2. b[1] \in Procs /\ job[b[1]] \in Tame /\ job[b[1]] \in Jobs /\ u \in Steps(job[b[1]], Touches)
  BY <1>1, StartsAssumption DEF TypeOK, AllTame, Steps, Touches
<1>3. Before(job[b[1]], {"wait_lock", "try_lock"}, Touches)
  BY <1>2 DEF Tame
<1>4. Steps(job[b[1]], Creates) \subseteq Steps(job[b[1]], Touches)
  BY DEF Steps, Touches
<1>5. job[b[1]] \in Orderly
  BY <1>2, <1>3, <1>4 DEF Orderly, Before
<1> QED
  BY <1>5 DEF HoldsLock

\* Beside its containers a driver has production off.
LEMMA AloneStays ==
  ASSUME TypeOK, HoldsLock, CardInv, AllTame, Tolled, Zoned, Unshared, NEW q \in Procs, Steady(q), Hauls(q)
  PROVE  Unshared'
<1>0. job' = job
  BY DEF Steady
<1> SUFFICES ASSUME NEW b \in boxes' \cup coming', NEW p, p = b[1],
                    job[p] \in StopsFirst, Driving(p)', Sweeps(p)'
             PROVE  service' = "off"
  BY <1>0 DEF Unshared, Driving, Sweeps
<1>1. \/ b \in boxes \cup coming
      \/ b = <<q, Arg(q)>> /\ At(q) /\ Here(q).op \in Creates
  BY DEF Hauls, Hoists
<1>2. CASE p = q /\ b \in boxes \cup coming
  <2>1. Driving(p) /\ At(p)
    BY <1>2, DrivesOn
  <2>2. hurt[p] \subseteq hurt'[p]
    BY <1>2 DEF Hauls, Departs, Struck
  <2>3. Sweeps(p)
    BY <1>0, <2>2 DEF Sweeps
  <2>4. service = "off"
    BY <1>2, <2>1, <2>3 DEF Unshared
  <2>5. Awaits(p, b[2])
    BY <1>2, <2>1, <2>3 DEF CardInv, Gone
  <2>6. Here(p).op \notin Begins
    <3>1. CASE b[2] = Unnamed
      BY <2>5, <3>1 DEF Awaits, Due, Here, Begins
    <3>2. CASE b[2] # Unnamed
      <4>1. PICK d \in Steps(job[p], {"down"}) : Removal(job[p], at[p], b[2], d)
        BY <2>5, <3>2 DEF Awaits, Due
      <4>2. at[p] \in Nat /\ d \in Nat /\ at[p] <= d
        BY <1>2, <2>1, <4>1, HandlerAhead DEF Removal, Steps
      <4>3. at[p] \notin Steps(job[p], Begins)
        BY <4>1, <4>2 DEF Removal
      <4> QED
        BY <2>1, <4>3 DEF At, Last, Here, Steps
    <3> QED
      BY <3>1, <3>2
  <2> QED
    BY <1>2, <2>4, <2>6, StaysOff
<1>3. CASE p = q /\ b = <<q, Arg(q)>> /\ At(q) /\ Here(q).op \in Creates
  <2>1. Driving(p) /\ at[p] \in Nat /\ job[p] \in Jobs
    BY <1>3, DrivesOn, HandlerAhead, JobTyped
  <2>2. at[p] \in Steps(job[p], Creates)
    BY <1>3 DEF At, Last, Here, Steps
  <2>3. PICK s \in Steps(job[p], {"stop"}) : StopFor(job[p], s, at[p])
    BY <2>2 DEF StopsFirst
  <2>4. at[p] \in (s + 1)..at[p]
    BY <2>1, <2>3 DEF StopFor, Steps
  <2>5. service = "off"
    BY <1>3, <2>1, <2>2, <2>3, <2>4 DEF Zoned
  <2> QED
    BY <1>3, <2>5, StaysOff DEF Creates, Begins
<1>4. CASE p # q
  <2>1. <<q, Arg(q)>>[1] = q
    OBVIOUS
  <2>2. b \in boxes \cup coming
    BY <1>1, <1>4, <2>1
  <2>3. p \in Procs
    BY <2>2 DEF TypeOK
  <2>4. Driving(p) /\ hurt'[p] = hurt[p]
    BY <1>4, <2>3, OthersStand DEF Hauls
  <2>5. Sweeps(p)
    BY <1>0, <2>4 DEF Sweeps
  <2>6. service = "off" /\ lock = p
    BY <2>2, <2>4, <2>5, BoxesLock DEF Unshared
  <2> QED
    BY <1>4, <2>6, OthersLeaveOff
<1> QED
  BY <1>1, <1>2, <1>3, <1>4

\* Nobody else begins production that is off.
LEMMA IdlyAlone == ASSUME AloneInv, Idly PROVE AloneInv'
BY DEF AloneInv, AllTame, Tolled, Zoned, Unshared, Idly, Past, Driving, Sweeps, Last

\* In the beginning everybody is before his first step and the card is empty.
LEMMA InitAlone == Init => AloneInv
<1> SUFFICES ASSUME Init PROVE Tolled /\ Zoned /\ Unshared
  BY DEF AloneInv
<1>1. ASSUME NEW p \in Procs PROVE at[p] \in {0, 1} /\ job[p] \in Jobs /\ Last(p) \in Nat
  BY StartsAssumption, ProgramsAssumption DEF Init, Last
<1>2. Tolled
  <2> SUFFICES ASSUME NEW p \in Procs, job[p] \in Tame, Steps(job[p], Touches) # {}, Past(p, Toll(job[p]))
               PROVE  FALSE
    BY DEF Tolled
  <2>1. Toll(job[p]) \in 1..Last(p)
    BY <1>1, TollFacts DEF Last
  <2> QED
    BY <1>1, <2>1 DEF Past
<1>3. Zoned
  <2> SUFFICES ASSUME NEW p \in Procs, NEW u \in Steps(job[p], Creates), NEW s \in Steps(job[p], {"stop"}),
                      at[p] \in (s + 1)..u
               PROVE  FALSE
    BY DEF Zoned
  <2>1. s \in Nat /\ s > 0
    BY DEF Steps
  <2> QED
    BY <1>1, <2>1
<1>4. Unshared
  BY DEF Init, Unshared
<1> QED
  BY <1>2, <1>3, <1>4

\* Production, for all drivers.
LEMMA AloneHolds == Spec => []AloneInv
<1>1. TypeOK /\ HoldsLock /\ CardInv /\ AloneInv /\ [Next]_vars => AloneInv'
  <2> SUFFICES ASSUME TypeOK, HoldsLock, CardInv, AloneInv, NEW q \in Procs, Steady(q), Hauls(q)
               PROVE  AloneInv'
    BY NextHauls, IdlyAlone DEF CardInv
  <2>1. AllTame' = AllTame
    BY DEF AllTame, Steady
  <2>2. Tolled' /\ (AllTame => Zoned' /\ Unshared')
    BY TolledStays, ZonedStays, AloneStays DEF AloneInv
  <2> QED
    BY <2>1, <2>2 DEF AloneInv
<1> QED
  BY <1>1, InitAlone, LockHolds, CardHolds, TypeCorrect, PTL DEF Spec

\* A driver that stops production before it measures does measure without it,
\* beside any drivers that touch production under the lock only, for any number
\* of faults: it stops production behind its lock step, nothing leads past the
\* stop to a container, and nothing of it begins production before its containers
\* are gone.
THEOREM ProductionIsOff == Spec => []MeasuresAlone
<1>1. AloneInv => MeasuresAlone
  BY DEF AloneInv, AllTame, Unshared, MeasuresAlone
<1> QED
  BY <1>1, AloneHolds, PTL
-----------------------------------------------------------------------------
(* Restoration.  If production is off, some driver is between its stop and  *)
(* its start, or was struck where no clause could bring it to its start.    *)

Away(p) == \E s \in Steps(job[p], {"stop"}) : \E n \in Steps(job[p], {"start"}) :
             Returns(job[p], s, n) /\ at[p] \in (s + 1)..n
Lost(p) == hurt[p] \cap {"outside", "kill"} # {}
\* Whoever stops production restores it.
AllRestore == \A p \in Procs : Steps(job[p], {"stop"}) # {} => job[p] \in Restores
Missed == service = "off" => \E p \in Procs : Away(p) \/ Lost(p)
\* In the hook of a unit nobody has the lock.
Unhooked == \A p \in Procs : lock = p => \A n \in Posting[job[p]] : at[p] <= n
BackInv == Unhooked /\ (AllRestore => Missed)

\* Between stop and start a driver stays, but for the start itself, unless it is lost.
LEMMA StaysAway ==
  ASSUME TypeOK, NEW p \in Procs, Steady(p), Hauls(p), service' = "off",
         NEW s \in Steps(job[p], {"stop"}), NEW n \in Steps(job[p], {"start"}),
         Returns(job[p], s, n), at[p] \in s..n
  PROVE  Lost(p)' \/ at'[p] \in (s + 1)..n
<1>1. /\ s \in 1..Last(p) /\ n \in 1..Last(p) /\ Last(p) \in Nat /\ at[p] \in Nat
      /\ Programs[job[p]][n].op = "start"
  BY JobTyped, ProgramsAssumption DEF Steps, Last
<1>2. At(p) /\ at[p] # Last(p) + 1
  BY <1>1 DEF At
<1>3. Here(p).h \in Nat /\ (Here(p).op = "either" => Arg(p) \in Nat \ {0})
  BY <1>2, HandlerAhead
<1>4. /\ Here(p).op = "either" => at[p] + Arg(p) <= n
      /\ Here(p).h = 0 => Here(p).op \notin Fails
      /\ Here(p).h # 0 => at[p] + Here(p).h <= n
  BY DEF Returns, Here, Arg
<1>5. at[p] = n => Here(p).op = "start"
  BY <1>1 DEF Here
<1>6. CASE at'[p] = at[p] + 1 /\ at[p] # n
  BY <1>1, <1>6
<1>7. CASE at'[p] = at[p] + Arg(p) /\ Here(p).op = "either"
  BY <1>1, <1>3, <1>4, <1>7
<1>8. CASE at'[p] = Handler(p) /\ Here(p).h # 0
  BY <1>1, <1>3, <1>4, <1>8 DEF Handler
<1>9. CASE Departs(p)
  <2>1. CASE "kill" \in hurt'[p]
    BY <2>1 DEF Lost
  <2>2. CASE Now(p, "post") /\ at'[p] = at[p] + 1
    BY <1>5, <1>6, <2>2 DEF Now
  <2> QED
    BY <1>2, <1>9, <2>1, <2>2 DEF Departs
<1>10. CASE Struck(p)
  <2>1. CASE Here(p).h = 0
    BY <1>10, <2>1 DEF Struck, Where, Lost
  <2> QED
    BY <1>8, <1>10, <2>1 DEF Struck
<1>11. CASE Smooth(p)
  <2>1. at[p] # n
    BY <1>5, <1>11 DEF Smooth, Begins
  <2> QED
    BY <1>4, <1>6, <1>7, <1>8, <1>11, <2>1 DEF Smooth
<1> QED
  BY <1>9, <1>10, <1>11 DEF Hauls

\* If production is off after a step, some driver owes its start or is lost.
LEMMA MissedStays ==
  ASSUME TypeOK, AllRestore, Missed, NEW q \in Procs, Steady(q), Hauls(q)
  PROVE  Missed'
<1>0. job' = job
  BY DEF Steady
<1> SUFFICES ASSUME service' = "off" PROVE \E p \in Procs : Away(p)' \/ Lost(p)'
  BY DEF Missed
<1>1. ASSUME NEW s \in Steps(job[q], {"stop"}), NEW n \in Steps(job[q], {"start"}),
             Returns(job[q], s, n), at[q] \in s..n
      PROVE  Away(q)' \/ Lost(q)'
  BY <1>0, <1>1, StaysAway DEF Away
<1>2. CASE service # "off"
  <2>1. At(q) /\ Here(q).op = "stop"
    BY <1>2 DEF Hauls, Serves
  <2>2. at[q] \in Steps(job[q], {"stop"})
    BY <2>1 DEF At, Last, Here, Steps
  <2>3. PICK s \in Steps(job[q], {"stop"}) : \E n \in Steps(job[q], {"start"}) : Returns(job[q], s, n)
    BY <2>2 DEF AllRestore, Restores
  <2>4. PICK n \in Steps(job[q], {"start"}) : Returns(job[q], s, n)
    BY <2>3
  <2>5. at[q] \in s..n
    BY <2>2, <2>4 DEF Returns
  <2> QED
    BY <1>1, <2>4, <2>5
<1>3. CASE service = "off"
  <2>1. PICK p \in Procs : Away(p) \/ Lost(p)
    BY <1>3 DEF Missed
  <2>2. hurt[p] \subseteq hurt'[p]
    BY DEF Hauls, Departs, Struck
  <2>3. CASE Lost(p)
    BY <2>2, <2>3 DEF Lost
  <2>4. CASE Away(p) /\ p # q
    <3>1. at'[p] = at[p]
      BY <2>4, OthersStand
    <3> QED
      BY <1>0, <2>4, <3>1 DEF Away
  <2>5. CASE Away(p) /\ p = q
    <3>1. PICK s \in Steps(job[p], {"stop"}) : \E n \in Steps(job[p], {"start"}) :
            Returns(job[p], s, n) /\ at[p] \in (s + 1)..n
      BY <2>5 DEF Away
    <3>2. PICK n \in Steps(job[p], {"start"}) : Returns(job[p], s, n) /\ at[p] \in (s + 1)..n
      BY <3>1
    <3>3. s \in Nat
      BY DEF Steps
    <3>4. at[p] \in s..n
      BY <3>2, <3>3
    <3> QED
      BY <1>1, <2>5, <3>2, <3>4
  <2> QED
    BY <2>1, <2>3, <2>4, <2>5
<1> QED
  BY <1>2, <1>3

\* Nobody comes into the hook of its unit with the lock.
LEMMA UnhookedStays ==
  ASSUME TypeOK, Unhooked, NEW q \in Procs, Steady(q), Hauls(q)
  PROVE  Unhooked'
<1>0. job' = job
  BY DEF Steady
<1> SUFFICES ASSUME NEW p \in Procs, lock' = p, NEW n \in Posting[job[p]] PROVE at'[p] <= n
  BY <1>0 DEF Unhooked
<1>1. job[p] \in Jobs
  BY JobTyped
<1>2. n \in 1..Last(p) /\ Programs[job[p]][n].op = "post" /\ Last(p) \in Nat
  BY <1>1, PostingIsSteps, ProgramsAssumption DEF Steps, Last
<1>3. CASE p # q
  <2>1. at'[p] = at[p]
    BY <1>3, OthersStand
  <2>2. lock = p
    BY <1>3, ProcsAssumption DEF Steady
  <2> QED
    BY <2>1, <2>2 DEF Unhooked
<1>4. CASE p = q
  <2>1. /\ At(p) /\ Here(p).op # "post"
        /\ \/ at'[p] = at[p] + 1
           \/ at'[p] = at[p] + Arg(p) /\ Here(p).op = "either"
           \/ at'[p] = Handler(p)
    BY <1>4 DEF Hauls, Departs, Struck, Smooth
  <2>2. at[p] \in 1..Last(p) /\ at[p] \in Nat /\ at[p] # n
    <3>1. at[p] \in 1..Last(p) /\ at[p] \in Nat
      BY <2>1, HandlerAhead DEF At
    <3> QED
      BY <1>2, <2>1, <3>1 DEF Here
  <2>3. at[p] <= n
    <3>1. CASE lock = p
      BY <3>1 DEF Unhooked
    <3>2. CASE lock # p
      <4>1. Here(p).op \in {"wait_lock", "try_lock"}
        BY <1>4, <3>2, ProcsAssumption DEF Steady, Locks
      <4>2. at[p] \in Steps(job[p], {"wait_lock", "try_lock"})
        BY <2>2, <4>1 DEF Steps, Here, Last
      <4>3. at[p] \notin n..Last(p)
        BY <1>1, <4>2, RestorationAssumption DEF Last
      <4> QED
        BY <1>2, <2>2, <4>3
    <3> QED
      BY <3>1, <3>2
  <2>4. at[p] \in 1..(n - 1)
    BY <1>2, <2>2, <2>3
  <2>5. /\ Here(p).h # 0 /\ at[p] + Here(p).h <= n
        /\ Here(p).op = "either" => at[p] + Arg(p) <= n
    BY <1>1, <2>4, RestorationAssumption DEF Here, Arg
  <2>6. at[p] + 1 <= n
    BY <1>2, <2>4
  <2> QED
    BY <2>1, <2>5, <2>6 DEF Handler
<1> QED
  BY <1>3, <1>4

\* Restoration, for all drivers.
LEMMA BackHolds == Spec => []BackInv
<1>1. Init => BackInv
  <2> SUFFICES ASSUME Init PROVE BackInv
    OBVIOUS
  <2>1. lock \notin Procs /\ service # "off"
    BY ProcsAssumption DEF Init
  <2> QED
    BY <2>1 DEF BackInv, Unhooked, Missed
<1>2. TypeOK /\ CardInv /\ BackInv /\ [Next]_vars => BackInv'
  <2> SUFFICES ASSUME TypeOK, CardInv, BackInv, [Next]_vars PROVE BackInv'
    OBVIOUS
  <2>1. CASE Idly
    BY <2>1 DEF Idly, BackInv, Unhooked, AllRestore, Missed, Away, Lost
  <2>2. ASSUME NEW q \in Procs, Steady(q), Hauls(q) PROVE BackInv'
    <3>1. AllRestore' = AllRestore
      BY <2>2 DEF AllRestore, Steady
    <3> QED
      BY <2>2, <3>1, MissedStays, UnhookedStays DEF BackInv
  <2> QED
    BY <2>1, <2>2, NextHauls DEF CardInv
<1> QED
  BY <1>1, <1>2, CardHolds, TypeCorrect, PTL DEF Spec

\* Production comes back: a driver that restores it and ends with the lock, or as
\* the last one, ends with production up or being started, after any number of
\* faults inside its try, unless it was killed.
THEOREM ProductionReturns == Spec => ProductionComesBack
<1> DEFINE Back == \A p \in Procs :
                     (/\ Leaves(p)
                      /\ job[p] \in Restores
                      /\ lock = p \/ \A q \in Procs \ {p} : at[q] = 0
                      /\ \A q \in Procs : hurt'[q] \cap {"outside", "kill"} = {}) => service # "off"
<1>1. ASSUME TypeOK, CardInv, AloneInv, BackInv, [Next]_vars PROVE Back
  <2> SUFFICES ASSUME NEW p \in Procs, Leaves(p), job[p] \in Restores,
                      lock = p \/ \A q \in Procs \ {p} : at[q] = 0,
                      \A q \in Procs : hurt'[q] \cap {"outside", "kill"} = {},
                      service = "off"
               PROVE  FALSE
    OBVIOUS
  <2>1. Steady(p) /\ Hauls(p)
    <3>1. PICK q \in Procs : Steady(q) /\ Hauls(q)
      BY <1>1, NextHauls DEF CardInv, Idly, Leaves
    <3>2. q = p
      BY <1>1, <3>1, OthersStand DEF Leaves
    <3> QED
      BY <3>1, <3>2
  <2>2. at[p] = Last(p) + 1
    <3>1. At(p) => Handler(p) # 0 /\ at[p] + 1 # 0 /\ (Here(p).op = "either" => at[p] + Arg(p) # 0)
      BY <1>1, HandlerAhead
    <3>2. at'[p] = 0 /\ "kill" \notin hurt'[p]
      BY DEF Leaves
    <3> QED
      BY <2>1, <3>1, <3>2 DEF Hauls, Departs, Struck, Smooth, Now
  <2>3. job \in Starts /\ job[p] \in Jobs /\ Last(p) \in Nat
    BY <1>1, StartsAssumption, ProgramsAssumption DEF TypeOK, Last
  <2>4. \A q \in Procs : Steps(job[q], {"stop"}) # {} =>
          job[q] \in Restores /\ (p = q \/ Posting[job[p]] # {} \/ job[q] \in Tame)
    BY <2>3, RestorationAssumption
  <2>5. PICK q \in Procs : Away(q) \/ Lost(q)
    BY <1>1, <2>4 DEF BackInv, AllRestore, Missed
  <2>6. ~ Lost(q)
    <3>1. hurt[q] \subseteq hurt'[q]
      BY <2>1 DEF Hauls, Departs, Struck
    <3> QED
      BY <3>1 DEF Lost
  <2>7. PICK s \in Steps(job[q], {"stop"}) : \E n \in Steps(job[q], {"start"}) : at[q] \in (s + 1)..n
    BY <2>5, <2>6 DEF Away
  <2>8. /\ at[q] \in s..Last(q) /\ at[q] # 0 /\ at[q] # Last(q) + 1
        /\ s \in Steps(job[q], Touches)
    <3>1. PICK n \in Steps(job[q], {"start"}) : at[q] \in (s + 1)..n
      BY <2>7
    <3>2. s \in 1..Last(q) /\ n \in 1..Last(q) /\ Last(q) \in Nat /\ Programs[job[q]][s].op = "stop"
      <4>1. job[q] \in Jobs
        BY <1>1, JobTyped
      <4> QED
        BY <4>1, ProgramsAssumption DEF Steps, Last
    <3> QED
      BY <3>1, <3>2 DEF Steps, Last, Touches
  <2>9. q # p /\ lock = p
    BY <2>2, <2>8
  <2>10. Posting[job[p]] = {}
    <3> SUFFICES ASSUME NEW n \in Posting[job[p]] PROVE FALSE
      OBVIOUS
    <3>1. n \in 1..Last(p)
      BY <2>3, PostingIsSteps DEF Steps, Last
    <3>2. at[p] <= n
      BY <1>1, <2>9 DEF BackInv, Unhooked
    <3> QED
      BY <2>2, <2>3, <3>1, <3>2
  <2>11. job[q] \in Tame
    BY <2>4, <2>7, <2>9, <2>10
  <2> QED
    BY <1>1, <2>8, <2>9, <2>11, TouchersHold DEF AloneInv
<1> QED
  BY <1>1, CardHolds, AloneHolds, BackHolds, TypeCorrect, PTL DEF Spec, ProductionComesBack
=============================================================================
