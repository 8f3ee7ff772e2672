----------------------- MODULE DriverRecordsProofs -----------------------
(* The records of Drivers, for any drivers of the shape RecordsAssumption,  *)
(* EvidenceAssumption, AttestingAssumption and ReportAssumption describe:   *)
(* any processes beside each other, any faults, any images built meanwhile. *)
EXTENDS DriversProofs

(* What a step of p does to the records and to the memory of its process.   *)
Writing(p) ==
  \/ file' = file
  \/ /\ At(p)
     /\ \/ Here(p).op = "open" /\ file[job[p]].status = Absent /\ Record(p, Running)
        \/ Here(p).op = "reopen" /\ file' = [file EXCEPT ![job[p]].status = Running]
        \/ Here(p).op = "announce" /\ Record(p, Running)
        \/ Here(p).op = "save" /\ Record(p, noted[p])
        \/ Here(p).op = "except_save" /\ Record(p, Failed)
Imaging(p) ==
  \/ image' = image
  \/ At(p) /\ Here(p).op = "inspect" /\ image' = [image EXCEPT ![p] = tag]
  \/ ~ Driving(p)' /\ image' = [image EXCEPT ![p] = NoImage]
Noting(p) ==
  \/ noted' = noted
  \/ At(p) /\ Here(p).op \in {"open", "reopen"} /\ noted' = [noted EXCEPT ![p] = Running]
  \/ At(p) /\ Here(p).op = "note" /\ \E s \in Arg(p) : noted' = [noted EXCEPT ![p] = s]
  \/ At(p) /\ Here(p).op \in {"except", "except_save"} /\ noted' = [noted EXCEPT ![p] = Failed]
  \/ ~ Driving(p)' /\ noted' = [noted EXCEPT ![p] = Absent]
Hosting(p) == ran' = ran \/ (At(p) /\ Here(p).op \in Creates /\ Runs(p))
Succeeding(p) ==
  Succeeds(p) =>
    /\ Here(p).op = "open" => /\ file[job[p]].status = Absent /\ Record(p, Running)
                              /\ noted' = [noted EXCEPT ![p] = Running]
    /\ Here(p).op = "need" => Read(Arg(p)) = Final(image[p])
    /\ Here(p).op = "inspect" => image' = [image EXCEPT ![p] = tag]
Tale(p) == Writing(p) /\ Imaging(p) /\ Noting(p) /\ Hosting(p) /\ Succeeding(p)

\* Steps that change neither records nor memory, and prove nothing of them.
LEMMA IdleTale ==
  ASSUME NEW p \in Procs, UNCHANGED <<memory, file>>,
         At(p) => Here(p).op \notin {"open", "need", "inspect"} \/ at'[p] = Handler(p)
  PROVE  Tale(p)
BY DEF memory, Tale, Writing, Imaging, Noting, Hosting, Succeeding, Succeeds

\* Steps with which a process leaves, or its unit goes on to ExecStopPost.
LEMMA LeavingTale ==
  ASSUME TypeOK, NEW p \in Procs, Steady(p), Hooks(p) \/ Ends(p) \/ Killed(p)
  PROVE  Tale(p)
<1>1. UNCHANGED <<ran, file>> /\ Forgets(p)
  BY DEF Hooks, Ends, Killed
<1>2. ~ Driving(p)'
  BY LeavesDriving
<1> QED
  BY <1>1, <1>2 DEF Forgets, Tale, Writing, Imaging, Noting, Hosting, Succeeding, Succeeds

\* An error or a signal, before or after the operation took effect.
LEMMA StruckTale ==
  ASSUME TypeOK, NEW p \in Procs, Falls(p)
  PROVE  Tale(p)
<1>1. At(p) /\ Halfway(p) /\ at'[p] = Handler(p)
  BY ThrowGoes DEF Falls, Raises, Interrupted
<1>2. UNCHANGED <<image, noted>>
  BY <1>1 DEF Halfway, memory, Saving, Stopping, Starting, Restarting, Serving, Creating, Asking, Leaving,
              Removing, Boxing
<1>3. Writing(p)
  BY <1>1 DEF Halfway, Writing, Now, world, Saving, Stopping, Starting, Restarting, Serving, Creating,
              Asking, Leaving, Removing, Boxing
<1>4. Hosting(p)
  BY <1>1 DEF Halfway, Hosting, Now, Creates, memory, Saving, Stopping, Starting, Restarting, Serving,
              Creating, Asking, Leaving, Removing, Boxing
<1>5. Imaging(p) /\ Noting(p) /\ Succeeding(p)
  BY <1>1, <1>2 DEF Imaging, Noting, Succeeding, Succeeds
<1> QED
  BY <1>3, <1>4, <1>5 DEF Tale

\* Steps that only look.
LEMMA LooksTale ==
  ASSUME TypeOK, NEW p \in Procs,
         Check(p) \/ AwaitService(p) \/ PollsService(p) \/ SeesOutcome(p) \/ Readies(p)
  PROVE  Tale(p)
<1>1. CASE Check(p)
  <2>1. UNCHANGED <<memory, file>> /\ Here(p).op \notin {"open", "inspect"}
    BY <1>1 DEF Check, Looks, world
  <2>2. Here(p).op = "need" => (Read(Arg(p)) = Final(image[p]) \/ at'[p] = Handler(p))
    BY <1>1, ThrowGoes DEF Check, Demand, Holds
  <2> QED
    BY <2>1, <2>2 DEF memory, Tale, Writing, Imaging, Noting, Hosting, Succeeding, Succeeds
<1>2. CASE AwaitService(p) \/ PollsService(p) \/ SeesOutcome(p) \/ Readies(p)
  BY <1>2, IdleTale DEF AwaitService, PollsService, SeesOutcome, Readies, Now, world
<1> QED
  BY <1>1, <1>2

\* Steps of the driver's own memory and of its record.
LEMMA RecordsTale ==
  ASSUME TypeOK, NEW p \in Procs,
         Inspects(p) \/ Notes(p) \/ Opens(p) \/ Reopens(p) \/ Announces(p) \/ Saves(p)
  PROVE  Tale(p)
<1>1. CASE Inspects(p)
  BY <1>1 DEF Inspects, Now, world, Tale, Writing, Imaging, Noting, Hosting, Succeeding, Succeeds
<1>2. CASE Notes(p)
  BY <1>2 DEF Notes, Now, world, Tale, Writing, Imaging, Noting, Hosting, Succeeding, Succeeds
<1>3. CASE Opens(p)
  <2>1. file[job[p]].status = Absent \/ at'[p] = Handler(p)
    BY <1>3, ThrowGoes DEF Opens, Demand
  <2> QED
    BY <1>3, <2>1 DEF Opens, Now, Tale, Writing, Imaging, Noting, Hosting, Succeeding, Succeeds
<1>4. CASE Reopens(p)
  BY <1>4 DEF Reopens, Now, Tale, Writing, Imaging, Noting, Hosting, Succeeding, Succeeds
<1>5. CASE Announces(p)
  BY <1>5 DEF Announces, Now, memory, Tale, Writing, Imaging, Noting, Hosting, Succeeding, Succeeds
<1>6. CASE Saves(p)
  BY <1>6 DEF Saves, Saving, Now, memory, Tale, Writing, Imaging, Noting, Hosting, Succeeding, Succeeds
<1> QED
  BY <1>1, <1>2, <1>3, <1>4, <1>5, <1>6

\* Steps of the lock and of the service.
LEMMA ServiceTale ==
  ASSUME TypeOK, NEW p \in Procs,
         \/ WaitsForLock(p) \/ TriesLock(p) \/ Stops(p) \/ StartsService(p) \/ RestartsService(p)
         \/ Identifies(p) \/ Asks(p)
  PROVE  Tale(p)
<1>1. UNCHANGED <<memory, file>>
  BY DEF WaitsForLock, TriesLock, Takes, Stops, StartsService, RestartsService, Stopping, Starting,
         Restarting, Serving, Identifies, Asks, world
<1>2. Here(p).op \notin {"open", "need", "inspect"}
  BY DEF WaitsForLock, TriesLock, Stops, StartsService, RestartsService, Identifies, Asks, Now
<1> QED
  BY <1>1, <1>2, IdleTale

\* Steps of containers.
LEMMA BoxesTale ==
  ASSUME TypeOK, NEW p \in Procs, Ups(p) \/ Exits(p) \/ Spawns(p) \/ Downs(p)
  PROVE  Tale(p)
<1>1. UNCHANGED <<image, noted, file>>
  BY DEF Ups, Exits, Spawns, Downs, Creating, Asking, Leaving, Removing, Boxing, memory, world
<1>2. At(p) /\ Here(p).op \notin {"open", "need", "inspect"}
  BY DEF Ups, Exits, Spawns, Downs, Now
<1>3. Hosting(p)
  BY <1>2 DEF Ups, Exits, Spawns, Downs, Creating, Asking, Leaving, Removing, Boxing, memory, Now, Creates,
              Hosting
<1> QED
  BY <1>1, <1>2, <1>3 DEF Tale, Writing, Imaging, Noting, Succeeding, Succeeds

\* Steps that let an exception pass, note it or swallow it, and choices.
LEMMA ClausesTale ==
  ASSUME TypeOK, NEW p \in Procs, Excepts(p) \/ Swallows(p) \/ Reraises(p) \/ Chooses(p)
  PROVE  Tale(p)
<1>1. CASE Excepts(p)
  BY <1>1 DEF Excepts, Now, Tale, Writing, Imaging, Noting, Hosting, Succeeding, Succeeds
<1>2. CASE Swallows(p) \/ Reraises(p) \/ Chooses(p)
  BY <1>2, IdleTale DEF Swallows, Reraises, Chooses, Now, world
<1> QED
  BY <1>1, <1>2

\* Every step of a process.
LEMMA TaleTold ==
  ASSUME TypeOK, NEW p \in Procs, Moves(p) \/ (Frail /\ (Falls(p) \/ Killed(p)))
  PROVE  Steady(p) /\ Tale(p)
<1>1. Steady(p)
  BY ProcessKeeps
<1>2. CASE Moves(p)
  BY <1>1, <1>2, LeavingTale, LooksTale, RecordsTale, ServiceTale, BoxesTale, ClausesTale
     DEF Moves, Waits, Writes, Commands, Contains, Turns
<1>3. CASE Frail /\ (Falls(p) \/ Killed(p))
  BY <1>1, <1>3, LeavingTale, StruckTale
<1> QED
  BY <1>1, <1>2, <1>3

\* The daemon, systemd and whoever builds images leave the records alone.
Aside == Quiet /\ UNCHANGED <<image, noted, ran, file>>

\* Every step is a step of a process, or leaves records and memory alone.
LEMMA NextTale ==
  ASSUME TypeOK, [Next]_vars
  PROVE  TypeOK' /\ (Aside \/ \E p \in Procs : Steady(p) /\ Tale(p))
<1>1. CASE \E p \in Procs : Moves(p) \/ (Frail /\ (Falls(p) \/ Killed(p)))
  BY <1>1, TaleTold, ProcessKeeps
<1>2. CASE Created \/ Healthy \/ (Frail /\ Crashes) \/ Rebuilt \/ UNCHANGED vars
  <2>1. TypeOK' /\ Quiet
    BY <1>2, WorldKeeps
  <2>2. UNCHANGED <<image, noted, ran, file>>
    BY <1>2 DEF Created, Healthy, Crashes, Rebuilt, vars, memory, world
  <2> QED
    BY <2>1, <2>2 DEF Aside
<1> QED
  BY <1>1, <1>2 DEF Next, Over
-----------------------------------------------------------------------------
(* Authors.                                                                 *)

\* The gate of a driver that is guarded.
Door(j) == Gateway(j, {"open"}, Tells \cup Creates \cup {"reopen"})

LEMMA DoorFacts ==
  ASSUME NEW j \in Jobs, j \in Guarded
  PROVE  /\ Door(j) \in 1..Len(Programs[j])
         /\ Programs[j][Door(j)].op = "open"
         /\ Steps(j, Tells \cup Creates \cup {"reopen"}) \cap 1..Door(j) = {}
         /\ Passes(j, Door(j))
<1>1. /\ Door(j) \in 1..Len(Programs[j])
      /\ Programs[j][Door(j)].op \in {"open"}
      /\ Steps(j, Tells \cup Creates \cup {"reopen"}) \cap 1..Door(j) = {}
      /\ Passes(j, Door(j))
  BY GatewayFacts DEF Guarded, Door
<1> QED
  BY <1>1

\* The process may write: it is driving, and its directory was made if it makes one.
Author(p) == /\ Driving(p) /\ at[p] <= Last(p)
             /\ job[p] \in Guarded => at[p] > Door(job[p])

\* What writes or starts a container is done by an author, or opens.
LEMMA AuthorsWrite ==
  ASSUME TypeOK, NEW p \in Procs, At(p), Here(p).op \in Tells \cup Creates \cup {"reopen"}
  PROVE  Author(p)
<1>1. job[p] \in Jobs /\ at[p] \in 1..Last(p) /\ Last(p) \in Nat /\ at[p] \in Nat
  BY HandlerAhead, JobTyped DEF At
<1>2. at[p] \in Steps(job[p], Tells \cup Creates \cup {"reopen"})
      /\ at[p] \in Steps(job[p], Tells \cup Creates \cup {"open", "reopen"})
  BY <1>1 DEF Steps, Here, Last
<1>3. Driving(p)
  <2>1. ASSUME NEW n \in Posting[job[p]] PROVE at[p] < n
    <3>1. n \in Nat
      BY <1>1, PostingIsSteps, ProgramsAssumption DEF Steps
    <3>2. at[p] \notin n..Last(p)
      BY <1>1, <1>2, RecordsAssumption DEF Last
    <3> QED
      BY <1>1, <3>1, <3>2
  <2> QED
    BY <1>1, <2>1 DEF Driving
<1>4. job[p] \in Guarded => at[p] > Door(job[p])
  <2>1. ASSUME job[p] \in Guarded PROVE at[p] > Door(job[p])
    <3>1. at[p] \notin 1..Door(job[p]) /\ Door(job[p]) \in 1..Last(p)
      BY <1>1, <1>2, <2>1, DoorFacts DEF Last
    <3> QED
      BY <1>1, <3>1
  <2> QED
    BY <2>1
<1> QED
  BY <1>1, <1>3, <1>4 DEF Author

\* An author after a step was one before, or has just made its directory.
LEMMA AuthorsStay ==
  ASSUME TypeOK, NEW p \in Procs, Steady(p), Author(p)'
  PROVE  /\ At(p) /\ Driving(p)
         /\ Author(p) \/ (job[p] \in Guarded /\ Here(p).op = "open" /\ Succeeds(p))
<1>1. At(p) /\ Driving(p) /\ job' = job /\ job[p] \in Jobs /\ at[p] <= Last(p)
  <2>1. At(p) /\ Driving(p)
    BY DrivesOn DEF Author
  <2> QED
    BY <2>1, HandlerAhead, JobTyped DEF Steady
<1>2. CASE job[p] \notin Guarded
  BY <1>1, <1>2 DEF Author
<1>3. CASE job[p] \in Guarded
  <2>1. Door(job[p]) \in 1..Last(p) /\ Passes(job[p], Door(job[p])) /\ Programs[job[p]][Door(job[p])].op = "open"
    BY <1>1, <1>3, DoorFacts DEF Last
  <2>2. Past(p, Door(job[p]))'
    BY <1>1, <1>3 DEF Author, Past, Last
  <2>3. Past(p, Door(job[p])) \/ (at[p] = Door(job[p]) /\ Succeeds(p))
    BY <2>1, <2>2, <1>1, ThroughGate DEF Past, Driving, Last
  <2> QED
    BY <1>1, <1>3, <2>1, <2>3 DEF Past, Author, Here
<1> QED
  BY <1>1, <1>2, <1>3

\* A step of p leaves every other process an author or not, and its memory alone.
LEMMA OthersWrite ==
  ASSUME TypeOK, NEW p \in Procs, NEW q \in Procs, q # p, Steady(p), Tale(p)
  PROVE  /\ at'[q] = at[q] /\ (Driving(q)' <=> Driving(q)) /\ (Author(q)' <=> Author(q))
         /\ image'[q] = image[q] /\ noted'[q] = noted[q] /\ ran'[q] = ran[q] /\ job'[q] = job[q]
<1>1. at'[q] = at[q] /\ (Driving(q)' <=> Driving(q)) /\ job' = job
  BY OthersStand DEF Steady
<1>2. image'[q] = image[q] /\ noted'[q] = noted[q] /\ ran'[q] = ran[q]
  BY DEF Tale, Imaging, Noting, Hosting, Runs, TypeOK
<1> QED
  BY <1>1, <1>2 DEF Author, Last
-----------------------------------------------------------------------------
(* Once complete, a record is settled: its author has come past the save of *)
(* its result and can only confirm it or fail, on the same image.           *)
Sole(k) == \A p, q \in Procs : job[p] = k /\ job[q] = k => p = q
Kept(k) == k \in Guarded \/ Sole(k)
Concluded(p) == \E n \in Results(job[p]) : n < at[p]
Settled(k) ==
  k \in DOMAIN file =>
    /\ file[k].status \in {Complete, Failed}
    /\ \A q \in Procs :
         job[q] = k /\ Author(q) => /\ Concluded(q)
                                    /\ image[q] = file[k].image
                                    /\ noted[q] \in {Complete, Failed}

\* A result is noted where the program notes it.
Resolved ==
  \A p \in Procs :
    Driving(p) /\ noted[p] = Complete =>
      \E m \in Steps(job[p], {"note"}) : m < at[p] /\ Complete \in Programs[job[p]][m].arg
\* One process made the directory of a guarded driver.
OpenedOnce ==
  \A p \in Procs :
    Author(p) /\ job[p] \in Guarded =>
      /\ file[job[p]].status # Absent /\ noted[p] # Absent
      /\ \A q \in Procs : Author(q) /\ job[q] = job[p] => q = p
SettledOnes == \A k \in DOMAIN file : Kept(k) /\ file[k].status = Complete => Settled(k)
RecordsInv == Resolved /\ OpenedOnce /\ SettledOnes

\* A driver that saved its result begins, announces, notes and inspects no more.
LEMMA NothingAfterResult ==
  ASSUME TypeOK, NEW p \in Procs, At(p), Concluded(p)
  PROVE  Here(p).op \notin {"open", "reopen", "announce", "note", "inspect"}
<1> DEFINE Late == {"open", "reopen", "announce", "note", "inspect"}
<1>1. job[p] \in Jobs
  BY JobTyped
<1>2. at[p] \in 1..Last(p) /\ Last(p) \in Nat
  BY HandlerAhead DEF At
<1>3. PICK n \in Results(job[p]) : n < at[p]
  BY DEF Concluded
<1>4. n \in 1..Last(p)
  BY <1>3 DEF Results, Steps, Last
<1>5. at[p] \notin Steps(job[p], Late)
  <2>1. Steps(job[p], Late) \cap n..Last(p) = {}
    BY <1>1, <1>3, RecordsAssumption DEF Last
  <2>2. at[p] \in n..Last(p)
    BY <1>2, <1>3, <1>4
  <2> QED
    BY <2>1, <2>2
<1> QED
  BY <1>2, <1>5 DEF Steps, Here, Last

\* The statuses are different.
LEMMA StatusesDiffer ==
  /\ Complete # Failed /\ Complete # Running /\ Complete # Absent
  /\ Failed # Absent /\ Running # Absent
BY DEF Complete, Failed, Running, Absent

\* What the record of a driver says after a step of it.
LEMMA WritingSays ==
  ASSUME TypeOK, NEW p \in Procs, Writing(p), NEW k \in DOMAIN file
  PROVE  /\ DOMAIN file' = DOMAIN file
         /\ job[p] # k => file'[k] = file[k]
         /\ job[p] = k =>
              \/ file'[k] = file[k]
              \/ /\ At(p)
                 /\ \/ Here(p).op = "open" /\ file[k].status = Absent /\ file'[k].status = Running
                    \/ Here(p).op = "reopen" /\ file'[k].status = Running
                    \/ Here(p).op = "announce" /\ file'[k].status = Running
                    \/ Here(p).op = "save" /\ file'[k].status = noted[p] /\ file'[k].image = image[p]
                    \/ Here(p).op = "except_save" /\ file'[k].status = Failed /\ file'[k].image = image[p]
<1>1. file \in [DOMAIN file -> Records]
  BY DEF TypeOK
<1>2. file[k] \in Records
  BY <1>1
<1> QED
  BY <1>1, <1>2 DEF Writing, Record, Records

\* A settled record stays settled, on its image, whatever process goes on.
LEMMA SettledStays ==
  ASSUME TypeOK, OpenedOnce, NEW p \in Procs, Steady(p), Tale(p), NEW k \in DOMAIN file, Settled(k)
  PROVE  Settled(k)' /\ file'[k].image = file[k].image /\ file'[k].status \in {Complete, Failed}
<1>0. job' = job /\ DOMAIN file' = DOMAIN file
  BY WritingSays DEF Steady, Tale
<1>1. file[k].status \in {Complete, Failed} /\ file[k].status # Absent
  BY StatusesDiffer DEF Settled
<1>2. file'[k].image = file[k].image /\ file'[k].status \in {Complete, Failed}
  <2>1. CASE job[p] # k
    BY <1>1, <2>1, WritingSays DEF Tale
  <2>2. CASE job[p] = k /\ file'[k] = file[k]
    BY <1>1, <2>2
  <2>3. CASE job[p] = k /\ file'[k] # file[k]
    <3>1. /\ At(p)
          /\ \/ Here(p).op \in {"reopen", "announce"}
             \/ Here(p).op = "save" /\ file'[k].status = noted[p] /\ file'[k].image = image[p]
             \/ Here(p).op = "except_save" /\ file'[k].status = Failed /\ file'[k].image = image[p]
      BY <1>1, <2>3, WritingSays DEF Tale
    <3>2. Author(p)
      BY <3>1, AuthorsWrite DEF Tells
    <3>3. Concluded(p) /\ image[p] = file[k].image /\ noted[p] \in {Complete, Failed}
      BY <2>3, <3>2 DEF Settled
    <3> QED
      BY <3>1, <3>3, NothingAfterResult
  <2> QED
    BY <2>1, <2>2, <2>3
<1>3. ASSUME NEW q \in Procs, job[q] = k, Author(q)'
      PROVE  Concluded(q)' /\ image'[q] = file'[k].image /\ noted'[q] \in {Complete, Failed}
  <2>1. CASE q # p
    <3>1. Author(q) /\ at'[q] = at[q] /\ image'[q] = image[q] /\ noted'[q] = noted[q]
      BY <1>3, <2>1, OthersWrite
    <3> QED
      BY <1>0, <1>2, <1>3, <3>1 DEF Settled, Concluded
  <2>2. CASE q = p
    <3>1. At(p) /\ Driving(p)' /\ at'[p] > at[p] /\ at'[p] \in Nat /\ at[p] \in Nat
      BY <1>3, <2>2, DrivesOn DEF Author, Steady, TypeOK
    <3>2. Author(p)
      <4>1. Succeeds(p) /\ Here(p).op = "open" => file[job[p]].status = Absent
        BY DEF Tale, Succeeding
      <4> QED
        BY <1>1, <1>3, <2>2, <4>1, AuthorsStay
    <3>3. Concluded(p) /\ image[p] = file[k].image /\ noted[p] \in {Complete, Failed}
      BY <1>3, <2>2, <3>2 DEF Settled
    <3>4. Here(p).op \notin {"open", "reopen", "announce", "note", "inspect"}
      BY <3>1, <3>3, NothingAfterResult
    <3>5. Concluded(p)'
      <4>1. PICK n \in Results(job[p]) : n < at[p]
        BY <3>3 DEF Concluded
      <4>2. n \in Nat
        BY <4>1 DEF Results, Steps
      <4>3. n < at'[p]
        BY <3>1, <4>1, <4>2
      <4> QED
        BY <1>0, <4>1, <4>3 DEF Concluded
    <3>6. image'[p] = image[p]
      BY <3>1, <3>4 DEF Tale, Imaging
    <3>7. noted'[p] \in {Complete, Failed}
      BY <3>1, <3>3, <3>4 DEF Tale, Noting, TypeOK
    <3> QED
      BY <1>2, <2>2, <3>3, <3>5, <3>6, <3>7
  <2> QED
    BY <2>1, <2>2
<1> QED
  BY <1>0, <1>2, <1>3 DEF Settled

\* A result in memory was noted by a step of the program.
LEMMA ResolvedStays ==
  ASSUME TypeOK, Resolved, NEW p \in Procs, Steady(p), Tale(p)
  PROVE  Resolved'
<1> SUFFICES ASSUME NEW q \in Procs, Driving(q)', noted'[q] = Complete
             PROVE  \E m \in Steps(job'[q], {"note"}) :
                      m < at'[q] /\ Complete \in Programs[job'[q]][m].arg
  BY DEF Resolved, Driving
<1>0. job' = job
  BY DEF Steady
<1>1. CASE q # p
  <2>1. Driving(q) /\ noted[q] = Complete /\ at'[q] = at[q]
    BY <1>1, OthersWrite
  <2> QED
    BY <1>0, <2>1 DEF Resolved
<1>2. CASE q = p
  <2>1. Driving(p) /\ At(p) /\ at'[p] > at[p] /\ at'[p] \in Nat /\ at[p] \in Nat
    BY <1>2, DrivesOn DEF Steady, TypeOK
  <2>2. noted[p] = Complete \/ (Here(p).op = "note" /\ Complete \in Arg(p))
    <3>1. \A s : [noted EXCEPT ![p] = s][p] = s
      BY DEF TypeOK
    <3> QED
      BY <1>2, <3>1, StatusesDiffer DEF Tale, Noting
  <2>3. CASE noted[p] = Complete
    <3>1. PICK m \in Steps(job[p], {"note"}) : m < at[p] /\ Complete \in Programs[job[p]][m].arg
      BY <2>1, <2>3 DEF Resolved
    <3>2. m \in Nat
      BY <3>1 DEF Steps
    <3>3. m < at'[p]
      BY <2>1, <3>1, <3>2
    <3> QED
      BY <1>0, <1>2, <3>1, <3>3
  <2>4. CASE Here(p).op = "note" /\ Complete \in Arg(p)
    <3>1. at[p] \in Steps(job[p], {"note"}) /\ Complete \in Programs[job[p]][at[p]].arg
      BY <2>1, <2>4 DEF At, Last, Here, Arg, Steps
    <3> QED
      BY <1>0, <1>2, <2>1, <3>1
  <2> QED
    BY <2>2, <2>3, <2>4
<1> QED
  BY <1>1, <1>2

\* No driver notes that it is absent.
LEMMA NotesSomething ==
  ASSUME TypeOK, NEW p \in Procs, At(p), Here(p).op = "note"
  PROVE  Absent \notin Arg(p)
<1>1. job[p] \in Jobs /\ at[p] \in 1..Last(p)
  BY JobTyped DEF At
<1> QED
  BY <1>1, ProgramsAssumption DEF Here, Arg, Last

\* What an author that stays one holds in memory is a status still.
LEMMA AuthorsNote ==
  ASSUME TypeOK, NEW p \in Procs, Steady(p), Tale(p), Author(p)', noted[p] # Absent
  PROVE  noted'[p] # Absent
<1>1. At(p) /\ Driving(p)'
  BY AuthorsStay DEF Author
<1>2. Here(p).op = "note" => Absent \notin Arg(p)
  BY <1>1, NotesSomething
<1>3. \A s : [noted EXCEPT ![p] = s][p] = s
  BY DEF TypeOK
<1> QED
  BY <1>1, <1>2, <1>3, StatusesDiffer DEF Tale, Noting

\* Its directory was made, and nobody but p writes in it.
Mine(p) == /\ file[job[p]].status # Absent
           /\ \A q \in Procs : Author(q) /\ job[q] = job[p] => q = p

\* That lasts: a second mkdir() fails, and no record is taken back.
LEMMA MineStays ==
  ASSUME TypeOK, OpenedOnce, NEW p \in Procs, Steady(p), Tale(p),
         NEW r \in Procs, job[r] \in Guarded, Mine(r)
  PROVE  Mine(r)'
<1>0. job' = job /\ job[r] \in DOMAIN file
  <2>1. job' = job
    BY DEF Steady
  <2>2. DOMAIN file = {job[q] : q \in Procs}
    BY DEF TypeOK
  <2> QED
    BY <2>1, <2>2
<1>1. file'[job[r]].status # Absent
  <2>1. CASE file'[job[r]] = file[job[r]]
    BY <2>1 DEF Mine
  <2>2. CASE file'[job[r]] # file[job[r]]
    <3>1. job[p] = job[r] /\ At(p)
      BY <1>0, <2>2, WritingSays DEF Tale
    <3>2. Here(p).op = "save" => noted[p] # Absent
      BY <3>1, AuthorsWrite DEF Tells, OpenedOnce
    <3> QED
      BY <1>0, <2>2, <3>1, <3>2, WritingSays, StatusesDiffer DEF Tale
  <2> QED
    BY <2>1, <2>2
<1>2. ASSUME NEW q \in Procs, Author(q)', job[q] = job[r] PROVE q = r
  <2>1. CASE Author(q)
    BY <1>2, <2>1 DEF Mine
  <2>2. CASE ~ Author(q)
    <3>1. q = p
      BY <1>2, <2>2, OthersWrite
    <3>2. Here(p).op = "open" /\ Succeeds(p)
      BY <1>2, <2>2, <3>1, AuthorsStay
    <3> QED
      BY <1>2, <3>1, <3>2 DEF Tale, Succeeding, Mine
  <2> QED
    BY <2>1, <2>2
<1> QED
  BY <1>0, <1>1, <1>2 DEF Mine, Author, Driving, Last

\* The directory of a guarded driver is made once.
LEMMA OpenedOnceStays ==
  ASSUME TypeOK, OpenedOnce, NEW p \in Procs, Steady(p), Tale(p)
  PROVE  OpenedOnce'
<1>0. job' = job
  BY DEF Steady
<1>1. ASSUME NEW r \in Procs, Author(r)', job[r] \in Guarded
      PROVE  Mine(r)' /\ noted'[r] # Absent
  <2>1. CASE Author(r)
    <3>1. Mine(r) /\ noted[r] # Absent
      BY <1>1, <2>1 DEF OpenedOnce, Mine
    <3>2. noted'[r] # Absent
      BY <1>1, <3>1, AuthorsNote, OthersWrite
    <3> QED
      BY <1>1, <3>1, <3>2, MineStays
  <2>2. CASE ~ Author(r)
    <3>1. r = p
      BY <1>1, <2>2, OthersWrite
    <3>2. Here(p).op = "open" /\ Succeeds(p)
      BY <1>1, <2>2, <3>1, AuthorsStay
    <3>3. file[job[p]].status = Absent /\ Record(p, Running) /\ noted' = [noted EXCEPT ![p] = Running]
      BY <3>2 DEF Tale, Succeeding
    <3>4. file'[job[p]].status = Running /\ noted'[p] = Running
      BY <3>3 DEF Record, TypeOK
    <3>5. ASSUME NEW q \in Procs, Author(q)', job[q] = job[r] PROVE q = r
      <4>1. CASE q # p
        <5>1. Author(q)
          BY <3>5, <4>1, OthersWrite
        <5> QED
          BY <1>1, <3>1, <3>3, <3>5, <5>1 DEF OpenedOnce
      <4> QED
        BY <3>1, <4>1
    <3> QED
      BY <1>0, <3>1, <3>4, <3>5, StatusesDiffer DEF Mine, Author, Driving, Last
  <2> QED
    BY <2>1, <2>2
<1> QED
  BY <1>0, <1>1 DEF OpenedOnce, Mine, Author, Driving, Last

\* A record that becomes complete is settled by its one author.
LEMMA CompleteSettles ==
  ASSUME TypeOK, RecordsInv, NEW p \in Procs, Steady(p), Tale(p),
         NEW k \in DOMAIN file, Kept(k), file'[k].status = Complete, file[k].status # Complete
  PROVE  /\ Settled(k)'
         /\ job[p] = k /\ At(p) /\ Here(p).op = "save" /\ Author(p) /\ noted[p] = Complete
         /\ file'[k].image = image[p]
         /\ at[p] \in Results(job[p])
<1>0. job' = job /\ DOMAIN file' = DOMAIN file
  BY WritingSays DEF Steady, Tale
<1>1. /\ job[p] = k /\ At(p) /\ Here(p).op = "save"
      /\ noted[p] = Complete /\ file'[k].image = image[p]
  BY WritingSays, StatusesDiffer DEF Tale
<1>2. Author(p)
  BY <1>1, AuthorsWrite DEF Tells
<1>3. at[p] \in Results(job[p])
  <2>1. PICK m \in Steps(job[p], {"note"}) : m < at[p] /\ Complete \in Programs[job[p]][m].arg
    BY <1>1, <1>2 DEF RecordsInv, Resolved, Author
  <2>2. at[p] \in Steps(job[p], {"save"})
    BY <1>1 DEF At, Last, Here, Steps
  <2> QED
    BY <2>1, <2>2 DEF Results
<1>4. ASSUME NEW q \in Procs, job[q] = k, Author(q)'
      PROVE  Concluded(q)' /\ image'[q] = file'[k].image /\ noted'[q] \in {Complete, Failed}
  <2>1. q = p
    <3>1. CASE Sole(k)
      BY <1>1, <1>4, <3>1 DEF Sole
    <3>2. CASE k \in Guarded /\ q # p
      <4>1. Author(q)
        BY <1>4, <3>2, OthersWrite
      <4> QED
        BY <1>1, <1>2, <1>4, <3>2, <4>1 DEF RecordsInv, OpenedOnce
    <3> QED
      BY <3>1, <3>2 DEF Kept
  <2>2. Driving(p)' /\ at'[p] > at[p]
    BY <1>4, <2>1, DrivesOn DEF Author
  <2>3. Concluded(p)'
    BY <1>0, <1>3, <2>2 DEF Concluded
  <2>4. image'[p] = image[p] /\ noted'[p] = noted[p]
    BY <1>1, <2>2 DEF Tale, Imaging, Noting
  <2> QED
    BY <1>1, <2>1, <2>3, <2>4
<1>5. Settled(k)'
  BY <1>0, <1>4 DEF Settled
<1> QED
  BY <1>1, <1>2, <1>3, <1>5

\* Steps of processes keep the records.
LEMMA ProcessRecords ==
  ASSUME TypeOK, RecordsInv, NEW p \in Procs, Steady(p), Tale(p)
  PROVE  RecordsInv'
<1>0. job' = job /\ DOMAIN file' = DOMAIN file
  BY WritingSays DEF Steady, Tale, Writing, Record
<1>1. SettledOnes'
  <2> SUFFICES ASSUME NEW k \in DOMAIN file, Kept(k), file'[k].status = Complete
               PROVE  Settled(k)'
    BY <1>0 DEF SettledOnes, Kept, Sole
  <2>1. CASE file[k].status = Complete
    BY <2>1, SettledStays DEF RecordsInv, SettledOnes
  <2>2. CASE file[k].status # Complete
    BY <2>2, CompleteSettles
  <2> QED
    BY <2>1, <2>2
<1> QED
  BY <1>1, ResolvedStays, OpenedOnceStays DEF RecordsInv

\* So do the steps of the others.
LEMMA AsideRecords ==
  ASSUME RecordsInv, Aside
  PROVE  RecordsInv'
BY DEF RecordsInv, Aside, Quiet, Resolved, OpenedOnce, SettledOnes, Kept, Sole, Settled, Concluded, Author,
       Driving, Last

\* No process begins behind the gate of its driver, and no record is complete.
LEMMA BeginsBefore ==
  ASSUME Init, NEW p \in Procs, NEW n \in 1..Last(p)
  PROVE  ~ (at[p] > n)
<1>1. at[p] \in {0, 1} /\ job[p] \in Jobs
  BY StartsAssumption DEF Init
<1>2. Last(p) \in Nat
  BY <1>1, ProgramsAssumption DEF Last
<1> QED
  BY <1>1, <1>2

\* In the beginning no record is complete and nobody has made a directory.
LEMMA InitRecords == Init => RecordsInv
<1> SUFFICES ASSUME Init PROVE RecordsInv
  OBVIOUS
<1>1. Resolved
  BY StatusesDiffer DEF Resolved, Init
<1>2. OpenedOnce
  <2>1. ASSUME NEW p \in Procs, job[p] \in Guarded PROVE ~ Author(p)
    <3>1. job[p] \in Jobs
      BY StartsAssumption DEF Init
    <3>2. Door(job[p]) \in 1..Last(p)
      BY <2>1, <3>1, DoorFacts DEF Last
    <3> QED
      BY <2>1, <3>2, BeginsBefore DEF Author
  <2> QED
    BY <2>1 DEF OpenedOnce
<1>3. SettledOnes
  <2>1. ASSUME NEW k \in DOMAIN file PROVE file[k].status # Complete
    <3>1. file[k] \in {NoRecord} \cup Unfinished
      BY DEF Init
    <3> QED
      BY <3>1, StatusesDiffer DEF NoRecord, Unfinished
  <2> QED
    BY <2>1 DEF SettledOnes
<1> QED
  BY <1>1, <1>2, <1>3 DEF RecordsInv

\* The records, for all drivers.
LEMMA RecordsHold == Spec => []RecordsInv
<1>1. TypeOK /\ RecordsInv /\ [Next]_vars => RecordsInv'
  BY NextTale, ProcessRecords, AsideRecords
<1> QED
  BY <1>1, InitRecords, TypeCorrect, PTL DEF Spec

\* A record that is complete stays so on every step, or fails; on its image.
LEMMA CompleteStands ==
  ASSUME TypeOK, RecordsInv, [Next]_vars, NEW k \in DOMAIN file, Kept(k), file[k].status = Complete
  PROVE  file'[k].status \in {Complete, Failed} /\ file'[k].image = file[k].image
<1>1. Settled(k)
  BY DEF RecordsInv, SettledOnes
<1>2. CASE Aside
  BY <1>2 DEF Aside
<1>3. CASE \E p \in Procs : Steady(p) /\ Tale(p)
  BY <1>1, <1>3, SettledStays DEF RecordsInv
<1> QED
  BY <1>2, <1>3, NextTale

\* Once complete, the record of a driver that makes its directory first is never
\* begun again and never names another image, whoever else runs the driver,
\* whatever fails and whatever is built: mkdir() admits one author, and the
\* author has nothing left to write but a failure.
THEOREM RecordsStand == Spec => EvidenceStands
<1> DEFINE Stand == \A j \in DOMAIN file :
                      j \in Guarded /\ file[j].status = Complete =>
                        /\ file'[j].status \in {Complete, Failed}
                        /\ file'[j].image = file[j].image
<1>1. TypeOK /\ RecordsInv /\ [Next]_vars => Stand
  BY CompleteStands DEF Kept
<1>2. TypeOK /\ RecordsInv /\ [Next]_vars => [Stand]_vars
  BY <1>1
<1>3. EvidenceStands <=> [][Stand]_vars
  BY DEF EvidenceStands
<1> HIDE DEF Stand
<1> QED
  BY <1>2, <1>3, RecordsHold, TypeCorrect, PTL DEF Spec
-----------------------------------------------------------------------------
(* Evidence.  The record a driver asked for stays on the driver's image.    *)
Fixed(k, i) == Read(k).image = i /\ Settled(k)
\* Behind its question, a driver runs the image its evidence is of.
Relied == \A p \in Procs : \A n \in Steps(job[p], {"need"}) :
            Past(p, n) => Fixed(Programs[job[p]][n].arg, image[p])
\* So is the evidence of every complete record.
Grounded == \A j \in DOMAIN file : \A n \in Steps(j, {"need"}) :
              file[j].status = Complete => Fixed(Programs[j][n].arg, file[j].image)
EvidenceInv == Relied /\ Grounded

\* What is fixed stays so.
LEMMA FixedStays ==
  ASSUME TypeOK, OpenedOnce, NEW p \in Procs, Steady(p), Tale(p), NEW k, NEW i, Fixed(k, i)
  PROVE  Fixed(k, i)'
<1>1. CASE k \in DOMAIN file
  <2>1. DOMAIN file' = DOMAIN file
    BY <1>1, WritingSays DEF Tale
  <2>2. Settled(k)' /\ file'[k].image = file[k].image
    BY <1>1, SettledStays DEF Fixed
  <2> QED
    BY <1>1, <2>1, <2>2 DEF Fixed, Read
<1>2. CASE k \notin DOMAIN file
  <2>1. DOMAIN file' = DOMAIN file
    BY DEF Tale, Writing, Record
  <2> QED
    BY <1>2, <2>1 DEF Fixed, Read, Settled
<1> QED
  BY <1>1, <1>2

\* The record a driver asks for is kept by one process.
LEMMA EvidenceIsKept ==
  ASSUME TypeOK, NEW p \in Procs, NEW n \in Steps(job[p], {"need"})
  PROVE  Kept(Programs[job[p]][n].arg)
<1> DEFINE k == Programs[job[p]][n].arg
           e == <<job[p], k>>
<1>1. job \in Starts /\ job[p] \in Jobs
  BY StartsAssumption DEF TypeOK
<1>2. e \in Evidence
  <2>1. e \in {<<job[p], Programs[job[p]][m].arg>> : m \in Steps(job[p], {"need"})}
    OBVIOUS
  <2> HIDE DEF e
  <2> QED
    BY <1>1, <2>1, Zenon DEF Evidence
<1>3. e[1] = job[p] /\ e[2] = k
  OBVIOUS
<1>4. \A q, r \in Procs : job[q] = k /\ job[r] = k => (q = r \/ k \in Guarded)
  <2>1. e[1] \in {job[r] : r \in Procs}
    BY <1>3
  <2> QED
    BY <1>1, <1>2, <1>3, <2>1, EvidenceAssumption
<1> QED
  BY <1>4 DEF Kept, Sole

\* Behind its question a driver does not inspect its image again.
LEMMA ReliedStays ==
  ASSUME TypeOK, RecordsInv, Relied, NEW p \in Procs, Steady(p), Tale(p)
  PROVE  Relied'
<1>0. job' = job
  BY DEF Steady
<1> SUFFICES ASSUME NEW q \in Procs, NEW n \in Steps(job[q], {"need"}), Past(q, n)',
                    NEW k, NEW i, k = Programs[job[q]][n].arg, i = image'[q]
             PROVE  Fixed(k, i)'
  BY <1>0 DEF Relied, Fixed, Read, Settled
<1>1. CASE q # p
  <2>1. Past(q, n) /\ image'[q] = image[q]
    BY <1>0, <1>1, OthersWrite DEF Past, Last
  <2>2. Fixed(k, i)
    BY <2>1 DEF Relied, Fixed, Read, Settled
  <2> QED
    BY <2>2, FixedStays DEF RecordsInv
<1>2. CASE q = p
  <2>1. job[p] \in Jobs /\ n \in 1..Last(p) /\ Programs[job[p]][n].op = "need" /\ Passes(job[p], n)
    <3>1. job[p] \in Jobs
      BY JobTyped
    <3>2. Passes(job[p], n)
      BY <1>2, <3>1, EvidenceAssumption
    <3> QED
      BY <1>2, <3>1, <3>2 DEF Steps, Last
  <2>2. Past(p, n) \/ (at[p] = n /\ Succeeds(p))
    BY <1>2, <2>1, ThroughGate
  <2>3. At(p) /\ Driving(p)' /\ at[p] \in n..Last(p)
    <3>1. At(p) /\ Driving(p)' /\ at[p] \in 1..Last(p) /\ n \in Nat /\ at[p] >= n
      BY <1>2, <2>1, <2>2, DrivesOn DEF Past, At, Succeeds
    <3> QED
      BY <3>1, <2>1
  <2>4. Here(p).op # "inspect"
    <3>1. at[p] \notin Steps(job[p], {"inspect"})
      BY <1>2, <2>1, <2>3, EvidenceAssumption DEF Last
    <3> QED
      BY <2>3, <3>1 DEF At, Last, Here, Steps
  <2>5. image'[p] = image[p]
    BY <2>3, <2>4 DEF Tale, Imaging
  <2>6. Fixed(k, i)
    <3>1. CASE Past(p, n)
      BY <1>2, <2>5, <3>1 DEF Relied, Fixed, Read, Settled
    <3>2. CASE at[p] = n /\ Succeeds(p)
      <4>1. Read(k) = Final(image[p])
        BY <1>2, <2>1, <3>2 DEF Tale, Succeeding, Here, Arg
      <4>2. Read(k).image = i /\ Read(k).status = Complete
        BY <1>2, <2>5, <4>1 DEF Final
      <4>3. Kept(k)
        BY <1>2, EvidenceIsKept DEF Kept, Sole
      <4>4. Settled(k)
        BY <4>2, <4>3 DEF RecordsInv, SettledOnes, Read, Settled
      <4> QED
        BY <4>2, <4>4 DEF Fixed
    <3> QED
      BY <2>2, <3>1, <3>2
  <2> QED
    BY <2>6, FixedStays DEF RecordsInv
<1> QED
  BY <1>1, <1>2

\* A record that becomes complete does so behind every question of its driver.
LEMMA GroundedStays ==
  ASSUME TypeOK, RecordsInv, EvidenceInv, NEW p \in Procs, Steady(p), Tale(p)
  PROVE  Grounded'
<1>0. job' = job /\ DOMAIN file' = DOMAIN file
  BY WritingSays DEF Steady, Tale, Writing, Record
<1> SUFFICES ASSUME NEW j \in DOMAIN file, NEW n \in Steps(j, {"need"}), file'[j].status = Complete,
                    NEW k, NEW i, k = Programs[j][n].arg, i = file'[j].image
             PROVE  Fixed(k, i)'
  BY <1>0 DEF Grounded, Fixed, Read, Settled
<1>1. CASE file'[j] = file[j]
  <2>1. Fixed(k, i)
    BY <1>1 DEF EvidenceInv, Grounded, Fixed, Read, Settled
  <2> QED
    BY <2>1, FixedStays DEF RecordsInv
<1>2. CASE file'[j] # file[j]
  <2>1. /\ job[p] = j /\ At(p) /\ Here(p).op = "save"
        /\ noted[p] = Complete /\ image[p] = i
    BY <1>2, WritingSays, StatusesDiffer DEF Tale
  <2>2. Driving(p) /\ at[p] <= Last(p)
    BY <2>1, AuthorsWrite DEF Tells, Author
  <2>3. PICK m \in Steps(job[p], {"note"}) : m < at[p]
    BY <2>1, <2>2 DEF RecordsInv, Resolved
  <2>4. job[p] \in Jobs /\ m \notin 1..n
    BY <2>1, JobTyped, EvidenceAssumption
  <2>5. at[p] > n
    <3>1. at[p] \in Nat
      BY <2>1, HandlerAhead
    <3>2. m \in Nat /\ m > 0 /\ n \in Nat
      BY <2>3 DEF Steps
    <3> QED
      BY <2>3, <2>4, <3>1, <3>2
  <2>6. Fixed(k, i)
    BY <2>1, <2>2, <2>5 DEF EvidenceInv, Relied, Past, Fixed, Read, Settled
  <2> QED
    BY <2>6, FixedStays DEF RecordsInv
<1> QED
  BY <1>1, <1>2

\* Nothing else touches records, images or places.
LEMMA AsideEvidence ==
  ASSUME EvidenceInv, Aside
  PROVE  EvidenceInv'
<1>1. \A q \in Procs : Author(q)' <=> Author(q)
  BY DEF Aside, Quiet, Author, Driving, Last
<1>2. \A k, i : Fixed(k, i) => Fixed(k, i)'
  BY <1>1 DEF Aside, Quiet, Fixed, Read, Settled, Concluded
<1>3. Relied'
  BY <1>2 DEF EvidenceInv, Relied, Past, Driving, Last, Aside, Quiet
<1>4. Grounded'
  BY <1>2 DEF EvidenceInv, Grounded, Aside
<1> QED
  BY <1>3, <1>4 DEF EvidenceInv

\* In the beginning nobody is behind a question and no record is complete.
LEMMA InitEvidence == Init => EvidenceInv
<1> SUFFICES ASSUME Init PROVE EvidenceInv
  OBVIOUS
<1>1. Relied
  <2>1. ASSUME NEW p \in Procs, NEW n \in Steps(job[p], {"need"}) PROVE ~ Past(p, n)
    <3>1. n \in 1..Last(p)
      BY DEF Steps, Last
    <3> QED
      BY <3>1, BeginsBefore DEF Past
  <2> QED
    BY <2>1 DEF Relied
<1>2. Grounded
  <2>1. ASSUME NEW k \in DOMAIN file PROVE file[k].status # Complete
    <3>1. file[k] \in {NoRecord} \cup Unfinished
      BY DEF Init
    <3> QED
      BY <3>1, StatusesDiffer DEF NoRecord, Unfinished
  <2> QED
    BY <2>1 DEF Grounded
<1> QED
  BY <1>1, <1>2 DEF EvidenceInv

\* Grounded says what the evidence of a record is of.
LEMMA GroundedEvidence == Grounded => EvidenceOfTheSameImage
<1> SUFFICES ASSUME Grounded, NEW j \in DOMAIN file, file[j].status = Complete,
                    NEW e \in Evidence, e[1] = j
             PROVE  Read(e[2]).image = file[j].image
  BY DEF EvidenceOfTheSameImage
<1>1. PICK h \in Jobs : \E n \in Steps(h, {"need"}) : e = <<h, Programs[h][n].arg>>
  BY DEF Evidence
<1>2. PICK n \in Steps(h, {"need"}) : e = <<h, Programs[h][n].arg>>
  BY <1>1
<1>3. h = j /\ e[2] = Programs[j][n].arg
  BY <1>2
<1>4. Fixed(Programs[j][n].arg, file[j].image)
  BY <1>2, <1>3 DEF Grounded
<1> QED
  BY <1>3, <1>4 DEF Fixed

\* A complete record names the image its evidence was gathered on: the drivers
\* it relies on had settled their records when it asked, it has run on that
\* image since, and nothing that is rebuilt, resumed or run again moves them.
THEOREM EvidenceAgrees == Spec => []EvidenceOfTheSameImage
<1>1. TypeOK /\ RecordsInv /\ EvidenceInv /\ [Next]_vars => EvidenceInv'
  BY NextTale, ReliedStays, GroundedStays, AsideEvidence DEF EvidenceInv
<1>2. EvidenceInv => EvidenceOfTheSameImage
  BY GroundedEvidence DEF EvidenceInv
<1> QED
  BY <1>1, <1>2, InitEvidence, RecordsHold, TypeCorrect, PTL DEF Spec
-----------------------------------------------------------------------------
(* Images.  A driver that inspects once, before its containers, runs that   *)
(* image and records it.                                                    *)
Careful(p) == job[p] \in InspectsOnce /\ job[p] \in Guarded
\* Its inspection, past which everything lies that it runs.
Lens(j) == Gateway(j, {"inspect"}, Creates)

LEMMA LensFacts ==
  ASSUME NEW j \in Jobs, j \in InspectsOnce
  PROVE  /\ Lens(j) \in 1..Len(Programs[j])
         /\ Programs[j][Lens(j)].op = "inspect"
         /\ Steps(j, Creates) \cap 1..Lens(j) = {}
         /\ Passes(j, Lens(j))
         /\ \A n \in Steps(j, {"inspect"}) : n = Lens(j)
<1>1. /\ Lens(j) \in 1..Len(Programs[j])
      /\ Programs[j][Lens(j)].op \in {"inspect"}
      /\ Steps(j, Creates) \cap 1..Lens(j) = {}
      /\ Passes(j, Lens(j))
  BY GatewayFacts DEF InspectsOnce, Lens
<1>2. Lens(j) \in Steps(j, {"inspect"})
  BY <1>1 DEF Steps
<1> QED
  BY <1>1, <1>2 DEF InspectsOnce

\* Past its inspection a driver knows an image; what it ran, it ran as the one
\* author of its record, past the inspection and by that image; so its record,
\* once complete, names what it ran.
Knows(p) == Past(p, Lens(job[p])) => image[p] # NoImage
Alike(p) == Driving(p) => /\ ran[p] \subseteq {image[p]}
                          /\ ran[p] # {} => at[p] > Lens(job[p])
Names(p) == file[job[p]].status = Complete => ran[p] \subseteq {file[job[p]].image}
ImagesInv == \A p \in Procs : Careful(p) => /\ Knows(p) /\ Alike(p) /\ Names(p)
                                            /\ ran[p] # {} => Mine(p)

\* A careful driver that starts a container is the author of its record and past
\* its inspection.
LEMMA RunsBehindLens ==
  ASSUME TypeOK, RecordsInv, ImagesInv, NEW p \in Procs, Careful(p), At(p), Here(p).op \in Creates
  PROVE  /\ Author(p) /\ Mine(p) /\ image[p] # NoImage
         /\ at[p] > Lens(job[p]) /\ Lens(job[p]) \in Nat
<1>1. Author(p)
  BY AuthorsWrite
<1>2. Mine(p)
  BY <1>1 DEF RecordsInv, OpenedOnce, Mine, Careful
<1>3. job[p] \in Jobs /\ at[p] \in 1..Last(p) /\ at[p] \in Nat /\ Last(p) \in Nat
  BY JobTyped, HandlerAhead DEF At
<1>4. at[p] \in Steps(job[p], Creates)
  BY <1>3 DEF Steps, Here, Last
<1>5. Lens(job[p]) \in 1..Last(p) /\ at[p] \notin 1..Lens(job[p])
  BY <1>3, <1>4, LensFacts DEF Careful, Last
<1>6. at[p] > Lens(job[p]) /\ Lens(job[p]) \in Nat
  BY <1>3, <1>5
<1>7. image[p] # NoImage
  BY <1>1, <1>6 DEF ImagesInv, Knows, Past, Author
<1> QED
  BY <1>1, <1>2, <1>6, <1>7

\* What p ran after a step of it.
LEMMA RanAfter ==
  ASSUME TypeOK, NEW p \in Procs, Hosting(p), image[p] # NoImage \/ Here(p).op \notin Creates
  PROVE  /\ ran'[p] \subseteq ran[p] \cup {image[p]}
         /\ ran'[p] # ran[p] => At(p) /\ Here(p).op \in Creates
BY DEF Hosting, Runs, TypeOK

\* A careful driver goes on.
LEMMA CarefulGoes ==
  ASSUME TypeOK, RecordsInv, ImagesInv, NEW p \in Procs, Steady(p), Tale(p), Careful(p)
  PROVE  Knows(p)' /\ Alike(p)' /\ (ran'[p] # {} => Mine(p)')
<1>1. /\ job' = job /\ job[p] \in Jobs
      /\ Lens(job[p]) \in 1..Last(p) /\ Passes(job[p], Lens(job[p])) /\ Lens(job[p]) \in Nat
      /\ Programs[job[p]][Lens(job[p])].op = "inspect"
  <2>1. job' = job /\ job[p] \in Jobs
    BY JobTyped DEF Steady
  <2>2. Lens(job[p]) \in 1..Last(p) /\ Passes(job[p], Lens(job[p]))
        /\ Programs[job[p]][Lens(job[p])].op = "inspect"
    BY <2>1, LensFacts DEF Careful, Last
  <2> QED
    BY <2>1, <2>2
<1>2. Knows(p)'
  <2> SUFFICES ASSUME Past(p, Lens(job[p]))' PROVE image'[p] # NoImage
    BY <1>1 DEF Knows, Past, Driving, Last
  <2>1. Past(p, Lens(job[p])) \/ (at[p] = Lens(job[p]) /\ Succeeds(p))
    BY <1>1, ThroughGate
  <2>2. Driving(p)'
    BY DEF Past
  <2>3. tag # NoImage /\ \A i : [image EXCEPT ![p] = i][p] = i
    <3>1. NoImage \notin Images
      BY DEF Images, NoImage
    <3> QED
      BY <3>1 DEF TypeOK
  <2>4. CASE Past(p, Lens(job[p]))
    BY <2>2, <2>3, <2>4 DEF Tale, Imaging, ImagesInv, Knows
  <2>5. CASE at[p] = Lens(job[p]) /\ Succeeds(p)
    BY <1>1, <2>3, <2>5 DEF Tale, Succeeding, Here
  <2> QED
    BY <2>1, <2>4, <2>5
<1>3. Here(p).op \in Creates /\ At(p) => image[p] # NoImage /\ at[p] > Lens(job[p]) /\ Mine(p)
  BY RunsBehindLens
<1>4. /\ ran'[p] \subseteq ran[p] \cup {image[p]}
      /\ ran'[p] # ran[p] => At(p) /\ Here(p).op \in Creates
  <2>1. CASE ran' = ran
    BY <2>1
  <2>2. CASE At(p) /\ Here(p).op \in Creates
    BY <1>3, <2>2, RanAfter DEF Tale
  <2> QED
    BY <2>1, <2>2 DEF Tale, Hosting
<1>5. Alike(p)'
  <2> SUFFICES ASSUME Driving(p)'
               PROVE  ran'[p] \subseteq {image'[p]} /\ (ran'[p] # {} => at'[p] > Lens(job[p]))
    BY <1>1 DEF Alike, Driving
  <2>1. Driving(p) /\ At(p) /\ at'[p] > at[p] /\ at[p] \in Nat /\ at'[p] \in Nat
    BY DrivesOn, HandlerAhead DEF Steady, TypeOK
  <2>2. ran[p] \subseteq {image[p]} /\ (ran[p] # {} => at[p] > Lens(job[p]))
    BY <2>1 DEF ImagesInv, Alike
  <2>3. ran'[p] # {} => at[p] > Lens(job[p])
    BY <1>3, <1>4, <2>2
  <2>4. CASE Here(p).op = "inspect"
    <3>1. at[p] \in Steps(job[p], {"inspect"})
      BY <2>1, <2>4 DEF At, Last, Here, Steps
    <3>2. at[p] = Lens(job[p])
      BY <1>1, <3>1, LensFacts DEF Careful
    <3>3. ran'[p] = {}
      BY <2>1, <2>3, <3>2
    <3> QED
      BY <3>3
  <2>5. CASE Here(p).op # "inspect"
    <3>1. image' = image
      BY <2>5 DEF Tale, Imaging
    <3>2. ran'[p] \subseteq {image'[p]}
      BY <1>4, <2>2, <3>1
    <3>3. at[p] > Lens(job[p]) => at'[p] > Lens(job[p])
      BY <1>1, <2>1
    <3> QED
      BY <2>3, <3>2, <3>3
  <2> QED
    BY <2>4, <2>5
<1>6. ran'[p] # {} => Mine(p)'
  <2>1. ran'[p] # {} => Mine(p)
    BY <1>3, <1>4 DEF ImagesInv
  <2> QED
    BY <2>1, MineStays DEF RecordsInv, Careful
<1> QED
  BY <1>2, <1>5, <1>6

\* The record of a driver, on disk, before and after.
LEMMA OwnRecord ==
  ASSUME TypeOK, NEW p \in Procs
  PROVE  /\ job[p] \in DOMAIN file
         /\ \A s : Record(p, s) => file'[job[p]].status = s
<1>1. DOMAIN file = {job[q] : q \in Procs}
  BY DEF TypeOK
<1>2. job[p] \in DOMAIN file
  BY <1>1
<1> QED
  BY <1>2 DEF Record

\* The record of a careful driver, whoever goes on.
LEMMA CarefulTells ==
  ASSUME TypeOK, RecordsInv, ImagesInv, NEW r \in Procs, Steady(r), Tale(r),
         NEW p \in Procs, Careful(p), NEW k, k = job[p], file'[k].status = Complete
  PROVE  ran'[p] \subseteq {file'[k].image}
<1>1. k \in DOMAIN file /\ Kept(k)
  <2>1. k \in DOMAIN file
    BY OwnRecord
  <2> QED
    BY <2>1 DEF Kept, Careful
<1>2. CASE file[k].status = Complete
  <2>1. Settled(k) /\ ran[p] \subseteq {file[k].image}
    BY <1>1, <1>2 DEF RecordsInv, SettledOnes, ImagesInv, Names
  <2>2. file'[k].image = file[k].image
    BY <1>1, <2>1, SettledStays DEF RecordsInv
  <2>3. CASE ran'[p] = ran[p]
    BY <2>1, <2>2, <2>3
  <2>4. CASE ran'[p] # ran[p]
    <3>1. p = r /\ At(p) /\ Here(p).op \in Creates
      BY <2>4 DEF Tale, Hosting, Runs, TypeOK
    <3>2. Author(p) /\ image[p] # NoImage
      BY <3>1, RunsBehindLens
    <3>3. image[p] = file[k].image
      BY <1>1, <2>1, <3>2 DEF Settled
    <3> QED
      BY <2>1, <2>2, <3>1, <3>2, <3>3, RanAfter DEF Tale
  <2> QED
    BY <2>3, <2>4
<1>3. CASE file[k].status # Complete
  <2>1. /\ job[r] = k /\ At(r) /\ Here(r).op = "save" /\ Author(r)
        /\ file'[k].image = image[r]
    BY <1>1, <1>3, CompleteSettles
  <2>2. ran' = ran
    BY <2>1 DEF Tale, Hosting, Creates
  <2>3. ran[p] # {} => r = p
    BY <2>1 DEF ImagesInv, Mine
  <2>4. r = p => ran[p] \subseteq {image[r]}
    BY <2>1 DEF ImagesInv, Alike, Author
  <2> QED
    BY <2>1, <2>2, <2>3, <2>4
<1> QED
  BY <1>2, <1>3

\* Steps of processes keep to the image.
LEMMA ProcessImages ==
  ASSUME TypeOK, RecordsInv, ImagesInv, NEW r \in Procs, Steady(r), Tale(r)
  PROVE  ImagesInv'
<1>0. job' = job
  BY DEF Steady
<1>1. ASSUME NEW p \in Procs, Careful(p)
      PROVE  Knows(p)' /\ Alike(p)' /\ (ran'[p] # {} => Mine(p)')
  <2>1. CASE p = r
    BY <1>1, <2>1, CarefulGoes
  <2>2. CASE p # r
    <3>1. /\ at'[p] = at[p] /\ (Driving(p)' <=> Driving(p))
          /\ image'[p] = image[p] /\ ran'[p] = ran[p]
      BY <2>2, OthersWrite
    <3>2. Knows(p)' /\ Alike(p)'
      BY <1>0, <1>1, <3>1 DEF ImagesInv, Knows, Alike, Past, Last
    <3>3. ran[p] # {} => Mine(p)'
      BY <1>1, MineStays DEF ImagesInv, RecordsInv, Careful
    <3> QED
      BY <3>1, <3>2, <3>3
  <2> QED
    BY <2>1, <2>2
<1>2. ASSUME NEW p \in Procs, Careful(p) PROVE Names(p)'
  <2> SUFFICES ASSUME file'[job[p]].status = Complete PROVE ran'[p] \subseteq {file'[job[p]].image}
    BY <1>0 DEF Names
  <2> QED
    BY <1>2, CarefulTells
<1> QED
  BY <1>0, <1>1, <1>2 DEF ImagesInv, Careful

\* So do the steps of the others: a tag that moves is not looked at again.
LEMMA AsideImages ==
  ASSUME ImagesInv, Aside
  PROVE  ImagesInv'
BY DEF ImagesInv, Careful, Knows, Alike, Names, Mine, Past, Author, Driving, Last, Aside, Quiet

\* In the beginning nobody has run anything.
LEMMA InitImages == Init => ImagesInv
<1> SUFFICES ASSUME Init, NEW p \in Procs, Careful(p)
             PROVE  Knows(p) /\ Alike(p) /\ Names(p) /\ ran[p] = {}
  BY DEF ImagesInv
<1>1. job[p] \in Jobs /\ ran[p] = {}
  BY StartsAssumption DEF Init
<1>2. Lens(job[p]) \in 1..Last(p)
  BY <1>1, LensFacts DEF Careful, Last
<1>3. ~ Past(p, Lens(job[p]))
  BY <1>2, BeginsBefore DEF Past
<1> QED
  BY <1>1, <1>3 DEF Knows, Alike, Names

\* A complete record names the one image its driver ran: everything it runs lies
\* behind its one inspection, the record is its own, and no image that is built
\* under the tag in the meantime gets into either.
THEOREM RanAsRecorded == Spec => []RanWhatItRecords
<1>1. TypeOK /\ RecordsInv /\ ImagesInv /\ [Next]_vars => ImagesInv'
  BY NextTale, ProcessImages, AsideImages
<1>2. ImagesInv => RanWhatItRecords
  BY DEF ImagesInv, Careful, Names, RanWhatItRecords
<1> QED
  BY <1>1, <1>2, InitImages, RecordsHold, TypeCorrect, PTL DEF Spec
-----------------------------------------------------------------------------
(* Workers.  A driver that vouches for its worker compares the container    *)
(* after its last question; once it has strayed it never comes to a result. *)

\* Only an answer makes a process stray.
Straying(p) == \A q \in Procs : worker'[q] = "strayed" =>
                 worker[q] = "strayed" \/ (q = p /\ At(p) /\ Here(p).op = "ask")
\* Where p goes, and what it holds in memory then.
Strides(p) == \/ at'[p] = at[p] + 1
              \/ Here(p).op = "either" /\ at'[p] = at[p] + Arg(p)
              \/ at'[p] = Handler(p)
Attends(p) == /\ At(p) /\ Strides(p)
              /\ noted'[p] = noted[p] \/ Here(p).op = "note" \/ noted'[p] \in {Running, Failed}
              /\ Here(p).op = "same_worker" => worker[p] = "same" \/ at'[p] = Handler(p)

LEMMA ReplacedStrays == ASSUME TypeOK PROVE \A q \in Procs : Replaced[q] = "strayed" => worker[q] = "strayed"
BY DEF Replaced

\* Whoever goes on to the next step, or raises, strides.
LEMMA StridesOn ==
  ASSUME TypeOK, NEW p \in Procs, Onward(p) \/ Throw(p, Error) \/ Throw(p, Signal) \/ Throw(p, raised[p])
  PROVE  Strides(p)
BY DEF Onward, Throw, To, Strides, TypeOK

\* Steps that look, write records, take the lock, or concern containers.
LEMMA PlainAttends ==
  ASSUME TypeOK, NEW p \in Procs,
         \/ Check(p) \/ AwaitService(p) \/ PollsService(p) \/ SeesOutcome(p) \/ Readies(p)
         \/ Inspects(p) \/ Notes(p) \/ Opens(p) \/ Reopens(p) \/ Announces(p) \/ Saves(p)
         \/ WaitsForLock(p) \/ TriesLock(p) \/ Ups(p) \/ Exits(p) \/ Spawns(p) \/ Downs(p)
  PROVE  Attends(p) /\ Straying(p)
<1>1. At(p) /\ UNCHANGED worker
  BY DEF Check, AwaitService, PollsService, SeesOutcome, Readies, Inspects, Notes, Opens, Reopens, Announces,
         Saves, Saving, WaitsForLock, TriesLock, Takes, Ups, Exits, Spawns, Downs, Creating, Asking, Leaving,
         Removing, Boxing, Now, world, serving
<1>2. Strides(p)
  <2>1. Onward(p) \/ Throw(p, Error)
    BY DEF Check, AwaitService, PollsService, SeesOutcome, Readies, Inspects, Notes, Opens, Reopens, Announces,
           Saves, WaitsForLock, TriesLock, Ups, Exits, Spawns, Downs, Demand
  <2> QED
    BY <2>1, StridesOn
<1>3. noted'[p] = noted[p] \/ Here(p).op = "note" \/ noted'[p] \in {Running, Failed}
  <2>1. \/ noted' = noted \/ Here(p).op = "note" \/ noted' = [noted EXCEPT ![p] = Running]
    BY DEF Check, AwaitService, PollsService, SeesOutcome, Readies, Inspects, Notes, Opens, Reopens, Announces,
           Saves, Saving, WaitsForLock, TriesLock, Takes, Ups, Exits, Spawns, Downs, Creating, Asking, Leaving,
           Removing, Boxing, Now, memory
  <2> QED
    BY <2>1 DEF TypeOK
<1>4. Here(p).op = "same_worker" => worker[p] = "same" \/ at'[p] = Handler(p)
  <2>1. CASE Check(p)
    BY <2>1, ThrowGoes DEF Check, Demand, Holds
  <2>2. CASE ~ Check(p)
    BY <2>2 DEF AwaitService, PollsService, SeesOutcome, Readies, Inspects, Notes, Opens, Reopens, Announces,
                Saves, WaitsForLock, TriesLock, Ups, Exits, Spawns, Downs, Now
  <2> QED
    BY <2>1, <2>2
<1> QED
  BY <1>1, <1>2, <1>3, <1>4 DEF Attends, Straying

\* Steps of the service and of its client.
LEMMA ServiceAttends ==
  ASSUME TypeOK, NEW p \in Procs,
         Stops(p) \/ StartsService(p) \/ RestartsService(p) \/ Identifies(p) \/ Asks(p)
  PROVE  Attends(p) /\ Straying(p)
<1>1. At(p) /\ noted' = noted /\ Here(p).op # "same_worker"
  BY DEF Stops, StartsService, RestartsService, Stopping, Starting, Restarting, Serving, Identifies, Asks, Now,
         memory
<1>2. Strides(p)
  <2>1. Onward(p) \/ Throw(p, Error)
    BY DEF Stops, StartsService, RestartsService, Identifies, Asks, Demand
  <2> QED
    BY <2>1, StridesOn
<1>3. CASE Stops(p) \/ StartsService(p) \/ RestartsService(p)
  <2>1. worker' = worker \/ worker' = Replaced
    BY <1>3 DEF Stops, StartsService, RestartsService, Stopping, Starting, Restarting, Serving
  <2> QED
    BY <1>1, <1>2, <2>1, ReplacedStrays DEF Attends, Straying
<1>4. CASE Identifies(p)
  <2>1. worker' = worker \/ worker' = [worker EXCEPT ![p] = "same"]
    BY <1>4 DEF Identifies
  <2> QED
    BY <1>1, <1>2, <2>1 DEF Attends, Straying, TypeOK
<1>5. CASE Asks(p)
  <2>1. Here(p).op = "ask" /\ \A q \in Procs \ {p} : worker'[q] = worker[q]
    BY <1>5 DEF Asks, Now, TypeOK
  <2> QED
    BY <1>1, <1>2, <2>1 DEF Attends, Straying
<1> QED
  BY <1>3, <1>4, <1>5

\* Clauses and choices.
LEMMA ClausesAttend ==
  ASSUME TypeOK, NEW p \in Procs, Excepts(p) \/ Swallows(p) \/ Reraises(p) \/ Chooses(p)
  PROVE  Attends(p) /\ Straying(p)
<1>1. At(p) /\ UNCHANGED worker /\ Here(p).op # "same_worker"
  BY DEF Excepts, Swallows, Reraises, Chooses, Now, world, serving
<1>2. noted' = noted \/ noted' = [noted EXCEPT ![p] = Failed]
  BY DEF Excepts, Swallows, Reraises, Chooses, memory
<1>3. Strides(p)
  <2>1. CASE Excepts(p) \/ Reraises(p)
    BY <2>1, StridesOn DEF Excepts, Reraises
  <2>2. CASE Swallows(p) \/ Chooses(p)
    BY <2>2 DEF Swallows, Chooses, To, Strides, Now, TypeOK
  <2> QED
    BY <2>1, <2>2
<1> QED
  BY <1>1, <1>2, <1>3 DEF Attends, Straying, TypeOK

\* Errors and signals.
LEMMA StruckAttends ==
  ASSUME TypeOK, NEW p \in Procs, Falls(p)
  PROVE  Attends(p) /\ Straying(p)
<1>1. At(p) /\ Halfway(p) /\ at'[p] = Handler(p)
  BY ThrowGoes DEF Falls, Raises, Interrupted
<1>2. noted' = noted /\ (worker' = worker \/ worker' = Replaced)
  BY <1>1 DEF Halfway, memory, world, serving, Record, Saving, Stopping, Starting, Restarting, Serving,
              Creating, Asking, Leaving, Removing, Boxing
<1> QED
  BY <1>1, <1>2, ReplacedStrays DEF Attends, Strides, Straying

\* Every step of a process: it attends to its program, or forgets it.
LEMMA ProcessAttends ==
  ASSUME TypeOK, NEW p \in Procs, Moves(p) \/ (Frail /\ (Falls(p) \/ Killed(p)))
  PROVE  (Attends(p) \/ Forgets(p)) /\ Straying(p)
<1>1. CASE Hooks(p) \/ Ends(p) \/ Killed(p)
  <2>1. Forgets(p)
    BY <1>1 DEF Hooks, Ends, Killed
  <2>2. \A q \in Procs : worker'[q] = "strayed" => worker[q] = "strayed"
    BY <2>1 DEF Forgets, TypeOK
  <2> QED
    BY <2>1, <2>2 DEF Straying
<1>2. CASE ~ (Hooks(p) \/ Ends(p) \/ Killed(p))
  BY <1>2, PlainAttends, ServiceAttends, ClausesAttend, StruckAttends
     DEF Moves, Waits, Writes, Commands, Contains, Turns
<1> QED
  BY <1>1, <1>2

\* What an attesting driver compares its worker at.
Vouch(j) == CHOOSE k \in Steps(j, {"same_worker"}) : Vouches(j, k)
NoResult(p, n) == Steps(job[p], {"note"}) \cap n..Last(p) = {}

LEMMA VouchFacts ==
  ASSUME NEW j \in Attesting
  PROVE  /\ j \in Jobs
         /\ Vouch(j) \in 1..Len(Programs[j])
         /\ Programs[j][Vouch(j)].op = "same_worker"
         /\ Vouches(j, Vouch(j))
<1>1. j \in Jobs /\ \E k \in Steps(j, {"same_worker"}) : Vouches(j, k)
  BY AttestingAssumption
<1>2. Vouch(j) \in Steps(j, {"same_worker"}) /\ Vouches(j, Vouch(j))
  BY <1>1, Zenon DEF Vouch
<1>3. Vouch(j) \in 1..Len(Programs[j]) /\ Programs[j][Vouch(j)].op = "same_worker"
  BY <1>2, Zenon DEF Steps
<1> QED
  BY <1>1, <1>2, <1>3

\* Up to its comparison it has no result; once it has strayed it never will.
Attested(p) ==
  /\ at[p] \in 1..Vouch(job[p]) => noted[p] # Complete
  /\ worker[p] = "strayed" => noted[p] # Complete /\ (at[p] \in 1..Vouch(job[p]) \/ NoResult(p, at[p]))
WorkersInv == \A p \in Procs : job[p] \in Attesting => Attested(p)

\* A driver before its comparison that does not pass it stays before it, or goes
\* past every result.
LEMMA StaysBeforeVouch ==
  ASSUME TypeOK, NEW p \in Procs, job[p] \in Attesting, Attends(p), at[p] \in 1..Vouch(job[p]),
         at[p] = Vouch(job[p]) => at'[p] = Handler(p)
  PROVE  at'[p] \in 1..Vouch(job[p]) \/ NoResult(p, at'[p])
<1> DEFINE j == job[p]
           k == Vouch(j)
<1>1. /\ j \in Jobs /\ k \in 1..Last(p) /\ Vouches(j, k)
      /\ Last(p) \in Nat /\ k \in Nat /\ at[p] \in Nat /\ at[p] > 0 /\ at[p] <= k
  <2>1. j \in Jobs /\ k \in 1..Last(p) /\ Vouches(j, k)
    BY VouchFacts DEF Last
  <2>2. Last(p) \in Nat /\ at[p] \in Nat
    BY HandlerAhead DEF Attends
  <2> QED
    BY <2>1, <2>2
<1>2. \A n \in Steps(j, {"note"}) :
        /\ n \in 1..Last(p) /\ n \in Nat
        /\ Here(p).h # 0 => (at[p] + Here(p).h <= k \/ n < at[p] + Here(p).h)
        /\ Here(p).op = "either" => (at[p] + Arg(p) <= k \/ n < at[p] + Arg(p))
  BY <1>1 DEF Vouches, Here, Arg, Steps, Last
<1>3. /\ at[p] <= Last(p) /\ Here(p).h \in Nat
      /\ Here(p).op = "either" => Arg(p) \in Nat \ {0}
  BY HandlerAhead DEF Attends
<1>4. ASSUME NEW m \in Nat, at'[p] = m, m > at[p],
             \A n \in Steps(j, {"note"}) : m <= k \/ n < m
      PROVE  m \in 1..k \/ NoResult(p, m)
  <2>1. CASE m <= k
    BY <1>1, <1>4, <2>1
  <2>2. CASE ~ (m <= k)
    <3>1. ASSUME NEW n \in Steps(j, {"note"}) PROVE n \notin m..Last(p)
      <4>1. n < m /\ n \in Nat
        BY <1>2, <1>4, <2>2
      <4> QED
        BY <4>1
    <3> QED
      BY <3>1 DEF NoResult
  <2> QED
    BY <2>1, <2>2
<1>5. CASE at'[p] = Handler(p)
  <2>1. CASE Here(p).h = 0
    <3>1. at'[p] = Last(p) + 1
      BY <1>5, <2>1 DEF Handler
    <3>2. \A n \in Steps(j, {"note"}) : n < Last(p) + 1
      BY <1>1, <1>2
    <3>3. Last(p) + 1 \in Nat /\ Last(p) + 1 > at[p]
      BY <1>1, <1>3
    <3> QED
      BY <1>4, <3>1, <3>2, <3>3
  <2>2. CASE Here(p).h # 0
    <3>1. at'[p] = at[p] + Here(p).h
      BY <1>5, <2>2 DEF Handler
    <3>2. at[p] + Here(p).h \in Nat /\ at[p] + Here(p).h > at[p]
      BY <1>1, <1>3, <2>2
    <3> QED
      BY <1>2, <1>4, <2>2, <3>1, <3>2
  <2> QED
    BY <2>1, <2>2
<1>6. CASE Here(p).op = "either" /\ at'[p] = at[p] + Arg(p)
  <2>1. at[p] + Arg(p) \in Nat /\ at[p] + Arg(p) > at[p]
    BY <1>1, <1>3, <1>6
  <2> QED
    BY <1>2, <1>4, <1>6, <2>1
<1>7. CASE at'[p] = at[p] + 1 /\ at[p] # k
  <2>1. at[p] + 1 \in 1..k
    BY <1>1, <1>7
  <2> QED
    BY <1>7, <2>1
<1> QED
  BY <1>5, <1>6, <1>7 DEF Attends, Strides

\* An attesting driver goes on.
LEMMA AttestedStays ==
  ASSUME TypeOK, NEW p \in Procs, job[p] \in Attesting, Attested(p), job' = job,
         Attends(p) \/ Forgets(p), Straying(p)
  PROVE  Attested(p)'
<1> DEFINE k == Vouch(job[p])
<1>1. CASE Forgets(p)
  <2>1. noted'[p] = Absent /\ worker'[p] = "unknown"
    BY <1>1 DEF Forgets, TypeOK
  <2> QED
    BY <2>1, StatusesDiffer DEF Attested
<1>2. CASE Attends(p)
  <2>1. /\ job[p] \in Jobs /\ k \in 1..Last(p) /\ Vouches(job[p], k) /\ Programs[job[p]][k].op = "same_worker"
        /\ at[p] \in Nat /\ at[p] > 0 /\ at[p] <= Last(p) /\ Last(p) \in Nat /\ k \in Nat
    <3>1. /\ job[p] \in Jobs /\ k \in 1..Last(p) /\ Vouches(job[p], k)
          /\ Programs[job[p]][k].op = "same_worker"
      BY VouchFacts DEF Last
    <3>2. at[p] \in Nat /\ at[p] > 0 /\ at[p] <= Last(p) /\ Last(p) \in Nat
      BY <1>2, HandlerAhead DEF Attends
    <3> QED
      BY <3>1, <3>2
  <2>2. at'[p] > at[p] /\ at'[p] \in Nat
    <3>1. /\ Handler(p) \in Nat /\ Handler(p) > at[p]
          /\ Here(p).op = "either" => Arg(p) \in Nat \ {0}
      BY <1>2, HandlerAhead DEF Attends
    <3> QED
      BY <1>2, <2>1, <3>1 DEF Attends, Strides
  <2>3. Here(p).op = "note" => at[p] \in Steps(job[p], {"note"})
    BY <2>1 DEF Steps, Here, Last
  <2>4. at[p] \in 1..k => Here(p).op # "note"
    BY <2>1, <2>3 DEF Vouches
  <2>5. Here(p).op # "note" /\ noted[p] # Complete => noted'[p] # Complete
    BY <1>2, StatusesDiffer DEF Attends
  <2>6. at[p] \in 1..k => noted'[p] # Complete
    BY <2>4, <2>5 DEF Attested
  <2>7. at'[p] \in 1..k => at[p] \in 1..k
    BY <2>1, <2>2
  <2>8. ASSUME worker'[p] = "strayed"
        PROVE  noted'[p] # Complete /\ (at'[p] \in 1..k \/ NoResult(p, at'[p]))
    <3>1. CASE at[p] \in 1..k
      <4>1. at[p] = k => at'[p] = Handler(p)
        <5>1. at[p] = k => Here(p).op = "same_worker"
          BY <2>1 DEF Here
        <5>2. at[p] = k => worker[p] = "strayed"
          BY <2>8, <5>1 DEF Straying
        <5> QED
          BY <1>2, <5>1, <5>2 DEF Attends
      <4> QED
        BY <1>2, <2>6, <3>1, <4>1, StaysBeforeVouch
    <3>2. CASE at[p] \notin 1..k
      <4>1. ~ (At(p) /\ Here(p).op = "ask")
        <5>1. At(p) /\ Here(p).op = "ask" => at[p] \in Steps(job[p], {"ask"})
          BY DEF At, Last, Here, Steps
        <5>2. Steps(job[p], {"ask"}) \subseteq 1..k
          BY <2>1 DEF Vouches
        <5> QED
          BY <3>2, <5>1, <5>2
      <4>2. noted[p] # Complete /\ NoResult(p, at[p])
        BY <2>8, <3>2, <4>1 DEF Straying, Attested
      <4>3. Here(p).op # "note"
        BY <2>1, <2>3, <4>2 DEF NoResult
      <4>4. NoResult(p, at'[p])
        <5>1. at'[p]..Last(p) \subseteq at[p]..Last(p)
          BY <2>1, <2>2
        <5> QED
          BY <4>2, <5>1 DEF NoResult
      <4> QED
        BY <2>5, <4>2, <4>3, <4>4
    <3> QED
      BY <3>1, <3>2
  <2> QED
    BY <2>6, <2>7, <2>8 DEF Attested, NoResult, Last
<1> QED
  BY <1>1, <1>2

\* Every step of the system, as the workers see it.
LEMMA NextAttends ==
  ASSUME TypeOK, [Next]_vars
  PROVE  \/ Aside /\ \A q \in Procs : worker'[q] = "strayed" => worker[q] = "strayed"
         \/ \E p \in Procs : Steady(p) /\ Tale(p) /\ (Attends(p) \/ Forgets(p)) /\ Straying(p)
<1>1. CASE \E p \in Procs : Moves(p) \/ (Frail /\ (Falls(p) \/ Killed(p)))
  BY <1>1, TaleTold, ProcessAttends
<1>2. CASE Created \/ Healthy \/ (Frail /\ Crashes) \/ Rebuilt \/ UNCHANGED vars
  <2>1. Quiet
    BY <1>2, WorldKeeps
  <2>2. UNCHANGED <<image, noted, ran, file>> /\ (worker' = worker \/ worker' = Replaced)
    BY <1>2 DEF Created, Healthy, Crashes, Rebuilt, vars, memory, world, serving
  <2> QED
    BY <2>1, <2>2, ReplacedStrays DEF Aside
<1> QED
  BY <1>1, <1>2 DEF Next, Over

\* Steps of the others leave a driver attested.
LEMMA OthersAttested ==
  ASSUME NEW q \in Procs, Attested(q), job' = job, at'[q] = at[q], noted'[q] = noted[q],
         worker'[q] = "strayed" => worker[q] = "strayed"
  PROVE  Attested(q)'
BY DEF Attested, NoResult, Last

\* The workers, whatever happens.
LEMMA NextWorkers ==
  ASSUME TypeOK, WorkersInv, [Next]_vars
  PROVE  WorkersInv'
<1>1. CASE Aside /\ \A q \in Procs : worker'[q] = "strayed" => worker[q] = "strayed"
  BY <1>1, OthersAttested DEF WorkersInv, Aside, Quiet
<1>2. ASSUME NEW p \in Procs, Steady(p), Tale(p), Attends(p) \/ Forgets(p), Straying(p)
      PROVE  WorkersInv'
  <2>0. job' = job
    BY <1>2 DEF Steady
  <2>1. ASSUME NEW q \in Procs, job[q] \in Attesting PROVE Attested(q)'
    <3>1. CASE q = p
      BY <1>2, <2>0, <2>1, <3>1, AttestedStays DEF WorkersInv
    <3>2. CASE q # p
      BY <1>2, <2>0, <2>1, <3>2, OthersWrite, OthersAttested DEF WorkersInv, Straying
    <3> QED
      BY <3>1, <3>2
  <2> QED
    BY <2>0, <2>1 DEF WorkersInv
<1> QED
  BY <1>1, <1>2, NextAttends

\* A driver that vouches for its worker comes to no result after an answer of
\* another container, whoever stopped, restarted or lost the service in between:
\* the comparison lies behind its last question and before its first result.
THEOREM WorkersVouchedFor == Spec => []OneWorkerMeasured
<1>1. Init => WorkersInv
  BY StatusesDiffer DEF Init, WorkersInv, Attested
<1>2. WorkersInv => OneWorkerMeasured
  BY DEF WorkersInv, Attested, OneWorkerMeasured
<1> QED
  BY <1>1, <1>2, NextWorkers, TypeCorrect, PTL DEF Spec
-----------------------------------------------------------------------------
(* Reports.  A driver that came to its outcome has it on disk, or every way *)
(* ahead of it comes to the save.                                           *)

\* What a step that nothing strikes makes of an exception, of the wait for the
\* service and of the outcome.
Mindful(p) ==
  /\ at'[p] = at[p] + 1 \/ Here(p).op = "either" \/ raised'[p] # ""
  /\ Here(p).op = "await" => at'[p] = at[p] + 1 \/ service = "off"
  /\ Here(p).op \in {"open", "reopen"} => noted'[p] = Running
  /\ Here(p).op = "save" => Record(p, noted[p]) /\ noted' = noted
  /\ Here(p).op = "except_save" => IF Caught(p) THEN Record(p, Failed) /\ noted'[p] = Failed
                                                ELSE UNCHANGED <<noted, file>>
\* A driver forgets, is struck, or minds its outcome.
Minds(p) ==
  /\ \A q \in Procs \ {p} : raised'[q] = raised[q]
  /\ \/ ~ Driving(p)' /\ Forgets(p)
     \/ /\ Struck(p) /\ raised'[p] # "" /\ noted' = noted
        /\ file' = file \/ Here(p).op \in {"open", "save"}
     \/ At(p) /\ Smooth(p) /\ Mindful(p)

LEMMA GoesOn ==
  ASSUME TypeOK, NEW p \in Procs,
         \/ Onward(p) \/ Throw(p, Error) \/ Throw(p, Signal)
         \/ raised[p] # "" /\ Throw(p, raised[p])
  PROVE  /\ at'[p] = at[p] + 1 \/ raised'[p] # ""
         /\ \A q \in Procs \ {p} : raised'[q] = raised[q]
BY DEF Onward, Throw, To, TypeOK, Error, Signal

\* Steps that look, take the lock, inspect, or concern service and containers.
LEMMA PlainMinds ==
  ASSUME TypeOK, DOMAIN hurt = Procs, NEW p \in Procs, hurt' = hurt,
         \/ Check(p) \/ PollsService(p) \/ SeesOutcome(p) \/ Readies(p) \/ Inspects(p) \/ Notes(p)
         \/ Announces(p) \/ WaitsForLock(p) \/ TriesLock(p) \/ Identifies(p) \/ Asks(p)
         \/ Stops(p) \/ StartsService(p) \/ RestartsService(p)
         \/ Ups(p) \/ Exits(p) \/ Spawns(p) \/ Downs(p)
  PROVE  Minds(p)
<1>1. Hauls(p) /\ Smooth(p)
  BY PlainHauls, ServiceHauls, BoxesHaul
<1>2. At(p) /\ Here(p).op \notin {"await", "open", "reopen", "save", "except_save"}
  BY DEF Check, Looks, PollsService, SeesOutcome, Readies, Inspects, Notes, Announces, WaitsForLock, TriesLock,
         Identifies, Asks, Stops, StartsService, RestartsService, Ups, Exits, Spawns, Downs, Now
<1>3. Onward(p) \/ Throw(p, Error)
  BY DEF Check, PollsService, SeesOutcome, Readies, Inspects, Notes, Announces, WaitsForLock, TriesLock,
         Identifies, Asks, Stops, StartsService, RestartsService, Ups, Exits, Spawns, Downs, Demand
<1> QED
  BY <1>1, <1>2, <1>3, GoesOn DEF Minds, Mindful

\* The wait for the service, and the steps of the record.
LEMMA RecordMinds ==
  ASSUME TypeOK, DOMAIN hurt = Procs, NEW p \in Procs, hurt' = hurt,
         AwaitService(p) \/ Opens(p) \/ Reopens(p) \/ Saves(p)
  PROVE  Minds(p)
<1>1. At(p) /\ Smooth(p)
  BY PlainHauls DEF AwaitService, Opens, Reopens, Saves, Now
<1>2. Onward(p) \/ Throw(p, Error)
  BY DEF AwaitService, Opens, Reopens, Saves, Demand
<1>3. CASE AwaitService(p)
  <2>1. Here(p).op = "await" /\ (Onward(p) \/ service = "off")
    BY <1>3 DEF AwaitService, Now, Demand, TypeOK
  <2>2. at'[p] = at[p] + 1 \/ service = "off"
    BY <2>1 DEF Onward, To, TypeOK
  <2> QED
    BY <1>1, <1>2, <2>1, <2>2, GoesOn DEF Minds, Mindful
<1>4. CASE Opens(p) \/ Reopens(p)
  <2>1. Here(p).op \in {"open", "reopen"} /\ noted'[p] = Running
    BY <1>4 DEF Opens, Reopens, Now, TypeOK
  <2> QED
    BY <1>1, <1>2, <2>1, GoesOn DEF Minds, Mindful
<1>5. CASE Saves(p)
  <2>1. Here(p).op = "save" /\ Record(p, noted[p]) /\ noted' = noted
    BY <1>5 DEF Saves, Saving, Now, memory
  <2> QED
    BY <1>1, <1>2, <2>1, GoesOn DEF Minds, Mindful
<1> QED
  BY <1>3, <1>4, <1>5

\* Clauses and choices.
LEMMA ClausesMind ==
  ASSUME TypeOK, DOMAIN hurt = Procs, NEW p \in Procs, hurt' = hurt,
         Excepts(p) \/ Swallows(p) \/ Reraises(p) \/ Chooses(p)
  PROVE  Minds(p)
<1>1. At(p) /\ Smooth(p)
  BY PlainHauls DEF Excepts, Swallows, Reraises, Chooses, Now
<1>2. CASE Excepts(p)
  <2>1. /\ Onward(p) /\ Here(p).op \in {"except", "except_save"}
        /\ Here(p).op = "except_save" => IF Caught(p) THEN Record(p, Failed) /\ noted'[p] = Failed
                                                      ELSE UNCHANGED <<noted, file>>
    BY <1>2 DEF Excepts, Now, TypeOK
  <2> QED
    BY <1>1, <2>1, GoesOn DEF Minds, Mindful
<1>3. CASE Swallows(p) \/ Chooses(p)
  <2>1. /\ at'[p] = at[p] + 1 \/ Here(p).op = "either"
        /\ Here(p).op \in {"swallow", "either"}
        /\ \A q \in Procs \ {p} : raised'[q] = raised[q]
    BY <1>3 DEF Swallows, Chooses, Now, To, TypeOK
  <2> QED
    BY <1>1, <2>1 DEF Minds, Mindful
<1>4. CASE Reraises(p)
  <2>1. Here(p).op = "reraise" /\ (Onward(p) \/ (raised[p] # "" /\ Throw(p, raised[p])))
    BY <1>4 DEF Reraises, Now
  <2> QED
    BY <1>1, <2>1, GoesOn DEF Minds, Mindful
<1> QED
  BY <1>2, <1>3, <1>4

\* Errors, signals and departures.
LEMMA StruckMinds ==
  ASSUME TypeOK, DOMAIN hurt = Procs, NEW p \in Procs, Falls(p)
  PROVE  Minds(p)
<1>1. Struck(p) /\ Halfway(p) /\ (Throw(p, Error) \/ Throw(p, Signal))
  BY StruckHauls DEF Falls, Raises, Interrupted
<1>2. /\ noted' = noted
      /\ file' = file \/ Here(p).op \in {"open", "save"}
  BY <1>1 DEF Halfway, Now, memory, world, Saving, Stopping, Starting, Restarting, Serving, Creating, Asking,
              Leaving, Removing, Boxing
<1>3. raised'[p] # "" /\ \A q \in Procs \ {p} : raised'[q] = raised[q]
  BY <1>1 DEF Throw, TypeOK, Error, Signal
<1> QED
  BY <1>1, <1>2, <1>3 DEF Minds

\* Every step of a process.
LEMMA ProcessMinds ==
  ASSUME TypeOK, DOMAIN hurt = Procs, NEW p \in Procs,
         Moves(p) \/ (Frail /\ (Falls(p) \/ Killed(p)))
  PROVE  Steady(p) /\ Hauls(p) /\ Tale(p) /\ Minds(p)
<1>1. Steady(p) /\ Hauls(p) /\ Tale(p)
  BY ProcessHauls, TaleTold
<1>2. CASE Hooks(p) \/ Ends(p) \/ Killed(p)
  <2>1. Forgets(p)
    BY <1>2 DEF Hooks, Ends, Killed
  <2>2. \A q \in Procs \ {p} : raised'[q] = raised[q]
    BY <2>1 DEF Forgets, TypeOK
  <2> QED
    BY <1>1, <1>2, <2>1, <2>2, LeavesDriving DEF Minds
<1>3. CASE Falls(p)
  BY <1>1, <1>3, StruckMinds
<1>4. CASE Moves(p) /\ ~ (Hooks(p) \/ Ends(p))
  BY <1>1, <1>4, PlainMinds, RecordMinds, ClausesMind DEF Moves, Waits, Writes, Commands, Contains, Turns
<1> QED
  BY <1>2, <1>3, <1>4

\* Every step of the system.
LEMMA NextMinds ==
  ASSUME TypeOK, DOMAIN hurt = Procs, [Next]_vars
  PROVE  \/ Idly /\ UNCHANGED <<raised, noted, file>>
         \/ \E p \in Procs : Steady(p) /\ Hauls(p) /\ Tale(p) /\ Minds(p)
<1>1. CASE \E p \in Procs : Moves(p) \/ (Frail /\ (Falls(p) \/ Killed(p)))
  BY <1>1, ProcessMinds
<1>2. CASE Created \/ Healthy \/ (Frail /\ Crashes) \/ Rebuilt \/ UNCHANGED vars
  BY <1>2 DEF Created, Healthy, Crashes, Rebuilt, vars, control, memory, world, serving, Idly
<1> QED
  BY <1>1, <1>2 DEF Next, Over

\* An await that is sure finds the service begun, while its driver is driving.
Assured == \A p \in Procs : Driving(p) /\ Sure(job[p], at[p]) => service # "off"
\* The outcome was noted by a step of the program.
Behind(p) == \E n \in Concludes(job[p]) : n < at[p]
Told(p) == file[job[p]].status = noted[p] /\ (job[p] \in Guarded => Mine(p))
Owed(p) == Reported(job[p], at[p]) \/ (raised[p] # "" /\ Catches(job[p], at[p]))
\* It was not struck where it could not report; as in Unhindered.
Unhurt(p) == /\ hurt[p] \cap {"outside", "hook", "kill", "save"} = {}
             /\ Posting[job[p]] # {} => "except_save" \notin hurt[p]
ReportInv == \A p \in Procs :
               noted[p] \in Outcomes =>
                 /\ Behind(p)
                 /\ (Owns(p) /\ Unhurt(p)) => (Told(p) \/ Owed(p))

\* Where a sure await stands.
LEMMA SureFacts ==
  ASSUME TypeOK, NEW p \in Procs, Sure(job[p], at[p])
  PROVE  /\ At(p) /\ Here(p).op = "await" /\ at[p] - 1 \in Steps(job[p], Begins)
         /\ at[p] \in Nat /\ at[p] - 1 \in 1..Last(p) /\ at[p] \in (at[p] - 1)..Last(p)
         /\ \A i \in 1..(at[p] - 1) : /\ i + Programs[job[p]][i].h # at[p]
                                      /\ Programs[job[p]][i].op = "either" => i + Programs[job[p]][i].arg # at[p]
<1>1. job[p] \in Jobs
  BY JobTyped
<1>2. Last(p) \in Nat
  BY <1>1, ProgramsAssumption DEF Last
<1>3. /\ At(p) /\ Here(p).op = "await" /\ at[p] - 1 \in Steps(job[p], Begins)
      /\ at[p] \in 1..Last(p) /\ at[p] - 1 \in 1..Last(p)
  BY DEF Sure, Steps, At, Last, Here
<1> QED
  BY <1>2, <1>3 DEF Sure

\* Its own start begins the service; nobody else stops it.
LEMMA AssuredStays ==
  ASSUME TypeOK, Assured, Tolled, NEW q \in Procs, Steady(q), Hauls(q), Minds(q)
  PROVE  Assured'
<1>0. job' = job /\ TypeOK
  BY DEF Steady
<1> SUFFICES ASSUME NEW p \in Procs, Driving(p)', Sure(job[p], at'[p]) PROVE service' # "off"
  BY <1>0 DEF Assured
<1>1. CASE p = q
  <2>1. At(p) /\ (Struck(p) \/ Smooth(p)) /\ Driving(p)
    BY <1>1, DrivesOn DEF Minds
  <2>2. PICK k : k = at'[p]
    OBVIOUS
  <2>3. /\ k - 1 \in Steps(job[p], Begins) /\ k \in Steps(job[p], {"await"})
        /\ \A i \in 1..(k - 1) : /\ i + Programs[job[p]][i].h # k
                                 /\ Programs[job[p]][i].op = "either" => i + Programs[job[p]][i].arg # k
    BY <2>2 DEF Sure
  <2>4. k \in 1..Last(p) /\ k - 1 \in 1..Last(p) /\ Last(p) \in Nat /\ at[p] \in Nat /\ at[p] > 0 /\ at[p] < k
    <3>1. at'[p] > at[p]
      BY <1>1, DrivesOn
    <3>2. Last(p) \in Nat /\ at[p] \in Nat /\ at[p] > 0
      BY <2>1, HandlerAhead
    <3> QED
      BY <2>2, <2>3, <3>1, <3>2 DEF Steps, Last
  <2>5. at[p] \in 1..(k - 1)
    BY <2>4
  <2>6. at'[p] # Handler(p)
    <3>1. at[p] + Here(p).h # k
      <4>1. /\ at[p] + Programs[job[p]][at[p]].h # k
            /\ Programs[job[p]][at[p]].op = "either" => at[p] + Programs[job[p]][at[p]].arg # k
        BY <2>3, <2>5, Zenon
      <4> QED
        BY <4>1 DEF Here
    <3>2. Handler(p) # k
      BY <2>4, <3>1 DEF Handler
    <3> QED
      BY <2>2, <3>2
  <2>7. ~ (Here(p).op = "either" /\ at'[p] = at[p] + Arg(p))
    <3>1. /\ at[p] + Programs[job[p]][at[p]].h # k
          /\ Programs[job[p]][at[p]].op = "either" => at[p] + Programs[job[p]][at[p]].arg # k
      BY <2>3, <2>5, Zenon
    <3> QED
      BY <2>2, <3>1 DEF Here, Arg
  <2>8. Smooth(p) /\ at'[p] = at[p] + 1
    <3>1. Smooth(p)
      BY <2>1, <2>6 DEF Struck
    <3> QED
      BY <2>6, <2>7, <3>1 DEF Smooth
  <2>9. at[p] = k - 1
    BY <2>2, <2>4, <2>8
  <2>10. Here(p).op \in Begins
    BY <2>3, <2>9 DEF Steps, Here
  <2> QED
    BY <2>8, <2>10 DEF Smooth
<1>2. CASE p # q
  <2>1. at'[p] = at[p] /\ Driving(p)
    BY <1>2, OthersStand
  <2>2. service # "off" /\ Sure(job[p], at[p])
    BY <2>1 DEF Assured
  <2>3. ASSUME At(q), Here(q).op = "stop" PROVE FALSE
    <3>1. at[q] \in Steps(job[q], {"stop"}) /\ at[q] \in Steps(job[q], Touches) /\ at[q] \in at[q]..Last(q)
      <4>1. at[q] \in 1..Last(q) /\ at[q] \in Nat /\ Last(q) \in Nat
        BY <2>3, HandlerAhead DEF At
      <4> QED
        BY <2>3, <4>1 DEF Steps, Here, Last, Touches
    <3>2. job \in Starts /\ at[p] \in Steps(job[p], {"await"})
      BY <2>2 DEF TypeOK, Sure
    <3>3. job[p] \in Tame /\ job[q] \in Tame
      BY <1>2, <2>2, <3>1, <3>2, ReportAssumption
    <3>4. lock = q
      BY <3>1, <3>3, TouchersHold
    <3>5. at[p] - 1 \in Steps(job[p], Touches) /\ at[p] \in (at[p] - 1)..Last(p)
      BY <2>2, SureFacts DEF Steps, Begins, Touches
    <3>6. lock = p
      BY <3>3, <3>5, TouchersHold
    <3> QED
      BY <1>2, <3>4, <3>6
  <2> QED
    BY <2>2, <2>3 DEF Hauls, Serves
<1> QED
  BY <1>1, <1>2

\* A driver before a save is driving.
LEMMA BeforeSave ==
  ASSUME TypeOK, NEW p \in Procs, At(p), NEW d \in Steps(job[p], {"save"}), at[p] <= d
  PROVE  Driving(p)
<1>1. job[p] \in Jobs /\ at[p] \in Nat /\ at[p] > 0 /\ Last(p) \in Nat
  BY HandlerAhead, JobTyped
<1>2. d \in 1..Last(p) /\ d \in Steps(job[p], Tells \cup Creates \cup {"open", "reopen"})
  BY DEF Steps, Last, Tells
<1>3. ASSUME NEW n \in Posting[job[p]] PROVE at[p] < n
  <2>1. n \in Nat
    BY <1>1, PostingIsSteps, ProgramsAssumption DEF Steps
  <2>2. d \notin n..Last(p)
    BY <1>1, <1>2, RecordsAssumption DEF Last
  <2> QED
    BY <1>1, <1>2, <2>1, <2>2
<1> QED
  BY <1>1, <1>3 DEF Driving

\* From a later step on the same way, too, every way comes to the save.
LEMMA ReportsOn ==
  ASSUME NEW j \in Jobs, NEW n \in Nat, NEW d, Reports(j, n, d), NEW m \in n..d
  PROVE  Reports(j, m, d) /\ Reported(j, m)
<1>1. d \in 1..Len(Programs[j]) /\ Len(Programs[j]) \in Nat /\ d \in Steps(j, {"save"})
  BY ProgramsAssumption DEF Reports, Steps
<1>2. m..(d - 1) \subseteq n..(d - 1) /\ m <= d /\ d \in m..Len(Programs[j])
  BY <1>1
<1>3. Reports(j, m, d)
  BY <1>1, <1>2 DEF Reports
<1> QED
  BY <1>2, <1>3 DEF Reported

\* Where the ways lead from a step before the save.
LEMMA WayFacts ==
  ASSUME TypeOK, NEW p \in Procs, At(p), NEW d, Reports(job[p], at[p], d), at[p] # d
  PROVE  /\ d \in Steps(job[p], {"save"}) /\ at[p] <= d
         /\ \A m \in (at[p] + 1)..d : Reported(job[p], m)
         /\ at[p] + 1 \in (at[p] + 1)..d
         /\ Here(p).op = "either" => at[p] + Arg(p) \in (at[p] + 1)..d
         /\ IF Bare(job[p], at[p])
              THEN /\ Here(p).h = 0 \/ Handler(p) \in Posting[job[p]]
                   /\ Here(p).op \in Fails => Sure(job[p], at[p])
              ELSE /\ Here(p).h # 0 /\ Handler(p) \notin Posting[job[p]]
                   /\ Handler(p) \in (at[p] + 1)..d \/ Catches(job[p], Handler(p))
<1>1. /\ job[p] \in Jobs /\ at[p] \in Nat /\ Handler(p) \in Nat /\ Handler(p) > at[p]
      /\ Here(p).op = "either" => Arg(p) \in Nat \ {0}
  BY HandlerAhead, JobTyped
<1>2. d \in 1..Len(Programs[job[p]]) /\ Len(Programs[job[p]]) \in Nat
  BY <1>1, ProgramsAssumption DEF Reports, Steps
<1>3. d \in Steps(job[p], {"save"}) /\ at[p] <= d /\ d \in Nat
  BY <1>2 DEF Reports
<1>4. at[p] \in at[p]..(d - 1)
  BY <1>1, <1>3
<1>5. /\ Here(p).op = "either" => at[p] + Arg(p) <= d
      /\ IF Bare(job[p], at[p]) THEN Here(p).op \in Fails => Sure(job[p], at[p])
         ELSE at[p] + Here(p).h <= d \/ Catches(job[p], at[p] + Here(p).h)
  BY <1>4 DEF Reports, Here, Arg
<1>6. \A m \in (at[p] + 1)..d : Reported(job[p], m)
  <2> SUFFICES ASSUME NEW m \in (at[p] + 1)..d PROVE Reported(job[p], m)
    OBVIOUS
  <2>1. m \in at[p]..d
    BY <1>1, <1>3
  <2> QED
    BY <1>1, <2>1, ReportsOn
<1>7. at[p] + 1 \in (at[p] + 1)..d
  BY <1>1, <1>3
<1>8. Here(p).op = "either" => at[p] + Arg(p) \in (at[p] + 1)..d
  BY <1>1, <1>3, <1>5
<1>9. CASE Bare(job[p], at[p])
  <2>1. Here(p).h = 0 \/ Handler(p) \in Posting[job[p]]
    BY <1>9 DEF Bare, Here, Handler
  <2> QED
    BY <1>3, <1>5, <1>6, <1>7, <1>8, <1>9, <2>1
<1>10. CASE ~ Bare(job[p], at[p])
  <2>1. Here(p).h # 0 /\ at[p] + Here(p).h \notin Posting[job[p]]
    BY <1>10 DEF Bare, Here
  <2>2. Handler(p) = at[p] + Here(p).h
    BY <2>1 DEF Handler
  <2>3. Handler(p) \in (at[p] + 1)..d \/ Catches(job[p], Handler(p))
    BY <1>1, <1>3, <1>5, <1>10, <2>2
  <2> QED
    BY <1>3, <1>6, <1>7, <1>8, <1>10, <2>1, <2>2, <2>3
<1> QED
  BY <1>9, <1>10

\* A driver on its way to the save stays on it, unless it is struck where it
\* cannot report, or has something to record that it caught.
LEMMA OwedOn ==
  ASSUME TypeOK, Assured, NEW p \in Procs, At(p), Steady(p), Hauls(p), Minds(p), ~ Forgets(p), Unhurt(p)',
         NEW d, Reports(job[p], at[p], d), at[p] # d
  PROVE  Owed(p)'
<1>0. job' = job
  BY DEF Steady
<1>1. \A m \in (at[p] + 1)..d : at'[p] = m => Owed(p)'
  BY <1>0, WayFacts DEF Owed
<1>2. CASE at'[p] = at[p] + 1
  BY <1>1, <1>2, WayFacts
<1>3. CASE at'[p] = at[p] + Arg(p) /\ Here(p).op = "either"
  BY <1>1, <1>3, WayFacts
<1>4. CASE at'[p] = Handler(p) /\ raised'[p] # "" /\ ~ Bare(job[p], at[p])
  <2>1. CASE Handler(p) \in (at[p] + 1)..d
    BY <1>1, <1>4, <2>1
  <2>2. CASE Catches(job[p], Handler(p))
    BY <1>0, <1>4, <2>2 DEF Owed
  <2> QED
    BY <1>4, <2>1, <2>2, WayFacts
<1>5. CASE Struck(p) /\ raised'[p] # ""
  <2>1. at'[p] = Handler(p) /\ hurt'[p] = hurt[p] \cup Where(p)
    BY <1>5 DEF Struck
  <2>2. "outside" \notin Where(p) /\ "hook" \notin Where(p)
    BY <2>1 DEF Unhurt
  <2>3. Here(p).h # 0 /\ Handler(p) \notin Posting[job[p]]
    BY <2>2 DEF Where
  <2> QED
    BY <1>4, <1>5, <2>1, <2>3, WayFacts
<1>6. CASE At(p) /\ Smooth(p) /\ Mindful(p)
  <2>1. CASE at'[p] = Handler(p) /\ Here(p).op \in Fails /\ at'[p] # at[p] + 1
    <3>1. raised'[p] # ""
      BY <1>6, <2>1 DEF Mindful, Fails
    <3>2. ~ Bare(job[p], at[p])
      <4> SUFFICES ASSUME Bare(job[p], at[p]) PROVE FALSE
        OBVIOUS
      <4>1. Sure(job[p], at[p]) /\ d \in Steps(job[p], {"save"}) /\ at[p] <= d
        BY <2>1, WayFacts
      <4>2. service # "off" /\ Here(p).op = "await"
        BY <4>1, BeforeSave, SureFacts DEF Assured
      <4> QED
        BY <1>6, <2>1, <4>2 DEF Mindful
    <3> QED
      BY <1>4, <2>1, <3>1, <3>2
  <2> QED
    BY <1>2, <1>3, <1>6, <2>1 DEF Smooth
<1> QED
  BY <1>5, <1>6 DEF Minds
\* What a driver holds in memory becomes an outcome where the program says so.
LEMMA NotesOutcome ==
  ASSUME TypeOK, NEW p \in Procs, Tale(p), noted'[p] \in Outcomes, noted' # noted
  PROVE  /\ At(p) /\ at[p] \in Concludes(job[p])
         /\ Here(p).op \in {"note", "except", "except_save"}
<1>1. \A s : [noted EXCEPT ![p] = s][p] = s
  BY DEF TypeOK
<1>2. noted'[p] # Running /\ noted'[p] # Absent
  BY DEF Outcomes, Failed, Rejected, Complete, Running, Absent
<1>3. CASE At(p) /\ Here(p).op = "note" /\ \E s \in Arg(p) : noted' = [noted EXCEPT ![p] = s]
  <2>1. noted'[p] \in Arg(p) \cap Outcomes
    BY <1>1, <1>3
  <2>2. at[p] \in Steps(job[p], {"note"}) /\ Programs[job[p]][at[p]].arg \cap Outcomes # {}
    BY <1>3, <2>1 DEF At, Last, Here, Arg, Steps
  <2> QED
    BY <1>3, <2>2 DEF Concludes
<1>4. CASE At(p) /\ Here(p).op \in {"except", "except_save"}
  BY <1>4 DEF Concludes, At, Last, Here, Steps
<1> QED
  BY <1>1, <1>2, <1>3, <1>4 DEF Tale, Noting

\* A record that is told stays so if nobody touches it and nothing else is noted.
LEMMA ToldStays ==
  ASSUME TypeOK, OpenedOnce, NEW q \in Procs, Steady(q), Tale(q), NEW p \in Procs, Told(p),
         file'[job[p]].status = file[job[p]].status, noted'[p] = noted[p]
  PROVE  Told(p)'
<1>1. job' = job
  BY DEF Steady
<1>2. job[p] \in Guarded => Mine(p)'
  BY MineStays DEF Told
<1> QED
  BY <1>1, <1>2 DEF Told

\* A driver that writes its own record, as it has it in memory, has told it.
LEMMA TellsNow ==
  ASSUME TypeOK, OpenedOnce, NEW p \in Procs, Steady(p), Tale(p), At(p), Here(p).op \in Tells,
         file'[job[p]].status = noted'[p]
  PROVE  Told(p)'
<1>1. job' = job
  BY DEF Steady
<1>2. Author(p)
  BY AuthorsWrite
<1>3. job[p] \in Guarded => Mine(p)
  BY <1>2 DEF OpenedOnce, Mine
<1>4. job[p] \in Guarded => Mine(p)'
  BY <1>3, MineStays
<1> QED
  BY <1>1, <1>4 DEF Told

\* What lies behind a driver stays behind it, and so does the step it makes.
LEMMA BehindStays ==
  ASSUME TypeOK, NEW p \in Procs, Steady(p), at'[p] > at[p], at[p] \in Nat,
         Behind(p) \/ at[p] \in Concludes(job[p])
  PROVE  Behind(p)'
<1>1. job' = job /\ job[p] \in Jobs /\ at'[p] \in Nat
  <2>1. \E m \in Nat : at' = [at EXCEPT ![p] = m]
    BY DEF Steady
  <2>2. at'[p] \in Nat
    BY <2>1 DEF TypeOK
  <2> QED
    BY <2>2, JobTyped DEF Steady
<1>2. \A n \in Concludes(job[p]) : n \in Nat
  <2>1. \A n \in Concludes(job[p]) : n \in 1..Len(Programs[job[p]])
    BY Zenon DEF Concludes, Steps
  <2> QED
    BY <2>1
<1>3. CASE Behind(p)
  <2>1. PICK n \in Concludes(job[p]) : n < at[p]
    BY <1>3 DEF Behind
  <2>2. n < at'[p]
    BY <1>1, <1>2, <2>1
  <2> QED
    BY <1>1, <2>2 DEF Behind
<1>4. CASE at[p] \in Concludes(job[p])
  BY <1>1, <1>4 DEF Behind
<1> QED
  BY <1>3, <1>4

\* A driver that comes to its outcome has told it, or owes it.
LEMMA NewOutcome ==
  ASSUME TypeOK, OpenedOnce, NEW p \in Procs, Steady(p), Tale(p), At(p), Smooth(p), Mindful(p),
         noted'[p] \in Outcomes, noted' # noted
  PROVE  Told(p)' \/ Owed(p)'
<1>0. job' = job /\ job[p] \in Jobs
  BY JobTyped DEF Steady
<1>1. at[p] \in Concludes(job[p]) /\ Here(p).op \in {"note", "except", "except_save"}
  BY NotesOutcome
<1>2. at'[p] = at[p] + 1
  BY <1>1 DEF Smooth, Fails
<1>3. CASE Here(p).op = "except_save"
  <2>1. Record(p, Failed) /\ noted'[p] = Failed
    BY <1>3 DEF Mindful
  <2>2. file'[job[p]].status = noted'[p]
    BY <2>1, OwnRecord
  <2> QED
    BY <1>3, <2>2, TellsNow DEF Tells
<1>4. CASE Here(p).op # "except_save"
  <2>1. at[p] \notin Steps(job[p], {"except_save"})
    BY <1>4 DEF Steps, Here
  <2>2. Reported(job[p], at[p] + 1)
    BY <1>0, <1>1, <2>1, ReportAssumption
  <2> QED
    BY <1>0, <1>2, <2>2 DEF Owed
<1> QED
  BY <1>3, <1>4
\* A driver that had its outcome has told it after a step, or owes it still.
LEMMA OldOutcome ==
  ASSUME TypeOK, Assured, OpenedOnce, NEW p \in Procs, Steady(p), Hauls(p), Tale(p), Minds(p),
         At(p), ~ Forgets(p), Unhurt(p)', noted[p] \in Outcomes, noted' = noted,
         Behind(p), Told(p) \/ Owed(p)
  PROVE  Told(p)' \/ Owed(p)'
<1> DEFINE Still == file'[job[p]].status = file[job[p]].status
<1>0. job' = job /\ job[p] \in Jobs /\ job[p] \in DOMAIN file
  BY OwnRecord, JobTyped DEF Steady
<1>1. Told(p) /\ Still => Told(p)'
  BY ToldStays
<1>2. Reported(job[p], at[p]) /\ Here(p).op # "save" => Owed(p)'
  <2> SUFFICES ASSUME Here(p).op # "save", NEW d, Reports(job[p], at[p], d) PROVE Owed(p)'
    BY DEF Reported
  <2>1. at[p] # d
    BY DEF Reports, Steps, Here
  <2> QED
    BY <2>1, OwedOn
<1>3. Catches(job[p], at[p]) => Here(p).op = "except_save" /\ Anything \subseteq Arg(p) /\ Posting[job[p]] # {}
  BY DEF Catches, Steps, Here, Arg
<1>4. noted[p] # Running /\ noted[p] # Absent
  BY DEF Outcomes, Failed, Rejected, Complete, Running, Absent
<1>5. CASE Here(p).op = "save"
  <2>1. CASE Struck(p)
    <3>1. hurt'[p] = hurt[p] \cup Where(p) /\ (Where(p) = {"outside"} \/ "save" \in Where(p))
      BY <1>5, <2>1 DEF Struck, Where
    <3> QED
      BY <3>1 DEF Unhurt
  <2>2. CASE Mindful(p)
    <3>1. file'[job[p]].status = noted'[p]
      BY <1>5, <2>2, OwnRecord DEF Mindful
    <3> QED
      BY <1>5, <3>1, TellsNow DEF Tells
  <2> QED
    BY <2>1, <2>2 DEF Minds
<1>6. CASE Here(p).op = "except_save"
  <2>1. CASE Struck(p) /\ (file' = file \/ Here(p).op \in {"open", "save"})
    <3>1. hurt'[p] = hurt[p] \cup Where(p) /\ (Where(p) = {"outside"} \/ "except_save" \in Where(p))
      BY <1>6, <2>1 DEF Struck, Where
    <3>2. Posting[job[p]] = {}
      BY <1>0, <3>1 DEF Unhurt
    <3> QED
      BY <1>1, <1>2, <1>3, <1>6, <2>1, <3>2 DEF Owed
  <2>2. CASE Mindful(p) /\ Caught(p)
    <3>1. file'[job[p]].status = noted'[p]
      BY <1>6, <2>2, OwnRecord DEF Mindful
    <3> QED
      BY <1>6, <3>1, TellsNow DEF Tells
  <2>3. CASE Mindful(p) /\ ~ Caught(p)
    <3>1. Still
      BY <1>6, <2>3 DEF Mindful
    <3>2. raised[p] # "" => ~ (Anything \subseteq Arg(p))
      BY <2>3 DEF Caught, TypeOK, Anything
    <3> QED
      BY <1>1, <1>2, <1>3, <1>6, <3>1, <3>2 DEF Owed
  <2> QED
    BY <2>1, <2>2, <2>3 DEF Minds
<1>7. CASE Here(p).op \notin {"save", "except_save"}
  <2>1. Owed(p) => Owed(p)'
    BY <1>2, <1>3, <1>7 DEF Owed
  <2>2. CASE Here(p).op = "announce" /\ ~ Still
    <3>1. Smooth(p)
      BY <2>2 DEF Minds
    <3>2. at'[p] = at[p] + 1
      BY <2>2, <3>1 DEF Smooth, Fails
    <3>3. PICK n \in Concludes(job[p]) : n < at[p]
      BY DEF Behind
    <3>4. at[p] \in Steps(job[p], {"announce"})
      BY <2>2 DEF At, Last, Here, Steps
    <3>5. Reported(job[p], at[p] + 1)
      BY <1>0, <3>3, <3>4, ReportAssumption
    <3> QED
      BY <1>0, <3>2, <3>5 DEF Owed
  <2>3. CASE Here(p).op = "open" /\ ~ Still
    <3>1. file[job[p]].status = Absent
      BY <1>0, <2>3, WritingSays DEF Tale
    <3> QED
      BY <1>4, <2>1, <3>1 DEF Told
  <2>4. CASE Here(p).op = "reopen" /\ ~ Still
    <3>1. noted'[p] = Running
      BY <2>4 DEF Minds, Mindful
    <3> QED
      BY <1>4, <3>1
  <2>5. Still \/ Here(p).op \in {"announce", "open", "reopen"}
    BY <1>0, <1>7, WritingSays DEF Tale
  <2> QED
    BY <1>1, <2>1, <2>2, <2>3, <2>4, <2>5
<1> QED
  BY <1>5, <1>6, <1>7

\* Steps of the others change nothing of what a driver told or owes.
LEMMA OthersReport ==
  ASSUME TypeOK, OpenedOnce, NEW q \in Procs, Steady(q), Tale(q), NEW p \in Procs, p # q,
         Owns(p), Told(p)
  PROVE  Told(p)'
<1>1. noted'[p] = noted[p] /\ job[p] \in DOMAIN file
  BY OthersWrite, OwnRecord
<1>2. CASE job[q] # job[p]
  <2>1. file'[job[p]].status = file[job[p]].status
    BY <1>1, <1>2, WritingSays DEF Tale
  <2> QED
    BY <1>1, <2>1, ToldStays
<1>3. CASE job[q] = job[p]
  <2>1. Mine(p)
    BY <1>3 DEF Owns, Told
  <2>2. At(q) => Here(q).op \notin Tells \cup {"reopen"}
    BY <1>3, <2>1, AuthorsWrite DEF Mine
  <2>3. file'[job[p]].status = file[job[p]].status
    BY <1>1, <1>3, <2>1, <2>2, WritingSays DEF Tale, Tells, Mine
  <2> QED
    BY <1>1, <2>3, ToldStays
<1> QED
  BY <1>2, <1>3

\* A step of q, as the report of p sees it.
LEMMA ReportStays ==
  ASSUME TypeOK, Assured, OpenedOnce, ReportInv,
         NEW q \in Procs, Steady(q), Hauls(q), Tale(q), Minds(q)
  PROVE  ReportInv'
<1>0. job' = job /\ DOMAIN hurt' = Procs
  BY DEF Steady, Hauls
<1> SUFFICES ASSUME NEW p \in Procs, noted'[p] \in Outcomes
             PROVE  Behind(p)' /\ (Owns(p) /\ Unhurt(p)' => Told(p)' \/ Owed(p)')
  BY <1>0 DEF ReportInv, Owns
<1>1. CASE p # q
  <2>1. at'[p] = at[p] /\ noted'[p] = noted[p] /\ hurt'[p] = hurt[p] /\ raised'[p] = raised[p]
    BY <1>1, OthersWrite DEF Hauls, Minds
  <2>2. Behind(p) /\ (Owns(p) /\ Unhurt(p) => Told(p) \/ Owed(p))
    BY <2>1 DEF ReportInv
  <2>3. Behind(p)'
    BY <1>0, <2>1, <2>2 DEF Behind
  <2>4. ASSUME Owns(p), Unhurt(p)' PROVE Told(p)' \/ Owed(p)'
    <3>1. Unhurt(p)
      BY <1>0, <2>1, <2>4 DEF Unhurt
    <3>2. Owed(p) => Owed(p)'
      BY <1>0, <2>1 DEF Owed
    <3> QED
      BY <1>1, <2>2, <2>4, <3>1, <3>2, OthersReport
  <2> QED
    BY <2>3, <2>4
<1>2. CASE p = q
  <2>1. ~ Forgets(p)
    <3>1. Forgets(p) => noted'[p] = Absent
      BY DEF Forgets, TypeOK
    <3> QED
      BY <3>1 DEF Outcomes, Failed, Rejected, Complete, Absent
  <2>2. At(p) /\ ((Struck(p) /\ noted' = noted) \/ (Smooth(p) /\ Mindful(p)))
    <3>1. Struck(p) => At(p)
      BY DEF Struck
    <3> QED
      BY <1>2, <2>1, <3>1 DEF Minds
  <2>3. at'[p] > at[p] /\ at[p] \in Nat
    <3>1. /\ Handler(p) > at[p] /\ at[p] \in Nat
          /\ Here(p).op = "either" => Arg(p) \in Nat \ {0}
      BY <2>2, HandlerAhead
    <3>2. \/ at'[p] = at[p] + 1 \/ at'[p] = Handler(p)
          \/ at'[p] = at[p] + Arg(p) /\ Here(p).op = "either"
      BY <2>2 DEF Struck, Smooth
    <3> QED
      BY <3>1, <3>2
  <2>4. CASE noted' = noted
    <3>1. Behind(p) /\ (Owns(p) /\ Unhurt(p) => Told(p) \/ Owed(p))
      BY <2>4 DEF ReportInv
    <3>2. Unhurt(p)' => Unhurt(p)
      <4>1. hurt[p] \subseteq hurt'[p]
        BY <1>2 DEF Hauls, Departs, Struck
      <4> QED
        BY <1>0, <4>1 DEF Unhurt
    <3>3. Behind(p)'
      BY <1>2, <2>3, <3>1, BehindStays
    <3> QED
      BY <1>2, <2>1, <2>2, <2>4, <3>1, <3>2, <3>3, OldOutcome
  <2>5. CASE noted' # noted
    <3>1. at[p] \in Concludes(job[p])
      BY <1>2, <2>5, NotesOutcome
    <3>2. Behind(p)'
      BY <1>2, <2>3, <3>1, BehindStays
    <3> QED
      BY <1>2, <2>2, <2>5, <3>2, NewOutcome
  <2> QED
    BY <2>4, <2>5
<1> QED
  BY <1>1, <1>2

\* In the beginning nobody has an outcome, and the service is up.
LEMMA InitReport == Init => Assured /\ ReportInv
<1> SUFFICES ASSUME Init PROVE Assured /\ ReportInv
  OBVIOUS
<1>1. service = "up" /\ \A p \in Procs : noted[p] = Absent
  BY DEF Init
<1> QED
  BY <1>1 DEF Assured, ReportInv, Outcomes, Failed, Rejected, Complete, Absent

\* Neither the daemon, nor systemd, nor whoever builds images has a part in it.
LEMMA IdlyReport ==
  ASSUME Assured, ReportInv, Idly, UNCHANGED <<raised, noted, file>>
  PROVE  Assured' /\ ReportInv'
BY DEF Assured, ReportInv, Idly, Driving, Behind, Owns, Unhurt, Told, Owed, Mine, Author, Last

\* The reports, for all drivers.
LEMMA ReportHolds == Spec => [](Assured /\ ReportInv)
<1>1. TypeOK /\ CardInv /\ AloneInv /\ RecordsInv /\ Assured /\ ReportInv /\ [Next]_vars => (Assured /\ ReportInv)'
  BY NextMinds, IdlyReport, AssuredStays, ReportStays DEF CardInv, AloneInv, RecordsInv
<1> QED
  BY <1>1, InitReport, CardHolds, AloneHolds, RecordsHold, TypeCorrect, PTL DEF Spec
\* At the hook of its unit, or behind its last step, a driver owes nothing more.
LEMMA NothingOwed ==
  ASSUME TypeOK, NEW p \in Procs, at[p] \in Posting[job[p]] \/ at[p] = Last(p) + 1
  PROVE  ~ Owed(p)
<1>1. job[p] \in Jobs /\ Last(p) \in Nat
  BY JobTyped, ProgramsAssumption DEF Last
<1>2. CASE at[p] = Last(p) + 1
  <2>1. at[p] \notin 1..Last(p) /\ at[p]..Last(p) = {}
    BY <1>1, <1>2
  <2>2. ~ Reported(job[p], at[p])
    BY <2>1 DEF Reported, Last
  <2>3. ~ Catches(job[p], at[p])
    BY <2>1 DEF Catches, Steps, Last
  <2> QED
    BY <2>2, <2>3 DEF Owed
<1>3. CASE at[p] \in Posting[job[p]]
  <2>1. at[p] \in 1..Last(p) /\ At(p) /\ Here(p).op = "post"
    BY <1>1, <1>3, PostingIsSteps DEF Steps, Last, At, Here
  <2>2. ~ Driving(p)
    <3>1. at[p] \in Nat
      BY <2>1
    <3> QED
      BY <1>3, <3>1 DEF Driving
  <2>3. ~ Reported(job[p], at[p])
    BY <2>1, <2>2, BeforeSave DEF Reported, Reports
  <2>4. ~ Catches(job[p], at[p])
    BY <2>1 DEF Catches, Steps, Here
  <2> QED
    BY <2>3, <2>4 DEF Owed
<1> QED
  BY <1>2, <1>3

\* A status a driver came to, in memory, is on disk when its process is over, be
\* it at its end or where its unit goes on to the hook: from the step that notes
\* it every way comes to the save, or to the clause that records what it catches,
\* unless the driver was struck where no clause of its own lay ahead, in the write
\* itself, or was killed.
THEOREM OutcomesAreTold == Spec => StatusIsTold
<1> DEFINE AllTold == \A p \in Procs :
                      (/\ Finishes(p)
                       /\ Owns(p)
                       /\ Unhindered(p)
                       /\ noted[p] \in Outcomes) => file[job[p]].status = noted[p]
<1>1. ASSUME TypeOK, CardInv, ReportInv, [Next]_vars PROVE AllTold
  <2> SUFFICES ASSUME NEW p \in Procs, Finishes(p), Owns(p), Unhindered(p), noted[p] \in Outcomes
               PROVE  file[job[p]].status = noted[p]
    OBVIOUS
  <2>1. Steady(p) /\ Hauls(p)
    <3>1. at'[p] # at[p]
      BY DEF Finishes, Leaves
    <3>2. PICK q \in Procs : Steady(q) /\ Hauls(q)
      BY <1>1, <3>1, NextHauls DEF CardInv, Idly
    <3>3. q = p
      BY <1>1, <3>1, <3>2, OthersStand
    <3> QED
      BY <3>2, <3>3
  <2>2. Unhurt(p)
    <3>1. hurt[p] \subseteq hurt'[p]
      BY <2>1 DEF Hauls, Departs, Struck
    <3> QED
      BY <3>1 DEF Unhindered, Unhurt
  <2>3. at[p] \in Posting[job[p]] \/ at[p] = Last(p) + 1
    <3>1. CASE Leaves(p)
      <4>1. At(p) => Handler(p) # 0 /\ at[p] + 1 # 0 /\ (Here(p).op = "either" => at[p] + Arg(p) # 0)
        BY <1>1, HandlerAhead
      <4>2. at'[p] = 0 /\ "kill" \notin hurt'[p]
        BY <3>1 DEF Leaves, Unhindered
      <4>3. Now(p, "post") => at[p] \in Posting[job[p]]
        <5>1. job[p] \in Jobs
          BY <1>1, JobTyped
        <5> QED
          BY <5>1, PostingIsSteps DEF Now, At, Last, Here, Steps
      <4> QED
        BY <2>1, <4>1, <4>2, <4>3 DEF Hauls, Departs, Struck, Smooth
    <3> QED
      BY <3>1 DEF Finishes
  <2>4. Told(p)
    BY <1>1, <2>2, <2>3, NothingOwed DEF ReportInv
  <2> QED
    BY <2>4 DEF Told
<1> QED
  BY <1>1, CardHolds, ReportHolds, TypeCorrect, PTL DEF Spec, StatusIsTold
=============================================================================
