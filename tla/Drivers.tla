----------------------------- MODULE Drivers -----------------------------
(* Study drivers beside each other on one GPU: run.lock, the production     *)
(* service, the containers on the card and the records the drivers leave    *)
(* for each other.  Each process runs one of the Programs.  Any step may    *)
(* raise, a signal may arrive before any step, and a process may be killed; *)
(* MaxFaults bounds how often.                                              *)
EXTENDS DriverSteps

CONSTANTS Procs,      \* processes started at about the same time
          NoProc,     \* nobody
          Jobs,       \* the drivers, by name; the record of a run is named after its job
          Programs,   \* the steps of each driver
          Attesting,  \* the drivers that vouch for the worker they measured
          Starts,     \* which jobs the processes may run together
          MaxFaults,  \* bound on errors, signals and kills, by start
          MaxBuilds   \* bound on the images built under the candidate's tag

ASSUME ProcsAssumption == NoProc \notin Procs
ASSUME StartsAssumption == Starts \subseteq [Procs -> Jobs] /\ MaxFaults \in [Starts -> Nat]
ASSUME BuildsAssumption == MaxBuilds \in Nat \ {0}
ASSUME ProgramsAssumption ==
  \A j \in Jobs : /\ Len(Programs[j]) \in Nat
                  /\ \A n \in 1..Len(Programs[j]) :
                       /\ Programs[j][n].h \in Nat
                       /\ Programs[j][n].op = "either" => Programs[j][n].arg \in Nat \ {0}
                       /\ Programs[j][n].op = "note" => Programs[j][n].arg \subseteq Statuses \ {Absent}

VARIABLES job,      \* the program each process runs
          at,       \* its next step; 0 when the process is gone
          raised,   \* the exception on its way up, if any
          image,    \* the image id the process inspected
          noted,    \* the status it holds in memory
          hurt,     \* where it was struck: in what operation, or outside of every try
          faults,   \* how many there were in all
          lock,     \* the holder of run.lock
          service,  \* the production service
          worker,   \* the container of the service a process identified
          boxes,    \* containers on the GPU: who started them, and their name
          coming,   \* containers a docker client is about to create
          file,     \* the records of these drivers
          tag,      \* the image the candidate's tag names
          ran       \* the images each driver ran on the GPU

control == <<at, raised>>
memory == <<image, noted, ran>>
serving == <<service, worker>>
world == <<lock, serving, boxes, coming, file>>
vars == <<job, control, memory, hurt, faults, world, tag>>

NoImage == 0
Images == 1..MaxBuilds
Records == [status : Statuses, image : {NoImage} \cup Images]
NoRecord == [status |-> Absent, image |-> NoImage]
Final(i) == [status |-> Complete, image |-> i]

\* Every other driver has finished on the first image before these began.
Read(j) == IF j \in DOMAIN file THEN file[j] ELSE Final(1)
\* --resume is given for the record of a run that did not finish.
Resumes(j) == Programs[j] # <<>> /\ Programs[j][1].op = "reopen"
Unfinished == [status : {Running}, image : {NoImage, 1}]
Init == /\ job \in Starts
        /\ at = [p \in Procs |-> IF Programs[job[p]] = <<>> THEN 0 ELSE 1]
        /\ raised = [p \in Procs |-> ""]
        /\ image = [p \in Procs |-> NoImage]
        /\ noted = [p \in Procs |-> Absent]
        /\ hurt = [p \in Procs |-> {}]
        /\ faults = 0
        /\ lock = NoProc
        /\ service = "up"
        /\ worker = [p \in Procs |-> "unknown"]
        /\ boxes = {}
        /\ coming = {}
        /\ file \in {f \in [{job[p] : p \in Procs} -> {NoRecord} \cup Unfinished] :
                      \A j \in DOMAIN f : f[j] \in Unfinished <=> Resumes(j)}
        /\ tag = 1
        /\ ran = [p \in Procs |-> {}]

-----------------------------------------------------------------------------
(* Where a process stands and where it goes.                                *)
Last(p) == Len(Programs[job[p]])
At(p) == at[p] \in 1..Last(p)
Here(p) == Programs[job[p]][at[p]]
Now(p, op) == At(p) /\ Here(p).op = op
Arg(p) == Here(p).arg
To(p, n) == at' = [at EXCEPT ![p] = n]
Onward(p) == To(p, at[p] + 1) /\ UNCHANGED raised
Handler(p) == IF Here(p).h = 0 THEN Last(p) + 1 ELSE at[p] + Here(p).h
Throw(p, kind) == To(p, Handler(p)) /\ raised' = [raised EXCEPT ![p] = kind]
Demand(p, ok) == IF ok THEN Onward(p) ELSE Throw(p, Error)

AnyWorker(p) == Here(p).op = "same_worker" => service # "off"             \* mutant of Holds
Whichever(p) == Here(p).op = "need" => Read(Arg(p)).status = Complete    \* mutant of Holds
(* Steps that only look.                                                    *)
Holds(p) ==
  CASE Here(p).op = "fresh" -> file[job[p]].status = Absent
    [] Here(p).op = "need" -> Read(Arg(p)) = Final(image[p])
    [] Here(p).op = "finished" -> Read(Arg(p)).status = Complete
    [] Here(p).op = "same" -> file[job[p]].image = image[p]
    [] Here(p).op = "pinned" -> tag = 1
    [] Here(p).op = "idle" -> service = "up"
    [] Here(p).op = "no_service" -> service = "off"
    [] Here(p).op = "same_worker" -> worker[p] = "same"
    [] Here(p).op = "alone" -> service = "off" /\ \A b \in boxes : b[2] \notin Arg(p)
    [] OTHER -> TRUE
Looks == {"fresh", "need", "finished", "same", "pinned", "idle", "no_service", "alone",
          "same_worker", "work", "look"}
Check(p) == /\ At(p)
            /\ Here(p).op \in Looks
            /\ Demand(p, Holds(p))
            /\ UNCHANGED <<memory, world>>

AwaitsForEver(p) == /\ Now(p, "await")                     \* mutant of AwaitService
                    /\ IF service = "up" THEN Onward(p) ELSE UNCHANGED control
                    /\ UNCHANGED <<memory, world>>
(* wait_for_qualified_service() polls until the service is healthy; it      *)
(* gives up when nothing is being started.                                  *)
AwaitService(p) == /\ Now(p, "await")
                   /\ service # "starting"
                   /\ Demand(p, service = "up")
                   /\ UNCHANGED <<memory, world>>

\* The polls of the scripts that only report the health they saw.
PollsService(p) == /\ Now(p, "poll")
                   /\ service # "starting"
                   /\ Onward(p)
                   /\ UNCHANGED <<memory, world>>

\* check_c2() polls another driver's record and gives up after four hours.
SeesOutcome(p) == /\ Now(p, "outcome")
                  /\ Demand(p, Read(Arg(p)).status = Complete)
                  /\ UNCHANGED <<memory, world>>

Inspects(p) == /\ Now(p, "inspect")
               /\ image' = [image EXCEPT ![p] = tag]
               /\ Onward(p)
               /\ UNCHANGED <<noted, ran, world>>

Notes(p) == /\ Now(p, "note")
            /\ \E s \in Arg(p) : noted' = [noted EXCEPT ![p] = s]
            /\ Onward(p)
            /\ UNCHANGED <<image, ran, world>>

-----------------------------------------------------------------------------
(* Steps that change what others see.  Taking is what the operation does;   *)
(* a step that is struck may have done it or not.                           *)
Record(p, s) == file' = [file EXCEPT ![job[p]] = [status |-> s, image |-> image[p]]]

\* LOCK_EX waits; LOCK_EX | LOCK_NB raises in another's presence.
Takes(p) == lock' = p /\ UNCHANGED <<memory, serving, boxes, coming, file>>
WaitsForLock(p) == Now(p, "wait_lock") /\ lock = NoProc /\ Takes(p) /\ Onward(p)
LocksBlindly(p) == /\ Now(p, "try_lock")                   \* mutant of TriesLock
                   /\ IF lock = NoProc THEN Takes(p) ELSE UNCHANGED <<memory, world>>
                   /\ Onward(p)
TriesLock(p) == /\ Now(p, "try_lock")
                /\ IF lock = NoProc THEN Takes(p) ELSE UNCHANGED <<memory, world>>
                /\ Demand(p, lock = NoProc)

OpensAgain(p) == /\ Now(p, "open")                         \* mutant of Opens
                 /\ Onward(p)
                 /\ Record(p, Running)
                 /\ noted' = [noted EXCEPT ![p] = Running]
                 /\ UNCHANGED <<image, ran, lock, serving, boxes, coming>>
\* mkdir fails on a directory that exists; it and its first record are one step.
Opens(p) == /\ Now(p, "open")
            /\ LET new == file[job[p]].status = Absent
               IN /\ Demand(p, new)
                  /\ IF new THEN Record(p, Running) ELSE UNCHANGED file
                  /\ noted' = [noted EXCEPT ![p] = Running]
            /\ UNCHANGED <<image, ran, lock, serving, boxes, coming>>

\* A resumed run writes its record before it has the lock.
Reopens(p) == /\ Now(p, "reopen")
              /\ file' = [file EXCEPT ![job[p]].status = Running]
              /\ noted' = [noted EXCEPT ![p] = Running]
              /\ Onward(p)
              /\ UNCHANGED <<image, ran, lock, serving, boxes, coming>>

AnnouncesReason(p) == /\ Now(p, "announce")               \* mutant of Announces
                      /\ Record(p, "restoring")
                      /\ Onward(p)
                      /\ UNCHANGED <<memory, lock, serving, boxes, coming>>
Announces(p) == /\ Now(p, "announce")
                /\ Record(p, Running)
                /\ Onward(p)
                /\ UNCHANGED <<memory, lock, serving, boxes, coming>>

Saving(p) == Record(p, noted[p]) /\ UNCHANGED <<memory, lock, serving, boxes, coming>>
SavesSuccess(p) == /\ Now(p, "save")                       \* mutant of Saves
                   /\ IF raised[p] = "" THEN Saving(p) ELSE UNCHANGED <<memory, world>>
                   /\ Onward(p)
Saves(p) == Now(p, "save") /\ Saving(p) /\ Onward(p)

\* Every start of the service is a new container; who knew the last does not know it.
Replaced == [q \in Procs |-> IF worker[q] = "same" THEN "gone" ELSE worker[q]]
Serving(p, s, known) == /\ service' = s
                        /\ worker' = known
                        /\ UNCHANGED <<memory, lock, boxes, coming, file>>
\* A stop is taken to remove the service's container: the unit ignores an ExecStop
\* that fails, and no driver looks for the container that would then be left
\* (ProductionService and Campaign have that).
Stopping(p) == Serving(p, "off", Replaced)
StopsWhatIsUp(p) == /\ Now(p, "stop")                      \* mutant of Stops
                    /\ IF service = "up" THEN Stopping(p) ELSE UNCHANGED <<memory, world>>
                    /\ Onward(p)
Stops(p) == Now(p, "stop") /\ Stopping(p) /\ Onward(p)
Starting(p) == Serving(p, IF service = "off" THEN "starting" ELSE service, worker)
StartsAfterSuccess(p) == /\ Now(p, "start")                \* mutant of StartsService
                         /\ IF raised[p] = "" THEN Starting(p) ELSE UNCHANGED <<memory, world>>
                         /\ Onward(p)
StartsService(p) == Now(p, "start") /\ Starting(p) /\ Onward(p)
Restarting(p) == Serving(p, "starting", Replaced)
RestartsService(p) == Now(p, "restart") /\ Restarting(p) /\ Onward(p)

\* docker inspect of the service's container, which a service that is being
\* started may have already.
Identifies(p) == /\ Now(p, "identify")
                 /\ \/ /\ service # "off"
                       /\ worker' = [worker EXCEPT ![p] = "same"]
                       /\ Onward(p)
                    \/ /\ service # "up"
                       /\ UNCHANGED worker
                       /\ Throw(p, Error)
                 /\ UNCHANGED <<memory, lock, service, boxes, coming, file>>
\* A process that identified another worker has strayed with its first answer.
Asks(p) == /\ Now(p, "ask")
           /\ Demand(p, service = "up")
           /\ worker' = [worker EXCEPT ![p] = IF service = "up" /\ @ = "gone" THEN "strayed" ELSE @]
           /\ UNCHANGED <<memory, lock, service, boxes, coming, file>>

\* docker refuses a name that is in use.
Taken(c) == c # Unnamed /\ \E b \in boxes : b[2] = c
Boxing(now, soon) == /\ boxes' = now
                     /\ coming' = soon
                     /\ UNCHANGED <<image, noted, lock, serving, file>>
RunsTheTag(p) == ran' = [ran EXCEPT ![p] = @ \cup {tag}]    \* mutant of Runs
\* Drivers that inspect the image run it by that id, the others by a tag.
Runs(p) == ran' = [ran EXCEPT ![p] = @ \cup {IF image[p] = NoImage THEN tag ELSE image[p]}]
Creating(p) == IF Taken(Arg(p)) THEN UNCHANGED <<memory, world>>
               ELSE Runs(p) /\ Boxing(boxes \cup {<<p, Arg(p)>>}, coming)
Ups(p) == Now(p, "up") /\ Creating(p) /\ Demand(p, ~ Taken(Arg(p)))
Leaving(p) == Boxing(boxes \ {<<p, Arg(p)>>}, coming) /\ UNCHANGED ran
Exits(p) == /\ Now(p, "exit")
            /\ Leaving(p)
            /\ Demand(p, <<p, Arg(p)>> \in boxes)
Asking(p) == Runs(p) /\ Boxing(boxes, coming \cup {<<p, Arg(p)>>})
Spawns(p) == Now(p, "spawn") /\ Asking(p) /\ Onward(p)
Readies(p) == /\ Now(p, "ready")
              /\ <<p, Arg(p)>> \notin coming
              /\ Demand(p, <<p, Arg(p)>> \in boxes)
              /\ UNCHANGED <<memory, world>>
\* By name: whoever started it, and not what is still to be created.
Removing(p) == Boxing({b \in boxes : b[2] # Arg(p)}, coming) /\ UNCHANGED ran
DownsAfterSuccess(p) == /\ Now(p, "down")                  \* mutant of Downs
                        /\ IF raised[p] = "" THEN Removing(p) ELSE UNCHANGED <<memory, world>>
                        /\ Onward(p)
Downs(p) == Now(p, "down") /\ Removing(p) /\ Onward(p)

-----------------------------------------------------------------------------
(* Exceptions on their way.                                                 *)
Caught(p) == raised[p] # "" /\ raised[p] \in Arg(p)
Excepts(p) == /\ Now(p, "except") \/ Now(p, "except_save")
              /\ Onward(p)
              /\ IF Caught(p)
                   THEN /\ noted' = [noted EXCEPT ![p] = Failed]
                        /\ IF Here(p).op = "except_save" THEN Record(p, Failed) ELSE UNCHANGED file
                   ELSE UNCHANGED <<noted, file>>
              /\ UNCHANGED <<image, ran, lock, serving, boxes, coming>>
Swallows(p) == /\ Now(p, "swallow")
               /\ To(p, at[p] + 1)
               /\ raised' = [raised EXCEPT ![p] = IF Caught(p) THEN "" ELSE @]
               /\ UNCHANGED <<memory, world>>
Reraises(p) == /\ Now(p, "reraise")
               /\ IF raised[p] = "" THEN Onward(p) ELSE Throw(p, raised[p])
               /\ UNCHANGED <<memory, world>>
Chooses(p) == /\ Now(p, "either")
              /\ To(p, at[p] + 1) \/ To(p, at[p] + Arg(p))
              /\ UNCHANGED <<raised, memory, world>>

(* The process is gone: the kernel drops its lock, and systemd may run the  *)
(* unit's ExecStopPost, which knows nothing of an exception.                *)
Free(p) == lock' = IF lock = p THEN NoProc ELSE lock
Forgets(p) == /\ image' = [image EXCEPT ![p] = NoImage]
              /\ noted' = [noted EXCEPT ![p] = Absent]
              /\ raised' = [raised EXCEPT ![p] = ""]
              /\ worker' = [worker EXCEPT ![p] = "unknown"]
Hooks(p) == /\ Now(p, "post")
            /\ To(p, at[p] + 1)
            /\ Free(p)
            /\ Forgets(p)
            /\ UNCHANGED <<ran, service, boxes, coming, file>>
Ends(p) == /\ at[p] = Last(p) + 1
           /\ To(p, 0)
           /\ Free(p)
           /\ Forgets(p)
           /\ UNCHANGED <<ran, service, boxes, coming, file>>

\* The steps by what they are about.
Waits(p) == /\ Here(p).op \in {"await", "poll", "outcome", "wait_lock", "try_lock", "ready"}
            /\ \/ AwaitService(p) \/ PollsService(p) \/ SeesOutcome(p)
               \/ WaitsForLock(p) \/ TriesLock(p) \/ Readies(p)
Writes(p) == /\ Here(p).op \in {"inspect", "note", "open", "reopen", "announce", "save"}
             /\ \/ Inspects(p) \/ Notes(p) \/ Opens(p) \/ Reopens(p) \/ Announces(p) \/ Saves(p)
Commands(p) == /\ Here(p).op \in {"stop", "start", "restart", "identify", "ask"}
               /\ \/ Stops(p) \/ StartsService(p) \/ RestartsService(p) \/ Identifies(p) \/ Asks(p)
Contains(p) == /\ Here(p).op \in {"up", "exit", "spawn", "down"}
               /\ Ups(p) \/ Exits(p) \/ Spawns(p) \/ Downs(p)
Turns(p) == /\ Here(p).op \in {"except", "except_save", "swallow", "reraise", "either", "post"}
            /\ Excepts(p) \/ Swallows(p) \/ Reraises(p) \/ Chooses(p) \/ Hooks(p)
Moves(p) == /\ \/ Ends(p)
               \/ At(p) /\ (Check(p) \/ Waits(p) \/ Writes(p) \/ Commands(p) \/ Contains(p) \/ Turns(p))
            /\ UNCHANGED <<job, hurt, faults, tag>>

-----------------------------------------------------------------------------
(* Faults.  Whatever a step was about to do may have been done or not when  *)
(* it raises or a signal interrupts it; a signal that is not trapped and    *)
(* SIGKILL end the process where it stands, its containers stay.            *)
Harmless == {"note", "except", "swallow", "reraise", "either", "post"}
Steps(j, ops) == {n \in 1..Len(Programs[j]) : Programs[j][n].op \in ops}
\* Where a driver's process is over and the hook of its unit begins.
Posting == [j \in Jobs |-> Steps(j, {"post"})]
\* An exception raised where no clause lies ahead takes the driver out at once,
\* or to the hook of its unit.
Where(p) == IF Here(p).h = 0 THEN {"outside"}
            ELSE {Here(p).op} \cup (IF Handler(p) \in Posting[job[p]] THEN {"hook"} ELSE {})
Frail == faults < MaxFaults[job]
Strikes(p, by) == /\ faults' = faults + 1
                  /\ hurt' = [hurt EXCEPT ![p] = @ \cup by]
Halfway(p) == \/ UNCHANGED <<memory, world>>
              \/ Here(p).op = "open" /\ file[job[p]].status = Absent /\ Record(p, Running)
                 /\ UNCHANGED <<memory, lock, serving, boxes, coming>>
              \/ Here(p).op = "save" /\ Saving(p)
              \/ Here(p).op = "stop" /\ Stopping(p)
              \/ Here(p).op = "start" /\ Starting(p)
              \/ Here(p).op = "restart" /\ Restarting(p)
              \/ Here(p).op = "up" /\ Creating(p)
              \/ Here(p).op = "exit" /\ Leaving(p)
              \/ Here(p).op = "spawn" /\ Asking(p)
              \/ Here(p).op = "down" /\ Removing(p)
\* What a step does may raise; a signal may come before any step of the process.
Raises(p) == Here(p).op \notin Harmless /\ Throw(p, Error)
Interrupted(p) == Here(p).op # "post" /\ Throw(p, Signal)
Falls(p) == /\ At(p)
            /\ Raises(p) \/ Interrupted(p)
            /\ Strikes(p, Where(p))
            /\ Halfway(p)
            /\ UNCHANGED <<job, tag>>
Killed(p) == /\ At(p)
             /\ Here(p).op # "post"
             /\ Strikes(p, {"kill"})
             /\ LET ahead == {n \in Posting[job[p]] : n > at[p]}
                IN To(p, IF ahead = {} THEN 0 ELSE CHOOSE n \in ahead : TRUE)
             /\ Free(p)
             /\ Forgets(p)
             /\ UNCHANGED <<job, ran, service, boxes, coming, file, tag>>

(* The daemon creates what a client asked for, unless the name is taken.    *)
Created == \E b \in coming :
             /\ boxes' = IF Taken(b[2]) THEN boxes ELSE boxes \cup {b}
             /\ coming' = coming \ {b}
             /\ UNCHANGED <<job, control, memory, hurt, faults, lock, serving, file, tag>>

\* A unit of Type=exec is started long before the engine answers.
Healthy == /\ service = "starting"
           /\ service' = "up"
           /\ UNCHANGED <<worker, job, control, memory, hurt, faults, lock, boxes, coming, file, tag>>

\* The unit has Restart=on-failure: a worker that dies is followed by another.
Crashes == /\ service # "off"
           /\ faults' = faults + 1
           /\ service' = "starting"
           /\ worker' = Replaced
           /\ UNCHANGED <<job, control, memory, hurt, lock, boxes, coming, file, tag>>

\* docker build under the same tag, from another checkout or by hand.
Rebuilt == /\ tag < MaxBuilds
           /\ tag' = tag + 1
           /\ UNCHANGED <<job, control, memory, hurt, faults, world>>

Over == (\A p \in Procs : at[p] = 0) /\ UNCHANGED vars

Next == \/ \E p \in Procs : Moves(p)
        \/ Frail /\ (Crashes \/ \E p \in Procs : Falls(p) \/ Killed(p))
        \/ Created \/ Healthy \/ Rebuilt \/ Over

(* While some process can go on, or the daemon or systemd has an answer     *)
(* due, something of it happens: nothing more is assumed, least of all of   *)
(* the faults.                                                              *)
Goes == (\E p \in Procs : Moves(p)) \/ Created \/ Healthy
Spec == Init /\ [][Next]_vars /\ WF_vars(Goes)

-----------------------------------------------------------------------------
(* What the drivers promise.                                                *)
Acquaintance == {"unknown", "same", "gone", "strayed"}
TypeOK == /\ job \in Starts
          /\ at \in [Procs -> Nat]
          /\ raised \in [Procs -> {"", Error, Signal}]
          /\ image \in [Procs -> {NoImage} \cup Images]
          /\ ran \in [Procs -> SUBSET Images]
          /\ faults \in 0..MaxFaults[job]
          /\ lock \in Procs \cup {NoProc}
          /\ service \in {"off", "starting", "up"}
          /\ worker \in [Procs -> Acquaintance]
          /\ \A b \in boxes \cup coming : b[1] \in Procs
          /\ tag \in Images
          /\ noted \in [Procs -> Statuses]
          /\ file \in [{job[p] : p \in Procs} -> Records]

\* The process is there, and not in the ExecStopPost that follows it.
Driving(p) == at[p] # 0 /\ \A n \in Posting[job[p]] : at[p] < n
\* Nothing before step n, nor n itself, leads past it but out of the program.
Passes(j, n) == \A k \in 1..n : /\ Programs[j][k].op \notin {"either", "post"}
                               /\ \/ Programs[j][k].h = 0
                                  \/ k + Programs[j][k].h \in Posting[j]
\* On every path to one of `later' lies one of `gate'.
Before(j, gate, later) == \E n \in Steps(j, gate) : /\ Steps(j, later) \cap 1..n = {}
                                                    /\ Passes(j, n)

Creates == {"up", "spawn"}
Touches == Creates \cup {"stop", "start", "restart"}
Begins == {"start", "restart"}
Tells == {"announce", "save", "except_save"}
Outcomes == {Failed, Rejected, Complete}
Orderly == {j \in Jobs : Before(j, {"wait_lock", "try_lock"}, Creates)}
\* These touch production only under the lock, too.
Tame == {j \in Jobs : /\ Posting[j] = {}
                      /\ \/ Steps(j, Touches) = {}
                         \/ Before(j, {"wait_lock", "try_lock"}, Touches)}
\* Every container has its stop of production, none begins production in
\* between, and what leads past the stop leads past the container.
StopFor(j, s, u) ==
  /\ s < u /\ Steps(j, Begins) \cap s..u = {}
  /\ \A k \in 1..s : /\ k + Programs[j][k].h \notin (s + 1)..u
                     /\ Programs[j][k].op = "either" => k + Programs[j][k].arg \notin (s + 1)..u
StopsFirst == {j \in Jobs : \A u \in Steps(j, Creates) : \E s \in Steps(j, {"stop"}) : StopFor(j, s, u)}
\* They make their directory before they write or start anything.
Guarded == {j \in Jobs : Before(j, {"open"}, Tells \cup Creates \cup {"reopen"})}
Nameless == {j \in Jobs : \E n \in Steps(j, {"up"}) : Programs[j][n].arg = Unnamed}
InspectsOnce == {j \in Jobs : /\ Before(j, {"inspect"}, Creates)
                              /\ \A m, n \in Steps(j, {"inspect"}) : m = n}
Evidence == UNION {{<<j, Programs[j][n].arg>> : n \in Steps(j, {"need"})} : j \in Jobs}

(* What the drivers have in common; the properties hold because of it.      *)

\* The hook of a unit starts no container and writes no record.  Once a driver
\* has saved a result, it begins, announces, notes and inspects nothing more.
Results(j) == {n \in Steps(j, {"save"}) :
                 \E m \in Steps(j, {"note"}) : m < n /\ Complete \in Programs[j][m].arg}
ASSUME RecordsAssumption ==
  \A j \in Jobs :
    /\ \A n \in Posting[j] :
         Steps(j, Tells \cup Creates \cup {"open", "reopen"}) \cap n..Len(Programs[j]) = {}
    /\ \A n \in Results(j) :
         Steps(j, {"open", "reopen", "announce", "note", "inspect"}) \cap n..Len(Programs[j]) = {}

\* A driver asks for evidence after it inspected its image and before it has a
\* result; of the drivers it asks for, one is there, or they are guarded.
ASSUME EvidenceAssumption ==
  /\ \A j \in Jobs : \A n \in Steps(j, {"need"}) :
       /\ Passes(j, n)
       /\ Steps(j, {"inspect"}) \cap n..Len(Programs[j]) = {}
       /\ Steps(j, {"note"}) \cap 1..n = {}
  /\ \A f \in Starts : \A e \in Evidence : \A p, q \in Procs :
       (e[1] \in {f[r] : r \in Procs} /\ f[p] = e[2] /\ f[q] = e[2]) => (p = q \/ e[2] \in Guarded)

\* A driver that vouches for its worker compares it after its last question and
\* before it has a result; what leads past the comparison leads past the result.
Vouches(j, k) ==
  /\ Steps(j, {"ask"}) \subseteq 1..k
  /\ Steps(j, {"note"}) \cap 1..k = {}
  /\ \A i \in 1..k : \A n \in Steps(j, {"note"}) :
       /\ Programs[j][i].h # 0 => (i + Programs[j][i].h <= k \/ n < i + Programs[j][i].h)
       /\ Programs[j][i].op = "either" => (i + Programs[j][i].arg <= k \/ n < i + Programs[j][i].arg)
ASSUME AttestingAssumption ==
  /\ Attesting \subseteq Jobs
  /\ \A j \in Attesting : \E k \in Steps(j, {"same_worker"}) : Vouches(j, k)

\* Steps that may raise of themselves, not only when they are struck.
Fails == {"fresh", "need", "finished", "same", "pinned", "idle", "no_service", "alone", "same_worker",
          "await", "outcome", "try_lock", "open", "identify", "ask", "up", "exit", "ready", "reraise"}
\* From step n every way comes to step d, but out of a step outside of every
\* try that is struck, or of the look before the cleanup.
Comes(j, n, d) ==
  \A k \in n..(d - 1) :
    LET step == Programs[j][k]
    IN /\ step.op # "post"
       /\ step.op = "either" => k + step.arg <= d
       /\ IF step.h = 0 THEN step.op \notin Fails ELSE step.op = "look" \/ k + step.h <= d
\* The removal that container c awaits when its driver is at step n: ahead,
\* and before production begins again.
Removal(j, n, c, d) ==
  /\ d \in Steps(j, {"down"}) /\ n <= d /\ Programs[j][d].arg = c
  /\ Comes(j, n, d) /\ Steps(j, Begins) \cap n..d = {}
\* A container with a name awaits its removal, one without a name is run in the
\* foreground; a container that is asked for is awaited at once.
ASSUME CleanupAssumption ==
  \A j \in Jobs : \A n \in Steps(j, Creates) :
    LET c == Programs[j][n].arg
        Then(op) == n + 1 \in Steps(j, {op}) /\ Programs[j][n + 1].arg = c
    IN /\ Programs[j][n].op = "spawn" => Then("ready")
       /\ IF c = Unnamed THEN Programs[j][n].op = "up" /\ Then("exit")
          ELSE \E d \in n..Len(Programs[j]) : Removal(j, n, c, d)

\* From stop s every way leads past start n, but out of a step outside of every
\* try that is struck; there is no other stop.
Returns(j, s, n) ==
  /\ Steps(j, {"stop"}) \subseteq s..n
  /\ \A k \in s..n :
       LET step == Programs[j][k]
       IN /\ step.op = "either" => k + step.arg <= n
          /\ IF step.h = 0 THEN step.op \notin Fails ELSE k + step.h <= n
Restores == {j \in Jobs : \E s \in Steps(j, {"stop"}) : \E n \in Steps(j, {"start"}) : Returns(j, s, n)}
\* All of a unit leads to its hook, which takes no lock.  Beside a driver that
\* restores production run only such that restore it, too, if they stop it, and
\* beside one that is not in a unit such that stop it under the lock.
ASSUME RestorationAssumption ==
  /\ \A j \in Jobs : \A n \in Posting[j] :
       /\ Steps(j, {"wait_lock", "try_lock"}) \cap n..Len(Programs[j]) = {}
       /\ \A k \in 1..(n - 1) :
            LET step == Programs[j][k]
            IN /\ step.h # 0 /\ k + step.h <= n
               /\ step.op = "either" => k + step.arg <= n
  /\ \A f \in Starts : \A p, q \in Procs :
       f[p] \in Restores /\ Steps(f[q], {"stop"}) # {} =>
         /\ f[q] \in Restores
         /\ p = q \/ Posting[f[p]] # {} \/ f[q] \in Tame

\* A step whose exception goes to no clause, but out or to the hook of the unit.
Bare(j, k) == Programs[j][k].h = 0 \/ k + Programs[j][k].h \in Posting[j]
\* An await like that before a save: only a start of the service leads to it.
Sure(j, k) ==
  /\ k \in Steps(j, {"await"}) /\ Bare(j, k) /\ \E d \in Steps(j, {"save"}) : k < d
  /\ k - 1 \in Steps(j, Begins)
  /\ \A i \in 1..(k - 1) : /\ i + Programs[j][i].h # k
                           /\ Programs[j][i].op = "either" => i + Programs[j][i].arg # k
\* From step n every way comes to the save d, or to the clause of a unit that
\* records whatever it catches, but for what strikes it where none lies ahead.
Catches(j, n) == Posting[j] # {} /\ n \in Steps(j, {"except_save"}) /\ Anything \subseteq Programs[j][n].arg
Reports(j, n, d) ==
  /\ d \in Steps(j, {"save"}) /\ n <= d
  /\ \A k \in n..(d - 1) :
       LET step == Programs[j][k]
       IN /\ step.op # "post"
          /\ step.op = "either" => k + step.arg <= d
          /\ IF Bare(j, k) THEN step.op \in Fails => Sure(j, k)
             ELSE k + step.h <= d \/ Catches(j, k + step.h)
Reported(j, n) == \E d \in n..Len(Programs[j]) : Reports(j, n, d)
\* A driver that came to its outcome saves it, and announces nothing more that
\* it does not save; beside one that relies on its start of the service, nobody
\* stops the service but under the lock that both take.
Concludes(j) == Steps(j, {"except", "except_save"})
                  \cup {n \in Steps(j, {"note"}) : Programs[j][n].arg \cap Outcomes # {}}
ASSUME ReportAssumption ==
  /\ \A j \in Jobs : \A n \in Concludes(j) :
       /\ n \notin Steps(j, {"except_save"}) => Reported(j, n + 1)
       /\ \A k \in Steps(j, {"announce"}) : n < k => Reported(j, k + 1)
  /\ \A f \in Starts : \A p, q \in Procs :
       (/\ p # q /\ Steps(f[q], {"stop"}) # {}
        /\ \E k \in Steps(f[p], {"await"}) : Sure(f[p], k)) => {f[p], f[q]} \subseteq Tame

\* run.lock: of the drivers that take it, one at a time has containers on the
\* card or on their way, whatever failed, was interrupted or killed before.
OneDriverOnTheCard ==
  \A b, c \in boxes \cup coming :
    (/\ job[b[1]] \in Orderly /\ Driving(b[1])
     /\ job[c[1]] \in Orderly /\ Driving(c[1])) => b[1] = c[1]

\* Its cleanup reaches what it started: it was not struck itself, nor when a
\* container was still to be created, or had no name.
Sweeps(p) == /\ hurt[p] \cap {"look", "down", "spawn", "ready"} = {}
             /\ job[p] \in Nameless => hurt[p] \cap {"up", "exit"} = {}

\* A driver that stops production before it measures does measure without it,
\* beside drivers that touch production under the lock only: the order of stops
\* and starts is right (that a stop removes the container is taken for granted).
MeasuresAlone ==
  (\A p \in Procs : job[p] \in Tame) =>
    \A b \in boxes \cup coming :
      (/\ job[b[1]] \in StopsFirst
       /\ Driving(b[1])
       /\ Sweeps(b[1])) => service = "off"

\* A driver that is gone has no container on the card, wherever inside its try
\* it was struck, if only its cleanup reaches the container.
NothingLeftBehind ==
  \A p \in Procs :
    (/\ at[p] = 0
     /\ hurt[p] \cap {"kill", "outside"} = {}
     /\ Sweeps(p))
    => \A b \in boxes \cup coming : b[1] # p

\* A complete record names the image its evidence was gathered on.
EvidenceOfTheSameImage ==
  \A j \in DOMAIN file :
    file[j].status = Complete =>
      \A e \in Evidence : e[1] = j => Read(e[2]).image = file[j].image

\* A complete record names the one image the driver ran, whatever was built
\* under the tag in the meantime.
RanWhatItRecords ==
  \A p \in Procs :
    (/\ job[p] \in InspectsOnce
     /\ job[p] \in Guarded
     /\ file[job[p]].status = Complete) => ran[p] \subseteq {file[job[p]].image}

\* A driver that vouches for its worker and comes to its end was answered by the
\* container it identified only, whoever stopped, restarted or lost the service.
OneWorkerMeasured ==
  \A p \in Procs : job[p] \in Attesting /\ noted[p] = Complete => worker[p] # "strayed"

\* Once complete, a record is never begun again and never names another image.
EvidenceStands ==
  [][\A j \in DOMAIN file :
       j \in Guarded /\ file[j].status = Complete =>
         /\ file'[j].status \in {Complete, Failed}
         /\ file'[j].image = file[j].image]_vars

Leaves(p) == at[p] # 0 /\ at'[p] = 0
\* Production is up, or being started, when a driver that restores it ends with
\* the lock, or ends, the hook of its unit included, as the last of them: however
\* often they were struck, if only inside of a try and not by SIGKILL.
ProductionComesBack ==
  [][\A p \in Procs :
       (/\ Leaves(p)
        /\ job[p] \in Restores
        /\ lock = p \/ \A q \in Procs \ {p} : at[q] = 0
        /\ \A q \in Procs : hurt'[q] \cap {"outside", "kill"} = {}) => service # "off"]_vars

\* The record of p is its own: created for it, or written by nobody else.
Owns(p) == job[p] \in Guarded \/ \A q \in Procs \ {p} : job[q] # job[p]
\* The process of p is over; the hook of its unit may follow.
Finishes(p) == Leaves(p) \/ (at[p] \in Posting[job[p]] /\ at'[p] # at[p])
\* Nothing that struck p kept it from its record: it was not struck where no clause
\* of its own lay ahead, nor in the write, for which a unit has no other clause.
Unhindered(p) == /\ hurt'[p] \cap {"outside", "hook", "kill", "save"} = {}
                 /\ Posting[job[p]] # {} => "except_save" \notin hurt'[p]
\* A status a driver came to, in memory, is on disk when its process is over.
StatusIsTold ==
  [][\A p \in Procs :
       (/\ Finishes(p)
        /\ Owns(p)
        /\ Unhindered(p)
        /\ noted[p] \in Outcomes) => file[job[p]].status = noted[p]]_vars

\* Nobody waits for the lock, a container or the service for ever.
EveryDriverEnds == <>(\A p \in Procs : at[p] = 0)
=============================================================================
