------------------------------- MODULE Campaign -------------------------------
(***************************************************************************)
(* run-web-coding-campaign.py: a campaign takes the machine's benchmark    *)
(* lock, measures its engines one after the other -- "gptq" on the         *)
(* permanent service, "exl3" in a container of its own -- and in the end   *)
(* either restores production or leaves everything offline.  The one GPU   *)
(* holds one worker.                                                       *)
(*                                                                         *)
(* Several campaigns may be started, and `--restore-production` runs       *)
(* restore() alone, without the lock.  The container is started with       *)
(* `docker run --rm -d`: after `docker stop` has returned, the daemon      *)
(* removes it in its own time.  The unit ignores the failure of its        *)
(* ExecStop, so the service's container may outlive it: nothing in the     *)
(* campaign looks for that, and the next health check finds it.            *)
(***************************************************************************)
EXTENDS Naturals, Sequences

CONSTANTS Campaigns,      \* processes started with engines to measure
          NoOne,          \* what holds a free lock
          Restorers,      \* processes started with --restore-production
          EnginePlans,    \* the values of --engines considered
          MaxInterrupts,  \* bound on signals
          MaxFaults       \* bound on commands, an ExecStop included, that fail by accident

ASSUME ProcessesAssumption == Campaigns \cap Restorers = {} /\ NoOne \notin Campaigns \cup Restorers
ASSUME PlansAssumption == EnginePlans \subseteq Seq({"gptq", "exl3"})
ASSUME BoundsAssumption == MaxInterrupts \in Nat /\ MaxFaults \in Nat

Procs == Campaigns \cup Restorers

VARIABLES
    service,     \* the unit: off, starting, up
    leftover,    \* a container of the service that a failed ExecStop left serving
    exl,         \* the container: none, running, removing
    lock,        \* who holds run.lock
    pc,
    engines,     \* --engines
    turn,        \* index of the current engine
    restoreAfter,\* --restore-after-campaign
    status,      \* campaign.json
    left,        \* production-restored.json or production-left-offline.json
    interrupts, faults

machine == <<service, leftover, exl>>
script == <<engines, turn, restoreAfter, status, left>>
budget == <<interrupts, faults>>
vars == <<machine, lock, pc, script, budget>>

TryBody == {"phase", "inspect", "dockerStop", "restart", "restarted", "wait", "serviceStop", "run",
            "measure", "logs", "inspectLast", "dockerStopLast", "complete"}
\* After line 309, which makes the process deaf to SIGTERM.
FinallyBody == {"inspectEnd", "dockerStopEnd", "serviceStart", "waitRestored", "serviceStopEnd"}
Labels == {"start", "except", "finally", "exit"} \cup TryBody \cup FinallyBody

Init ==
    /\ service = "up" /\ leftover = FALSE /\ exl = "none" /\ lock = NoOne
    /\ pc = [p \in Procs |-> "start"]
    /\ engines \in [Procs -> EnginePlans] /\ turn = [p \in Procs |-> 1]
    /\ restoreAfter \in [Procs -> BOOLEAN]
    /\ \A p \in Restorers : restoreAfter[p]
    /\ status = [p \in Procs |-> "none"] /\ left = [p \in Procs |-> "none"]
    /\ interrupts = 0 /\ faults = 0

Engine(p) == engines[p][turn[p]]
Goto(p, label) == pc' = [pc EXCEPT ![p] = label]
\* The process ends, and the kernel drops its lock.
Leave(p) == Goto(p, "exit") /\ lock' = (IF lock = p THEN NoOne ELSE lock)
At(p, label) == pc[p] = label

(***************************************************************************)
(* main() up to the try statement.                                         *)
(***************************************************************************)
AnyTime == TRUE                                          \* mutant of LockFree
LockFree == lock = NoOne

TakeLock(p) ==
    /\ p \in Campaigns /\ At(p, "start") /\ LockFree
    /\ lock' = p /\ Goto(p, "phase")
    /\ status' = [status EXCEPT ![p] = "running"]
    /\ UNCHANGED <<machine, engines, turn, restoreAfter, left, budget>>

\* flock with LOCK_NB raises at once.
LockBusy(p) ==
    /\ p \in Campaigns /\ At(p, "start") /\ ~LockFree
    /\ Leave(p) /\ UNCHANGED <<machine, script, budget>>

RestoreOnly(p) ==
    /\ p \in Restorers /\ At(p, "start")
    /\ Goto(p, "inspectEnd") /\ UNCHANGED <<machine, lock, script, budget>>

(***************************************************************************)
(* stop_exl(): inspect the container, then stop it.  Both may meet a       *)
(* container that is being removed, and it may be gone between them.       *)
(***************************************************************************)
AfterStop(p) ==
    CASE pc[p] \in {"inspect", "dockerStop"} -> "restart"
      [] pc[p] \in {"inspectLast", "dockerStopLast"} -> "phase"
      [] pc[p] \in {"inspectEnd", "dockerStopEnd"} ->
            IF restoreAfter[p] THEN "serviceStart" ELSE "serviceStopEnd"
StopLabel == [inspect |-> "dockerStop", inspectLast |-> "dockerStopLast", inspectEnd |-> "dockerStopEnd"]

InspectExl(p) ==
    /\ pc[p] \in DOMAIN StopLabel
    /\ Goto(p, IF exl = "none" THEN AfterStop(p) ELSE StopLabel[pc[p]])
    /\ UNCHANGED <<machine, lock, script, budget>>

DockerStop(p) ==
    /\ pc[p] \in {"dockerStop", "dockerStopLast", "dockerStopEnd"}
    /\ exl # "none"
    /\ exl' = "removing"
    /\ Goto(p, AfterStop(p))
    /\ UNCHANGED <<service, leftover, lock, script, budget>>

(***************************************************************************)
(* The engine loop.                                                        *)
(***************************************************************************)
ServiceKeepsGPU == service                               \* mutant of Stopped
Stopped == "off"

(***************************************************************************)
(* systemctl stop: the unit ends.  ExecStop runs only while a main process *)
(* lives, then it stops whatever container has the name, and nobody learns *)
(* that it failed.  A unit that waits for its next attempt just ends.      *)
(***************************************************************************)
EndUnit ==
    /\ service' = Stopped
    /\ \/ leftover' = (leftover /\ service = "off") /\ UNCHANGED faults
       \/ service = "starting" /\ UNCHANGED <<leftover, faults>>
       \/ /\ service # "off" /\ faults < MaxFaults
          /\ leftover' = TRUE /\ faults' = faults + 1
    /\ UNCHANGED interrupts

Phase(p) ==
    /\ At(p, "phase")
    /\ Goto(p, IF turn[p] > Len(engines[p]) THEN "complete"
               ELSE IF Engine(p) = "gptq" THEN "inspect" ELSE "serviceStop")
    /\ UNCHANGED <<machine, lock, script, budget>>

\* systemctl restart, in its two halves.
RestartStops(p) ==
    /\ At(p, "restart") /\ EndUnit /\ Goto(p, "restarted")
    /\ UNCHANGED <<exl, lock, script>>
RestartStarts(p) ==
    /\ At(p, "restarted") /\ service' = "starting" /\ Goto(p, "wait")
    /\ UNCHANGED <<leftover, exl, lock, script, budget>>

ServiceStop(p) ==
    /\ At(p, "serviceStop") /\ EndUnit /\ Goto(p, "run")
    /\ UNCHANGED <<exl, lock, script>>

StartExl(p) ==
    /\ At(p, "run") /\ exl = "none"
    /\ exl' = "running" /\ Goto(p, "wait")
    /\ UNCHANGED <<service, leftover, lock, script, budget>>

\* Whatever container has the name, and the right image, passes for the service.
ServiceAnswers == service = "up" \/ leftover
ServiceGone == service = "off" /\ ~ leftover
WorkerUp(p) == IF Engine(p) = "gptq" THEN ServiceAnswers ELSE exl = "running"
WorkerGone(p) == IF Engine(p) = "gptq" THEN ServiceGone ELSE exl # "running"
Wait(p) ==
    /\ At(p, "wait") /\ WorkerUp(p)
    /\ Goto(p, "measure")
    /\ UNCHANGED <<machine, lock, script, budget>>

\* The warm-up, the benchmark run and the outcome of the session.
Measure(p) ==
    /\ At(p, "measure") /\ WorkerUp(p)
    /\ turn' = [turn EXCEPT ![p] = @ + 1]
    /\ Goto(p, IF Engine(p) = "exl3" THEN "logs" ELSE "phase")
    /\ UNCHANGED <<machine, lock, engines, restoreAfter, status, left, budget>>

\* The gptq session stayed below the context the fixture is meant to reach.
TooShort(p) ==
    /\ At(p, "measure") /\ WorkerUp(p)
    /\ Engine(p) = "gptq" /\ \E i \in 1..Len(engines[p]) : engines[p][i] = "exl3"
    /\ status' = [status EXCEPT ![p] = "needs_longer_fixture"]
    /\ Goto(p, "finally")
    /\ UNCHANGED <<machine, lock, engines, turn, restoreAfter, left, budget>>

\* docker logs, while the container is there.
Logs(p) ==
    /\ At(p, "logs") /\ exl = "running"
    /\ Goto(p, "inspectLast")
    /\ UNCHANGED <<machine, lock, script, budget>>

Complete(p) ==
    /\ At(p, "complete")
    /\ status' = [status EXCEPT ![p] = "complete"]
    /\ Goto(p, "finally")
    /\ UNCHANGED <<machine, lock, engines, turn, restoreAfter, left, budget>>

Except(p) ==
    /\ At(p, "except")
    /\ status' = [status EXCEPT ![p] = "failed"]
    /\ Goto(p, "finally")
    /\ UNCHANGED <<machine, lock, engines, turn, restoreAfter, left, budget>>

(***************************************************************************)
(* The finally clause, and restore().                                      *)
(***************************************************************************)
StartFirst == "serviceStart"                             \* mutants of FinallyEntry
UnknownEntry == "restore"
FinallyEntry == "inspectEnd"
IgnoreTerm(p) ==
    /\ At(p, "finally") /\ Goto(p, FinallyEntry)
    /\ UNCHANGED <<machine, lock, script, budget>>

ServiceStart(p) ==
    /\ At(p, "serviceStart")
    /\ service' = (IF service = "off" THEN "starting" ELSE service)
    /\ Goto(p, "waitRestored")
    /\ UNCHANGED <<leftover, exl, lock, script, budget>>

WaitRestored(p) ==
    /\ At(p, "waitRestored") /\ ServiceAnswers
    /\ left' = [left EXCEPT ![p] = "production-restored"]
    /\ Leave(p)
    /\ UNCHANGED <<machine, engines, turn, restoreAfter, status, budget>>

ServiceStopEnd(p) ==
    /\ At(p, "serviceStopEnd")
    /\ EndUnit
    /\ left' = [left EXCEPT ![p] = "production-left-offline"]
    /\ Leave(p)
    /\ UNCHANGED <<exl, engines, turn, restoreAfter, status>>

(***************************************************************************)
(* Exceptions: the ones a command raises because of what it meets, the     *)
(* accidental ones, and signals, whose handler raises.                     *)
(***************************************************************************)
Throw(p) ==
    /\ UNCHANGED <<machine, script>>
    /\ IF pc[p] \in TryBody THEN Goto(p, "except") /\ UNCHANGED lock
       ELSE IF At(p, "except") THEN Goto(p, "finally") /\ UNCHANGED lock
       ELSE Leave(p)

NeverGivesUp(p) == FALSE                                 \* mutant of DeadlinePasses
DeadlinePasses(p) ==
    \/ At(p, "wait") /\ WorkerGone(p)
    \/ At(p, "waitRestored") /\ ServiceGone

Raise(p) ==
    /\ \/ pc[p] \in {"dockerStop", "dockerStopLast", "dockerStopEnd"} /\ exl = "none"
       \/ At(p, "run") /\ exl # "none"
       \/ At(p, "measure") /\ WorkerGone(p)
       \/ At(p, "logs") /\ exl # "running"
       \/ DeadlinePasses(p)
    /\ Throw(p) /\ UNCHANGED budget

RaiseByAccident(p) ==
    /\ pc[p] \notin {"start", "exit"} /\ faults < MaxFaults
    /\ faults' = faults + 1
    /\ Throw(p) /\ UNCHANGED interrupts

\* SIGINT at any point; SIGTERM until the finally clause ignores it.
Signals == {"SIGINT", "SIGTERM"}
Interrupt(p, signal) ==
    /\ pc[p] \notin {"start", "exit"} /\ interrupts < MaxInterrupts
    /\ p \in Campaigns /\ pc[p] \in FinallyBody => signal # "SIGTERM"
    /\ interrupts' = interrupts + 1
    /\ Throw(p) /\ UNCHANGED faults

Kill(p) ==
    /\ pc[p] \notin {"start", "exit"} /\ interrupts < MaxInterrupts
    /\ interrupts' = interrupts + 1
    /\ Leave(p)
    /\ UNCHANGED <<machine, script, faults>>

(***************************************************************************)
(* The machine.                                                            *)
(***************************************************************************)
\* The launcher is refused a name that is taken, and tried again for ever.
ServiceUp ==
    /\ service = "starting" /\ ~ leftover /\ service' = "up"
    /\ UNCHANGED <<leftover, exl, lock, pc, script, budget>>
Removed ==
    /\ exl = "removing" /\ exl' = "none"
    /\ UNCHANGED <<service, leftover, lock, pc, script, budget>>
ExlCrash ==
    /\ exl = "running" /\ faults < MaxFaults
    /\ exl' = "removing" /\ faults' = faults + 1
    /\ UNCHANGED <<service, leftover, lock, pc, script, interrupts>>

Step(p) ==
    \/ TakeLock(p) \/ LockBusy(p) \/ RestoreOnly(p)
    \/ InspectExl(p) \/ DockerStop(p)
    \/ Phase(p) \/ RestartStops(p) \/ RestartStarts(p) \/ ServiceStop(p) \/ StartExl(p)
    \/ Wait(p) \/ Measure(p) \/ TooShort(p) \/ Logs(p) \/ Complete(p) \/ Except(p)
    \/ IgnoreTerm(p) \/ ServiceStart(p) \/ WaitRestored(p) \/ ServiceStopEnd(p)
    \/ Raise(p)

Next ==
    \/ \E p \in Procs : \/ Step(p) \/ RaiseByAccident(p) \/ Kill(p)
                        \/ \E s \in Signals : Interrupt(p, s)
    \/ ServiceUp \/ Removed \/ ExlCrash

Spec == Init /\ [][Next]_vars
\* Every process runs on, the service comes up, the daemon removes.
FairSpec == Spec /\ (\A p \in Procs : WF_vars(Step(p))) /\ WF_vars(ServiceUp) /\ WF_vars(Removed)

-----------------------------------------------------------------------------
TypeOK ==
    /\ service \in {"off", "starting", "up"} /\ leftover \in BOOLEAN /\ exl \in {"none", "running", "removing"}
    /\ lock \in Campaigns \cup {NoOne}
    /\ pc \in [Procs -> Labels] /\ engines \in [Procs -> EnginePlans]
    /\ \A p \in Procs : turn[p] \in 1..Len(engines[p]) + 1
    /\ restoreAfter \in [Procs -> BOOLEAN]
    /\ status \in [Procs -> {"none", "running", "failed", "complete", "needs_longer_fixture"}]
    /\ left \in [Procs -> {"none", "production-restored", "production-left-offline"}]
    /\ interrupts \in 0..MaxInterrupts /\ faults \in 0..MaxFaults

\* No --restore-production, which takes no lock, has begun.
Locked == \A r \in Restorers : At(r, "start")

\* The permanent service and the campaign's container are never on the GPU at
\* once, whichever campaigns started them and whatever was interrupted or killed,
\* as long as no restoration has begun that takes no lock: such a one may start
\* the service beside the container.  The service is off with its unit, but for a
\* container that a failed ExecStop left: nothing in the campaign looks for it.
OneWorker == Locked => ~(service # "off" /\ exl = "running")

\* A campaign measures an engine while it holds the lock, and while the other
\* engine's worker is not on the GPU: another campaign cannot disturb it, and
\* under the condition of OneWorker nobody does.
MeasuredAlone ==
    \A p \in Procs : At(p, "measure") =>
       /\ lock = p
       /\ Locked => IF Engine(p) = "gptq" THEN service # "off" /\ exl # "running"
                    ELSE service = "off"

\* What a campaign says it left is what it leaves, under the same condition:
\* production serving without the other worker, or neither of the two (but for
\* what a failed ExecStop has left, of which the receipt knows nothing).
LeftAsSaid ==
    [][Locked' => \A p \in Procs : left'[p] # left[p] =>
         /\ exl' # "running"
         /\ IF left'[p] = "production-restored" THEN ServiceAnswers' ELSE service' = "off"]_vars

\* Every campaign that took the lock ends and gives it back, crash of the
\* worker or not.
CampaignsEnd == \A p \in Procs : (pc[p] # "start") ~> (pc[p] = "exit" /\ lock # p)

\* The docstring: "optional pinned production restoration", and the handler's
\* message, "campaign interrupted; restoring production".
RestoresProduction ==
    \A p \in Procs : At(p, "exit") /\ status[p] # "none" /\ restoreAfter[p] /\ lock = NoOne
                        => service # "off"

==============================================================================
