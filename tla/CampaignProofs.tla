---------------------------- MODULE CampaignProofs ----------------------------
(***************************************************************************)
(* Campaigns, which all take the lock, never put two workers on the GPU,   *)
(* measure undisturbed and leave what they say, for every number of        *)
(* campaigns, every list of engines and every number of signals, kills and *)
(* failures, as long as no process started with --restore-production has   *)
(* begun: that one takes no lock.                                          *)
(*                                                                         *)
(* The inductive invariant says of each campaign what it has established   *)
(* at the label it is at (Established): who is on the GPU, and that it     *)
(* holds the lock, which makes every other one inactive.                   *)
(***************************************************************************)
EXTENDS Campaign, TLAPS

(* Types, with any restorers.  The index of the engine is the one of the    *)
(* state that needs care: from the choice of a phase to its measurement the *)
(* process is inside its list.                                              *)
InPhase == {"inspect", "dockerStop", "restart", "restarted", "wait", "serviceStop", "run", "measure"}

Typed ==
    /\ TypeOK
    /\ turn \in [Procs -> Nat]
    /\ \A p \in Procs : pc[p] \in InPhase => turn[p] <= Len(engines[p])

LEMMA PlanLength ==
    ASSUME Typed, NEW p \in Procs
    PROVE  Len(engines[p]) \in Nat /\ turn[p] \in Nat
BY PlansAssumption DEF Typed, TypeOK

LEMMA InitTyped == Init => Typed
<1> SUFFICES ASSUME Init PROVE Typed
  OBVIOUS
<1>1. \A p \in Procs : Len(engines[p]) \in Nat
  BY PlansAssumption DEF Init
<1>2. \A p \in Procs : turn[p] \in 1..Len(engines[p]) + 1
  BY <1>1 DEF Init
<1>3. pc \in [Procs -> Labels] /\ \A p \in Procs : pc[p] \notin InPhase
  BY DEF Init, Labels, InPhase
<1>4. turn \in [Procs -> Nat]
  BY DEF Init
<1>5. /\ status \in [Procs -> {"none", "running", "failed", "complete", "needs_longer_fixture"}]
      /\ left \in [Procs -> {"none", "production-restored", "production-left-offline"}]
  BY DEF Init
<1>6. leftover \in BOOLEAN
  BY DEF Init
<1> QED BY <1>2, <1>3, <1>4, <1>5, <1>6, BoundsAssumption DEF Init, Typed, TypeOK

\* A step that moves p to a label, and nobody else.
LEMMA GotoTyped ==
    ASSUME Typed, NEW p \in Procs, NEW label \in Labels, Goto(p, label),
           UNCHANGED <<engines, turn>>,
           label \in InPhase => turn[p] <= Len(engines[p])
    PROVE  /\ pc' \in [Procs -> Labels] /\ turn' \in [Procs -> Nat]
           /\ engines' \in [Procs -> EnginePlans]
           /\ \A q \in Procs : turn'[q] \in 1..Len(engines'[q]) + 1
           /\ \A q \in Procs : pc'[q] \in InPhase => turn'[q] <= Len(engines'[q])
BY DEF Typed, TypeOK, Goto

\* What a step of a process writes besides its label is of its type.
Written ==
    /\ service' \in {"off", "starting", "up"} /\ leftover' \in BOOLEAN
    /\ exl' \in {"none", "running", "removing"}
    /\ lock' \in Campaigns \cup {NoOne}
    /\ restoreAfter' \in [Procs -> BOOLEAN]
    /\ status' \in [Procs -> {"none", "running", "failed", "complete", "needs_longer_fixture"}]
    /\ left' \in [Procs -> {"none", "production-restored", "production-left-offline"}]
    /\ interrupts' \in 0..MaxInterrupts /\ faults' \in 0..MaxFaults

LEMMA StepWrites ==
    ASSUME Typed, NEW p \in Procs, Step(p)
    PROVE  Written
<1> USE DEF Typed, TypeOK, Written, machine, script, budget, Leave
<1>1. CASE TakeLock(p)
  BY <1>1 DEF TakeLock
<1>2. CASE LockBusy(p) \/ RestoreOnly(p) \/ InspectExl(p) \/ Phase(p) \/ Wait(p) \/ Logs(p) \/ IgnoreTerm(p)
  BY <1>2 DEF LockBusy, RestoreOnly, InspectExl, Phase, Wait, Logs, IgnoreTerm
<1>e. ASSUME EndUnit
      PROVE  /\ service' = "off" /\ leftover' \in BOOLEAN
             /\ interrupts' \in 0..MaxInterrupts /\ faults' \in 0..MaxFaults
  <2>1. leftover' \in BOOLEAN
    BY <1>e, Zenon DEF EndUnit
  <2>2. service' = "off" /\ interrupts' = interrupts
    BY <1>e DEF EndUnit, Stopped
  <2>3. faults' = faults \/ (faults < MaxFaults /\ faults' = faults + 1)
    BY <1>e DEF EndUnit
  <2> QED BY <2>1, <2>2, <2>3, BoundsAssumption
<1>3. CASE DockerStop(p) \/ RestartStarts(p) \/ StartExl(p)
  BY <1>3 DEF DockerStop, RestartStarts, StartExl
<1>9. CASE RestartStops(p) \/ ServiceStop(p)
  BY <1>9, <1>e DEF RestartStops, ServiceStop
<1>4. CASE Measure(p) \/ ServiceStart(p)
  BY <1>4 DEF Measure, ServiceStart
<1>5. CASE TooShort(p) \/ Complete(p) \/ Except(p)
  BY <1>5 DEF TooShort, Complete, Except
<1>6. CASE WaitRestored(p)
  BY <1>6 DEF WaitRestored
<1>7. CASE ServiceStopEnd(p)
  BY <1>7, <1>e DEF ServiceStopEnd
<1>8. CASE Raise(p)
  BY <1>8 DEF Raise, Throw
<1> QED BY <1>1, <1>2, <1>3, <1>4, <1>5, <1>6, <1>7, <1>8, <1>9 DEF Step

Moved ==
    /\ pc' \in [Procs -> Labels] /\ turn' \in [Procs -> Nat]
    /\ engines' \in [Procs -> EnginePlans]
    /\ \A q \in Procs : turn'[q] \in 1..Len(engines'[q]) + 1
    /\ \A q \in Procs : pc'[q] \in InPhase => turn'[q] <= Len(engines'[q])

LEMMA LabelsTyped ==
    /\ {"except", "finally", "exit"} \subseteq Labels \ InPhase
    /\ TryBody \cup FinallyBody \subseteq Labels
    /\ InPhase \subseteq TryBody
    /\ FinallyBody \cap InPhase = {}
BY DEF Labels, InPhase, TryBody, FinallyBody

LEMMA ThrowMoves ==
    ASSUME Typed, NEW p \in Procs, Throw(p)
    PROVE  Moved
<1>1. PICK label \in {"except", "finally", "exit"} : Goto(p, label)
  BY DEF Throw, Leave
<1>2. UNCHANGED <<engines, turn>>
  BY DEF Throw, script
<1> QED BY <1>1, <1>2, LabelsTyped, GotoTyped DEF Moved

LEMMA StepMoves ==
    ASSUME Typed, NEW p \in Procs, Step(p)
    PROVE  Moved
<1>1. CASE TakeLock(p) \/ LockBusy(p) \/ RestoreOnly(p) \/ Logs(p) \/ TooShort(p) \/ Complete(p)
           \/ Except(p) \/ IgnoreTerm(p) \/ ServiceStart(p) \/ WaitRestored(p) \/ ServiceStopEnd(p)
  <2>1. PICK label \in {"phase", "inspectEnd", "inspectLast", "finally", "waitRestored", "exit"} :
           Goto(p, label)
    BY <1>1 DEF TakeLock, LockBusy, RestoreOnly, Logs, TooShort, Complete, Except, IgnoreTerm,
                FinallyEntry, ServiceStart, WaitRestored, ServiceStopEnd, Leave
  <2>2. UNCHANGED <<engines, turn>>
    BY <1>1 DEF TakeLock, LockBusy, RestoreOnly, Logs, TooShort, Complete, Except, IgnoreTerm,
                ServiceStart, WaitRestored, ServiceStopEnd, script
  <2>3. label \in Labels \ InPhase
    BY DEF Labels, TryBody, FinallyBody, InPhase
  <2> QED BY <2>1, <2>2, <2>3, GotoTyped DEF Moved
<1>2. CASE InspectExl(p) \/ DockerStop(p)
  <2>1. PICK label \in Labels : Goto(p, label) /\ (label \in InPhase => pc[p] \in InPhase)
    <3>1. /\ StopLabel["inspect"] = "dockerStop" /\ StopLabel["inspectLast"] = "dockerStopLast"
          /\ StopLabel["inspectEnd"] = "dockerStopEnd"
          /\ DOMAIN StopLabel = {"inspect", "inspectLast", "inspectEnd"}
      BY DEF StopLabel
    <3>2. /\ pc[p] \in {"inspect", "dockerStop"} => AfterStop(p) = "restart"
          /\ pc[p] \in {"inspectLast", "dockerStopLast"} => AfterStop(p) = "phase"
          /\ pc[p] \in {"inspectEnd", "dockerStopEnd"} => AfterStop(p) \in {"serviceStart", "serviceStopEnd"}
      BY DEF AfterStop
    <3>3. CASE DockerStop(p)
      <4>1. Goto(p, AfterStop(p)) /\ pc[p] \in {"dockerStop", "dockerStopLast", "dockerStopEnd"}
        BY <3>3 DEF DockerStop
      <4> QED BY <4>1, <3>2 DEF Labels, TryBody, FinallyBody, InPhase
    <3>4. CASE InspectExl(p)
      <4>1. /\ pc[p] \in {"inspect", "inspectLast", "inspectEnd"}
            /\ Goto(p, AfterStop(p)) \/ Goto(p, StopLabel[pc[p]])
        BY <3>4, <3>1 DEF InspectExl
      <4> QED BY <4>1, <3>1, <3>2 DEF Labels, TryBody, FinallyBody, InPhase
    <3> QED BY <1>2, <3>3, <3>4
  <2>2. UNCHANGED <<engines, turn>>
    BY <1>2 DEF InspectExl, DockerStop, script
  <2> QED BY <2>1, <2>2, GotoTyped DEF Moved, Typed
<1>3. CASE Phase(p)
  <2>1. PICK label \in {"complete", "inspect", "serviceStop"} :
           Goto(p, label) /\ (label # "complete" => ~(turn[p] > Len(engines[p])))
    BY <1>3 DEF Phase
  <2>2. UNCHANGED <<engines, turn>> /\ label \in Labels /\ (label = "complete" => label \notin InPhase)
    BY <1>3 DEF Phase, script, Labels, TryBody, InPhase
  <2> QED BY <2>1, <2>2, PlanLength, GotoTyped DEF Moved
<1>4. CASE RestartStops(p) \/ RestartStarts(p) \/ ServiceStop(p) \/ StartExl(p) \/ Wait(p)
  <2>1. PICK label \in {"restarted", "wait", "run", "measure"} : Goto(p, label)
    BY <1>4 DEF RestartStops, RestartStarts, ServiceStop, StartExl, Wait
  <2>2. pc[p] \in InPhase /\ UNCHANGED <<engines, turn>>
    BY <1>4 DEF RestartStops, RestartStarts, ServiceStop, StartExl, Wait, At, InPhase, script
  <2>3. label \in Labels
    BY DEF Labels, TryBody
  <2> QED BY <2>1, <2>2, <2>3, GotoTyped DEF Moved, Typed
<1>5. CASE Measure(p)
  <2>1. PICK label \in {"logs", "phase"} : Goto(p, label)
    BY <1>5 DEF Measure
  <2>2. /\ turn' = [turn EXCEPT ![p] = turn[p] + 1] /\ engines' = engines
        /\ turn[p] <= Len(engines[p])
    BY <1>5 DEF Measure, At, InPhase, Typed
  <2>3. label \in Labels \ InPhase
    BY DEF Labels, TryBody, InPhase
  <2>4. pc' = [pc EXCEPT ![p] = label]
    BY <2>1 DEF Goto
  <2>5. \A q \in Procs : turn[q] \in 1..Len(engines[q]) + 1 /\ Len(engines[q]) \in Nat
    BY PlanLength DEF Typed, TypeOK
  <2> QED BY <2>2, <2>3, <2>4, <2>5 DEF Moved, Typed, TypeOK
<1>6. CASE Raise(p)
  BY <1>6, ThrowMoves DEF Raise
<1> QED BY <1>1, <1>2, <1>3, <1>4, <1>5, <1>6 DEF Step

LEMMA NextTyped == Typed /\ [Next]_vars => Typed'
<1> SUFFICES ASSUME Typed, [Next]_vars PROVE Typed'
  OBVIOUS
<1>m. Written /\ Moved => Typed'
  BY DEF Written, Moved, Typed, TypeOK
<1>1. ASSUME NEW p \in Procs, Step(p) PROVE Typed'
  BY <1>1, <1>m, StepWrites, StepMoves
<1>2. ASSUME NEW p \in Procs, RaiseByAccident(p) \/ \E s \in Signals : Interrupt(p, s)
      PROVE  Typed'
  <2>1. Throw(p)
    BY <1>2 DEF RaiseByAccident, Interrupt
  <2>2. interrupts' \in 0..MaxInterrupts /\ faults' \in 0..MaxFaults
    BY <1>2, BoundsAssumption DEF RaiseByAccident, Interrupt, Typed, TypeOK
  <2>3. Written
    BY <2>1, <2>2 DEF Throw, Leave, machine, script, Written, Typed, TypeOK
  <2> QED BY <2>1, <2>3, <1>m, ThrowMoves
<1>3. ASSUME NEW p \in Procs, Kill(p) PROVE Typed'
  <2>1. Goto(p, "exit") /\ UNCHANGED <<engines, turn>>
    BY <1>3 DEF Kill, Leave, script
  <2>2. Moved
    BY <2>1, LabelsTyped, GotoTyped DEF Moved
  <2>3. interrupts' \in 0..MaxInterrupts
    BY <1>3, BoundsAssumption DEF Kill, Typed, TypeOK
  <2>4. Written
    BY <1>3, <2>3 DEF Kill, Leave, machine, script, Written, Typed, TypeOK
  <2> QED BY <2>2, <2>4, <1>m
<1>4. CASE ServiceUp \/ Removed \/ ExlCrash
  <2>1. faults' \in 0..MaxFaults
    BY <1>4, BoundsAssumption DEF ServiceUp, Removed, ExlCrash, budget, Typed, TypeOK
  <2> QED BY <1>4, <2>1 DEF ServiceUp, Removed, ExlCrash, script, budget, Typed, TypeOK
<1>5. CASE UNCHANGED vars
  BY <1>5 DEF vars, machine, script, budget, Typed, TypeOK
<1> QED BY <1>1, <1>2, <1>3, <1>4, <1>5 DEF Next

\* Labels, engines, turns and receipts stay in their types, restorers or not;
\* no campaign looks for an engine past the end of its list.
THEOREM TypeCorrect == Spec => []TypeOK
<1>1. Typed => TypeOK
  BY DEF Typed
<1> QED BY <1>1, InitTyped, NextTyped, PTL DEF Spec

-----------------------------------------------------------------------------
(* The lock, with any restorers: a campaign that is under way holds it, and *)
(* a restorer is nowhere but in restore().                                  *)
Active(p) == pc[p] \notin {"start", "exit"}

Held ==
    /\ \A p \in Campaigns : Active(p) => lock = p
    /\ \A r \in Restorers : pc[r] \in {"start", "exit"} \cup FinallyBody

\* Where a step of p leads, and what becomes of the lock.
Leads(p) ==
    \E label \in Labels \ {"start"} :
       /\ Goto(p, label)
       /\ pc[p] \in {"start", "exit"} \cup FinallyBody /\ p \in Restorers => label \in {"exit"} \cup FinallyBody
       /\ \/ lock = NoOne /\ lock' = p /\ p \in Campaigns
          \/ lock' = lock /\ (Active(p) \/ p \in Restorers)
          \/ label = "exit" /\ lock' = IF lock = p THEN NoOne ELSE lock

LEMMA LeaveLeads ==
    ASSUME NEW p \in Procs, Leave(p)
    PROVE  Leads(p)
BY DEF Leave, Leads, Labels, Goto

LEMMA ThrowLeads ==
    ASSUME NEW p \in Procs, Throw(p), Active(p)
    PROVE  Leads(p)
<1>1. CASE pc[p] \in TryBody \/ pc[p] = "except"
  <2>1. PICK label \in {"except", "finally"} : Goto(p, label) /\ lock' = lock
    BY <1>1 DEF Throw, At, TryBody
  <2>2. pc[p] \notin {"start", "exit"} \cup FinallyBody
    BY <1>1 DEF TryBody, FinallyBody
  <2> QED BY <2>1, <2>2 DEF Leads, Labels
<1>2. CASE ~ (pc[p] \in TryBody \/ pc[p] = "except")
  BY <1>2, LeaveLeads DEF Throw, At
<1> QED BY <1>1, <1>2

LEMMA StepLeads ==
    ASSUME Typed, NEW p \in Procs, Step(p)
    PROVE  Leads(p)
<1>p. p \in Campaigns \/ p \in Restorers
  BY DEF Procs
<1>1. CASE TakeLock(p)
  BY <1>1, ProcessesAssumption DEF TakeLock, LockFree, Leads, Labels, TryBody
<1>2. CASE LockBusy(p) \/ WaitRestored(p) \/ ServiceStopEnd(p)
  BY <1>2, LeaveLeads DEF LockBusy, WaitRestored, ServiceStopEnd
<1>3. CASE RestoreOnly(p)
  BY <1>3 DEF RestoreOnly, Leads, Labels, FinallyBody
<1>4. CASE InspectExl(p) \/ DockerStop(p)
  <2>1. /\ StopLabel["inspect"] = "dockerStop" /\ StopLabel["inspectLast"] = "dockerStopLast"
        /\ StopLabel["inspectEnd"] = "dockerStopEnd"
        /\ DOMAIN StopLabel = {"inspect", "inspectLast", "inspectEnd"}
    BY DEF StopLabel
  <2>2. /\ pc[p] \in {"inspect", "dockerStop"} => AfterStop(p) = "restart"
        /\ pc[p] \in {"inspectLast", "dockerStopLast"} => AfterStop(p) = "phase"
        /\ pc[p] \in {"inspectEnd", "dockerStopEnd"} => AfterStop(p) \in {"serviceStart", "serviceStopEnd"}
    BY DEF AfterStop
  <2>3. /\ pc[p] \in {"inspect", "dockerStop", "inspectLast", "dockerStopLast", "inspectEnd", "dockerStopEnd"}
        /\ lock' = lock /\ Active(p)
        /\ Goto(p, AfterStop(p)) \/ (pc[p] \in DOMAIN StopLabel /\ Goto(p, StopLabel[pc[p]]))
    BY <1>4, <2>1 DEF InspectExl, DockerStop, Active
  <2>4. PICK label \in Labels \ {"start"} :
           Goto(p, label) /\ (pc[p] \in {"start", "exit"} \cup FinallyBody => label \in FinallyBody)
    BY <2>1, <2>2, <2>3 DEF Labels, TryBody, FinallyBody
  <2> QED BY <2>3, <2>4 DEF Leads, Active
<1>5. CASE Phase(p) \/ RestartStops(p) \/ RestartStarts(p) \/ ServiceStop(p) \/ StartExl(p) \/ Wait(p)
           \/ Measure(p) \/ TooShort(p) \/ Logs(p) \/ Complete(p) \/ Except(p)
  <2>1. pc[p] \notin {"start", "exit"} \cup FinallyBody /\ lock' = lock
    BY <1>5 DEF Phase, RestartStops, RestartStarts, ServiceStop, StartExl, Wait, Measure, TooShort,
                Logs, Complete, Except, At, FinallyBody
  <2>2. PICK label \in {"complete", "inspect", "serviceStop", "restarted", "wait", "run", "measure",
                        "logs", "phase", "finally", "inspectLast"} : Goto(p, label)
    BY <1>5 DEF Phase, RestartStops, RestartStarts, ServiceStop, StartExl, Wait, Measure, TooShort,
                Logs, Complete, Except
  <2> QED BY <2>1, <2>2 DEF Leads, Active, Labels, TryBody
<1>6. CASE IgnoreTerm(p) \/ ServiceStart(p)
  BY <1>6 DEF IgnoreTerm, FinallyEntry, ServiceStart, At, Leads, Active, Labels, FinallyBody
<1>7. CASE Raise(p)
  BY <1>7, ThrowLeads DEF Raise, Active, At, DeadlinePasses
<1> QED BY <1>1, <1>2, <1>3, <1>4, <1>5, <1>6, <1>7 DEF Step

\* Every step is a process's that leads it somewhere, or moves nobody.
LEMMA NextLeads ==
    ASSUME Typed, [Next]_vars
    PROVE  (\E p \in Procs : Leads(p)) \/ UNCHANGED <<pc, lock>>
<1>1. ASSUME NEW p \in Procs, RaiseByAccident(p) \/ \E s \in Signals : Interrupt(p, s) PROVE Leads(p)
  BY <1>1, ThrowLeads DEF RaiseByAccident, Interrupt, Active
<1>2. ASSUME NEW p \in Procs, Kill(p) PROVE Leads(p)
  BY <1>2, LeaveLeads DEF Kill
<1> QED BY <1>1, <1>2, StepLeads DEF Next, ServiceUp, Removed, ExlCrash, vars

LEMMA NextHeld ==
    ASSUME Typed, Held, [Next]_vars
    PROVE  Held'
<1>1. ASSUME NEW p \in Procs, Leads(p) PROVE Held'
  <2>1. PICK label \in Labels \ {"start"} :
           /\ Goto(p, label)
           /\ pc[p] \in {"start", "exit"} \cup FinallyBody /\ p \in Restorers => label \in {"exit"} \cup FinallyBody
           /\ \/ lock = NoOne /\ lock' = p /\ p \in Campaigns
              \/ lock' = lock /\ (Active(p) \/ p \in Restorers)
              \/ label = "exit" /\ lock' = IF lock = p THEN NoOne ELSE lock
    BY <1>1 DEF Leads
  <2>2. pc'[p] = label /\ \A q \in Procs \ {p} : pc'[q] = pc[q]
    BY <2>1 DEF Goto, Typed, TypeOK
  <2>3. ASSUME NEW q \in Campaigns, pc'[q] \notin {"start", "exit"} PROVE lock' = q
    <3>1. CASE q = p
      BY <2>1, <2>2, <2>3, <3>1, ProcessesAssumption DEF Held, Active
    <3>2. CASE q # p
      <4>1. pc'[q] = pc[q] /\ lock = q
        BY <2>2, <2>3, <3>2 DEF Held, Active, Procs
      <4> QED BY <2>1, <3>2, <4>1, ProcessesAssumption DEF Procs
    <3> QED BY <3>1, <3>2
  <2>4. ASSUME NEW r \in Restorers PROVE pc'[r] \in {"start", "exit"} \cup FinallyBody
    <3>1. pc[r] \in {"start", "exit"} \cup FinallyBody
      BY DEF Held
    <3>2. CASE r # p
      BY <2>2, <3>1, <3>2 DEF Procs
    <3>3. CASE r = p
      BY <2>1, <2>2, <3>1, <3>3
    <3> QED BY <3>2, <3>3
  <2> QED BY <2>3, <2>4 DEF Held, Active
<1>2. CASE UNCHANGED <<pc, lock>>
  BY <1>2 DEF Held, Active
<1> QED BY <1>1, <1>2, NextLeads

-----------------------------------------------------------------------------
(* The machine, while no restorer has begun.                                *)
Established(p) ==
    /\ Active(p) => lock = p
    /\ pc[p] \in {"restart", "restarted", "serviceStart", "waitRestored", "serviceStopEnd"}
          => exl # "running"
    /\ pc[p] = "run" => service = "off"
    /\ pc[p] \in {"inspect", "dockerStop", "restart", "restarted"} => Engine(p) = "gptq"
    /\ pc[p] \in {"serviceStop", "run"} => Engine(p) # "gptq"
    /\ pc[p] \in {"wait", "measure"} =>
          IF Engine(p) = "gptq" THEN service # "off" /\ exl # "running" ELSE service = "off"

\* The unit and the container are not both there.
OneUnit == ~(service # "off" /\ exl = "running")

IInv ==
    /\ DOMAIN pc = Procs /\ DOMAIN turn = Procs
    /\ pc = [p \in Procs |-> pc[p]] /\ turn = [p \in Procs |-> turn[p]]
    /\ \A p \in Campaigns : Established(p)
    /\ OneUnit

LEMMA CampaignsAreProcs == Campaigns \subseteq Procs /\ Restorers \subseteq Procs
BY DEF Procs

USE CampaignsAreProcs

LEMMA InitIInv == Init => IInv
BY DEF Init, IInv, Established, Active, OneUnit

\* While a process is active, every other one has not begun or has ended.
LEMMA OthersInactive ==
    ASSUME IInv, NEW p \in Campaigns, Active(p) \/ lock = NoOne
    PROVE  \A q \in Campaigns \ {p} : pc[q] \in {"start", "exit"}
BY ProcessesAssumption DEF IInv, Established, Active

\* A step of p: what the others had established still stands.
LEMMA StepOf ==
    ASSUME IInv, NEW p \in Campaigns, Active(p) \/ lock = NoOne,
           NEW label, Goto(p, label), turn' = turn \/ (\E n : turn' = [turn EXCEPT ![p] = n]),
           engines' = engines, Established(p)', OneUnit'
    PROVE  IInv'
<1>1. \A q \in Campaigns \ {p} : pc'[q] \in {"start", "exit"}
  BY OthersInactive DEF Goto, IInv
<1>2. \A q \in Campaigns \ {p} : Established(q)'
  BY <1>1 DEF Established, Active
<1>3. DOMAIN pc' = Procs /\ pc' = [q \in Procs |-> pc'[q]]
  BY DEF Goto, IInv
<1>4. DOMAIN turn' = Procs /\ turn' = [q \in Procs |-> turn'[q]]
  BY DEF IInv
<1> QED BY <1>2, <1>3, <1>4 DEF IInv

\* An exception takes a process into the except clause, the finally clause or
\* out, and in none of them has it established anything but its lock.
LEMMA ThrowKeepsIInv ==
    ASSUME IInv, NEW p \in Campaigns, Active(p), Throw(p)
    PROVE  IInv'
<1>1. PICK label \in {"except", "finally", "exit"} :
         /\ Goto(p, label) /\ UNCHANGED <<machine, script>>
         /\ label # "exit" => lock' = lock
  BY DEF Throw, Leave
<1>2. pc'[p] = label /\ lock = p
  BY <1>1 DEF Goto, IInv, Established
<1>3. Established(p)' /\ OneUnit' /\ turn' = turn /\ engines' = engines
  BY <1>1, <1>2 DEF Established, Active, machine, script, IInv, OneUnit
<1> QED BY <1>1, <1>3, StepOf

\* A killed process, or one that ends, leaves the machine as it is.
LEMMA LeaveKeepsIInv ==
    ASSUME IInv, NEW p \in Campaigns, Leave(p), UNCHANGED <<engines, turn>>,
           OneUnit', Active(p) \/ UNCHANGED machine
    PROVE  IInv'
<1>1. Goto(p, "exit") /\ pc'[p] = "exit"
  BY DEF Leave, Goto, IInv
<1>2. Established(p)'
  BY <1>1 DEF Established, Active
<1>3. CASE Active(p)
  BY <1>1, <1>2, <1>3, StepOf
<1>4. CASE ~Active(p)
  <2>1. \A q \in Campaigns \ {p} : pc'[q] = pc[q] /\ (lock = q => lock' = q)
    BY DEF Leave, Goto, IInv
  <2>2. \A q \in Campaigns \ {p} : Established(q)'
    BY <2>1, <1>4 DEF Established, Active, machine, Engine, IInv
  <2>3. /\ DOMAIN pc' = Procs /\ pc' = [q \in Procs |-> pc'[q]]
        /\ DOMAIN turn' = Procs /\ turn' = [q \in Procs |-> turn'[q]]
    BY <1>1 DEF Goto, IInv
  <2> QED BY <2>2, <2>3, <1>2 DEF IInv
<1> QED BY <1>3, <1>4

\* The steps of the script that keep the machine as it is.
LEMMA QuietStepKeepsIInv ==
    ASSUME IInv, NEW p \in Campaigns,
           \/ TakeLock(p) \/ InspectExl(p) \/ Phase(p) \/ Wait(p) \/ Measure(p)
           \/ TooShort(p) \/ Logs(p) \/ Complete(p) \/ Except(p) \/ IgnoreTerm(p)
    PROVE  IInv'
<1> USE DEF IInv, Established, Active, OneUnit, Goto, At, machine, script
<1>1. CASE TakeLock(p)
  <2>1. lock = NoOne /\ lock' = p /\ Goto(p, "phase") /\ UNCHANGED <<machine, engines, turn>>
    BY <1>1 DEF TakeLock, LockFree
  <2>2. pc'[p] = "phase"
    BY <2>1
  <2>3. Established(p)' /\ OneUnit'
    BY <2>1, <2>2
  <2> QED BY <2>1, <2>3, StepOf
<1>2. CASE InspectExl(p)
  <2>1. PICK label \in {"dockerStop", "dockerStopLast", "dockerStopEnd",
                        "restart", "phase", "serviceStart", "serviceStopEnd"} :
           /\ Goto(p, label)
           /\ label \in {"restart", "serviceStart", "serviceStopEnd"} => exl = "none"
           /\ label \in {"dockerStop", "restart"} => pc[p] = "inspect"
    <3>1. pc[p] \in {"inspect", "inspectLast", "inspectEnd"}
      BY <1>2 DEF InspectExl, StopLabel
    <3>2. /\ StopLabel["inspect"] = "dockerStop" /\ StopLabel["inspectLast"] = "dockerStopLast"
          /\ StopLabel["inspectEnd"] = "dockerStopEnd"
      BY DEF StopLabel
    <3>3. /\ pc[p] = "inspect" => AfterStop(p) = "restart"
          /\ pc[p] = "inspectLast" => AfterStop(p) = "phase"
          /\ pc[p] = "inspectEnd" => AfterStop(p) \in {"serviceStart", "serviceStopEnd"}
      BY DEF AfterStop
    <3>4. Goto(p, IF exl = "none" THEN AfterStop(p) ELSE StopLabel[pc[p]])
      BY <1>2 DEF InspectExl
    <3> HIDE DEF Goto
    <3>5. CASE exl = "none"
      <4>1. Goto(p, AfterStop(p))
        BY <3>4, <3>5
      <4> QED BY <4>1, <3>1, <3>3, <3>5
    <3>6. CASE exl # "none"
      <4>1. Goto(p, StopLabel[pc[p]])
        BY <3>4, <3>6
      <4> QED BY <4>1, <3>1, <3>2
    <3> QED BY <3>5, <3>6
  <2>2. pc[p] \in {"inspect", "inspectLast", "inspectEnd"} /\ UNCHANGED <<machine, lock, engines, turn>>
    BY <1>2 DEF InspectExl, StopLabel
  <2>3. pc'[p] = label /\ Engine(p)' = Engine(p)
    BY <2>1, <2>2 DEF Engine
  <2>4. Established(p)' /\ OneUnit'
    BY <2>1, <2>2, <2>3
  <2> QED BY <2>1, <2>2, <2>4, StepOf
<1>3. CASE Phase(p)
  <2>1. PICK label \in {"complete", "inspect", "serviceStop"} :
           /\ Goto(p, label)
           /\ label = "inspect" => Engine(p) = "gptq"
           /\ label = "serviceStop" => Engine(p) # "gptq"
    BY <1>3 DEF Phase
  <2>2. pc[p] = "phase" /\ UNCHANGED <<machine, lock, engines, turn>>
    BY <1>3 DEF Phase
  <2>3. pc'[p] = label /\ Engine(p)' = Engine(p)
    BY <2>1, <2>2 DEF Engine
  <2>4. Established(p)' /\ OneUnit'
    BY <2>1, <2>2, <2>3
  <2> QED BY <2>1, <2>2, <2>4, StepOf
<1>4. CASE Wait(p)
  <2>1. Goto(p, "measure") /\ pc[p] = "wait" /\ UNCHANGED <<machine, lock, engines, turn>>
    BY <1>4 DEF Wait
  <2>2. pc'[p] = "measure" /\ Engine(p)' = Engine(p)
    BY <2>1 DEF Engine
  <2>3. Established(p)' /\ OneUnit'
    BY <2>1, <2>2
  <2> QED BY <2>1, <2>3, StepOf
<1>5. CASE Measure(p)
  <2>1. PICK label \in {"logs", "phase"} : Goto(p, label)
    BY <1>5 DEF Measure
  <2>2. /\ pc[p] = "measure" /\ UNCHANGED <<machine, lock, engines>>
        /\ turn' = [turn EXCEPT ![p] = turn[p] + 1]
    BY <1>5 DEF Measure
  <2>3. pc'[p] = label
    BY <2>1
  <2>4. Established(p)' /\ OneUnit'
    BY <2>1, <2>2, <2>3
  <2>5. \E n : turn' = [turn EXCEPT ![p] = n]
    BY <2>2
  <2> QED BY <2>1, <2>2, <2>4, <2>5, StepOf
<1>6. CASE TooShort(p) \/ Logs(p) \/ Complete(p) \/ Except(p) \/ IgnoreTerm(p)
  <2>1. PICK label \in {"finally", "inspectLast", "inspectEnd"} : Goto(p, label)
    BY <1>6 DEF TooShort, Logs, Complete, Except, IgnoreTerm, FinallyEntry
  <2>2. /\ pc[p] \in {"measure", "logs", "complete", "except", "finally"}
        /\ UNCHANGED <<machine, lock, engines, turn>>
    BY <1>6 DEF TooShort, Logs, Complete, Except, IgnoreTerm
  <2>3. pc'[p] = label
    BY <2>1
  <2>4. Established(p)' /\ OneUnit'
    BY <2>1, <2>2, <2>3
  <2> QED BY <2>1, <2>2, <2>4, StepOf
<1> QED BY <1>1, <1>2, <1>3, <1>4, <1>5, <1>6

\* The steps that stop or start a worker.
LEMMA WorkerStepKeepsIInv ==
    ASSUME IInv, NEW p \in Campaigns,
           \/ DockerStop(p) \/ RestartStops(p) \/ RestartStarts(p) \/ ServiceStop(p)
           \/ StartExl(p) \/ ServiceStart(p)
    PROVE  IInv'
<1> USE DEF IInv, Established, Active, OneUnit, Goto, At, machine, script
<1>1. CASE DockerStop(p)
  <2>1. PICK label \in {"restart", "phase", "serviceStart", "serviceStopEnd"} :
           Goto(p, label) /\ (label = "restart" => pc[p] = "dockerStop")
    BY <1>1 DEF DockerStop, AfterStop
  <2>2. /\ pc[p] \in {"dockerStop", "dockerStopLast", "dockerStopEnd"} /\ exl' = "removing"
        /\ UNCHANGED <<service, lock, engines, turn>>
    BY <1>1 DEF DockerStop
  <2>3. pc'[p] = label /\ Engine(p)' = Engine(p)
    BY <2>1, <2>2 DEF Engine
  <2>4. Established(p)' /\ OneUnit'
    BY <2>1, <2>2, <2>3
  <2> QED BY <2>1, <2>2, <2>4, StepOf
<1>2. CASE RestartStops(p)
  <2>1. Goto(p, "restarted") /\ pc[p] = "restart" /\ service' = "off" /\ UNCHANGED <<exl, lock, engines, turn>>
    BY <1>2 DEF RestartStops, EndUnit, Stopped
  <2>2. pc'[p] = "restarted" /\ Engine(p)' = Engine(p)
    BY <2>1 DEF Engine
  <2>3. Established(p)' /\ OneUnit'
    BY <2>1, <2>2
  <2> QED BY <2>1, <2>3, StepOf
<1>3. CASE RestartStarts(p)
  <2>1. Goto(p, "wait") /\ pc[p] = "restarted" /\ service' = "starting" /\ UNCHANGED <<exl, lock, engines, turn>>
    BY <1>3 DEF RestartStarts
  <2>2. pc'[p] = "wait" /\ Engine(p)' = Engine(p)
    BY <2>1 DEF Engine
  <2>3. Established(p)' /\ OneUnit'
    BY <2>1, <2>2
  <2> QED BY <2>1, <2>3, StepOf
<1>4. CASE ServiceStop(p)
  <2>1. Goto(p, "run") /\ pc[p] = "serviceStop" /\ service' = "off" /\ UNCHANGED <<exl, lock, engines, turn>>
    BY <1>4 DEF ServiceStop, EndUnit, Stopped
  <2>2. pc'[p] = "run" /\ Engine(p)' = Engine(p)
    BY <2>1 DEF Engine
  <2>3. Established(p)' /\ OneUnit'
    BY <2>1, <2>2
  <2> QED BY <2>1, <2>3, StepOf
<1>5. CASE StartExl(p)
  <2>1. Goto(p, "wait") /\ pc[p] = "run" /\ exl' = "running" /\ UNCHANGED <<service, lock, engines, turn>>
    BY <1>5 DEF StartExl
  <2>2. pc'[p] = "wait" /\ Engine(p)' = Engine(p)
    BY <2>1 DEF Engine
  <2>3. Established(p)' /\ OneUnit'
    BY <2>1, <2>2
  <2> QED BY <2>1, <2>3, StepOf
<1>6. CASE ServiceStart(p)
  <2>1. Goto(p, "waitRestored") /\ pc[p] = "serviceStart" /\ UNCHANGED <<exl, lock, engines, turn>>
    BY <1>6 DEF ServiceStart
  <2>2. pc'[p] = "waitRestored"
    BY <2>1
  <2>3. Established(p)' /\ OneUnit'
    BY <2>1, <2>2
  <2> QED BY <2>1, <2>3, StepOf
<1> QED BY <1>1, <1>2, <1>3, <1>4, <1>5, <1>6

\* The machine's own steps: the service comes up, a container goes.
LEMMA MachineKeepsIInv ==
    ASSUME IInv, ServiceUp \/ Removed \/ ExlCrash
    PROVE  IInv'
<1>1. /\ UNCHANGED <<lock, pc, engines, turn>>
      /\ service' # "off" <=> service # "off" 
      /\ exl' = "running" => exl = "running"
  BY DEF ServiceUp, Removed, ExlCrash, script
<1>2. \A p \in Campaigns : Established(p)'
  BY <1>1 DEF IInv, Established, Active, Engine
<1> QED BY <1>1, <1>2 DEF IInv, OneUnit

\* Nobody who has begun is as if he had not.
LEMMA NobodyReturns ==
    ASSUME Typed, [Next]_vars, Locked'
    PROVE  Locked
<1> SUFFICES ASSUME NEW r \in Restorers, pc[r] # "start" PROVE pc'[r] # "start"
  BY DEF Locked, At
<1>r. r \in Procs
  OBVIOUS
<1>1. ASSUME NEW p \in Procs, Leads(p) PROVE pc'[r] # "start"
  BY <1>1, <1>r DEF Leads, Goto, Typed, TypeOK
<1> QED BY <1>1, NextLeads

\* While no restorer has begun, the invariant is kept: only campaigns step.
LEMMA NextIInv ==
    ASSUME Typed, Locked => IInv, [Next]_vars, Locked'
    PROVE  IInv'
<1>i. Locked /\ IInv
  BY NobodyReturns
<1>p. ASSUME NEW p \in Procs, p \notin Campaigns PROVE pc[p] = "start" /\ pc'[p] = "start"
  BY <1>p, <1>i DEF Locked, At, Procs
<1>1. ASSUME NEW p \in Campaigns, Step(p) PROVE IInv'
  <2>1. CASE LockBusy(p)
    <3>1. Leave(p) /\ UNCHANGED <<machine, engines, turn>>
      BY <2>1 DEF LockBusy, script
    <3> QED BY <1>i, <3>1, LeaveKeepsIInv DEF IInv, OneUnit, machine
  <2>2. CASE RestoreOnly(p)
    BY <2>2, ProcessesAssumption DEF RestoreOnly
  <2>3. CASE WaitRestored(p) \/ ServiceStopEnd(p)
    <3>1. Leave(p) /\ Active(p) /\ UNCHANGED <<exl, engines, turn>>
      BY <2>3 DEF WaitRestored, ServiceStopEnd, Active, At, machine
    <3>2. OneUnit'
      BY <2>3, <1>i DEF WaitRestored, ServiceStopEnd, EndUnit, Stopped, OneUnit, IInv, machine
    <3> QED BY <1>i, <3>1, <3>2, LeaveKeepsIInv
  <2>4. CASE Raise(p)
    <3>1. Throw(p) /\ Active(p)
      BY <2>4 DEF Raise, Active, At, DeadlinePasses
    <3> QED BY <1>i, <3>1, ThrowKeepsIInv
  <2> QED BY <1>i, <1>1, <2>1, <2>2, <2>3, <2>4, QuietStepKeepsIInv, WorkerStepKeepsIInv DEF Step
<1>2. ASSUME NEW p \in Campaigns, RaiseByAccident(p) \/ \E s \in Signals : Interrupt(p, s)
      PROVE  IInv'
  <2>1. Throw(p) /\ Active(p)
    BY <1>2 DEF RaiseByAccident, Interrupt, Active
  <2> QED BY <1>i, <2>1, ThrowKeepsIInv
<1>3. ASSUME NEW p \in Campaigns, Kill(p) PROVE IInv'
  <2>1. Leave(p) /\ Active(p) /\ UNCHANGED <<machine, engines, turn>>
    BY <1>3 DEF Kill, Active, script
  <2> QED BY <1>i, <2>1, LeaveKeepsIInv DEF IInv, OneUnit, machine
<1>4. CASE UNCHANGED vars
  <2>1. UNCHANGED <<service, exl, lock, pc, engines, turn>>
    BY <1>4 DEF vars, machine, script
  <2>2. \A p \in Campaigns : Established(p)'
    BY <1>i, <2>1 DEF IInv, Established, Active, Engine
  <2> QED BY <1>i, <2>1, <2>2 DEF IInv, OneUnit
<1>5. ASSUME NEW p \in Procs, p \notin Campaigns,
             Step(p) \/ RaiseByAccident(p) \/ Kill(p) \/ \E s \in Signals : Interrupt(p, s)
      PROVE  FALSE
  <2>1. pc[p] = "start" /\ pc'[p] = "start"
    BY <1>5, <1>p
  <2>2. ~ (RaiseByAccident(p) \/ Kill(p) \/ \E s \in Signals : Interrupt(p, s))
    BY <2>1 DEF RaiseByAccident, Kill, Interrupt
  <2>3. RestoreOnly(p)
    BY <1>5, <2>1, <2>2 DEF Step, TakeLock, LockBusy, InspectExl, StopLabel, DockerStop, Phase,
         RestartStops, RestartStarts, ServiceStop, StartExl, Wait, Measure, TooShort, Logs, Complete,
         Except, IgnoreTerm, ServiceStart, WaitRestored, ServiceStopEnd, Raise, DeadlinePasses, At
  <2> QED BY <2>1, <2>3, <1>i DEF RestoreOnly, Goto, IInv
<1> QED BY <1>i, <1>1, <1>2, <1>3, <1>4, <1>5, MachineKeepsIInv DEF Next

\* What is kept from step to step: the invariant, while no restorer has begun.
Kept == Typed /\ Held /\ (Locked => IInv)

LEMMA KeptHolds == Spec => []Kept
<1>1. Init => Kept
  BY InitTyped, InitIInv DEF Kept, Held, Active, Init, Procs
<1>2. Kept /\ [Next]_vars => Kept'
  <2> SUFFICES ASSUME Kept, [Next]_vars PROVE Typed' /\ Held' /\ (Locked' => IInv')
    BY DEF Kept
  <2> QED BY NextTyped, NextHeld, NextIInv DEF Kept
<1> QED BY <1>1, <1>2, PTL DEF Spec

\* Until an unlocked restoration begins the GPU never holds two workers, however
\* many campaigns are started, interrupted and killed.
THEOREM NeverTwoWorkers == Spec => []OneWorker
<1>1. Kept => OneWorker
  BY DEF Kept, IInv, OneUnit, OneWorker
<1> QED BY <1>1, KeptHolds, PTL

\* Nor is any campaign disturbed while it measures.
THEOREM MeasuresUndisturbed == Spec => []MeasuredAlone
<1>1. Kept => MeasuredAlone
  <2> SUFFICES ASSUME Kept, NEW p \in Procs, pc[p] = "measure"
               PROVE  /\ lock = p
                      /\ Locked => IF Engine(p) = "gptq" THEN service # "off" /\ exl # "running"
                                   ELSE service = "off"
    BY DEF MeasuredAlone, At
  <2>1. p \in Campaigns /\ lock = p
    BY DEF Kept, Held, Active, FinallyBody, Procs
  <2> QED BY <2>1 DEF Kept, IInv, Established
<1> QED BY <1>1, KeptHolds, PTL

\* What a campaign's receipt says it left behind is what it leaves, until an
\* unlocked restoration begins: production serving and no second worker, or
\* neither of the two.
THEOREM ReceiptsAreTrue == Spec => LeftAsSaid
<1> DEFINE Said == Locked' => \A p \in Procs : left'[p] # left[p] =>
                      /\ exl' # "running"
                      /\ IF left'[p] = "production-restored" THEN ServiceAnswers' ELSE service' = "off"
<1>1. ASSUME Kept, Kept', [Next]_vars PROVE Said
  <2>l. ASSUME Locked', NEW q \in Procs, WaitRestored(q) \/ ServiceStopEnd(q)
        PROVE  exl # "running" /\ exl' = exl
    <3>1. Locked /\ IInv
      BY <1>1, <2>l, NobodyReturns DEF Kept
    <3>2. pc[q] \in {"waitRestored", "serviceStopEnd"} /\ pc'[q] = "exit" /\ exl' = exl
      BY <2>l, <1>1 DEF WaitRestored, ServiceStopEnd, At, machine, Leave, Goto, Kept, Typed, TypeOK
    <3>3. q \in Campaigns
      BY <3>1, <3>2 DEF Locked, At, Procs
    <3> QED BY <3>1, <3>2, <3>3 DEF IInv, Established
  <2>1. ASSUME NEW q \in Procs, WaitRestored(q) PROVE Said
    <3>1. left' = [left EXCEPT ![q] = "production-restored"] /\ ServiceAnswers'
      BY <2>1 DEF WaitRestored, ServiceAnswers, machine
    <3> QED BY <1>1, <2>l, <2>1, <3>1 DEF Kept, Typed, TypeOK
  <2>2. ASSUME NEW q \in Procs, ServiceStopEnd(q) PROVE Said
    <3>1. left' = [left EXCEPT ![q] = "production-left-offline"] /\ service' = "off"
      BY <2>2 DEF ServiceStopEnd, EndUnit, Stopped
    <3> QED BY <1>1, <2>l, <2>2, <3>1 DEF Kept, Typed, TypeOK
  <2>3. ASSUME left' = left PROVE Said
    BY <2>3
  <2> QED BY <1>1, <2>1, <2>2, <2>3
          DEF Next, Step, TakeLock, LockBusy, RestoreOnly, InspectExl, DockerStop, Phase,
              RestartStops, RestartStarts, ServiceStop, StartExl, Wait, Measure, TooShort, Logs,
              Complete, Except, IgnoreTerm, ServiceStart, Raise, RaiseByAccident, Interrupt, Throw,
              Kill, ServiceUp, Removed, ExlCrash, vars, script
<1>2. Kept /\ Kept' /\ [Next]_vars => [Said]_vars
  BY <1>1
<1> QED BY <1>2, KeptHolds, PTL DEF Spec, LeftAsSaid
==============================================================================
