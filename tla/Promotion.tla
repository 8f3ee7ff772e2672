------------------------------ MODULE Promotion ------------------------------
(***************************************************************************)
(* promote-exl3-review-release.py: replace the configuration of the        *)
(* permanent service by a reviewed release, start it, restart it, and put  *)
(* the saved release back when anything fails.                             *)
(*                                                                         *)
(* main() is a sequence of steps; any of them may raise (an assertion, a   *)
(* command that fails or times out, a full disk, Ctrl-C), which leads to   *)
(* the except clause, and from there to the recovery in the finally clause *)
(* unless `success` was set.  SIGKILL, SIGTERM or a power loss may end the *)
(* script anywhere, without either clause.                                 *)
(***************************************************************************)
EXTENDS ProductionService

CONSTANTS MaxAttempts,  \* bound on the runs of the script
          MaxFaults,    \* bound on the steps that raise by accident
          MaxKills      \* bound on kills and power losses

ASSUME BoundsAssumption ==
    /\ MaxAttempts \in Nat /\ MaxFaults \in Nat /\ MaxKills \in Nat
    /\ MaxStuck \in Nat /\ MaxCrashes \in Nat

VARIABLES
    mode,        \* where the script is: idle, body, except, recover, exit, dead
    at,          \* the step of Body or Recovery it is about to take
    attempt,     \* number of this run of the script
    original,    \* original_config and original_env
    verified,    \* state['stages']: container ids verify() has accepted
    success,     \* the local variable
    receipt,     \* attempt -> status in its promotion.json
    startReceipt,\* attempt named by production_image.json, 0 for none
    faults, kills

scriptVars == <<mode, at, attempt, original, verified, success, receipt, startReceipt, faults, kills>>
vars == <<files, tagged, serviceVars, scriptVars>>

\* Rewriting a file in place truncates it first: two steps.
UnstoppedBody ==                                         \* mutants of Body
         <<"tag", "open policy", "policy", "open sha", "sha", "image",
          "open env", "env", "check", "start", "ready", "verify",
          "stop", "start", "ready", "verify restart", "pass", "link", "commit", "report">>
UnreportedBody ==
         <<"stop", "gone", "tag", "open policy", "policy", "open sha", "sha", "image",
          "open env", "env", "check", "start", "ready", "verify",
          "stop", "start", "ready", "verify restart", "pass", "link", "commit">>
Body == <<"stop", "gone", "tag", "open policy", "policy", "open sha", "sha", "image",
          "open env", "env", "check", "start", "ready", "verify",
          "stop", "start", "ready", "verify restart", "pass", "link", "commit", "report">>

NoShaRecovery == <<"stop", "open policy", "policy", "open image", "image",
                   "open env", "env", "start", "ready", "recovered">>    \* mutants of Recovery
UnstoppedRecovery == <<"open policy", "policy", "open sha", "sha", "open image", "image",
                       "open env", "env", "start", "ready", "recovered">>
Recovery == <<"stop", "open policy", "policy", "open sha", "sha", "open image", "image",
              "open env", "env", "start", "ready", "recovered">>

Statuses == {"none", "PROMOTION_IN_PROGRESS", "PASS_STRICT_PRODUCTION_DEPLOYMENT_AND_RESTART",
             "FAILED_RECOVERY_REQUIRED", "FAILED_SAVED_RELEASE_RECOVERED"}
PASS == "PASS_STRICT_PRODUCTION_DEPLOYMENT_AND_RESTART"
RECOVERED == "FAILED_SAVED_RELEASE_RECOVERED"
REQUIRED == "FAILED_RECOVERY_REQUIRED"

OpenStep == [policy |-> "open policy", sha |-> "open sha", image |-> "open image", env |-> "open env"]
Plan == IF mode = "body" THEN Body ELSE Recovery
On(step) == mode \in {"body", "recover"} /\ Plan[at] = step
Target == IF mode = "body" THEN "new" ELSE "old"
Content(f) == IF mode = "body" THEN "new" ELSE original[f]

AnyImageUp == container # None                           \* mutant of Healthy
Healthy == Serving(Target)

Advance ==
    /\ at' = at + 1
    /\ UNCHANGED <<mode, attempt, original, faults, kills>>
KeepsReceipts == UNCHANGED <<receipt, startReceipt>>
KeepsLocals == UNCHANGED <<verified, success>>
KeepsService == UNCHANGED serviceVars
KeepsDisk == UNCHANGED <<files, tagged>>

Init ==
    /\ ServiceInit
    /\ mode = "idle" /\ at = 1 /\ attempt = 0
    /\ original = files /\ verified = <<>> /\ success = FALSE
    /\ receipt = [a \in 1..MaxAttempts |-> "none"] /\ startReceipt = 0
    /\ faults = 0 /\ kills = 0

(***************************************************************************)
(* The checks up to the first save.  They have no effect, so a run they    *)
(* refuse is not a step.                                                   *)
(***************************************************************************)
Begin ==
    /\ mode \in {"idle", "exit", "dead"}
    /\ attempt < MaxAttempts
    /\ files["image"] = "old"
    /\ mode' = "body" /\ at' = 1
    /\ attempt' = attempt + 1
    /\ original' = files
    /\ receipt' = [receipt EXCEPT ![attempt + 1] = "PROMOTION_IN_PROGRESS"]
    /\ verified' = <<>> /\ success' = FALSE
    /\ UNCHANGED <<startReceipt, faults, kills, files, tagged>>
    /\ KeepsService

Stop ==
    /\ On("stop") /\ SystemctlStop /\ Advance
    /\ KeepsDisk /\ KeepsReceipts /\ KeepsLocals

AssertGone ==
    /\ On("gone") /\ container = None /\ Advance
    /\ KeepsDisk /\ KeepsReceipts /\ KeepsLocals /\ KeepsService

Tag ==
    /\ On("tag") /\ tagged' = TRUE /\ Advance
    /\ UNCHANGED files /\ KeepsReceipts /\ KeepsLocals /\ KeepsService

\* copyfile, write_text and write_bytes open for writing; unlink does not.
Truncate(f) ==
    /\ On(OpenStep[f])
    /\ files' = (IF Content(f) = "absent" THEN files ELSE [files EXCEPT ![f] = "torn"])
    /\ Advance
    /\ UNCHANGED tagged /\ KeepsReceipts /\ KeepsLocals /\ KeepsService

Fill(f) ==
    /\ On(f)
    /\ files' = [files EXCEPT ![f] = Content(f)]
    /\ startReceipt' = (IF f = "image" THEN 0 ELSE startReceipt)
    /\ Advance
    /\ UNCHANGED <<tagged, receipt>> /\ KeepsLocals /\ KeepsService

CheckOnly ==
    /\ On("check") /\ FilesConsistent /\ Advance
    /\ KeepsDisk /\ KeepsReceipts /\ KeepsLocals /\ KeepsService

Start ==
    /\ On("start") /\ SystemctlStart /\ Advance
    /\ KeepsDisk /\ KeepsReceipts /\ KeepsLocals

\* wait_for_qualified_service returns.
Ready ==
    /\ On("ready") /\ Healthy /\ Advance
    /\ KeepsDisk /\ KeepsReceipts /\ KeepsLocals /\ KeepsService

Verify ==
    /\ On("verify") /\ Healthy /\ Advance
    /\ verified' = Append(verified, container.id)
    /\ UNCHANGED success /\ KeepsDisk /\ KeepsReceipts /\ KeepsService

SameContainer == FALSE                                   \* mutant of StaleContainer
StaleContainer == container.id = verified[1]
VerifyRestart ==
    /\ On("verify restart") /\ Healthy /\ ~StaleContainer /\ Advance
    /\ verified' = Append(verified, container.id)
    /\ UNCHANGED success /\ KeepsDisk /\ KeepsReceipts /\ KeepsService

SavePass ==
    /\ On("pass") /\ Advance
    /\ receipt' = [receipt EXCEPT ![attempt] = PASS]
    /\ UNCHANGED startReceipt /\ KeepsDisk /\ KeepsLocals /\ KeepsService

\* Rewrites production_image.json atomically, with the receipt's hash.
LinkReceipt ==
    /\ On("link") /\ Advance
    /\ startReceipt' = attempt
    /\ UNCHANGED receipt /\ KeepsDisk /\ KeepsLocals /\ KeepsService

Commit ==
    /\ On("commit") /\ Advance
    /\ success' = TRUE
    /\ UNCHANGED verified /\ KeepsDisk /\ KeepsReceipts /\ KeepsService

Report ==
    /\ On("report")
    /\ mode' = "exit"
    /\ UNCHANGED <<at, attempt, original, faults, kills>>
    /\ KeepsDisk /\ KeepsReceipts /\ KeepsLocals /\ KeepsService

SaveRecovered ==
    /\ On("recovered")
    /\ receipt' = [receipt EXCEPT ![attempt] = RECOVERED]
    /\ mode' = "exit"
    /\ UNCHANGED <<at, attempt, original, faults, kills, startReceipt>>
    /\ KeepsDisk /\ KeepsLocals /\ KeepsService

(***************************************************************************)
(* Exceptions.  The steps that assert or wait raise by themselves when     *)
(* what they look for is not there; the deadline of a wait passes while    *)
(* the launcher is not about to bring a container up.                      *)
(***************************************************************************)
NoDeadline == FALSE                                      \* mutant of NotComing
NotComing == container = None /\ (unit # "starting" \/ ~FilesConsistent \/ files["env"] = "torn")
Refused ==
    \/ On("gone") /\ container # None
    \/ On("check") /\ ~FilesConsistent
    \/ On("ready") /\ ~Healthy /\ (container # None \/ NotComing)
    \/ On("verify") /\ ~Healthy
    \/ On("verify restart") /\ (~Healthy \/ StaleContainer)

LeaveClause ==
    /\ mode' = (IF mode = "body" THEN "except" ELSE "exit")
    /\ UNCHANGED <<at, attempt, original, kills>>
    /\ KeepsDisk /\ KeepsReceipts /\ KeepsLocals /\ KeepsService

RaiseRefused == Refused /\ LeaveClause /\ UNCHANGED faults

RaiseByAccident ==
    /\ mode \in {"body", "recover"} /\ faults < MaxFaults
    /\ faults' = faults + 1
    /\ LeaveClause

\* The except clause; its own save() may raise, the finally clause follows.
Finally == mode' = (IF success THEN "exit" ELSE "recover")

SaveFailed ==
    /\ mode = "except"
    /\ \/ /\ receipt' = [receipt EXCEPT ![attempt] = REQUIRED]
          /\ UNCHANGED faults
       \/ /\ faults < MaxFaults
          /\ faults' = faults + 1
          /\ UNCHANGED receipt
    /\ Finally /\ at' = 1
    /\ UNCHANGED <<attempt, original, kills, startReceipt>>
    /\ KeepsDisk /\ KeepsLocals /\ KeepsService

Kill ==
    /\ mode \in {"body", "except", "recover"} /\ kills < MaxKills
    /\ kills' = kills + 1
    /\ mode' = "dead"
    /\ UNCHANGED <<at, attempt, original, faults>>
    /\ KeepsDisk /\ KeepsReceipts /\ KeepsLocals /\ KeepsService

PowerLoss ==
    /\ kills < MaxKills
    /\ kills' = kills + 1
    /\ mode' = (IF mode \in {"body", "except", "recover"} THEN "dead" ELSE mode)
    /\ Boot
    /\ UNCHANGED <<at, attempt, original, faults>>
    /\ KeepsDisk /\ KeepsReceipts /\ KeepsLocals

Step ==
    \/ Stop \/ AssertGone \/ Tag \/ CheckOnly \/ Start \/ Ready \/ Verify
    \/ \E f \in Files : Truncate(f) \/ Fill(f)
    \/ VerifyRestart \/ SavePass \/ LinkReceipt \/ Commit \/ Report \/ SaveRecovered
    \/ RaiseRefused \/ SaveFailed

Service == ServiceNext /\ UNCHANGED scriptVars

Next == Begin \/ Step \/ RaiseByAccident \/ Kill \/ PowerLoss \/ Service

Spec == Init /\ [][Next]_vars
\* The script goes on, and systemd and the launcher do too.
FairSpec == Spec /\ WF_vars(Step) /\ WF_vars(LauncherNext /\ UNCHANGED scriptVars)

-----------------------------------------------------------------------------
\* Types, and the step counter stays inside the plan it counts through.
TypeOK ==
    /\ ServiceTypeOK
    /\ mode \in {"idle", "body", "except", "recover", "exit", "dead"}
    /\ attempt \in 0..MaxAttempts /\ at \in Nat
    /\ mode \in {"body", "recover"} => at \in 1..Len(Plan) /\ attempt \in 1..MaxAttempts
    /\ original \in [Files -> Contents]
    /\ verified \in Seq(Nat) /\ success \in BOOLEAN
    /\ receipt \in [1..MaxAttempts -> Statuses]
    /\ startReceipt \in 0..MaxAttempts
    /\ faults \in Nat /\ kills \in Nat

\* The unit never runs a release other than the one its configuration names:
\* the launcher reads the files while nobody rewrites them, and they are
\* rewritten only while the unit is stopped -- also after a kill, a power
\* loss, a crash, or a stop that left the container behind.
RunningMatchesConfig ==
    unit = "up" => /\ container.image \in Releases
                   /\ \A f \in {"policy", "sha", "image"} : files[f] = container.image
                   /\ EnvMayFit(files["env"], container.image)

\* A promotion that reports a pass has verified the new release in two
\* different containers, whatever a failed stop left running, and one that
\* committed leaves the whole new release with its start receipt.
PassMeansRestarted ==
    /\ attempt > 0 /\ receipt[attempt] = PASS =>
          Len(verified) = 2 /\ verified[1] # verified[2]
    /\ success => /\ \A f \in Files : files[f] = "new"
                  /\ startReceipt = attempt

\* A promotion that reports the saved release recovered has put back every
\* file it found, and no container of the other release is left running.
RecoveredMeansRestored ==
    mode = "exit" /\ receipt[attempt] = RECOVERED =>
       /\ files = original /\ startReceipt = 0
       /\ container # None => container.image = "old"

\* When a run that found the saved release whole fails in its body, and nothing
\* else goes wrong after that -- no kill, no stop that leaves its container --
\* the saved release serves again (or the operator has begun another run).
FailureServesSaved ==
    (mode = "recover" /\ faults = MaxFaults /\ \A f \in Files : original[f] = "old")
       ~> (Serving("old") \/ kills > 0 \/ stuck > 0 \/ mode = "body")

\* Every run of the script that is not killed ends: whatever configuration it
\* captured and put back, no wait for the service lasts for ever.
AttemptEnds == mode = "body" ~> mode \in {"exit", "dead"}

\* What docs/EXL3_RELEASE_V2_REPORT.md promises: "A failed deployment
\* automatically restores v1 configuration and the local environment."
FailureRestores ==
    mode = "exit" /\ receipt[attempt] \in {REQUIRED, RECOVERED} => files = original

\* What the script's docstring promises: "recover the saved release on
\* failure", and what the status it ends with says.
RecoveredIsSaved ==
    mode = "exit" /\ receipt[attempt] = RECOVERED =>
       \A f \in Files \ {"env"} : files[f] = "old"
==============================================================================
