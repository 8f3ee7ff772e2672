--------------------------- MODULE PromotionProofs ---------------------------
(***************************************************************************)
(* The unit never runs a release other than the one its configuration      *)
(* names, and the receipts tell the truth, for every number of attempts,   *)
(* exceptions, kills, crashes and stops that leave the container.          *)
(*                                                                         *)
(* RunningMatchesConfig is not inductive: the launcher's earlier reads     *)
(* must still be what is on disk (ReadsCurrent), and they are because the  *)
(* script is at a step that writes only while the unit is inactive         *)
(* (WritesOffline).                                                        *)
(***************************************************************************)
EXTENDS Promotion, TLAPS

ReadsCurrent ==
    /\ seen \in Seq(Contents) /\ Len(seen) <= 4
    /\ unit # "starting" => seen = <<>>
    /\ unit = "starting" => \A i \in 1..Len(seen) : seen[i] = files[ReadOrder[i]]

\* From the step after stop to the step that starts the unit again.
OfflineSteps == IF mode = "body" THEN 2..12 ELSE 2..10
WritesOffline ==
    mode \in {"body", "recover"} =>
       /\ at \in 1..Len(Plan)
       /\ at \in OfflineSteps => unit = "inactive"

FilesInv == files \in [Files -> Contents] /\ original \in [Files -> Contents]
UnitInv == unit \in {"inactive", "starting", "up", "cooldown"}

IInv ==
    /\ FilesInv /\ UnitInv /\ ReadsCurrent /\ WritesOffline /\ RunningMatchesConfig

WriteSteps == {"policy", "sha", "image", "env",
               "open policy", "open sha", "open image", "open env"}

\* Where the two plans write: never before the stop, never after the start.
LEMMA PlansWriteOffline ==
    ASSUME WritesOffline, mode \in {"body", "recover"}, Plan[at] \in WriteSteps
    PROVE  at \in OfflineSteps /\ at + 1 \in OfflineSteps
<1>1. CASE mode = "body"
  <2>1. Len(Plan) = 22 /\ at \in 1..22
    BY <1>1 DEF Plan, Body, WritesOffline
  <2>2. Body[at] \in WriteSteps
    BY <1>1 DEF Plan
  <2>3. /\ Body[1] = "stop" /\ Body[2] = "gone" /\ Body[3] = "tag"
        /\ Body[11] = "check" /\ Body[12] = "start" /\ Body[13] = "ready" /\ Body[14] = "verify"
        /\ Body[15] = "stop" /\ Body[16] = "start" /\ Body[17] = "ready"
        /\ Body[18] = "verify restart" /\ Body[19] = "pass" /\ Body[20] = "link"
        /\ Body[21] = "commit" /\ Body[22] = "report"
    BY DEF Body
  <2>5. at \in 4..10 \/ at \in {1, 2, 3, 11, 12, 13, 14, 15, 16, 17, 18, 19, 20, 21, 22}
    BY <2>1
  <2>4. at \in 4..10
    BY <2>2, <2>3, <2>5 DEF WriteSteps
  <2> QED BY <2>4, <1>1 DEF OfflineSteps
<1>2. CASE mode = "recover"
  <2>1. Len(Plan) = 12 /\ at \in 1..12
    BY <1>2 DEF Plan, Recovery, WritesOffline
  <2>2. Recovery[at] \in WriteSteps
    BY <1>2 DEF Plan
  <2>3. /\ Recovery[1] = "stop" /\ Recovery[10] = "start" /\ Recovery[11] = "ready"
        /\ Recovery[12] = "recovered"
    BY DEF Recovery
  <2>5. at \in 2..9 \/ at \in {1, 10, 11, 12}
    BY <2>1
  <2>4. at \in 2..9
    BY <2>2, <2>3, <2>5 DEF WriteSteps
  <2> QED BY <2>4, <1>2 DEF OfflineSteps
<1> QED BY <1>1, <1>2

LEMMA PlanEnds ==
    /\ mode = "body" => /\ Len(Plan) = 22 /\ Plan[1] = "stop" /\ Plan[12] = "start"
                        /\ Plan[22] = "report"
    /\ mode = "recover" => /\ Len(Plan) = 12 /\ Plan[1] = "stop" /\ Plan[10] = "start"
                           /\ Plan[12] = "recovered"
<1>1. Len(Body) = 22 /\ Body[1] = "stop" /\ Body[12] = "start" /\ Body[22] = "report"
  BY DEF Body
<1>2. /\ Len(Recovery) = 12 /\ Recovery[1] = "stop" /\ Recovery[10] = "start"
      /\ Recovery[12] = "recovered"
  BY DEF Recovery
<1> QED BY <1>1, <1>2 DEF Plan

\* A step of either plan that advances keeps WritesOffline, when it leaves
\* the unit as it is or inactive, or is the start itself.
LEMMA AdvanceKeepsOffline ==
    ASSUME WritesOffline, mode \in {"body", "recover"}, Advance,
           Plan[at] \notin {"report", "recovered"},
           \/ unit' = "inactive"
           \/ unit' = unit /\ Plan[at] # "stop"
           \/ Plan[at] = "start"
    PROVE  WritesOffline'
<1>1. at' = at + 1 /\ mode' = mode
  BY DEF Advance
<1>2. Plan' = Plan /\ OfflineSteps' = OfflineSteps
  BY <1>1 DEF Plan, OfflineSteps
<1>3. CASE mode = "body"
  <2>1. at \in 1..22 /\ at # 22 /\ (at \in 2..12 => unit = "inactive")
    BY <1>3, PlanEnds DEF WritesOffline, OfflineSteps
  <2>2. at' \in 1..22 /\ (at' \in 2..12 => at = 1 \/ at \in 2..11)
    BY <1>1, <2>1
  <2>3. CASE at' \in 2..12
    <3>2. Plan[at] # "start"
      <4>1. /\ Body[1] = "stop" /\ Body[2] = "gone" /\ Body[3] = "tag" /\ Body[4] = "open policy"
            /\ Body[5] = "policy" /\ Body[6] = "open sha" /\ Body[7] = "sha" /\ Body[8] = "image"
            /\ Body[9] = "open env" /\ Body[10] = "env" /\ Body[11] = "check"
        BY DEF Body
      <4>2. at \in {1, 2, 3, 4, 5, 6, 7, 8, 9, 10, 11}
        BY <2>2, <2>3
      <4> QED BY <4>1, <4>2, <1>3 DEF Plan
    <3>3. unit' = "inactive"
      BY <3>2, <2>1, <2>2, <2>3, <1>3, PlanEnds
    <3> QED BY <3>3, <2>2, <1>1, <1>2, <1>3, PlanEnds DEF WritesOffline
  <2>4. CASE at' \notin 2..12
    BY <2>4, <2>2, <1>1, <1>2, <1>3, PlanEnds DEF WritesOffline, OfflineSteps
  <2> QED BY <2>3, <2>4
<1>4. CASE mode = "recover"
  <2>1. at \in 1..12 /\ at # 12 /\ (at \in 2..10 => unit = "inactive")
    BY <1>4, PlanEnds DEF WritesOffline, OfflineSteps
  <2>2. at' \in 1..12 /\ (at' \in 2..10 => at = 1 \/ at \in 2..9)
    BY <1>1, <2>1
  <2>3. CASE at' \in 2..10
    <3>2. Plan[at] # "start"
      <4>1. /\ Recovery[1] = "stop" /\ Recovery[2] = "open policy" /\ Recovery[3] = "policy"
            /\ Recovery[4] = "open sha" /\ Recovery[5] = "sha" /\ Recovery[6] = "open image"
            /\ Recovery[7] = "image" /\ Recovery[8] = "open env" /\ Recovery[9] = "env"
        BY DEF Recovery
      <4>2. at \in {1, 2, 3, 4, 5, 6, 7, 8, 9}
        BY <2>2, <2>3
      <4> QED BY <4>1, <4>2, <1>4 DEF Plan
    <3>3. unit' = "inactive"
      BY <3>2, <2>1, <2>2, <2>3, <1>4, PlanEnds
    <3> QED BY <3>3, <2>2, <1>1, <1>2, <1>4, PlanEnds DEF WritesOffline
  <2>4. CASE at' \notin 2..10
    BY <2>4, <2>2, <1>1, <1>2, <1>4, PlanEnds DEF WritesOffline, OfflineSteps
  <2> QED BY <2>3, <2>4
<1> QED BY <1>3, <1>4

\* What the launcher has agreed to, it agreed to of the files on disk.
LEMMA AgreedFilesAreOnDisk ==
    ASSUME FilesInv, ReadsCurrent, unit = "starting", SeenConsistent
    PROVE  /\ seen[4] \in Releases
           /\ \A f \in {"policy", "sha", "image"} : files[f] = seen[4]
           /\ EnvMayFit(files["env"], seen[4])
<1>1. ReadOrder[1] = "env" /\ ReadOrder[2] = "policy" /\ ReadOrder[3] = "sha"
      /\ ReadOrder[4] = "image" /\ Len(ReadOrder) = 4
  BY DEF ReadOrder
<1>2. Len(seen) = 4
  BY <1>1 DEF SeenConsistent, SeenAll
<1>3. \A i \in 1..4 : seen[i] = files[ReadOrder[i]]
  BY <1>2 DEF ReadsCurrent
<1>4. seen[1] = files["env"] /\ seen[2] = files["policy"] /\ seen[3] = files["sha"]
      /\ seen[4] = files["image"]
  BY <1>1, <1>3
<1>5. Consistent(seen[1], seen[2], seen[3], seen[4])
  BY DEF SeenConsistent
<1>6. seen[2] \in Releases /\ seen[3] = seen[2] /\ seen[4] = seen[2] /\ EnvMayFit(seen[1], seen[4])
  BY <1>5 DEF Consistent
<1> QED BY <1>4, <1>6

DiskInv == FilesInv /\ UnitInv /\ ReadsCurrent /\ RunningMatchesConfig

LEMMA DiskFrame ==
    ASSUME DiskInv, UNCHANGED <<files, original, unit, seen, container>>
    PROVE  DiskInv'
BY DEF DiskInv, FilesInv, UnitInv, ReadsCurrent, RunningMatchesConfig, EnvMayFit

\* With the unit stopped, the files may be rewritten.
LEMMA InactiveKeepsDisk ==
    ASSUME DiskInv, FilesInv', unit' = "inactive", seen' = <<>>
    PROVE  DiskInv'
BY DEF DiskInv, UnitInv, ReadsCurrent, RunningMatchesConfig

LEMMA StartKeepsDisk ==
    ASSUME DiskInv, SystemctlStart, UNCHANGED <<files, original>>
    PROVE  DiskInv'
<1>1. seen' = seen /\ container' = container /\ unit' \in {unit, "starting"}
  BY DEF SystemctlStart
<1>2. CASE unit' = unit
  BY <1>1, <1>2, DiskFrame
<1>3. CASE unit' # unit
  <2>1. unit \in {"inactive", "cooldown"} /\ unit' = "starting"
    BY <1>3 DEF SystemctlStart
  <2>2. seen' = <<>>
    BY <2>1, <1>1 DEF DiskInv, ReadsCurrent
  <2> QED BY <2>1, <2>2 DEF DiskInv, FilesInv, UnitInv, ReadsCurrent, RunningMatchesConfig
<1> QED BY <1>2, <1>3

LEMMA ServiceKeepsIInv ==
    ASSUME IInv, ServiceNext, UNCHANGED scriptVars
    PROVE  IInv'
<1> USE DEF IInv
<1>1. UNCHANGED <<mode, at, attempt, original>> /\ FilesInv'
  <2>1. files' = files
    BY DEF ServiceNext, LauncherNext, ReadFile, Launch, Refuse, AutoRestart, Crash
  <2> QED BY <2>1 DEF scriptVars, FilesInv
<1>2. WritesOffline'
  <2>1. unit = "inactive" => unit' = "inactive"
    BY DEF ServiceNext, LauncherNext, ReadFile, Launch, Refuse, AutoRestart, Crash
  <2> QED BY <2>1, <1>1 DEF WritesOffline, OfflineSteps, Plan
<1>3. CASE ReadFile
  <2>1. /\ unit = "starting" /\ unit' = unit /\ files' = files
        /\ seen' = Append(seen, files[ReadOrder[Len(seen) + 1]])
    BY <1>3 DEF ReadFile
  <2>2. Len(ReadOrder) = 4 /\ \A i \in 1..4 : ReadOrder[i] \in Files
    BY DEF ReadOrder, Files
  <2>3. Len(seen) \in 0..3 /\ Len(seen) + 1 \in 1..4
    <3>1. Len(seen) \in Nat /\ Len(seen) <= 4
      BY DEF ReadsCurrent
    <3>2. Len(seen) # 4
      BY <1>3, <2>2 DEF ReadFile, SeenAll
    <3>3. \A n \in Nat : n <= 4 /\ n # 4 => n \in 0..3 /\ n + 1 \in 1..4
      OBVIOUS
    <3> QED BY <3>1, <3>2, <3>3
  <2>4. files[ReadOrder[Len(seen) + 1]] \in Contents
    <3>1. ReadOrder[Len(seen) + 1] \in Files
      BY <2>2, <2>3
    <3> QED BY <3>1 DEF FilesInv
  <2>5. /\ seen' \in Seq(Contents) /\ Len(seen') = Len(seen) + 1
        /\ \A i \in 1..Len(seen) : seen'[i] = seen[i]
        /\ seen'[Len(seen) + 1] = files[ReadOrder[Len(seen) + 1]]
    BY <2>1, <2>3, <2>4 DEF ReadsCurrent
  <2>6. ReadsCurrent'
    <3>1. \A i \in 1..Len(seen') : seen'[i] = files'[ReadOrder[i]]
      BY <2>1, <2>3, <2>5 DEF ReadsCurrent
    <3> QED BY <3>1, <2>1, <2>3, <2>5 DEF ReadsCurrent
  <2>7. UnitInv' /\ RunningMatchesConfig'
    BY <2>1 DEF UnitInv, RunningMatchesConfig
  <2> QED BY <2>6, <2>7, <1>1, <1>2
<1>4. CASE Launch
  <2>1. /\ unit = "starting" /\ SeenConsistent /\ unit' = "up" /\ seen' = <<>>
        /\ files' = files /\ container'.image = seen[4]
    BY <1>4 DEF Launch
  <2>2. RunningMatchesConfig'
    BY <2>1, AgreedFilesAreOnDisk DEF RunningMatchesConfig, EnvMayFit
  <2>3. ReadsCurrent' /\ UnitInv'
    BY <2>1 DEF ReadsCurrent, UnitInv
  <2> QED BY <2>2, <2>3, <1>1, <1>2
<1>5. CASE Refuse
  BY <1>5, <1>1, <1>2 DEF Refuse, ReadsCurrent, UnitInv, RunningMatchesConfig
<1>6. CASE AutoRestart
  BY <1>6, <1>1, <1>2 DEF AutoRestart, ReadsCurrent, UnitInv, RunningMatchesConfig
<1>7. CASE Crash
  BY <1>7, <1>1, <1>2 DEF Crash, ReadsCurrent, UnitInv, RunningMatchesConfig
<1> QED BY <1>3, <1>4, <1>5, <1>6, <1>7 DEF ServiceNext, LauncherNext

LEMMA WriteKeepsIInv ==
    ASSUME IInv, NEW f \in Files, Truncate(f) \/ Fill(f)
    PROVE  IInv'
<1> USE DEF IInv
<1>1. /\ mode \in {"body", "recover"} /\ Plan[at] \in WriteSteps
      /\ Plan[at] \notin {"stop", "report", "recovered"}
  <2>1. mode \in {"body", "recover"} /\ Plan[at] \in {f, OpenStep[f]}
    BY DEF Truncate, Fill, On
  <2>2. f \in WriteSteps /\ OpenStep[f] \in WriteSteps
    <3>1. f \in {"env", "policy", "sha", "image"}
      BY DEF Files
    <3>2. /\ OpenStep["env"] = "open env" /\ OpenStep["policy"] = "open policy"
          /\ OpenStep["sha"] = "open sha" /\ OpenStep["image"] = "open image"
      BY DEF OpenStep
    <3> QED BY <3>1, <3>2 DEF WriteSteps
  <2>3. \A s \in WriteSteps : s \notin {"stop", "report", "recovered"}
    BY DEF WriteSteps
  <2> QED BY <2>1, <2>2, <2>3
<1>2. Advance /\ UNCHANGED <<original, unit, seen, container>>
  BY DEF Truncate, Fill, Advance, KeepsService, serviceVars
<1>3. unit = "inactive"
  BY <1>1, PlansWriteOffline DEF WritesOffline
<1>4. Content(f) \in Contents
  BY DEF Content, FilesInv, Contents, Releases
<1>5. FilesInv'
  <2>1. files' = files \/ \E c \in Contents : files' = [files EXCEPT ![f] = c]
    BY <1>4 DEF Truncate, Fill, Contents
  <2> QED BY <2>1, <1>2 DEF FilesInv
<1>6. WritesOffline'
  BY <1>1, <1>2, AdvanceKeepsOffline
<1>7. DiskInv'
  BY <1>2, <1>3, <1>5, InactiveKeepsDisk DEF DiskInv, ReadsCurrent
<1> QED BY <1>6, <1>7 DEF DiskInv

LEMMA InitIInv == Init => IInv
<1> SUFFICES ASSUME Init PROVE IInv
  OBVIOUS
<1>1. PICK e \in {"old", "absent"} : files = [f \in Files |-> IF f = "env" THEN e ELSE "old"]
  BY DEF Init, ServiceInit
<1>2. FilesInv
  BY <1>1 DEF Init, FilesInv, Contents, Releases
<1>3. ReadsCurrent /\ UnitInv /\ WritesOffline
  BY DEF Init, ServiceInit, ReadsCurrent, UnitInv, WritesOffline
<1>4. RunningMatchesConfig
  BY <1>1 DEF Init, ServiceInit, RunningMatchesConfig, Files, Releases, EnvMayFit
<1> QED BY <1>2, <1>3, <1>4 DEF IInv

LEMMA NextIInv == IInv /\ [Next]_vars => IInv'
<1> SUFFICES ASSUME IInv, [Next]_vars PROVE IInv'
  OBVIOUS
<1> USE DEF IInv
<1>d. DiskInv
  BY DEF DiskInv
<1>1. CASE Begin
  <2>1. mode' = "body" /\ at' = 1 /\ original' = files
        /\ UNCHANGED <<files, unit, seen, container>>
    BY <1>1 DEF Begin, KeepsService, serviceVars
  <2>2. FilesInv'
    BY <2>1 DEF FilesInv
  <2>3. ReadsCurrent' /\ UnitInv' /\ RunningMatchesConfig'
    BY <2>1 DEF ReadsCurrent, UnitInv, RunningMatchesConfig, EnvMayFit
  <2>4. Len(Body) = 22
    BY DEF Body
  <2>5. WritesOffline'
    BY <2>1, <2>4 DEF WritesOffline, OfflineSteps, Plan
  <2> QED BY <2>2, <2>3, <2>5
<1>2. CASE Stop
  <2>1. /\ mode \in {"body", "recover"} /\ Plan[at] = "stop" /\ Advance
        /\ unit' = "inactive" /\ seen' = <<>> /\ UNCHANGED <<files, original>>
    BY <1>2 DEF Stop, On, SystemctlStop, Advance, KeepsDisk
  <2>2. FilesInv'
    BY <2>1 DEF FilesInv
  <2> QED BY <2>1, <2>2, <1>d, InactiveKeepsDisk, AdvanceKeepsOffline DEF DiskInv
<1>3. CASE Start
  <2>1. /\ mode \in {"body", "recover"} /\ Plan[at] = "start" /\ Advance
        /\ SystemctlStart /\ UNCHANGED <<files, original>>
    BY <1>3 DEF Start, On, Advance, KeepsDisk
  <2> QED BY <2>1, <1>d, StartKeepsDisk, AdvanceKeepsOffline DEF DiskInv
<1>4. CASE \/ AssertGone \/ Tag \/ CheckOnly \/ Ready \/ Verify \/ VerifyRestart
           \/ SavePass \/ LinkReceipt \/ Commit
  <2>1. /\ mode \in {"body", "recover"} /\ Advance
        /\ Plan[at] \notin {"stop", "report", "recovered"}
        /\ UNCHANGED <<files, original, unit, seen, container>>
    BY <1>4 DEF AssertGone, Tag, CheckOnly, Ready, Verify, VerifyRestart, SavePass, LinkReceipt,
                Commit, On, Advance, KeepsDisk, KeepsService, serviceVars
  <2> QED BY <2>1, <1>d, DiskFrame, AdvanceKeepsOffline DEF DiskInv
<1>5. CASE \E f \in Files : Truncate(f) \/ Fill(f)
  BY <1>5, WriteKeepsIInv
<1>6. CASE Report \/ SaveRecovered \/ RaiseRefused \/ RaiseByAccident \/ Kill
  <2>1. mode' \in {"except", "exit", "dead"} /\ UNCHANGED <<files, original, unit, seen, container>>
    BY <1>6 DEF Report, SaveRecovered, RaiseRefused, RaiseByAccident, Kill, LeaveClause,
                KeepsDisk, KeepsService, serviceVars
  <2> QED BY <2>1, <1>d, DiskFrame DEF DiskInv, WritesOffline
<1>7. CASE SaveFailed
  <2>1. mode' \in {"recover", "exit"} /\ at' = 1 /\ UNCHANGED <<files, original, unit, seen, container>>
    BY <1>7 DEF SaveFailed, Finally, KeepsDisk, KeepsService, serviceVars
  <2>2. Len(Recovery) = 12
    BY DEF Recovery
  <2>3. WritesOffline'
    <3>1. mode' = "recover" => Plan' = Recovery /\ OfflineSteps' = 2..10
      BY DEF Plan, OfflineSteps
    <3>2. mode' # "body"
      BY <2>1
    <3> QED BY <2>1, <2>2, <3>1, <3>2 DEF WritesOffline
  <2> QED BY <2>1, <2>3, <1>d, DiskFrame DEF DiskInv
<1>8. CASE PowerLoss
  <2>1. /\ mode' \notin {"body", "recover"} /\ unit' = "starting" /\ seen' = <<>>
        /\ UNCHANGED <<files, original>>
    BY <1>8 DEF PowerLoss, Boot, KeepsDisk
  <2> QED BY <2>1 DEF FilesInv, UnitInv, ReadsCurrent, WritesOffline, RunningMatchesConfig
<1>9. CASE Service
  BY <1>9, ServiceKeepsIInv DEF Service
<1>10. CASE UNCHANGED vars
  <2>1. UNCHANGED <<mode, at, files, original, unit, seen, container>>
    BY <1>10 DEF vars, serviceVars, scriptVars
  <2>2. WritesOffline'
    BY <2>1 DEF WritesOffline, OfflineSteps, Plan
  <2> QED BY <2>1, <2>2, <1>d, DiskFrame DEF DiskInv
<1> QED BY <1>1, <1>2, <1>3, <1>4, <1>5, <1>6, <1>7, <1>8, <1>9, <1>10 DEF Next, Step

\* The service never runs a release other than the one its configuration
\* names, whatever fails, is killed or crashes, and however often.
THEOREM NeverRunsAMixture == Spec => []RunningMatchesConfig
<1>1. IInv => RunningMatchesConfig
  BY DEF IInv
<1> QED BY InitIInv, NextIInv, <1>1, PTL DEF Spec

-----------------------------------------------------------------------------
(***************************************************************************)
(* The receipts tell the truth: a pass was verified in two containers, a   *)
(* committed promotion left the whole new release, and a reported recovery *)
(* put back what it had found.                                             *)
(*                                                                         *)
(* None of this is inductive: a receipt is written at the end of a plan    *)
(* and speaks of all its steps.  BodySoFar and RecoverySoFar say what each *)
(* plan has achieved at each of its steps; Told says what the receipt of   *)
(* the current attempt cannot say yet.                                     *)
(***************************************************************************)
ScriptInv ==
    /\ mode \in {"idle", "body", "except", "recover", "exit", "dead"}
    /\ attempt \in 0..MaxAttempts /\ at \in Nat
    /\ mode # "idle" => attempt \in 1..MaxAttempts
    /\ mode = "body" => at \in 1..22
    /\ mode = "recover" => at \in 1..12
    /\ original["image"] = "old"

\* Files rewritten by the steps of a plan that are behind it.
Rewritten(release, policy, sha, image, env) ==
    /\ at > policy => files["policy"] = release["policy"]
    /\ at > sha => files["sha"] = release["sha"]
    /\ at > image => files["image"] = release["image"]
    /\ at > env => files["env"] = release["env"]

NewRelease == [f \in Files |-> "new"]
TwoContainers == Len(verified) = 2 /\ verified[1] # verified[2]
Restored ==
    /\ files = original /\ startReceipt = 0
    /\ container # None => container.image = "old"

BodySoFar == mode = "body" =>
    /\ Rewritten(NewRelease, 5, 7, 8, 10)
    /\ at <= 14 => verified = <<>>
    /\ at \in 15..18 => Len(verified) = 1
    /\ at > 18 => TwoContainers
    /\ receipt[attempt] = (IF at <= 19 THEN "PROMOTION_IN_PROGRESS" ELSE PASS)
    /\ at > 20 => startReceipt = attempt
    /\ success => at = 22

RecoverySoFar == mode = "recover" =>
    /\ Rewritten(original, 3, 5, 7, 9)
    /\ at > 7 => startReceipt = 0
    /\ at = 12 => Restored
    /\ ~success

Told ==
    /\ mode \in {"body", "except", "recover", "dead"} => receipt[attempt] # RECOVERED
    /\ mode = "exit" /\ receipt[attempt] = RECOVERED => Restored
    /\ mode = "idle" => ~success /\ attempt = 0

ReceiptInv == BodySoFar /\ RecoverySoFar /\ Told /\ PassMeansRestarted

-----------------------------------------------------------------------------
(* Where each operation stands in the two plans.                           *)

LEMMA BodySteps ==
    ASSUME NEW n \in 1..22
    PROVE  /\ Len(Body) = 22
           /\ Body[n] = "stop" => n \in {1, 15}
           /\ Body[n] = "gone" => n = 2
           /\ Body[n] = "tag" => n = 3
           /\ Body[n] = "policy" => n = 5
           /\ Body[n] = "sha" => n = 7
           /\ Body[n] = "image" => n = 8
           /\ Body[n] = "env" => n = 10
           /\ Body[n] = "open policy" => n = 4
           /\ Body[n] = "open sha" => n = 6
           /\ Body[n] = "open env" => n = 9
           /\ Body[n] # "open image"
           /\ Body[n] = "check" => n = 11
           /\ Body[n] = "start" => n \in {12, 16}
           /\ Body[n] = "ready" => n \in {13, 17}
           /\ Body[n] = "verify" => n = 14
           /\ Body[n] = "verify restart" => n = 18
           /\ Body[n] = "pass" => n = 19
           /\ Body[n] = "link" => n = 20
           /\ Body[n] = "commit" => n = 21
           /\ Body[n] = "report" => n = 22
           /\ Body[n] # "recovered"
<1>1. \/ n \in {1, 2, 3, 4, 5, 6, 7}
      \/ n \in {8, 9, 10, 11, 12, 13, 14}
      \/ n \in {15, 16, 17, 18, 19, 20, 21, 22}
  OBVIOUS
<1>2. /\ Len(Body) = 22 /\ Body[1] = "stop" /\ Body[2] = "gone" /\ Body[3] = "tag"
      /\ Body[4] = "open policy" /\ Body[5] = "policy" /\ Body[6] = "open sha"
      /\ Body[7] = "sha" /\ Body[8] = "image" /\ Body[9] = "open env"
      /\ Body[10] = "env" /\ Body[11] = "check" /\ Body[12] = "start"
      /\ Body[13] = "ready" /\ Body[14] = "verify" /\ Body[15] = "stop"
      /\ Body[16] = "start" /\ Body[17] = "ready" /\ Body[18] = "verify restart"
      /\ Body[19] = "pass" /\ Body[20] = "link" /\ Body[21] = "commit"
      /\ Body[22] = "report"
  BY DEF Body
<1>3. CASE n \in {1, 2, 3, 4, 5, 6, 7}
  BY <1>2, <1>3
<1>4. CASE n \in {8, 9, 10, 11, 12, 13, 14}
  BY <1>2, <1>4
<1>5. CASE n \in {15, 16, 17, 18, 19, 20, 21, 22}
  BY <1>2, <1>5
<1> QED BY <1>1, <1>3, <1>4, <1>5

LEMMA RecoverySteps ==
    ASSUME NEW n \in 1..12
    PROVE  /\ Len(Recovery) = 12
           /\ Recovery[n] = "stop" => n = 1
           /\ Recovery[n] = "open policy" => n = 2
           /\ Recovery[n] = "policy" => n = 3
           /\ Recovery[n] = "open sha" => n = 4
           /\ Recovery[n] = "sha" => n = 5
           /\ Recovery[n] = "open image" => n = 6
           /\ Recovery[n] = "image" => n = 7
           /\ Recovery[n] = "open env" => n = 8
           /\ Recovery[n] = "env" => n = 9
           /\ Recovery[n] = "start" => n = 10
           /\ Recovery[n] = "ready" => n = 11
           /\ Recovery[n] = "recovered" => n = 12
           /\ Recovery[n] \notin {"gone", "tag", "check", "verify", "verify restart", "pass",
                                  "link", "commit", "report"}
<1>1. n \in {1, 2, 3, 4, 5, 6, 7, 8, 9, 10, 11, 12}
  OBVIOUS
<1>2. /\ Len(Recovery) = 12 /\ Recovery[1] = "stop" /\ Recovery[2] = "open policy"
      /\ Recovery[3] = "policy" /\ Recovery[4] = "open sha" /\ Recovery[5] = "sha"
      /\ Recovery[6] = "open image" /\ Recovery[7] = "image"
      /\ Recovery[8] = "open env" /\ Recovery[9] = "env" /\ Recovery[10] = "start"
      /\ Recovery[11] = "ready" /\ Recovery[12] = "recovered"
  BY DEF Recovery
<1> QED BY <1>1, <1>2

-----------------------------------------------------------------------------
(* Types.  What the files, the unit and the launcher's reads hold, and that *)
(* `at` stays inside its plan, is part of IInv already.                     *)

Typed == TypeOK /\ ScriptInv

LEMMA InitTyped == Init => Typed
<1> SUFFICES ASSUME Init PROVE Typed
  OBVIOUS
<1> USE BoundsAssumption
<1>1. FilesInv /\ UnitInv /\ ReadsCurrent
  BY InitIInv DEF IInv
<1>2. ServiceTypeOK
  <2>1. Len(ReadOrder) = 4
    BY DEF ReadOrder
  <2> QED BY <1>1, <2>1 DEF Init, ServiceInit, ServiceTypeOK, FilesInv, UnitInv, ReadsCurrent, Releases
<1>3. TypeOK
  <2>1. receipt \in [1..MaxAttempts -> Statuses]
    BY DEF Init, Statuses
  <2>2. verified \in Seq(Nat)
    BY DEF Init
  <2>3. success \in BOOLEAN
    BY DEF Init
  <2> QED BY <1>1, <1>2, <2>1, <2>2, <2>3 DEF Init, TypeOK, FilesInv
<1>4. original["image"] = "old"
  BY DEF Init, ServiceInit, Files
<1> QED BY <1>3, <1>4 DEF Init, Typed, ScriptInv

LEMMA ServiceStepTyped ==
    ASSUME ServiceTypeOK, IInv, FilesInv', UnitInv', ReadsCurrent',
           \/ UNCHANGED <<tagged, serviceVars>>
           \/ tagged' = TRUE /\ UNCHANGED serviceVars
           \/ tagged' = tagged /\ (SystemctlStop \/ SystemctlStart \/ Boot \/ ServiceNext)
    PROVE  ServiceTypeOK'
<1>1. Len(ReadOrder) = 4
  BY DEF ReadOrder
<1>2. /\ files' \in [Files -> Contents]
      /\ unit' \in {"inactive", "starting", "up", "cooldown"}
      /\ seen' \in Seq(Contents) /\ Len(seen') <= Len(ReadOrder')
  BY <1>1 DEF FilesInv, UnitInv, ReadsCurrent, ReadOrder
<1>3. None \in [image : Releases \cup {"none"}, id : Nat]
  BY DEF None
<1>4. Launch => container' \in [image : Releases \cup {"none"}, id : Nat] /\ made' \in Nat
  <2>1. SUFFICES ASSUME Launch
                 PROVE  container' \in [image : Releases \cup {"none"}, id : Nat] /\ made' \in Nat
    OBVIOUS
  <2>2. seen[4] \in Releases
    BY <2>1, AgreedFilesAreOnDisk DEF IInv, Launch
  <2> QED BY <2>1, <2>2 DEF Launch, ServiceTypeOK
<1>5. /\ container' \in [image : Releases \cup {"none"}, id : Nat] /\ made' \in Nat
      /\ stuck' \in Nat /\ crashes' \in Nat
  <2>1. CASE UNCHANGED serviceVars \/ SystemctlStart
    BY <2>1 DEF serviceVars, SystemctlStart, ServiceTypeOK
  <2>2. CASE SystemctlStop
    BY <2>2, <1>3 DEF SystemctlStop, ServiceTypeOK
  <2>3. CASE Boot \/ Crash
    BY <2>3, <1>3 DEF Boot, Crash, ServiceTypeOK
  <2>4. CASE ReadFile \/ Refuse \/ AutoRestart
    BY <2>4 DEF ReadFile, Refuse, AutoRestart, ServiceTypeOK
  <2>5. CASE Launch
    BY <2>5, <1>4 DEF Launch, ServiceTypeOK
  <2> QED BY <2>1, <2>2, <2>3, <2>4, <2>5 DEF ServiceNext, LauncherNext
<1>6. tagged' \in BOOLEAN
  BY DEF ServiceTypeOK<1> QED BY <1>2, <1>5, <1>6 DEF ServiceTypeOK

LEMMA NextTyped == Typed /\ IInv /\ IInv' /\ [Next]_vars => Typed'
<1> SUFFICES ASSUME Typed, IInv, IInv', [Next]_vars PROVE Typed'
  OBVIOUS
<1> USE BoundsAssumption DEF Typed
<1>1. FilesInv' /\ UnitInv' /\ ReadsCurrent' /\ WritesOffline'
  BY DEF IInv
<1>2. ServiceTypeOK'
  <2>1. \/ UNCHANGED <<tagged, serviceVars>>
        \/ tagged' = TRUE /\ UNCHANGED serviceVars
        \/ tagged' = tagged /\ (SystemctlStop \/ SystemctlStart \/ Boot \/ ServiceNext)
    <3>1. CASE Begin \/ RaiseByAccident \/ Kill
      BY <3>1 DEF Begin, RaiseByAccident, Kill, LeaveClause, KeepsService, KeepsDisk
    <3>2. CASE PowerLoss
      BY <3>2 DEF PowerLoss, KeepsDisk
    <3>3. CASE Service
      BY <3>3 DEF Service, ServiceNext, LauncherNext, ReadFile, Launch, Refuse, AutoRestart, Crash
    <3>4. CASE Stop \/ Start
      BY <3>4 DEF Stop, Start, KeepsDisk
    <3>5. CASE \E f \in Files : Truncate(f) \/ Fill(f)
      BY <3>5 DEF Truncate, Fill, KeepsService
    <3>6. CASE \/ AssertGone \/ Tag \/ CheckOnly \/ Ready \/ Verify \/ VerifyRestart \/ SavePass
               \/ LinkReceipt \/ Commit \/ Report \/ SaveRecovered \/ RaiseRefused \/ SaveFailed
      BY <3>6 DEF AssertGone, Tag, CheckOnly, Ready, Verify, VerifyRestart, SavePass, LinkReceipt,
                  Commit, Report, SaveRecovered, RaiseRefused, SaveFailed, LeaveClause,
                  KeepsService, KeepsDisk
    <3>7. CASE UNCHANGED vars
      BY <3>7 DEF vars
    <3> QED BY <3>1, <3>2, <3>3, <3>4, <3>5, <3>6, <3>7 DEF Next, Step
  <2> QED BY <2>1, <1>1, ServiceStepTyped DEF TypeOK
<1>3. /\ mode' \in {"idle", "body", "except", "recover", "exit", "dead"}
      /\ attempt' \in 0..MaxAttempts /\ at' \in Nat
      /\ mode' # "idle" => attempt' \in 1..MaxAttempts
      /\ original'["image"] = "old"
      /\ faults' \in Nat /\ kills' \in Nat
  <2>1. CASE Begin
    BY <2>1 DEF Begin, TypeOK, ScriptInv
  <2>2. CASE Step \/ RaiseByAccident \/ Kill \/ PowerLoss
    <3>1. CASE \/ Stop \/ Start \/ AssertGone \/ Tag \/ CheckOnly \/ Ready \/ Verify
               \/ VerifyRestart \/ SavePass \/ LinkReceipt \/ Commit
               \/ \E f \in Files : Truncate(f) \/ Fill(f)
      <4>1. Advance
        BY <3>1 DEF Stop, Start, AssertGone, Tag, CheckOnly, Ready, Verify, VerifyRestart,
                    SavePass, LinkReceipt, Commit, Truncate, Fill
      <4> QED BY <4>1 DEF Advance, TypeOK, ScriptInv
    <3>2. CASE Report \/ SaveRecovered
      <4>1. /\ mode \in {"body", "recover"} /\ mode' = "exit"
            /\ UNCHANGED <<at, attempt, original, faults, kills>>
        BY <3>2 DEF Report, SaveRecovered, On
      <4> QED BY <4>1 DEF TypeOK, ScriptInv
    <3>3. CASE RaiseRefused \/ RaiseByAccident
      <4>1. Refused => mode \in {"body", "recover"}
        BY DEF Refused, On
      <4>2. mode \in {"body", "recover"} /\ LeaveClause
        BY <3>3, <4>1 DEF RaiseRefused, RaiseByAccident
      <4>3. faults' \in Nat
        BY <3>3 DEF RaiseRefused, RaiseByAccident, TypeOK
      <4> QED BY <4>2, <4>3 DEF LeaveClause, TypeOK, ScriptInv
    <3>4. CASE SaveFailed
      BY <3>4 DEF SaveFailed, Finally, TypeOK, ScriptInv
    <3>5. CASE Kill
      BY <3>5 DEF Kill, TypeOK, ScriptInv
    <3>6. CASE PowerLoss
      BY <3>6 DEF PowerLoss, TypeOK, ScriptInv
    <3> QED BY <2>2, <3>1, <3>2, <3>3, <3>4, <3>5, <3>6 DEF Step
  <2>3. CASE Service \/ UNCHANGED vars
    BY <2>3 DEF Service, vars, scriptVars, TypeOK, ScriptInv
  <2> QED BY <2>1, <2>2, <2>3 DEF Next
<1>4. /\ verified' \in Seq(Nat) /\ success' \in BOOLEAN
      /\ receipt' \in [1..MaxAttempts -> Statuses]
      /\ startReceipt' \in 0..MaxAttempts
  <2>1. CASE UNCHANGED <<verified, success, receipt, startReceipt>>
    BY <2>1 DEF TypeOK
  <2>2. CASE Begin
    <3>1. verified' = <<>> /\ success' = FALSE /\ startReceipt' = startReceipt
          /\ receipt' = [receipt EXCEPT ![attempt + 1] = "PROMOTION_IN_PROGRESS"]
      BY <2>2 DEF Begin
    <3>2. receipt' \in [1..MaxAttempts -> Statuses]
      BY <3>1 DEF TypeOK, Statuses
    <3>3. verified' \in Seq(Nat)
      BY <3>1
    <3>4. success' \in BOOLEAN
      BY <3>1
    <3> QED BY <3>1, <3>2, <3>3, <3>4 DEF TypeOK
  <2>3. CASE Verify \/ VerifyRestart
    <3>1. verified' = Append(verified, container.id)
          /\ UNCHANGED <<success, receipt, startReceipt>>
      BY <2>3 DEF Verify, VerifyRestart, KeepsReceipts
    <3>2. container.id \in Nat
      BY DEF TypeOK, ServiceTypeOK
    <3> QED BY <3>1, <3>2 DEF TypeOK
  <2>4. CASE \E f \in Files : Truncate(f) \/ Fill(f)
    BY <2>4 DEF Truncate, Fill, KeepsReceipts, KeepsLocals, TypeOK
  <2>5. CASE SavePass \/ SaveRecovered \/ SaveFailed
    <3>1. /\ UNCHANGED <<verified, success, startReceipt>>
          /\ \/ receipt' = receipt
             \/ \E s \in Statuses : receipt' = [receipt EXCEPT ![attempt] = s]
      BY <2>5 DEF SavePass, SaveRecovered, SaveFailed, KeepsLocals, Statuses, PASS, RECOVERED, REQUIRED
    <3> QED BY <3>1 DEF TypeOK
  <2>6. CASE LinkReceipt
    BY <2>6 DEF LinkReceipt, KeepsLocals, TypeOK
  <2>7. CASE Commit
    BY <2>7 DEF Commit, KeepsReceipts, TypeOK
  <2>8. CASE Stop \/ Start \/ AssertGone \/ Tag \/ CheckOnly \/ Ready \/ Report \/ RaiseRefused
             \/ RaiseByAccident \/ Kill \/ PowerLoss \/ Service \/ UNCHANGED vars
    BY <2>8, <2>1 DEF Stop, Start, AssertGone, Tag, CheckOnly, Ready, Report, RaiseRefused,
                      RaiseByAccident, Kill, PowerLoss, Service, LeaveClause, KeepsReceipts,
                      KeepsLocals, vars, scriptVars
  <2> QED BY <2>2, <2>3, <2>4, <2>5, <2>6, <2>7, <2>8 DEF Next, Step
<1>5. /\ mode' \in {"body", "recover"} => at' \in 1..Len(Plan')
      /\ mode' = "body" => at' \in 1..22
      /\ mode' = "recover" => at' \in 1..12
  <2>1. Len(Body) = 22 /\ Len(Recovery) = 12
    BY DEF Body, Recovery
  <2> QED BY <2>1, <1>1 DEF WritesOffline, Plan
<1> QED BY <1>1, <1>2, <1>3, <1>4, <1>5 DEF TypeOK, ScriptInv, FilesInv

\* Everything the script, systemd and the launcher keep stays in its type,
\* and the step counter inside the plan it counts through.
THEOREM TypeCorrect == Spec => []TypeOK
<1>1. Init => Typed /\ IInv
  BY InitTyped, InitIInv
<1>2. Typed /\ IInv /\ [Next]_vars => Typed' /\ IInv'
  BY NextTyped, NextIInv
<1>3. Typed => TypeOK
  BY DEF Typed
<1> QED BY <1>1, <1>2, <1>3, PTL DEF Spec

-----------------------------------------------------------------------------
(* The receipts.                                                           *)

LEMMA InitReceipts == Init => ReceiptInv
BY DEF Init, ReceiptInv, BodySoFar, RecoverySoFar, Told, PassMeansRestarted

\* What the body has achieved is what a pass and a commit claim.
LEMMA BodyPasses ==
    ASSUME TypeOK, mode = "body", at \in 1..22, BodySoFar
    PROVE  PassMeansRestarted
<1>1. ASSUME receipt[attempt] = PASS PROVE TwoContainers
  BY <1>1 DEF BodySoFar, PASS
<1>2. ASSUME success PROVE (\A f \in Files : files[f] = "new") /\ startReceipt = attempt
  BY <1>2 DEF BodySoFar, Rewritten, NewRelease, Files
<1> QED BY <1>1, <1>2 DEF PassMeansRestarted, TwoContainers

\* A step that leaves the files, the receipts and the locals alone, and is not
\* one that the state after it is measured by.
LEMMA QuietStep ==
    ASSUME Typed, Typed', ReceiptInv, mode \in {"body", "recover"}, Advance,
           UNCHANGED <<files, verified, success, receipt, startReceipt>>,
           Plan[at] \in {"stop", "gone", "tag", "check", "start", "ready"},
           mode = "recover" /\ Plan[at] = "ready" => container'.image = "old"
    PROVE  ReceiptInv'
<1>1. mode' = mode /\ at' = at + 1 /\ UNCHANGED <<attempt, original>>
  BY DEF Advance
<1>2. CASE mode = "body"
  <2>1. at \in {1, 2, 3, 11, 12, 13, 15, 16, 17} /\ at \in 1..22
    BY <1>2, BodySteps DEF Typed, ScriptInv, Plan
  <2>2. BodySoFar'
    <3>1. Rewritten(NewRelease, 5, 7, 8, 10)' /\ ~success
      BY <1>1, <1>2, <2>1 DEF ReceiptInv, BodySoFar, Rewritten, NewRelease
    <3> QED BY <1>1, <1>2, <2>1, <3>1 DEF ReceiptInv, BodySoFar, TwoContainers
  <2>3. Told' /\ RecoverySoFar'
    BY <1>1, <1>2 DEF ReceiptInv, Told, RecoverySoFar
  <2>4. PassMeansRestarted'
    BY <1>1 DEF ReceiptInv, PassMeansRestarted
  <2> QED BY <2>2, <2>3, <2>4 DEF ReceiptInv
<1>3. CASE mode = "recover"
  <2>1. at \in {1, 10, 11} /\ (at = 11 => container'.image = "old")
    <3>1. at \in 1..12
      BY <1>3 DEF Typed, ScriptInv
    <3>2. Recovery[11] = "ready"
      BY DEF Recovery
    <3> QED BY <1>3, <3>1, <3>2, RecoverySteps DEF Plan
  <2>2. RecoverySoFar'
    <3>1. Rewritten(original, 3, 5, 7, 9)'
      BY <1>1, <1>3, <2>1 DEF ReceiptInv, RecoverySoFar, Rewritten
    <3>2. at = 11 => Restored'
      <4>1. SUFFICES ASSUME at = 11 PROVE Restored'
        OBVIOUS
      <4>2. \A f \in Files : files[f] = original[f]
        BY <1>3, <4>1 DEF ReceiptInv, RecoverySoFar, Rewritten, Files
      <4>3. files = original
        <5>1. files \in [Files -> Contents] /\ original \in [Files -> Contents]
          BY DEF Typed, TypeOK, ServiceTypeOK
        <5> QED BY <4>2, <5>1
      <4>4. startReceipt = 0
        BY <1>3, <4>1 DEF ReceiptInv, RecoverySoFar
      <4> QED BY <4>1, <4>3, <4>4, <2>1, <1>1 DEF Restored
    <3> QED BY <1>1, <1>3, <2>1, <3>1, <3>2 DEF ReceiptInv, RecoverySoFar
  <2>3. Told' /\ BodySoFar'
    BY <1>1, <1>3 DEF ReceiptInv, Told, BodySoFar
  <2>4. PassMeansRestarted'
    BY <1>1 DEF ReceiptInv, PassMeansRestarted
  <2> QED BY <2>2, <2>3, <2>4 DEF ReceiptInv
<1> QED BY <1>2, <1>3

\* Rewriting a file: first it is torn, then it is what the plan puts there.
LEMMA TruncateKeepsReceipts ==
    ASSUME Typed, Typed', ReceiptInv, NEW f \in Files, Truncate(f)
    PROVE  ReceiptInv'
<1>1. /\ mode \in {"body", "recover"} /\ mode' = mode /\ at' = at + 1
      /\ UNCHANGED <<attempt, original, verified, success, receipt, startReceipt>>
  BY DEF Truncate, On, Advance, KeepsReceipts, KeepsLocals
<1>2. \A g \in Files : g # f => files'[g] = files[g]
  BY DEF Truncate, Typed, TypeOK, ServiceTypeOK
<1>3. f \in {"env", "policy", "sha", "image"} /\ Plan[at] = OpenStep[f]
  BY DEF Files, Truncate, On
<1>4. /\ OpenStep["policy"] = "open policy" /\ OpenStep["sha"] = "open sha"
      /\ OpenStep["image"] = "open image" /\ OpenStep["env"] = "open env"
  BY DEF OpenStep
<1>5. CASE mode = "body"
  <2>1. at \in 1..22 /\ Body[at] = OpenStep[f]
    BY <1>3, <1>5 DEF Typed, ScriptInv, Plan
  <2>2. \/ f = "policy" /\ at = 4
        \/ f = "sha" /\ at = 6
        \/ f = "env" /\ at = 9
    <3>1. CASE f = "policy"
      <4>1. Body[at] = "open policy"
        BY <1>4, <2>1, <3>1
      <4> QED BY <2>1, <3>1, <4>1, BodySteps
    <3>2. CASE f = "sha"
      <4>1. Body[at] = "open sha"
        BY <1>4, <2>1, <3>2
      <4> QED BY <2>1, <3>2, <4>1, BodySteps
    <3>3. CASE f = "image"
      <4>1. Body[at] = "open image"
        BY <1>4, <2>1, <3>3
      <4> QED BY <2>1, <3>3, <4>1, BodySteps
    <3>4. CASE f = "env"
      <4>1. Body[at] = "open env"
        BY <1>4, <2>1, <3>4
      <4> QED BY <2>1, <3>4, <4>1, BodySteps
    <3> QED BY <1>3, <3>1, <3>2, <3>3, <3>4
  <2>3. BodySoFar'
    <3>1. Rewritten(NewRelease, 5, 7, 8, 10)' /\ ~success
      BY <1>1, <1>2, <1>5, <2>2 DEF ReceiptInv, BodySoFar, Rewritten, NewRelease, Files
    <3> QED BY <1>1, <1>5, <2>2, <3>1 DEF ReceiptInv, BodySoFar
  <2> QED BY <1>1, <1>5, <2>3, BodyPasses DEF ReceiptInv, Told, RecoverySoFar, PassMeansRestarted, BodySoFar
<1>6. CASE mode = "recover"
  <2>1. at \in 1..12 /\ Recovery[at] = OpenStep[f]
    BY <1>3, <1>6 DEF Typed, ScriptInv, Plan
  <2>2. \/ f = "policy" /\ at = 2
        \/ f = "sha" /\ at = 4
        \/ f = "image" /\ at = 6
        \/ f = "env" /\ at = 8
    <3>1. CASE f = "policy"
      <4>1. Recovery[at] = "open policy"
        BY <1>4, <2>1, <3>1
      <4> QED BY <2>1, <3>1, <4>1, RecoverySteps
    <3>2. CASE f = "sha"
      <4>1. Recovery[at] = "open sha"
        BY <1>4, <2>1, <3>2
      <4> QED BY <2>1, <3>2, <4>1, RecoverySteps
    <3>3. CASE f = "image"
      <4>1. Recovery[at] = "open image"
        BY <1>4, <2>1, <3>3
      <4> QED BY <2>1, <3>3, <4>1, RecoverySteps
    <3>4. CASE f = "env"
      <4>1. Recovery[at] = "open env"
        BY <1>4, <2>1, <3>4
      <4> QED BY <2>1, <3>4, <4>1, RecoverySteps
    <3> QED BY <1>3, <3>1, <3>2, <3>3, <3>4
  <2>3. RecoverySoFar'
    <3>1. Rewritten(original, 3, 5, 7, 9)' /\ ~success
      BY <1>1, <1>2, <1>6, <2>2 DEF ReceiptInv, RecoverySoFar, Rewritten, Files
    <3> QED BY <1>1, <1>6, <2>2, <3>1 DEF ReceiptInv, RecoverySoFar
  <2> QED BY <1>1, <1>6, <2>3 DEF ReceiptInv, Told, BodySoFar, PassMeansRestarted, RecoverySoFar
<1> QED BY <1>1, <1>5, <1>6

LEMMA FillKeepsReceipts ==
    ASSUME Typed, Typed', ReceiptInv, NEW f \in Files, Fill(f)
    PROVE  ReceiptInv'
<1>1. /\ mode \in {"body", "recover"} /\ mode' = mode /\ at' = at + 1
      /\ UNCHANGED <<attempt, original, verified, success, receipt>>
      /\ startReceipt' = IF f = "image" THEN 0 ELSE startReceipt
  BY DEF Fill, On, Advance, KeepsLocals
<1>2. /\ files'[f] = Content(f)
      /\ \A g \in Files : g # f => files'[g] = files[g]
  BY DEF Fill, Typed, TypeOK, ServiceTypeOK
<1>3. f \in {"env", "policy", "sha", "image"} /\ Plan[at] = f
  BY DEF Files, Fill, On
<1>5. CASE mode = "body"
  <2>1. at \in 1..22 /\ Body[at] = f
    BY <1>3, <1>5 DEF Typed, ScriptInv, Plan
  <2>2. \/ f = "policy" /\ at = 5
        \/ f = "sha" /\ at = 7
        \/ f = "image" /\ at = 8
        \/ f = "env" /\ at = 10
    BY <1>3, <2>1, BodySteps
  <2>3. BodySoFar'
    <3>1. Rewritten(NewRelease, 5, 7, 8, 10)' /\ ~success
      BY <1>1, <1>2, <1>5, <2>2 DEF ReceiptInv, BodySoFar, Rewritten, NewRelease, Files, Content
    <3> QED BY <1>1, <1>5, <2>2, <3>1 DEF ReceiptInv, BodySoFar
  <2> QED BY <1>1, <1>5, <2>3, BodyPasses DEF ReceiptInv, Told, RecoverySoFar, PassMeansRestarted, BodySoFar
<1>6. CASE mode = "recover"
  <2>1. at \in 1..12 /\ Recovery[at] = f
    BY <1>3, <1>6 DEF Typed, ScriptInv, Plan
  <2>2. \/ f = "policy" /\ at = 3
        \/ f = "sha" /\ at = 5
        \/ f = "image" /\ at = 7
        \/ f = "env" /\ at = 9
    BY <1>3, <2>1, RecoverySteps
  <2>3. RecoverySoFar'
    <3>1. Rewritten(original, 3, 5, 7, 9)' /\ ~success
      BY <1>1, <1>2, <1>6, <2>2 DEF ReceiptInv, RecoverySoFar, Rewritten, Files, Content
    <3> QED BY <1>1, <1>6, <2>2, <3>1 DEF ReceiptInv, RecoverySoFar
  <2> QED BY <1>1, <1>6, <2>3 DEF ReceiptInv, Told, BodySoFar, PassMeansRestarted, RecoverySoFar
<1> QED BY <1>1, <1>5, <1>6

LEMMA VerifiesKeepReceipts ==
    ASSUME Typed, Typed', ReceiptInv, Verify \/ VerifyRestart
    PROVE  ReceiptInv'
<1>1. /\ mode \in {"body", "recover"} /\ mode' = mode /\ at' = at + 1
      /\ UNCHANGED <<files, attempt, original, success, receipt, startReceipt>>
      /\ verified' = Append(verified, container.id)
  BY DEF Verify, VerifyRestart, On, Advance, KeepsReceipts, KeepsDisk
<1>2. mode = "body" /\ (at = 14 \/ (at = 18 /\ ~StaleContainer))
  <2>1. Plan[at] = "verify" \/ (Plan[at] = "verify restart" /\ ~StaleContainer)
    <3>1. Verify => Plan[at] = "verify"
      BY DEF Verify, On
    <3>2. VerifyRestart => Plan[at] = "verify restart" /\ ~StaleContainer
      BY DEF VerifyRestart, On
    <3> QED BY <3>1, <3>2
  <2>2. CASE mode = "body"
    BY <2>1, <2>2, BodySteps DEF Typed, ScriptInv, Plan
  <2>3. CASE mode = "recover"
    BY <2>1, <2>3, RecoverySteps DEF Typed, ScriptInv, Plan
  <2> QED BY <1>1, <2>2, <2>3
<1>3. verified \in Seq(Nat) /\ container.id \in Nat
  BY DEF Typed, TypeOK, ServiceTypeOK
<1>4. BodySoFar'
  <2>1. Rewritten(NewRelease, 5, 7, 8, 10)' /\ ~success
    BY <1>1, <1>2 DEF ReceiptInv, BodySoFar, Rewritten, NewRelease
  <2>2. at = 14 => Len(verified') = 1
    BY <1>1, <1>2 DEF ReceiptInv, BodySoFar
  <2>3. at = 18 => TwoContainers'
    <3>1. SUFFICES ASSUME at = 18 PROVE TwoContainers'
      OBVIOUS
    <3>2. Len(verified) = 1
      BY <1>2, <3>1 DEF ReceiptInv, BodySoFar
    <3>3. verified'[1] = verified[1] /\ verified'[2] = container.id /\ Len(verified') = 2
      <4>1. /\ Len(verified') = Len(verified) + 1
            /\ \A i \in 1..Len(verified) : verified'[i] = verified[i]
            /\ verified'[Len(verified) + 1] = container.id
        BY <1>1, <1>3
      <4> QED BY <4>1, <3>2
    <3>4. container.id # verified[1]
      BY <1>2, <3>1 DEF StaleContainer
    <3> QED BY <3>3, <3>4 DEF TwoContainers
  <2> QED BY <1>1, <1>2, <2>1, <2>2, <2>3 DEF ReceiptInv, BodySoFar
<1>5. PassMeansRestarted'
  BY <1>1, <1>2, <1>4 DEF ReceiptInv, BodySoFar, PassMeansRestarted, PASS
<1> QED BY <1>1, <1>2, <1>4, <1>5 DEF ReceiptInv, Told, RecoverySoFar

LEMMA ClaimsKeepReceipts ==
    ASSUME Typed, Typed', ReceiptInv, SavePass \/ LinkReceipt \/ Commit
    PROVE  ReceiptInv'
<1>1. /\ mode \in {"body", "recover"} /\ mode' = mode /\ at' = at + 1
      /\ UNCHANGED <<files, attempt, original, verified>>
  BY DEF SavePass, LinkReceipt, Commit, On, Advance, KeepsDisk, KeepsLocals
<1>2. /\ mode = "body"
      /\ SavePass => at = 19
      /\ LinkReceipt => at = 20
      /\ Commit => at = 21
  <2>1. /\ SavePass => Plan[at] = "pass"
        /\ LinkReceipt => Plan[at] = "link"
        /\ Commit => Plan[at] = "commit"
    BY DEF SavePass, LinkReceipt, Commit, On
  <2>2. Plan[at] \in {"pass", "link", "commit"}
    BY DEF SavePass, LinkReceipt, Commit, On
  <2>3. CASE mode = "body"
    <3>1. at \in 1..22 /\ Plan = Body
      BY <2>3 DEF Typed, ScriptInv, Plan
    <3>2. /\ Body[at] = "pass" => at = 19
          /\ Body[at] = "link" => at = 20
          /\ Body[at] = "commit" => at = 21
      BY <3>1, BodySteps
    <3> QED BY <2>1, <2>3, <3>1, <3>2
  <2>4. CASE mode = "recover"
    BY <2>2, <2>4, RecoverySteps DEF Typed, ScriptInv, Plan
  <2> QED BY <1>1, <2>3, <2>4
<1>3. /\ attempt \in 1..MaxAttempts /\ receipt \in [1..MaxAttempts -> Statuses]
      /\ PASS # RECOVERED /\ PASS # "PROMOTION_IN_PROGRESS"
  BY <1>1 DEF Typed, TypeOK, ScriptInv, PASS, RECOVERED
<1>4. Rewritten(NewRelease, 5, 7, 8, 10)'
  BY <1>1, <1>2 DEF ReceiptInv, BodySoFar, Rewritten, NewRelease
<1>5. CASE SavePass
  <2>1. receipt' = [receipt EXCEPT ![attempt] = PASS] /\ UNCHANGED <<success, startReceipt>>
    BY <1>5 DEF SavePass, KeepsLocals
  <2>2. receipt'[attempt] = PASS
    BY <2>1, <1>3
  <2>3. TwoContainers' /\ ~success'
    BY <1>1, <1>2, <1>5, <2>1 DEF ReceiptInv, BodySoFar, TwoContainers
  <2> QED BY <1>1, <1>2, <1>3, <1>4, <1>5, <2>1, <2>2, <2>3
          DEF ReceiptInv, BodySoFar, Told, RecoverySoFar, PassMeansRestarted, TwoContainers
<1>6. CASE LinkReceipt
  <2>1. startReceipt' = attempt /\ UNCHANGED <<success, receipt>>
    BY <1>6 DEF LinkReceipt, KeepsLocals
  <2>3. TwoContainers' /\ ~success'
    BY <1>1, <1>2, <1>6, <2>1 DEF ReceiptInv, BodySoFar, TwoContainers
  <2> QED BY <1>1, <1>2, <1>3, <1>4, <1>6, <2>1, <2>3
          DEF ReceiptInv, BodySoFar, Told, RecoverySoFar, PassMeansRestarted, TwoContainers
<1>7. CASE Commit
  <2>1. UNCHANGED <<startReceipt, receipt>>
    BY <1>7 DEF Commit, KeepsReceipts
  <2>2. at = 21 /\ at' = 22 /\ startReceipt' = attempt /\ receipt'[attempt] = PASS
    BY <1>1, <1>2, <1>7, <2>1 DEF ReceiptInv, BodySoFar
  <2>3. TwoContainers'
    BY <1>1, <1>2, <1>7, <2>1 DEF ReceiptInv, BodySoFar, TwoContainers
  <2>4. BodySoFar'
    BY <1>1, <1>2, <1>4, <2>2, <2>3 DEF BodySoFar
  <2>5. PassMeansRestarted'
    <3>1. \A f \in Files : files'[f] = "new"
      BY <1>4, <2>2 DEF Rewritten, NewRelease, Files
    <3> QED BY <1>1, <2>2, <2>3, <3>1 DEF PassMeansRestarted, TwoContainers
  <2> QED BY <1>1, <1>2, <1>3, <2>2, <2>4, <2>5 DEF ReceiptInv, Told, RecoverySoFar
<1> QED BY <1>5, <1>6, <1>7

\* The script leaves a plan, or is cut short.
LEMMA LeavingKeepsReceipts ==
    ASSUME Typed, Typed', ReceiptInv,
           Report \/ RaiseRefused \/ RaiseByAccident \/ Kill
    PROVE  ReceiptInv'
<1>1. UNCHANGED <<files, attempt, original, verified, success, receipt, startReceipt>>
  BY DEF Report, RaiseRefused, RaiseByAccident, Kill, LeaveClause, KeepsDisk, KeepsLocals, KeepsReceipts
<1>2. mode \in {"body", "except", "recover"} /\ mode' \in {"except", "exit", "dead"}
  <2>1. Refused => mode \in {"body", "recover"}
    BY DEF Refused, On
  <2> QED BY <2>1 DEF Report, RaiseRefused, RaiseByAccident, Kill, LeaveClause, On
<1>3. receipt[attempt] # RECOVERED
  BY <1>2 DEF ReceiptInv, Told
<1> QED BY <1>1, <1>2, <1>3 DEF ReceiptInv, BodySoFar, RecoverySoFar, Told, PassMeansRestarted

LEMMA SaveRecoveredKeepsReceipts ==
    ASSUME Typed, Typed', ReceiptInv, SaveRecovered
    PROVE  ReceiptInv'
<1>1. /\ mode \in {"body", "recover"} /\ Plan[at] = "recovered" /\ mode' = "exit"
      /\ receipt' = [receipt EXCEPT ![attempt] = RECOVERED]
      /\ UNCHANGED <<files, attempt, original, verified, success, startReceipt, container>>
  BY DEF SaveRecovered, On, KeepsDisk, KeepsLocals, KeepsService, serviceVars
<1>2. mode = "recover" /\ at = 12
  <2>1. CASE mode = "body"
    BY <1>1, <2>1, BodySteps DEF Typed, ScriptInv, Plan
  <2>2. CASE mode = "recover"
    BY <1>1, <2>2, RecoverySteps DEF Typed, ScriptInv, Plan
  <2> QED BY <1>1, <2>1, <2>2
<1>3. Restored /\ ~success
  BY <1>2 DEF ReceiptInv, RecoverySoFar
<1>4. receipt'[attempt] = RECOVERED /\ RECOVERED # PASS
  BY <1>1 DEF Typed, TypeOK, ScriptInv, RECOVERED, PASS
<1>5. Restored'
  BY <1>1, <1>3 DEF Restored
<1> QED BY <1>1, <1>3, <1>4, <1>5 DEF ReceiptInv, BodySoFar, RecoverySoFar, Told, PassMeansRestarted

LEMMA SaveFailedKeepsReceipts ==
    ASSUME Typed, Typed', ReceiptInv, SaveFailed
    PROVE  ReceiptInv'
<1>1. /\ mode = "except" /\ at' = 1 /\ mode' = (IF success THEN "exit" ELSE "recover")
      /\ UNCHANGED <<files, attempt, original, verified, success, startReceipt>>
  BY DEF SaveFailed, Finally, KeepsDisk, KeepsLocals
<1>2. attempt \in 1..MaxAttempts /\ receipt[attempt] # RECOVERED
  BY <1>1 DEF Typed, ScriptInv, ReceiptInv, Told
<1>3. receipt'[attempt] = receipt[attempt] \/ receipt'[attempt] = REQUIRED
  <2>1. receipt \in [1..MaxAttempts -> Statuses]
    BY DEF Typed, TypeOK
  <2> QED BY <1>2, <2>1 DEF SaveFailed
<1>4. REQUIRED # RECOVERED /\ REQUIRED # PASS
  BY DEF REQUIRED, RECOVERED, PASS
<1>5. Told' /\ PassMeansRestarted'
  BY <1>1, <1>2, <1>3, <1>4 DEF ReceiptInv, Told, PassMeansRestarted
<1>6. RecoverySoFar' /\ BodySoFar'
  BY <1>1 DEF RecoverySoFar, BodySoFar, Rewritten
<1> QED BY <1>5, <1>6 DEF ReceiptInv

LEMMA BeginKeepsReceipts ==
    ASSUME Typed, Typed', ReceiptInv, Begin
    PROVE  ReceiptInv'
<1>1. /\ mode' = "body" /\ at' = 1 /\ attempt' = attempt + 1 /\ verified' = <<>> /\ ~success'
      /\ receipt' = [receipt EXCEPT ![attempt + 1] = "PROMOTION_IN_PROGRESS"]
  BY DEF Begin
<1>2. attempt' \in 1..MaxAttempts
  BY <1>1 DEF Typed, ScriptInv
<1>3. receipt'[attempt'] = "PROMOTION_IN_PROGRESS"
  BY <1>1, <1>2 DEF Typed, TypeOK
<1>4. BodySoFar'
  BY <1>1, <1>3 DEF BodySoFar, Rewritten
<1> QED BY <1>1, <1>3, <1>4 DEF ReceiptInv, RecoverySoFar, Told, PassMeansRestarted, PASS, RECOVERED

\* Once the files are what they were, the launcher starts the old release.
LEMMA WorldKeepsReceipts ==
    ASSUME Typed, Typed', IInv, ReceiptInv, PowerLoss \/ Service \/ UNCHANGED vars
    PROVE  ReceiptInv'
<1>1. /\ UNCHANGED <<files, at, attempt, original, verified, success, receipt, startReceipt>>
      /\ \/ mode' = mode
         \/ mode' = "dead" /\ mode \in {"body", "except", "recover"}
  <2>1. CASE PowerLoss
    BY <2>1 DEF PowerLoss, KeepsDisk, KeepsReceipts, KeepsLocals
  <2>2. CASE Service
    BY <2>2 DEF Service, scriptVars, ServiceNext, LauncherNext, ReadFile, Launch, Refuse,
                AutoRestart, Crash
  <2>3. CASE UNCHANGED vars
    BY <2>3 DEF vars, scriptVars
  <2> QED BY <2>1, <2>2, <2>3
<1>2. \/ container' = None \/ container' = container
      \/ container'.image = files["image"]
  <2>1. CASE PowerLoss \/ UNCHANGED vars
    BY <2>1 DEF PowerLoss, Boot, vars, serviceVars
  <2>2. CASE Service
    <3>1. Launch => container'.image = files["image"]
      BY AgreedFilesAreOnDisk DEF Launch, IInv
    <3> QED BY <2>2, <3>1 DEF Service, ServiceNext, LauncherNext, ReadFile, Refuse, AutoRestart, Crash
  <2> QED BY <2>1, <2>2
<1>3. Restored => Restored'
  <2>1. original["image"] = "old"
    BY DEF Typed, ScriptInv
  <2> QED BY <1>1, <1>2, <2>1 DEF Restored
<1>4. BodySoFar'
  BY <1>1 DEF ReceiptInv, BodySoFar, Rewritten, TwoContainers
<1>5. RecoverySoFar'
  BY <1>1, <1>3 DEF ReceiptInv, RecoverySoFar, Rewritten
<1>6. Told'
  BY <1>1, <1>3 DEF ReceiptInv, Told
<1>7. PassMeansRestarted'
  BY <1>1 DEF ReceiptInv, PassMeansRestarted
<1> QED BY <1>4, <1>5, <1>6, <1>7 DEF ReceiptInv

LEMMA NextReceipts ==
    ASSUME Typed, Typed', IInv, ReceiptInv, [Next]_vars
    PROVE  ReceiptInv'
<1>1. CASE Stop \/ AssertGone \/ Tag \/ CheckOnly \/ Start \/ Ready
  <2>1. /\ mode \in {"body", "recover"} /\ Advance
        /\ UNCHANGED <<files, verified, success, receipt, startReceipt>>
    BY <1>1 DEF Stop, AssertGone, Tag, CheckOnly, Start, Ready, On, KeepsDisk, KeepsLocals, KeepsReceipts
  <2>2. Plan[at] \in {"stop", "gone", "tag", "check", "start", "ready"}
    BY <1>1 DEF Stop, AssertGone, Tag, CheckOnly, Start, Ready, On
  <2>3. ASSUME mode = "recover", Plan[at] = "ready" PROVE container'.image = "old"
    <3>1. Ready
      BY <1>1, <2>3 DEF Stop, AssertGone, Tag, CheckOnly, Start, On
    <3> QED BY <2>3, <3>1 DEF Ready, Healthy, Serving, Target, KeepsService, serviceVars
  <2> QED BY <2>1, <2>2, <2>3, QuietStep
<1>2. CASE \E f \in Files : Truncate(f) \/ Fill(f)
  BY <1>2, TruncateKeepsReceipts, FillKeepsReceipts
<1> QED BY <1>1, <1>2, VerifiesKeepReceipts, ClaimsKeepReceipts, LeavingKeepsReceipts,
           SaveRecoveredKeepsReceipts, SaveFailedKeepsReceipts, BeginKeepsReceipts,
           WorldKeepsReceipts DEF Next, Step

PromotionInv == Typed /\ IInv /\ ReceiptInv

LEMMA InductivePromotionInv ==
    /\ Init => PromotionInv
    /\ PromotionInv /\ [Next]_vars => PromotionInv'
<1>1. Init => PromotionInv
  BY InitTyped, InitIInv, InitReceipts DEF PromotionInv
<1>2. PromotionInv /\ [Next]_vars => PromotionInv'
  BY NextTyped, NextIInv, NextReceipts DEF PromotionInv
<1> QED BY <1>1, <1>2

\* A promotion that reports a pass has verified the new release in two
\* different containers, and one that committed leaves the whole new release
\* with its start receipt -- also when a stop left a container running, or the
\* script died after the receipt and before its last step.
THEOREM PassIsEarned == Spec => []PassMeansRestarted
<1>1. PromotionInv => PassMeansRestarted
  BY DEF PromotionInv, ReceiptInv
<1> QED BY <1>1, InductivePromotionInv, PTL DEF Spec

\* A promotion that reports the saved release recovered has put back every
\* file it found, and no container of the other release runs, not even after
\* later crashes and power losses of the service.
THEOREM RecoveryIsReal == Spec => []RecoveredMeansRestored
<1>1. PromotionInv => RecoveredMeansRestored
  BY DEF PromotionInv, ReceiptInv, Told, Restored, RecoveredMeansRestored
<1> QED BY <1>1, InductivePromotionInv, PTL DEF Spec
==============================================================================
