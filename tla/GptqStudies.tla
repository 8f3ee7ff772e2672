--------------------------- MODULE GptqStudies ---------------------------
(* The drivers of the GPTQ era: operator screens, serving comparisons and   *)
(* diagnostics.  They measure beside a copy of the production container and *)
(* put production back with restore-production.py.                          *)
EXTENDS ServingClients

\* restore-production.py: preflight, start, health, the identity of the release.
RestoreProduction == Work \o <<Start, Await>> \o Work

\* Engines started with Popen, stopped by name in the finally clause.
WaitReady(c) == <<Ready(c)>>
StopContainer(c) == <<Down(c)>>
Engine(c) == Try(<<Spawn(c)>> \o WaitReady(c) \o Work, StopContainer(c))
LongContext(c) == Engine(c)
DecodeTrace == Engine("b70-m01-decode-trace")

\* The preflight they share: their directory, the lock, production up and idle.
Preflight == <<Open, TryLock, Idle>>
\* Stop production, measure, conclude; failures are recorded, production returns.
Study(checks, body) ==
  checks \o Try(Try(<<Stop>> \o body, ExceptSave(Anything)), RestoreProduction)

Diagnostics ==
  Unit(Study(Preflight, LongContext("b70-m01-long-context") \o DecodeTrace
                        \o Conclude({Complete})),
       RestoreProduction)

PrefixState == Engine("b70-m06-prefix-state")
PreemptionStudy ==
  Unit(Study(Preflight,
             LongContext("b70-m06-screen") \o <<Note({Rejected})>>
             \o Maybe(LongContext("b70-m06-confirm")
                      \o Maybe(PrefixState \o <<Note({Complete})>>))
             \o <<Save>>),
       RestoreProduction)

DirectServingArm == Engine("b70-direct-serving-arm")
DirectOutputServing ==
  Unit(Study(Preflight \o <<Pinned>>,
             Each(DirectServingArm) \o <<Note({Rejected})>>
             \o Maybe(LongContext("b70-direct-serving-196k") \o <<Note({Complete, Rejected})>>)
             \o <<Save>>),
       RestoreProduction)

SharedKvArm == Engine("b70-m04-serving-arm")
SharedKvServing ==
  Unit(Study(Preflight \o <<Pinned>>,
             Each(SharedKvArm) \o <<Note({Rejected})>>
             \o Maybe(LongContext("b70-m04-control-196k")
                      \o LongContext("b70-m04-serving-196k") \o <<Note({Complete, Rejected})>>)
             \o <<Save>>),
       RestoreProduction)

SharedKvLong ==
  Unit(Study(Preflight \o <<Pinned>>,
             LongContext("b70-m04-control-196k") \o LongContext("b70-m04-candidate-196k")
             \o Conclude({Complete, Rejected})),
       RestoreProduction)

\* An operator screen: one container in the foreground, stopped by name.
Screen(c, statuses) ==
  Preflight \o <<Pinned>>
  \o Try(Try(<<Stop>> \o Foreground(c) \o Conclude(statuses), ExceptSave(Anything)),
         <<Down(c)>> \o RestoreProduction)
SharedKvStudy == Unit(Screen("b70-shared-kv-verification-probe", {Complete, Rejected}), RestoreProduction)
GptqSmallM == Unit(Screen("b70-gptq-small-m-probe", {Complete, Rejected}), RestoreProduction)
DirectOutputStudy == Unit(Screen("b70-direct-output-probe", {Complete}), RestoreProduction)

\* Four arms under one finally; --resume takes up the record of an earlier run.
TargetHeadArms(c) == Each(<<Spawn(c), Ready(c)>> \o Work \o <<Down(c)>>)
TargetHead(begin, manifest) ==
  Unit(<<begin, TryLock, Idle, Inspect, manifest>>
       \o Try(Try(<<Stop>> \o TargetHeadArms("b70-m06-target-head-arm") \o <<Note({Complete})>>,
                  Except(Anything)),
              <<Down("b70-m06-target-head-arm"), Save>> \o RestoreProduction),
       RestoreProduction)
TargetHeadServing == TargetHead(Open, Announce)
TargetHeadResumed == TargetHead(Reopen, Same)

\* Scripts of the first hour: no lock, no name, and health only reported.
BackAgain == <<Save, Start, Poll>>
Int2DraftHead ==
  <<Open>> \o Try(Try(<<Stop>> \o Foreground(Unnamed) \o <<Note({Complete, Failed})>>,
                      Except({Error}) \o Swallow({Error})),
                  BackAgain)
TargetHeadStudy ==
  <<Open>> \o Try(Try(<<Stop>> \o Foreground(Unnamed) \o <<Note({Complete, Failed})>>,
                      Except({Error}) \o Swallow({Error})),
                  BackAgain)
DraftHeadCapture ==
  <<Open>> \o Try(Try(Work \o <<Stop, Spawn("b70-m05-capture"), Ready("b70-m05-capture")>>
                      \o Work \o <<Note({Complete})>>,
                      Except({Error})),
                  <<Down("b70-m05-capture")>> \o BackAgain)

\* run-decode-investigation.py: its own restoration, also callable on its own.
Restore == <<Down("b70-decode-investigation"), Start, Await>> \o Work
InvestigationArm ==
  Try(<<Spawn("b70-decode-investigation"), Ready("b70-decode-investigation")>> \o Work,
      <<Down("b70-decode-investigation")>>)
LinearProbes == Maybe(Each(Foreground(Unnamed)))
DecodeInvestigation ==
  <<Open, TryLock, Idle>> \o Work
  \o Try(Try(<<Stop>> \o Each(InvestigationArm) \o LinearProbes \o <<Note({Complete})>>,
             Except(Anything)),
         <<Save>> \o Restore)
DecodeRestore == <<Finished("decode_investigation")>> \o Restore

\* Control after candidate; only a run that stopped the candidate brings it back.
RestoreCandidate == <<Down("b70-heldout-control"), Start, Await>>
CandidateArm == <<Announce, Ask>>               \* run-heldout-quality.py on the service
ControlEngine == <<Spawn("b70-heldout-control"), Ready("b70-heldout-control")>>
Compare == Work                                 \* the rows of both arms
\* The note is the flag paired_complete: once the rows are compared the record will
\* say complete, whatever is raised after that.  (An error of the status that
\* follows is written as failed until the clause overwrites it: left out, whoever
\* reads the record in between is refused as before.)
HeldoutControl ==
  <<Note({Failed})>>
  \o Try(Try(<<Stop>> \o ControlEngine \o Work \o Compare, ExceptSave({Error}))
         \o <<Note({Complete}), Announce>>,
         <<Announce>> \o RestoreCandidate \o <<Save>>)
HeldoutPaired ==
  <<Open, TryLock, Idle>> \o Work \o Try(CandidateArm, ExceptSave({Error})) \o HeldoutControl

\* Three fresh workers of the candidate service, when the paired run is over.
IntegratedServing ==
  <<Open>> \o Try(<<Outcome("heldout_paired"), WaitLock>> \o Work \o <<Await>>
                  \o Each(<<Restart, Await>> \o ServingWorker) \o Conclude({Complete}),
                  ExceptSave({Error}))

\* The profiles of the README, measured on the service itself.
EnsureServing == <<Start, Await>>
ReadmeBenchmarks ==
  <<Fresh, TryLock, Open>>
  \o Try(Try(Work \o <<Restart, Await, Identify, Announce>> \o ProfileWaves
             \o <<SameWorker, Announce>> \o CodingSession \o <<SameWorker>> \o Conclude({Complete}),
             ExceptSave(Anything)),
         EnsureServing)
ProductionRegression ==
  <<Announce>> \o Try(<<Await>> \o Each(Work) \o Conclude({Complete}), ExceptSave({Error}))

\* Recorded coding histories again, on production and on the EXL3 worker.
CampaignRestore == <<Down("b70-exl3xpu-coding"), Start, Await>> \o Work
ReplayEngine(begin) == begin \o Work
WebCodingReplay ==
  <<Fresh, TryLock, Open>>
  \o Try(Try(ReplayEngine(<<Down("b70-exl3xpu-coding"), Restart, Await>>)
             \o ReplayEngine(<<Stop, Up("b70-exl3xpu-coding")>>) \o Conclude({Complete}),
             ExceptSave(Anything)),
         CampaignRestore)
ColdDiagnostic ==
  <<Fresh, TryLock, Open>>
  \o Try(Try(<<Stop, Up("b70-exl3xpu-coding")>> \o Work \o <<Note({Complete})>>,
             Except(Anything)),
         <<Save>> \o CampaignRestore)
=============================================================================
