--------------------------- MODULE Exl3Studies ---------------------------
(* The drivers of the EXL3 migration and of its release.  They hand each    *)
(* other records: each asks for those of the drivers before it, final and   *)
(* of the image it is about to run.  Most leave production stopped.         *)
EXTENDS DriverSteps

Probe == "b70-exl3-m04-probe"
Quality == "b70-exl3-review-quality"

\* Stop production, measure, and leave it stopped, with the record saved last.
Offline(c, body) ==
  Try(Try(<<Stop>> \o body \o <<Note({Complete})>>, Except(Anything)), <<Down(c), Stop, Save>>)

-----------------------------------------------------------------------------
(* exl3_candidate_worker.py: a worker by image id and fixed name.           *)
WorkerStart(c) == <<Up(c)>>
WorkerStop(c) == <<Down(c)>>
Worker(c) == Try(WorkerStart(c) \o Work, WorkerStop(c))

-----------------------------------------------------------------------------
(* The target model: contract, precision, long contexts.                    *)
ContractCase == Worker("b70-exl3-migration-contract")
ContractCampaign(leave) ==
  <<Fresh, Inspect>> \o Work \o <<TryLock, Open>>
  \o Try(Try(<<Stop>> \o Each(Maybe(ContractCase)) \o <<Note({Complete})>>, ExceptSave(Anything)),
         <<Down("b70-exl3-migration-contract")>> \o leave \o <<Save>>)

ContractDiagnostics == ContractCampaign(<<Stop>>)
ContractRestoring == ContractCampaign(<<Start, Await>>)     \* --restore-production

QualityStages ==
  <<Fresh>> \o Work \o <<Inspect, WaitLock, Need("contract_diagnostics"), Open>>
  \o Try(Try(<<Stop>> \o Work \o Each(Maybe(Foreground("b70-exl3-quality-stages"))) \o Work
             \o <<Note({Complete})>>,
             ExceptSave(Anything)),
         <<Down("b70-exl3-quality-stages"), Stop, Save>>)

\* These two look for old evidence before they wait for the lock, never after.
LongReference ==
  <<Fresh, Inspect>> \o Work \o <<WaitLock, Need("contract_diagnostics"), Announce>>
  \o Offline("b70-exl3-long-reference", Foreground("b70-exl3-long-reference") \o Work)
LongCandidate ==
  <<Fresh, Inspect, WaitLock, Need("quality_stages"), Need("long_reference")>> \o Work \o <<Announce>>
  \o Offline("b70-exl3-long-candidate", Foreground("b70-exl3-long-candidate") \o Work)

-----------------------------------------------------------------------------
(* Speculative decoding and the attention kernel.                           *)
MtpArm == Worker("b70-exl3-mtp-study")
MtpStudy ==
  <<Fresh>> \o Work \o <<Inspect>> \o Work \o <<WaitLock, Need("long_candidate"), Open>>
  \o Offline("b70-exl3-mtp-study", Maybe(MtpArm) \o MtpArm)
ComponentProfile ==
  <<Fresh, Inspect, WaitLock, Need("mtp_study"), Need("long_candidate"), Open>>
  \o Offline("b70-exl3-component-profile", Each(Foreground("b70-exl3-component-profile")))
EagerTrace ==
  <<Fresh, Inspect, WaitLock, Need("component_profile"), Need("long_candidate"), Open>>
  \o Offline("b70-exl3-eager-trace", Foreground("b70-exl3-eager-trace") \o Work)
GenerationProbe ==
  <<Fresh, Inspect, WaitLock, Need("eager_trace"), Need("long_candidate"), Open>>
  \o Offline("b70-exl3-generation-probe", Each(Foreground("b70-exl3-generation-probe")))
VocabularyStudy ==
  <<Fresh, Inspect, WaitLock, Need("long_candidate"), Need("generation_probe"), Open>>
  \o Offline("b70-exl3-mtp-study", Each(Worker("b70-exl3-mtp-study")))
SharedKvProbe ==
  <<Fresh>> \o Work \o <<Inspect, WaitLock, Need("vocabulary_study"), Open>>
  \o Offline(Probe, Foreground(Probe) \o Work)
M04Serving ==
  <<Fresh, Inspect, WaitLock, Need("shared_kv_probe"), Need("vocabulary_study"), Open>>
  \o Offline("b70-exl3-mtp-study", <<Up("b70-exl3-mtp-study")>> \o Work)
MatchedState ==
  <<Open, Idle>> \o Work
  \o Try(Try(<<Stop>> \o Foreground("b70-exl3-matched-state") \o Work \o <<Note({Complete})>>,
             Except(Anything)),
         <<Down("b70-exl3-matched-state"), Start, Await, Save>>)

\* Production is brought back only by a run that knows it stopped it.
MigrationGates ==
  <<Fresh, Inspect, Announce>>
  \o Try(<<Stop>>, ExceptSave(Anything))
  \o Try(Try(Each(Try(Foreground("b70-exl3-native-gate"), <<Down("b70-exl3-native-gate")>>))
             \o <<Note({Complete})>>,
             ExceptSave(Anything)),
         <<Start, Poll, Save>>)

-----------------------------------------------------------------------------
(* Final qualification.                                                     *)
Candidate == "b70-exl3-qualification"
RowsGate == <<Fresh>> \o Work \o <<Note({Complete}), Save>>

\* The image is looked up again by tag for every arm, the last id is recorded.
MixedQualification ==
  <<Fresh>> \o Work \o <<WaitLock, Stop, Open>>
  \o Try(Try(Each(<<Inspect>> \o Worker(Candidate)) \o <<Note({Complete})>>, Except(Anything)),
         <<Stop, Save>>)

FinalOperations ==
  <<Fresh, WaitLock, Inspect, Need("mixed_qualification"), Finished("rows_gate"), Open, Stop>>
  \o Try(Try(WorkerStart(Candidate) \o Work, Except(Anything)), WorkerStop(Candidate) \o <<Save>>)
  \o Try(Try(Work \o Worker(Candidate) \o <<Note({Complete})>>, Except(Anything)), <<Save>>)
FinalQuality ==
  <<Fresh, Inspect, WaitLock, Need("mixed_qualification"), Finished("rows_gate")>> \o Work
  \o <<Open, Stop>>
  \o Try(Try(Each(Foreground(Unnamed)) \o <<Note({Complete})>>, Except(Anything)), <<Save>>)
\* Production is taken to be stopped still.
FinalPerformance ==
  <<Fresh, Inspect, WaitLock, Need("final_quality"), Need("final_operations"), Open>>
  \o Try(Try(Each(Worker(Candidate)) \o <<Note({Complete})>>, Except(Anything)), <<Save>>)

\* The rollback drill starts the old release under production's own name.
RollbackDrill ==
  Try(<<Spawn("b70-qwen38-vllm"), Ready("b70-qwen38-vllm")>> \o Work,
      Look \o <<Down("b70-qwen38-vllm"), Stop>>)
FinalReadme ==
  <<Fresh, WaitLock, Inspect, Need("final_operations"), Need("final_performance"), Open, Stop>>
  \o Try(Try(Each(Worker("b70-exl3-final-benchmark")) \o RollbackDrill
             \o Try(WorkerStart("b70-exl3-final-benchmark") \o Work,
                    WorkerStop("b70-exl3-final-benchmark") \o <<Stop>>)
             \o <<Note({Complete})>>,
             Except(Anything)),
         <<Save>>)

-----------------------------------------------------------------------------
(* The review release.                                                      *)
Others == {"b70-exl3-review-benchmark", "b70-exl3-review-qualification", Quality,
           "b70-exl3-power-worker", Candidate, "b70-exl3-final-benchmark", "b70-qwen38-vllm"}
ReviewRestore == <<Start, Await>>

\* Production is stopped before the try; --leave-offline skips the restoration.
ServingMatrix(restore) ==
  <<Fresh, Inspect>> \o Work \o <<TryLock, Open, Stop>>
  \o Try(Try(<<Alone(Others)>> \o Each(Worker("b70-exl3-review-benchmark")) \o <<Note({Complete})>>,
             Except(Anything)),
         restore \o <<Save>>)

ReviewServing == ServingMatrix(ReviewRestore)
ReviewOffline == ServingMatrix(<<>>)

ReviewPhases == Each(Maybe(Worker("b70-exl3-review-qualification"))) \o Maybe(Foreground(Quality))
ReviewQualification ==
  <<Open, Inspect, WaitLock, Need("review_serving"), Announce, Stop>>
  \o Try(Try(ReviewPhases \o <<Note({Complete})>>, Except(Anything)),
         <<Down(Quality)>> \o ReviewRestore \o <<Save>>)

ReviewMicro ==
  <<Open, Inspect, Idle>>
  \o Try(Try(<<Stop>> \o Each(Foreground(Unnamed)) \o <<Note({Complete})>>, Except(Anything)),
         ReviewRestore \o <<Save>>)

\* Errors of the cleanup are collected; the restoration is tried regardless.
PowerBenchmarks ==
  <<Fresh>> \o Work \o <<TryLock, Open>>
  \o Try(Try(Try(Try(<<Stop, Alone(Others)>> \o Each(Worker("b70-exl3-power-worker"))
                     \o <<Note({Complete})>>,
                     Except(Anything)),
                 <<Down("b70-exl3-power-worker")>>),
             Except(Anything) \o Work \o ReviewRestore),
         Except(Anything) \o <<Save>>)
=============================================================================
