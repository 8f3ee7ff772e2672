---------------------------- MODULE DriverTable ----------------------------
(* The drivers of scripts/ by name, and the instances that are checked.     *)
(* nothing is a process that is not there.                                  *)
EXTENDS GptqStudies, Exl3Studies, TLC

CONSTANTS p1, p2    \* the processes

MCPrograms ==
  [nothing |-> <<>>,
   restore_production |-> RestoreProduction,
   diagnostics |-> Diagnostics,
   preemption_study |-> PreemptionStudy,
   direct_output_serving |-> DirectOutputServing,
   shared_kv_serving |-> SharedKvServing,
   shared_kv_long |-> SharedKvLong,
   shared_kv_study |-> SharedKvStudy,
   gptq_small_m |-> GptqSmallM,
   direct_output_study |-> DirectOutputStudy,
   target_head_serving |-> TargetHeadServing,
   target_head_resumed |-> TargetHeadResumed,
   int2_draft_head |-> Int2DraftHead,
   target_head_study |-> TargetHeadStudy,
   draft_head_capture |-> DraftHeadCapture,
   decode_investigation |-> DecodeInvestigation,
   decode_restore |-> DecodeRestore,
   heldout_paired |-> HeldoutPaired,
   heldout_quality |-> HeldoutQuality,
   integrated_serving |-> IntegratedServing,
   web_coding_benchmark |-> WebCodingBenchmark,
   coding_benchmark |-> CodingBenchmark,
   current_profile |-> CurrentProfile,
   context_benchmark |-> ContextBenchmark,
   source_benchmark |-> SourceBenchmark,
   readme_benchmarks |-> ReadmeBenchmarks,
   production_regression |-> ProductionRegression,
   web_coding_replay |-> WebCodingReplay,
   cold_diagnostic |-> ColdDiagnostic,
   contract_diagnostics |-> ContractDiagnostics,
   contract_restoring |-> ContractRestoring,
   quality_stages |-> QualityStages,
   long_reference |-> LongReference,
   long_candidate |-> LongCandidate,
   mtp_study |-> MtpStudy,
   component_profile |-> ComponentProfile,
   eager_trace |-> EagerTrace,
   generation_probe |-> GenerationProbe,
   vocabulary_study |-> VocabularyStudy,
   shared_kv_probe |-> SharedKvProbe,
   m04_serving |-> M04Serving,
   matched_state |-> MatchedState,
   migration_gates |-> MigrationGates,
   rows_gate |-> RowsGate,
   mixed_qualification |-> MixedQualification,
   final_operations |-> FinalOperations,
   final_quality |-> FinalQuality,
   final_performance |-> FinalPerformance,
   final_readme |-> FinalReadme,
   review_serving |-> ReviewServing,
   review_offline |-> ReviewOffline,
   review_qualification |-> ReviewQualification,
   review_micro |-> ReviewMicro,
   power_benchmarks |-> PowerBenchmarks]

\* Each driver on its own, and pairs that contend.
Pair(j, k) == (p1 :> j) @@ (p2 :> k)
MCJobs == DOMAIN MCPrograms
Single == {Pair(j, "nothing") : j \in MCJobs \ {"nothing"}}
Alike == {Pair(j, j) : j \in {"readme_benchmarks", "target_head_resumed", "review_qualification",
                              "migration_gates"}}
Unlike == {Pair("long_reference", "long_candidate"), Pair("heldout_paired", "integrated_serving"),
           Pair("restore_production", "contract_diagnostics"),
           Pair("decode_restore", "decode_investigation"),
           Pair("review_serving", "review_qualification"), Pair("mtp_study", "m04_serving"),
           Pair("gptq_small_m", "direct_output_study"),
           Pair("web_coding_benchmark", "direct_output_study")}
MCStarts == Single \cup Alike \cup Unlike
Twice == {"heldout_paired", "final_operations", "final_readme", "review_qualification",
          "power_benchmarks", "readme_benchmarks"}
Never == {"target_head_resumed", "migration_gates", "web_coding_benchmark", "gptq_small_m"}
MCMaxFaults == [f \in MCStarts |-> IF f \in Single THEN IF f[p1] \in Twice THEN 2 ELSE 1
                                   ELSE IF f[p1] \in Never THEN 0 ELSE 1]
=============================================================================
