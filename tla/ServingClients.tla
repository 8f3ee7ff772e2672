-------------------------- MODULE ServingClients --------------------------
(* The benchmarks that only ask: clients of whatever worker serves at       *)
(* production's port.  They take no lock and start nothing; some note the   *)
(* container they began with and compare it again later.                    *)
EXTENDS DriverSteps

(* run-web-coding-benchmark.py: an agent's session on a web project.        *)
BoundOutput == <<Ask>>                          \* /tokenize, before room is reserved
Stream == <<Ask>>
WaitAccounted == <<Ask>>                        \* counters, until this request is in them
\* A tool that fails is an answer to the model.
Execute == Try(Work, Swallow({Error}))
WebRequest ==
  Work \o BoundOutput \o <<Announce>> \o Stream \o WaitAccounted \o <<SameWorker>> \o Execute
WebStage == WebRequest \o Work                  \* acceptance and browser checks
WebPreconditions == Work \o <<Fresh, Ask, Identify, Ask, Open>>
WebCodingBenchmark ==
  WebPreconditions
  \o Try(Try(Each(WebStage) \o <<Note({Complete})>>, Except(Anything)), <<Save>>)

(* run-coding-benchmark.py: the container is looked at once, at the start.  *)
ExecuteTool == Try(Work, Swallow({Error}))
CodingTask == <<Ask>> \o ExecuteTool \o Work    \* and acceptance()
CodingSession == <<Ask>> \o Each(CodingTask) \o <<Ask>>
CodingBenchmark ==
  Work \o <<Identify, Ask, Fresh, Open>> \o CodingSession \o Conclude({Complete})

(* current-profile-benchmark.py: waves of requests on an idle engine; what  *)
(* there is of the results is written in the finally clause.                *)
ProfileWaves == Each(<<Ask>>)
CurrentProfile ==
  <<Identify, Ask, Idle, Open>> \o Try(ProfileWaves \o <<Note({Complete})>>, <<Save>>)

(* context-benchmark.py and benchmark.py: one request after the other.      *)
ContextRequest == <<Idle, Ask>> \o Work
ContextBenchmark == <<Open>> \o Work \o Each(ContextRequest) \o Conclude({Complete})
SourceRequest == <<Ask>> \o Work \o <<Announce>>
SourceBenchmark == <<Idle>> \o Each(SourceRequest)

(* run-heldout-quality.py: the container is compared before each task.      *)
NormalRequest == Maybe(<<Ask>>) \o <<Ask>>      \* near capacity, the prompt is counted
AgentRequest == <<Ask>> \o ExecuteTool \o Work
HeldoutTask == <<SameWorker, Ask>> \o AgentRequest \o Maybe(NormalRequest) \o <<Ask>>
HeldoutQuality == Work \o <<Identify, Ask, Fresh, Open>> \o Each(HeldoutTask) \o Conclude({Complete})

(* run-integrated-serving-worker.py: groups of requests on one worker.      *)
GroupRun == <<Ask>> \o Work
ServingWorker == <<Identify>> \o Each(<<SameWorker>> \o GroupRun)
=============================================================================
