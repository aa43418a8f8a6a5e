------------------------------ MODULE Benchmark ------------------------------
(***************************************************************************)
(* One `elastic-package benchmark` command: benchrunner.Run drives a       *)
(* pipeline, rally, stream or system runner through SetUp, Run and, always,*)
(* TearDown.                                                               *)
(*                                                                         *)
(* A runner is a list of calls still to make (calls).  Most of them are    *)
(* requests that can fail, that can be applied and still lose their        *)
(* answer, and that fail once SIGINT cancelled the context; what a call    *)
(* created is in `res`, and a clean-up handler is in `handlers` only when  *)
(* the code got as far as registering it.  TearDown runs the handlers in a *)
(* fixed order, without cancellation.  Two kinds of goroutines run beside  *)
(* the runner: the metrics collector of the rally and system runners, and  *)
(* the event generators of the stream runner.                              *)
(***************************************************************************)
EXTENDS Naturals, Sequences, FiniteSets

CONSTANTS
    Agents,        \* agents enrolled in Fleet that a system benchmark uses
    Generators,    \* generators of a stream benchmark that run for ever
    Backfills,     \* generators of a stream benchmark that end
    Pipelines,     \* ingest pipelines of the data stream
    MaxEvents      \* bound: documents a benchmark puts in its data stream

ASSUME BenchmarkAssumption ==
    /\ MaxEvents \in Nat \ {0}
    /\ Generators \cap Backfills = {}

BenchmarkKinds == {"rally", "system", "stream", "pipeline"}

\* Flags and configuration: --perform-cleanup of the stream benchmark,
\* --dry-run, --rally-track-output-dir, reindexing, a metricstore, a service
\* and a time period in the scenario of a system benchmark.
Flags == {"cleanup", "dryrun", "outputDir", "reindex", "metricstore", "service", "period"}

RallyFlags == {"dryrun", "outputDir", "reindex", "metricstore"}
SystemFlags == {"reindex", "metricstore", "service", "period"}
StreamFlags == {"cleanup"}

FlagsOf(k) ==
    CASE k = "rally" -> RallyFlags
      [] k = "system" -> SystemFlags
      [] k = "stream" -> StreamFlags
      [] k = "pipeline" -> {}

\* The calls of SetUp, of Run and of TearDown, in their order.
RallySetUp == <<"install", "generator", "wipe", "cleared">>
SystemSetUp(f) ==
    (IF "service" \in f THEN <<"service">> ELSE << >>)
    \o <<"generator", "policy", "wipe", "cleared">>
StreamSetUp(f) ==
    <<"generator", "install">> \o (IF "cleanup" \in f THEN <<"wipe", "cleared">> ELSE << >>)
PipelineSetUp == <<"pipelines">>

RallyRun == <<"startMetrics", "corpus", "track", "race", "stopMetrics", "reindex">>
SystemRun ==
    <<"startMetrics", "corpus", "enroll", "signal", "finish", "stopMetrics", "reindex">>

\* Mutant: the corpus is removed before the track is saved.
RallyTearDownCorpusFirst == <<"defer", "package", "docs", "corpus", "persist">>

RallyTearDown == <<"defer", "persist", "package", "docs", "corpus">>
\* Mutant: the policy is deleted before the agents are moved back.
SystemTearDownPolicyFirst == <<"defer", "policy", "agents", "service", "docs", "corpus">>

SystemTearDown == <<"defer", "agents", "policy", "service", "docs", "corpus">>

\* Without --perform-cleanup the handlers are dropped.
StreamTearDown(f) == IF "cleanup" \in f THEN <<"package", "docs">> ELSE << >>

SetUpCalls(k, f) ==
    CASE k = "rally" -> RallySetUp
      [] k = "system" -> SystemSetUp(f)
      [] k = "stream" -> StreamSetUp(f)
      [] k = "pipeline" -> PipelineSetUp

RunCalls(k) ==
    CASE k = "rally" -> RallyRun
      [] k = "system" -> SystemRun
      [] k = "stream" -> <<"stream">>
      [] k = "pipeline" -> <<"simulate">>

TearDownCalls(k, f) ==
    CASE k = "rally" -> RallyTearDown
      [] k = "system" -> SystemTearDown
      [] k = "stream" -> StreamTearDown(f)
      [] k = "pipeline" -> <<"pipelines">>

\* What a benchmark can leave behind.  "agents" stands for agents that were
\* moved to the benchmark policy, "persist" for the copy of the rally track.
Resources ==
    {"package", "service", "policy", "agents", "docs", "corpus", "track", "pipelines"}
Handlers == (Resources \ {"track"}) \cup {"persist"}

VARIABLES
    kind, flags,   \* the command
    ctx,           \* the context of the command: "live" or "cancelled" by SIGINT
    phase,         \* "setup", "run", "teardown" or "end"
    calls,         \* the calls of this phase still to make
    outcome,       \* what benchrunner.Run returns: "ok", "error" or "dryrun"
    process,       \* "up", or "crashed" by a panic in a goroutine
    handlers,      \* clean-up handlers registered
    lost,          \* resources made by a call that returned an error
    tdErr,         \* handlers that failed in TearDown
    pkg, service, policy, corpus, track,   \* what exists outside
    saved,         \* files copied to the output directory
    pipelines,     \* pipelines installed in Elasticsearch
    events,        \* documents in the data stream
    agents,        \* the policy of each agent: "orig" or "bench"
    collector,     \* goroutine of the metrics collector
    baseline,      \* node statistics were collected at the start
    oldHits,       \* the hits waitUntilBenchmarkFinishes saw last
    gens,          \* state of each generator goroutine
    stream         \* the main goroutine of the stream run

command == <<kind, flags>>
control == <<phase, calls, outcome, process, handlers, lost, tdErr>>
artifacts == <<pkg, service, policy, corpus, track, saved, pipelines, events, agents>>
routines == <<collector, baseline, oldHits, gens, stream>>
benchmarkVars == <<command, ctx, control, artifacts, routines>>

BenchmarkTypeOK ==
    /\ kind \in BenchmarkKinds /\ flags \subseteq FlagsOf(kind)
    /\ ctx \in {"live", "cancelled"}
    /\ phase \in {"setup", "run", "teardown", "end"}
    /\ outcome \in {"ok", "error", "dryrun"}
    /\ process \in {"up", "crashed"}
    /\ handlers \subseteq Handlers /\ lost \subseteq Resources /\ tdErr \subseteq Handlers
    /\ {pkg, service, policy, corpus, track} \subseteq BOOLEAN
    /\ saved \subseteq {"track", "corpus"}
    /\ pipelines \subseteq Pipelines
    /\ events \in 0..MaxEvents /\ oldHits \in 0..MaxEvents
    /\ agents \in [Agents -> {"orig", "bench"}]
    /\ collector \in {"none", "on", "stopping", "done"}
    /\ baseline \in BOOLEAN
    /\ gens \in [Generators \cup Backfills -> {"idle", "running", "sending", "done"}]
    /\ stream \in {"none", "select", "drain", "closed"}

\* What of the run still exists.
Left ==
    {r \in Resources :
        \/ r = "package" /\ pkg
        \/ r = "service" /\ service
        \/ r = "policy" /\ policy
        \/ r = "agents" /\ \E a \in Agents : agents[a] = "bench"
        \/ r = "docs" /\ events > 0
        \/ r = "corpus" /\ corpus
        \/ r = "track" /\ track
        \/ r = "pipelines" /\ pipelines # {}}

\* The command has parsed its flags and checked the health of Elasticsearch;
\* documents of an earlier run may be in the data stream.
BenchmarkInit ==
    /\ kind \in BenchmarkKinds /\ flags \in SUBSET FlagsOf(kind)
    /\ ctx = "live" /\ phase = "setup" /\ calls = SetUpCalls(kind, flags)
    /\ outcome = "ok" /\ process = "up"
    /\ handlers = {} /\ lost = {} /\ tdErr = {}
    /\ pkg = FALSE /\ service = FALSE /\ policy = FALSE /\ corpus = FALSE /\ track = FALSE
    /\ saved = {} /\ pipelines = {}
    /\ events \in IF kind = "pipeline" THEN {0} ELSE {0, MaxEvents}
    /\ agents = [a \in Agents |-> "orig"]
    /\ collector = "none" /\ baseline = FALSE /\ oldHits = 0
    /\ gens = [g \in Generators \cup Backfills |-> "idle"]
    /\ stream = "none"

Calling(p, call) == phase = p /\ calls # << >> /\ Head(calls) = call

\* The pending call returned without an error.
Return == calls' = Tail(calls) /\ UNCHANGED <<phase, outcome>>

\* Mutant: Run returns without the deferred stop of the collector.
AbortAtOnce(result) ==
    /\ outcome' = result
    /\ phase' = "teardown" /\ calls' = TearDownCalls(kind, flags)

\* The pending call returned an error: SetUp or Run returns.  The deferred
\* stop of the collector comes before TearDown.
Abort(result) ==
    /\ outcome' = result
    /\ IF collector = "on"
          THEN calls' = <<"stopMetrics">> /\ UNCHANGED phase
          ELSE phase' = "teardown" /\ calls' = TearDownCalls(kind, flags)

\* A request with the context of the command answers.
Answers == ctx = "live"

Register(h) == handlers' = handlers \cup {h}
Keep == UNCHANGED <<handlers, lost>>
-----------------------------------------------------------------------------
(* SetUp                                                                   *)

\* Install the package; the handler is registered after the installation.
InstallPackage ==
    /\ Calling("setup", "install")
    /\ \/ Answers /\ Return /\ pkg' = TRUE /\ Register("package") /\ UNCHANGED lost
       \/ Abort("error") /\ \E applied \in BOOLEAN :
            /\ pkg' = applied
            /\ lost' = IF applied THEN lost \cup {"package"} ELSE lost
            /\ UNCHANGED handlers
    /\ UNCHANGED <<command, ctx, process, tdErr, service, policy, corpus, track, saved, pipelines,
                   events, agents, routines>>

\* Read the configuration of the generator, the manifests and, for a TSDB
\* data stream, the simulated index template.
InitializeGenerator ==
    /\ Calling("setup", "generator")
    /\ Return \/ Abort("error")
    /\ Keep /\ UNCHANGED <<command, ctx, process, tdErr, artifacts, routines>>

\* Deploy the service of the scenario; it is up even if the deployer then
\* returns an error.
SetupService ==
    /\ Calling("setup", "service")
    /\ \/ Answers /\ Return /\ service' = TRUE /\ Register("service") /\ UNCHANGED lost
       \/ Abort("error") /\ \E applied \in BOOLEAN :
            /\ service' = applied
            /\ lost' = IF applied THEN lost \cup {"service"} ELSE lost
            /\ UNCHANGED handlers
    /\ UNCHANGED <<command, ctx, process, tdErr, pkg, policy, corpus, track, saved, pipelines,
                   events, agents, routines>>

\* Create the agent policy, register its handler, then add the package policy.
CreateBenchmarkPolicy ==
    /\ Calling("setup", "policy")
    /\ \/ /\ Answers /\ policy' = TRUE /\ Register("policy") /\ UNCHANGED lost
          /\ Return \/ Abort("error")
       \/ Abort("error") /\ \E applied \in BOOLEAN :
            /\ policy' = applied
            /\ lost' = IF applied THEN lost \cup {"policy"} ELSE lost
            /\ UNCHANGED handlers
    /\ UNCHANGED <<command, ctx, process, tdErr, pkg, service, corpus, track, saved, pipelines,
                   events, agents, routines>>

\* Register the handler, then delete the documents of the data stream.
WipeDataStream ==
    /\ Calling("setup", "wipe")
    /\ Register("docs")
    /\ \/ Answers /\ Return /\ events' = 0
       \/ Abort("error") /\ events' \in {0, events}
    /\ UNCHANGED <<command, ctx, process, lost, tdErr, pkg, service, policy, corpus, track, saved,
                   pipelines, agents, routines>>

\* Poll until the data stream is empty; the poll may time out or fail.
WaitCleared ==
    /\ Calling("setup", "cleared")
    /\ (Answers /\ events = 0 /\ Return) \/ Abort("error")
    /\ Keep /\ UNCHANGED <<command, ctx, process, tdErr, artifacts, routines>>

\* Install the ingest pipelines one by one.  On an error the list of
\* pipelines is dropped, so TearDown removes none of those installed.
InstallBenchmarkPipelines ==
    /\ Calling("setup", "pipelines")
    /\ \/ Answers /\ Return /\ pipelines' = Pipelines /\ Register("pipelines")
          /\ UNCHANGED lost
       \/ Abort("error") /\ \E done \in SUBSET Pipelines :
            /\ pipelines' = done
            /\ lost' = IF done # {} THEN lost \cup {"pipelines"} ELSE lost
            /\ UNCHANGED handlers
    /\ UNCHANGED <<command, ctx, process, tdErr, pkg, service, policy, corpus, track, saved,
                   events, agents, routines>>

\* SetUp has returned nil.
EnterRun ==
    /\ phase = "setup" /\ calls = << >>
    /\ phase' = "run" /\ calls' = RunCalls(kind)
    /\ Keep
    /\ UNCHANGED <<command, ctx, outcome, process, tdErr, artifacts, routines>>
-----------------------------------------------------------------------------
(* Run of the rally and system runners, and their metrics collector        *)

\* collector.start: the rally collector takes its first metrics before it
\* starts the goroutine, and a request for them may fail.
StartMetrics ==
    /\ Calling("run", "startMetrics")
    /\ Return /\ Keep
    /\ collector' = "on"
    /\ baseline' \in IF kind = "rally" THEN BOOLEAN ELSE {FALSE}
    /\ UNCHANGED <<command, ctx, process, tdErr, artifacts, oldHits, gens, stream>>

\* createEventsFromMetrics dereferences the node statistics: always in the
\* system collector, and in the rally collector when there were some at the
\* start.  Without statistics the goroutine panics and the process is gone.
RallyPanics(stats) == ~stats /\ baseline
SystemPanics(stats) == ~stats

Panic ==
    /\ process' = "crashed" /\ phase' = "end" /\ calls' = << >> /\ outcome' = "error"
    /\ UNCHANGED <<handlers, lost, tdErr>>

\* A tick of the system collector, once the data stream exists.
MetricsTick ==
    /\ phase # "end" /\ kind = "system" /\ collector = "on" /\ events > 0
    /\ \E stats \in BOOLEAN :
        IF SystemPanics(stats)
           THEN Panic /\ UNCHANGED baseline
           ELSE baseline' = stats /\ UNCHANGED control
    /\ UNCHANGED <<command, ctx, artifacts, collector, oldHits, gens, stream>>

\* collector.stop closes the channel and waits for the goroutine.
StopMetrics ==
    /\ Calling("run", "stopMetrics") /\ collector = "on"
    /\ collector' = "stopping"
    /\ UNCHANGED <<command, ctx, control, artifacts, baseline, oldHits, gens, stream>>

\* The goroutine takes the last metrics and ends.
LastCollect ==
    /\ phase # "end" /\ collector = "stopping"
    /\ \E stats \in BOOLEAN :
        IF (kind = "rally" /\ RallyPanics(stats)) \/ (kind = "system" /\ SystemPanics(stats))
           THEN Panic /\ UNCHANGED collector
           ELSE collector' = "done" /\ UNCHANGED control
    /\ UNCHANGED <<command, ctx, artifacts, baseline, oldHits, gens, stream>>

\* The goroutine is done: stop returns, in Run or in its deferred call.
MetricsStopped ==
    /\ Calling("run", "stopMetrics") /\ collector = "done"
    /\ IF outcome = "ok"
          THEN Return
          ELSE /\ phase' = "teardown" /\ calls' = TearDownCalls(kind, flags)
               /\ UNCHANGED outcome
    /\ Keep /\ UNCHANGED <<command, ctx, process, tdErr, artifacts, routines>>

\* Write the corpus with the generator, or copy the given one.  The handler
\* is registered once all of it is written; a rally corpus must not be empty.
WriteCorpus ==
    /\ Calling("run", "corpus")
    /\ \/ Return /\ corpus' = TRUE /\ Register("corpus") /\ UNCHANGED lost
       \/ kind = "system" /\ Return /\ Keep /\ UNCHANGED corpus   \* no generator
       \/ Abort("error") /\ \E written \in BOOLEAN :
            /\ corpus' = written
            /\ lost' = IF written THEN lost \cup {"corpus"} ELSE lost
            /\ UNCHANGED handlers
       \/ Abort("error") /\ corpus' = TRUE /\ Register("corpus") /\ UNCHANGED lost
    /\ UNCHANGED <<command, ctx, process, tdErr, pkg, service, policy, track, saved, pipelines,
                   events, agents, routines>>

\* Write the track and create the report file; register the handler that
\* saves the track.  A dry run stops here.
CreateRallyTrack ==
    /\ Calling("run", "track")
    /\ \/ /\ track' = TRUE
          /\ IF "outputDir" \in flags THEN Register("persist") ELSE UNCHANGED handlers
          /\ IF "dryrun" \in flags THEN Abort("dryrun") ELSE Return
          /\ UNCHANGED lost
       \/ /\ Abort("error") /\ track' \in BOOLEAN
          /\ lost' = IF track' THEN lost \cup {"track"} ELSE lost
          /\ UNCHANGED handlers
    /\ UNCHANGED <<command, ctx, process, tdErr, pkg, service, policy, corpus, saved, pipelines,
                   events, agents, routines>>

\* Run esrally and read its report.
RunRally ==
    /\ Calling("run", "race")
    /\ events' \in 0..MaxEvents
    /\ (events' > 0 /\ Return) \/ Abort("error")
    /\ Keep
    /\ UNCHANGED <<command, ctx, process, tdErr, pkg, service, policy, corpus, track, saved,
                   pipelines, agents, routines>>

\* Move every agent to the benchmark policy.  The handler that moves them
\* back is registered when all of them are moved.
EnrollAgents ==
    /\ Calling("run", "enroll")
    /\ \/ /\ Answers /\ Return /\ Agents # {}
          /\ agents' = [a \in Agents |-> "bench"]
          /\ Register("agents") /\ UNCHANGED lost
       \/ Abort("error") /\ \E moved \in SUBSET Agents :
            /\ agents' = [a \in Agents |-> IF a \in moved THEN "bench" ELSE "orig"]
            /\ lost' = IF moved # {} THEN lost \cup {"agents"} ELSE lost
            /\ UNCHANGED handlers
    /\ UNCHANGED <<command, ctx, process, tdErr, pkg, service, policy, corpus, track, saved,
                   pipelines, events, routines>>

\* Tell the service that the agents are ready.
SignalService ==
    /\ Calling("run", "signal")
    /\ Return \/ ("service" \in flags /\ Abort("error"))
    /\ Keep /\ UNCHANGED <<command, ctx, process, tdErr, artifacts, routines>>

\* An agent with the benchmark policy sends an event of the service or corpus.
Ingest ==
    /\ phase # "end" /\ events < MaxEvents
    /\ service \/ corpus
    /\ \E a \in Agents : agents[a] = "bench"
    /\ events' = events + 1
    /\ UNCHANGED <<command, ctx, control, pkg, service, policy, corpus, track, saved, pipelines,
                   agents, routines>>

\* One poll of waitUntilBenchmarkFinishes: with a time period the benchmark
\* ends when the timer has fired, without one when two polls agree; never
\* while the data stream is empty.
PollHits ==
    /\ Calling("run", "finish") /\ Answers /\ events > 0
    /\ oldHits' = events
    /\ IF "period" \in flags
          THEN Return \/ UNCHANGED control   \* the timer has fired, or not yet
          ELSE IF events = oldHits THEN Return ELSE UNCHANGED control
    /\ Keep
    /\ UNCHANGED <<command, ctx, process, tdErr, artifacts, collector, baseline, gens, stream>>

\* The count fails, the wait times out or the context is cancelled.
FinishFails ==
    /\ Calling("run", "finish") /\ Abort("error")
    /\ Keep /\ UNCHANGED <<command, ctx, process, tdErr, artifacts, routines>>

\* Copy the documents to the metricstore.  After the first page of hits the
\* loop decodes the body of the first response again, which is exhausted.
ReindexData ==
    /\ Calling("run", "reindex")
    /\ IF "reindex" \notin flags THEN Return
       ELSE IF "metricstore" \notin flags THEN Abort("error")
       ELSE (events = 0 /\ Return) \/ Abort("error")
    /\ Keep /\ UNCHANGED <<command, ctx, process, tdErr, artifacts, routines>>

\* Simulate the pipelines with the documents of the benchmark.
SimulatePipeline ==
    /\ Calling("run", "simulate")
    /\ (Answers /\ Return) \/ Abort("error")
    /\ Keep /\ UNCHANGED <<command, ctx, process, tdErr, artifacts, routines>>
-----------------------------------------------------------------------------
(* Run of the stream runner                                                *)

Streaming == Calling("run", "stream")

\* Start a goroutine for every generator, then wait for an error of one of
\* them or for the context.
StartStream ==
    /\ Streaming /\ stream = "none"
    /\ stream' = "select"
    /\ gens' = [g \in DOMAIN gens |-> "running"]
    /\ Keep /\ UNCHANGED <<command, ctx, phase, calls, outcome, process, tdErr, artifacts,
                           collector, baseline, oldHits>>

\* A bulk request stores events.
StreamEvents(g) ==
    /\ Streaming /\ gens[g] = "running" /\ events < MaxEvents
    /\ events' = events + 1
    /\ UNCHANGED <<command, ctx, control, pkg, service, policy, corpus, track, saved, pipelines,
                   agents, routines>>

\* A generator ends: with an error it has to send, or, a backfill, with none.
GeneratorFails(g) ==
    /\ Streaming /\ gens[g] = "running"
    /\ gens' = [gens EXCEPT ![g] = "sending"]
    /\ UNCHANGED <<command, ctx, control, artifacts, collector, baseline, oldHits, stream>>

\* Mutant: the run does not cancel its context after an error.
GeneratorCancelledBySignal(g) == ctx = "cancelled" /\ GeneratorFails(g)

GeneratorCancelled(g) ==
    /\ ctx = "cancelled" \/ stream = "drain"
    /\ GeneratorFails(g)

BackfillEnds(g) ==
    /\ Streaming /\ g \in Backfills /\ gens[g] = "running"
    /\ gens' = [gens EXCEPT ![g] = "done"]
    /\ UNCHANGED <<command, ctx, control, artifacts, collector, baseline, oldHits, stream>>

\* The main goroutine receives an error and cancels its context, or sees the
\* context cancelled; it then starts a goroutine that drains the channel.
StreamReceives(g) ==
    /\ Streaming /\ stream = "select" /\ gens[g] = "sending"
    /\ gens' = [gens EXCEPT ![g] = "done"]
    /\ stream' = "drain"
    /\ UNCHANGED <<command, ctx, control, artifacts, collector, baseline, oldHits>>

StreamInterrupted ==
    /\ Streaming /\ stream = "select" /\ ctx = "cancelled"
    /\ stream' = "drain"
    /\ UNCHANGED <<command, ctx, control, artifacts, collector, baseline, oldHits, gens>>

Drain(g) ==
    /\ Streaming /\ stream = "drain" /\ gens[g] = "sending"
    /\ gens' = [gens EXCEPT ![g] = "done"]
    /\ UNCHANGED <<command, ctx, control, artifacts, collector, baseline, oldHits, stream>>

\* Mutant: the run returns without waiting for its generators.
StreamReturnsAtOnce ==
    /\ Streaming /\ stream = "drain"
    /\ stream' = "closed" /\ Abort("error")
    /\ Keep /\ UNCHANGED <<command, ctx, process, tdErr, artifacts, collector, baseline, oldHits,
                           gens>>

\* The deferred calls: wait for the generators, close the channel, return.
StreamReturns ==
    /\ Streaming /\ stream = "drain"
    /\ \A g \in DOMAIN gens : gens[g] = "done"
    /\ stream' = "closed" /\ Abort("error")
    /\ Keep /\ UNCHANGED <<command, ctx, process, tdErr, artifacts, collector, baseline, oldHits,
                           gens>>

\* Run has returned.
EnterTearDown ==
    /\ phase = "run" /\ calls = << >>
    /\ phase' = "teardown" /\ calls' = TearDownCalls(kind, flags)
    /\ Keep
    /\ UNCHANGED <<command, ctx, outcome, process, tdErr, artifacts, routines>>
-----------------------------------------------------------------------------
(* TearDown: each handler runs once; its error is kept and the next runs   *)

\* What the handler h does when its requests succeed.
Release(h) ==
    /\ pkg' = (pkg /\ h # "package")
    /\ service' = (service /\ h # "service")
    /\ policy' = (policy /\ h # "policy")
    /\ agents' = IF h = "agents" THEN [a \in Agents |-> "orig"] ELSE agents
    /\ events' = IF h = "docs" THEN 0 ELSE events
    /\ corpus' = (corpus /\ h # "corpus")
    /\ pipelines' = IF h = "pipelines" THEN {} ELSE pipelines
    /\ saved' = IF h = "persist" /\ corpus THEN {"track", "corpus"} ELSE saved
    /\ UNCHANGED track

\* The copy of the track is removed when that of the corpus fails, which may
\* fail too; agents are moved back one by one.
ReleaseFails(h) ==
    /\ saved' \in IF h = "persist" THEN {saved, {"track"}} ELSE {saved}
    /\ agents' \in IF h = "agents"
                      THEN {[a \in Agents |-> IF a \in back THEN "orig" ELSE agents[a]] :
                               back \in SUBSET Agents}
                      ELSE {agents}
    /\ UNCHANGED <<pkg, service, policy, events, corpus, track, pipelines>>

\* The handlers of rally, system and stream run without cancellation; the
\* pipelines are removed with the context of the command.
HandlerAnswers(h) == h = "pipelines" => ctx = "live"

\* Mutant: TearDown returns at the first handler that fails.
RunHandlerUntilError(h) ==
    /\ Calling("teardown", h)
    /\ \/ h \notin handlers /\ calls' = Tail(calls) /\ UNCHANGED <<artifacts, tdErr>>
       \/ /\ h \in handlers /\ (h = "persist" => corpus) /\ calls' = Tail(calls)
          /\ Release(h) /\ UNCHANGED tdErr
       \/ /\ h \in handlers /\ calls' = << >>
          /\ ReleaseFails(h) /\ tdErr' = tdErr \cup {h}
    /\ UNCHANGED <<command, ctx, phase, outcome, process, handlers, lost, routines>>

RunHandler(h) ==
    /\ Calling("teardown", h)
    /\ calls' = Tail(calls)
    /\ \/ h \notin handlers /\ UNCHANGED <<artifacts, tdErr>>
       \/ /\ h \in handlers /\ HandlerAnswers(h) /\ (h = "persist" => corpus)
          /\ Release(h) /\ UNCHANGED tdErr
       \/ /\ h \in handlers
          /\ ReleaseFails(h) /\ tdErr' = tdErr \cup {h}
    /\ UNCHANGED <<command, ctx, phase, outcome, process, handlers, lost, routines>>

\* --defer-cleanup: wait for the timer or for SIGINT.
DeferCleanup ==
    /\ Calling("teardown", "defer") /\ calls' = Tail(calls)
    /\ UNCHANGED <<command, ctx, phase, outcome, process, handlers, lost, tdErr, artifacts,
                   routines>>

Finish ==
    /\ phase = "teardown" /\ calls = << >>
    /\ phase' = "end"
    /\ UNCHANGED <<command, ctx, calls, outcome, process, handlers, lost, tdErr, artifacts,
                   routines>>
-----------------------------------------------------------------------------
\* SIGINT cancels the context of the command.
InterruptBenchmark ==
    /\ phase # "end" /\ ctx = "live"
    /\ ctx' = "cancelled"
    /\ UNCHANGED <<command, phase, calls, outcome, process, handlers, lost, tdErr, artifacts,
                   routines>>

Ended == phase = "end" /\ UNCHANGED benchmarkVars

\* What the code does by itself, sooner or later.
Step ==
    \/ InstallPackage \/ InitializeGenerator \/ SetupService \/ CreateBenchmarkPolicy
    \/ WipeDataStream \/ WaitCleared \/ InstallBenchmarkPipelines \/ EnterRun
    \/ StartMetrics \/ StopMetrics \/ LastCollect \/ MetricsStopped
    \/ WriteCorpus \/ CreateRallyTrack \/ RunRally
    \/ EnrollAgents \/ SignalService \/ PollHits \/ FinishFails \/ ReindexData
    \/ SimulatePipeline
    \/ StartStream \/ StreamInterrupted \/ StreamReturns
    \/ \E g \in Generators \cup Backfills :
          GeneratorCancelled(g) \/ StreamReceives(g) \/ Drain(g)
    \/ EnterTearDown \/ DeferCleanup \/ Finish
    \/ \E h \in Handlers : RunHandler(h)

\* What happens around it.
Environment ==
    \/ InterruptBenchmark \/ MetricsTick \/ Ingest
    \/ \E g \in Generators \cup Backfills :
          StreamEvents(g) \/ GeneratorFails(g) \/ BackfillEnds(g)

BenchmarkNext == Step \/ Environment \/ Ended

BenchmarkSpec == BenchmarkInit /\ [][BenchmarkNext]_benchmarkVars /\ WF_benchmarkVars(Step)
-----------------------------------------------------------------------------
Finished == phase = "end" /\ process = "up"

NotKept == ~(kind = "stream" /\ "cleanup" \notin flags)

\* When the command ends, whatever failed and whenever SIGINT came, nothing of
\* the run is left that had a clean-up handler, unless that handler failed:
\* TearDown runs every handler, and runs it without the cancelled context.
CleanUpIsComplete ==
    Finished /\ NotKept =>
        \A r \in Left \ {"track"} :
            \/ r \in lost \cup tdErr
            \/ r = "docs" /\ ("docs" \notin handlers \/ "agents" \in Left)

\* The benchmark policy is deleted only after the agents it was given to are
\* back on their own: no agent is left on a policy that is gone, except one
\* whose move back failed or that a failed enrolment left behind.
PolicyOutlivesAgents ==
    "policy" \in handlers /\ ~policy =>
        \A a \in Agents : agents[a] = "bench" => "agents" \in lost \cup tdErr

\* The metrics goroutine has ended when TearDown starts, in every way out of
\* Run: it takes no metrics of a data stream that is being wiped.
CollectorStopsFirst ==
    phase = "teardown" \/ Finished => collector \in {"none", "done"}

\* No generator of a stream benchmark is left to send on the closed channel.
NoSendOnClosedChannel ==
    stream = "closed" => \A g \in DOMAIN gens : gens[g] = "done"

\* Nothing is taken away before its last user is done with it, whichever way Run ended.
ShutdownIsOrdered == PolicyOutlivesAgents /\ CollectorStopsFirst /\ NoSendOnClosedChannel

\* A rally track is saved with its corpus: the corpus still exists when the
\* track is saved, and a track without corpus comes with an error.
SavedTrackIsComplete ==
    "persist" \in handlers =>
        /\ Calling("teardown", "persist") => corpus
        /\ Finished /\ saved # {"track", "corpus"} => "persist" \in tdErr

\* A command ends: a pipeline, rally or system benchmark by itself, a stream
\* benchmark after SIGINT or after the first error of one of its generators,
\* which stops the others.  No goroutine blocks on a channel for ever.
CommandEnds == (kind # "stream" \/ ctx = "cancelled" \/ stream = "drain") ~> phase = "end"
=============================================================================
