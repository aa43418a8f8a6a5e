------------------------------- MODULE Testers -------------------------------
(***************************************************************************)
(* What the testers of `elastic-package test' conclude and leave behind:   *)
(* the system tester from the moment its scenario is prepared (SystemTest  *)
(* models what comes before), the pipeline, policy, asset and static       *)
(* testers from their beginning, each with its tear-down.  Documents keep  *)
(* arriving while the system tester polls; any call may fail, and SIGINT   *)
(* cancels the context that most calls use.  A command may follow another, *)
(* on a package that was edited in between, and finds its expectations.    *)
(***************************************************************************)
EXTENDS Naturals, Sequences, FiniteSets, FiniteSetsExt

CONSTANTS
    Streams,     \* data streams the agent may write to
    Rollups,     \* those of them that the APM connector derives
    Budget,      \* polls that a number of data streams has to survive
    QuerySize,   \* documents that one search returns at most
    MaxDocs,     \* documents that arrive
    HitCounts,   \* values of assert.hit_count, 0 when it is not set
    MaxFaults,   \* failing calls of a command
    MaxRuns      \* commands

ASSUME TestersAssumption ==
    /\ IsFiniteSet(Streams) /\ Rollups \subseteq Streams /\ Rollups # Streams
    /\ Budget \in Nat \ {0} /\ QuerySize \in Nat /\ MaxDocs \in Nat
    /\ HitCounts \subseteq Nat /\ MaxFaults \in Nat /\ MaxRuns \in Nat

\* What can be wrong with a package, by the tester that has to find it.
Defects(kind) ==
    CASE kind = "system" -> {"badDoc", "exit", "mapping", "transform", "warnings", "stackLogs"}
      [] kind = "pipeline" -> {"badDoc", "pattern", "warnings"}
      [] kind = "asset" -> {"missing"}
      [] kind = "static" -> {"benchmark", "badSample"}
      [] kind = "policy" -> {}
Kinds == {"system", "pipeline", "policy", "asset", "static"}

\* The ingest pipelines of a data stream, in the order of their files.
TestPipelines == <<"default", "nested">>

\* The data stream of a policy template without dynamic signal types.
MainStream == CHOOSE s \in Streams \ Rollups : TRUE

VARIABLES
    test,        \* the tester and its configuration
    defect,      \* what is wrong with the package, "none" if nothing
    version,     \* edition of the package, which decides what it produces
    run,         \* commands begun
    pc,
    docs,        \* documents of each data stream, by their timestamps
    remote,      \* what the command has created in Elasticsearch and Fleet
    mine,        \* what the tester remembers to remove
    file,        \* the expected result on disk, "none" if there is none
    output,      \* what the package produced in this command
    poll,        \* data streams of the last discovery poll and polls left
    todo,        \* data streams still to be verified or validated
    hits,        \* documents that were fetched from the data streams verified
    wait,        \* waitForDocs: hits of the last poll, assertion met, timed out
    message,     \* the composer holds a failure message
    results,     \* status of every result
    error,       \* the tester returned an error
    why,         \* "compare" when the comparison with the file failed the test
    cancelled,
    faults
shared == <<test, defect, version, run>>
system == <<docs, poll, todo, hits, wait, message>>
local == <<remote, mine, file, output, why>>
testersVars == <<shared, pc, system, local, results, error, cancelled, faults>>

NoWait == [old |-> 0, found |-> FALSE, expired |-> FALSE]
NoPoll == [streams |-> {}, left |-> Budget]
None == [version |-> 0, volatile |-> 0]

Tests(kind) ==
    [kind : {kind}, generate : IF kind \in {"pipeline", "policy"} THEN BOOLEAN ELSE {FALSE},
     hitCount : IF kind = "system" THEN HitCounts ELSE {0},
     fields : IF kind = "system" THEN BOOLEAN ELSE {FALSE},
     dynamic : IF kind = "system" THEN BOOLEAN ELSE {FALSE},
     compare : IF kind = "pipeline" THEN BOOLEAN ELSE {TRUE},
     masked : IF kind = "pipeline" THEN BOOLEAN ELSE {TRUE},
     logs : IF kind = "pipeline" THEN BOOLEAN ELSE {TRUE}]

Fresh ==
    /\ docs = [s \in Streams |-> <<>>] /\ poll = NoPoll /\ todo = <<>> /\ hits = <<>>
    /\ wait = NoWait /\ message = FALSE /\ remote = {} /\ mine = <<>> /\ output = None
    /\ results = <<>> /\ error = FALSE /\ why = "" /\ cancelled = FALSE /\ faults = 0

\* The command has ended, with or without an error.
Done == pc \in {"passed", "failed"}

\* The testers with an expected result on disk.
Compares == test.kind \in {"pipeline", "policy"}

\* The expected result may have been committed for the first edition.  The assertions on
\* documents are checked on packages without other defects.
TestersInit ==
    /\ \E kind \in Kinds : test \in Tests(kind) /\ defect \in Defects(kind) \cup {"none"}
    /\ test.kind = "system" /\ defect # "none" => test.hitCount = 0 /\ ~test.fields
    /\ version = 1 /\ run = 1 /\ pc = "command" /\ Fresh
    /\ file \in {None} \cup (IF Compares THEN {[version |-> 1, volatile |-> 0]} ELSE {})

\* The next command, of the same tester, on a package that may have been edited.
NextRun ==
    /\ Done /\ run < MaxRuns /\ remote = {} /\ Compares
    /\ test' \in Tests(test.kind)
    /\ defect' \in Defects(test.kind) \cup {"none"}
    /\ version' \in {version, version + 1}
    /\ run' = run + 1 /\ pc' = "command"
    /\ docs' = [s \in Streams |-> <<>>] /\ poll' = NoPoll /\ todo' = <<>> /\ hits' = <<>>
    /\ wait' = NoWait /\ message' = FALSE /\ remote' = {} /\ mine' = <<>> /\ output' = None
    /\ results' = <<>> /\ error' = FALSE /\ why' = "" /\ cancelled' = FALSE /\ faults' = 0
    /\ UNCHANGED file
-------------------------------------------------------------------------------
At(kind, label) == test.kind = kind /\ pc = label
Goto(label) == pc' = label /\ UNCHANGED <<shared, cancelled>>

\* A call works while its context lives; it fails at will, or because it is cancelled.
Works == ~cancelled /\ UNCHANGED faults
Fails == \/ cancelled /\ UNCHANGED faults
         \/ faults < MaxFaults /\ faults' = faults + 1
\* Calls with context.WithoutCancel only fail at will.
FailsDetached == faults < MaxFaults /\ faults' = faults + 1

\* Run returns these results, and an error or none, and what runs then is at the label.
Returns(rs, err, label) == results' = rs /\ error' = err /\ Goto(label)
Carries == UNCHANGED <<results, error>>

\* signal.Enable: SIGINT cancels the context of the command.
InterruptTester ==
    /\ ~Done /\ ~cancelled
    /\ cancelled' = TRUE
    /\ UNCHANGED <<shared, pc, system, local, results, error, faults>>

\* A command reads its flags, the package and the configuration, and what it needs to know
\* of the stack; it ends when a data stream of its flags is not in the package.
BeginCommand(kind) ==
    /\ At(kind, "command") /\ pc' \in {"begin", "failed"}
    /\ UNCHANGED <<shared, system, local, cancelled>> /\ Carries

\* Nothing of the stack; a file that cannot be read ends it.
StaticCommand ==
    /\ BeginCommand("static")
    /\ \/ pc' = "begin" /\ UNCHANGED faults
       \/ pc' = "failed" /\ FailsDetached

\* Elasticsearch has to be healthy, asked with the context of the command.
PipelineCommand ==
    /\ BeginCommand("pipeline")
    /\ (pc' = "begin" /\ Works) \/ (pc' = "failed" /\ Fails)

SystemCommand ==
    /\ BeginCommand("system")
    /\ (pc' = "begin" /\ Works) \/ (pc' = "failed" /\ Fails)

\* The version of Kibana, asked without a context: an interrupt does not end it.
AssetCommand ==
    /\ BeginCommand("asset")
    /\ \/ pc' = "begin" /\ UNCHANGED faults
       \/ pc' = "failed" /\ FailsDetached

PolicyCommand ==
    /\ BeginCommand("policy")
    /\ \/ pc' = "begin" /\ UNCHANGED faults
       \/ pc' = "failed" /\ FailsDetached

Commands == StaticCommand \/ PipelineCommand \/ SystemCommand \/ AssetCommand \/ PolicyCommand

\* processResults: without an error of the suite the report is written, and the coverage
\* if the user asked for it; any failed result or failing write is an error of the command.
ProcessResults ==
    /\ pc = "report"
    /\ \/ error /\ Goto("failed") /\ UNCHANGED faults
       \/ /\ ~error /\ UNCHANGED faults
          /\ Goto(IF {"fail", "error"} \cap Range(results) = {} THEN "passed" ELSE "failed")
       \/ ~error /\ FailsDetached /\ Goto("failed")
    /\ UNCHANGED <<system, local>> /\ Carries

\* AnySkipConfig: the test is skipped by its configuration or by the global one.
Skip ==
    /\ pc = "begin" /\ test.kind \in {"system", "asset", "static"}
    /\ Returns(<<"skip">>, FALSE, "tearDown") /\ UNCHANGED <<system, local, faults>>
-------------------------------------------------------------------------------
\* Document q is the i-th by its timestamp, among ds.
PutAt(ds, i, q) ==
    [j \in 1..(Len(ds) + 1) |-> IF j < i THEN ds[j] ELSE IF j = i THEN q ELSE ds[j - 1]]

\* The agent writes a document; the first one creates the data stream.  Its timestamp is
\* that of the event, so it can be older than documents that arrived before.  What arrives
\* when all is fetched is not read any more.
Arrive(s) ==
    /\ At("system", pc) /\ pc \in {"begin", "discover", "wait", "verify"}
    /\ MapThenSumSet(LAMBDA t : Len(docs[t]), Streams) < MaxDocs
    /\ test.dynamic \/ s = MainStream
    /\ \E q \in {"plain"} \cup (IF test.fields THEN {"field"} ELSE {})
                \cup (IF defect = "badDoc" THEN {"bad"} ELSE {}) :
           \E i \in 1..(Len(docs[s]) + 1) : docs' = [docs EXCEPT ![s] = PutAt(@, i, q)]
    /\ UNCHANGED <<shared, pc, poll, todo, hits, wait, message, local, results, error, cancelled,
                   faults>>
Found == {s \in Streams : docs[s] # <<>>}

\* getDocs: the oldest documents, as many as one search returns; an older one that arrives
\* later takes the place of the last.
Search(s) == SubSeq(docs[s], 1, IF Len(docs[s]) < QuerySize THEN Len(docs[s]) ELSE QuerySize)

\* buildDataStreamScenarios: one data stream, or those that will be discovered.
BeginSystem ==
    /\ At("system", "begin")
    /\ IF test.dynamic THEN todo' = todo /\ Goto("discover")
                       ELSE todo' = <<MainStream>> /\ Goto("wait")
    /\ UNCHANGED <<docs, poll, hits, wait, message, local, faults>> /\ Carries

\* filterOtelAPMRollupDataStreams leaves the data streams of the receiver; without any
\* the test fails.
Discovered(streams) ==
    IF streams \subseteq Rollups
    THEN /\ Returns(<<"fail">>, FALSE, "release") /\ UNCHANGED todo
    ELSE /\ todo' \in {q \in [1..Cardinality(streams \ Rollups) -> streams \ Rollups] :
                          Range(q) = streams \ Rollups}
         /\ Goto("wait") /\ Carries

\* A poll that finds another number of data streams starts the count again.
PollOf(streams) ==
    [streams |-> streams,
     left |-> IF Cardinality(streams) # Cardinality(poll.streams) THEN Budget
              ELSE poll.left - 1]

\* discoverDataStreams: a poll that finds no data stream changes nothing.
SearchDataStreams ==
    /\ At("system", "discover") /\ Works /\ Found # {}
    /\ poll' = PollOf(Found)
    /\ IF poll'.left = 0 THEN Discovered(Found) ELSE Goto(pc) /\ Carries /\ UNCHANGED todo
    /\ UNCHANGED <<docs, hits, wait, message, local>>

\* Mutant: the timeout waits for the first data stream.
DiscoveryExpiresFound ==
    /\ At("system", "discover") /\ ~cancelled /\ poll.streams # {}
    /\ Discovered(poll.streams)
    /\ UNCHANGED <<docs, poll, hits, wait, message, local, faults>>

\* wait.UntilTrue: at the timeout the data streams found so far will do.
DiscoveryExpires ==
    /\ At("system", "discover") /\ ~cancelled
    /\ Discovered(poll.streams)
    /\ UNCHANGED <<docs, poll, hits, wait, message, local, faults>>
-------------------------------------------------------------------------------
Current == Head(todo)

\* The assertions of one poll; two polls have to agree on the number of hits, and a
\* field that was seen once counts.
HitCountHolds(n) == test.hitCount = 0 \/ (n >= test.hitCount /\ n = wait.old)
FieldSeen(ds) == wait.found \/ "field" \in Range(ds)
FieldsHold(ds) == ~test.fields \/ (ds # <<>> /\ FieldSeen(ds))

\* waitForDocs, refusing an assertion that no search can meet.
RefuseHitCount ==
    /\ At("system", "wait") /\ test.hitCount > QuerySize
    /\ Returns(<<"error">>, FALSE, "release") /\ UNCHANGED <<system, local, faults>>

GetDocs ==
    /\ At("system", "wait") /\ test.hitCount <= QuerySize /\ Works
    /\ LET ds == Search(Current) IN
       /\ wait' = [wait EXCEPT !.old = Len(ds), !.found = FieldSeen(ds)]
       /\ IF ds # <<>> /\ HitCountHolds(Len(ds)) /\ FieldsHold(ds)
          THEN hits' = Append(hits, [stream |-> Current, docs |-> ds]) /\ Goto("verify")
          ELSE UNCHANGED hits /\ Goto(pc)
    /\ UNCHANGED <<docs, poll, todo, message, local>> /\ Carries

WaitExpires ==
    /\ At("system", "wait") /\ test.hitCount <= QuerySize /\ ~cancelled
    /\ wait' = [wait EXCEPT !.expired = TRUE] /\ Goto("verify")
    /\ UNCHANGED <<docs, poll, todo, hits, message, local, faults>> /\ Carries

\* verifyDataStream: the exit code of the service comes before a timeout, then the next
\* data stream; after the last one all are validated.
VerifyDataStream ==
    /\ At("system", "verify") /\ Works
    /\ IF defect = "exit" \/ wait.expired
       THEN Returns(<<"fail">>, FALSE, "release") /\ UNCHANGED todo
       ELSE /\ Carries
            /\ IF Len(todo) > 1
               THEN todo' = Tail(todo) /\ Goto("wait")
               ELSE todo' = [i \in DOMAIN hits |-> hits[i].stream] /\ Goto("validate")
    /\ wait' = NoWait
    /\ UNCHANGED <<docs, poll, hits, message, local>>

\* Errors of the preparation are results, except the one for a missing docker binary.
PrepareFails ==
    /\ test.kind = "system" /\ pc \in {"discover", "wait", "verify"} /\ Fails
    /\ \E noDocker \in BOOLEAN : Returns(<<"error">>, noDocker, "release")
    /\ UNCHANGED <<system, local>>

DocsOf(s) == (CHOOSE h \in Range(hits) : h.stream = s).docs
Verdict == IF message THEN "fail" ELSE "pass"

\* Fields, mappings and ignored fields of the documents that were fetched.
Valid(ds) == "bad" \notin Range(ds) /\ defect # "mapping"

\* checkTransforms: the transforms that use the data stream produce valid documents.
TransformsHold == defect # "transform"

\* Warnings that Elasticsearch gave for a document of the data stream, or that its agent
\* logged since the test began.
Warned == defect = "warnings"

\* validateTestScenario, for one data stream.
RejectStream ==
    /\ At("system", "validate") /\ todo # <<>> /\ ~Valid(DocsOf(Current))
    /\ Returns(<<"fail">>, FALSE, "release") /\ UNCHANGED <<system, local, faults>>

\* Then the hit count, whose message waits in the composer, and the transforms.
AcceptStream ==
    /\ At("system", "validate") /\ todo # <<>> /\ Works
    /\ Valid(DocsOf(Current))
    /\ message' = (message \/ (test.hitCount # 0 /\ Len(DocsOf(Current)) # test.hitCount))
    /\ IF TransformsHold
       THEN todo' = Tail(todo) /\ Goto(pc) /\ Carries
       ELSE Returns(<<"fail">>, FALSE, "release") /\ UNCHANGED todo
    /\ UNCHANGED <<docs, poll, hits, wait, local>>

ValidationFails ==
    /\ At("system", "validate") /\ Fails
    /\ \E returned \in BOOLEAN : Returns(<<"error">>, returned, "release")
    /\ UNCHANGED <<system, local>>

\* Mutant: WithSuccess drops the message that the hit count left.
FinishValidationCleared ==
    /\ At("system", "validate") /\ todo = <<>> /\ Works
    /\ Returns(<<"pass">>, FALSE, "release")
    /\ UNCHANGED <<system, local>>

\* Warnings in the logs of its own agent, or deprecation warnings, replace the result.
FinishValidation ==
    /\ At("system", "validate") /\ todo = <<>> /\ Works
    /\ Returns(<<IF Warned THEN "fail" ELSE Verdict>>, FALSE, "release")
    /\ UNCHANGED <<system, local>>

\* runTestPerVariant: tearDownTest always runs; its failure is an error of the run.
TearDownTest ==
    /\ At("system", "release")
    /\ \/ ~error /\ Goto("logs") /\ UNCHANGED <<faults, error>>
       \/ error /\ Goto("tearDown") /\ UNCHANGED <<faults, error>>
       \/ FailsDetached /\ error' = TRUE /\ Goto("tearDown")
    /\ UNCHANGED <<system, local, results>>

\* run: the logs of the stack are checked whatever the results; a failing dump drops them.
CheckAgentLogs ==
    /\ At("system", "logs")
    /\ \/ /\ Returns(IF defect = "stackLogs" THEN Append(results, "fail") ELSE results,
                     FALSE, "tearDown")
          /\ UNCHANGED faults
       \/ FailsDetached /\ \E rs \in {<<>>, <<"error">>} : Returns(rs, TRUE, "tearDown")
    /\ UNCHANGED <<system, local>>
-------------------------------------------------------------------------------
\* Mutant: the pipelines are remembered only after the test case.
InstallTestPipelinesLate ==
    /\ At("pipeline", "begin") /\ Works
    /\ remote' = remote \cup Range(TestPipelines)
    /\ Goto("simulate") /\ Carries /\ UNCHANGED <<system, mine, file, output, why>>

\* InstallDataStreamPipelines: the pipelines are known to the tester when all are there.
InstallTestPipelines ==
    /\ At("pipeline", "begin") /\ Works
    /\ remote' = remote \cup Range(TestPipelines) /\ mine' = TestPipelines
    /\ Goto("simulate") /\ Carries /\ UNCHANGED <<system, file, output, why>>

\* The first failure ends the installation and what was installed is forgotten.
InstallTestPipelinesFails ==
    /\ At("pipeline", "begin") /\ Fails
    /\ \E n \in 0..Len(TestPipelines) : remote' = remote \cup Range(SubSeq(TestPipelines, 1, n))
    /\ Returns(<<>>, TRUE, "tearDown") /\ UNCHANGED <<system, mine, file, output, why>>

\* runTestCase: a test case that is skipped, cannot be loaded or cannot be simulated has
\* its result, and the logs of Elasticsearch are still checked.
Simulate ==
    /\ At("pipeline", "simulate")
    /\ \/ /\ Works /\ Goto("compare") /\ Carries
          /\ output' = [version |-> version, volatile |-> run]
       \/ Returns(<<"skip">>, FALSE, "logs") /\ UNCHANGED <<output, faults>>
       \/ Fails /\ Returns(<<"error">>, FALSE, "logs") /\ UNCHANGED output
    /\ UNCHANGED <<system, remote, mine, file, why>>

\* Mutant: only the actual results lose their dynamic fields.
AdjustActual(r) == IF r = output /\ test.masked THEN [r EXCEPT !.volatile = 0] ELSE r

\* adjustTestResult: the dynamic fields of the test's configuration are removed.
Adjust(r) == IF test.masked THEN [r EXCEPT !.volatile = 0] ELSE r

\* cleanPolicy: identifiers, revisions and signatures of a policy are removed.
CleanPolicy(r) == [r EXCEPT !.volatile = 0]
Comparable(r) == IF test.kind = "policy" THEN CleanPolicy(r) ELSE Adjust(r)

\* The result on disk against the one found; a missing file cannot be compared.
Compared(expected) ==
    IF expected = None THEN "error"
    ELSE IF Comparable(expected) # Comparable(output) THEN "fail" ELSE "pass"

\* A dynamic field without its pattern, or a document with an error or an unknown field.
Broken == defect = "badDoc" \/ (defect = "pattern" /\ test.masked)

\* verifyResults: the expected result is written first, then compared unless that is
\* disabled, then dynamic fields and the fields of every document are verified.
VerifyResults ==
    /\ At("pipeline", "compare")
    /\ file' = IF test.generate THEN output ELSE file
    /\ LET compared == IF test.compare THEN Compared(file') ELSE "pass" IN
       /\ why' = IF compared = "fail" THEN "compare" ELSE ""
       /\ Returns(IF compared # "pass" THEN <<compared>>
                  ELSE IF Broken THEN <<"fail">> ELSE <<"pass">>, FALSE, "logs")
    /\ UNCHANGED <<system, remote, mine, output, faults>>

\* The result cannot be written, or the statistics for the coverage cannot be read.
VerifyResultsFails ==
    /\ At("pipeline", "compare") /\ Fails
    /\ \/ Returns(<<"error">>, FALSE, "logs") /\ UNCHANGED file
       \/ /\ Returns(<<>>, TRUE, "tearDown")
          /\ file' = IF test.generate THEN output ELSE file
    /\ UNCHANGED <<system, remote, mine, output, why>>

\* checkElasticsearchLogs: a stack without logs is not checked, a failing dump drops the
\* result of the test case.
CheckElasticsearchLogs ==
    /\ At("pipeline", "logs")
    /\ \/ /\ Returns(IF ~test.logs THEN results
                     ELSE Append(results, IF defect = "warnings" THEN "fail" ELSE "pass"),
                     FALSE, "tearDown")
          /\ ~cancelled \/ ~test.logs
          /\ UNCHANGED faults
       \/ Fails /\ Returns(<<>>, TRUE, "tearDown")
    /\ UNCHANGED <<system, local>>

\* TearDown removes the pipelines it knows of, with the context of the command, and stops
\* at the first failure.
UninstallTestPipelines ==
    /\ At("pipeline", "tearDown")
    /\ \/ Works /\ remote' = remote \ Range(mine) /\ UNCHANGED error
       \/ /\ Fails /\ error' = TRUE /\ mine # <<>>
          /\ \E n \in 0..(Len(mine) - 1) : remote' = remote \ Range(SubSeq(mine, 1, n))
       \/ mine = <<>> /\ UNCHANGED <<remote, error, faults>>
    /\ Goto("report") /\ UNCHANGED <<system, mine, file, output, why, results>>
-------------------------------------------------------------------------------
\* FleetPackage.Create: installs the package; a cancelled installation is undone with a
\* context of its own.
InstallTestedPackage(next) ==
    /\ Works /\ remote' = remote \cup {"package"}
    /\ Goto(next) /\ Carries /\ UNCHANGED <<system, mine, file, output, why>>

\* A failed installation may leave the package.  The policy runner removes it at once, so
\* that it takes a second failure to leave it; the asset tester is still to be torn down.
InstallTestedPackageFails(next) ==
    /\ \E left \in {{}, {"package"}} :
           LET again == IF left # {} /\ (cancelled \/ test.kind = "policy") THEN 1 ELSE 0
               first == IF cancelled THEN 0 ELSE 1 IN
           /\ faults' = faults + first + again /\ faults' <= MaxFaults
           /\ remote' = remote \cup left
    /\ Returns(IF test.kind = "asset" THEN <<"error">> ELSE <<>>, TRUE, next)
    /\ UNCHANGED <<system, mine, file, output, why>>

\* SetupRunner of the policy runner; when it fails no test runs.
SetupRunner ==
    /\ At("policy", "begin")
    /\ InstallTestedPackage("apply") \/ InstallTestedPackageFails("report")

\* runTest: the agent policy with the package policy; it can be there when adding the
\* package policy to it fails.
CreatePolicy ==
    /\ At("policy", "apply")
    /\ \/ /\ Works /\ remote' = remote \cup {"policy"} /\ mine' = <<"policy">>
          /\ output' = [version |-> version, volatile |-> run] /\ Goto("compare") /\ Carries
       \/ Returns(<<"skip">>, FALSE, "tearDown") /\ UNCHANGED <<remote, mine, output, faults>>
       \/ /\ Fails /\ UNCHANGED output
          /\ \E made \in IF cancelled THEN {<<>>} ELSE {<<>>, <<"policy">>} :
                 mine' = made /\ remote' = remote \cup Range(made)
          /\ Returns(<<"error">>, FALSE, "clean")
    /\ UNCHANGED <<system, file, why>>

\* dumpExpectedAgentPolicy writes the policy after cleaning; assertExpectedAgentPolicy
\* reports a difference as an error.
ComparePolicy ==
    /\ At("policy", "compare")
    /\ \/ /\ Works /\ file' = IF test.generate THEN CleanPolicy(output) ELSE file
          /\ LET compared == IF test.generate THEN "pass" ELSE Compared(file) IN
             /\ why' = IF compared = "fail" THEN "compare" ELSE ""
             /\ Returns(IF compared = "pass" THEN <<"pass">> ELSE <<"error">>, FALSE, "clean")
       \/ Fails /\ Returns(<<"error">>, FALSE, "clean") /\ UNCHANGED <<file, why>>
    /\ UNCHANGED <<system, remote, mine, output>>

\* The policy is removed whatever the outcome, with the context of the command.
DeletePolicy ==
    /\ At("policy", "clean")
    /\ \/ /\ Works \/ (mine = <<>> /\ UNCHANGED faults)
          /\ remote' = remote \ Range(mine) /\ Goto("tearDown") /\ Carries
       \/ Fails /\ mine # <<>> /\ Returns(<<"error">>, FALSE, "tearDown") /\ UNCHANGED remote
    /\ UNCHANGED <<system, mine, file, output, why>>

\* Assets: the installed ones are compared with those of the package.
BeginAsset ==
    /\ At("asset", "begin")
    /\ InstallTestedPackage("compare") \/ InstallTestedPackageFails("tearDown")
CompareAssets ==
    /\ At("asset", "compare")
    /\ \/ Works /\ Returns(<<"pass", IF defect = "missing" THEN "fail" ELSE "pass">>, FALSE,
                           "tearDown")
       \/ Fails /\ Returns(<<"error">>, TRUE, "tearDown")
    /\ UNCHANGED <<system, local>>

\* Mutant: the package is removed with the context of the command.
RemoveTestedPackageCancelled ==
    /\ test.kind \in {"policy", "asset"} /\ pc = "tearDown"
    /\ \/ Works /\ remote' = remote \ {"package"} /\ UNCHANGED error
       \/ Fails /\ error' = TRUE /\ UNCHANGED remote
    /\ Goto("report") /\ UNCHANGED <<system, mine, file, output, why, results>>

\* TearDown of the asset tester and TearDownRunner of the policy runner avoid cancellations.
RemoveTestedPackage ==
    /\ test.kind \in {"policy", "asset"} /\ pc = "tearDown"
    /\ \/ remote' = remote \ {"package"} /\ UNCHANGED <<error, faults>>
       \/ FailsDetached /\ error' = TRUE /\ UNCHANGED remote
    /\ Goto("report") /\ UNCHANGED <<system, mine, file, output, why, results>>

\* The static tester joins the results for the benchmark and for the sample events.
VerifyStatic ==
    /\ At("static", "begin")
    /\ \E bench, sample \in BOOLEAN :
           Returns((IF defect = "benchmark" THEN <<"error">>
                    ELSE IF bench THEN <<"pass">> ELSE <<>>)
                   \o (IF defect = "badSample" THEN <<"fail">>
                       ELSE IF sample THEN <<"pass">> ELSE <<>>), FALSE, "tearDown")
    /\ UNCHANGED <<system, local, faults>>

\* The system and the static tester have nothing left to do.
TearDown ==
    /\ test.kind \in {"system", "static"} /\ pc = "tearDown"
    /\ Goto("report") /\ UNCHANGED <<system, local, faults>> /\ Carries
-------------------------------------------------------------------------------
SystemStep ==
    \/ BeginSystem \/ SearchDataStreams \/ DiscoveryExpires \/ RefuseHitCount \/ GetDocs
    \/ WaitExpires \/ VerifyDataStream \/ PrepareFails \/ RejectStream \/ AcceptStream
    \/ ValidationFails \/ FinishValidation \/ TearDownTest \/ CheckAgentLogs
PipelineStep ==
    \/ InstallTestPipelines \/ InstallTestPipelinesFails \/ Simulate \/ VerifyResults
    \/ VerifyResultsFails \/ CheckElasticsearchLogs \/ UninstallTestPipelines
PackageStep ==
    \/ SetupRunner \/ CreatePolicy \/ ComparePolicy \/ DeletePolicy \/ BeginAsset
    \/ CompareAssets \/ RemoveTestedPackage
TesterStep ==
    \/ Commands \/ ProcessResults \/ Skip \/ SystemStep \/ PipelineStep \/ PackageStep
    \/ VerifyStatic \/ TearDown

TestersNext ==
    \/ NextRun \/ InterruptTester \/ TesterStep
    \/ \E s \in Streams : Arrive(s)

\* A tester does not stop between two steps, and its timers expire; no call is bound to fail
\* while its context lives.
TestersSpec ==
    /\ TestersInit /\ [][TestersNext]_testersVars
    /\ WF_testersVars(TesterStep /\ faults' = faults)
    /\ WF_testersVars(DiscoveryExpires) /\ WF_testersVars(WaitExpires)
-------------------------------------------------------------------------------
\* A success of the command that no skipped test is the reason for.
Passed == pc = "passed" /\ Range(results) = {"pass"}

\* A test that passes has checked everything: there is nothing wrong with the package that
\* its tester has to find, each data stream that was discovered and is not a rollup was
\* fetched, asserted (its fields on all the documents it has, which the search that is
\* validated may not show any more) and validated, and the result on disk is that of this edition, unless
\* the user chose to write it or not to compare.
PassIsEarned ==
    Passed =>
        /\ defect \in {"none"} \cup (IF test.masked THEN {} ELSE {"pattern"})
                      \cup (IF test.logs THEN {} ELSE {"warnings"})
                      \cup (IF test.kind = "system" THEN {"badDoc"} ELSE {})
        /\ test.kind = "system" =>
            /\ {h.stream : h \in Range(hits)} =
                   IF test.dynamic THEN poll.streams \ Rollups ELSE {MainStream}
            /\ \A h \in Range(hits) :
                   /\ h.docs # <<>> /\ "bad" \notin Range(h.docs)
                   /\ test.hitCount # 0 => Len(h.docs) = test.hitCount
                   /\ test.fields => "field" \in Range(docs[h.stream])
        /\ (test.kind \in {"pipeline", "policy"} /\ test.compare) => file.version = version

\* A command whose calls work leaves nothing in Elasticsearch or Fleet; an interrupted one
\* still removes the package it installed.
NothingIsLeft ==
    Done /\ faults = 0 => "package" \notin remote /\ (cancelled \/ remote = {})

\* An expected result that an earlier command wrote for this edition is not rejected by a
\* comparison, although identifiers and dynamic fields differ from command to command.
GeneratedIsAccepted ==
    why = "compare" /\ test.masked => file.version # version

\* Every tester comes to its end, whatever arrives and whatever fails.
TesterReturns == pc = "command" ~> Done
=============================================================================
