----------------------------- MODULE SystemTest -----------------------------
(***************************************************************************)
(* One system test as `elastic-package test system` drives it, over a      *)
(* series of invocations of the command: the plain mode, and the staged    *)
(* modes --setup, --no-provision and --tear-down, which hand the scenario  *)
(* to each other through the service state file.                           *)
(*                                                                         *)
(* A command is a sequence of steps (pc).  Every step is a call that can   *)
(* fail, and SIGINT is one of the reasons: it cancels the context of the   *)
(* pending call, so it is a failure of that call.  While the scenario is   *)
(* being prepared the tester registers clean-up handlers; they run, in a   *)
(* fixed order and without cancellation, when the test ends.  SIGKILL or a *)
(* lost host (Crash) ends the command without any clean-up.                *)
(***************************************************************************)
EXTENDS Naturals, Sequences, FiniteSets

CONSTANTS
    MaxCommands,   \* bound: how many commands are issued
    MaxCrashes,    \* bound: how many of them are killed
    MaxFaults,     \* bound: how many calls fail and leave something in one command, and kills
    Modes,         \* modes of the commands, see Mode
    Deployments    \* where the agent under test runs, see Deployment

Mode ==
    {"normal",      \* set up, test and tear down
     "setup",       \* --setup: set up and leave the scenario running
     "tests",       \* --no-provision: test the scenario of a setup
     "teardown"}    \* --tear-down: tear the scenario of a setup down

Deployment ==
    {"stack",        \* the agent of the stack, shared by every test
     "independent",  \* an agent container of its own (agentdeployer)
     "custom"}       \* an agent started by the service deployer

Service ==
    {"none",         \* the test defines no service deployer
     "compose",      \* containers of docker compose; the agent among them in "custom"
     "terraform",    \* a container that applies terraform definitions, in plain runs only
     "kubernetes"}   \* definitions in a kind cluster, as is the agent beside them

ASSUME ConstantsAssumption ==
    /\ MaxCommands \in Nat
    /\ MaxCrashes \in Nat
    /\ MaxFaults \in Nat
    /\ Modes \subseteq Mode
    /\ Deployments \subseteq Deployment

\* Fleet policies: the one the stack agent starts with and, for the command
\* number n, the enroll policy and the test policy that it creates.
Policy == [cmd : 0..MaxCommands, kind : {"default", "enroll", "test"}]
Default == [cmd |-> 0, kind |-> "default"]
EnrollPolicy(n) == [cmd |-> n, kind |-> "enroll"]
TestPolicy(n) == [cmd |-> n, kind |-> "test"]
Unassigned == [cmd |-> 0, kind |-> "none"]

\* Run identifiers: the number of the command that started a container.  The
\* agent in the containers of run n is agent n; the stack agent is agent 0.
Run == 1..MaxCommands
Agent == 0..MaxCommands
StackAgent == 0

PrepareSteps ==
    {"createEnroll", "createTest", "setupAgent", "checkStarted", "setupService",
     "addPackagePolicy", "checkEnrolled", "agentHandlers", "assignPolicy",
     "waitForData", "writeState"}

\* Mutant: the policies are deleted while the agent still uses them.
PoliciesFirst ==
    <<"deletePolicy", "resetPolicy", "shutdownService", "resetLogLevel", "removeAgent",
      "shutdownAgent", "cleanScenario">>

\* tearDownTest: the handlers, in the order in which they run.
TearDownOrder ==
    <<"resetPolicy", "shutdownService", "resetLogLevel", "removeAgent",
      "shutdownAgent", "deletePolicy", "cleanScenario">>
Handler == {TearDownOrder[i] : i \in DOMAIN TearDownOrder}

VARIABLES
    deployment,   \* where the agent under test runs
    service,      \* the service deployer that the test defines
    fleet,        \* Kibana and Elasticsearch: policies, agents, documents
    docker,       \* run identifiers of the containers and pods that exist
    installed,    \* Fleet has the package under test installed
    stateFile,    \* the service state file: absent, valid or corrupt
    saved,        \* its contents, when it is valid
    pc, mode,     \* step and mode of the running command
    cmd,          \* number of the running (or last) command
    handlers,     \* clean-up handlers registered so far
    loc,          \* variables captured by the handlers
    failed,       \* prepareScenario or SetupRunner returned an error
    tdFailed,     \* tearDownTest collected an error
    crashes,      \* history: commands killed so far
    faults,       \* history: calls of the command that failed and left something
    disturbed,    \* history: the stored setup was left in disorder
    before        \* history: fleet and docker when the command started

vars == <<deployment, service, fleet, docker, installed, stateFile, saved, pc, mode,
          cmd, handlers, loc, failed, tdFailed, crashes, faults, disturbed, before>>
config == <<deployment, service>>
world == <<fleet, docker, installed>>
disk == <<stateFile, saved>>
history == <<crashes, faults, disturbed, before>>

Saved == [orig : Policy \cup {Unassigned}, enroll : Policy, current : Policy,
          origLevel : {"info", "debug"}, run : Run]
Fleet == [policies : SUBSET Policy,
          streams  : SUBSET Policy,          \* test policies with a package policy
          enrolled : [Agent -> Policy \cup {Unassigned}],
          level    : [Agent -> {"info", "debug"}],
          docs     : SUBSET Policy]          \* namespaces that hold documents
Docker == [agents : SUBSET Run, services : SUBSET Run,
           definitions : BOOLEAN]          \* those of the package are in the cluster
Locals == [enroll : Policy, test : Policy, both : BOOLEAN, run : Run,
           agent : Agent, orig : Policy \cup {Unassigned},
           origLevel : {"info", "debug"}]

TypeOK ==
    /\ deployment \in Deployments /\ service \in Service
    /\ fleet \in Fleet /\ docker \in Docker
    /\ installed \in BOOLEAN
    /\ stateFile \in {"absent", "valid", "corrupt"}
    /\ stateFile = "valid" => saved \in Saved
    /\ pc \in PrepareSteps \cup Handler
                \cup {"idle", "setupRunner", "removeStateFile", "tearDownRunner"}
    /\ mode \in Mode
    /\ cmd \in 0..MaxCommands /\ crashes \in 0..MaxCrashes /\ faults \in 0..MaxFaults
    /\ handlers \subseteq Handler
    /\ pc # "idle" => cmd \in Run /\ loc \in Locals
    /\ {failed, tdFailed, disturbed} \subseteq BOOLEAN
    /\ before \in [fleet : Fleet, docker : Docker]

NoLocals == [enroll |-> Default, test |-> Default, both |-> FALSE, run |-> 1,
             agent |-> StackAgent, orig |-> Unassigned, origLevel |-> "info"]

\* Factory: the deployers a test can define where its agent runs there.
DefinedServices ==
    CASE deployment = "custom" -> {"compose"}
      [] deployment = "stack" -> Service \ {"kubernetes"}
      [] OTHER -> Service
HasService == service # "none"
RunsBySteps == service # "terraform"

Init ==
    /\ deployment \in Deployments
    /\ service \in DefinedServices
    /\ fleet = [policies |-> {Default}, streams |-> {},
                enrolled |-> [a \in Agent |-> IF a = StackAgent THEN Default
                                                                ELSE Unassigned],
                level |-> [a \in Agent |-> "info"], docs |-> {}]
    /\ docker = [agents |-> {}, services |-> {}, definitions |-> FALSE]
    /\ installed = FALSE
    /\ stateFile = "absent" /\ saved = NoLocals
    /\ pc = "idle" /\ mode = "normal" /\ cmd = 0
    /\ handlers = {} /\ loc = NoLocals
    /\ failed = FALSE /\ tdFailed = FALSE
    /\ crashes = 0 /\ faults = 0 /\ disturbed = FALSE
    /\ before = [fleet |-> fleet, docker |-> docker]

-----------------------------------------------------------------------------
\* A call that works, or fails (failing) and leaves what no handler of this
\* command takes away any more.
Faulty(failing) == faults' = faults + (IF failing THEN 1 ELSE 0)
                   /\ faults' + crashes <= MaxFaults
Faultless == faults = 0

\* The agents Fleet knows, and the ones whose container is running.
Alive(a) ==
    a = StackAgent \/ a \in (IF deployment = "independent" THEN docker.agents ELSE docker.services)
Enrolled(a) == fleet.enrolled[a] # Unassigned

\* Fleet refuses to delete a policy that an agent is assigned to.
Deletable(p) == p \in fleet.policies /\ \A a \in Agent : fleet.enrolled[a] # p

\* The agents checkEnrolledAgents can select: by policy and online when agents
\* are independent, else by the host name of the stack agent.
AgentCandidates(policy) ==
    IF deployment = "stack"
    THEN {StackAgent}
    ELSE {a \in Agent : fleet.enrolled[a] = policy /\ Alive(a)}

FromFile == mode \in {"tests", "teardown"}    \* runTestsOnly || runTearDown

\* The policy the agent is enrolled with, or the current one of the setup.
EnrollOrCurrent == IF FromFile THEN saved.current ELSE loc.enroll

-----------------------------------------------------------------------------
(***************************************************************************)
(* The command starts.  A setup or a plain run needs the state file to be  *)
(* absent, the other modes need to read it.                                *)
(***************************************************************************)
StateFileAllows(m) ==
    IF m \in {"normal", "setup"} THEN stateFile = "absent" ELSE stateFile = "valid"

\* GetTests: one test, of the setup that the state file describes in the later modes.
GetTests(m) ==
    /\ StateFileAllows(m)
    /\ loc' = [NoLocals EXCEPT !.run = IF m \in {"tests", "teardown"}
                                       THEN saved.run ELSE cmd + 1]

\* testRunnerSystemCommandAction: reads its flags, the state of the stack and the package and
\* runs the suite.  A command that fails before it has tests has changed nothing.
Start(m) ==
    /\ pc = "idle" /\ cmd < MaxCommands
    /\ GetTests(m)
    /\ mode' = m /\ cmd' = cmd + 1
    /\ pc' = "setupRunner"
    /\ before' = [fleet |-> fleet, docker |-> docker]
    /\ UNCHANGED <<config, world, disk, handlers, failed, tdFailed, crashes, faults, disturbed>>

\* The process ends, and what it kept in memory goes with it.
Exits ==
    /\ pc' = "idle"
    /\ mode' = "normal" /\ handlers' = {} /\ loc' = NoLocals
    /\ failed' = FALSE /\ tdFailed' = FALSE /\ faults' = 0
    /\ before' = [fleet |-> fleet, docker |-> docker]
    /\ UNCHANGED <<config, fleet, docker, saved, cmd>>

\* SetupRunner: reinstall the package, except to tear down.  An install that
\* is cancelled is undone, one that fails may be left half done.
SetupRunner ==
    /\ pc = "setupRunner"
    /\ \/ /\ mode = "teardown"
          /\ pc' = "createEnroll" /\ UNCHANGED <<installed, failed>>
       \/ /\ mode # "teardown"
          /\ installed' = TRUE
          /\ pc' = "createEnroll" /\ UNCHANGED failed
       \/ /\ mode # "teardown"
          /\ installed' \in BOOLEAN
          /\ pc' = "tearDownRunner" /\ failed' = TRUE
    /\ UNCHANGED <<config, fleet, docker, disk, mode, cmd, handlers, loc, tdFailed,
                   history>>

\* TearDownRunner: the package stays installed (it is reinstalled) after a
\* setup and after a tests-only run.  An error leaves the package as it was.
TearDownRunner ==
    /\ pc = "tearDownRunner" /\ Exits
    /\ \/ installed' = (mode \in {"setup", "tests"})
       \/ UNCHANGED installed
    /\ disturbed' = (\/ disturbed
                     \/ mode = "teardown"
                     \/ mode = "tests" /\ (failed \/ tdFailed))
    /\ UNCHANGED <<stateFile, crashes>>

-----------------------------------------------------------------------------
(***************************************************************************)
(* prepareScenario.  An error in any step abandons the preparation.  A     *)
(* tests-only run then returns without running the handlers; the other     *)
(* modes go on to tear the test down.                                      *)
(***************************************************************************)
PrepareFails ==
    /\ failed' = TRUE
    /\ pc' = IF mode = "tests" THEN "tearDownRunner" ELSE TearDownOrder[1]

\* The steps that make a call which can fail before it has an effect.
Fallible ==
    /\ pc \in PrepareSteps \ {"agentHandlers"}
    /\ pc = "createTest" => mode # "teardown"
    /\ pc = "assignPolicy" => mode # "teardown" \/ HasService
    /\ pc = "setupAgent" => deployment = "independent"

\* A call fails without effect (an error, a timeout, a cancelled context).
FailPrepare ==
    /\ Fallible
    /\ PrepareFails
    /\ UNCHANGED <<config, world, disk, mode, cmd, handlers, loc, tdFailed, history>>

\* The request reaches Fleet and the answer is lost (a cancelled context, a
\* broken connection): the step returns before it registers a handler, and
\* what the request did stays.
FailsLate(from) ==
    /\ pc = from /\ PrepareFails /\ Faulty(TRUE)
    /\ UNCHANGED <<config, docker, installed, disk, mode, cmd, tdFailed, crashes,
                   disturbed, before>>

PrepareStep(from, to) ==
    /\ pc = from /\ pc' = to
    /\ UNCHANGED <<config, installed, mode, cmd, failed, tdFailed>>

\* The enroll policy is created, or read from the state file.  The handler
\* registered here only knows the enroll policy.
CreateEnrollPolicy ==
    /\ PrepareStep("createEnroll", "createTest")
    /\ IF FromFile
       THEN /\ loc' = [loc EXCEPT !.enroll = saved.enroll]
            /\ UNCHANGED fleet
       ELSE /\ loc' = [loc EXCEPT !.enroll = EnrollPolicy(cmd)]
            /\ fleet' = [fleet EXCEPT !.policies = @ \cup {EnrollPolicy(cmd)}]
    /\ handlers' = handlers \cup {"deletePolicy"}
    /\ UNCHANGED <<docker, disk, history>>

CreateEnrollPolicyFailsLate ==
    /\ FailsLate("createEnroll") /\ ~FromFile
    /\ fleet' = [fleet EXCEPT !.policies = @ \cup {EnrollPolicy(cmd)}]
    /\ UNCHANGED <<handlers, loc>>

\* Mutant: the handler still deletes the enroll policy only.
CreateTestPolicyWithoutHandler ==
    /\ PrepareStep("createTest", "setupAgent")
    /\ loc' = [loc EXCEPT !.test = TestPolicy(cmd)]
    /\ fleet' = [fleet EXCEPT !.policies = @ \cup {TestPolicy(cmd)}]
    /\ UNCHANGED <<handlers, docker, disk, history>>

\* The test policy; the handler is redefined to delete both policies.
CreateTestPolicy ==
    /\ PrepareStep("createTest", "setupAgent")
    /\ IF mode = "teardown"
       THEN /\ loc' = [loc EXCEPT !.test = saved.current, !.both = TRUE]
            /\ UNCHANGED fleet
       ELSE /\ loc' = [loc EXCEPT !.test = TestPolicy(cmd), !.both = TRUE]
            /\ fleet' = [fleet EXCEPT !.policies = @ \cup {TestPolicy(cmd)}]
    /\ UNCHANGED <<handlers, docker, disk, history>>

\* The handler of the enroll policy is not redefined, and deletes that one only.
CreateTestPolicyFailsLate ==
    /\ FailsLate("createTest") /\ mode # "teardown"
    /\ fleet' = [fleet EXCEPT !.policies = @ \cup {TestPolicy(cmd)}]
    /\ UNCHANGED <<handlers, loc>>

\* setupAgent: an agent container of its own, which enrolls with the enroll
\* policy.  The later modes only check that it is still healthy; one in a
\* cluster is not checked.
SetupAgent ==
    /\ PrepareStep("setupAgent",
                   IF deployment = "independent" THEN "checkStarted" ELSE "setupService")
    /\ \/ /\ deployment # "independent"
          /\ UNCHANGED <<fleet, docker, handlers>>
       \/ /\ deployment = "independent" /\ FromFile
          /\ loc.run \in docker.agents \/ service = "kubernetes"
          /\ handlers' = handlers \cup {"shutdownAgent"}
          /\ UNCHANGED <<fleet, docker>>
       \/ /\ deployment = "independent" /\ ~FromFile
          /\ docker' = [docker EXCEPT !.agents = @ \cup {cmd}]
          /\ fleet' = [fleet EXCEPT !.enrolled[cmd] = loc.enroll]
          /\ handlers' = handlers \cup {"shutdownAgent"}
    /\ UNCHANGED <<loc, disk, history>>

\* The containers of a deployer that fails in SetUp are taken down by its
\* deferred tear-down, which may fail too (clean).  The agent in them may have
\* enrolled before that (joined).
SetUpFails(containers, clean, joined) ==
    /\ PrepareFails
    /\ mode # "tests"
    /\ docker' = [docker EXCEPT ![containers] =
                    IF clean THEN @ \ {loc.run}
                    ELSE IF FromFile THEN @ ELSE @ \cup {loc.run}]
    /\ fleet' = IF joined THEN [fleet EXCEPT !.enrolled[cmd] = loc.enroll] ELSE fleet
    /\ Faulty(~clean)
    /\ UNCHANGED <<config, installed, disk, mode, cmd, handlers, loc, tdFailed, crashes,
                   disturbed, before>>

SetupAgentFails ==
    /\ pc = "setupAgent" /\ deployment = "independent" /\ service # "kubernetes"
    /\ \E clean \in BOOLEAN, joined \in (IF FromFile THEN {FALSE} ELSE BOOLEAN) :
            SetUpFails("agents", clean, joined)

SetupServiceFails ==
    /\ pc = "setupService" /\ service \in {"compose", "terraform"}
    /\ RunsBySteps \/ mode = "normal"
    /\ \E clean \in BOOLEAN,
          joined \in (IF FromFile \/ deployment # "custom" THEN {FALSE} ELSE BOOLEAN) :
            SetUpFails("services", clean, joined)

\* kubectl apply created resources before it failed, or they were not ready in
\* time: what is applied stays.
ApplyFails ==
    /\ service = "kubernetes" /\ PrepareFails /\ Faulty(TRUE)
    /\ UNCHANGED <<config, installed, disk, mode, cmd, handlers, loc, tdFailed, crashes,
                   disturbed, before>>

\* The kubernetes deployers do not undo it and no handler knows of it.
AgentApplyFails ==
    /\ pc = "setupAgent" /\ deployment = "independent" /\ ~FromFile
    /\ ApplyFails
    /\ docker' = [docker EXCEPT !.agents = @ \cup {cmd}]
    /\ fleet' \in {fleet, [fleet EXCEPT !.enrolled[cmd] = loc.enroll]}

DefinitionsApplyFails ==
    /\ pc = "setupService" /\ mode # "teardown"
    /\ ApplyFails
    /\ docker' = [docker EXCEPT !.definitions = TRUE]
    /\ UNCHANGED fleet

\* An error that says a file does not exist is taken for a service that is not
\* defined, and the test goes on: terraform that wrote no outputs, once its
\* containers were taken down again.
OutputsMissing ==
    /\ PrepareStep("setupService", "addPackagePolicy")
    /\ service = "terraform" /\ mode = "normal"
    /\ \E clean \in BOOLEAN :
        /\ docker' = IF clean THEN docker ELSE [docker EXCEPT !.services = @ \cup {cmd}]
        /\ Faulty(~clean)
    /\ UNCHANGED <<fleet, handlers, loc, disk, crashes, disturbed, before>>

\* checkEnrolledAgents, also called once more before the service starts if an
\* agent was deployed.  It selects an agent and registers its removal.
CheckEnrolledAgents(from, to) ==
    /\ PrepareStep(from, to)
    /\ \E a \in AgentCandidates(EnrollOrCurrent) : loc' = [loc EXCEPT !.agent = a]
    /\ handlers' = handlers \cup {"removeAgent"}
    /\ UNCHANGED <<fleet, docker, disk, history>>

CheckStartedAgent == CheckEnrolledAgents("checkStarted", "setupService")
CheckEnrolledAgent == CheckEnrolledAgents("checkEnrolled", "agentHandlers")

\* setupService: Factory and SetUp.  The later modes check that the containers
\* are still healthy; definitions are applied again, except to tear down.
SetupService ==
    /\ PrepareStep("setupService", "addPackagePolicy")
    /\ RunsBySteps \/ mode = "normal"
    /\ handlers' = IF HasService THEN handlers \cup {"shutdownService"} ELSE handlers
    /\ \/ /\ ~HasService
          /\ UNCHANGED <<fleet, docker>>
       \/ /\ service = "kubernetes"
          /\ docker' = [docker EXCEPT !.definitions = @ \/ mode # "teardown"]
          /\ UNCHANGED fleet
       \/ /\ service \in {"compose", "terraform"} /\ FromFile
          /\ loc.run \in docker.services
          /\ UNCHANGED <<fleet, docker>>
       \/ /\ service \in {"compose", "terraform"} /\ ~FromFile
          /\ docker' = [docker EXCEPT !.services = @ \cup {cmd}]
          /\ fleet' = IF deployment = "custom"
                      THEN [fleet EXCEPT !.enrolled[cmd] = loc.enroll]
                      ELSE fleet
    /\ UNCHANGED <<loc, disk, history>>

AddPackagePolicy ==
    /\ PrepareStep("addPackagePolicy", "checkEnrolled")
    /\ fleet' = IF mode = "teardown" THEN fleet
                ELSE [fleet EXCEPT !.streams = @ \cup {loc.test}]
    /\ handlers' = handlers \cup {"cleanScenario"}
    /\ UNCHANGED <<docker, loc, disk, history>>

\* The package policy goes with the test policy it is part of.
AddPackagePolicyFailsLate ==
    /\ FailsLate("addPackagePolicy") /\ mode # "teardown"
    /\ fleet' = [fleet EXCEPT !.streams = @ \cup {loc.test}]
    /\ UNCHANGED <<handlers, loc>>

\* setupAgentHandlers: remember the policy and the log level of the agent (or
\* take them from the state file) and switch the agent to debug.
SetupAgentHandlers ==
    /\ PrepareStep("agentHandlers", "assignPolicy")
    /\ IF mode = "teardown"
       THEN /\ loc' = [loc EXCEPT !.orig = saved.orig, !.origLevel = saved.origLevel]
            /\ UNCHANGED fleet
       ELSE /\ loc' = [loc EXCEPT !.orig = fleet.enrolled[loc.agent],
                                  !.origLevel = fleet.level[loc.agent]]
            /\ fleet' = [fleet EXCEPT !.level[loc.agent] = "debug"]
    /\ handlers' = handlers \cup {"resetPolicy", "resetLogLevel"}
    /\ UNCHANGED <<docker, disk, history>>

\* The log level call fails after the first handler was registered and before
\* the one that sets the level back, whether Fleet changed the level or not (late).
SetLogLevelFails ==
    /\ pc = "agentHandlers" /\ mode # "teardown"
    /\ PrepareFails
    /\ loc' = [loc EXCEPT !.orig = fleet.enrolled[loc.agent]]
    /\ handlers' = handlers \cup {"resetPolicy"}
    /\ \E late \in BOOLEAN :
        /\ fleet' = IF late THEN [fleet EXCEPT !.level[loc.agent] = "debug"] ELSE fleet
        /\ Faulty(late)
    /\ UNCHANGED <<config, docker, installed, disk, mode, cmd, tdFailed, crashes, disturbed,
                   before>>

\* finalizeScenario, up to the notification of the service.  A tear-down ends
\* its preparation here.
AssignTestPolicy ==
    /\ pc = "assignPolicy"
    /\ \/ /\ mode = "teardown"
          /\ pc' = TearDownOrder[1] /\ UNCHANGED fleet
       \/ /\ mode # "teardown" /\ Enrolled(loc.agent)
          /\ pc' = "waitForData"
          /\ fleet' = [fleet EXCEPT !.enrolled[loc.agent] = loc.test]
    /\ UNCHANGED <<config, docker, installed, disk, mode, cmd, handlers, loc, failed,
                   tdFailed, history>>

\* Fleet assigned the policy, but the agent did not report it in time or the
\* signal to the service failed.
AssignTestPolicyFailsLate ==
    /\ pc = "assignPolicy" /\ mode # "teardown" /\ Enrolled(loc.agent)
    /\ PrepareFails
    /\ fleet' = [fleet EXCEPT !.enrolled[loc.agent] = loc.test]
    /\ UNCHANGED <<config, docker, installed, disk, mode, cmd, handlers, loc, tdFailed,
                   history>>

\* Documents arrived.  A setup goes on to write the state file; in the other
\* modes the validation of the documents follows, which changes nothing here.
WaitForData ==
    /\ PrepareStep("waitForData",
                   IF mode = "setup" THEN "writeState" ELSE TearDownOrder[1])
    /\ loc.test \in fleet.docs
    /\ UNCHANGED <<fleet, docker, handlers, loc, disk, history>>

\* Mutant: the policy the agent enrolled with for the one it is on.
ScenarioStateOfEnroll ==
    [orig |-> loc.orig, enroll |-> loc.enroll, current |-> loc.enroll,
     origLevel |-> loc.origLevel, run |-> loc.run]

\* What the setup leaves to the commands after it.
ScenarioState ==
    [orig |-> loc.orig, enroll |-> loc.enroll, current |-> loc.test,
     origLevel |-> loc.origLevel, run |-> loc.run]

\* A setup that wrote its state leaves the test as it is.
WriteState ==
    /\ PrepareStep("writeState", "tearDownRunner")
    /\ stateFile' = "valid"
    /\ saved' = ScenarioState
    /\ disturbed' = FALSE
    /\ UNCHANGED <<fleet, docker, handlers, loc, crashes, faults, before>>

\* os.WriteFile truncates the file first: an error can leave part of it.
WriteStateFails ==
    /\ pc = "writeState" /\ PrepareFails
    /\ stateFile' = "corrupt"
    /\ UNCHANGED <<config, world, saved, mode, cmd, handlers, loc, tdFailed, history>>

-----------------------------------------------------------------------------
(***************************************************************************)
(* tearDownTest.  Each step runs its handler, if it was registered and     *)
(* does not stand down in this mode; an error is collected and the next    *)
(* handler runs all the same.                                              *)
(***************************************************************************)
AfterHandler(h) ==
    LET i == CHOOSE j \in DOMAIN TearDownOrder : TearDownOrder[j] = h
    IN  IF i = Len(TearDownOrder) THEN "removeStateFile" ELSE TearDownOrder[i + 1]

\* An agent of the test goes away with its policy, unless it outlives the command.
KeepsPolicyOfOwnAgent == mode = "setup" \/ deployment = "independent"    \* mutant
KeepsPolicy == mode = "setup" \/ (deployment = "independent" /\ mode # "tests")

KeepsContainersOfSetup == mode \in {"setup", "tests"}    \* mutant
StopsContainers == FALSE                                 \* mutant
KeepsContainers == mode = "tests"

StandsDown(h) ==
    \/ h = "resetPolicy" /\ KeepsPolicy
    \/ h = "resetLogLevel" /\ (mode \in {"setup", "tests"} \/ deployment = "independent")
    \/ h = "removeAgent" /\ (mode = "tests" \/ deployment = "stack")
    \/ h \in {"shutdownService", "shutdownAgent"} /\ KeepsContainers

Runs(h) == h \in handlers /\ ~StandsDown(h)

TearDownStep(h) ==
    /\ pc = h /\ pc' = AfterHandler(h)
    /\ handlers' = handlers \ {h}
    /\ UNCHANGED <<config, installed, disk, mode, cmd, loc, failed, crashes, disturbed, before>>

SkipHandler(h) ==
    /\ TearDownStep(h) /\ ~Runs(h)
    /\ UNCHANGED <<fleet, docker, tdFailed, faults>>

\* The call of the handler fails without effect.
HandlerFails(h) ==
    /\ TearDownStep(h) /\ Runs(h)
    /\ tdFailed' = TRUE /\ Faulty(TRUE)
    /\ UNCHANGED <<fleet, docker>>

\* Fleet reassigns the agent if the original policy still exists.  Waiting for
\* the agent to report it can fail after that (late).
ResetAgentPolicy ==
    /\ TearDownStep("resetPolicy") /\ Runs("resetPolicy")
    /\ \E late \in BOOLEAN :
        IF Enrolled(loc.agent) /\ loc.orig \in fleet.policies
        THEN /\ fleet' = [fleet EXCEPT !.enrolled[loc.agent] = loc.orig]
             /\ tdFailed' = (tdFailed \/ late) /\ Faulty(late)
        ELSE tdFailed' = TRUE /\ UNCHANGED <<fleet, faults>>
    /\ UNCHANGED docker

ShutdownService ==
    /\ TearDownStep("shutdownService") /\ Runs("shutdownService")
    /\ service # "kubernetes"
    /\ docker' = [docker EXCEPT !.services = @ \ {loc.run}]
    /\ UNCHANGED <<fleet, tdFailed, faults>>

\* kubectl delete: what it has deleted stays deleted when it fails (late), and
\* deleting what is not there is an error, where compose has nothing to do.
Delete(h, exists, containers, left) ==
    /\ service = "kubernetes"
    /\ TearDownStep(h) /\ Runs(h)
    /\ docker' = [docker EXCEPT ![containers] = left]
    /\ \E late \in (IF exists THEN BOOLEAN ELSE {FALSE}) :
        tdFailed' = (tdFailed \/ late \/ ~exists) /\ Faulty(late)
    /\ UNCHANGED fleet

\* Mutant: the definitions stay.
DeleteNothing ==
    Delete("shutdownService", docker.definitions, "definitions", docker.definitions)
DeleteDefinitions ==
    Delete("shutdownService", docker.definitions, "definitions", FALSE)
DeleteAgent ==
    Delete("shutdownAgent", loc.run \in docker.agents, "agents", docker.agents \ {loc.run})

ResetAgentLogLevel ==
    /\ TearDownStep("resetLogLevel") /\ Runs("resetLogLevel")
    /\ fleet' = [fleet EXCEPT !.level[loc.agent] = loc.origLevel]
    /\ UNCHANGED <<docker, tdFailed, faults>>

RemoveAgent ==
    /\ TearDownStep("removeAgent") /\ Runs("removeAgent")
    /\ fleet' = [fleet EXCEPT !.enrolled[loc.agent] = Unassigned]
    /\ UNCHANGED <<docker, tdFailed, faults>>

ShutdownAgent ==
    /\ TearDownStep("shutdownAgent") /\ Runs("shutdownAgent")
    /\ service # "kubernetes"
    /\ docker' = [docker EXCEPT !.agents = @ \ {loc.run}]
    /\ UNCHANGED <<fleet, tdFailed, faults>>

\* Mutant: only the test policy.
TestPolicyToDelete == IF loc.both THEN <<loc.test>> ELSE <<loc.enroll>>

\* The policies the delete handler goes through; the first error ends it.
PoliciesToDelete ==
    IF ~loc.both THEN <<loc.enroll>>
    ELSE IF mode = "tests" THEN <<loc.test>> ELSE <<loc.test, loc.enroll>>

DeletePolicies ==
    /\ TearDownStep("deletePolicy") /\ Runs("deletePolicy")
    /\ \E n \in 0..Len(PoliciesToDelete) :
        LET gone == {PoliciesToDelete[i] : i \in 1..n}
            complete == n = Len(PoliciesToDelete)
        IN  /\ \A p \in gone : Deletable(p)
            /\ fleet' = [fleet EXCEPT !.policies = @ \ gone, !.streams = @ \ gone]
            /\ tdFailed' = (tdFailed \/ ~complete)
            /\ Faulty(~complete /\ Deletable(PoliciesToDelete[n + 1]))
    /\ UNCHANGED docker

CleanTestScenario ==
    /\ TearDownStep("cleanScenario") /\ Runs("cleanScenario")
    /\ fleet' = [fleet EXCEPT !.docs = @ \ {loc.test}]
    /\ UNCHANGED <<docker, tdFailed, faults>>

\* A failed setup removes the state file, a tear-down only if it collected no
\* error.  Removing the file can fail.
RemoveServiceStateFile ==
    /\ pc = "removeStateFile" /\ pc' = "tearDownRunner"
    /\ IF mode = "setup" \/ (mode = "teardown" /\ ~tdFailed)
       THEN \/ stateFile' = "absent" /\ UNCHANGED faults
            \/ Faulty(TRUE) /\ UNCHANGED stateFile
       ELSE UNCHANGED <<stateFile, faults>>
    /\ UNCHANGED <<config, world, saved, mode, cmd, handlers, loc, failed, tdFailed,
                   crashes, disturbed, before>>

-----------------------------------------------------------------------------
(***************************************************************************)
(* The environment.                                                        *)
(***************************************************************************)
\* A running agent sends documents for the data stream in its policy.
AgentSends(a) ==
    /\ Alive(a) /\ fleet.enrolled[a] \in fleet.streams \ fleet.docs
    /\ fleet' = [fleet EXCEPT !.docs = @ \cup {fleet.enrolled[a]}]
    /\ UNCHANGED <<config, docker, installed, disk, pc, mode, cmd, handlers, loc, failed,
                   tdFailed, history>>

\* The command is killed; a state file it was writing can be cut short.
Crash ==
    /\ pc # "idle" /\ crashes < MaxCrashes /\ faults + crashes < MaxFaults /\ Exits
    /\ crashes' = crashes + 1 /\ disturbed' = TRUE
    /\ stateFile' \in IF pc = "writeState" THEN {"absent", "corrupt"} ELSE {stateFile}
    /\ UNCHANGED installed

Prepare ==
    \/ FailPrepare \/ CreateEnrollPolicy \/ CreateTestPolicy
    \/ CreateEnrollPolicyFailsLate \/ CreateTestPolicyFailsLate \/ AddPackagePolicyFailsLate
    \/ SetupAgent \/ SetupAgentFails \/ CheckStartedAgent
    \/ SetupService \/ SetupServiceFails \/ AddPackagePolicy \/ CheckEnrolledAgent
    \/ AgentApplyFails \/ DefinitionsApplyFails \/ OutputsMissing
    \/ SetupAgentHandlers \/ SetLogLevelFails
    \/ AssignTestPolicy \/ AssignTestPolicyFailsLate
    \/ WaitForData \/ WriteState \/ WriteStateFails

TearDown ==
    \/ \E h \in Handler : SkipHandler(h) \/ HandlerFails(h)
    \/ ResetAgentPolicy \/ ShutdownService \/ ResetAgentLogLevel \/ RemoveAgent
    \/ ShutdownAgent \/ DeleteDefinitions \/ DeleteAgent \/ DeletePolicies \/ CleanTestScenario
    \/ RemoveServiceStateFile

Next ==
    \/ \E m \in Modes : Start(m)
    \/ SetupRunner \/ Prepare \/ TearDown \/ TearDownRunner
    \/ \E a \in Agent : AgentSends(a)
    \/ Crash

Spec == Init /\ [][Next]_vars

-----------------------------------------------------------------------------
(***************************************************************************)
(* Properties.                                                             *)
(***************************************************************************)
TesterDone(m) == pc = "tearDownRunner" /\ mode = m

\* Fleet is as the command found it, but for an agent that enrolled from
\* containers that failed to start: nobody selected it, so it and the enroll
\* policy it uses are left.
FleetRestored ==
    /\ \A a \in Agent \ {cmd} : /\ fleet.enrolled[a] = before.fleet.enrolled[a]
                                /\ fleet.level[a] = before.fleet.level[a]
    /\ fleet.policies \ {EnrollPolicy(cmd)} = before.fleet.policies
    /\ EnrollPolicy(cmd) \in fleet.policies =>
            fleet.enrolled[cmd] = EnrollPolicy(cmd) /\ ~Alive(cmd)
    /\ fleet.enrolled[cmd] \in {Unassigned, EnrollPolicy(cmd)}
    /\ TestPolicy(cmd) \notin fleet.docs

\* Docker and the cluster are as the command found them.  Definitions have no
\* run in their names: who uses them takes away what an earlier run left, too.
DockerRestored ==
    docker \in {before.docker, [before.docker EXCEPT !.definitions = FALSE]}

\* A plain run gives everything back, wherever it stopped: containers, agents
\* with their policy and log level, policies and documents, as long as no
\* call failed that had taken effect without a handler and no clean-up call
\* did (tester.go: tearDownTest after every runTest).
NormalRunRestores ==
    TesterDone("normal") /\ Faultless => DockerRestored /\ FleetRestored

\* A setup that failed leaves no state file and no containers, and gives Fleet
\* back unless the test ran on the shared agent of the stack, which keeps the
\* test policy and the debug level (the reset handlers stand down in a setup).
FailedSetupRestores ==
    TesterDone("setup") /\ failed /\ Faultless =>
        /\ stateFile = "absent" /\ DockerRestored
        /\ deployment # "stack" => FleetRestored

\* A tests-only run that prepared its scenario gives everything back to the
\* setup it ran on: it stops nothing and removes only its own test policy.
TestsRunRestores ==
    TesterDone("tests") /\ ~failed /\ Faultless =>
        /\ docker = [before.docker EXCEPT !.definitions = @ \/ service = "kubernetes"]
        /\ fleet.policies = before.fleet.policies
        /\ fleet.enrolled = before.fleet.enrolled
        /\ TestPolicy(cmd) \notin fleet.docs

\* What the state file describes exists, and an agent is on its policy and can
\* be found, as long as the commands since the setup ended in good order.
StoredSetupIsUsable ==
    stateFile = "valid" /\ pc = "idle" /\ ~disturbed =>
        /\ installed
        /\ {saved.enroll, saved.current} \subseteq fleet.policies
        /\ \E a \in AgentCandidates(saved.current) : fleet.enrolled[a] = saved.current
        /\ service = "compose" => saved.run \in docker.services
        /\ service = "kubernetes" => docker.definitions
        /\ deployment = "independent" => saved.run \in docker.agents

\* A tear-down that went through its preparation and dropped the state file
\* has undone the setup; the first tear-down of a sound setup does drop it
\* unless a clean-up call fails.
TearDownUndoesSetup ==
    /\ TesterDone("teardown") /\ ~failed /\ stateFile = "absent" =>
        /\ saved.run \notin docker.services \cup docker.agents /\ ~docker.definitions
        /\ {saved.enroll, saved.current} \cap fleet.policies = {}
        /\ saved.current \notin fleet.docs
        /\ deployment = "stack" => /\ fleet.enrolled[StackAgent] = saved.orig
                                   /\ fleet.level[StackAgent] = saved.origLevel
    /\ TesterDone("teardown") /\ ~failed /\ Faultless /\ ~disturbed => stateFile = "absent"

\* Each mode gives back what it owes, over any sequence of them: a plain run and a failed
\* setup all, a tests-only run its own part, and a tear-down what its setup kept.
CommandsRestore ==
    NormalRunRestores /\ FailedSetupRestores /\ TestsRunRestores /\ TearDownUndoesSetup

\* At every point where a command can be interrupted, what it has acquired so
\* far has a handler that will give it back (the comment at tester.go:1635),
\* but for what a call left that took effect and failed.
AcquiredHasHandler ==
    pc \in PrepareSteps /\ ~FromFile /\ Faultless =>
        /\ cmd \in docker.services \/ (docker.definitions /\ ~before.docker.definitions) =>
                "shutdownService" \in handlers
        /\ cmd \in docker.agents => "shutdownAgent" \in handlers
        /\ EnrollPolicy(cmd) \in fleet.policies => "deletePolicy" \in handlers
        /\ TestPolicy(cmd) \in fleet.policies => "deletePolicy" \in handlers /\ loc.both
        /\ \A a \in Agent : fleet.enrolled[a] = TestPolicy(cmd) =>
                {"resetPolicy", "removeAgent"} \subseteq handlers /\ loc.agent = a
        /\ TestPolicy(cmd) \in fleet.docs => "cleanScenario" \in handlers

\* While a setup is stored, only a tear-down stops its containers, removes its
\* policies or drops its state file.
OnlyTearDownDismantles ==
    [][stateFile = "valid" /\ mode # "teardown" =>
        /\ stateFile' = "valid" /\ saved' = saved
        /\ {saved.enroll, saved.current} \cap fleet.policies \subseteq fleet'.policies
        /\ docker.definitions => docker'.definitions
        /\ {saved.run} \cap docker.services \subseteq docker'.services
        /\ {saved.run} \cap docker.agents \subseteq docker'.agents]_vars

=============================================================================
