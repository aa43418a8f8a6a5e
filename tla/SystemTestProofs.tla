---------------------------- MODULE SystemTestProofs ----------------------------
(***************************************************************************)
(* Theorems about SystemTest, for any number of commands, of crashes and   *)
(* of calls that fail.                                                     *)
(*                                                                         *)
(* The inductive invariant says of everything that a command acquires that *)
(* it is still owed, by a handler that is registered and has not run, or   *)
(* is given back.  When the command is over no handler is left.            *)
(***************************************************************************)
EXTENDS SystemTest, TLAPS

\* The steps of the preparation from one on.
Assigned == {"waitForData", "writeState"}
Handled == Assigned \cup {"assignPolicy"}
Selected == Handled \cup {"agentHandlers"}
Streaming == Selected \cup {"checkEnrolled"}
Serviced == Streaming \cup {"addPackagePolicy"}
WithAgent == Serviced \cup {"checkStarted", "setupService"}
WithPolicies == WithAgent \cup {"setupAgent"}

\* The steps after the one that runs a handler.
AfterClean == {"removeStateFile"}
AfterDelete == AfterClean \cup {"cleanScenario"}
AfterShutdownAgent == AfterDelete \cup {"deletePolicy"}
AfterRemove == AfterShutdownAgent \cup {"shutdownAgent"}
AfterLevel == AfterRemove \cup {"removeAgent"}
AfterShutdown == AfterLevel \cup {"resetLogLevel"}
AfterReset == AfterShutdown \cup {"shutdownService"}
TearingDown == AfterReset \cup {"resetPolicy"}

Running == pc # "idle"
Beginning == {"idle", "setupRunner", "createEnroll"}

\* The agent that is tested.
Tested == IF deployment = "stack" THEN StackAgent ELSE loc.run
Own == TestPolicy(cmd)

\* No call failed and left something, or no error was reported so far.
Clean == Faultless \/ (~failed /\ ~tdFailed)

\* The commands that give Fleet back.
Restores == mode \in {"normal", "tests"} \/ (mode = "setup" /\ deployment # "stack")

\* While this holds what the command acquired is owed or given back.
Owing == Running /\ mode # "teardown" /\ Clean /\ (Restores \/ pc \in PrepareSteps \cup {"setupRunner"})

\* A tear-down that has prepared the test and has reported no error.
Undoing == mode = "teardown" /\ ~failed /\ ~tdFailed /\ pc \in TearingDown \cup {"tearDownRunner"}

Holding == stateFile = "valid" \/ (Running /\ FromFile)

-----------------------------------------------------------------------------
\* Commands before this one have nothing that is named after it.
Numbered ==
    /\ \A p \in fleet.policies \cup fleet.docs : p.cmd <= cmd
    /\ fleet.streams \subseteq fleet.policies
    /\ docker.services \cup docker.agents \subseteq 1..cmd
    /\ \A a \in Agent : a > cmd => ~Enrolled(a)
    /\ Running => /\ \A p \in before.fleet.policies : p.cmd < cmd
                  /\ before.docker.services \cup before.docker.agents \subseteq 1..(cmd - 1)

\* What a deployment or a service does not use is not there; an agent is on a policy that exists.
Placed ==
    /\ service \in DefinedServices
    /\ deployment # "independent" => docker.agents = {}
    /\ service \notin {"compose", "terraform"} => docker.services = {}
    /\ service # "kubernetes" => ~docker.definitions
    /\ IF deployment = "stack" THEN Enrolled(StackAgent) /\ \A a \in Run : ~Enrolled(a)
                               ELSE fleet.enrolled[StackAgent] = Default
    /\ \A a \in Agent : Enrolled(a) => fleet.enrolled[a] \in fleet.policies
    /\ \A a \in Agent, n \in Run : fleet.enrolled[a] = EnrollPolicy(n) => a = n
    /\ Running => \A a \in Agent : \/ before.fleet.enrolled[a] = Unassigned
                                   \/ before.fleet.enrolled[a] \in before.fleet.policies
    /\ Running => \A a \in Agent, n \in Run : before.fleet.enrolled[a] = EnrollPolicy(n) => a = n

\* What the process knows, and how the handlers are registered and run.
Process ==
    /\ ~Running => mode = "normal" /\ faults = 0
    /\ Running => loc.run = IF FromFile THEN saved.run ELSE cmd
    /\ pc \notin TearingDown \cup {"tearDownRunner"} => ~failed /\ ~tdFailed
    /\ pc \in TearingDown => (mode = "setup" => failed) /\ (mode = "tests" => ~failed)
    /\ pc \in Assigned => mode # "teardown" /\ (pc = "writeState" => mode = "setup")
    /\ pc \in Serviced => RunsBySteps \/ mode = "normal"
    /\ pc \in Beginning \cup {"createTest"} => ~loc.both
    /\ pc \in WithPolicies \/ (pc \in TearingDown /\ FromFile /\ ~failed) => loc.both
    /\ loc.both => loc.test = IF mode = "teardown" THEN TestPolicy(loc.run) ELSE Own
    /\ "deletePolicy" \in handlers => loc.enroll = EnrollPolicy(loc.run)
    /\ "removeAgent" \in handlers => loc.agent = Tested /\ "deletePolicy" \in handlers
    /\ "shutdownAgent" \in handlers => deployment = "independent"
    /\ "cleanScenario" \in handlers => loc.both
    /\ handlers \cap {"resetPolicy", "resetLogLevel"} # {} => "removeAgent" \in handlers
    /\ "resetPolicy" \in handlers =>
           loc.orig = IF mode = "teardown" THEN saved.orig
                      ELSE IF mode = "tests" \/ deployment = "stack"
                      THEN before.fleet.enrolled[Tested] ELSE EnrollPolicy(cmd)
    /\ "resetLogLevel" \in handlers =>
           /\ mode = "teardown" => loc.origLevel = saved.origLevel
           /\ mode = "normal" /\ deployment = "stack" =>
                  loc.origLevel = before.fleet.level[StackAgent]

\* A handler is registered before its step, and forgotten when it has run.
Registered ==
    /\ pc \in Beginning => handlers = {}
    /\ pc \in WithPolicies \cup {"createTest"} => "deletePolicy" \in handlers
    /\ pc \in WithAgent /\ deployment = "independent" => "shutdownAgent" \in handlers
    /\ pc \in Serviced /\ HasService /\ RunsBySteps => "shutdownService" \in handlers
    /\ pc \in Streaming => "cleanScenario" \in handlers
    /\ pc \in Selected => "removeAgent" \in handlers
    /\ pc \in Handled => {"resetPolicy", "resetLogLevel"} \subseteq handlers
    /\ pc \in AfterReset => "resetPolicy" \notin handlers
    /\ pc \in AfterShutdown => "shutdownService" \notin handlers
    /\ pc \in AfterLevel => "resetLogLevel" \notin handlers
    /\ pc \in AfterRemove => "removeAgent" \notin handlers
    /\ pc \in AfterShutdownAgent => "shutdownAgent" \notin handlers
    /\ pc \in AfterDelete => "deletePolicy" \notin handlers
    /\ pc \in AfterClean => "cleanScenario" \notin handlers
    /\ pc = "tearDownRunner" =>
           \/ handlers = {}
           \/ mode = "setup" /\ ~failed
           \/ mode = "tests" /\ failed

\* The containers and the definitions of a command.
Containers ==
    /\ Running /\ ~FromFile /\ Faultless =>
           /\ docker.services \ {cmd} = before.docker.services
           /\ docker.agents \ {cmd} = before.docker.agents
           /\ cmd \in docker.services => "shutdownService" \in handlers
           /\ cmd \in docker.agents => "shutdownAgent" \in handlers
           /\ docker.definitions => before.docker.definitions \/ "shutdownService" \in handlers
    /\ ~FromFile =>
           /\ pc \in WithAgent /\ deployment = "independent" => cmd \in docker.agents
           /\ pc \in Serviced /\ service = "compose" => cmd \in docker.services
           /\ pc \in Serviced /\ service = "kubernetes" => docker.definitions
    /\ Running /\ mode = "tests" /\ ~failed =>
           /\ docker.services = before.docker.services /\ docker.agents = before.docker.agents
           /\ docker.definitions <=> \/ before.docker.definitions
                                     \/ /\ service = "kubernetes"
                                        /\ pc \in Serviced \cup TearingDown \cup {"tearDownRunner"}
    /\ Running /\ mode = "teardown" /\ ~failed =>
           /\ pc \notin AfterShutdown \cup {"tearDownRunner"} =>
                  docker.definitions = before.docker.definitions
           /\ pc \notin AfterShutdownAgent \cup {"tearDownRunner"} =>
                  docker.agents = before.docker.agents
    /\ Undoing =>
           /\ saved.run \in docker.services \/ docker.definitions => "shutdownService" \in handlers
           /\ saved.run \in docker.agents => "shutdownAgent" \in handlers

\* Nobody but the agent that is tested is touched.
OtherAgents ==
    Running => \A a \in Agent \ {Tested} :
        /\ fleet.enrolled[a] = before.fleet.enrolled[a]
        /\ fleet.level[a] = before.fleet.level[a]

\* The policy of the agent that is tested, by the steps of the command.
TestedAgent ==
    /\ Running /\ (deployment = "stack" \/ FromFile) =>
           /\ pc \notin Assigned \cup TearingDown \cup {"tearDownRunner"} =>
                  fleet.enrolled[Tested] = before.fleet.enrolled[Tested]
           /\ pc \notin Handled \cup TearingDown \cup {"tearDownRunner"} =>
                  fleet.level[Tested] = before.fleet.level[Tested]
           /\ mode = "teardown" /\ pc = "resetPolicy" =>
                  fleet.enrolled[Tested] = before.fleet.enrolled[Tested]
    /\ Running /\ ~FromFile /\ deployment # "stack" =>
           /\ fleet.enrolled[cmd] \in {Unassigned, EnrollPolicy(cmd), Own}
           /\ pc \in PrepareSteps \ Assigned => fleet.enrolled[cmd] # Own
           /\ pc \in {"agentHandlers", "assignPolicy"} => fleet.enrolled[cmd] = EnrollPolicy(cmd)
    /\ pc \in Assigned => fleet.enrolled[Tested] = loc.test

\* What is owed to it.
OwedAgent ==
    /\ Owing /\ deployment # "stack" /\ ~FromFile /\ fleet.enrolled[cmd] = Own =>
           "removeAgent" \in handlers
    /\ Owing /\ (deployment = "stack" \/ mode = "tests") =>
           \/ fleet.enrolled[Tested] = before.fleet.enrolled[Tested]
           \/ /\ fleet.enrolled[Tested] = Own /\ "resetPolicy" \in handlers
              /\ before.fleet.enrolled[Tested] # Unassigned
    /\ Owing /\ deployment = "stack" /\ mode = "normal" =>
           fleet.level[StackAgent] = before.fleet.level[StackAgent] \/ "resetLogLevel" \in handlers
    /\ Undoing =>
           IF deployment = "stack"
           THEN /\ fleet.enrolled[StackAgent] = saved.orig \/ "resetPolicy" \in handlers
                /\ fleet.level[StackAgent] = saved.origLevel \/ "resetLogLevel" \in handlers
           ELSE fleet.enrolled[saved.run] = Unassigned \/ "removeAgent" \in handlers

Agents == OtherAgents /\ TestedAgent /\ OwedAgent

\* The policies, and the documents of their data streams.
Policies ==
    /\ Running /\ mode # "teardown" =>
           /\ fleet.policies \ {EnrollPolicy(cmd), Own} = before.fleet.policies
           /\ "deletePolicy" \in handlers /\ loc.both => Own \in fleet.policies
           /\ IF FromFile THEN EnrollPolicy(cmd) \notin fleet.policies
              ELSE "deletePolicy" \in handlers => EnrollPolicy(cmd) \in fleet.policies
    /\ Owing =>
           /\ Own \in fleet.policies => "deletePolicy" \in handlers /\ loc.both
           /\ Own \in fleet.docs \cup fleet.streams => "cleanScenario" \in handlers
           /\ ~FromFile /\ EnrollPolicy(cmd) \in fleet.policies =>
                  "deletePolicy" \in handlers \/ fleet.enrolled[cmd] = EnrollPolicy(cmd)
    /\ Running /\ (mode = "teardown" \/ pc \in Beginning) /\ pc \notin AfterDelete \cup {"tearDownRunner"} =>
           fleet.policies = before.fleet.policies
    /\ Undoing =>
           /\ {saved.enroll, saved.current} \cap fleet.policies # {} => "deletePolicy" \in handlers
           /\ saved.current \in fleet.docs \cup fleet.streams => "cleanScenario" \in handlers

\* What a setup leaves is there in Fleet and Docker.
UsableIn(f, d) ==
    /\ {saved.enroll, saved.current, saved.orig} \subseteq f.policies
    /\ f.enrolled[IF deployment = "stack" THEN StackAgent ELSE saved.run] = saved.current
    /\ service = "compose" => saved.run \in d.services
    /\ service = "kubernetes" => d.definitions
    /\ deployment = "independent" => saved.run \in d.agents

\* What the state file says, who may find it, and what it is worth.
Stored ==
    /\ Holding =>
           /\ saved \in Saved /\ saved.run <= cmd /\ RunsBySteps
           /\ Running /\ FromFile => saved.run < cmd
           /\ saved.enroll = EnrollPolicy(saved.run) /\ saved.current = TestPolicy(saved.run)
           /\ IF deployment = "stack"
              THEN /\ saved.orig \in Policy /\ saved.orig.cmd < saved.run
                   /\ \A n \in Run : saved.orig # EnrollPolicy(n)
              ELSE /\ saved.orig = saved.enroll
                   /\ \A a \in Agent : fleet.enrolled[a] = saved.current => a = saved.run
    /\ stateFile = "valid" =>
           ~Running \/ FromFile \/ (mode = "setup" /\ pc = "tearDownRunner" /\ ~failed)
    /\ Running /\ mode = "tests" => stateFile = "valid"
    /\ Running /\ mode = "teardown" =>
           stateFile = "valid" \/ (stateFile = "absent" /\ pc = "tearDownRunner" /\ ~tdFailed)
    /\ mode = "setup" /\ pc \in PrepareSteps \cup {"setupRunner"} => stateFile = "absent"
    /\ mode = "setup" /\ failed /\ pc = "tearDownRunner" /\ Faultless => stateFile = "absent"
    /\ mode = "teardown" /\ ~failed /\ Faultless /\ ~disturbed =>
           ~tdFailed /\ (pc = "tearDownRunner" => stateFile = "absent")
    /\ Running /\ mode \in {"setup", "tests"} /\ ~failed /\ pc # "setupRunner" => installed
    /\ Running /\ FromFile /\ ~disturbed => UsableIn(before.fleet, before.docker)
    /\ stateFile = "valid" /\ ~disturbed /\ (~Running \/ mode = "setup") =>
           installed /\ UsableIn(fleet, docker)

IInv ==
    /\ TypeOK /\ Numbered /\ Placed /\ Process /\ Registered /\ Containers /\ Agents /\ Policies
    /\ Stored

-----------------------------------------------------------------------------
(***************************************************************************)
(* Names and types.                                                        *)
(***************************************************************************)
\* The sets of steps are expanded everywhere.
USE DEF PrepareSteps, Beginning, Assigned, Handled, Selected, Streaming, Serviced, WithAgent,
        WithPolicies, TearingDown, AfterReset, AfterShutdown, AfterLevel, AfterRemove,
        AfterShutdownAgent, AfterDelete, AfterClean

\* Policies of different commands, or of different kinds, are different.
LEMMA PolicyNames ==
    /\ \A n \in Run : /\ EnrollPolicy(n) \in Policy /\ EnrollPolicy(n).cmd = n
                      /\ TestPolicy(n) \in Policy /\ TestPolicy(n).cmd = n
    /\ \A n, m \in Run : EnrollPolicy(n) # TestPolicy(m)
    /\ \A n \in Run : Default \notin {EnrollPolicy(n), TestPolicy(n)}
    /\ Default \in Policy /\ Default.cmd = 0 /\ Unassigned \notin Policy
    /\ \A p \in Policy : p.cmd \in 0..MaxCommands
BY ConstantsAssumption DEF EnrollPolicy, TestPolicy, Default, Unassigned, Policy, Run

\* The types of what is kept of Fleet and Docker.
FleetFields(f) ==
    /\ f.policies \subseteq Policy /\ f.streams \subseteq Policy /\ f.docs \subseteq Policy
    /\ f.enrolled \in [Agent -> Policy \cup {Unassigned}]
    /\ f.level \in [Agent -> {"info", "debug"}]
DockerFields(d) ==
    d.agents \subseteq Run /\ d.services \subseteq Run /\ d.definitions \in BOOLEAN

LEMMA FieldTypes ==
    /\ \A f \in Fleet : FleetFields(f)
    /\ \A d \in Docker : DockerFields(d)
    /\ 0 \in Agent /\ \A n \in Run : n \in Agent /\ n \in Nat /\ n # 0 /\ 0 < n
    /\ \A n \in Agent : n \in Nat /\ (n = 0 \/ n \in Run)
BY ConstantsAssumption DEF FleetFields, DockerFields, Fleet, Docker, Agent, Run

\* An agent is assigned to a policy.
LEMMA EnrolledUpdate ==
    ASSUME fleet \in Fleet, NEW a \in Agent, NEW p \in Policy \cup {Unassigned},
           fleet' = [fleet EXCEPT !.enrolled[a] = p]
    PROVE  /\ fleet' \in Fleet
           /\ fleet'.policies = fleet.policies /\ fleet'.streams = fleet.streams
           /\ fleet'.docs = fleet.docs /\ fleet'.level = fleet.level
           /\ fleet'.enrolled[a] = p
           /\ \A b \in Agent \ {a} : fleet'.enrolled[b] = fleet.enrolled[b]
BY DEF Fleet

\* The log level of an agent is set.
LEMMA LevelUpdate ==
    ASSUME fleet \in Fleet, NEW a \in Agent, NEW l \in {"info", "debug"},
           fleet' = [fleet EXCEPT !.level[a] = l]
    PROVE  /\ fleet' \in Fleet
           /\ fleet'.policies = fleet.policies /\ fleet'.streams = fleet.streams
           /\ fleet'.docs = fleet.docs /\ fleet'.enrolled = fleet.enrolled
           /\ fleet'.level[a] = l
           /\ \A b \in Agent \ {a} : fleet'.level[b] = fleet.level[b]
BY DEF Fleet

\* Of the constants of the module.
LEMMA HandlerNames ==
    /\ Handler = {"resetPolicy", "shutdownService", "resetLogLevel", "removeAgent", "shutdownAgent",
                  "deletePolicy", "cleanScenario"}
    /\ TearDownOrder[1] = "resetPolicy"
BY DEF Handler, TearDownOrder

\* The order of the handlers.
LEMMA AfterHandlers ==
    /\ AfterHandler("resetPolicy") = "shutdownService"
    /\ AfterHandler("shutdownService") = "resetLogLevel"
    /\ AfterHandler("resetLogLevel") = "removeAgent"
    /\ AfterHandler("removeAgent") = "shutdownAgent"
    /\ AfterHandler("shutdownAgent") = "deletePolicy"
    /\ AfterHandler("deletePolicy") = "cleanScenario"
    /\ AfterHandler("cleanScenario") = "removeStateFile"
<1> DEFINE Place(h) == CHOOSE j \in DOMAIN TearDownOrder : TearDownOrder[j] = h
<1>1. DOMAIN TearDownOrder = 1..7 /\ Len(TearDownOrder) = 7
  BY DEF TearDownOrder
<1>2. \A j, k \in 1..7 : TearDownOrder[j] = TearDownOrder[k] => j = k
  BY DEF TearDownOrder
<1>3. \A j \in 1..7 : Place(TearDownOrder[j]) = j
  BY <1>1, <1>2
<1>4. \A h : AfterHandler(h) = IF Place(h) = Len(TearDownOrder) THEN "removeStateFile"
                              ELSE TearDownOrder[Place(h) + 1]
  BY DEF AfterHandler
<1> HIDE DEF Place
<1>5. \A j \in 1..7 : AfterHandler(TearDownOrder[j]) =
                         IF j = 7 THEN "removeStateFile" ELSE TearDownOrder[j + 1]
  BY <1>1, <1>3, <1>4
<1> QED
  BY <1>5 DEF TearDownOrder

\* What is true of the constants and of the types, in one place.
Basic == TypeOK /\ FleetFields(fleet) /\ DockerFields(docker)
         /\ FleetFields(before.fleet) /\ DockerFields(before.docker)

LEMMA Basics == (TypeOK => Basic) /\ (TypeOK' => Basic')
<1>1. TypeOK => /\ fleet \in Fleet /\ docker \in Docker
                /\ before.fleet \in Fleet /\ before.docker \in Docker
  BY DEF TypeOK
<1>2. TypeOK' => /\ fleet' \in Fleet /\ docker' \in Docker
                 /\ before'.fleet \in Fleet /\ before'.docker \in Docker
  BY DEF TypeOK
<1> QED
  BY <1>1, <1>2, FieldTypes DEF Basic, FleetFields, DockerFields

\* The agent that is tested is an agent.
LEMMA TestedType == TypeOK /\ Running => Tested \in Agent /\ loc.run \in Run
BY FieldTypes DEF TypeOK, Running, Locals, Tested, StackAgent

-----------------------------------------------------------------------------
(***************************************************************************)
(* The command begins and ends.                                            *)
(***************************************************************************)
LEMMA InitIInv == Init => IInv
<1> SUFFICES ASSUME Init PROVE IInv
  OBVIOUS
<1>1. /\ fleet \in Fleet /\ docker \in Docker /\ fleet.policies = {Default} /\ fleet.streams = {}
      /\ fleet.docs = {} /\ fleet.enrolled[StackAgent] = Default
      /\ \A a \in Run : fleet.enrolled[a] = Unassigned
      /\ docker.agents = {} /\ docker.services = {} /\ ~docker.definitions
  <2>1. Default \in Policy /\ StackAgent \in Agent /\ StackAgent \notin Run /\ Run \subseteq Agent
    BY PolicyNames, FieldTypes DEF StackAgent
  <2>2. fleet.enrolled = [a \in Agent |-> IF a = StackAgent THEN Default ELSE Unassigned]
    BY DEF Init
  <2> QED
    BY <2>1, <2>2 DEF Init, Fleet, Docker
<1>2. TypeOK
  <2>1. service \in Service /\ cmd \in 0..MaxCommands /\ crashes \in 0..MaxCrashes
        /\ faults \in 0..MaxFaults /\ mode \in Mode
    BY ConstantsAssumption DEF Init, DefinedServices, Service, Mode
  <2> QED
    BY <1>1, <2>1 DEF Init, TypeOK
<1>3. Numbered
  BY <1>1, PolicyNames, FieldTypes DEF Init, Numbered, Running, Enrolled
<1>4. Placed
  <2>1. \A n \in Run : Default # EnrollPolicy(n) /\ Unassigned # EnrollPolicy(n)
    BY PolicyNames
  <2>2. Default # Unassigned
    BY PolicyNames
  <2>3. Agent = Run \cup {StackAgent}
    BY FieldTypes, ConstantsAssumption DEF Agent, Run, StackAgent
  <2>4. \A a \in Agent : fleet.enrolled[a] = IF a = StackAgent THEN Default ELSE Unassigned
    BY DEF Init
  <2>5. \A a \in Run : a # StackAgent
    BY FieldTypes DEF StackAgent
  <2>6. ~Running
    BY DEF Init, Running
  <2>7. service \in DefinedServices
    BY DEF Init
  <2> QED
    BY <1>1, <2>1, <2>2, <2>3, <2>4, <2>5, <2>6, <2>7 DEF Placed, Enrolled
<1>5. Process /\ Registered
  BY DEF Init, Process, Registered, Running, Beginning, NoLocals
<1>6. Containers /\ Agents /\ Policies /\ Stored
  BY DEF Init, Containers, Agents, OtherAgents, TestedAgent, OwedAgent, Policies, Stored, Running, Owing, Undoing, Holding, FromFile
<1> QED
  BY <1>2, <1>3, <1>4, <1>5, <1>6 DEF IInv

\* A command starts: nothing in Fleet and Docker has its number.
LEMMA StartKeeps ==
    ASSUME IInv, NEW m \in Modes, Start(m)
    PROVE  IInv'
<1>1. /\ ~Running /\ pc = "idle" /\ pc' = "setupRunner" /\ mode' = m /\ cmd' = cmd + 1 /\ cmd' \in Run
      /\ before' = [fleet |-> fleet, docker |-> docker]
      /\ UNCHANGED <<deployment, service, fleet, docker, installed, stateFile, saved, handlers,
                     failed, tdFailed, crashes, faults, disturbed>>
      /\ cmd \in Nat /\ Basic
  <2>1. Basic /\ cmd \in 0..MaxCommands /\ cmd < MaxCommands /\ MaxCommands \in Nat
    BY Basics, ConstantsAssumption DEF IInv, Start, Basic, TypeOK
  <2>2. cmd \in Nat /\ cmd + 1 \in Run
    BY <2>1 DEF Run
  <2> QED
    BY <2>1, <2>2 DEF Start, Running, config, world, disk
<1>2. /\ StateFileAllows(m) /\ m \in Mode
      /\ loc' = [NoLocals EXCEPT !.run = IF m \in {"tests", "teardown"} THEN saved.run ELSE cmd + 1]
  BY ConstantsAssumption DEF Start, GetTests
<1>3. m \in {"tests", "teardown"} => stateFile = "valid" /\ saved \in Saved
  BY <1>2 DEF StateFileAllows, IInv, TypeOK
<1>4. /\ loc' \in Locals /\ loc'.run = (IF m \in {"tests", "teardown"} THEN saved.run ELSE cmd + 1)
      /\ ~loc'.both
  <2>1. NoLocals \in Locals
    BY <1>1, PolicyNames, FieldTypes, ConstantsAssumption
       DEF NoLocals, Locals, Run, StackAgent
  <2>2. (IF m \in {"tests", "teardown"} THEN saved.run ELSE cmd + 1) \in Run
    BY <1>1, <1>3 DEF Saved
  <2> QED
    BY <1>2, <2>1, <2>2 DEF Locals, NoLocals
<1>5. TypeOK'
  BY <1>1, <1>2, <1>4 DEF IInv, TypeOK, Run
<1>6. ~failed /\ ~tdFailed /\ handlers = {} /\ faults = 0 /\ mode = "normal"
  BY <1>1 DEF IInv, Process, Registered, Running
<1>7. before'.fleet = fleet /\ before'.docker = docker
  BY <1>1
<1>8. Numbered'
  BY <1>1, <1>7, FieldTypes DEF IInv, Numbered, Enrolled, Basic, FleetFields, Policy, DockerFields
<1>9. Placed'
  BY <1>1, <1>7 DEF IInv, Placed, Enrolled, DefinedServices
<1>10. Process' /\ Registered'
  BY <1>1, <1>4, <1>6 DEF Process, Registered, Running, FromFile
<1>11. Running' /\ mode' = m /\ faults' = 0 /\ ~failed' /\ ~tdFailed'
  BY <1>1, <1>6 DEF Running
<1>12. Containers'
  BY <1>1, <1>6, <1>7, <1>8, FieldTypes
     DEF IInv, Containers, FromFile, Faultless, Undoing, Numbered, Running
<1>13. Agents'
  <2>1. fleet.enrolled[cmd'] = Unassigned /\ Unassigned # Own'
    BY <1>1, FieldTypes, PolicyNames DEF IInv, Numbered, Enrolled, Own
  <2>2. fleet' = fleet /\ before'.fleet = fleet
    BY <1>1, <1>7
  <2> QED
    BY <1>1, <1>11, <2>1, <2>2 DEF Agents, OtherAgents, TestedAgent, OwedAgent, Undoing
<1>14. Own' \notin fleet.policies /\ Own' \notin fleet.docs /\ EnrollPolicy(cmd') \notin fleet.policies
  BY <1>1, PolicyNames DEF IInv, Numbered, Own
<1>15. Policies'
  BY <1>1, <1>6, <1>7, <1>14 DEF IInv, Policies, Numbered, Owing, Undoing, FromFile
<1>16. Stored'
  <2>1. CASE stateFile = "valid"
    <3>1. m \in {"tests", "teardown"} /\ stateFile' = "valid" /\ saved' = saved
      BY <1>1, <1>2, <2>1 DEF StateFileAllows, Mode
    <3>2. saved.run \in Nat /\ saved.run <= cmd
      BY <1>3, <2>1, <3>1, FieldTypes DEF IInv, Stored, Holding, Saved
    <3>3. ~disturbed => UsableIn(fleet, docker)
      BY <1>1, <2>1 DEF IInv, Stored
    <3>4. ~disturbed' => UsableIn(before.fleet, before.docker)'
      BY <1>1, <1>7, <3>1, <3>3 DEF UsableIn
    <3> QED
      BY <1>1, <1>6, <1>11, <2>1, <3>1, <3>2, <3>4
         DEF IInv, Stored, Holding, FromFile, RunsBySteps
  <2>2. CASE stateFile # "valid"
    BY <1>1, <1>2, <1>6, <1>11, <2>2 DEF Stored, Holding, FromFile, StateFileAllows
  <2> QED
    BY <2>1, <2>2
<1> QED
  BY <1>5, <1>8, <1>9, <1>10, <1>12, <1>13, <1>15, <1>16 DEF IInv

\* A step that ends the process keeps what Fleet and Docker have.
LEMMA ExitsKeeps ==
    ASSUME IInv, TearDownRunner \/ Crash
    PROVE  IInv'
<1>1. /\ pc' = "idle" /\ mode' = "normal" /\ handlers' = {} /\ loc' = NoLocals
      /\ failed' = FALSE /\ tdFailed' = FALSE /\ faults' = 0
      /\ before' = [fleet |-> fleet, docker |-> docker]
      /\ UNCHANGED <<deployment, service, fleet, docker, saved, cmd>>
      /\ Running /\ ~Running' /\ Basic
  BY Basics DEF IInv, TearDownRunner, Crash, Exits, config, Running
<1>2. /\ stateFile' \in {"absent", "corrupt", stateFile} /\ disturbed' \in BOOLEAN
      /\ crashes' \in 0..MaxCrashes /\ installed' \in BOOLEAN
  <2>1. CASE TearDownRunner
    <3>1. (mode \in {"setup", "tests"}) \in BOOLEAN
      OBVIOUS
    <3>2. installed \in BOOLEAN /\ crashes \in 0..MaxCrashes
      BY DEF IInv, TypeOK
    <3> QED
      BY <2>1, <3>1, <3>2, Zenon DEF TearDownRunner
  <2>2. CASE Crash
    <3>1. installed \in BOOLEAN /\ crashes \in 0..MaxCrashes /\ crashes + 1 \in 0..MaxCrashes
      BY <2>2, ConstantsAssumption DEF IInv, TypeOK, Crash
    <3>2. stateFile' \in {"absent", "corrupt", stateFile}
      BY <2>2 DEF Crash
    <3> QED
      BY <2>2, <3>1, <3>2, Zenon DEF Crash
  <2> QED
    BY <2>1, <2>2
<1>3. TypeOK'
  <2>1. 0 \in 0..MaxFaults /\ "normal" \in Mode
    BY ConstantsAssumption DEF Mode
  <2> QED
    BY <1>1, <1>2, <2>1 DEF IInv, TypeOK
<1>4. Numbered' /\ Placed'
  BY <1>1 DEF IInv, Numbered, Placed, Enrolled, DefinedServices
<1>5. Process' /\ Registered'
  BY <1>1 DEF Process, Registered, NoLocals
<1>6. Containers' /\ Agents' /\ Policies'
  BY <1>1 DEF Containers, Agents, OtherAgents, TestedAgent, OwedAgent, Policies, Owing, Undoing
<1>7. ASSUME ~disturbed', stateFile' = "valid" PROVE Stored'
  <2>1. /\ TearDownRunner /\ stateFile = "valid" /\ ~disturbed /\ mode # "teardown"
        /\ mode = "tests" => ~failed /\ ~tdFailed
        /\ installed' \in {installed, (mode \in {"setup", "tests"})}
        /\ pc = "tearDownRunner"
    BY <1>7, <1>1 DEF TearDownRunner, Crash
  <2> SUFFICES installed' /\ UsableIn(fleet, docker)
    BY <1>1, <2>1 DEF IInv, Stored, Holding, FromFile, RunsBySteps, UsableIn
  <2>2. CASE mode = "setup"
    BY <1>1, <2>1, <2>2 DEF IInv, Stored, FromFile
  <2>3. CASE mode = "tests"
    <3>1. handlers = {} /\ Owing /\ UsableIn(before.fleet, before.docker) /\ installed
      BY <1>1, <2>1, <2>3 DEF IInv, Registered, Owing, Clean, Restores, Stored, FromFile
    <3>2. loc.run = saved.run
      BY <1>1, <2>3 DEF IInv, Process, FromFile
    <3>3. fleet.enrolled[Tested] = before.fleet.enrolled[Tested]
      BY <2>3, <3>1 DEF IInv, Agents, OtherAgents, TestedAgent, OwedAgent
    <3>4. before.fleet.policies \subseteq fleet.policies
      BY <1>1, <2>3 DEF IInv, Policies
    <3>5. /\ docker.services = before.docker.services /\ docker.agents = before.docker.agents
          /\ before.docker.definitions => docker.definitions
      BY <1>1, <2>1, <2>3 DEF IInv, Containers
    <3> QED
      BY <2>1, <2>3, <3>1, <3>2, <3>3, <3>4, <3>5 DEF UsableIn, Tested
  <2>4. mode \in {"setup", "tests"}
    BY <1>1, <2>1 DEF IInv, Stored, FromFile, TypeOK, Mode
  <2> QED
    BY <2>2, <2>3, <2>4
<1>8. ASSUME disturbed' \/ stateFile' # "valid" PROVE Stored'
  <2>1. ~Running' /\ ~FromFile' /\ mode' = "normal" /\ pc' = "idle"
    BY <1>1 DEF FromFile
  <2>2. stateFile' = "valid" => stateFile = "valid"
    BY <1>2
  <2>3. Holding' => Holding
    BY <2>1, <2>2 DEF Holding
  <2>4. Holding' =>
          /\ saved' \in Saved /\ saved'.run <= cmd' /\ RunsBySteps'
          /\ saved'.enroll = EnrollPolicy(saved'.run) /\ saved'.current = TestPolicy(saved'.run)
          /\ IF deployment' = "stack"
             THEN /\ saved'.orig \in Policy /\ saved'.orig.cmd < saved'.run
                  /\ \A n \in Run : saved'.orig # EnrollPolicy(n)
             ELSE /\ saved'.orig = saved'.enroll
                  /\ \A a \in Agent : fleet'.enrolled[a] = saved'.current => a = saved'.run
    BY <1>1, <2>3 DEF IInv, Stored, RunsBySteps
  <2> QED
    BY <1>8, <2>1, <2>4 DEF Stored, Running, FromFile
<1> QED
  BY <1>3, <1>4, <1>5, <1>6, <1>7, <1>8 DEF IInv

-----------------------------------------------------------------------------
(***************************************************************************)
(* The steps of a command.                                                 *)
(***************************************************************************)
\* The documents of a data stream arrive.
LEMMA AgentSendsKeeps ==
    ASSUME IInv, NEW a \in Agent, AgentSends(a)
    PROVE  IInv'
<1>1. /\ UNCHANGED <<deployment, service, docker, installed, stateFile, saved, pc, mode, cmd, handlers,
                     loc, failed, tdFailed, crashes, faults, disturbed, before>>
      /\ Basic /\ fleet \in Fleet
  BY Basics DEF IInv, TypeOK, AgentSends, config, disk, history
<1>2. /\ fleet' \in Fleet /\ fleet'.policies = fleet.policies /\ fleet'.streams = fleet.streams
      /\ fleet'.enrolled = fleet.enrolled /\ fleet'.level = fleet.level
      /\ fleet.docs \subseteq fleet'.docs /\ fleet'.docs \subseteq fleet.docs \cup fleet.streams
  BY <1>1 DEF AgentSends, Basic, FleetFields, Fleet
<1>3. TypeOK'
  BY <1>1, <1>2 DEF IInv, TypeOK
<1>4. Numbered' /\ Placed'
  BY <1>1, <1>2 DEF IInv, Numbered, Placed, Enrolled, DefinedServices, Running
<1>5. Process' /\ Registered'
  BY <1>1 DEF IInv, Process, Registered, Running, FromFile, Tested, Own, HasService, RunsBySteps
<1>6. Containers'
  BY <1>1 DEF IInv, Containers, Running, FromFile, Faultless, Undoing
<1>7. Agents'
  BY <1>1, <1>2 DEF IInv, Agents, OtherAgents, TestedAgent, OwedAgent, Running, FromFile, Tested, Own, Owing, Clean, Faultless, Restores,
                    Undoing
<1>8. Policies'
  BY <1>1, <1>2 DEF IInv, Policies, Running, FromFile, Own, Owing, Clean, Faultless, Restores, Undoing
<1>9. Stored'
  BY <1>1, <1>2 DEF IInv, Stored, Running, Holding, FromFile, Faultless, UsableIn, RunsBySteps
<1> QED
  BY <1>3, <1>4, <1>5, <1>6, <1>7, <1>8, <1>9 DEF IInv

\* The preparation fails without effect.
LEMMA FailPrepareKeeps ==
    ASSUME IInv, FailPrepare
    PROVE  IInv'
<1>1. /\ UNCHANGED <<deployment, service, fleet, docker, installed, stateFile, saved, mode, cmd,
                     handlers, loc, tdFailed, crashes, faults, disturbed, before>>
      /\ Basic /\ pc \in PrepareSteps /\ failed' = TRUE
      /\ pc' = IF mode = "tests" THEN "tearDownRunner" ELSE "resetPolicy"
  BY Basics, HandlerNames DEF IInv, FailPrepare, Fallible, PrepareFails, config, world, disk, history
<1>2. /\ Running /\ Running' /\ ~failed /\ ~tdFailed /\ ~tdFailed'
      /\ mode = "teardown" => pc \notin Assigned
  BY <1>1 DEF IInv, Process, Running
<1>3. TypeOK'
  BY <1>1, HandlerNames DEF IInv, TypeOK
<1>4. Numbered' /\ Placed'
  BY <1>1 DEF IInv, Numbered, Placed, Enrolled, DefinedServices, Running
<1>5. Process' /\ Registered'
  BY <1>1, <1>2 DEF IInv, Process, Registered, Running, FromFile, Tested, Own, HasService, RunsBySteps
<1>6. Containers'
  BY <1>1, <1>2 DEF IInv, Containers, FromFile, Faultless, Undoing
<1>7. Agents'
  BY <1>1, <1>2 DEF IInv, Agents, OtherAgents, TestedAgent, OwedAgent, FromFile, Tested, Own, Owing, Clean, Faultless, Restores,
                    Undoing
<1>8. Policies'
  BY <1>1, <1>2 DEF IInv, Policies, FromFile, Own, Owing, Clean, Faultless, Restores, Undoing
<1>9. Stored'
  BY <1>1, <1>2 DEF IInv, Stored, Holding, FromFile, Faultless, UsableIn, RunsBySteps
<1> QED
  BY <1>3, <1>4, <1>5, <1>6, <1>7, <1>8, <1>9 DEF IInv

\* Before a setup of the preparation an agent may have joined with the enroll policy.
Joined ==
    /\ fleet' \in Fleet /\ fleet'.policies = fleet.policies /\ fleet'.streams = fleet.streams
    /\ fleet'.docs = fleet.docs /\ fleet'.level = fleet.level
    /\ \A a \in Agent \ {cmd} : fleet'.enrolled[a] = fleet.enrolled[a]
    /\ \/ fleet'.enrolled[cmd] = fleet.enrolled[cmd]
       \/ /\ ~FromFile /\ deployment # "stack"
          /\ fleet'.enrolled[cmd] = EnrollPolicy(cmd) /\ EnrollPolicy(cmd) \in fleet.policies

LEMMA JoinedCases ==
    ASSUME IInv, pc \in WithPolicies,
           \/ fleet' = fleet
           \/ /\ ~FromFile /\ deployment # "stack"
              /\ fleet' = [fleet EXCEPT !.enrolled[cmd] = loc.enroll]
    PROVE  Joined
<1>1. Running /\ cmd \in Run /\ cmd \in Agent /\ fleet \in Fleet
  BY FieldTypes DEF IInv, TypeOK, Running
<1>2. CASE fleet' = fleet
  BY <1>1, <1>2 DEF Joined
<1>3. CASE /\ ~FromFile /\ deployment # "stack"
           /\ fleet' = [fleet EXCEPT !.enrolled[cmd] = loc.enroll]
  <2>1. loc.enroll = EnrollPolicy(cmd)
    BY <1>1, <1>3 DEF IInv, Registered, Process
  <2>2. EnrollPolicy(cmd) \in fleet.policies /\ EnrollPolicy(cmd) \in Policy
    BY <1>1, <1>3, PolicyNames DEF IInv, Registered, Policies, FromFile
  <2>3. fleet' = [fleet EXCEPT !.enrolled[cmd] = EnrollPolicy(cmd)]
    BY <1>3, <2>1
  <2> QED
    BY <1>1, <1>3, <2>2, <2>3, EnrolledUpdate DEF Joined
<1> QED
  BY <1>2, <1>3

\* What an agent that joins keeps.
LEMMA JoinedKeeps ==
    ASSUME IInv, pc \in WithPolicies, Joined,
           UNCHANGED <<deployment, service, saved, mode, cmd, before, loc>>
    PROVE  /\ \A a \in Agent : Enrolled(a)' => fleet'.enrolled[a] \in fleet'.policies
           /\ \A a \in Agent, n \in Run : fleet'.enrolled[a] = EnrollPolicy(n) => a = n
           /\ \A a \in Agent : a > cmd => ~Enrolled(a)'
           /\ IF deployment = "stack" THEN Enrolled(StackAgent)' /\ \A a \in Run : ~Enrolled(a)'
                                      ELSE fleet'.enrolled[StackAgent] = Default
           /\ \A p \in Policy : fleet'.enrolled[cmd] = p => p \in {fleet.enrolled[cmd], EnrollPolicy(cmd)}
<1>1. Running /\ cmd \in Run /\ cmd \in Agent /\ StackAgent # cmd /\ StackAgent \in Agent
  BY FieldTypes DEF IInv, TypeOK, Running, StackAgent
<1>2. \A n \in Run : EnrollPolicy(cmd) = EnrollPolicy(n) => cmd = n
  BY <1>1, PolicyNames
<1>3. EnrollPolicy(cmd) # Unassigned /\ \A n \in Run : n \in Agent
  BY <1>1, PolicyNames, FieldTypes
<1>4. CASE fleet'.enrolled[cmd] = fleet.enrolled[cmd]
  <2>1. \A a \in Agent : fleet'.enrolled[a] = fleet.enrolled[a]
    BY <1>4 DEF Joined
  <2> QED
    BY <1>1, <1>3, <2>1 DEF IInv, Placed, Numbered, Enrolled, Joined
<1>5. CASE /\ ~FromFile /\ deployment # "stack"
           /\ fleet'.enrolled[cmd] = EnrollPolicy(cmd) /\ EnrollPolicy(cmd) \in fleet.policies
  <2>1. \A a \in Agent : fleet'.enrolled[a] = IF a = cmd THEN EnrollPolicy(cmd) ELSE fleet.enrolled[a]
    BY <1>5 DEF Joined
  <2> QED
    BY <1>1, <1>2, <1>3, <1>5, <2>1, FieldTypes DEF IInv, Placed, Numbered, Enrolled, Joined
<1> QED
  BY <1>4, <1>5 DEF Joined

\* What a deployer leaves when its SetUp fails.
LEMMA SetUpFailsEffect ==
    ASSUME IInv, SetupAgentFails \/ SetupServiceFails
    PROVE  /\ UNCHANGED <<deployment, service, installed, stateFile, saved, mode, cmd, handlers, loc,
                          tdFailed, crashes, disturbed, before>>
           /\ mode # "tests" /\ pc \in WithPolicies \ Assigned /\ pc' = "resetPolicy" /\ failed' = TRUE
           /\ Joined
           /\ docker' \in Docker /\ docker'.definitions = docker.definitions
           /\ docker'.agents \ {loc.run} = docker.agents \ {loc.run}
           /\ docker'.services \ {loc.run} = docker.services \ {loc.run}
           /\ deployment # "independent" => docker'.agents = docker.agents
           /\ service \notin {"compose", "terraform"} => docker'.services = docker.services
           /\ faults' \in 0..MaxFaults
           /\ Faultless' => /\ Faultless
                            /\ docker'.agents \subseteq docker.agents
                            /\ docker'.services \subseteq docker.services
           /\ FromFile => docker'.agents \subseteq docker.agents
                          /\ docker'.services \subseteq docker.services
<1>1. docker \in Docker /\ loc.run \in Run /\ faults \in 0..MaxFaults /\ loc.run \in Nat
      /\ MaxFaults \in Nat /\ crashes \in Nat
  <2>1. pc # "idle"
    BY DEF SetupAgentFails, SetupServiceFails
  <2>2. docker \in Docker /\ loc \in Locals /\ faults \in 0..MaxFaults /\ crashes \in 0..MaxCrashes
    BY <2>1 DEF IInv, TypeOK
  <2>3. loc.run \in Run
    BY <2>2 DEF Locals
  <2> QED
    BY <2>2, <2>3, FieldTypes, ConstantsAssumption
<1>2. PICK clean \in BOOLEAN, joined \in BOOLEAN :
         /\ joined => ~FromFile /\ deployment # "stack"
         /\ \/ pc = "setupAgent" /\ deployment = "independent" /\ SetUpFails("agents", clean, joined)
            \/ /\ pc = "setupService" /\ service \in {"compose", "terraform"}
               /\ SetUpFails("services", clean, joined)
  BY DEF SetupAgentFails, SetupServiceFails
<1>3. /\ UNCHANGED <<deployment, service, installed, stateFile, saved, mode, cmd, handlers, loc,
                     tdFailed, crashes, disturbed, before>>
      /\ mode # "tests" /\ pc \in {"setupAgent", "setupService"}
      /\ pc' = "resetPolicy" /\ failed' = TRUE
      /\ fleet' = IF joined THEN [fleet EXCEPT !.enrolled[cmd] = loc.enroll] ELSE fleet
  BY <1>2, HandlerNames DEF SetUpFails, PrepareFails, config, disk
<1>4. Joined
  BY <1>2, <1>3, JoinedCases
<1>5. faults' = faults + (IF clean THEN 0 ELSE 1) /\ faults' + crashes <= MaxFaults
  BY <1>2, <1>3 DEF SetUpFails, Faulty
<1>6. faults' \in 0..MaxFaults /\ (Faultless' => Faultless /\ clean)
  BY <1>1, <1>5 DEF Faultless
<1> DEFINE left(s) == IF clean THEN s \ {loc.run} ELSE IF FromFile THEN s ELSE s \cup {loc.run}
<1>7. \/ deployment = "independent" /\ docker' = [docker EXCEPT !.agents = left(docker.agents)]
      \/ /\ service \in {"compose", "terraform"}
         /\ docker' = [docker EXCEPT !.services = left(docker.services)]
  <2>1. ASSUME SetUpFails("agents", clean, joined)
        PROVE  docker' = [docker EXCEPT !.agents = left(docker.agents)]
    BY <2>1, Zenon DEF SetUpFails
  <2>2. ASSUME SetUpFails("services", clean, joined)
        PROVE  docker' = [docker EXCEPT !.services = left(docker.services)]
    BY <2>2, Zenon DEF SetUpFails
  <2> QED
    BY <1>2, <2>1, <2>2
<1>8. /\ docker' \in Docker /\ docker'.definitions = docker.definitions
      /\ docker'.agents \in {docker.agents, left(docker.agents)}
      /\ docker'.services \in {docker.services, left(docker.services)}
      /\ deployment # "independent" => docker'.agents = docker.agents
      /\ service \notin {"compose", "terraform"} => docker'.services = docker.services
  BY <1>1, <1>7 DEF Docker
<1> QED
  BY <1>3, <1>4, <1>6, <1>8

LEMMA SetUpFailsKeeps ==
    ASSUME IInv, SetupAgentFails \/ SetupServiceFails
    PROVE  IInv'
<1>1. /\ UNCHANGED <<deployment, service, installed, stateFile, saved, mode, cmd, handlers, loc,
                     tdFailed, crashes, disturbed, before>>
      /\ mode # "tests" /\ pc \in WithPolicies \ Assigned /\ pc' = "resetPolicy" /\ failed' = TRUE
      /\ Joined
      /\ docker' \in Docker /\ docker'.definitions = docker.definitions
      /\ docker'.agents \ {loc.run} = docker.agents \ {loc.run}
      /\ docker'.services \ {loc.run} = docker.services \ {loc.run}
      /\ deployment # "independent" => docker'.agents = docker.agents
      /\ service \notin {"compose", "terraform"} => docker'.services = docker.services
      /\ faults' \in 0..MaxFaults
      /\ Faultless' => /\ Faultless
                       /\ docker'.agents \subseteq docker.agents
                       /\ docker'.services \subseteq docker.services
      /\ FromFile => docker'.agents \subseteq docker.agents
                     /\ docker'.services \subseteq docker.services
  BY SetUpFailsEffect
<1>2. Running /\ Running' /\ ~failed /\ ~tdFailed /\ ~tdFailed' /\ Basic /\ cmd \in Run
  BY <1>1, Basics DEF IInv, TypeOK, Process, Running
<1>3. ~FromFile => loc.run = cmd
  BY <1>2 DEF IInv, Process
<1>4. TypeOK'
  BY <1>1, HandlerNames DEF IInv, TypeOK, Joined
<1>5. /\ \A a \in Agent : Enrolled(a)' => fleet'.enrolled[a] \in fleet'.policies
      /\ \A a \in Agent, n \in Run : fleet'.enrolled[a] = EnrollPolicy(n) => a = n
      /\ \A a \in Agent : a > cmd => ~Enrolled(a)'
      /\ IF deployment = "stack" THEN Enrolled(StackAgent)' /\ \A a \in Run : ~Enrolled(a)'
                                 ELSE fleet'.enrolled[StackAgent] = Default
      /\ \A p \in Policy : fleet'.enrolled[cmd] = p => p \in {fleet.enrolled[cmd], EnrollPolicy(cmd)}
  BY <1>1, JoinedKeeps
<1>6. Numbered'
  <2>1. docker'.services \cup docker'.agents \subseteq 1..cmd
    BY <1>1, <1>2, <1>3, FieldTypes DEF IInv, Numbered, Basic, DockerFields
  <2> QED
    BY <1>1, <1>2, <1>5, <2>1 DEF IInv, Numbered, Joined
<1>7. Placed'
  BY <1>1, <1>2, <1>5 DEF IInv, Placed, DefinedServices, Joined
<1>8. Process' /\ Registered'
  BY <1>1, <1>2 DEF IInv, Process, Registered, FromFile, Tested, Own, HasService, RunsBySteps
<1>9. Containers'
  BY <1>1, <1>2, <1>3 DEF IInv, Containers, FromFile, Undoing
<1>10. Agents'
  <2>1. Own \in Policy /\ Own # EnrollPolicy(cmd) /\ cmd \in Agent /\ StackAgent \in Agent /\ StackAgent # cmd
    BY <1>2, PolicyNames, FieldTypes DEF Own, StackAgent
  <2>2. UNCHANGED <<Tested, Own>> /\ Tested \in Agent
    BY <1>1, <1>2, TestedType DEF IInv, Tested, Own
  <2>3. OtherAgents'
    BY <1>1, <1>2, <1>3, <2>1, <2>2 DEF IInv, Agents, OtherAgents, Joined, Tested
  <2>4. TestedAgent'
    BY <1>1, <1>2, <1>3, <1>5, <2>1, <2>2 DEF IInv, Agents, TestedAgent, Joined, FromFile
  <2>5. OwedAgent'
    BY <1>1, <1>2, <1>3, <1>5, <2>1, <2>2
       DEF IInv, Agents, OwedAgent, Joined, FromFile, Owing, Clean, Restores, Undoing, Tested
  <2> QED
    BY <2>3, <2>4, <2>5 DEF Agents
<1>11. Policies'
  BY <1>1, <1>2 DEF IInv, Policies, FromFile, Own, Owing, Clean, Restores, Undoing, Joined
<1>12. Stored'
  BY <1>1, <1>2, <1>5 DEF IInv, Stored, Holding, FromFile, UsableIn, RunsBySteps, Joined
<1> QED
  BY <1>4, <1>6, <1>7, <1>8, <1>9, <1>10, <1>11, <1>12 DEF IInv

\* What kubectl applied stays when it fails: the call is counted.
LEMMA ApplyFailsKeeps ==
    ASSUME IInv, AgentApplyFails \/ DefinitionsApplyFails
    PROVE  IInv'
<1>1. /\ UNCHANGED <<deployment, service, installed, stateFile, saved, mode, cmd, handlers, loc,
                     tdFailed, crashes, disturbed, before>>
      /\ mode # "teardown" /\ pc \in {"setupAgent", "setupService"} /\ failed' = TRUE
      /\ pc' = IF mode = "tests" THEN "tearDownRunner" ELSE "resetPolicy"
      /\ faults' = faults + 1 /\ faults' + crashes <= MaxFaults /\ service = "kubernetes"
  BY HandlerNames DEF AgentApplyFails, DefinitionsApplyFails, ApplyFails, PrepareFails, Faulty, config,
                      disk, FromFile
<1>2. Running /\ Running' /\ ~failed /\ ~tdFailed /\ ~tdFailed' /\ Basic /\ cmd \in Run
  BY <1>1, Basics DEF IInv, TypeOK, Process, Running
<1>3. ~FromFile => loc.run = cmd
  BY <1>2 DEF IInv, Process
<1>4. faults' \in 0..MaxFaults /\ ~Faultless'
  BY <1>1, ConstantsAssumption DEF IInv, TypeOK, Faultless
<1>5. Joined
  <2>1. CASE AgentApplyFails
    <3>1. /\ pc = "setupAgent" /\ ~FromFile /\ deployment # "stack"
          /\ fleet' \in {fleet, [fleet EXCEPT !.enrolled[cmd] = loc.enroll]}
      BY <2>1 DEF AgentApplyFails
    <3> QED
      BY <3>1, JoinedCases
  <2>2. CASE DefinitionsApplyFails
    BY <2>2, JoinedCases DEF DefinitionsApplyFails
  <2> QED
    BY <2>1, <2>2
<1>6. /\ docker' \in Docker /\ docker'.services = docker.services
      /\ docker'.agents \subseteq docker.agents \cup {cmd}
      /\ deployment # "independent" => docker'.agents = docker.agents
  <2>1. docker \in Docker
    BY DEF IInv, TypeOK
  <2>2. CASE AgentApplyFails
    BY <1>2, <2>1, <2>2 DEF AgentApplyFails, Docker
  <2>3. CASE DefinitionsApplyFails
    BY <2>1, <2>3 DEF DefinitionsApplyFails, Docker
  <2> QED
    BY <2>2, <2>3
<1>7. TypeOK'
  BY <1>1, <1>4, <1>5, <1>6, HandlerNames DEF IInv, TypeOK, Joined
<1>8. /\ \A a \in Agent : Enrolled(a)' => fleet'.enrolled[a] \in fleet'.policies
      /\ \A a \in Agent, n \in Run : fleet'.enrolled[a] = EnrollPolicy(n) => a = n
      /\ \A a \in Agent : a > cmd => ~Enrolled(a)'
      /\ IF deployment = "stack" THEN Enrolled(StackAgent)' /\ \A a \in Run : ~Enrolled(a)'
                                 ELSE fleet'.enrolled[StackAgent] = Default
      /\ \A p \in Policy : fleet'.enrolled[cmd] = p => p \in {fleet.enrolled[cmd], EnrollPolicy(cmd)}
  BY <1>1, <1>5, JoinedKeeps
<1>9. Numbered'
  <2>1. docker'.services \cup docker'.agents \subseteq 1..cmd
    BY <1>2, <1>6, FieldTypes DEF IInv, Numbered, Basic, DockerFields
  <2> QED
    BY <1>1, <1>2, <1>5, <1>8, <2>1 DEF IInv, Numbered, Joined
<1>10. Placed'
  BY <1>1, <1>2, <1>5, <1>6, <1>8 DEF IInv, Placed, DefinedServices, Joined
<1>11. Process' /\ Registered'
  BY <1>1, <1>2 DEF IInv, Process, Registered, FromFile, Tested, Own, HasService, RunsBySteps, Running
<1>12. Containers'
  BY <1>1, <1>2, <1>4 DEF IInv, Containers, FromFile, Undoing
<1>13. Agents'
  <2>1. Own \in Policy /\ Own # EnrollPolicy(cmd) /\ cmd \in Agent /\ StackAgent \in Agent /\ StackAgent # cmd
    BY <1>2, PolicyNames, FieldTypes DEF Own, StackAgent
  <2>2. UNCHANGED <<Tested, Own>> /\ Tested \in Agent
    BY <1>1, <1>2, TestedType DEF IInv, Tested, Own
  <2>3. OtherAgents'
    BY <1>1, <1>2, <1>3, <1>5, <2>1, <2>2 DEF IInv, Agents, OtherAgents, Joined, Tested
  <2>4. TestedAgent'
    BY <1>1, <1>2, <1>3, <1>5, <1>8, <2>1, <2>2 DEF IInv, Agents, TestedAgent, Joined, FromFile
  <2>5. OwedAgent'
    BY <1>1, <1>2, <1>3, <1>4, <1>5, <1>8, <2>1, <2>2
       DEF IInv, Agents, OwedAgent, Joined, FromFile, Owing, Clean, Faultless, Restores, Undoing, Tested
  <2> QED
    BY <2>3, <2>4, <2>5 DEF Agents
<1>14. Policies'
  BY <1>1, <1>2, <1>5 DEF IInv, Policies, FromFile, Own, Owing, Clean, Restores, Undoing, Joined
<1>15. Stored'
  BY <1>1, <1>2, <1>4, <1>5, <1>8 DEF IInv, Stored, Holding, FromFile, UsableIn, RunsBySteps, Joined
<1> QED
  BY <1>7, <1>9, <1>10, <1>11, <1>12, <1>13, <1>14, <1>15 DEF IInv

\* The package is installed, or the install fails.
LEMMA SetupRunnerKeeps ==
    ASSUME IInv, SetupRunner
    PROVE  IInv'
<1>1. /\ UNCHANGED <<deployment, service, fleet, docker, stateFile, saved, mode, cmd, handlers, loc,
                     tdFailed, crashes, faults, disturbed, before>>
      /\ Basic /\ pc = "setupRunner" /\ installed' \in BOOLEAN
      /\ \/ pc' = "createEnroll" /\ failed' = failed /\ (mode # "teardown" => installed')
         \/ pc' = "tearDownRunner" /\ failed' = TRUE /\ mode # "teardown"
  BY Basics DEF IInv, TypeOK, SetupRunner, config, disk, history
<1>2. Running /\ Running' /\ ~failed /\ ~tdFailed /\ ~tdFailed' /\ handlers = {} /\ cmd \in Run
  BY <1>1 DEF IInv, TypeOK, Process, Registered, Running
<1>3. TypeOK'
  BY <1>1 DEF IInv, TypeOK
<1>4. Numbered' /\ Placed'
  BY <1>1, <1>2 DEF IInv, Numbered, Placed, Enrolled, DefinedServices
<1>5. Process' /\ Registered'
  BY <1>1, <1>2 DEF IInv, Process, Registered, FromFile, Tested, Own, HasService, RunsBySteps
<1>6. Containers'
  BY <1>1, <1>2 DEF IInv, Containers, FromFile, Faultless, Undoing
<1>7. Agents'
  <2>1. fleet.enrolled[Tested] = before.fleet.enrolled[Tested]
        \/ ~(deployment = "stack" \/ FromFile)
    BY <1>1, <1>2 DEF IInv, Agents, TestedAgent
  <2>2. cmd \in Agent /\ EnrollPolicy(cmd) # Own /\ Own # Unassigned /\ Own.cmd = cmd
    BY <1>2, PolicyNames, FieldTypes DEF Own
  <2>3. fleet.enrolled[cmd] # Own
    <3>1. Own \notin fleet.policies
      BY <1>1, <1>2, <2>2, FieldTypes DEF IInv, Policies, Numbered
    <3> QED
      BY <2>2, <3>1 DEF IInv, Placed, Enrolled
  <2>4. OtherAgents' /\ TestedAgent'
    BY <1>1, <1>2, <2>3 DEF IInv, Agents, OtherAgents, TestedAgent, FromFile, Tested, Own
  <2>5. OwedAgent'
    BY <1>1, <1>2, <2>1, <2>3
       DEF IInv, Agents, TestedAgent, OwedAgent, FromFile, Tested, Own, Owing, Clean, Faultless,
           Restores, Undoing, StackAgent
  <2> QED
    BY <2>4, <2>5 DEF Agents
<1>8. Policies'
  BY <1>1, <1>2 DEF IInv, Policies, FromFile, Own, Owing, Clean, Faultless, Restores, Undoing
<1>9. Stored'
  BY <1>1, <1>2 DEF IInv, Stored, Holding, FromFile, Faultless, UsableIn, RunsBySteps
<1> QED
  BY <1>3, <1>4, <1>5, <1>6, <1>7, <1>8, <1>9 DEF IInv

\* A policy of the command is created.
Created(p) ==
    /\ fleet' \in Fleet /\ fleet'.policies = fleet.policies \cup {p}
    /\ fleet'.streams = fleet.streams /\ fleet'.docs = fleet.docs
    /\ fleet'.enrolled = fleet.enrolled /\ fleet'.level = fleet.level

LEMMA PolicyUpdate ==
    ASSUME fleet \in Fleet, NEW p \in Policy,
           fleet' = [fleet EXCEPT !.policies = @ \cup {p}]
    PROVE  Created(p)
BY DEF Fleet, Created

LEMMA CreateEnrollPolicyKeeps ==
    ASSUME IInv, CreateEnrollPolicy
    PROVE  IInv'
<1>1. /\ UNCHANGED <<deployment, service, docker, installed, stateFile, saved, mode, cmd, failed,
                     tdFailed, crashes, faults, disturbed, before>>
      /\ Basic /\ pc = "createEnroll" /\ pc' = "createTest"
      /\ handlers' = handlers \cup {"deletePolicy"}
  BY Basics DEF IInv, TypeOK, CreateEnrollPolicy, PrepareStep, config, disk, history
<1>2. /\ Running /\ Running' /\ ~failed /\ ~tdFailed /\ handlers = {} /\ cmd \in Run
      /\ loc \in Locals /\ ~loc.both /\ fleet \in Fleet /\ Own \in Policy /\ Own # EnrollPolicy(cmd)
      /\ EnrollPolicy(cmd) \in Policy
  BY <1>1, PolicyNames DEF IInv, TypeOK, Process, Registered, Running, Own
<1>3. loc.run \in Run /\ (FromFile => saved \in Saved /\ saved.enroll = EnrollPolicy(loc.run))
      /\ (~FromFile => loc.run = cmd)
  BY <1>1, <1>2 DEF IInv, Process, Stored, Holding, Locals
<1>4. /\ loc' \in Locals /\ loc'.enroll = EnrollPolicy(loc.run)
      /\ loc'.run = loc.run /\ loc'.both = loc.both
  <2>1. EnrollPolicy(loc.run) \in Policy
    BY <1>3, PolicyNames
  <2>2. loc' = [loc EXCEPT !.enroll = EnrollPolicy(loc.run)]
    BY <1>3 DEF CreateEnrollPolicy
  <2> QED
    BY <1>2, <2>1, <2>2 DEF Locals
<1>5. \/ FromFile /\ fleet' = fleet
      \/ ~FromFile /\ Created(EnrollPolicy(cmd))
  BY <1>2, PolicyUpdate DEF CreateEnrollPolicy
<1>6. TypeOK'
  BY <1>1, <1>4, <1>5, HandlerNames DEF IInv, TypeOK, Created
<1>7. Numbered' /\ Placed'
  BY <1>1, <1>2, <1>5, PolicyNames, FieldTypes
     DEF IInv, Numbered, Placed, Enrolled, DefinedServices, Created
<1>8. Process' /\ Registered'
  BY <1>1, <1>2, <1>4 DEF IInv, Process, Registered, FromFile, Tested, Own, HasService, RunsBySteps
<1>9. Containers'
  BY <1>1, <1>2 DEF IInv, Containers, FromFile, Faultless, Undoing
<1>10. fleet'.enrolled = fleet.enrolled /\ fleet'.level = fleet.level /\ fleet'.docs = fleet.docs
       /\ fleet'.streams = fleet.streams /\ fleet.policies \subseteq fleet'.policies
       /\ UNCHANGED <<Tested, Own>>
  BY <1>1, <1>4, <1>5 DEF Created, Tested, Own
<1>11. Agents'
  <2>1. OtherAgents' /\ TestedAgent'
    BY <1>1, <1>2, <1>10 DEF IInv, Agents, OtherAgents, TestedAgent, FromFile
  <2>2. OwedAgent'
    BY <1>1, <1>2, <1>10 DEF IInv, Agents, OwedAgent, FromFile, Owing, Clean, Faultless, Restores, Undoing
  <2> QED
    BY <2>1, <2>2 DEF Agents
<1>12. Policies'
  BY <1>1, <1>2, <1>4, <1>5, <1>10
     DEF IInv, Policies, FromFile, Owing, Clean, Faultless, Restores, Undoing, Created
<1>13. Stored'
  BY <1>1, <1>2, <1>10 DEF IInv, Stored, Holding, FromFile, Faultless, UsableIn, RunsBySteps
<1> QED
  BY <1>6, <1>7, <1>8, <1>9, <1>11, <1>12, <1>13 DEF IInv

LEMMA CreateTestPolicyKeeps ==
    ASSUME IInv, CreateTestPolicy
    PROVE  IInv'
<1>1. /\ UNCHANGED <<deployment, service, docker, installed, stateFile, saved, mode, cmd, handlers,
                     failed, tdFailed, crashes, faults, disturbed, before>>
      /\ Basic /\ pc = "createTest" /\ pc' = "setupAgent"
  BY Basics DEF IInv, TypeOK, CreateTestPolicy, PrepareStep, config, disk, history
<1>2. /\ Running /\ Running' /\ ~failed /\ ~tdFailed /\ cmd \in Run /\ "deletePolicy" \in handlers
      /\ loc \in Locals /\ ~loc.both /\ fleet \in Fleet /\ Own \in Policy /\ Own # EnrollPolicy(cmd)
  BY <1>1, PolicyNames DEF IInv, TypeOK, Process, Registered, Running, Own
<1>3. /\ loc.run \in Run
      /\ mode = "teardown" => saved \in Saved /\ saved.current = TestPolicy(loc.run)
      /\ ~FromFile => loc.run = cmd
  BY <1>1, <1>2 DEF IInv, Process, Stored, Holding, Locals, FromFile
<1>4. /\ loc' \in Locals /\ loc'.run = loc.run /\ loc'.both /\ loc'.enroll = loc.enroll
      /\ loc'.test = IF mode = "teardown" THEN TestPolicy(loc.run) ELSE Own
      /\ loc'.agent = loc.agent /\ loc'.orig = loc.orig /\ loc'.origLevel = loc.origLevel
  <2>1. TestPolicy(loc.run) \in Policy
    BY <1>3, PolicyNames
  <2>2. loc' = [loc EXCEPT !.test = IF mode = "teardown" THEN TestPolicy(loc.run) ELSE Own,
                           !.both = TRUE]
    BY <1>3 DEF CreateTestPolicy, Own
  <2> QED
    BY <1>2, <2>1, <2>2 DEF Locals
<1>5. \/ mode = "teardown" /\ fleet' = fleet
      \/ mode # "teardown" /\ Created(Own)
  BY <1>2, PolicyUpdate DEF CreateTestPolicy, Own
<1>6. TypeOK'
  BY <1>1, <1>4, <1>5, HandlerNames DEF IInv, TypeOK, Created
<1>7. Numbered' /\ Placed'
  <2>1. Own.cmd = cmd
    BY <1>2, PolicyNames DEF Own
  <2> QED
    BY <1>1, <1>2, <1>5, <2>1, FieldTypes
       DEF IInv, Numbered, Placed, Enrolled, DefinedServices, Created
<1>8. UNCHANGED <<Tested, Own>>
  BY <1>1, <1>4 DEF Tested, Own
<1>9. Process' /\ Registered'
  BY <1>1, <1>2, <1>4, <1>8 DEF IInv, Process, Registered, FromFile, HasService, RunsBySteps
<1>10. Containers'
  BY <1>1, <1>2 DEF IInv, Containers, FromFile, Faultless, Undoing
<1>11. fleet'.enrolled = fleet.enrolled /\ fleet'.level = fleet.level /\ fleet'.docs = fleet.docs
       /\ fleet'.streams = fleet.streams /\ fleet.policies \subseteq fleet'.policies
  BY <1>5 DEF Created
<1>12. Agents'
  <2>1. OtherAgents' /\ TestedAgent'
    BY <1>1, <1>2, <1>8, <1>11 DEF IInv, Agents, OtherAgents, TestedAgent, FromFile
  <2>2. OwedAgent'
    BY <1>1, <1>2, <1>8, <1>11
       DEF IInv, Agents, OwedAgent, FromFile, Owing, Clean, Faultless, Restores, Undoing
  <2> QED
    BY <2>1, <2>2 DEF Agents
<1>13. Policies'
  BY <1>1, <1>2, <1>4, <1>5, <1>8, <1>11
     DEF IInv, Policies, FromFile, Owing, Clean, Faultless, Restores, Undoing, Created
<1>14. Stored'
  BY <1>1, <1>2, <1>11 DEF IInv, Stored, Holding, FromFile, Faultless, UsableIn, RunsBySteps
<1> QED
  BY <1>6, <1>7, <1>9, <1>10, <1>12, <1>13, <1>14 DEF IInv

\* An agent container is started, or found in good health.
LEMMA SetupAgentKeeps ==
    ASSUME IInv, SetupAgent
    PROVE  IInv'
<1>1. /\ UNCHANGED <<deployment, service, installed, stateFile, saved, mode, cmd, loc, failed,
                     tdFailed, crashes, faults, disturbed, before>>
      /\ Basic /\ pc = "setupAgent"
      /\ pc' = IF deployment = "independent" THEN "checkStarted" ELSE "setupService"
  BY Basics DEF IInv, TypeOK, SetupAgent, PrepareStep, config, disk, history
<1>2. Running /\ Running' /\ ~failed /\ ~tdFailed /\ cmd \in Run /\ docker \in Docker
  BY <1>1 DEF IInv, TypeOK, Process, Running
<1>3. ~FromFile => loc.run = cmd
  BY <1>2 DEF IInv, Process
<1>4. Joined
  BY <1>1, JoinedCases DEF SetupAgent
<1>5. /\ docker' \in Docker /\ docker'.services = docker.services
      /\ docker'.definitions = docker.definitions
      /\ docker'.agents = IF deployment = "independent" /\ ~FromFile
                          THEN docker.agents \cup {cmd} ELSE docker.agents
  <2>1. CASE deployment = "independent" /\ ~FromFile
    BY <1>2, <2>1 DEF SetupAgent, Docker
  <2>2. CASE ~(deployment = "independent" /\ ~FromFile)
    BY <1>2, <2>2 DEF SetupAgent
  <2> QED
    BY <2>1, <2>2
<1>6. handlers' = IF deployment = "independent" THEN handlers \cup {"shutdownAgent"} ELSE handlers
  BY DEF SetupAgent
<1>7. TypeOK'
  BY <1>1, <1>4, <1>5, <1>6, HandlerNames DEF IInv, TypeOK, Joined
<1>8. /\ \A a \in Agent : Enrolled(a)' => fleet'.enrolled[a] \in fleet'.policies
      /\ \A a \in Agent, n \in Run : fleet'.enrolled[a] = EnrollPolicy(n) => a = n
      /\ \A a \in Agent : a > cmd => ~Enrolled(a)'
      /\ IF deployment = "stack" THEN Enrolled(StackAgent)' /\ \A a \in Run : ~Enrolled(a)'
                                 ELSE fleet'.enrolled[StackAgent] = Default
      /\ \A p \in Policy : fleet'.enrolled[cmd] = p => p \in {fleet.enrolled[cmd], EnrollPolicy(cmd)}
  BY <1>1, <1>4, JoinedKeeps
<1>9. Numbered'
  <2>1. docker'.services \cup docker'.agents \subseteq 1..cmd
    BY <1>2, <1>5, FieldTypes DEF IInv, Numbered, Basic, DockerFields
  <2> QED
    BY <1>1, <1>2, <1>4, <1>8, <2>1 DEF IInv, Numbered, Joined
<1>10. Placed'
  BY <1>1, <1>2, <1>4, <1>5, <1>8 DEF IInv, Placed, DefinedServices, Joined
<1>11. Process' /\ Registered'
  BY <1>1, <1>2, <1>6 DEF IInv, Process, Registered, FromFile, Tested, Own, HasService, RunsBySteps
<1>12. Containers'
  BY <1>1, <1>2, <1>5, <1>6 DEF IInv, Containers, FromFile, Faultless, Undoing
<1>13. Agents'
  <2>1. Own \in Policy /\ Own # EnrollPolicy(cmd) /\ cmd \in Agent /\ StackAgent \in Agent /\ StackAgent # cmd
    BY <1>2, PolicyNames, FieldTypes DEF Own, StackAgent
  <2>2. UNCHANGED <<Tested, Own>> /\ Tested \in Agent
    BY <1>1, <1>2, TestedType DEF IInv, Tested, Own
  <2>3. OtherAgents'
    BY <1>1, <1>2, <1>3, <1>4, <2>1, <2>2 DEF IInv, Agents, OtherAgents, Joined, Tested
  <2>4. TestedAgent'
    BY <1>1, <1>2, <1>3, <1>4, <1>8, <2>1, <2>2 DEF IInv, Agents, TestedAgent, Joined, FromFile, Tested
  <2>5. OwedAgent'
    BY <1>1, <1>2, <1>3, <1>4, <1>6, <1>8, <2>1, <2>2
       DEF IInv, Agents, OwedAgent, Joined, FromFile, Owing, Clean, Faultless, Restores, Undoing, Tested
  <2> QED
    BY <2>3, <2>4, <2>5 DEF Agents
<1>14. Policies'
  BY <1>1, <1>2, <1>4, <1>6
     DEF IInv, Policies, FromFile, Own, Owing, Clean, Faultless, Restores, Undoing, Joined
<1>15. Stored'
  BY <1>1, <1>2, <1>4, <1>8 DEF IInv, Stored, Holding, FromFile, Faultless, UsableIn, RunsBySteps, Joined
<1> QED
  BY <1>7, <1>9, <1>10, <1>11, <1>12, <1>13, <1>14, <1>15 DEF IInv

\* The agent that is selected is the one of the command, or of the setup.
LEMMA CheckKeeps ==
    ASSUME IInv, CheckStartedAgent \/ CheckEnrolledAgent
    PROVE  IInv'
<1>1. /\ UNCHANGED <<deployment, service, fleet, docker, installed, stateFile, saved, mode, cmd,
                     failed, tdFailed, crashes, faults, disturbed, before>>
      /\ Basic
      /\ \/ pc = "checkStarted" /\ pc' = "setupService"
         \/ pc = "checkEnrolled" /\ pc' = "agentHandlers"
      /\ handlers' = handlers \cup {"removeAgent"}
  BY Basics
     DEF IInv, TypeOK, CheckStartedAgent, CheckEnrolledAgent, CheckEnrolledAgents, PrepareStep,
         config, disk, history
<1>2. PICK a \in AgentCandidates(EnrollOrCurrent) : loc' = [loc EXCEPT !.agent = a]
  BY DEF CheckStartedAgent, CheckEnrolledAgent, CheckEnrolledAgents
<1>3. /\ Running /\ Running' /\ ~failed /\ ~tdFailed /\ cmd \in Run /\ loc \in Locals
      /\ loc.run \in Run /\ "deletePolicy" \in handlers
  BY <1>1 DEF IInv, TypeOK, Process, Registered, Running, Locals
<1>4. loc.run = (IF FromFile THEN saved.run ELSE cmd) /\ loc.enroll = EnrollPolicy(loc.run)
  BY <1>3 DEF IInv, Process
<1>5. a = Tested /\ a \in Agent
      /\ (deployment # "stack" /\ ~FromFile => fleet.enrolled[cmd] = EnrollPolicy(cmd))
  <2>1. CASE deployment = "stack"
    BY <1>2, <2>1, FieldTypes DEF AgentCandidates, Tested, StackAgent
  <2>2. CASE deployment # "stack" /\ ~FromFile
    <3>1. a \in Agent /\ fleet.enrolled[a] = EnrollPolicy(cmd)
      BY <1>2, <1>4, <2>2 DEF AgentCandidates, EnrollOrCurrent
    <3>2. a = cmd
      BY <1>3, <3>1 DEF IInv, Placed
    <3> QED
      BY <1>4, <2>2, <3>1, <3>2 DEF Tested
  <2>3. CASE deployment # "stack" /\ FromFile
    <3>1. a \in Agent /\ fleet.enrolled[a] = saved.current
      BY <1>2, <2>3 DEF AgentCandidates, EnrollOrCurrent
    <3>2. a = saved.run
      BY <1>3, <2>3, <3>1 DEF IInv, Stored, Holding
    <3> QED
      BY <1>4, <2>3, <3>1, <3>2 DEF Tested
  <2> QED
    BY <2>1, <2>2, <2>3
<1>6. /\ loc' \in Locals /\ loc'.run = loc.run /\ loc'.both = loc.both /\ loc'.enroll = loc.enroll
      /\ loc'.test = loc.test /\ loc'.agent = Tested /\ loc'.orig = loc.orig
      /\ loc'.origLevel = loc.origLevel
  BY <1>2, <1>3, <1>5 DEF Locals
<1>7. TypeOK'
  BY <1>1, <1>6, HandlerNames DEF IInv, TypeOK
<1>8. Numbered' /\ Placed'
  BY <1>1, <1>3 DEF IInv, Numbered, Placed, Enrolled, DefinedServices
<1>9. UNCHANGED <<Tested, Own>>
  BY <1>1, <1>6 DEF Tested, Own
<1>10. Process' /\ Registered'
  BY <1>1, <1>3, <1>6, <1>9 DEF IInv, Process, Registered, FromFile, HasService, RunsBySteps
<1>11. Containers'
  BY <1>1, <1>3 DEF IInv, Containers, FromFile, Faultless, Undoing
<1>12. Agents'
  <2>1. OtherAgents'
    BY <1>1, <1>3, <1>9 DEF IInv, Agents, OtherAgents
  <2>2. EnrollPolicy(cmd) # Own
    BY <1>3, PolicyNames DEF Own
  <2>3. TestedAgent'
    BY <1>1, <1>3, <1>5, <1>9, <2>2 DEF IInv, Agents, TestedAgent, FromFile
  <2>4. OwedAgent'
    BY <1>1, <1>3, <1>9
       DEF IInv, Agents, OwedAgent, FromFile, Owing, Clean, Faultless, Restores, Undoing
  <2> QED
    BY <2>1, <2>3, <2>4 DEF Agents
<1>13. Policies'
  BY <1>1, <1>3, <1>6, <1>9
     DEF IInv, Policies, FromFile, Owing, Clean, Faultless, Restores, Undoing
<1>14. Stored'
  BY <1>1, <1>3 DEF IInv, Stored, Holding, FromFile, Faultless, UsableIn, RunsBySteps
<1> QED
  BY <1>7, <1>8, <1>10, <1>11, <1>12, <1>13, <1>14 DEF IInv

\* The service is started, or found in good health.
LEMMA SetupServiceEffect ==
    ASSUME IInv, SetupService \/ OutputsMissing
    PROVE  /\ UNCHANGED <<deployment, service, installed, stateFile, saved, mode, cmd, loc, failed,
                          tdFailed, crashes, disturbed, before>>
           /\ pc = "setupService" /\ pc' = "addPackagePolicy" /\ (RunsBySteps \/ mode = "normal")
           /\ faults' \in 0..MaxFaults /\ (Faultless' => Faultless)
           /\ handlers' \in {handlers, handlers \cup {"shutdownService"}}
           /\ HasService /\ RunsBySteps => "shutdownService" \in handlers'
           /\ Joined
           /\ docker' \in Docker /\ docker'.agents = docker.agents
           /\ docker'.services = docker.services
              \/ /\ docker'.services = docker.services \cup {cmd} /\ ~FromFile
                 /\ service \in {"compose", "terraform"}
                 /\ Faultless' => "shutdownService" \in handlers'
           /\ service = "compose" /\ ~FromFile => cmd \in docker'.services
           /\ docker'.definitions <=> docker.definitions \/ (service = "kubernetes" /\ mode # "teardown")
           /\ mode = "teardown" \/ service # "kubernetes" => docker'.definitions = docker.definitions
<1>1. CASE SetupService
  <2>1. docker \in Docker /\ docker.definitions \in BOOLEAN /\ faults \in 0..MaxFaults
        /\ (service # "kubernetes" => ~docker.definitions)
        /\ (mode \in Mode)
    BY <1>1, FieldTypes DEF IInv, TypeOK, Placed, DockerFields
  <2>2. /\ UNCHANGED <<deployment, service, installed, stateFile, saved, mode, cmd, loc, failed,
                       tdFailed, crashes, faults, disturbed, before>>
        /\ pc = "setupService" /\ pc' = "addPackagePolicy" /\ (RunsBySteps \/ mode = "normal")
        /\ handlers' = IF HasService THEN handlers \cup {"shutdownService"} ELSE handlers
    BY <1>1 DEF SetupService, PrepareStep, config, disk, history
  <2>3. deployment = "custom" => deployment # "stack"
    OBVIOUS
  <2>4. Joined
    BY <1>1, <2>2, <2>3, JoinedCases DEF SetupService
  <2>5. CASE docker' = docker /\ ~HasService
    BY <2>1, <2>2, <2>4, <2>5 DEF HasService, Faultless
  <2>6. CASE service = "kubernetes" /\ docker' = [docker EXCEPT !.definitions = @ \/ mode # "teardown"]
    BY <2>1, <2>2, <2>4, <2>6 DEF HasService, Faultless, Docker
  <2>7. CASE service \in {"compose", "terraform"} /\ FromFile /\ docker' = docker
    BY <2>1, <2>2, <2>4, <2>7 DEF HasService, Faultless
  <2>8. CASE /\ service \in {"compose", "terraform"} /\ ~FromFile
             /\ docker' = [docker EXCEPT !.services = @ \cup {cmd}]
    <3>1. cmd \in Run
      BY <2>2 DEF IInv, TypeOK
    <3> QED
      BY <2>1, <2>2, <2>4, <2>8, <3>1 DEF HasService, Faultless, Docker
  <2> QED
    BY <1>1, <2>5, <2>6, <2>7, <2>8 DEF SetupService
<1>2. CASE OutputsMissing
  <2>1. /\ docker \in Docker /\ ~docker.definitions /\ faults \in 0..MaxFaults /\ cmd \in Run
        /\ crashes \in Nat /\ MaxFaults \in Nat
    BY <1>2, ConstantsAssumption
       DEF IInv, TypeOK, Placed, OutputsMissing, PrepareStep
  <2>2. /\ UNCHANGED <<deployment, service, installed, stateFile, saved, mode, cmd, loc, failed,
                       tdFailed, crashes, disturbed, before, handlers, fleet>>
        /\ pc = "setupService" /\ pc' = "addPackagePolicy" /\ mode = "normal" /\ service = "terraform"
    BY <1>2 DEF OutputsMissing, PrepareStep, config, disk, history
  <2>3. PICK clean \in BOOLEAN :
            /\ docker' = IF clean THEN docker ELSE [docker EXCEPT !.services = @ \cup {cmd}]
            /\ Faulty(~clean)
    BY <1>2 DEF OutputsMissing
  <2>4. faults' \in 0..MaxFaults /\ (Faultless' => Faultless /\ clean)
    BY <2>1, <2>2, <2>3 DEF Faulty, Faultless
  <2>5. Joined
    BY <2>2, JoinedCases
  <2>6. ~FromFile /\ ~RunsBySteps
    BY <2>2 DEF FromFile, RunsBySteps
  <2>7. CASE clean
    BY <2>1, <2>2, <2>3, <2>4, <2>5, <2>6, <2>7
  <2>8. CASE ~clean
    <3>1. docker' = [docker EXCEPT !.services = @ \cup {cmd}]
      BY <2>3, <2>8
    <3>2. docker' \in Docker /\ docker'.services = docker.services \cup {cmd}
          /\ docker'.agents = docker.agents /\ docker'.definitions = docker.definitions
      BY <2>1, <3>1 DEF Docker
    <3> QED
      BY <2>1, <2>2, <2>4, <2>5, <2>6, <2>8, <3>2
  <2> QED
    BY <2>7, <2>8
<1> QED
  BY <1>1, <1>2

LEMMA SetupServiceKeeps ==
    ASSUME IInv, SetupService \/ OutputsMissing
    PROVE  IInv'
<1>1. /\ UNCHANGED <<deployment, service, installed, stateFile, saved, mode, cmd, loc, failed,
                     tdFailed, crashes, disturbed, before>>
      /\ pc = "setupService" /\ pc' = "addPackagePolicy" /\ (RunsBySteps \/ mode = "normal")
      /\ faults' \in 0..MaxFaults /\ (Faultless' => Faultless)
      /\ handlers' \in {handlers, handlers \cup {"shutdownService"}}
      /\ HasService /\ RunsBySteps => "shutdownService" \in handlers'
      /\ Joined
      /\ docker' \in Docker /\ docker'.agents = docker.agents
      /\ docker'.services = docker.services
         \/ /\ docker'.services = docker.services \cup {cmd} /\ ~FromFile
            /\ service \in {"compose", "terraform"}
            /\ Faultless' => "shutdownService" \in handlers'
      /\ service = "compose" /\ ~FromFile => cmd \in docker'.services
      /\ docker'.definitions <=> docker.definitions \/ (service = "kubernetes" /\ mode # "teardown")
      /\ mode = "teardown" \/ service # "kubernetes" => docker'.definitions = docker.definitions
  BY SetupServiceEffect
<1>2. Running /\ Running' /\ ~failed /\ ~tdFailed /\ cmd \in Run /\ Basic
  BY <1>1, Basics DEF IInv, TypeOK, Process, Running
<1>3. ~FromFile => loc.run = cmd
  BY <1>2 DEF IInv, Process
<1>4. TypeOK'
  BY <1>1, HandlerNames DEF IInv, TypeOK, Joined
<1>5. /\ \A a \in Agent : Enrolled(a)' => fleet'.enrolled[a] \in fleet'.policies
      /\ \A a \in Agent, n \in Run : fleet'.enrolled[a] = EnrollPolicy(n) => a = n
      /\ \A a \in Agent : a > cmd => ~Enrolled(a)'
      /\ IF deployment = "stack" THEN Enrolled(StackAgent)' /\ \A a \in Run : ~Enrolled(a)'
                                 ELSE fleet'.enrolled[StackAgent] = Default
      /\ \A p \in Policy : fleet'.enrolled[cmd] = p => p \in {fleet.enrolled[cmd], EnrollPolicy(cmd)}
  BY <1>1, JoinedKeeps
<1>6. Numbered'
  <2>1. docker'.services \cup docker'.agents \subseteq 1..cmd
    BY <1>1, <1>2, FieldTypes DEF IInv, Numbered, Basic, DockerFields
  <2> QED
    BY <1>1, <1>2, <1>5, <2>1 DEF IInv, Numbered, Joined
<1>7. Placed'
  BY <1>1, <1>2, <1>5 DEF IInv, Placed, DefinedServices, Joined
<1>8. Process' /\ Registered'
  BY <1>1, <1>2 DEF IInv, Process, Registered, FromFile, Tested, Own, HasService, RunsBySteps
<1>9. Containers'
  BY <1>1, <1>2 DEF IInv, Containers, Placed, FromFile, Undoing, HasService, RunsBySteps
<1>10. Agents'
  <2>1. Own \in Policy /\ Own # EnrollPolicy(cmd) /\ cmd \in Agent /\ StackAgent \in Agent /\ StackAgent # cmd
    BY <1>2, PolicyNames, FieldTypes DEF Own, StackAgent
  <2>2. UNCHANGED <<Tested, Own>> /\ Tested \in Agent
    BY <1>1, <1>2, TestedType DEF IInv, Tested, Own
  <2>3. OtherAgents'
    BY <1>1, <1>2, <1>3, <2>1, <2>2 DEF IInv, Agents, OtherAgents, Joined, Tested
  <2>4. TestedAgent'
    BY <1>1, <1>2, <1>3, <1>5, <2>1, <2>2 DEF IInv, Agents, TestedAgent, Joined, FromFile, Tested
  <2>5. OwedAgent'
    BY <1>1, <1>2, <1>3, <1>5, <2>1, <2>2
       DEF IInv, Agents, OwedAgent, Joined, FromFile, Owing, Clean, Restores, Undoing, Tested
  <2> QED
    BY <2>3, <2>4, <2>5 DEF Agents
<1>11. Policies'
  BY <1>1, <1>2 DEF IInv, Policies, FromFile, Own, Owing, Clean, Restores, Undoing, Joined
<1>12. Stored'
  BY <1>1, <1>2, <1>5 DEF IInv, Stored, Holding, FromFile, UsableIn, RunsBySteps, Joined
<1> QED
  BY <1>4, <1>6, <1>7, <1>8, <1>9, <1>10, <1>11, <1>12 DEF IInv

\* The test policy gets a data stream.
LEMMA AddPackagePolicyKeeps ==
    ASSUME IInv, AddPackagePolicy
    PROVE  IInv'
<1>1. /\ UNCHANGED <<deployment, service, docker, installed, stateFile, saved, mode, cmd, loc,
                     failed, tdFailed, crashes, faults, disturbed, before>>
      /\ Basic /\ pc = "addPackagePolicy" /\ pc' = "checkEnrolled"
      /\ handlers' = handlers \cup {"cleanScenario"}
  BY Basics DEF IInv, TypeOK, AddPackagePolicy, PrepareStep, config, disk, history
<1>2. /\ Running /\ Running' /\ ~failed /\ ~tdFailed /\ cmd \in Run /\ fleet \in Fleet
      /\ mode # "teardown" => loc.test = Own /\ Own \in fleet.policies /\ Own \in Policy
  BY <1>1, PolicyNames DEF IInv, TypeOK, Process, Registered, Policies, Running, Own
<1>3. /\ fleet' \in Fleet /\ fleet'.policies = fleet.policies /\ fleet'.enrolled = fleet.enrolled
      /\ fleet'.level = fleet.level /\ fleet'.docs = fleet.docs
      /\ mode = "teardown" => fleet'.streams = fleet.streams
      /\ fleet'.streams \subseteq fleet.streams \cup {Own}
      /\ fleet'.streams \subseteq fleet'.policies
  <2>1. fleet.streams \subseteq fleet.policies
    BY DEF IInv, Numbered
  <2>2. CASE mode = "teardown"
    BY <1>2, <2>1, <2>2 DEF AddPackagePolicy
  <2>3. CASE mode # "teardown"
    <3>1. fleet' = [fleet EXCEPT !.streams = @ \cup {Own}]
      BY <1>2, <2>3 DEF AddPackagePolicy
    <3> QED
      BY <1>2, <2>1, <2>3, <3>1 DEF Fleet
  <2> QED
    BY <2>2, <2>3
<1>4. TypeOK'
  BY <1>1, <1>3, HandlerNames DEF IInv, TypeOK
<1>5. Numbered' /\ Placed'
  BY <1>1, <1>2, <1>3 DEF IInv, Numbered, Placed, Enrolled, DefinedServices
<1>6. Process' /\ Registered'
  BY <1>1, <1>2 DEF IInv, Process, Registered, FromFile, Tested, Own, HasService, RunsBySteps
<1>7. Containers'
  BY <1>1, <1>2 DEF IInv, Containers, FromFile, Faultless, Undoing
<1>8. Agents'
  BY <1>1, <1>2, <1>3
     DEF IInv, Agents, OtherAgents, TestedAgent, OwedAgent, FromFile, Tested, Own, Owing, Clean,
         Faultless, Restores, Undoing
<1>9. Policies'
  BY <1>1, <1>2, <1>3 DEF IInv, Policies, FromFile, Own, Owing, Clean, Faultless, Restores, Undoing
<1>10. Stored'
  BY <1>1, <1>2, <1>3 DEF IInv, Stored, Holding, FromFile, Faultless, UsableIn, RunsBySteps
<1> QED
  BY <1>4, <1>5, <1>6, <1>7, <1>8, <1>9, <1>10 DEF IInv

\* A call that took effect without an answer leaves a policy, or a stream of
\* one, and is counted.
LEMMA FailsLateKeeps ==
    ASSUME IInv,
           CreateEnrollPolicyFailsLate \/ CreateTestPolicyFailsLate \/ AddPackagePolicyFailsLate
    PROVE  IInv'
<1>1. /\ UNCHANGED <<deployment, service, docker, installed, stateFile, saved, mode, cmd, handlers,
                     loc, tdFailed, crashes, disturbed, before>>
      /\ Basic /\ mode # "teardown" /\ pc \in {"createEnroll", "createTest", "addPackagePolicy"}
      /\ failed' = TRUE /\ pc' = IF mode = "tests" THEN "tearDownRunner" ELSE "resetPolicy"
      /\ faults' = faults + 1 /\ faults' + crashes <= MaxFaults
  BY Basics, HandlerNames
     DEF IInv, TypeOK, CreateEnrollPolicyFailsLate, CreateTestPolicyFailsLate,
         AddPackagePolicyFailsLate, FailsLate, PrepareFails, Faulty, FromFile, config, disk
<1>2. /\ Running /\ Running' /\ ~failed /\ ~tdFailed /\ ~tdFailed' /\ cmd \in Run /\ fleet \in Fleet
      /\ EnrollPolicy(cmd) \in Policy /\ EnrollPolicy(cmd).cmd = cmd
      /\ Own \in Policy /\ Own.cmd = cmd /\ Own # EnrollPolicy(cmd)
  BY <1>1, PolicyNames DEF IInv, TypeOK, Process, Running, Own
<1>3. faults' \in 0..MaxFaults /\ ~Faultless'
  BY <1>1, ConstantsAssumption DEF IInv, TypeOK, Faultless
<1>4. /\ fleet' \in Fleet /\ fleet'.docs = fleet.docs /\ fleet'.enrolled = fleet.enrolled
      /\ fleet'.level = fleet.level /\ fleet.policies \subseteq fleet'.policies
      /\ fleet'.policies \subseteq fleet.policies \cup {EnrollPolicy(cmd), Own}
      /\ FromFile => EnrollPolicy(cmd) \in fleet.policies \/ EnrollPolicy(cmd) \notin fleet'.policies
      /\ fleet'.streams \subseteq fleet'.policies
  <2>1. fleet.streams \subseteq fleet.policies
    BY DEF IInv, Numbered
  <2>2. CASE CreateEnrollPolicyFailsLate
    <3>1. Created(EnrollPolicy(cmd)) /\ ~FromFile
      BY <1>2, <2>2, PolicyUpdate DEF CreateEnrollPolicyFailsLate
    <3> QED
      BY <2>1, <3>1 DEF Created
  <2>3. CASE CreateTestPolicyFailsLate
    <3>1. Created(Own)
      BY <1>2, <2>3, PolicyUpdate DEF CreateTestPolicyFailsLate, Own
    <3> QED
      BY <1>2, <2>1, <3>1 DEF Created
  <2>4. CASE AddPackagePolicyFailsLate
    <3>1. pc = "addPackagePolicy" /\ fleet' = [fleet EXCEPT !.streams = @ \cup {loc.test}]
      BY <2>4 DEF AddPackagePolicyFailsLate, FailsLate
    <3>2. loc.test = Own /\ Own \in fleet.policies
      BY <1>1, <1>2, <3>1 DEF IInv, Process, Registered, Policies
    <3> QED
      BY <1>2, <2>1, <3>1, <3>2 DEF Fleet
  <2> QED
    BY <2>2, <2>3, <2>4
<1>5. UNCHANGED <<Tested, Own>>
  BY <1>1 DEF Tested, Own
<1>6. TypeOK'
  BY <1>1, <1>3, <1>4, HandlerNames DEF IInv, TypeOK
<1>7. Numbered' /\ Placed'
  BY <1>1, <1>2, <1>4, FieldTypes DEF IInv, Numbered, Placed, Enrolled, DefinedServices
<1>8. Process' /\ Registered'
  BY <1>1, <1>2, <1>5 DEF IInv, Process, Registered, FromFile, HasService, RunsBySteps
<1>9. Containers'
  BY <1>1, <1>2, <1>3 DEF IInv, Containers, FromFile, Undoing
<1>10. Agents'
  BY <1>1, <1>2, <1>3, <1>4, <1>5
     DEF IInv, Agents, OtherAgents, TestedAgent, OwedAgent, FromFile, Owing, Clean, Restores, Undoing
<1>11. Policies'
  BY <1>1, <1>2, <1>3, <1>4, <1>5 DEF IInv, Policies, FromFile, Owing, Clean, Restores, Undoing
<1>12. Stored'
  BY <1>1, <1>2, <1>3, <1>4 DEF IInv, Stored, Holding, FromFile, UsableIn, RunsBySteps
<1> QED
  BY <1>6, <1>7, <1>8, <1>9, <1>10, <1>11, <1>12 DEF IInv

\* What the handlers of the agent are told is what they have to give back.
LEMMA HandlersKnow ==
    ASSUME IInv, pc = "agentHandlers"
    PROVE  /\ Running /\ ~failed /\ ~tdFailed /\ cmd \in Run /\ loc \in Locals /\ fleet \in Fleet
           /\ loc.agent = Tested /\ Tested \in Agent /\ "removeAgent" \in handlers
           /\ fleet.enrolled[Tested] \in Policy \cup {Unassigned}
           /\ fleet.level[Tested] \in {"info", "debug"}
           /\ mode # "teardown" => fleet.enrolled[Tested] =
                  IF mode = "tests" \/ deployment = "stack" THEN before.fleet.enrolled[Tested]
                                                            ELSE EnrollPolicy(cmd)
           /\ mode = "normal" /\ deployment = "stack" =>
                  fleet.level[Tested] = before.fleet.level[StackAgent]
           /\ mode = "teardown" => saved.orig \in Policy \cup {Unassigned}
                                   /\ saved.origLevel \in {"info", "debug"}
<1>1. /\ Running /\ ~failed /\ ~tdFailed /\ cmd \in Run /\ loc \in Locals /\ fleet \in Fleet
      /\ loc.agent = Tested /\ "removeAgent" \in handlers
  BY DEF IInv, TypeOK, Process, Registered, Running
<1>2. Tested \in Agent /\ (~FromFile => loc.run = cmd)
  BY <1>1, TestedType DEF IInv, Process
<1>3. FleetFields(fleet)
  BY <1>1, FieldTypes
<1>4. mode = "teardown" => saved \in Saved
  BY <1>1 DEF IInv, Stored, Holding, FromFile
<1>5. mode # "teardown" => fleet.enrolled[Tested] =
          IF mode = "tests" \/ deployment = "stack" THEN before.fleet.enrolled[Tested]
                                                    ELSE EnrollPolicy(cmd)
  BY <1>1, <1>2 DEF IInv, Agents, TestedAgent, FromFile, Tested
<1>6. mode = "normal" /\ deployment = "stack" =>
          fleet.level[Tested] = before.fleet.level[StackAgent]
  BY <1>1 DEF IInv, Agents, TestedAgent, Tested
<1> QED
  BY <1>1, <1>2, <1>3, <1>4, <1>5, <1>6 DEF FleetFields, Saved

LEMMA SetupAgentHandlersKeeps ==
    ASSUME IInv, SetupAgentHandlers
    PROVE  IInv'
<1>1. /\ UNCHANGED <<deployment, service, docker, installed, stateFile, saved, mode, cmd, failed,
                     tdFailed, crashes, faults, disturbed, before>>
      /\ Basic /\ pc = "agentHandlers" /\ pc' = "assignPolicy"
      /\ handlers' = handlers \cup {"resetPolicy", "resetLogLevel"}
  BY Basics DEF IInv, TypeOK, SetupAgentHandlers, PrepareStep, config, disk, history
<1>2. /\ Running /\ Running' /\ ~failed /\ ~tdFailed /\ cmd \in Run /\ loc \in Locals /\ fleet \in Fleet
      /\ loc.agent = Tested /\ Tested \in Agent /\ "removeAgent" \in handlers
      /\ fleet.enrolled[Tested] \in Policy \cup {Unassigned}
      /\ fleet.level[Tested] \in {"info", "debug"}
      /\ mode # "teardown" => fleet.enrolled[Tested] =
             IF mode = "tests" \/ deployment = "stack" THEN before.fleet.enrolled[Tested]
                                                       ELSE EnrollPolicy(cmd)
      /\ mode = "normal" /\ deployment = "stack" =>
             fleet.level[Tested] = before.fleet.level[StackAgent]
      /\ mode = "teardown" => saved.orig \in Policy \cup {Unassigned}
                              /\ saved.origLevel \in {"info", "debug"}
  BY <1>1, HandlersKnow DEF Running
<1>3. /\ loc' \in Locals /\ loc'.run = loc.run /\ loc'.both = loc.both /\ loc'.enroll = loc.enroll
      /\ loc'.test = loc.test /\ loc'.agent = Tested
      /\ loc'.orig = IF mode = "teardown" THEN saved.orig ELSE fleet.enrolled[Tested]
      /\ loc'.origLevel = IF mode = "teardown" THEN saved.origLevel ELSE fleet.level[Tested]
  <2>1. CASE mode = "teardown"
    <3>1. loc' = [loc EXCEPT !.orig = saved.orig, !.origLevel = saved.origLevel]
      BY <2>1 DEF SetupAgentHandlers
    <3> QED
      BY <1>2, <2>1, <3>1 DEF Locals
  <2>2. CASE mode # "teardown"
    <3>1. loc' = [loc EXCEPT !.orig = fleet.enrolled[Tested], !.origLevel = fleet.level[Tested]]
      BY <1>2, <2>2 DEF SetupAgentHandlers
    <3> QED
      BY <1>2, <2>2, <3>1 DEF Locals
  <2> QED
    BY <2>1, <2>2
<1>4. /\ fleet' \in Fleet /\ fleet'.policies = fleet.policies /\ fleet'.streams = fleet.streams
      /\ fleet'.docs = fleet.docs /\ fleet'.enrolled = fleet.enrolled
      /\ \A b \in Agent \ {Tested} : fleet'.level[b] = fleet.level[b]
      /\ mode = "teardown" => fleet'.level = fleet.level
  <2>1. CASE mode = "teardown"
    BY <1>2, <2>1 DEF SetupAgentHandlers
  <2>2. CASE mode # "teardown"
    <3>1. fleet' = [fleet EXCEPT !.level[Tested] = "debug"]
      BY <1>2, <2>2 DEF SetupAgentHandlers
    <3> QED
      BY <1>2, <2>2, <3>1, LevelUpdate
  <2> QED
    BY <2>1, <2>2
<1>5. UNCHANGED <<Tested, Own>>
  BY <1>1, <1>3 DEF Tested, Own
<1>6. TypeOK'
  BY <1>1, <1>3, <1>4, HandlerNames DEF IInv, TypeOK
<1>7. Numbered' /\ Placed'
  BY <1>1, <1>2, <1>4 DEF IInv, Numbered, Placed, Enrolled, DefinedServices
<1>8. Process' /\ Registered'
  BY <1>1, <1>2, <1>3, <1>5 DEF IInv, Process, Registered, FromFile, HasService, RunsBySteps
<1>9. Containers'
  BY <1>1, <1>2 DEF IInv, Containers, FromFile, Faultless, Undoing
<1>10. Agents'
  <2>1. OtherAgents'
    BY <1>1, <1>2, <1>4, <1>5 DEF IInv, Agents, OtherAgents
  <2>2. TestedAgent'
    BY <1>1, <1>2, <1>4, <1>5 DEF IInv, Agents, TestedAgent, FromFile
  <2>3. OwedAgent'
    BY <1>1, <1>2, <1>4, <1>5
       DEF IInv, Agents, OwedAgent, FromFile, Owing, Clean, Faultless, Restores, Undoing
  <2> QED
    BY <2>1, <2>2, <2>3 DEF Agents
<1>11. Policies'
  BY <1>1, <1>2, <1>3, <1>4, <1>5
     DEF IInv, Policies, FromFile, Owing, Clean, Faultless, Restores, Undoing
<1>12. Stored'
  BY <1>1, <1>2, <1>4 DEF IInv, Stored, Holding, FromFile, Faultless, UsableIn, RunsBySteps
<1> QED
  BY <1>6, <1>7, <1>8, <1>9, <1>10, <1>11, <1>12 DEF IInv

LEMMA SetLogLevelFailsKeeps ==
    ASSUME IInv, SetLogLevelFails
    PROVE  IInv'
<1>1. /\ UNCHANGED <<deployment, service, docker, installed, stateFile, saved, mode, cmd,
                     tdFailed, crashes, disturbed, before>>
      /\ Basic /\ pc = "agentHandlers" /\ mode # "teardown" /\ failed' = TRUE
      /\ pc' = IF mode = "tests" THEN "tearDownRunner" ELSE "resetPolicy"
      /\ handlers' = handlers \cup {"resetPolicy"}
      /\ loc' = [loc EXCEPT !.orig = fleet.enrolled[loc.agent]]
      /\ \/ fleet' = fleet /\ faults' = faults
         \/ fleet' = [fleet EXCEPT !.level[loc.agent] = "debug"] /\ faults' = faults + 1
      /\ faults' \in 0..MaxFaults
  BY Basics, HandlerNames, ConstantsAssumption
     DEF IInv, TypeOK, SetLogLevelFails, PrepareFails, Faulty, config, disk
<1>2. /\ Running /\ Running' /\ ~failed /\ ~tdFailed /\ ~tdFailed' /\ cmd \in Run /\ loc \in Locals
      /\ loc.agent = Tested /\ Tested \in Agent /\ "removeAgent" \in handlers /\ fleet \in Fleet
      /\ fleet.enrolled[Tested] \in Policy \cup {Unassigned}
      /\ fleet.enrolled[Tested] =
             IF mode = "tests" \/ deployment = "stack" THEN before.fleet.enrolled[Tested]
                                                       ELSE EnrollPolicy(cmd)
  BY <1>1, HandlersKnow DEF Running
<1>3. /\ loc' \in Locals /\ loc'.run = loc.run /\ loc'.both = loc.both /\ loc'.enroll = loc.enroll
      /\ loc'.test = loc.test /\ loc'.agent = Tested /\ loc'.orig = fleet.enrolled[Tested]
      /\ loc'.origLevel = loc.origLevel
  BY <1>1, <1>2 DEF Locals
<1>4. UNCHANGED <<Tested, Own>>
  BY <1>1, <1>3 DEF Tested, Own
<1>5. /\ fleet' \in Fleet /\ fleet'.policies = fleet.policies /\ fleet'.streams = fleet.streams
      /\ fleet'.docs = fleet.docs /\ fleet'.enrolled = fleet.enrolled
      /\ \A b \in Agent \ {Tested} : fleet'.level[b] = fleet.level[b]
      /\ Faultless' => Faultless /\ fleet'.level = fleet.level
  <2>1. CASE fleet' = fleet /\ faults' = faults
    BY <1>2, <2>1 DEF Faultless
  <2>2. CASE fleet' = [fleet EXCEPT !.level[Tested] = "debug"] /\ faults' = faults + 1
    <3>1. ~Faultless'
      BY <2>2 DEF IInv, TypeOK, Faultless
    <3> QED
      BY <1>2, <2>2, <3>1, LevelUpdate
  <2> QED
    BY <1>1, <1>2, <2>1, <2>2
<1>6. TypeOK'
  BY <1>1, <1>3, <1>5, HandlerNames DEF IInv, TypeOK
<1>7. Numbered' /\ Placed'
  BY <1>1, <1>2, <1>5 DEF IInv, Numbered, Placed, Enrolled, DefinedServices
<1>8. Process' /\ Registered'
  BY <1>1, <1>2, <1>3, <1>4 DEF IInv, Process, Registered, FromFile, HasService, RunsBySteps
<1>9. Containers'
  BY <1>1, <1>2, <1>5 DEF IInv, Containers, FromFile, Undoing
<1>10. Agents'
  <2>1. OtherAgents'
    BY <1>1, <1>2, <1>4, <1>5 DEF IInv, Agents, OtherAgents
  <2>2. TestedAgent'
    BY <1>1, <1>2, <1>4, <1>5 DEF IInv, Agents, TestedAgent, FromFile
  <2>3. OwedAgent'
    BY <1>1, <1>2, <1>4, <1>5 DEF IInv, Agents, OwedAgent, FromFile, Owing, Clean, Restores, Undoing
  <2> QED
    BY <2>1, <2>2, <2>3 DEF Agents
<1>11. Policies'
  BY <1>1, <1>2, <1>3, <1>4, <1>5
     DEF IInv, Policies, FromFile, Owing, Clean, Restores, Undoing
<1>12. Stored'
  BY <1>1, <1>2, <1>5 DEF IInv, Stored, Holding, FromFile, UsableIn, RunsBySteps
<1> QED
  BY <1>6, <1>7, <1>8, <1>9, <1>10, <1>11, <1>12 DEF IInv

\* A tear-down is prepared: each handler that it needs is registered.
LEMMA TearDownPreparedKeeps ==
    ASSUME IInv, AssignTestPolicy, mode = "teardown"
    PROVE  IInv'
<1>1. /\ UNCHANGED <<deployment, service, fleet, docker, installed, stateFile, saved, mode, cmd,
                     handlers, loc, failed, tdFailed, crashes, faults, disturbed, before>>
      /\ Basic /\ pc = "assignPolicy" /\ pc' = "resetPolicy"
  BY Basics, HandlerNames DEF IInv, TypeOK, AssignTestPolicy, config, disk, history
<1>2. /\ Running /\ Running' /\ ~failed /\ ~tdFailed /\ FromFile /\ Holding /\ RunsBySteps
  BY <1>1 DEF IInv, Process, Stored, Running, FromFile, Holding
<1>3. TypeOK'
  BY <1>1, HandlerNames DEF IInv, TypeOK
<1>4. Numbered' /\ Placed'
  BY <1>1, <1>2 DEF IInv, Numbered, Placed, Enrolled, DefinedServices
<1>5. Process' /\ Registered'
  BY <1>1, <1>2 DEF IInv, Process, Registered, FromFile, Tested, Own, HasService, RunsBySteps
<1>6. Containers'
  <2>1. /\ saved.run \in docker.services \/ docker.definitions => HasService
        /\ saved.run \in docker.agents => deployment = "independent"
    BY DEF IInv, Placed, HasService
  <2>2. /\ saved.run \in docker.services \/ docker.definitions => "shutdownService" \in handlers
        /\ saved.run \in docker.agents => "shutdownAgent" \in handlers
    BY <1>1, <1>2, <2>1 DEF IInv, Registered
  <2> QED
    BY <1>1, <1>2, <2>2 DEF IInv, Containers, FromFile, Faultless
<1>7. Agents'
  <2>1. {"resetPolicy", "resetLogLevel", "removeAgent"} \subseteq handlers
    BY <1>1 DEF IInv, Registered
  <2> QED
    BY <1>1, <1>2, <2>1
       DEF IInv, Agents, OtherAgents, TestedAgent, OwedAgent, FromFile, Tested, Own, Owing
<1>8. Policies'
  <2>1. {"deletePolicy", "cleanScenario"} \subseteq handlers
    BY <1>1 DEF IInv, Registered
  <2> QED
    BY <1>1, <1>2, <2>1 DEF IInv, Policies, FromFile, Own, Owing
<1>9. Stored'
  BY <1>1, <1>2 DEF IInv, Stored, Holding, FromFile, Faultless, UsableIn, RunsBySteps
<1> QED
  BY <1>3, <1>4, <1>5, <1>6, <1>7, <1>8, <1>9 DEF IInv

\* The agent gets the test policy, whether or not the call then fails.
LEMMA AssignTestPolicyKeeps ==
    ASSUME IInv, AssignTestPolicy \/ AssignTestPolicyFailsLate, mode # "teardown"
    PROVE  IInv'
<1>1. /\ UNCHANGED <<deployment, service, docker, installed, stateFile, saved, mode, cmd, handlers,
                     loc, tdFailed, crashes, faults, disturbed, before>>
      /\ Basic /\ pc = "assignPolicy" /\ Enrolled(loc.agent)
      /\ \/ pc' = "waitForData" /\ failed' = failed
         \/ /\ failed' = TRUE
            /\ pc' = IF mode = "tests" THEN "tearDownRunner" ELSE "resetPolicy"
      /\ fleet' = [fleet EXCEPT !.enrolled[loc.agent] = loc.test]
  BY Basics, HandlerNames
     DEF IInv, TypeOK, AssignTestPolicy, AssignTestPolicyFailsLate, PrepareFails, config, disk,
         history
<1>2. /\ Running /\ Running' /\ ~failed /\ ~tdFailed /\ ~tdFailed' /\ cmd \in Run /\ fleet \in Fleet
      /\ loc.agent = Tested /\ Tested \in Agent /\ loc.test = Own /\ loc.both
      /\ {"resetPolicy", "resetLogLevel", "removeAgent", "deletePolicy"} \subseteq handlers
  BY <1>1, TestedType DEF IInv, TypeOK, Process, Registered, Running
<1>3. /\ Own \in Policy /\ Own \in fleet.policies /\ Own # Unassigned /\ Own.cmd = cmd
      /\ \A n \in Run : EnrollPolicy(n) # Own
      /\ \A n \in Run : n # cmd => TestPolicy(n) # Own
  BY <1>1, <1>2, PolicyNames DEF IInv, Policies, Own
<1>4. /\ fleet' \in Fleet /\ fleet'.policies = fleet.policies /\ fleet'.streams = fleet.streams
      /\ fleet'.docs = fleet.docs /\ fleet'.level = fleet.level
      /\ fleet'.enrolled[Tested] = Own
      /\ \A b \in Agent \ {Tested} : fleet'.enrolled[b] = fleet.enrolled[b]
  BY <1>1, <1>2, <1>3, EnrolledUpdate
<1>5. /\ ~FromFile => loc.run = cmd
      /\ loc.run \in Run /\ loc.run <= cmd /\ StackAgent \notin Run /\ Run \subseteq Agent
      /\ StackAgent \in Agent /\ cmd \in Nat
  <2>1. loc.run \in Run /\ (~FromFile => loc.run = cmd) /\ (FromFile => loc.run = saved.run)
    BY <1>2, TestedType DEF IInv, Process
  <2>2. FromFile => saved.run <= cmd
    BY <1>2 DEF IInv, Stored, Holding
  <2> QED
    BY <1>2, <2>1, <2>2, FieldTypes DEF StackAgent
<1>6. \A b \in Agent : fleet'.enrolled[b] = IF b = Tested THEN Own ELSE fleet.enrolled[b]
  BY <1>4
<1>7. UNCHANGED <<Tested, Own>>
  BY <1>1 DEF Tested, Own
<1>8. TypeOK'
  BY <1>1, <1>4, HandlerNames DEF IInv, TypeOK
<1>9. Numbered'
  <2>1. \A a \in Agent : a > cmd => a # Tested
    BY <1>5, FieldTypes DEF Tested, StackAgent
  <2> QED
    BY <1>1, <1>2, <1>4, <1>6, <2>1 DEF IInv, Numbered, Enrolled
<1>10. Placed'
  BY <1>1, <1>2, <1>3, <1>4, <1>5, <1>6 DEF IInv, Placed, Enrolled, DefinedServices, Tested
<1>11. Process' /\ Registered'
  BY <1>1, <1>2, <1>7 DEF IInv, Process, Registered, FromFile, HasService, RunsBySteps
<1>12. Containers'
  BY <1>1, <1>2 DEF IInv, Containers, FromFile, Faultless, Undoing
<1>13. Agents'
  <2>1. OtherAgents'
    BY <1>1, <1>2, <1>4, <1>6, <1>7 DEF IInv, Agents, OtherAgents
  <2>2. TestedAgent'
    BY <1>1, <1>2, <1>4, <1>5, <1>7 DEF IInv, Agents, TestedAgent, FromFile, Tested
  <2>3. deployment = "stack" \/ mode = "tests" => before.fleet.enrolled[Tested] # Unassigned
    <3>1. deployment = "stack" \/ mode = "tests" => fleet.enrolled[Tested] = before.fleet.enrolled[Tested]
      BY <1>1, <1>2 DEF IInv, Agents, TestedAgent, FromFile
    <3> QED
      BY <1>1, <1>2, <3>1 DEF Enrolled
  <2>4. OwedAgent'
    BY <1>1, <1>2, <1>4, <1>7, <2>3
       DEF IInv, Agents, OwedAgent, FromFile, Owing, Clean, Faultless, Restores, Undoing
  <2> QED
    BY <2>1, <2>2, <2>4 DEF Agents
<1>14. Policies'
  BY <1>1, <1>2, <1>4, <1>7
     DEF IInv, Policies, FromFile, Owing, Clean, Faultless, Restores, Undoing
<1>15. Stored'
  <2>1. Holding => /\ saved.run \in Run /\ saved.current = TestPolicy(saved.run) /\ FromFile
                   /\ saved.run < cmd
    BY <1>1, <1>2 DEF IInv, Stored, Holding, Saved
  <2>2. Holding => saved.current # Own
    BY <1>3, <1>5, <2>1, FieldTypes
  <2> QED
    BY <1>1, <1>2, <1>4, <1>6, <2>1, <2>2
       DEF IInv, Stored, Holding, FromFile, Faultless, UsableIn, RunsBySteps
<1> QED
  BY <1>8, <1>9, <1>10, <1>11, <1>12, <1>13, <1>14, <1>15 DEF IInv

\* The documents are there; the state is written, or cannot be.
LEMMA WaitedKeeps ==
    ASSUME IInv, WaitForData \/ WriteStateFails
    PROVE  IInv'
<1>1. /\ UNCHANGED <<deployment, service, fleet, docker, installed, saved, mode, cmd, handlers, loc,
                     tdFailed, crashes, faults, disturbed, before>>
      /\ Basic
      /\ \/ /\ pc = "waitForData" /\ UNCHANGED <<stateFile, failed>>
            /\ pc' = IF mode = "setup" THEN "writeState" ELSE "resetPolicy"
         \/ /\ pc = "writeState" /\ failed' = TRUE /\ stateFile' = "corrupt"
            /\ pc' = IF mode = "tests" THEN "tearDownRunner" ELSE "resetPolicy"
  BY Basics, HandlerNames
     DEF IInv, TypeOK, WaitForData, WriteStateFails, PrepareStep, PrepareFails, config, world, disk,
         history
<1>2. /\ Running /\ Running' /\ ~failed /\ ~tdFailed /\ ~tdFailed' /\ mode # "teardown"
      /\ pc = "writeState" => mode = "setup"
  BY <1>1 DEF IInv, Process, Running
<1>3. TypeOK'
  BY <1>1, HandlerNames DEF IInv, TypeOK
<1>4. Numbered' /\ Placed'
  BY <1>1, <1>2 DEF IInv, Numbered, Placed, Enrolled, DefinedServices
<1>5. Process' /\ Registered'
  BY <1>1, <1>2 DEF IInv, Process, Registered, FromFile, Tested, Own, HasService, RunsBySteps
<1>6. Containers'
  BY <1>1, <1>2 DEF IInv, Containers, FromFile, Faultless, Undoing
<1>7. Agents'
  BY <1>1, <1>2
     DEF IInv, Agents, OtherAgents, TestedAgent, OwedAgent, FromFile, Tested, Own, Owing, Clean,
         Faultless, Restores, Undoing
<1>8. Policies'
  BY <1>1, <1>2 DEF IInv, Policies, FromFile, Own, Owing, Clean, Faultless, Restores, Undoing
<1>9. Stored'
  BY <1>1, <1>2 DEF IInv, Stored, Holding, FromFile, Faultless, UsableIn, RunsBySteps
<1> QED
  BY <1>3, <1>4, <1>5, <1>6, <1>7, <1>8, <1>9 DEF IInv

\* What a setup stores is there.
LEMMA WriteStateKeeps ==
    ASSUME IInv, WriteState
    PROVE  IInv'
<1>1. /\ UNCHANGED <<deployment, service, fleet, docker, installed, mode, cmd, handlers, loc, failed,
                     tdFailed, crashes, faults, before>>
      /\ Basic /\ pc = "writeState" /\ pc' = "tearDownRunner" /\ stateFile' = "valid"
      /\ saved' = ScenarioState /\ disturbed' = FALSE
  BY Basics DEF IInv, TypeOK, WriteState, PrepareStep, config
<1>2. /\ Running /\ Running' /\ ~failed /\ ~tdFailed /\ mode = "setup" /\ ~FromFile
      /\ cmd \in Run /\ cmd \in Nat /\ loc \in Locals /\ loc.run = cmd /\ RunsBySteps
      /\ loc.enroll = EnrollPolicy(cmd) /\ loc.test = Own
      /\ {"resetPolicy", "deletePolicy"} \subseteq handlers /\ loc.both
      /\ loc.orig = IF deployment = "stack" THEN before.fleet.enrolled[Tested] ELSE EnrollPolicy(cmd)
      /\ fleet.enrolled[Tested] = Own /\ installed
  <2>1. /\ Running /\ ~failed /\ ~tdFailed /\ mode = "setup" /\ ~FromFile
        /\ cmd \in Run /\ loc \in Locals /\ loc.run = cmd /\ RunsBySteps
        /\ {"resetPolicy", "deletePolicy"} \subseteq handlers /\ loc.both
    BY <1>1 DEF IInv, TypeOK, Process, Registered, Running, FromFile
  <2>2. /\ loc.enroll = EnrollPolicy(cmd) /\ loc.test = Own
        /\ loc.orig = IF deployment = "stack" THEN before.fleet.enrolled[Tested] ELSE EnrollPolicy(cmd)
        /\ fleet.enrolled[Tested] = loc.test
    BY <1>1, <2>1 DEF IInv, Process, Agents, TestedAgent
  <2> QED
    BY <1>1, <2>1, <2>2, FieldTypes DEF IInv, Stored, Running
<1>3. /\ Own \in Policy /\ Own # Unassigned /\ Own.cmd = cmd /\ EnrollPolicy(cmd) \in Policy
      /\ Own \in fleet.policies /\ EnrollPolicy(cmd) \in fleet.policies
      /\ Tested \in Agent
  BY <1>1, <1>2, PolicyNames, TestedType DEF IInv, Policies, Own
<1>4. ASSUME deployment = "stack"
      PROVE  /\ before.fleet.enrolled[Tested] \in before.fleet.policies
             /\ before.fleet.enrolled[Tested] \in Policy
             /\ before.fleet.enrolled[Tested].cmd < cmd
             /\ \A n \in Run : before.fleet.enrolled[Tested] # EnrollPolicy(n)
             /\ before.fleet.enrolled[Tested] \in fleet.policies
  <2>1. before.fleet.enrolled[Tested] = Unassigned \/ before.fleet.enrolled[Tested] \in before.fleet.policies
    BY <1>2, <1>3 DEF IInv, Placed
  <2>2. Owing
    BY <1>1, <1>2 DEF Owing, Clean
  <2>3. before.fleet.enrolled[Tested] # Unassigned
    BY <1>2, <1>3, <1>4, <2>2 DEF IInv, Agents, OwedAgent
  <2>4. before.fleet.enrolled[Tested] \in before.fleet.policies
    BY <2>1, <2>3
  <2>5. before.fleet.policies \subseteq Policy /\ before.fleet.policies \subseteq fleet.policies
    BY <1>1, <1>2 DEF Basic, FleetFields, IInv, Policies
  <2>6. Tested \notin Run
    BY <1>4, FieldTypes DEF Tested, StackAgent
  <2> QED
    BY <1>2, <1>3, <2>4, <2>5, <2>6 DEF IInv, Numbered, Placed
<1>5. /\ saved'.enroll = EnrollPolicy(cmd) /\ saved'.current = Own /\ saved'.run = cmd
      /\ saved'.orig = loc.orig /\ saved' \in Saved
  BY <1>1, <1>2, <1>3 DEF ScenarioState, Saved, Locals
<1>6. TypeOK'
  BY <1>1, <1>5 DEF IInv, TypeOK
<1>7. Numbered' /\ Placed'
  BY <1>1, <1>2 DEF IInv, Numbered, Placed, Enrolled, DefinedServices
<1>8. Process' /\ Registered'
  BY <1>1, <1>2 DEF IInv, Process, Registered, FromFile, Tested, Own, HasService, RunsBySteps
<1>9. Containers'
  BY <1>1, <1>2 DEF IInv, Containers, FromFile, Faultless, Undoing
<1>10. Agents'
  BY <1>1, <1>2
     DEF IInv, Agents, OtherAgents, TestedAgent, OwedAgent, FromFile, Tested, Own, Owing, Clean,
         Faultless, Restores, Undoing
<1>11. Policies'
  BY <1>1, <1>2 DEF IInv, Policies, FromFile, Own, Owing, Clean, Faultless, Restores, Undoing
<1>12. Stored'
  <2>1. \A a \in Agent : deployment # "stack" /\ fleet.enrolled[a] = Own => a = cmd
    <3> SUFFICES ASSUME NEW a \in Agent, deployment # "stack", fleet.enrolled[a] = Own, a # cmd
                 PROVE  FALSE
      OBVIOUS
    <3>1. before.fleet.enrolled[a] = Own
      BY <1>2 DEF IInv, Agents, OtherAgents, Tested
    <3>2. Own \in before.fleet.policies
      BY <1>2, <1>3, <3>1 DEF IInv, Placed
    <3> QED
      BY <1>2, <1>3, <3>2 DEF IInv, Numbered
  <2>2. /\ deployment = "stack" => /\ saved'.orig \in Policy /\ saved'.orig.cmd < cmd
                                   /\ saved'.orig \in fleet.policies
                                   /\ \A n \in Run : saved'.orig # EnrollPolicy(n)
        /\ deployment # "stack" => saved'.orig = saved'.enroll
    BY <1>2, <1>4, <1>5
  <2>3. UsableIn(fleet, docker)'
    <3>1. /\ service = "compose" => cmd \in docker.services
          /\ service = "kubernetes" => docker.definitions
          /\ deployment = "independent" => cmd \in docker.agents
      BY <1>1, <1>2 DEF IInv, Containers
    <3> QED
      BY <1>1, <1>2, <1>3, <1>5, <2>2, <3>1 DEF UsableIn, Tested
  <2>4. mode' = "setup" /\ pc' = "tearDownRunner" /\ ~failed' /\ ~FromFile' /\ Running'
    BY <1>1, <1>2 DEF FromFile
  <2>5. stateFile' = "valid" /\ installed' /\ RunsBySteps' /\ saved'.run <= cmd'
    BY <1>1, <1>2, <1>5 DEF RunsBySteps
  <2>6. Own = TestPolicy(cmd) /\ cmd' = cmd /\ fleet' = fleet /\ deployment' = deployment
    BY <1>1 DEF Own
  <2> QED
    BY <1>5, <2>1, <2>2, <2>3, <2>4, <2>5, <2>6 DEF Stored
<1> QED
  BY <1>6, <1>7, <1>8, <1>9, <1>10, <1>11, <1>12 DEF IInv

-----------------------------------------------------------------------------
(***************************************************************************)
(* The handlers.                                                           *)
(***************************************************************************)
\* What every step of the tear-down does.
LEMMA TearDownStepFacts ==
    ASSUME IInv, NEW h \in Handler, TearDownStep(h)
    PROVE  /\ UNCHANGED <<deployment, service, installed, stateFile, saved, mode, cmd, loc, failed,
                          crashes, disturbed, before>>
           /\ Basic /\ Running /\ Running' /\ cmd \in Run /\ pc = h /\ handlers' = handlers \ {h}
           /\ \/ h = "resetPolicy" /\ pc' = "shutdownService"
              \/ h = "shutdownService" /\ pc' = "resetLogLevel"
              \/ h = "resetLogLevel" /\ pc' = "removeAgent"
              \/ h = "removeAgent" /\ pc' = "shutdownAgent"
              \/ h = "shutdownAgent" /\ pc' = "deletePolicy"
              \/ h = "deletePolicy" /\ pc' = "cleanScenario"
              \/ h = "cleanScenario" /\ pc' = "removeStateFile"
           /\ UNCHANGED <<Tested, Own>> /\ Tested \in Agent /\ loc \in Locals
           /\ (~FromFile => loc.run = cmd) /\ (FromFile => loc.run = saved.run)
           /\ Process' /\ Registered'
           /\ (fleet' \in Fleet /\ docker' \in Docker /\ tdFailed' \in BOOLEAN /\ faults' \in 0..MaxFaults
               => TypeOK')
<1>1. /\ UNCHANGED <<deployment, service, installed, stateFile, saved, mode, cmd, loc, failed,
                     crashes, disturbed, before>>
      /\ Basic /\ pc = h /\ pc' = AfterHandler(h) /\ handlers' = handlers \ {h}
  BY Basics DEF IInv, TearDownStep, config, disk
<1>2. \/ h = "resetPolicy" /\ pc' = "shutdownService"
      \/ h = "shutdownService" /\ pc' = "resetLogLevel"
      \/ h = "resetLogLevel" /\ pc' = "removeAgent"
      \/ h = "removeAgent" /\ pc' = "shutdownAgent"
      \/ h = "shutdownAgent" /\ pc' = "deletePolicy"
      \/ h = "deletePolicy" /\ pc' = "cleanScenario"
      \/ h = "cleanScenario" /\ pc' = "removeStateFile"
  BY <1>1, AfterHandlers, HandlerNames
<1>3. Running /\ Running' /\ cmd \in Run /\ loc \in Locals
  BY <1>1, <1>2 DEF IInv, TypeOK, Running
<1>4. UNCHANGED <<Tested, Own>> /\ Tested \in Agent
      /\ (~FromFile => loc.run = cmd) /\ (FromFile => loc.run = saved.run)
  BY <1>1, <1>3, TestedType DEF IInv, Process, Tested, Own
<1>5. Process'
  BY <1>1, <1>2, <1>3, <1>4 DEF IInv, Process, Registered, FromFile, RunsBySteps
<1>6. Registered'
  BY <1>1, <1>2, <1>3 DEF IInv, Registered, HasService, RunsBySteps
<1>7. fleet' \in Fleet /\ docker' \in Docker /\ tdFailed' \in BOOLEAN /\ faults' \in 0..MaxFaults
         => TypeOK'
  BY <1>1, <1>2, <1>3, HandlerNames DEF IInv, TypeOK
<1> QED
  BY <1>1, <1>2, <1>3, <1>4, <1>5, <1>6, <1>7

\* A call that fails is counted.
LEMMA FaultyCounts ==
    ASSUME TypeOK, NEW b \in BOOLEAN, Faulty(b), crashes' = crashes
    PROVE  faults' \in 0..MaxFaults /\ (Faultless' => Faultless /\ ~b)
<1>1. faults \in Nat /\ crashes \in Nat /\ MaxFaults \in Nat
  BY ConstantsAssumption DEF TypeOK
<1>2. faults' = faults + (IF b THEN 1 ELSE 0) /\ faults' + crashes <= MaxFaults
  BY DEF Faulty
<1> QED
  BY <1>1, <1>2 DEF Faultless

\* What a handler that does not run owes, it does not owe in this mode.
LEMMA SkipHandlerKeeps ==
    ASSUME IInv, NEW h \in Handler, SkipHandler(h)
    PROVE  IInv'
<1>1. /\ UNCHANGED <<deployment, service, fleet, docker, installed, stateFile, saved, mode, cmd, loc,
                     failed, tdFailed, crashes, faults, disturbed, before>>
      /\ Basic /\ Running /\ Running' /\ cmd \in Run /\ pc = h /\ handlers' = handlers \ {h}
      /\ \/ h = "resetPolicy" /\ pc' = "shutdownService"
         \/ h = "shutdownService" /\ pc' = "resetLogLevel"
         \/ h = "resetLogLevel" /\ pc' = "removeAgent"
         \/ h = "removeAgent" /\ pc' = "shutdownAgent"
         \/ h = "shutdownAgent" /\ pc' = "deletePolicy"
         \/ h = "deletePolicy" /\ pc' = "cleanScenario"
         \/ h = "cleanScenario" /\ pc' = "removeStateFile"
      /\ UNCHANGED <<Tested, Own>> /\ Tested \in Agent
      /\ Process' /\ Registered'
  BY TearDownStepFacts DEF SkipHandler
<1>2. /\ "resetPolicy" \in handlers \ handlers' => KeepsPolicy
      /\ "resetLogLevel" \in handlers \ handlers' =>
             mode \in {"setup", "tests"} \/ deployment = "independent"
      /\ "removeAgent" \in handlers \ handlers' => mode = "tests" \/ deployment = "stack"
      /\ {"shutdownService", "shutdownAgent"} \cap (handlers \ handlers') # {} => mode = "tests"
      /\ {"deletePolicy", "cleanScenario"} \cap (handlers \ handlers') = {}
  BY <1>1 DEF SkipHandler, Runs, StandsDown, KeepsContainers
<1>3. TypeOK'
  <2>1. fleet \in Fleet /\ docker \in Docker /\ tdFailed \in BOOLEAN /\ faults \in 0..MaxFaults
    BY DEF IInv, TypeOK
  <2> QED
    BY <1>1, <2>1, TearDownStepFacts DEF SkipHandler
<1>4. Numbered' /\ Placed'
  BY <1>1 DEF IInv, Numbered, Placed, Enrolled, DefinedServices
<1>5. Containers'
  BY <1>1, <1>2 DEF IInv, Containers, FromFile, Faultless, Undoing
<1>6. Agents'
  <2>1. OtherAgents' /\ TestedAgent'
    BY <1>1 DEF IInv, Agents, OtherAgents, TestedAgent, FromFile
  <2>2. OwedAgent'
    BY <1>1, <1>2
       DEF IInv, Agents, OwedAgent, FromFile, Owing, Clean, Faultless, Restores, Undoing, KeepsPolicy
  <2> QED
    BY <2>1, <2>2 DEF Agents
<1>7. Policies'
  BY <1>1, <1>2 DEF IInv, Policies, FromFile, Owing, Clean, Faultless, Restores, Undoing
<1>8. Stored'
  BY <1>1 DEF IInv, Stored, Holding, FromFile, Faultless, UsableIn, RunsBySteps
<1> QED
  BY <1>1, <1>3, <1>4, <1>5, <1>6, <1>7, <1>8 DEF IInv

\* A handler that fails is counted and reported.
LEMMA HandlerFailsKeeps ==
    ASSUME IInv, NEW h \in Handler, HandlerFails(h)
    PROVE  IInv'
<1>1. /\ UNCHANGED <<deployment, service, fleet, docker, installed, stateFile, saved, mode, cmd, loc,
                     failed, crashes, disturbed, before>>
      /\ Basic /\ Running /\ Running' /\ cmd \in Run /\ pc = h /\ handlers' = handlers \ {h}
      /\ \/ h = "resetPolicy" /\ pc' = "shutdownService"
         \/ h = "shutdownService" /\ pc' = "resetLogLevel"
         \/ h = "resetLogLevel" /\ pc' = "removeAgent"
         \/ h = "removeAgent" /\ pc' = "shutdownAgent"
         \/ h = "shutdownAgent" /\ pc' = "deletePolicy"
         \/ h = "deletePolicy" /\ pc' = "cleanScenario"
         \/ h = "cleanScenario" /\ pc' = "removeStateFile"
      /\ UNCHANGED <<Tested, Own>> /\ Tested \in Agent
      /\ Process' /\ Registered'
  BY TearDownStepFacts DEF HandlerFails
<1>2. tdFailed' = TRUE /\ Faulty(TRUE)
  BY DEF HandlerFails
<1>3. faults' \in 0..MaxFaults /\ ~Faultless'
  BY <1>1, <1>2, FaultyCounts DEF IInv
<1>4. TypeOK'
  <2>1. fleet \in Fleet /\ docker \in Docker
    BY DEF IInv, TypeOK
  <2> QED
    BY <1>1, <1>2, <1>3, <2>1, TearDownStepFacts DEF HandlerFails
<1>5. Numbered' /\ Placed'
  BY <1>1 DEF IInv, Numbered, Placed, Enrolled, DefinedServices
<1>6. Containers'
  BY <1>1, <1>2, <1>3 DEF IInv, Containers, FromFile, Undoing
<1>7. Agents'
  BY <1>1, <1>2, <1>3
     DEF IInv, Agents, OtherAgents, TestedAgent, OwedAgent, FromFile, Owing, Clean, Undoing
<1>8. Policies'
  BY <1>1, <1>2, <1>3 DEF IInv, Policies, FromFile, Owing, Clean, Undoing
<1>9. Stored'
  BY <1>1, <1>2, <1>3 DEF IInv, Stored, Holding, FromFile, UsableIn, RunsBySteps
<1> QED
  BY <1>1, <1>4, <1>5, <1>6, <1>7, <1>8, <1>9 DEF IInv

\* The state file is removed last.
LEMMA RemoveServiceStateFileKeeps ==
    ASSUME IInv, RemoveServiceStateFile
    PROVE  IInv'
<1>1. /\ UNCHANGED <<deployment, service, fleet, docker, installed, saved, mode, cmd, handlers, loc,
                     failed, tdFailed, crashes, disturbed, before>>
      /\ Basic /\ pc = "removeStateFile" /\ pc' = "tearDownRunner"
  BY Basics DEF IInv, RemoveServiceStateFile, config, world
<1>2. /\ Running /\ Running' /\ handlers = {} /\ handlers' = {} /\ stateFile' \in {stateFile, "absent"}
      /\ faults \in 0..MaxFaults
  <2>1. /\ handlers \subseteq Handler /\ faults \in 0..MaxFaults
        /\ handlers \cap {"resetPolicy", "shutdownService", "resetLogLevel", "removeAgent",
                          "shutdownAgent", "deletePolicy", "cleanScenario"} = {}
    BY <1>1 DEF IInv, TypeOK, Registered
  <2>2. handlers = {}
    BY <2>1, HandlerNames
  <2> QED
    BY <1>1, <2>1, <2>2 DEF Running, RemoveServiceStateFile
<1>3. /\ faults' \in 0..MaxFaults /\ (Faultless' => Faultless)
      /\ IF mode = "setup" \/ (mode = "teardown" /\ ~tdFailed)
         THEN stateFile' = "absent" \/ ~Faultless'
         ELSE stateFile' = stateFile
  <2>1. CASE Faulty(TRUE)
    <3>1. TypeOK /\ crashes' = crashes /\ TRUE \in BOOLEAN
      BY <1>1 DEF IInv
    <3>2. faults' \in 0..MaxFaults /\ ~Faultless'
      BY <2>1, <3>1, FaultyCounts
    <3> QED
      BY <3>2 DEF RemoveServiceStateFile
  <2>2. CASE ~Faulty(TRUE)
    BY <1>2, <2>2 DEF RemoveServiceStateFile, Faultless
  <2> QED
    BY <2>1, <2>2
<1>4. TypeOK'
  BY <1>1, <1>2, <1>3 DEF IInv, TypeOK
<1>5. Numbered' /\ Placed'
  BY <1>1, <1>2 DEF IInv, Numbered, Placed, Enrolled, DefinedServices
<1>6. Process' /\ Registered'
  BY <1>1, <1>2 DEF IInv, Process, Registered, FromFile, Tested, Own, HasService, RunsBySteps
<1>7. Containers'
  BY <1>1, <1>2, <1>3 DEF IInv, Containers, FromFile, Undoing
<1>8. Agents'
  BY <1>1, <1>2, <1>3
     DEF IInv, Agents, OtherAgents, TestedAgent, OwedAgent, FromFile, Tested, Own, Owing, Clean,
         Restores, Undoing
<1>9. Policies'
  BY <1>1, <1>2, <1>3 DEF IInv, Policies, FromFile, Own, Owing, Clean, Restores, Undoing
<1>10. Stored'
  BY <1>1, <1>2, <1>3 DEF IInv, Process, Stored, Holding, FromFile, UsableIn, RunsBySteps
<1> QED
  BY <1>4, <1>5, <1>6, <1>7, <1>8, <1>9, <1>10 DEF IInv

\* The containers of the command, or of the setup, are stopped.
LEMMA ShutdownKeeps ==
    ASSUME IInv, ShutdownService \/ ShutdownAgent
    PROVE  IInv'
<1>1. PICK h \in {"shutdownService", "shutdownAgent"} :
          /\ TearDownStep(h) /\ Runs(h) /\ service # "kubernetes"
          /\ UNCHANGED <<fleet, tdFailed, faults>>
          /\ docker' = IF h = "shutdownService"
                       THEN [docker EXCEPT !.services = @ \ {loc.run}]
                       ELSE [docker EXCEPT !.agents = @ \ {loc.run}]
  BY DEF ShutdownService, ShutdownAgent
<1>2. h \in Handler /\ h \in handlers /\ mode # "tests"
  BY <1>1, HandlerNames DEF Runs, StandsDown, KeepsContainers
<1>3. /\ UNCHANGED <<deployment, service, fleet, installed, stateFile, saved, mode, cmd, loc,
                     failed, tdFailed, crashes, faults, disturbed, before>>
      /\ Basic /\ Running /\ Running' /\ cmd \in Run /\ pc = h /\ handlers' = handlers \ {h}
      /\ \/ h = "shutdownService" /\ pc' = "resetLogLevel"
         \/ h = "shutdownAgent" /\ pc' = "deletePolicy"
      /\ UNCHANGED <<Tested, Own>> /\ Tested \in Agent
      /\ (~FromFile => loc.run = cmd) /\ (FromFile => loc.run = saved.run)
      /\ Process' /\ Registered'
  BY <1>1, <1>2, TearDownStepFacts
<1>4. docker \in Docker /\ fleet \in Fleet /\ tdFailed \in BOOLEAN /\ faults \in 0..MaxFaults
  BY DEF IInv, TypeOK
<1>5. /\ docker' \in Docker /\ docker'.definitions = docker.definitions
      /\ docker'.services = IF h = "shutdownService" THEN docker.services \ {loc.run} ELSE docker.services
      /\ docker'.agents = IF h = "shutdownAgent" THEN docker.agents \ {loc.run} ELSE docker.agents
  BY <1>1, <1>4 DEF Docker
<1>6. TypeOK'
  BY <1>1, <1>2, <1>3, <1>4, <1>5, TearDownStepFacts
<1>7. Numbered' /\ Placed'
  BY <1>3, <1>5 DEF IInv, Numbered, Placed, Enrolled, DefinedServices
<1>8. Containers'
  <2>1. ~docker.definitions
    BY <1>1 DEF IInv, Placed
  <2> QED
    BY <1>2, <1>3, <1>5, <2>1 DEF IInv, Containers, FromFile, Faultless, Undoing
<1>9. Agents'
  BY <1>3
     DEF IInv, Agents, OtherAgents, TestedAgent, OwedAgent, FromFile, Owing, Clean, Faultless,
         Restores, Undoing
<1>10. Policies'
  BY <1>3 DEF IInv, Policies, FromFile, Owing, Clean, Faultless, Restores, Undoing
<1>11. Stored'
  BY <1>3 DEF IInv, Stored, Holding, FromFile, Faultless, UsableIn, RunsBySteps
<1> QED
  BY <1>3, <1>6, <1>7, <1>8, <1>9, <1>10, <1>11 DEF IInv

\* What runs in the cluster is deleted.
LEMMA DeleteEffect ==
    ASSUME IInv, DeleteDefinitions \/ DeleteAgent
    PROVE  \E h \in {"shutdownService", "shutdownAgent"}, exists \in BOOLEAN, late \in BOOLEAN :
               /\ TearDownStep(h) /\ Runs(h) /\ service = "kubernetes"
               /\ exists = IF h = "shutdownService" THEN docker.definitions ELSE loc.run \in docker.agents
               /\ tdFailed' = (tdFailed \/ late \/ ~exists) /\ Faulty(late)
               /\ fleet' = fleet
               /\ docker' = IF h = "shutdownService"
                            THEN [docker EXCEPT !.definitions = FALSE]
                            ELSE [docker EXCEPT !.agents = docker.agents \ {loc.run}]
<1>1. docker.definitions \in BOOLEAN /\ (loc.run \in docker.agents) \in BOOLEAN
  BY FieldTypes DEF IInv, TypeOK, DockerFields
<1>2. CASE DeleteDefinitions
  <2>1. PICK late \in (IF docker.definitions THEN BOOLEAN ELSE {FALSE}) :
            tdFailed' = (tdFailed \/ late \/ ~docker.definitions) /\ Faulty(late)
    BY <1>2, Zenon DEF DeleteDefinitions, Delete
  <2>2. /\ TearDownStep("shutdownService") /\ Runs("shutdownService") /\ service = "kubernetes"
        /\ fleet' = fleet /\ docker' = [docker EXCEPT !.definitions = FALSE]
    BY <1>2, Zenon DEF DeleteDefinitions, Delete
  <2>3. late \in BOOLEAN
    OBVIOUS
  <2> QED
    BY <1>1, <2>1, <2>2, <2>3, Zenon
<1>3. CASE DeleteAgent
  <2>1. PICK late \in (IF loc.run \in docker.agents THEN BOOLEAN ELSE {FALSE}) :
            tdFailed' = (tdFailed \/ late \/ ~(loc.run \in docker.agents)) /\ Faulty(late)
    BY <1>3, Zenon DEF DeleteAgent, Delete
  <2>2. /\ TearDownStep("shutdownAgent") /\ Runs("shutdownAgent") /\ service = "kubernetes"
        /\ fleet' = fleet /\ docker' = [docker EXCEPT !.agents = docker.agents \ {loc.run}]
    BY <1>3, Zenon DEF DeleteAgent, Delete
  <2>3. late \in BOOLEAN
    OBVIOUS
  <2>4. "shutdownAgent" # "shutdownService"
    OBVIOUS
  <2> QED
    BY <1>1, <2>1, <2>2, <2>3, <2>4, Zenon
<1> QED
  BY <1>2, <1>3

LEMMA DeleteKeeps ==
    ASSUME IInv, DeleteDefinitions \/ DeleteAgent
    PROVE  IInv'
<1>1. PICK h \in {"shutdownService", "shutdownAgent"}, exists \in BOOLEAN, late \in BOOLEAN :
          /\ TearDownStep(h) /\ Runs(h) /\ service = "kubernetes"
          /\ exists = IF h = "shutdownService" THEN docker.definitions ELSE loc.run \in docker.agents
          /\ tdFailed' = (tdFailed \/ late \/ ~exists) /\ Faulty(late)
          /\ fleet' = fleet
          /\ docker' = IF h = "shutdownService"
                       THEN [docker EXCEPT !.definitions = FALSE]
                       ELSE [docker EXCEPT !.agents = docker.agents \ {loc.run}]
  BY DeleteEffect
<1>2. h \in Handler /\ h \in handlers /\ mode # "tests"
  BY <1>1, HandlerNames DEF Runs, StandsDown, KeepsContainers
<1>3. /\ UNCHANGED <<deployment, service, fleet, installed, stateFile, saved, mode, cmd, loc,
                     failed, crashes, disturbed, before>>
      /\ Basic /\ Running /\ Running' /\ cmd \in Run /\ pc = h /\ handlers' = handlers \ {h}
      /\ \/ h = "shutdownService" /\ pc' = "resetLogLevel"
         \/ h = "shutdownAgent" /\ pc' = "deletePolicy"
      /\ UNCHANGED <<Tested, Own>> /\ Tested \in Agent
      /\ (~FromFile => loc.run = cmd) /\ (FromFile => loc.run = saved.run)
      /\ Process' /\ Registered'
  BY <1>1, <1>2, TearDownStepFacts
<1>4. docker \in Docker /\ fleet \in Fleet /\ tdFailed' \in BOOLEAN /\ docker.services = {}
  BY <1>1 DEF IInv, TypeOK, Placed
<1>5. faults' \in 0..MaxFaults /\ (Faultless' => Faultless /\ ~late)
  BY <1>1, <1>3, FaultyCounts DEF IInv
<1>6. /\ docker' \in Docker /\ docker'.services = docker.services
      /\ h = "shutdownService" => docker'.definitions = FALSE /\ docker'.agents = docker.agents
      /\ h = "shutdownAgent" => /\ docker'.definitions = docker.definitions
                                /\ docker'.agents = docker.agents \ {loc.run}
  BY <1>1, <1>4 DEF Docker
<1>7. (~tdFailed' => ~tdFailed) /\ (Faultless' /\ exists => (tdFailed' => tdFailed))
  BY <1>1, <1>5
<1>8. TypeOK'
  BY <1>1, <1>2, <1>3, <1>4, <1>5, <1>6, TearDownStepFacts
<1>9. Numbered' /\ Placed'
  BY <1>3, <1>6 DEF IInv, Numbered, Placed, Enrolled, DefinedServices
<1>10. Containers'
  BY <1>2, <1>3, <1>4, <1>5, <1>6, <1>7 DEF IInv, Containers, FromFile, Undoing
<1>11. Agents'
  BY <1>3, <1>5, <1>7
     DEF IInv, Agents, OtherAgents, TestedAgent, OwedAgent, FromFile, Owing, Clean, Restores, Undoing
<1>12. Policies'
  BY <1>3, <1>5, <1>7 DEF IInv, Policies, FromFile, Owing, Clean, Restores, Undoing
<1>13. ASSUME mode = "teardown", ~failed, Faultless', ~disturbed
       PROVE  exists
  <2>1. UsableIn(before.fleet, before.docker) /\ FromFile
    BY <1>3, <1>13 DEF IInv, Stored, FromFile
  <2>2. h = "shutdownService" => docker.definitions = before.docker.definitions
    BY <1>3, <1>13 DEF IInv, Containers
  <2>3. h = "shutdownAgent" => /\ docker.agents = before.docker.agents
                               /\ deployment = "independent"
    BY <1>2, <1>3, <1>13 DEF IInv, Containers, Process
  <2>4. CASE h = "shutdownService"
    BY <1>1, <2>1, <2>2, <2>4 DEF UsableIn
  <2>5. CASE h = "shutdownAgent"
    BY <1>1, <1>3, <2>1, <2>3, <2>5 DEF UsableIn
  <2> QED
    BY <2>4, <2>5
<1>14. Stored'
  BY <1>3, <1>5, <1>7, <1>13 DEF IInv, Stored, Holding, FromFile, UsableIn, RunsBySteps
<1> QED
  BY <1>3, <1>8, <1>9, <1>10, <1>11, <1>12, <1>14 DEF IInv

\* The log level of the agent is set back.
LEMMA ResetAgentLogLevelKeeps ==
    ASSUME IInv, ResetAgentLogLevel
    PROVE  IInv'
<1> DEFINE h == "resetLogLevel"
<1>1. h \in Handler /\ TearDownStep(h) /\ h \in handlers /\ "removeAgent" \in handlers
      /\ UNCHANGED <<docker, tdFailed, faults>>
  BY HandlerNames DEF ResetAgentLogLevel, Runs, IInv, Process
<1>2. /\ UNCHANGED <<deployment, service, docker, installed, stateFile, saved, mode, cmd, loc,
                     failed, tdFailed, crashes, faults, disturbed, before>>
      /\ Basic /\ Running /\ Running' /\ cmd \in Run /\ pc = h /\ handlers' = handlers \ {h}
      /\ pc' = "removeAgent"
      /\ UNCHANGED <<Tested, Own>> /\ Tested \in Agent /\ loc \in Locals
      /\ Process' /\ Registered'
  BY <1>1, TearDownStepFacts
<1>3. loc.agent = Tested /\ loc.origLevel \in {"info", "debug"} /\ fleet \in Fleet /\ docker \in Docker
      /\ tdFailed \in BOOLEAN /\ faults \in 0..MaxFaults
  BY <1>1, <1>2 DEF IInv, Process, TypeOK, Locals
<1>4. /\ fleet' \in Fleet /\ fleet'.policies = fleet.policies /\ fleet'.streams = fleet.streams
      /\ fleet'.docs = fleet.docs /\ fleet'.enrolled = fleet.enrolled
      /\ fleet'.level[Tested] = loc.origLevel
      /\ \A b \in Agent \ {Tested} : fleet'.level[b] = fleet.level[b]
  <2>1. fleet' = [fleet EXCEPT !.level[Tested] = loc.origLevel]
    BY <1>3 DEF ResetAgentLogLevel
  <2> QED
    BY <1>2, <1>3, <2>1, LevelUpdate
<1>5. TypeOK'
  BY <1>1, <1>2, <1>3, <1>4, TearDownStepFacts
<1>6. Numbered' /\ Placed'
  BY <1>2, <1>4 DEF IInv, Numbered, Placed, Enrolled, DefinedServices
<1>7. Containers'
  BY <1>2 DEF IInv, Containers, FromFile, Faultless, Undoing
<1>8. Agents'
  <2>1. OtherAgents' /\ TestedAgent'
    BY <1>2, <1>4 DEF IInv, Agents, OtherAgents, TestedAgent, FromFile
  <2>2. /\ mode = "normal" /\ deployment = "stack" => loc.origLevel = before.fleet.level[StackAgent]
        /\ mode = "teardown" => loc.origLevel = saved.origLevel
    BY <1>1 DEF IInv, Process
  <2>3. OwedAgent'
    BY <1>2, <1>4, <2>2
       DEF IInv, Agents, OwedAgent, FromFile, Owing, Clean, Faultless, Restores, Undoing, Tested
  <2> QED
    BY <2>1, <2>3 DEF Agents
<1>9. Policies'
  BY <1>2, <1>4 DEF IInv, Policies, FromFile, Owing, Clean, Faultless, Restores, Undoing
<1>10. Stored'
  BY <1>2, <1>4 DEF IInv, Stored, Holding, FromFile, Faultless, UsableIn, RunsBySteps
<1> QED
  BY <1>2, <1>5, <1>6, <1>7, <1>8, <1>9, <1>10 DEF IInv

\* The agent of the command, or of the setup, is removed from Fleet.
LEMMA RemoveAgentKeeps ==
    ASSUME IInv, RemoveAgent
    PROVE  IInv'
<1> DEFINE h == "removeAgent"
<1>1. h \in Handler /\ TearDownStep(h) /\ h \in handlers /\ mode # "tests" /\ deployment # "stack"
      /\ UNCHANGED <<docker, tdFailed, faults>>
  BY HandlerNames DEF RemoveAgent, Runs, StandsDown
<1>2. /\ UNCHANGED <<deployment, service, docker, installed, stateFile, saved, mode, cmd, loc,
                     failed, tdFailed, crashes, faults, disturbed, before>>
      /\ Basic /\ Running /\ Running' /\ cmd \in Run /\ pc = h /\ handlers' = handlers \ {h}
      /\ pc' = "shutdownAgent"
      /\ UNCHANGED <<Tested, Own>> /\ Tested \in Agent /\ loc \in Locals
      /\ (~FromFile => loc.run = cmd) /\ (FromFile => loc.run = saved.run)
      /\ Process' /\ Registered'
  BY <1>1, TearDownStepFacts
<1>3. loc.agent = Tested /\ fleet \in Fleet /\ docker \in Docker /\ "deletePolicy" \in handlers
      /\ tdFailed \in BOOLEAN /\ faults \in 0..MaxFaults
  BY <1>1, <1>2 DEF IInv, Process, TypeOK
<1>4. /\ fleet' \in Fleet /\ fleet'.policies = fleet.policies /\ fleet'.streams = fleet.streams
      /\ fleet'.docs = fleet.docs /\ fleet'.level = fleet.level
      /\ fleet'.enrolled[Tested] = Unassigned
      /\ \A b \in Agent \ {Tested} : fleet'.enrolled[b] = fleet.enrolled[b]
  <2>1. fleet' = [fleet EXCEPT !.enrolled[Tested] = Unassigned]
    BY <1>3 DEF RemoveAgent
  <2> QED
    BY <1>2, <1>3, <2>1, EnrolledUpdate
<1>5. \A b \in Agent : fleet'.enrolled[b] = IF b = Tested THEN Unassigned ELSE fleet.enrolled[b]
  BY <1>4
<1>6. /\ Tested = loc.run /\ loc.run \in Run /\ StackAgent \notin Run
      /\ StackAgent \in Agent /\ \A n \in Run : Unassigned \notin {EnrollPolicy(n), TestPolicy(n)}
  BY <1>1, <1>2, FieldTypes, PolicyNames DEF Tested, Locals, StackAgent
<1>7. TypeOK'
  BY <1>1, <1>2, <1>3, <1>4, TearDownStepFacts
<1>8. Numbered' /\ Placed'
  BY <1>1, <1>2, <1>4, <1>5, <1>6 DEF IInv, Numbered, Placed, Enrolled, DefinedServices
<1>9. Containers'
  BY <1>2 DEF IInv, Containers, FromFile, Faultless, Undoing
<1>10. Agents'
  <2>1. OtherAgents' /\ TestedAgent'
    BY <1>1, <1>2, <1>4, <1>6 DEF IInv, Agents, OtherAgents, TestedAgent, FromFile
  <2>2. Own # Unassigned
    BY <1>2, <1>6 DEF Own
  <2>3. OwedAgent'
    BY <1>1, <1>2, <1>4, <1>6, <2>2
       DEF IInv, Agents, OwedAgent, FromFile, Owing, Clean, Faultless, Restores, Undoing
  <2> QED
    BY <2>1, <2>3 DEF Agents
<1>11. Policies'
  BY <1>1, <1>2, <1>3, <1>4 DEF IInv, Policies, FromFile, Owing, Clean, Faultless, Restores, Undoing
<1>12. Stored'
  <2>1. Holding => saved.current # Unassigned
    BY <1>6 DEF IInv, Stored, Saved
  <2> QED
    BY <1>1, <1>2, <1>4, <1>5, <2>1
       DEF IInv, Stored, Holding, FromFile, Faultless, UsableIn, RunsBySteps
<1> QED
  BY <1>2, <1>7, <1>8, <1>9, <1>10, <1>11, <1>12 DEF IInv

\* The documents of the test go.
LEMMA CleanTestScenarioKeeps ==
    ASSUME IInv, CleanTestScenario
    PROVE  IInv'
<1> DEFINE h == "cleanScenario"
<1>1. h \in Handler /\ TearDownStep(h) /\ h \in handlers /\ UNCHANGED <<docker, tdFailed, faults>>
      /\ fleet' = [fleet EXCEPT !.docs = @ \ {loc.test}]
  BY HandlerNames DEF CleanTestScenario, Runs
<1>2. /\ UNCHANGED <<deployment, service, docker, installed, stateFile, saved, mode, cmd, loc,
                     failed, tdFailed, crashes, faults, disturbed, before>>
      /\ Basic /\ Running /\ Running' /\ cmd \in Run /\ pc = h /\ handlers' = handlers \ {h}
      /\ pc' = "removeStateFile"
      /\ UNCHANGED <<Tested, Own>> /\ Tested \in Agent /\ loc \in Locals
      /\ (FromFile => loc.run = saved.run)
      /\ Process' /\ Registered'
  BY <1>1, TearDownStepFacts
<1>3. fleet \in Fleet /\ docker \in Docker /\ tdFailed \in BOOLEAN /\ faults \in 0..MaxFaults
  BY DEF IInv, TypeOK
<1>4. /\ fleet' \in Fleet /\ fleet'.policies = fleet.policies /\ fleet'.streams = fleet.streams
      /\ fleet'.enrolled = fleet.enrolled /\ fleet'.level = fleet.level
      /\ fleet'.docs = fleet.docs \ {loc.test}
  BY <1>1, <1>3 DEF Fleet
<1>5. TypeOK'
  BY <1>1, <1>2, <1>3, <1>4, TearDownStepFacts
<1>6. Numbered' /\ Placed'
  BY <1>2, <1>4 DEF IInv, Numbered, Placed, Enrolled, DefinedServices
<1>7. Containers'
  BY <1>2 DEF IInv, Containers, FromFile, Faultless, Undoing
<1>8. Agents'
  BY <1>2, <1>4
     DEF IInv, Agents, OtherAgents, TestedAgent, OwedAgent, FromFile, Owing, Clean, Faultless,
         Restores, Undoing
<1>9. Policies'
  <2>1. loc.both /\ loc.test = IF mode = "teardown" THEN TestPolicy(loc.run) ELSE Own
    BY <1>1 DEF IInv, Process
  <2>2. "deletePolicy" \notin handlers /\ fleet.streams \subseteq fleet.policies
    BY <1>2 DEF IInv, Registered, Numbered
  <2>3. mode = "teardown" => saved.current = TestPolicy(loc.run)
    BY <1>2 DEF IInv, Stored, Holding, FromFile
  <2> QED
    BY <1>2, <1>4, <2>1, <2>2, <2>3
       DEF IInv, Policies, FromFile, Owing, Clean, Faultless, Restores, Undoing
<1>10. Stored'
  BY <1>2, <1>4 DEF IInv, Stored, Holding, FromFile, Faultless, UsableIn, RunsBySteps
<1> QED
  BY <1>2, <1>5, <1>6, <1>7, <1>8, <1>9, <1>10 DEF IInv

\* The agent goes back to the policy it was on, if that still exists.
LEMMA ResetAgentPolicyKeeps ==
    ASSUME IInv, ResetAgentPolicy
    PROVE  IInv'
<1> DEFINE h == "resetPolicy"
<1>1. h \in Handler /\ TearDownStep(h) /\ h \in handlers /\ docker' = docker /\ ~KeepsPolicy
      /\ "removeAgent" \in handlers
  BY HandlerNames DEF ResetAgentPolicy, Runs, StandsDown, IInv, Process
<1>2. /\ UNCHANGED <<deployment, service, docker, installed, stateFile, saved, mode, cmd, loc,
                     failed, crashes, disturbed, before>>
      /\ Basic /\ Running /\ Running' /\ cmd \in Run /\ pc = h /\ handlers' = handlers \ {h}
      /\ pc' = "shutdownService"
      /\ UNCHANGED <<Tested, Own>> /\ Tested \in Agent /\ loc \in Locals
      /\ (~FromFile => loc.run = cmd) /\ (FromFile => loc.run = saved.run)
      /\ Process' /\ Registered'
  BY <1>1, TearDownStepFacts
<1>3. /\ loc.agent = Tested /\ fleet \in Fleet /\ docker \in Docker /\ loc.run \in Run
      /\ loc.orig = IF mode = "teardown" THEN saved.orig
                    ELSE IF mode = "tests" \/ deployment = "stack"
                    THEN before.fleet.enrolled[Tested] ELSE EnrollPolicy(cmd)
      /\ tdFailed \in BOOLEAN /\ faults \in 0..MaxFaults
  BY <1>1, <1>2 DEF IInv, Process, TypeOK, Locals
<1>4. PICK late \in BOOLEAN :
        IF Enrolled(loc.agent) /\ loc.orig \in fleet.policies
        THEN /\ fleet' = [fleet EXCEPT !.enrolled[loc.agent] = loc.orig]
             /\ tdFailed' = (tdFailed \/ late) /\ Faulty(late)
        ELSE tdFailed' = TRUE /\ UNCHANGED <<fleet, faults>>
  BY DEF ResetAgentPolicy
<1> DEFINE works == Enrolled(Tested) /\ loc.orig \in fleet.policies
<1>5. /\ faults' \in 0..MaxFaults /\ (Faultless' => Faultless) /\ tdFailed' \in BOOLEAN
      /\ ~tdFailed' => ~tdFailed /\ works
      /\ works /\ Faultless' => (tdFailed' => tdFailed)
  <2>1. CASE works
    <3>1. tdFailed' = (tdFailed \/ late) /\ Faulty(late)
      BY <1>3, <1>4, <2>1
    <3>2. faults' \in 0..MaxFaults /\ (Faultless' => Faultless /\ ~late)
      BY <1>2, <3>1, FaultyCounts DEF IInv
    <3> QED
      BY <1>3, <2>1, <3>1, <3>2
  <2>2. CASE ~works
    BY <1>3, <1>4, <2>2 DEF Faultless
  <2> QED
    BY <2>1, <2>2
<1>6. /\ fleet' \in Fleet /\ fleet'.policies = fleet.policies /\ fleet'.streams = fleet.streams
      /\ fleet'.docs = fleet.docs /\ fleet'.level = fleet.level
      /\ \A b \in Agent : fleet'.enrolled[b] =
             IF b = Tested /\ works THEN loc.orig ELSE fleet.enrolled[b]
  <2>1. CASE works
    <3>1. loc.orig \in Policy
      BY <1>2, <2>1 DEF Basic, FleetFields
    <3>2. fleet' = [fleet EXCEPT !.enrolled[Tested] = loc.orig]
      BY <1>3, <1>4, <2>1
    <3> QED
      BY <1>2, <1>3, <2>1, <3>1, <3>2, EnrolledUpdate
  <2>2. CASE ~works
    BY <1>3, <1>4, <2>2
  <2> QED
    BY <2>1, <2>2
<1>7. works => loc.orig # Unassigned
  BY <1>2, PolicyNames DEF Basic, FleetFields
<1>8. \A n \in Run : loc.orig = EnrollPolicy(n) => Tested = n
  <2>1. CASE mode = "teardown"
    <3>1. CASE deployment = "stack"
      BY <1>2, <1>3, <2>1, <3>1 DEF IInv, Stored, Holding, FromFile
    <3>2. CASE deployment # "stack"
      <4>1. loc.orig = EnrollPolicy(loc.run) /\ Tested = loc.run
        BY <1>2, <1>3, <2>1, <3>2 DEF IInv, Stored, Holding, FromFile, Tested
      <4>2. \A n, m \in Run : EnrollPolicy(n) = EnrollPolicy(m) => n = m
        BY PolicyNames
      <4> QED
        BY <1>3, <4>1, <4>2
    <3> QED
      BY <3>1, <3>2
  <2>2. CASE mode = "tests" \/ deployment = "stack"
    BY <1>2, <1>3, <2>1, <2>2 DEF IInv, Placed
  <2>3. CASE mode \notin {"teardown", "tests"} /\ deployment # "stack"
    BY <1>2, <1>3, <2>3, PolicyNames DEF FromFile, Tested
  <2> QED
    BY <2>1, <2>2, <2>3
<1>9. deployment # "stack" => Tested # StackAgent
  BY <1>3, FieldTypes DEF Tested, StackAgent
<1>10. TypeOK'
  BY <1>1, <1>2, <1>3, <1>5, <1>6, TearDownStepFacts
<1>11. Numbered'
  BY <1>2, <1>6, <1>7 DEF IInv, Numbered, Enrolled
<1>12. Placed'
  <2>1. StackAgent \in Agent
    BY FieldTypes DEF StackAgent
  <2> QED
    BY <1>2, <1>6, <1>7, <1>8, <1>9, <2>1, FieldTypes
       DEF IInv, Placed, Enrolled, DefinedServices, Tested
<1>13. Containers'
  BY <1>2, <1>5 DEF IInv, Containers, FromFile, Undoing
<1>14. Agents'
  <2>1. OtherAgents'
    BY <1>2, <1>6 DEF IInv, Agents, OtherAgents
  <2>2. /\ mode = "normal" \/ mode = "setup" => ~FromFile
        /\ cmd \in Agent /\ (deployment # "stack" /\ ~FromFile => Tested = cmd)
        /\ EnrollPolicy(cmd) # Own
    BY <1>2, FieldTypes, PolicyNames DEF FromFile, Tested, Own
  <2>3. TestedAgent'
    BY <1>2, <1>3, <1>6, <2>2 DEF IInv, Agents, TestedAgent, FromFile
  <2>4. ASSUME Owing', deployment = "stack" \/ mode = "tests"
        PROVE  fleet'.enrolled[Tested] = before.fleet.enrolled[Tested]
    <3>1. Owing
      BY <1>2, <1>5, <2>4 DEF Owing, Clean, Restores
    <3>2. CASE works
      BY <1>2, <1>3, <1>6, <2>4, <3>1, <3>2 DEF Owing
    <3>3. CASE ~works
      <4>1. CASE fleet.enrolled[Tested] = before.fleet.enrolled[Tested]
        BY <1>2, <1>6, <3>3, <4>1
      <4>2. CASE /\ fleet.enrolled[Tested] = Own /\ before.fleet.enrolled[Tested] # Unassigned
        <5>1. Enrolled(Tested)
          BY <1>2, <4>2, PolicyNames DEF Enrolled, Own
        <5>2. before.fleet.enrolled[Tested] \in before.fleet.policies
          BY <1>2, <4>2 DEF IInv, Placed
        <5>3. before.fleet.policies \subseteq fleet.policies
          BY <1>2, <3>1 DEF IInv, Policies, Owing
        <5> QED
          BY <1>3, <2>4, <3>1, <3>3, <5>1, <5>2, <5>3 DEF Owing
      <4> QED
        BY <2>4, <3>1, <4>1, <4>2 DEF IInv, Agents, OwedAgent
    <3> QED
      BY <3>2, <3>3
  <2>5. OwedAgent'
    <3>1. Undoing' => Undoing /\ works /\ loc.orig = saved.orig
      BY <1>2, <1>3, <1>5 DEF Undoing
    <3>2. Owing' => Owing
      BY <1>2, <1>5 DEF Owing, Clean, Restores
    <3>3. deployment = "stack" => Tested = StackAgent
      BY DEF Tested
    <3>4. Owing' /\ deployment # "stack" /\ ~FromFile => fleet'.enrolled[cmd] # Own \/ "removeAgent" \in handlers'
      BY <1>1, <1>2
    <3>5. Undoing' => IF deployment = "stack"
                      THEN /\ fleet'.enrolled[StackAgent] = saved.orig
                           /\ fleet'.level[StackAgent] = saved.origLevel \/ "resetLogLevel" \in handlers'
                      ELSE "removeAgent" \in handlers'
      BY <1>1, <1>2, <1>6, <3>1, <3>3 DEF IInv, Agents, OwedAgent
    <3>6. Owing' /\ deployment = "stack" /\ mode = "normal" =>
              fleet'.level[StackAgent] = before.fleet.level[StackAgent] \/ "resetLogLevel" \in handlers'
      BY <1>2, <1>6, <3>2 DEF IInv, Agents, OwedAgent
    <3> QED
      BY <1>2, <2>4, <3>4, <3>5, <3>6 DEF OwedAgent, FromFile
  <2> QED
    BY <2>1, <2>3, <2>5 DEF Agents
<1>15. Policies'
  <2>1. cmd \in Agent /\ (deployment # "stack" /\ ~FromFile => Tested = cmd)
        /\ (deployment = "stack" => Tested # cmd)
    BY <1>2, FieldTypes DEF Tested, StackAgent
  <2>2. ~FromFile /\ fleet.enrolled[cmd] = EnrollPolicy(cmd) => fleet'.enrolled[cmd] = EnrollPolicy(cmd)
    BY <1>2, <1>3, <1>6, <2>1 DEF FromFile
  <2> QED
    BY <1>2, <1>5, <1>6, <2>2
       DEF IInv, Policies, FromFile, Owing, Clean, Restores, Undoing
<1>16. Stored'
  <2>1. ASSUME mode = "teardown", ~failed, Faultless', ~disturbed
        PROVE  works
    <3>1. UsableIn(before.fleet, before.docker) /\ FromFile /\ saved.current \in Policy
      BY <1>2, <2>1 DEF IInv, Stored, FromFile, Holding, Saved
    <3>2. fleet.enrolled[Tested] = before.fleet.enrolled[Tested]
      BY <1>2, <2>1, <3>1 DEF IInv, Agents, TestedAgent
    <3>3. fleet.enrolled[Tested] = saved.current
      BY <1>2, <3>1, <3>2 DEF UsableIn, Tested
    <3>4. fleet.policies = before.fleet.policies
      BY <1>2, <2>1 DEF IInv, Policies
    <3> QED
      BY <1>3, <2>1, <3>1, <3>3, <3>4, PolicyNames DEF UsableIn, Enrolled
  <2>2. ~disturbed /\ mode = "teardown" /\ ~failed /\ Faultless' => ~tdFailed'
    BY <1>2, <1>5, <2>1 DEF IInv, Stored
  <2>3. Holding /\ deployment # "stack" =>
           \A a \in Agent : fleet'.enrolled[a] = saved.current => a = saved.run
    <3>1. Holding => FromFile
      BY <1>2 DEF IInv, Stored, Holding
    <3> QED
      BY <1>2, <1>6, <3>1 DEF IInv, Stored, Tested
  <2> QED
    BY <1>2, <1>6, <2>2, <2>3
       DEF IInv, Stored, Holding, FromFile, Faultless, UsableIn, RunsBySteps
<1> QED
  BY <1>2, <1>10, <1>11, <1>12, <1>13, <1>14, <1>15, <1>16 DEF IInv

\* The policies are deleted in order, the test policy first.
LEMMA DeletionOrder ==
    ASSUME loc.both \in BOOLEAN, NEW n \in 0..Len(PoliciesToDelete), NEW gone,
           gone = {PoliciesToDelete[i] : i \in 1..n}
    PROVE  /\ gone \subseteq {loc.test, loc.enroll}
           /\ loc.both /\ mode = "tests" => gone \subseteq {loc.test}
           /\ ~loc.both => gone \subseteq {loc.enroll}
           /\ n = Len(PoliciesToDelete) =>
                  /\ loc.both => loc.test \in gone
                  /\ ~loc.both \/ mode # "tests" => loc.enroll \in gone
           /\ n # Len(PoliciesToDelete) =>
                  \/ loc.both /\ PoliciesToDelete[n + 1] = loc.test
                  \/ /\ ~loc.both \/ (mode # "tests" /\ loc.test \in gone)
                     /\ PoliciesToDelete[n + 1] = loc.enroll
<1>1. CASE ~loc.both
  <2>1. Len(PoliciesToDelete) = 1 /\ PoliciesToDelete[1] = loc.enroll
    BY <1>1 DEF PoliciesToDelete
  <2> HIDE DEF PoliciesToDelete
  <2>2. n \in {0, 1} /\ (n = 0 => gone = {}) /\ (n = 1 => gone = {loc.enroll})
    BY <2>1
  <2> QED
    BY <1>1, <2>1, <2>2
<1>2. CASE loc.both /\ mode = "tests"
  <2>1. Len(PoliciesToDelete) = 1 /\ PoliciesToDelete[1] = loc.test
    BY <1>2 DEF PoliciesToDelete
  <2>2. n \in {0, 1} /\ (n = 0 => gone = {}) /\ (n = 1 => gone = {loc.test})
    BY <2>1
  <2> QED
    BY <1>2, <2>1, <2>2
<1>3. CASE loc.both /\ mode # "tests"
  <2>1. Len(PoliciesToDelete) = 2 /\ PoliciesToDelete[1] = loc.test /\ PoliciesToDelete[2] = loc.enroll
    BY <1>3 DEF PoliciesToDelete
  <2>2. /\ n \in {0, 1, 2} /\ (n = 0 => gone = {}) /\ (n = 1 => gone = {loc.test})
        /\ n = 2 => gone = {loc.test, loc.enroll}
    BY <2>1
  <2> QED
    BY <1>3, <2>1, <2>2
<1> QED
  BY <1>1, <1>2, <1>3

\* When its policy is deleted, no agent is on the test policy of the command any more.
LEMMA NobodyOnOwn ==
    ASSUME IInv, Owing, pc = "deletePolicy"
    PROVE  \A a \in Agent : fleet.enrolled[a] # Own
<1> SUFFICES ASSUME NEW a \in Agent, fleet.enrolled[a] = Own
             PROVE  FALSE
  OBVIOUS
<1>1. /\ Running /\ cmd \in Run /\ mode # "teardown" /\ Own # Unassigned /\ Own.cmd = cmd /\ cmd \in Nat
      /\ "resetPolicy" \notin handlers /\ "removeAgent" \notin handlers
      /\ (~FromFile => loc.run = cmd) /\ (FromFile <=> mode = "tests")
  BY PolicyNames, FieldTypes DEF IInv, TypeOK, Process, Registered, Owing, Running, Own, FromFile
<1>2. before.fleet.enrolled[a] # Own
  <2>1. before.fleet.enrolled[a] = Own => Own \in before.fleet.policies
    BY <1>1 DEF IInv, Placed
  <2> QED
    BY <1>1, <2>1 DEF IInv, Numbered
<1>3. CASE a # Tested
  BY <1>1, <1>2, <1>3 DEF IInv, Agents, OtherAgents
<1>4. CASE a = Tested /\ (deployment = "stack" \/ mode = "tests")
  BY <1>1, <1>2, <1>4 DEF IInv, Agents, OwedAgent
<1>5. CASE a = Tested /\ deployment # "stack" /\ mode # "tests"
  BY <1>1, <1>5 DEF IInv, Agents, OwedAgent, Tested
<1> QED
  BY <1>3, <1>4, <1>5

\* Nor on those of the setup, in a tear-down that has had no error.
LEMMA NobodyOnSaved ==
    ASSUME IInv, Undoing, pc = "deletePolicy"
    PROVE  \A a \in Agent : fleet.enrolled[a] \notin {saved.enroll, saved.current}
<1> SUFFICES ASSUME NEW a \in Agent, fleet.enrolled[a] \in {saved.enroll, saved.current}
             PROVE  FALSE
  OBVIOUS
<1>1. /\ Holding /\ "resetPolicy" \notin handlers /\ "removeAgent" \notin handlers
  BY DEF IInv, Registered, Holding, Undoing, Running, FromFile
<1>2. /\ saved.run \in Run /\ saved.run \in Nat /\ saved.enroll = EnrollPolicy(saved.run)
      /\ saved.current = TestPolicy(saved.run) /\ saved.current.cmd = saved.run
      /\ Unassigned \notin {saved.enroll, saved.current}
  BY <1>1, PolicyNames, FieldTypes DEF IInv, Stored, Saved
<1>3. CASE deployment = "stack"
  <2>1. a = StackAgent
    BY <1>2, <1>3, FieldTypes DEF IInv, Placed, Enrolled, StackAgent
  <2>2. fleet.enrolled[a] = saved.orig
    BY <1>1, <1>3, <2>1 DEF IInv, Agents, OwedAgent
  <2> QED
    BY <1>1, <1>2, <1>3, <2>2 DEF IInv, Stored
<1>4. CASE deployment # "stack"
  <2>1. a = saved.run
    BY <1>1, <1>2, <1>4 DEF IInv, Stored, Placed
  <2> QED
    BY <1>1, <1>2, <1>4, <2>1 DEF IInv, Agents, OwedAgent
<1> QED
  BY <1>3, <1>4

\* The policies of the command, or of the setup, go, when nobody uses them.
LEMMA DeletePoliciesKeeps ==
    ASSUME IInv, DeletePolicies
    PROVE  IInv'
<1> DEFINE h == "deletePolicy"
<1>1. h \in Handler /\ TearDownStep(h) /\ h \in handlers /\ docker' = docker
  BY HandlerNames DEF DeletePolicies, Runs
<1>2. /\ UNCHANGED <<deployment, service, docker, installed, stateFile, saved, mode, cmd, loc,
                     failed, crashes, disturbed, before>>
      /\ Basic /\ Running /\ Running' /\ cmd \in Run /\ pc = h /\ handlers' = handlers \ {h}
      /\ pc' = "cleanScenario"
      /\ UNCHANGED <<Tested, Own>> /\ Tested \in Agent /\ loc \in Locals
      /\ (~FromFile => loc.run = cmd) /\ (FromFile => loc.run = saved.run)
      /\ Process' /\ Registered'
  BY <1>1, TearDownStepFacts
<1>3. /\ fleet \in Fleet /\ docker \in Docker /\ loc.run \in Run /\ loc.both \in BOOLEAN
      /\ tdFailed \in BOOLEAN /\ faults \in 0..MaxFaults
      /\ loc.enroll = EnrollPolicy(loc.run)
      /\ loc.both => loc.test = IF mode = "teardown" THEN TestPolicy(loc.run) ELSE Own
      /\ FromFile /\ ~failed => loc.both
      /\ mode = "tests" => ~failed
  BY <1>1, <1>2 DEF IInv, Process, TypeOK, Locals
<1>4. PICK n \in 0..Len(PoliciesToDelete) :
        /\ \A p \in {PoliciesToDelete[i] : i \in 1..n} : Deletable(p)
        /\ fleet' = [fleet EXCEPT !.policies = @ \ {PoliciesToDelete[i] : i \in 1..n},
                                  !.streams = @ \ {PoliciesToDelete[i] : i \in 1..n}]
        /\ tdFailed' = (tdFailed \/ ~(n = Len(PoliciesToDelete)))
        /\ Faulty(~(n = Len(PoliciesToDelete)) /\ Deletable(PoliciesToDelete[n + 1]))
  BY DEF DeletePolicies
<1> DEFINE gone == {PoliciesToDelete[i] : i \in 1..n}
           complete == n = Len(PoliciesToDelete)
           next == PoliciesToDelete[n + 1]
<1>5. /\ gone \subseteq {loc.test, loc.enroll}
      /\ loc.both /\ mode = "tests" => gone \subseteq {loc.test}
      /\ ~loc.both => gone \subseteq {loc.enroll}
      /\ complete => /\ loc.both => loc.test \in gone
                     /\ ~loc.both \/ mode # "tests" => loc.enroll \in gone
      /\ ~complete => \/ loc.both /\ next = loc.test
                      \/ /\ ~loc.both \/ (mode # "tests" /\ loc.test \in gone)
                         /\ next = loc.enroll
  BY <1>3, DeletionOrder
<1>6. /\ faults' \in 0..MaxFaults /\ (Faultless' => Faultless /\ (complete \/ ~Deletable(next)))
      /\ tdFailed' \in BOOLEAN /\ (~tdFailed' => ~tdFailed /\ complete)
      /\ complete => (tdFailed' => tdFailed)
  <2>1. (~complete /\ Deletable(next)) \in BOOLEAN
    OBVIOUS
  <2>2. Faulty(~complete /\ Deletable(next))
    BY <1>4
  <2>3. faults' \in 0..MaxFaults /\ (Faultless' => Faultless /\ ~(~complete /\ Deletable(next)))
    BY <1>2, <2>1, <2>2, FaultyCounts DEF IInv
  <2>4. tdFailed' = (tdFailed \/ ~complete)
    BY <1>4
  <2> HIDE DEF complete, next
  <2> QED
    BY <1>3, <2>3, <2>4
<1>7. /\ \A p \in gone : Deletable(p)
      /\ fleet' = [fleet EXCEPT !.policies = @ \ gone, !.streams = @ \ gone]
  BY <1>4
<1> HIDE DEF gone, complete, next
<1>8. /\ fleet' \in Fleet /\ fleet'.policies = fleet.policies \ gone
      /\ fleet'.streams = fleet.streams \ gone
      /\ fleet'.docs = fleet.docs /\ fleet'.level = fleet.level /\ fleet'.enrolled = fleet.enrolled
  BY <1>3, <1>7 DEF Fleet
<1>9. \A a \in Agent : fleet.enrolled[a] \notin gone
  BY <1>7 DEF Deletable
<1>10. TypeOK'
  BY <1>1, <1>2, <1>3, <1>6, <1>8, TearDownStepFacts
<1>11. Numbered' /\ Placed'
  BY <1>2, <1>8, <1>9 DEF IInv, Numbered, Placed, Enrolled, DefinedServices
<1>12. Containers'
  BY <1>2, <1>6 DEF IInv, Containers, FromFile, Undoing
<1>13. Agents'
  <2>1. OtherAgents' /\ TestedAgent'
    BY <1>2, <1>8 DEF IInv, Agents, OtherAgents, TestedAgent, FromFile
  <2>2. OwedAgent'
    BY <1>2, <1>6, <1>8 DEF IInv, Agents, OwedAgent, FromFile, Owing, Clean, Restores, Undoing
  <2> QED
    BY <2>1, <2>2 DEF Agents
<1>14. Policies'
  <2>1. /\ ~FromFile => gone \subseteq {EnrollPolicy(cmd), loc.test}
        /\ mode # "teardown" => gone \subseteq {EnrollPolicy(cmd), Own}
    BY <1>2, <1>3, <1>5 DEF FromFile
  <2>2. ASSUME Owing'
        PROVE  /\ Own \notin fleet'.policies
               /\ Own \in fleet'.docs \cup fleet'.streams => "cleanScenario" \in handlers'
               /\ ~FromFile /\ EnrollPolicy(cmd) \in fleet'.policies =>
                      fleet'.enrolled[cmd] = EnrollPolicy(cmd)
    <3>1. Owing
      BY <1>2, <1>6, <2>2 DEF Owing, Clean, Restores
    <3>2. complete \/ ~Deletable(next)
      BY <1>2, <1>6, <2>2 DEF Owing, Clean
    <3>3. /\ loc.both => Own \in fleet.policies /\ loc.test = Own
          /\ ~loc.both => Own \notin fleet.policies
          /\ ~FromFile => EnrollPolicy(cmd) \in fleet.policies /\ loc.enroll = EnrollPolicy(cmd)
          /\ Own \in fleet.docs \cup fleet.streams => "cleanScenario" \in handlers
      BY <1>1, <1>2, <1>3, <3>1 DEF IInv, Policies, Owing
    <3>4. loc.both => Deletable(Own)
      BY <1>2, <3>1, <3>3, NobodyOnOwn DEF Deletable
    <3>5. loc.both => loc.test \in gone
      BY <1>5, <3>2, <3>3, <3>4
    <3>6. ASSUME ~FromFile, EnrollPolicy(cmd) \notin gone
          PROVE  fleet.enrolled[cmd] = EnrollPolicy(cmd)
      <4>1. ~Deletable(EnrollPolicy(cmd))
        BY <1>5, <3>2, <3>3, <3>4, <3>6 DEF FromFile
      <4> QED
        BY <1>2, <3>3, <3>6, <4>1 DEF Deletable, IInv, Placed
    <3> QED
      BY <1>2, <1>8, <3>3, <3>5, <3>6
  <2>3. Undoing' => /\ {saved.enroll, saved.current} \cap fleet'.policies = {}
                    /\ saved.current \in fleet'.docs \cup fleet'.streams => "cleanScenario" \in handlers'
    <3>1. Undoing' => Undoing /\ complete /\ FromFile /\ Holding /\ loc.both
      BY <1>2, <1>3, <1>6 DEF Undoing, FromFile, Holding
    <3>2. Undoing' => {saved.enroll, saved.current} \subseteq gone
      BY <1>2, <1>3, <1>5, <3>1 DEF IInv, Stored, Undoing
    <3> QED
      BY <1>2, <1>8, <3>1, <3>2 DEF IInv, Policies
  <2>4. Running' /\ mode' # "teardown" =>
            /\ fleet'.policies \ {EnrollPolicy(cmd'), Own'} = before'.fleet.policies
            /\ "deletePolicy" \notin handlers'
            /\ FromFile' => EnrollPolicy(cmd') \notin fleet'.policies
    BY <1>2, <1>8, <2>1 DEF IInv, Policies, FromFile
  <2> QED
    BY <1>2, <2>2, <2>3, <2>4 DEF Policies, FromFile
<1>15. Stored'
  <2>1. ASSUME mode = "teardown", ~failed, Faultless', ~disturbed
        PROVE  complete /\ ~tdFailed
    <3>1. UsableIn(before.fleet, before.docker) /\ FromFile /\ Holding /\ Faultless /\ ~tdFailed
      BY <1>2, <1>6, <2>1 DEF IInv, Stored, FromFile, Holding
    <3>2. Undoing
      BY <1>2, <2>1, <3>1 DEF Undoing
    <3>3. {saved.enroll, saved.current} \subseteq fleet.policies
      BY <1>2, <2>1, <3>1 DEF IInv, Policies, UsableIn
    <3>4. Deletable(saved.enroll) /\ Deletable(saved.current)
      BY <1>2, <3>2, <3>3, NobodyOnSaved DEF Deletable
    <3>5. loc.both /\ loc.enroll = saved.enroll /\ loc.test = saved.current
      BY <1>2, <1>3, <2>1, <3>1 DEF IInv, Stored
    <3> QED
      BY <1>5, <1>6, <2>1, <3>1, <3>4, <3>5
  <2> QED
    BY <1>2, <1>6, <1>8, <2>1
       DEF IInv, Stored, Holding, FromFile, Faultless, UsableIn, RunsBySteps
<1> QED
  BY <1>2, <1>10, <1>11, <1>12, <1>13, <1>14, <1>15 DEF IInv

-----------------------------------------------------------------------------
(***************************************************************************)
(* The theorems.                                                           *)
(***************************************************************************)
LEMMA StutterKeeps == IInv /\ UNCHANGED vars => IInv'
<1> SUFFICES ASSUME IInv, UNCHANGED vars PROVE IInv'
  OBVIOUS
<1>1. UNCHANGED <<deployment, service, fleet, docker, installed, stateFile, saved, pc, mode, cmd,
                  handlers, loc, failed, tdFailed, crashes, faults, disturbed, before>>
  BY DEF vars
<1>2. TypeOK'
  BY <1>1 DEF IInv, TypeOK
<1>3. Numbered' /\ Placed'
  BY <1>1 DEF IInv, Numbered, Placed, Enrolled, DefinedServices, Running
<1>4. Process' /\ Registered'
  BY <1>1 DEF IInv, Process, Registered, Running, FromFile, Tested, Own, HasService, RunsBySteps
<1>5. Containers'
  BY <1>1 DEF IInv, Containers, Running, FromFile, Faultless, Undoing
<1>6. Agents'
  BY <1>1
     DEF IInv, Agents, OtherAgents, TestedAgent, OwedAgent, Running, FromFile, Tested, Own, Owing,
         Clean, Faultless, Restores, Undoing
<1>7. Policies'
  BY <1>1
     DEF IInv, Policies, Running, FromFile, Own, Owing, Clean, Faultless, Restores, Undoing
<1>8. Stored'
  BY <1>1 DEF IInv, Stored, Running, Holding, FromFile, Faultless, UsableIn, RunsBySteps
<1> QED
  BY <1>2, <1>3, <1>4, <1>5, <1>6, <1>7, <1>8 DEF IInv

LEMMA PrepareKeeps == IInv /\ Prepare => IInv'
<1> SUFFICES ASSUME IInv, Prepare PROVE IInv'
  OBVIOUS
<1>1. CASE FailPrepare
  BY <1>1, FailPrepareKeeps
<1>2. CASE CreateEnrollPolicy
  BY <1>2, CreateEnrollPolicyKeeps
<1>3. CASE CreateTestPolicy
  BY <1>3, CreateTestPolicyKeeps
<1>4. CASE SetupAgent
  BY <1>4, SetupAgentKeeps
<1>5. CASE CheckStartedAgent \/ CheckEnrolledAgent
  BY <1>5, CheckKeeps
<1>6. CASE SetupAgentFails \/ SetupServiceFails
  BY <1>6, SetUpFailsKeeps
<1>7. CASE AgentApplyFails \/ DefinitionsApplyFails
  BY <1>7, ApplyFailsKeeps
<1>8. CASE SetupService \/ OutputsMissing
  BY <1>8, SetupServiceKeeps
<1>9. CASE AddPackagePolicy
  BY <1>9, AddPackagePolicyKeeps
<1>10. CASE SetupAgentHandlers
  BY <1>10, SetupAgentHandlersKeeps
<1>11. CASE SetLogLevelFails
  BY <1>11, SetLogLevelFailsKeeps
<1>12. CASE AssignTestPolicy \/ AssignTestPolicyFailsLate
  <2>1. AssignTestPolicyFailsLate => mode # "teardown"
    BY DEF AssignTestPolicyFailsLate
  <2> QED
    BY <1>12, <2>1, AssignTestPolicyKeeps, TearDownPreparedKeeps
<1>13. CASE WaitForData \/ WriteStateFails
  BY <1>13, WaitedKeeps
<1>14. CASE WriteState
  BY <1>14, WriteStateKeeps
<1>15. CASE CreateEnrollPolicyFailsLate \/ CreateTestPolicyFailsLate \/ AddPackagePolicyFailsLate
  BY <1>15, FailsLateKeeps
<1> QED
  BY <1>1, <1>2, <1>3, <1>4, <1>5, <1>6, <1>7, <1>8, <1>9, <1>10, <1>11, <1>12, <1>13, <1>14, <1>15
     DEF Prepare

LEMMA TearDownKeeps == IInv /\ TearDown => IInv'
<1> SUFFICES ASSUME IInv, TearDown PROVE IInv'
  OBVIOUS
<1>1. CASE \E h \in Handler : SkipHandler(h) \/ HandlerFails(h)
  BY <1>1, SkipHandlerKeeps, HandlerFailsKeeps
<1>2. CASE ResetAgentPolicy
  BY <1>2, ResetAgentPolicyKeeps
<1>3. CASE ShutdownService \/ ShutdownAgent
  BY <1>3, ShutdownKeeps
<1>4. CASE ResetAgentLogLevel
  BY <1>4, ResetAgentLogLevelKeeps
<1>5. CASE RemoveAgent
  BY <1>5, RemoveAgentKeeps
<1>6. CASE DeleteDefinitions \/ DeleteAgent
  BY <1>6, DeleteKeeps
<1>7. CASE DeletePolicies
  BY <1>7, DeletePoliciesKeeps
<1>8. CASE CleanTestScenario
  BY <1>8, CleanTestScenarioKeeps
<1>9. CASE RemoveServiceStateFile
  BY <1>9, RemoveServiceStateFileKeeps
<1> QED
  BY <1>1, <1>2, <1>3, <1>4, <1>5, <1>6, <1>7, <1>8, <1>9 DEF TearDown

LEMMA NextIInv == IInv /\ [Next]_vars => IInv'
<1> SUFFICES ASSUME IInv, [Next]_vars PROVE IInv'
  OBVIOUS
<1>1. CASE \E m \in Modes : Start(m)
  BY <1>1, StartKeeps
<1>2. CASE SetupRunner
  BY <1>2, SetupRunnerKeeps
<1>3. CASE Prepare
  BY <1>3, PrepareKeeps
<1>4. CASE TearDown
  BY <1>4, TearDownKeeps
<1>5. CASE TearDownRunner \/ Crash
  BY <1>5, ExitsKeeps
<1>6. CASE \E a \in Agent : AgentSends(a)
  BY <1>6, AgentSendsKeeps
<1>7. CASE UNCHANGED vars
  BY <1>7, StutterKeeps
<1> QED
  BY <1>1, <1>2, <1>3, <1>4, <1>5, <1>6, <1>7 DEF Next

LEMMA Invariance == Spec => []IInv
<1>1. Init => IInv
  BY InitIInv
<1>2. IInv /\ [Next]_vars => IInv'
  BY NextIInv
<1> QED
  BY <1>1, <1>2, PTL DEF Spec

\* At every point where the preparation of a test can be interrupted, what it
\* has acquired has a handler that gives it back (tester.go:1635).
THEOREM WhatIsAcquiredIsGivenBack == Spec => []AcquiredHasHandler
<1>1. IInv => AcquiredHasHandler
  <2> SUFFICES ASSUME IInv, pc \in PrepareSteps, ~FromFile, Faultless
               PROVE  /\ cmd \in docker.services \/ (docker.definitions /\ ~before.docker.definitions) =>
                             "shutdownService" \in handlers
                      /\ cmd \in docker.agents => "shutdownAgent" \in handlers
                      /\ EnrollPolicy(cmd) \in fleet.policies => "deletePolicy" \in handlers
                      /\ TestPolicy(cmd) \in fleet.policies => "deletePolicy" \in handlers /\ loc.both
                      /\ \A a \in Agent : fleet.enrolled[a] = TestPolicy(cmd) =>
                             {"resetPolicy", "removeAgent"} \subseteq handlers /\ loc.agent = a
                      /\ TestPolicy(cmd) \in fleet.docs => "cleanScenario" \in handlers
    BY DEF AcquiredHasHandler
  <2>1. /\ Running /\ mode # "teardown" /\ Owing /\ cmd \in Run /\ loc.run = cmd
        /\ Own # Unassigned /\ Own.cmd = cmd /\ cmd \in Nat /\ EnrollPolicy(cmd).cmd = cmd
    BY PolicyNames, FieldTypes
       DEF IInv, TypeOK, Process, Running, FromFile, Owing, Clean, Own
  <2>2. /\ cmd \in docker.services \/ (docker.definitions /\ ~before.docker.definitions) =>
               "shutdownService" \in handlers
        /\ cmd \in docker.agents => "shutdownAgent" \in handlers
    BY <2>1 DEF IInv, Containers
  <2>3. EnrollPolicy(cmd) \in fleet.policies => "deletePolicy" \in handlers
    <3>1. CASE pc = "createEnroll"
      BY <2>1, <3>1 DEF IInv, Policies, Numbered
    <3>2. CASE pc # "createEnroll"
      BY <3>2 DEF IInv, Registered
    <3> QED
      BY <3>1, <3>2
  <2>4. /\ Own \in fleet.policies => "deletePolicy" \in handlers /\ loc.both
        /\ Own \in fleet.docs => "cleanScenario" \in handlers
    BY <2>1 DEF IInv, Policies
  <2>5. ASSUME NEW a \in Agent, fleet.enrolled[a] = Own
        PROVE  {"resetPolicy", "removeAgent"} \subseteq handlers /\ loc.agent = a
    <3>1. before.fleet.enrolled[a] # Own
      BY <2>1 DEF IInv, Placed, Numbered
    <3>2. a = Tested
      BY <2>1, <2>5, <3>1 DEF IInv, Agents, OtherAgents
    <3>3. pc \in Assigned
      BY <2>1, <2>5, <3>1, <3>2 DEF IInv, Agents, TestedAgent, Tested
    <3> QED
      BY <3>2, <3>3 DEF IInv, Process, Registered
  <2> QED
    BY <2>2, <2>3, <2>4, <2>5 DEF Own
<1> QED
  BY <1>1, Invariance, PTL

\* What the state file describes exists, and its agent can be found, as long
\* as the commands since the setup ended in good order.
THEOREM StoredSetupCanBeUsed == Spec => []StoredSetupIsUsable
<1>1. IInv => StoredSetupIsUsable
  <2> SUFFICES ASSUME IInv, stateFile = "valid", pc = "idle", ~disturbed
               PROVE  /\ installed
                      /\ {saved.enroll, saved.current} \subseteq fleet.policies
                      /\ \E a \in AgentCandidates(saved.current) : fleet.enrolled[a] = saved.current
                      /\ service = "compose" => saved.run \in docker.services
                      /\ service = "kubernetes" => docker.definitions
                      /\ deployment = "independent" => saved.run \in docker.agents
    BY DEF StoredSetupIsUsable
  <2>1. installed /\ UsableIn(fleet, docker) /\ saved \in Saved /\ deployment \in Deployment
        /\ service \in DefinedServices
    BY ConstantsAssumption DEF IInv, TypeOK, Stored, Running, Placed
  <2>2. saved.run \in Agent
    BY <2>1, FieldTypes DEF Saved
  <2>3. \E a \in AgentCandidates(saved.current) : fleet.enrolled[a] = saved.current
    <3>1. CASE deployment = "stack"
      BY <2>1, <3>1 DEF AgentCandidates, UsableIn
    <3>2. CASE deployment # "stack"
      <4>1. Alive(saved.run)
        BY <2>1, <3>2 DEF Alive, UsableIn, DefinedServices, Deployment
      <4> QED
        BY <2>1, <2>2, <3>2, <4>1 DEF AgentCandidates, UsableIn
    <3> QED
      BY <3>1, <3>2
  <2> QED
    BY <2>1, <2>3 DEF UsableIn
<1> QED
  BY <1>1, Invariance, PTL

\* Fleet is as the command found it when nothing is owed any more.
LEMMA FleetIsRestored ==
    ASSUME IInv, TesterDone("normal") \/ (TesterDone("setup") /\ failed /\ deployment # "stack"),
           Faultless
    PROVE  FleetRestored
<1>1. /\ Running /\ handlers = {} /\ ~FromFile /\ Owing /\ cmd \in Run /\ loc.run = cmd
      /\ StackAgent \notin Run
      /\ Own # Unassigned /\ EnrollPolicy(cmd) # Unassigned /\ Own # EnrollPolicy(cmd)
      /\ cmd \in Agent
  BY PolicyNames, FieldTypes
     DEF TesterDone, IInv, TypeOK, Process, Registered, Running, FromFile, Owing, Clean, Restores,
         Own, StackAgent
<1>2. ASSUME NEW a \in Agent \ {cmd}
      PROVE  fleet.enrolled[a] = before.fleet.enrolled[a] /\ fleet.level[a] = before.fleet.level[a]
  <2>1. CASE a # Tested
    BY <1>1, <2>1 DEF IInv, Agents, OtherAgents
  <2>2. CASE a = Tested
    <3>1. deployment = "stack" /\ mode = "normal"
      BY <1>1, <1>2, <2>2 DEF Tested, TesterDone
    <3> QED
      BY <1>1, <2>2, <3>1 DEF IInv, Agents, OwedAgent, Tested
  <2> QED
    BY <2>1, <2>2
<1>3. Own \notin fleet.policies /\ Own \notin fleet.docs
      /\ (EnrollPolicy(cmd) \in fleet.policies => fleet.enrolled[cmd] = EnrollPolicy(cmd))
  BY <1>1 DEF IInv, Policies
<1>4. fleet.policies \ {EnrollPolicy(cmd)} = before.fleet.policies
  BY <1>1, <1>3 DEF IInv, Policies, Owing
<1>5. ~Alive(cmd)
  <2>1. cmd \notin docker.services /\ cmd \notin docker.agents
    BY <1>1 DEF IInv, Containers
  <2> QED
    BY <1>1, <2>1 DEF Alive
<1>6. fleet.enrolled[cmd] \in {Unassigned, EnrollPolicy(cmd)}
  <2>1. CASE deployment = "stack"
    BY <1>1, <2>1 DEF IInv, Placed, Enrolled
  <2>2. CASE deployment # "stack"
    BY <1>1, <2>2 DEF IInv, Agents, TestedAgent, OwedAgent
  <2> QED
    BY <2>1, <2>2
<1> QED
  BY <1>2, <1>3, <1>4, <1>5, <1>6 DEF FleetRestored, Own

\* Two states of Docker with the same fields are the same.
LEMMA SameDocker ==
    ASSUME NEW d \in Docker, NEW e \in Docker, d.agents = e.agents, d.services = e.services,
           d.definitions = e.definitions
    PROVE  d = e
BY DEF Docker

LEMMA DockerIsRestored ==
    ASSUME IInv, TesterDone("normal") \/ (TesterDone("setup") /\ failed), Faultless
    PROVE  DockerRestored
<1>1. /\ Running /\ handlers = {} /\ ~FromFile /\ docker \in Docker /\ before.docker \in Docker
  BY DEF TesterDone, IInv, TypeOK, Registered, Running, FromFile
<1>2. /\ docker.services = before.docker.services /\ docker.agents = before.docker.agents
      /\ docker.definitions => before.docker.definitions
  BY <1>1 DEF IInv, Containers
<1>3. CASE docker.definitions = before.docker.definitions
  BY <1>1, <1>2, <1>3, SameDocker DEF DockerRestored
<1>4. CASE docker.definitions # before.docker.definitions
  <2>1. docker.definitions = FALSE
    BY <1>1, <1>2, <1>4, FieldTypes DEF DockerFields
  <2> DEFINE d == [before.docker EXCEPT !.definitions = FALSE]
  <2>2. d \in Docker /\ d.services = before.docker.services /\ d.agents = before.docker.agents
        /\ d.definitions = FALSE
    BY <1>1 DEF Docker
  <2> HIDE DEF d
  <2>3. docker = d
    BY <1>1, <1>2, <2>1, <2>2, SameDocker
  <2> QED
    BY <2>3 DEF d, DockerRestored
<1> QED
  BY <1>3, <1>4

\* A tests-only run gives back what it took from the setup.
LEMMA TestsRunIsRestored == IInv => TestsRunRestores
<1> SUFFICES ASSUME IInv, TesterDone("tests"), ~failed, Faultless
             PROVE  /\ docker = [before.docker EXCEPT !.definitions = @ \/ service = "kubernetes"]
                    /\ fleet.policies = before.fleet.policies
                    /\ fleet.enrolled = before.fleet.enrolled
                    /\ TestPolicy(cmd) \notin fleet.docs
  BY DEF TestsRunRestores
<1>1. /\ Running /\ handlers = {} /\ FromFile /\ Owing /\ docker \in Docker /\ before.docker \in Docker
      /\ fleet \in Fleet /\ before.fleet \in Fleet /\ mode = "tests" /\ pc = "tearDownRunner"
  BY DEF TesterDone, IInv, TypeOK, Registered, Running, FromFile, Owing, Clean, Restores
<1>2. docker = [before.docker EXCEPT !.definitions = @ \/ service = "kubernetes"]
  <2> DEFINE d == [before.docker EXCEPT !.definitions = @ \/ service = "kubernetes"]
  <2>1. before.docker.definitions \in BOOLEAN /\ docker.definitions \in BOOLEAN
    BY <1>1, FieldTypes DEF DockerFields
  <2>2. d \in Docker /\ d.services = before.docker.services /\ d.agents = before.docker.agents
        /\ d.definitions = (before.docker.definitions \/ service = "kubernetes")
    BY <1>1, <2>1 DEF Docker
  <2>3. /\ docker.services = before.docker.services /\ docker.agents = before.docker.agents
        /\ docker.definitions <=> before.docker.definitions \/ service = "kubernetes"
    BY <1>1 DEF IInv, Containers
  <2>4. docker.definitions = d.definitions
    <3>1. d.definitions \in BOOLEAN /\ (d.definitions <=> before.docker.definitions \/ service = "kubernetes")
      BY <2>2
    <3> HIDE DEF d
    <3> QED
      BY <2>1, <2>3, <3>1
  <2> HIDE DEF d
  <2>5. docker = d
    BY <1>1, <2>2, <2>3, <2>4, SameDocker
  <2> QED
    BY <2>5 DEF d
<1>3. fleet.policies = before.fleet.policies /\ Own \notin fleet.docs
  BY <1>1 DEF IInv, Policies
<1>4. fleet.enrolled = before.fleet.enrolled
  <2>1. \A a \in Agent : fleet.enrolled[a] = before.fleet.enrolled[a]
    BY <1>1 DEF IInv, Agents, OtherAgents, OwedAgent
  <2>2. fleet.enrolled \in [Agent -> Policy \cup {Unassigned}]
        /\ before.fleet.enrolled \in [Agent -> Policy \cup {Unassigned}]
    BY <1>1, FieldTypes DEF FleetFields
  <2> QED
    BY <2>1, <2>2
<1> QED
  BY <1>2, <1>3, <1>4 DEF Own

\* A tear-down that is over owes nothing to the setup.
LEMMA SetupIsUndone == IInv => TearDownUndoesSetup
<1>1. ASSUME IInv, TesterDone("teardown"), ~failed, stateFile = "absent"
      PROVE  /\ saved.run \notin docker.services \cup docker.agents /\ ~docker.definitions
             /\ {saved.enroll, saved.current} \cap fleet.policies = {}
             /\ saved.current \notin fleet.docs
             /\ deployment = "stack" => /\ fleet.enrolled[StackAgent] = saved.orig
                                        /\ fleet.level[StackAgent] = saved.origLevel
  <2>1. Undoing /\ handlers = {}
    BY <1>1 DEF TesterDone, IInv, Stored, Registered, Running, Undoing
  <2> QED
    BY <1>1, <2>1 DEF IInv, Containers, Policies, Agents, OwedAgent
<1>2. ASSUME IInv, TesterDone("teardown"), ~failed, Faultless, ~disturbed
      PROVE  stateFile = "absent"
  BY <1>2 DEF TesterDone, IInv, Stored
<1> QED
  BY <1>1, <1>2 DEF TearDownUndoesSetup

\* Each mode gives back what it owes, over any sequence of commands: a plain
\* run and a failed setup all, a tests-only run its own part, and a tear-down
\* what its setup kept.
THEOREM CommandsGiveBack == Spec => []CommandsRestore
<1>1. IInv => NormalRunRestores
  BY DockerIsRestored, FleetIsRestored DEF NormalRunRestores
<1>2. IInv => FailedSetupRestores
  <2> SUFFICES ASSUME IInv, TesterDone("setup"), failed, Faultless
               PROVE  /\ stateFile = "absent" /\ DockerRestored
                      /\ deployment # "stack" => FleetRestored
    BY DEF FailedSetupRestores
  <2>1. stateFile = "absent"
    BY DEF TesterDone, IInv, Stored
  <2> QED
    BY <2>1, DockerIsRestored, FleetIsRestored
<1>3. IInv => CommandsRestore
  BY <1>1, <1>2, TestsRunIsRestored, SetupIsUndone DEF CommandsRestore
<1> QED
  BY <1>3, Invariance, PTL

\* What the state file describes is left in place.
Kept ==
    /\ stateFile' = "valid" /\ saved' = saved
    /\ {saved.enroll, saved.current} \cap fleet.policies \subseteq fleet'.policies
    /\ docker.definitions => docker'.definitions
    /\ {saved.run} \cap docker.services \subseteq docker'.services
    /\ {saved.run} \cap docker.agents \subseteq docker'.agents

\* The steps of the preparation in a tests-only run.
LEMMA PrepareDismantlesNothing ==
    ASSUME IInv, stateFile = "valid", mode = "tests", Prepare
    PROVE  Kept
<1>1. /\ pc # "idle" /\ pc # "writeState" /\ FromFile /\ fleet \in Fleet /\ docker \in Docker
      /\ cmd \in Run /\ loc \in Locals
  <2>1. Running
    BY DEF IInv, Process
  <2> QED
    BY <2>1 DEF IInv, Process, Running, FromFile, TypeOK
<1>2. CASE FailPrepare
  BY <1>2 DEF FailPrepare, world, disk, Kept
<1>3. CASE CreateEnrollPolicy
  BY <1>1, <1>3 DEF CreateEnrollPolicy, PrepareStep, disk, Kept
<1>4. CASE CreateTestPolicy
  <2>1. fleet' = [fleet EXCEPT !.policies = @ \cup {TestPolicy(cmd)}] /\ docker' = docker
        /\ UNCHANGED <<stateFile, saved>>
    BY <1>4 DEF CreateTestPolicy, disk
  <2>2. Created(TestPolicy(cmd))
    BY <1>1, <2>1, PolicyUpdate, PolicyNames
  <2> QED
    BY <2>1, <2>2 DEF Created, Kept
<1>5. CASE SetupAgent
  BY <1>1, <1>5 DEF SetupAgent, disk, Kept
<1>6. CASE CheckStartedAgent \/ CheckEnrolledAgent
  BY <1>6 DEF CheckStartedAgent, CheckEnrolledAgent, CheckEnrolledAgents, disk, Kept
<1>7. CASE SetupAgentFails \/ SetupServiceFails
  BY <1>7 DEF SetupAgentFails, SetupServiceFails, SetUpFails
<1>8. CASE AgentApplyFails
  BY <1>1, <1>8 DEF AgentApplyFails
<1>9. CASE DefinitionsApplyFails
  <2>1. docker' = [docker EXCEPT !.definitions = TRUE] /\ UNCHANGED <<fleet, stateFile, saved>>
    BY <1>9 DEF DefinitionsApplyFails, ApplyFails, disk
  <2>2. docker'.definitions /\ docker'.services = docker.services /\ docker'.agents = docker.agents
    BY <1>1, <2>1 DEF Docker
  <2> QED
    BY <2>1, <2>2 DEF Kept
<1>10. CASE SetupService \/ OutputsMissing
  <2>1. SetupService
    BY <1>10 DEF OutputsMissing
  <2>2. UNCHANGED <<fleet, stateFile, saved>>
    BY <1>1, <2>1 DEF SetupService, disk
  <2>3. \/ docker' = docker
        \/ docker' = [docker EXCEPT !.definitions = @ \/ mode # "teardown"]
    BY <1>1, <2>1 DEF SetupService
  <2>4. /\ docker.definitions => docker'.definitions
        /\ docker'.services = docker.services /\ docker'.agents = docker.agents
    BY <1>1, <2>3 DEF Docker
  <2> QED
    BY <2>2, <2>4 DEF Kept
<1>11. CASE AddPackagePolicy
  <2>1. fleet' = [fleet EXCEPT !.streams = @ \cup {loc.test}] /\ docker' = docker
        /\ UNCHANGED <<stateFile, saved>>
    BY <1>11 DEF AddPackagePolicy, disk
  <2>2. fleet'.policies = fleet.policies
    BY <1>1, <2>1 DEF Fleet
  <2> QED
    BY <2>1, <2>2 DEF Kept
<1>12. CASE SetupAgentHandlers
  <2>1. fleet' = [fleet EXCEPT !.level[loc.agent] = "debug"] /\ docker' = docker
        /\ UNCHANGED <<stateFile, saved>>
    BY <1>12 DEF SetupAgentHandlers, disk
  <2>2. fleet'.policies = fleet.policies
    BY <1>1, <2>1 DEF Fleet
  <2> QED
    BY <2>1, <2>2 DEF Kept
<1>13. CASE SetLogLevelFails
  <2>1. /\ docker' = docker /\ UNCHANGED <<stateFile, saved>>
        /\ fleet' \in {fleet, [fleet EXCEPT !.level[loc.agent] = "debug"]}
    BY <1>13 DEF SetLogLevelFails, disk
  <2>2. fleet'.policies = fleet.policies
    BY <1>1, <2>1 DEF Fleet
  <2> QED
    BY <2>1, <2>2 DEF Kept
<1>14. CASE AssignTestPolicy \/ AssignTestPolicyFailsLate
  <2>1. fleet' = [fleet EXCEPT !.enrolled[loc.agent] = loc.test] /\ docker' = docker
        /\ UNCHANGED <<stateFile, saved>>
    BY <1>14 DEF AssignTestPolicy, AssignTestPolicyFailsLate, disk
  <2>2. fleet'.policies = fleet.policies
    BY <1>1, <2>1 DEF Fleet
  <2> QED
    BY <2>1, <2>2 DEF Kept
<1>15. CASE WaitForData
  BY <1>15 DEF WaitForData, disk, Kept
<1>16. ~WriteState /\ ~WriteStateFails /\ ~CreateEnrollPolicyFailsLate
  BY <1>1 DEF WriteState, PrepareStep, WriteStateFails, CreateEnrollPolicyFailsLate
<1>17. CASE CreateTestPolicyFailsLate \/ AddPackagePolicyFailsLate
  <2>1. /\ docker' = docker /\ UNCHANGED <<stateFile, saved>>
        /\ \/ fleet' = [fleet EXCEPT !.policies = @ \cup {TestPolicy(cmd)}]
           \/ fleet' = [fleet EXCEPT !.streams = @ \cup {loc.test}]
    BY <1>17 DEF CreateTestPolicyFailsLate, AddPackagePolicyFailsLate, FailsLate, disk
  <2>2. fleet.policies \subseteq fleet'.policies
    BY <1>1, <2>1 DEF Fleet
  <2> QED
    BY <2>1, <2>2 DEF Kept
<1> QED
  BY <1>2, <1>3, <1>4, <1>5, <1>6, <1>7, <1>8, <1>9, <1>10, <1>11, <1>12, <1>13, <1>14, <1>15, <1>16,
     <1>17
     DEF Prepare

\* And those of its tear-down: the containers are not its own.
LEMMA TearDownDismantlesNothing ==
    ASSUME IInv, stateFile = "valid", mode = "tests", TearDown
    PROVE  Kept
<1>1. /\ pc # "idle" /\ FromFile /\ fleet \in Fleet /\ docker \in Docker /\ cmd \in Run
      /\ loc \in Locals /\ saved.run \in Run /\ saved.run < cmd /\ saved.current = TestPolicy(saved.run)
      /\ saved.enroll = EnrollPolicy(saved.run)
  <2>1. Running /\ FromFile
    BY DEF IInv, Process, FromFile
  <2>2. saved \in Saved /\ saved.run < cmd /\ saved.current = TestPolicy(saved.run)
        /\ saved.enroll = EnrollPolicy(saved.run)
    BY <2>1 DEF IInv, Stored, Holding
  <2> QED
    BY <2>1, <2>2 DEF Running, IInv, TypeOK, Saved
<1>2. CASE \E h \in Handler : SkipHandler(h) \/ HandlerFails(h)
  BY <1>2 DEF SkipHandler, HandlerFails, TearDownStep, disk, Kept
<1>3. CASE ResetAgentPolicy
  <2>1. docker' = docker /\ UNCHANGED <<stateFile, saved>>
        /\ (fleet' = fleet \/ fleet' = [fleet EXCEPT !.enrolled[loc.agent] = loc.orig])
    BY <1>3 DEF ResetAgentPolicy, TearDownStep, disk
  <2>2. fleet'.policies = fleet.policies
    BY <1>1, <2>1 DEF Fleet
  <2> QED
    BY <2>1, <2>2 DEF Kept
<1>4. ~ShutdownService /\ ~ShutdownAgent /\ ~RemoveAgent /\ ~ResetAgentLogLevel
  BY DEF ShutdownService, ShutdownAgent, RemoveAgent, ResetAgentLogLevel, Runs, StandsDown,
         KeepsContainers
<1>5. ~DeleteDefinitions /\ ~DeleteAgent
  <2>1. ~Runs("shutdownService") /\ ~Runs("shutdownAgent")
    BY DEF Runs, StandsDown, KeepsContainers
  <2> QED
    BY <2>1, Zenon DEF DeleteDefinitions, DeleteAgent, Delete
<1>6. CASE DeletePolicies
  <2>1. PICK n \in 0..Len(PoliciesToDelete) :
            fleet' = [fleet EXCEPT !.policies = @ \ {PoliciesToDelete[i] : i \in 1..n},
                                   !.streams = @ \ {PoliciesToDelete[i] : i \in 1..n}]
    BY <1>6 DEF DeletePolicies
  <2>2. pc = "deletePolicy" /\ docker' = docker /\ UNCHANGED <<stateFile, saved>>
    BY <1>6 DEF DeletePolicies, TearDownStep, disk
  <2>3. loc.both /\ loc.test = Own
    BY <1>1, <2>2 DEF IInv, Process
  <2> DEFINE gone == {PoliciesToDelete[i] : i \in 1..n}
  <2>4. gone \subseteq {Own}
    BY <2>3, DeletionOrder
  <2>5. fleet' = [fleet EXCEPT !.policies = @ \ gone, !.streams = @ \ gone]
    BY <2>1
  <2> HIDE DEF gone
  <2>6. fleet'.policies = fleet.policies \ gone
    BY <1>1, <2>5 DEF Fleet
  <2>7. Own \notin {saved.enroll, saved.current}
    <3>1. Own.cmd = cmd /\ saved.enroll.cmd = saved.run /\ saved.current.cmd = saved.run
      BY <1>1, PolicyNames DEF Own
    <3> QED
      BY <1>1, <3>1, FieldTypes
  <2> QED
    BY <2>2, <2>4, <2>6, <2>7 DEF Kept
<1>7. CASE CleanTestScenario
  <2>1. docker' = docker /\ UNCHANGED <<stateFile, saved>>
        /\ fleet' = [fleet EXCEPT !.docs = @ \ {loc.test}]
    BY <1>7 DEF CleanTestScenario, TearDownStep, disk
  <2>2. fleet'.policies = fleet.policies
    BY <1>1, <2>1 DEF Fleet
  <2> QED
    BY <2>1, <2>2 DEF Kept
<1>8. CASE RemoveServiceStateFile
  BY <1>8 DEF RemoveServiceStateFile, world, Kept
<1> QED
  BY <1>2, <1>3, <1>4, <1>5, <1>6, <1>7, <1>8 DEF TearDown

LEMMA NothingDismantled ==
    IInv /\ [Next]_vars /\ stateFile = "valid" /\ mode # "teardown" => Kept
<1> SUFFICES ASSUME IInv, [Next]_vars, stateFile = "valid", mode # "teardown"
             PROVE  Kept
  OBVIOUS
<1>1. \/ pc = "idle"
      \/ mode = "tests"
      \/ mode = "setup" /\ pc = "tearDownRunner"
  BY DEF IInv, Stored, Running, FromFile
<1>2. CASE \E m \in Modes : Start(m)
  BY <1>2 DEF Start, world, disk, Kept
<1>3. CASE SetupRunner
  BY <1>3 DEF SetupRunner, disk, Kept
<1>4. CASE Prepare
  <2>1. pc \in PrepareSteps
    BY <1>4
       DEF Prepare, FailPrepare, Fallible, CreateEnrollPolicy, CreateTestPolicy, FailsLate,
           CreateEnrollPolicyFailsLate, CreateTestPolicyFailsLate, AddPackagePolicyFailsLate, SetupAgent,
           SetupAgentFails, CheckStartedAgent, CheckEnrolledAgent, CheckEnrolledAgents, SetupService,
           SetupServiceFails, AddPackagePolicy, AgentApplyFails, DefinitionsApplyFails,
           OutputsMissing, SetupAgentHandlers, SetLogLevelFails, AssignTestPolicy,
           AssignTestPolicyFailsLate, WaitForData, WriteState, WriteStateFails, PrepareStep
  <2> QED
    BY <1>1, <1>4, <2>1, PrepareDismantlesNothing
<1>5. CASE TearDown
  <2>1. pc \in Handler \cup {"removeStateFile"}
    <3>1. \A h \in Handler : TearDownStep(h) => pc \in Handler
      BY DEF TearDownStep
    <3>2. DeleteDefinitions \/ DeleteAgent => pc \in Handler
      BY <3>1, HandlerNames, Zenon DEF DeleteDefinitions, DeleteAgent, Delete
    <3> QED
      BY <1>5, <3>1, <3>2, HandlerNames
         DEF TearDown, SkipHandler, HandlerFails, ResetAgentPolicy, ShutdownService,
             ResetAgentLogLevel, RemoveAgent, ShutdownAgent, DeletePolicies, CleanTestScenario,
             RemoveServiceStateFile
  <2> QED
    BY <1>1, <1>5, <2>1, HandlerNames, TearDownDismantlesNothing
<1>6. CASE TearDownRunner
  BY <1>6 DEF TearDownRunner, Exits, Kept
<1>7. CASE Crash
  <2>1. pc # "writeState"
    BY <1>1, <1>7 DEF Crash, IInv, Process
  <2> QED
    BY <1>7, <2>1 DEF Crash, Exits, Kept
<1>8. CASE \E a \in Agent : AgentSends(a)
  <2>1. fleet \in Fleet
    BY DEF IInv, TypeOK
  <2>2. PICK a \in Agent : AgentSends(a)
    BY <1>8
  <2>3. fleet' = [fleet EXCEPT !.docs = @ \cup {fleet.enrolled[a]}]
        /\ UNCHANGED <<docker, stateFile, saved>>
    BY <2>2 DEF AgentSends, disk
  <2>4. fleet'.policies = fleet.policies
    BY <2>1, <2>3 DEF Fleet
  <2> QED
    BY <2>3, <2>4 DEF Kept
<1>9. CASE UNCHANGED vars
  BY <1>9 DEF vars, Kept
<1> QED
  BY <1>2, <1>3, <1>4, <1>5, <1>6, <1>7, <1>8, <1>9 DEF Next

\* While a setup is stored only a tear-down stops its containers, removes its
\* policies or drops its state file, whatever the other commands do.
THEOREM SetupsAreNotDismantled == Spec => OnlyTearDownDismantles
<1>1. IInv /\ [Next]_vars =>
        [stateFile = "valid" /\ mode # "teardown" =>
           /\ stateFile' = "valid" /\ saved' = saved
           /\ {saved.enroll, saved.current} \cap fleet.policies \subseteq fleet'.policies
           /\ docker.definitions => docker'.definitions
           /\ {saved.run} \cap docker.services \subseteq docker'.services
           /\ {saved.run} \cap docker.agents \subseteq docker'.agents]_vars
  BY NothingDismantled DEF Kept
<1> QED
  BY Invariance, <1>1, PTL DEF Spec, OnlyTearDownDismantles

-----------------------------------------------------------------------------
\* Type correctness.
THEOREM TypeCorrect == Spec => []TypeOK
BY Invariance, PTL DEF IInv
===============================================================================
