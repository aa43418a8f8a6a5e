------------------------ MODULE StackEnvironmentProofs ------------------------
(***************************************************************************)
(* Theorems about StackEnvironment, for any number of commands and kills.  *)
(***************************************************************************)
EXTENDS StackEnvironment, StackProofs

\* A step that the user's Fleet Server does not notice keeps its type.
LEMMA ServerType ==
    ASSUME TypeOK, StackTypeOK', UNCHANGED externalUp,
           pc' \in {"idle"} \cup StoreSteps \cup CallSteps \cup OutputSteps
    PROVE  TypeOK'
  BY DEF TypeOK

\* A profile and a stack that no command has touched are of the right types.
LEMMA InitType == Init => TypeOK
<1> SUFFICES ASSUME Init PROVE TypeOK
  OBVIOUS
<1>1. 0 \in 0..MaxCommands /\ 0 \in 0..MaxCrashes
  BY StackAssumption
<1>2. opts \in [output : Output, monitored : BOOLEAN]
  BY DEF Init, StackInit, Output
<1>3. fleet \in Fleet
  BY NewFleetType DEF Init
<1>4. StackTypeOK
  BY <1>1, <1>2, <1>3, NoConfigType DEF Init, StackInit, StackTypeOK
<1> QED
  BY <1>4 DEF Init, StackInit, TypeOK

\* A step of a boot keeps the types.
LEMMA UpType == TypeOK /\ Up => TypeOK'
<1> SUFFICES ASSUME TypeOK, Up PROVE TypeOK'
  OBVIOUS
<1>t. StackTypeOK
  BY DEF TypeOK
<1> USE DEF CallSteps, StoreSteps, OutputSteps
<1>1. CASE BootUp
  <2>1. config' \in Config
    BY <1>1, NoConfigType DEF BootUp
  <2>2. StackTypeOK'
    BY <1>1, <1>t, <2>1, StartUpType DEF BootUp
  <2> QED
    BY <1>1, <1>t, <2>2, StartPc, ServerType DEF BootUp
<1>2. CASE DiscoverFleetServer
  <2>1. config' \in Config
    BY <1>2, <1>t DEF DiscoverFleetServer, StackTypeOK, Config
  <2>2. ok' \in BOOLEAN /\ fault' \in BOOLEAN /\ quiet' \in BOOLEAN
    BY <1>2, <1>t, TypeParts, GoesType, Zenon DEF DiscoverFleetServer, CommandTypeOK
  <2>3. pc' \in {"store1", "addHost"}
    BY <1>2 DEF DiscoverFleetServer, Goes
  <2>4. StackTypeOK'
    BY <1>2, <1>t, <2>1, <2>2 DEF DiscoverFleetServer, StackTypeOK
  <2> QED
    BY <1>2, <2>3, <2>4, ServerType DEF DiscoverFleetServer
<1>3. CASE AddFleetServerHost
  <2>1. CommandTypeOK'
    BY <1>3, <1>t, TypeParts, CallsType, Zenon DEF AddFleetServerHost
  <2>2. fleet' \in Fleet
    BY <1>3, <1>t DEF AddFleetServerHost, StackTypeOK, Fleet
  <2>3. StackTypeOK'
    BY <1>3, <1>t, <2>1, <2>2 DEF AddFleetServerHost, StackTypeOK, CommandTypeOK
  <2> QED
    BY <1>3, <2>3, CallsPc, ServerType DEF AddFleetServerHost
<1>4. CASE CreateFleetServerPolicy
  <2>1. StackTypeOK'
    BY <1>4, <1>t, CreatePolicyType, Zenon DEF CreateFleetServerPolicy
  <2>2. pc' \in {"serviceToken", "serverPackage", "idle"}
    BY <1>4, CreatePolicyPc, Zenon DEF CreateFleetServerPolicy
  <2> QED
    BY <1>4, <2>1, <2>2, ServerType DEF CreateFleetServerPolicy
<1>5. CASE CreateFleetServerPackagePolicy
  BY <1>5, <1>t, CreatePackagePolicyType, CreatePackagePolicyPc, ServerType
    DEF CreateFleetServerPackagePolicy
<1>6. CASE CreateFleetServiceToken
  <2>1. CommandTypeOK'
    BY <1>6, <1>t, TypeParts, CallsType, Zenon DEF CreateFleetServiceToken
  <2>2. StackTypeOK'
    BY <1>6, <1>t, <2>1 DEF CreateFleetServiceToken, StackTypeOK, CommandTypeOK
  <2> QED
    BY <1>6, <2>2, CallsPc, ServerType DEF CreateFleetServiceToken
<1>7. CASE StoreFleetConfig
  <2>1. StackTypeOK'
    BY <1>7, <1>t, StoreConfigType, Zenon DEF StoreFleetConfig
  <2>2. pc' \in {"addOutput", "idle"}
    BY <1>7, StoreConfigPc, Zenon DEF StoreFleetConfig
  <2> QED
    BY <1>7, <2>1, <2>2, ServerType DEF StoreFleetConfig
<1>8. CASE AddFleetOutput
  BY <1>8, <1>t, AddOutputType, AddOutputPc, ServerType DEF AddFleetOutput
<1>9. CASE StoreOutputConfig
  <2>1. StackTypeOK'
    BY <1>9, <1>t, StoreConfigType, Zenon DEF StoreOutputConfig
  <2>2. pc' \in {"agentPolicy", "idle"}
    BY <1>9, StoreConfigPc, Zenon DEF StoreOutputConfig
  <2> QED
    BY <1>9, <2>1, <2>2, ServerType DEF StoreOutputConfig
<1>10. CASE CreateAgentPolicy
  BY <1>10, <1>t, CreatePolicyType, CreatePolicyPc, ServerType DEF CreateAgentPolicy
<1>11. CASE CreateSystemPackagePolicy
  BY <1>11, <1>t, CreatePackagePolicyType, CreatePackagePolicyPc, ServerType
    DEF CreateSystemPackagePolicy
<1>12. CASE StartLocalServices
  <2>1. StackTypeOK'
    BY <1>12, <1>t, StartServicesType, Zenon DEF StartLocalServices
  <2>2. pc' \in {"updateOutput", "store3", "idle"}
    BY <1>12, StartServicesPc, Zenon DEF StartLocalServices
  <2> QED
    BY <1>12, <2>1, <2>2, ServerType DEF StartLocalServices
<1>13. CASE UpdateLogstashFleetOutput
  BY <1>13, <1>t, UpdateOutputType, UpdateOutputPc, ServerType DEF UpdateLogstashFleetOutput
<1>14. CASE StoreFinalConfig
  <2>1. StackTypeOK'
    BY <1>14, <1>t, StoreConfigType, Zenon DEF StoreFinalConfig
  <2>2. pc' = "idle"
    BY <1>14, StoreConfigPc, Zenon DEF StoreFinalConfig
  <2> QED
    BY <1>14, <2>1, <2>2, ServerType DEF StoreFinalConfig
<1> QED
  BY <1>1, <1>2, <1>3, <1>4, <1>5, <1>6, <1>7, <1>8, <1>9, <1>10, <1>11, <1>12, <1>13, <1>14
    DEF Up

\* The calls of a tear-down that change Fleet keep the types.
LEMMA UnenrollType ==
    ASSUME StackTypeOK, NEW agent, NEW from, NEW to, Unenroll(agent, from, to)
    PROVE  StackTypeOK' /\ pc' \in {to, "idle"}
<1>1. CommandTypeOK'
  BY TypeParts, CallsType, Zenon DEF Unenroll
<1>2. fleet' \in Fleet
  BY DEF Unenroll, StackTypeOK, Fleet
<1> QED
  BY <1>1, <1>2, CallsPc DEF Unenroll, StackTypeOK, CommandTypeOK

\* Deleting a policy, or being refused to, keeps the types.
LEMMA DeletePolicyType ==
    ASSUME StackTypeOK, NEW policy \in {"agentPolicy", "serverPolicy"}, NEW agent, NEW from,
           NEW to, DeletePolicy(policy, agent, from, to)
    PROVE  StackTypeOK' /\ pc' \in {to, "idle"}
<1>1. CASE agent \in fleet.enrolled
  <2>1. CommandTypeOK'
    BY <1>1, TypeParts, RefusedType DEF DeletePolicy, CommandTypeOK
  <2> QED
    BY <1>1, <2>1 DEF DeletePolicy, StackTypeOK, CommandTypeOK, Refused, Returns
<1>2. CASE agent \notin fleet.enrolled
  <2>1. CommandTypeOK'
    BY <1>2, TypeParts, CallsType, Zenon DEF DeletePolicy
  <2>2. fleet' \in Fleet
    BY <1>2 DEF DeletePolicy, StackTypeOK, Fleet, PolicyState, Output
  <2> QED
    BY <1>2, <2>1, <2>2, CallsPc DEF DeletePolicy, StackTypeOK, CommandTypeOK
<1> QED
  BY <1>1, <1>2

\* A step of a tear-down keeps the types.
LEMMA DownType == TypeOK /\ Down => TypeOK'
<1> SUFFICES ASSUME TypeOK, Down PROVE TypeOK'
  OBVIOUS
<1>t. StackTypeOK
  BY DEF TypeOK
<1> USE DEF CallSteps, StoreSteps, OutputSteps
<1>1. CASE TearDown
  BY <1>1, <1>t, StartDownType, StartPc, ServerType DEF TearDown
<1>2. CASE ComposeTearDown \/ DestroyLocalServices
  BY <1>2, <1>t, RemoveServicesType, RemoveServicesPc, ServerType
    DEF ComposeTearDown, DestroyLocalServices
<1>3. CASE ForceUnenrollAgents \/ ForceUnenrollFleetServers
  BY <1>3, <1>t, UnenrollType, ServerType
    DEF ForceUnenrollAgents, ForceUnenrollFleetServers, Unenroll
<1>4. CASE DeleteAgentPolicy \/ DeleteFleetServerPolicy
  <2>1. externalUp' = externalUp
    BY <1>4 DEF DeleteAgentPolicy, DeleteFleetServerPolicy, DeletePolicy
  <2> QED
    BY <1>4, <1>t, <2>1, DeletePolicyType, ServerType
      DEF DeleteAgentPolicy, DeleteFleetServerPolicy
<1>5. CASE RemoveFleetOutput
  <2>1. CommandTypeOK'
    BY <1>5, <1>t, TypeParts, CallsType, SkipsType, Zenon DEF RemoveFleetOutput
  <2>2. fleet' \in Fleet
    <3> DEFINE left == [fleet EXCEPT !.outputs = @ \ {config.output},
                                     !.certified = @ /\ config.output # "logstash"]
    <3>1. left \in Fleet
      BY <1>t, Zenon DEF StackTypeOK, Fleet
    <3>2. fleet' = left \/ fleet' = fleet
      BY <1>5, Zenon DEF RemoveFleetOutput
    <3> QED
      BY <1>t, <3>1, <3>2, Zenon DEF StackTypeOK
  <2>3. StackTypeOK'
    BY <1>5, <1>t, <2>1, <2>2 DEF RemoveFleetOutput, StackTypeOK, CommandTypeOK
  <2> QED
    BY <1>5, <2>3, CallsPc, ServerType DEF RemoveFleetOutput
<1> QED
  BY <1>1, <1>2, <1>3, <1>4, <1>5 DEF Down

\* Every step keeps the types: of commands, of agents and of the Fleet Server of the user.
LEMMA NextType == TypeOK /\ [Next]_vars => TypeOK'
<1> SUFFICES ASSUME TypeOK, [Next]_vars PROVE TypeOK'
  OBVIOUS
<1>t. StackTypeOK
  BY DEF TypeOK
<1>1. CASE Up
  BY <1>1, UpType
<1>2. CASE Down
  BY <1>2, DownType
<1>3. CASE Fails
  BY <1>3, <1>t, CallFailsType, FailsPc, ServerType DEF Fails
<1>4. CASE Enrolls
  <2>1. PICK a \in Agent : AgentEnrolls(a, externalUp)
    BY <1>4 DEF Enrolls
  <2> QED
    BY <1>4, <1>t, <2>1, AgentEnrollsType, ServerType DEF Enrolls, AgentEnrolls, TypeOK
<1>5. CASE ExternalServerChanges
  BY <1>5 DEF ExternalServerChanges, TypeOK, StackTypeOK, history
<1>6. CASE Crash
  BY <1>6, <1>t, KilledType, FailsPc, ServerType DEF Crash
<1>7. CASE UNCHANGED vars
  BY <1>7 DEF vars, TypeOK, StackTypeOK
<1> QED
  BY <1>1, <1>2, <1>3, <1>4, <1>5, <1>6, <1>7 DEF Next

\* Type correctness, for every number of commands and kills.
THEOREM TypeCorrect == Spec => []TypeOK
  BY InitType, NextType, PTL DEF Spec

-----------------------------------------------------------------------------
(***************************************************************************)
(* What the calls of a tear-down, and agents, do to the fields of Fleet.   *)
(***************************************************************************)
\* A policy that no agent uses is deleted, and with it the name of its output.
LEMMA DeletePolicyFleet ==
    ASSUME fleet \in Fleet, NEW policy \in {"agentPolicy", "serverPolicy"}, NEW agent, NEW from,
           NEW to, DeletePolicy(policy, agent, from, to)
    PROVE  /\ SameFleet({"outputs", "host", "enrolled"})
           /\ policy = "agentPolicy" => /\ fleet'.serverPolicy = fleet.serverPolicy
                                        /\ fleet'.dataOutput \in {fleet.dataOutput, "none"}
           /\ policy = "serverPolicy" =>
                /\ SameFleet({"agentPolicy", "dataOutput"})
                /\ fleet'.serverPolicy \in {fleet.serverPolicy, "absent"}
           /\ agent \notin fleet.enrolled =>
                /\ fleet'[policy] = "absent"
                /\ policy = "agentPolicy" => fleet'.dataOutput = "none"
<1>1. CASE agent \in fleet.enrolled
  BY <1>1 DEF DeletePolicy, SameFleet, Fleet
<1>2. CASE agent \notin fleet.enrolled
  <2>1. fleet' = [fleet EXCEPT ![policy] = "absent",
                     !.dataOutput = IF policy = "agentPolicy" THEN "none" ELSE @]
    BY <1>2 DEF DeletePolicy
  <2>2. CASE policy = "agentPolicy"
    BY <2>1, <2>2, <1>2 DEF SameFleet, Fleet
  <2>3. CASE policy = "serverPolicy"
    BY <2>1, <2>3, <1>2 DEF SameFleet, Fleet
  <2> QED
    BY <2>2, <2>3
<1> QED
  BY <1>1, <1>2

\* Unenrolling removes the agent and changes nothing else.
LEMMA UnenrollFleet ==
    ASSUME fleet \in Fleet, NEW agent, NEW from, NEW to, Unenroll(agent, from, to)
    PROVE  /\ SameFleet({"agentPolicy", "serverPolicy", "outputs", "host", "dataOutput"})
           /\ fleet'.enrolled = fleet.enrolled \ {agent}
  BY DEF Unenroll, SameFleet, Fleet

\* removeFleetOutput removes the recorded output and changes nothing else.
LEMMA RemoveOutputFleet ==
    ASSUME fleet \in Fleet, RemoveFleetOutput
    PROVE  /\ SameFleet({"agentPolicy", "serverPolicy", "host", "enrolled", "dataOutput"})
           /\ fleet'.outputs = fleet.outputs \ {config.output}
<1>1. CASE config.output = "none"
  BY <1>1 DEF RemoveFleetOutput, SameFleet, Fleet
<1>2. CASE config.output # "none"
  BY <1>2 DEF RemoveFleetOutput, SameFleet, Fleet
<1> QED
  BY <1>1, <1>2

\* Only an agent that runs enrolls, and a Fleet Server only with a complete policy.
LEMMA EnrollsFleet ==
    ASSUME fleet \in Fleet, Enrolls
    PROVE  /\ SameFleet({"agentPolicy", "serverPolicy", "outputs", "host", "dataOutput"})
           /\ fleet'.enrolled \subseteq fleet.enrolled \cup containers
           /\ "fleet-server" \in fleet'.enrolled =>
                "fleet-server" \in fleet.enrolled \/ fleet.serverPolicy = "full"
  BY DEF Enrolls, AgentEnrolls, CanEnroll, SameFleet, Fleet

\* Where the steps that are no calls lead, or calls on the host.
LEMMA AddHostFleet ==
    ASSUME fleet \in Fleet, AddFleetServerHost
    PROVE  /\ SameFleet({"agentPolicy", "serverPolicy", "outputs", "enrolled", "dataOutput"})
           /\ fleet'.host = "local"
           /\ pc = "addHost" /\ pc' \in {"serverPolicy", "idle"}
<1>1. pc = "addHost" /\ pc' \in {"serverPolicy", "idle"}
  BY CallsPc DEF AddFleetServerHost
<1> QED
  BY <1>1 DEF AddFleetServerHost, SameFleet, Fleet

\* storeConfig leads on or ends the boot.
LEMMA StoresPc ==
    /\ StoreFleetConfig => pc = "store1" /\ pc' \in {"addOutput", "idle"}
    /\ StoreOutputConfig => pc = "store2" /\ pc' \in {"agentPolicy", "idle"}
    /\ StoreFinalConfig => pc = "store3" /\ pc' = "idle"
  BY StoreConfigPc, Zenon DEF StoreFleetConfig, StoreOutputConfig, StoreFinalConfig

\* startLocalServices leads on or ends the boot.
LEMMA StartLocalServicesPc ==
    StartLocalServices => pc = "startServices" /\ pc' \in {"updateOutput", "store3", "idle"}
  BY StartServicesPc, Zenon DEF StartLocalServices

\* A policy in use ends the tear-down.
LEMMA DeletePolicyPc ==
    ASSUME NEW policy, NEW agent, NEW from, NEW to, DeletePolicy(policy, agent, from, to)
    PROVE  /\ pc = from /\ pc' \in {to, "idle"}
           /\ agent \in fleet.enrolled => pc' = "idle"
  BY CallsPc DEF DeletePolicy, Refused, Returns

-----------------------------------------------------------------------------
(***************************************************************************)
(* The agent policy names an output that exists.                           *)
(***************************************************************************)
\* While the policy is being created, the output it is given is there; once it is
\* deleted it names none, and only then an output goes.
OutputKept ==
    /\ PolicyOutputExists
    /\ pc \in {"store2", "agentPolicy"} => config.output \in fleet.outputs \cup {"none"}
    /\ pc \in {"unenrollServers", "deleteServerPolicy", "removeOutput"} =>
         fleet.dataOutput = "none"

\* A step of a boot: it names an output after it added it, or one it never removes.
LEMMA OutputKeptUp == TypeOK /\ OutputKept /\ Up => OutputKept'
<1> SUFFICES ASSUME fleet \in Fleet, OutputKept, Up PROVE OutputKept'
  BY DEF TypeOK, StackTypeOK
<1> USE DEF OutputKept, PolicyOutputExists, SameFleet
<1>1. CASE BootUp
  BY <1>1 DEF BootUp, StartUp, StartCommand
<1>2. CASE DiscoverFleetServer
  BY <1>2 DEF DiscoverFleetServer, Goes
<1>3. CASE AddFleetServerHost
  BY <1>3, AddHostFleet
<1>4. CASE CreateFleetServerPolicy
  <2>1. SameFleet({"outputs", "dataOutput"})
    BY <1>4, CreatePolicyFleet, Zenon DEF CreateFleetServerPolicy
  <2>2. pc' \in {"serviceToken", "serverPackage", "idle"}
    BY <1>4, CreatePolicyPc, Zenon DEF CreateFleetServerPolicy
  <2> QED
    BY <2>1, <2>2
<1>5. CASE CreateFleetServerPackagePolicy
  BY <1>5, CreatePackagePolicyPc, CreatePackagePolicyFleet DEF CreateFleetServerPackagePolicy
<1>6. CASE CreateFleetServiceToken
  BY <1>6, CallsPc DEF CreateFleetServiceToken
<1>7. CASE StoreFleetConfig \/ StoreOutputConfig \/ StoreFinalConfig
  <2>1. fleet' = fleet /\ config' = config
    BY <1>7 DEF StoreFleetConfig, StoreOutputConfig, StoreFinalConfig, StoreConfig
  <2> QED
    BY <1>7, <2>1, StoresPc
<1>8. CASE AddFleetOutput
  <2>1. pc' \in {"store2", "idle"} /\ config'.output = opts.output
    BY <1>8, AddOutputPc DEF AddFleetOutput, AddOutput
  <2> QED
    BY <1>8, <2>1, AddOutputFleet DEF AddFleetOutput
<1>9. CASE CreateAgentPolicy
  <2>1. pc = "agentPolicy" /\ pc' \in {"startServices", "agentPackage", "idle"}
    BY <1>9, CreatePolicyPc DEF CreateAgentPolicy
  <2> QED
    BY <1>9, <2>1, CreatePolicyFleet DEF CreateAgentPolicy
<1>10. CASE CreateSystemPackagePolicy
  BY <1>10, CreatePackagePolicyPc, CreatePackagePolicyFleet DEF CreateSystemPackagePolicy
<1>11. CASE StartLocalServices
  <2>1. SameFleet({"outputs", "dataOutput"})
    BY <1>11, StartServicesFleet, Zenon DEF StartLocalServices
  <2> QED
    BY <1>11, <2>1, StartLocalServicesPc
<1>12. CASE UpdateLogstashFleetOutput
  BY <1>12, UpdateOutputPc, UpdateOutputFleet DEF UpdateLogstashFleetOutput
<1> QED
  BY <1>1, <1>2, <1>3, <1>4, <1>5, <1>6, <1>7, <1>8, <1>9, <1>10, <1>11, <1>12 DEF Up

\* A step of a tear-down: no policy names the output when it goes.
LEMMA OutputKeptDown == TypeOK /\ OutputKept /\ Down => OutputKept'
<1> SUFFICES ASSUME fleet \in Fleet, OutputKept, Down PROVE OutputKept'
  BY DEF TypeOK, StackTypeOK
<1> USE DEF OutputKept, PolicyOutputExists, SameFleet
<1>1. CASE TearDown
  BY <1>1 DEF TearDown, StartDown, StartCommand
<1>2. CASE ComposeTearDown \/ DestroyLocalServices
  BY <1>2, RemoveServicesPc DEF ComposeTearDown, DestroyLocalServices, RemoveServices
<1>3. CASE ForceUnenrollAgents
  BY <1>3, CallsPc, UnenrollFleet DEF ForceUnenrollAgents, Unenroll
<1>4. CASE DeleteAgentPolicy
  <2>1. pc' = "idle" \/ fleet'.dataOutput = "none"
    BY <1>4, DeletePolicyFleet, DeletePolicyPc DEF DeleteAgentPolicy
  <2>2. pc' \in {"unenrollServers", "removeOutput", "idle"}
    BY <1>4, DeletePolicyPc DEF DeleteAgentPolicy
  <2>3. fleet'.outputs = fleet.outputs /\ fleet'.dataOutput \in {fleet.dataOutput, "none"}
    BY <1>4, DeletePolicyFleet DEF DeleteAgentPolicy
  <2> QED
    BY <2>1, <2>2, <2>3
<1>5. CASE ForceUnenrollFleetServers
  BY <1>5, CallsPc, UnenrollFleet DEF ForceUnenrollFleetServers, Unenroll
<1>6. CASE DeleteFleetServerPolicy
  BY <1>6, DeletePolicyPc, DeletePolicyFleet DEF DeleteFleetServerPolicy
<1>7. CASE RemoveFleetOutput
  <2>1. pc = "removeOutput" /\ pc' = "idle"
    BY <1>7, CallsPc DEF RemoveFleetOutput
  <2> QED
    BY <1>7, <2>1, RemoveOutputFleet
<1> QED
  BY <1>1, <1>2, <1>3, <1>4, <1>5, <1>6, <1>7 DEF Down

\* Every step: agents and the Fleet Server of the user touch no output.
LEMMA OutputKeptNext == TypeOK /\ OutputKept /\ [Next]_vars => OutputKept'
<1> SUFFICES ASSUME TypeOK, OutputKept, [Next]_vars PROVE OutputKept'
  OBVIOUS
<1> USE DEF OutputKept, PolicyOutputExists, SameFleet
<1>1. CASE Up \/ Down
  BY <1>1, OutputKeptUp, OutputKeptDown
<1>2. CASE Fails \/ Crash
  BY <1>2, FailsPc DEF Fails, Crash, CallFails, KilledAt
<1>3. CASE Enrolls
  <2>1. pc' = pc /\ config' = config
    BY <1>3 DEF Enrolls, AgentEnrolls
  <2> QED
    BY <1>3, <2>1, EnrollsFleet DEF TypeOK, StackTypeOK
<1>4. CASE ExternalServerChanges
  BY <1>4 DEF ExternalServerChanges
<1>5. CASE UNCHANGED vars
  BY <1>5 DEF vars
<1> QED
  BY <1>1, <1>2, <1>3, <1>4, <1>5 DEF Next

\* A policy that a boot keeps from another one names an output that exists, although
\* a tear-down removes the one it finds recorded (TearDown of environment.go).
THEOREM OutputOutlivesPolicy == Spec => []PolicyOutputExists
<1>1. Init => OutputKept
  BY DEF Init, StackInit, NewFleet, OutputKept, PolicyOutputExists
<1>2. TypeOK /\ OutputKept /\ [Next]_vars => OutputKept'
  BY OutputKeptNext
<1>3. OutputKept => PolicyOutputExists
  BY DEF OutputKept
<1> QED
  BY <1>1, <1>2, <1>3, TypeCorrect, PTL DEF Spec

-----------------------------------------------------------------------------
(***************************************************************************)
(* A tear-down knows of the local Fleet Server.                            *)
(***************************************************************************)
AfterDiscover ==
    {"addHost", "serverPolicy", "serverPackage", "serviceToken", "store1", "addOutput", "store2",
     "agentPolicy", "agentPackage", "startServices", "updateOutput", "store3"}
UpSteps == {"discover"} \cup AfterDiscover
DownSteps ==
    {"composeDown", "removeServices", "unenrollAgents", "deleteAgentPolicy", "unenrollServers",
     "deleteServerPolicy", "removeOutput"}

\* A Fleet Server of the stack has a policy only where it became the default one,
\* and then the boot, and what it records, says so.
Served ==
    /\ fleet.serverPolicy # "absent" \/ "fleet-server" \in fleet.enrolled => fleet.host = "local"
    /\ pc \in {"serverPolicy", "serverPackage"} => fleet.host = "local"
    /\ pc \in AfterDiscover /\ (pc = "addHost" \/ fleet.host = "local") => config.managed
    /\ pc \in {"discover", "addHost"} => ~recorded
    /\ recorded /\ stored.file = "valid" /\ fleet.host = "local" => stored.managed

\* A step of a boot: the host is made the default by a boot that manages a Fleet Server.
LEMMA ServedUp == TypeOK /\ Served /\ Up => Served'
<1> SUFFICES ASSUME fleet \in Fleet, config \in Config, Served, Up PROVE Served'
  BY DEF TypeOK, StackTypeOK
<1> USE DEF Served, SameFleet, AfterDiscover
<1>1. CASE BootUp
  BY <1>1 DEF BootUp, StartUp, StartCommand
<1>2. CASE DiscoverFleetServer
  <2>1. pc' \in {"store1", "addHost"} /\ fleet' = fleet /\ stored' = stored
        /\ recorded' = recorded /\ pc = "discover"
    BY <1>2 DEF DiscoverFleetServer, Goes
  <2>2. config'.managed \/ (pc' = "store1" /\ fleet.host = "external")
    BY <1>2 DEF DiscoverFleetServer, Goes, Config
  <2> QED
    BY <2>1, <2>2
<1>3. CASE AddFleetServerHost
  <2>1. config' = config /\ stored' = stored /\ recorded' = recorded
    BY <1>3 DEF AddFleetServerHost
  <2> QED
    BY <1>3, <2>1, AddHostFleet
<1>4. CASE CreateFleetServerPolicy
  <2>1. SameFleet({"host", "enrolled"})
    BY <1>4, CreatePolicyFleet, Zenon DEF CreateFleetServerPolicy
  <2>2. pc = "serverPolicy" /\ pc' \in {"serviceToken", "serverPackage", "idle"}
    BY <1>4, CreatePolicyPc, Zenon DEF CreateFleetServerPolicy
  <2> QED
    BY <1>4, <2>1, <2>2 DEF CreateFleetServerPolicy, CreatePolicy
<1>5. CASE CreateFleetServerPackagePolicy
  <2>1. /\ SameFleet({"host", "enrolled"})
        /\ pc = "serverPackage" /\ pc' \in {"serviceToken", "idle"}
    BY <1>5, CreatePackagePolicyPc, CreatePackagePolicyFleet DEF CreateFleetServerPackagePolicy
  <2> QED
    BY <1>5, <2>1 DEF CreateFleetServerPackagePolicy, CreatePackagePolicy
<1>6. CASE CreateFleetServiceToken
  BY <1>6, CallsPc DEF CreateFleetServiceToken
<1>7. CASE StoreFleetConfig \/ StoreOutputConfig \/ StoreFinalConfig
  <2>1. fleet' = fleet /\ config' = config
    BY <1>7 DEF StoreFleetConfig, StoreOutputConfig, StoreFinalConfig, StoreConfig
  <2>2. \/ stored' = stored /\ recorded' = recorded
        \/ stored'.file = "corrupt" \/ stored'.managed = config.managed
    BY <1>7
      DEF StoreFleetConfig, StoreOutputConfig, StoreFinalConfig, StoreConfig, NoConfig, Config
  <2> QED
    BY <1>7, <2>1, <2>2, StoresPc
<1>8. CASE AddFleetOutput
  <2>1. config'.managed = config.managed /\ stored' = stored /\ recorded' = recorded
    BY <1>8 DEF AddFleetOutput, AddOutput, Config
  <2>2. SameFleet({"serverPolicy", "host", "enrolled"})
    BY <1>8, AddOutputFleet DEF AddFleetOutput
  <2> QED
    BY <1>8, <2>1, <2>2, AddOutputPc DEF AddFleetOutput
<1>9. CASE CreateAgentPolicy
  <2>1. pc = "agentPolicy" /\ pc' \in {"startServices", "agentPackage", "idle"}
    BY <1>9, CreatePolicyPc DEF CreateAgentPolicy
  <2>2. SameFleet({"serverPolicy", "host", "enrolled"})
    BY <1>9, CreatePolicyFleet DEF CreateAgentPolicy
  <2> QED
    BY <1>9, <2>1, <2>2 DEF CreateAgentPolicy, CreatePolicy
<1>10. CASE CreateSystemPackagePolicy
  <2>1. SameFleet({"serverPolicy", "host", "enrolled"})
    BY <1>10, CreatePackagePolicyFleet DEF CreateSystemPackagePolicy
  <2>2. pc = "agentPackage" /\ pc' \in {"startServices", "idle"}
    BY <1>10, CreatePackagePolicyPc DEF CreateSystemPackagePolicy
  <2> QED
    BY <1>10, <2>1, <2>2 DEF CreateSystemPackagePolicy, CreatePackagePolicy
<1>11. CASE StartLocalServices
  <2>1. SameFleet({"serverPolicy", "host"})
        /\ ("fleet-server" \in fleet'.enrolled =>
              "fleet-server" \in fleet.enrolled \/ fleet.serverPolicy = "full")
    BY <1>11, StartServicesFleet, Zenon DEF StartLocalServices
  <2>2. config' = config /\ stored' = stored /\ recorded' = recorded
    BY <1>11 DEF StartLocalServices, StartServices
  <2> QED
    BY <1>11, <2>1, <2>2, StartLocalServicesPc
<1>12. CASE UpdateLogstashFleetOutput
  <2>1. SameFleet({"serverPolicy", "host", "enrolled"})
    BY <1>12, UpdateOutputFleet DEF UpdateLogstashFleetOutput
  <2> QED
    BY <1>12, <2>1, UpdateOutputPc DEF UpdateLogstashFleetOutput, UpdateOutput
<1> QED
  BY <1>1, <1>2, <1>3, <1>4, <1>5, <1>6, <1>7, <1>8, <1>9, <1>10, <1>11, <1>12 DEF Up

\* What a step of a tear-down leaves alone, and where it leads.
LEMMA DownSame ==
    Down => /\ stored' = stored /\ recorded' = recorded
            /\ pc' \in DownSteps \cup {"idle"}
            /\ ~TearDown => config' = config /\ command' = command
<1> USE DEF DownSteps
<1> SUFFICES ASSUME Down
             PROVE  /\ stored' = stored /\ recorded' = recorded
                    /\ pc' \in DownSteps \cup {"idle"}
                    /\ ~TearDown => config' = config /\ command' = command
  OBVIOUS
<1>1. CASE TearDown
  BY <1>1 DEF TearDown, StartDown, StartCommand
<1>2. CASE ComposeTearDown \/ DestroyLocalServices
  BY <1>2, RemoveServicesPc DEF ComposeTearDown, DestroyLocalServices, RemoveServices, Calls
<1>3. CASE ForceUnenrollAgents \/ ForceUnenrollFleetServers
  BY <1>3, CallsPc DEF ForceUnenrollAgents, ForceUnenrollFleetServers, Unenroll, Calls
<1>4. CASE DeleteAgentPolicy \/ DeleteFleetServerPolicy
  BY <1>4, DeletePolicyPc DEF DeleteAgentPolicy, DeleteFleetServerPolicy, DeletePolicy, Calls
<1>5. CASE RemoveFleetOutput
  BY <1>5, CallsPc DEF RemoveFleetOutput, Calls, Skips
<1> QED
  BY <1>1, <1>2, <1>3, <1>4, <1>5 DEF Down

\* A tear-down adds neither agents nor a Fleet Server policy.
LEMMA DownFleet ==
    fleet \in Fleet /\ Down => /\ fleet'.host = fleet.host
                               /\ fleet'.serverPolicy \in {fleet.serverPolicy, "absent"}
                               /\ fleet'.enrolled \subseteq fleet.enrolled
<1> USE DEF SameFleet
<1> SUFFICES ASSUME fleet \in Fleet, Down
             PROVE  /\ fleet'.host = fleet.host
                    /\ fleet'.serverPolicy \in {fleet.serverPolicy, "absent"}
                    /\ fleet'.enrolled \subseteq fleet.enrolled
  OBVIOUS
<1>1. CASE TearDown \/ ComposeTearDown \/ DestroyLocalServices
  BY <1>1 DEF TearDown, StartDown, StartCommand, ComposeTearDown, DestroyLocalServices,
       RemoveServices
<1>2. CASE ForceUnenrollAgents \/ ForceUnenrollFleetServers
  BY <1>2, UnenrollFleet DEF ForceUnenrollAgents, ForceUnenrollFleetServers
<1>3. CASE DeleteAgentPolicy \/ DeleteFleetServerPolicy
  BY <1>3, DeletePolicyFleet DEF DeleteAgentPolicy, DeleteFleetServerPolicy
<1>4. CASE RemoveFleetOutput
  BY <1>4, RemoveOutputFleet
<1> QED
  BY <1>1, <1>2, <1>3, <1>4 DEF Down

\* Every step keeps the record of the local Fleet Server.
LEMMA ServedNext == TypeOK /\ Served /\ [Next]_vars => Served'
<1> SUFFICES ASSUME TypeOK, Served, [Next]_vars PROVE Served'
  OBVIOUS
<1>t. fleet \in Fleet
  BY DEF TypeOK, StackTypeOK
<1>1. CASE Up
  BY <1>1, ServedUp
<1> USE DEF Served, SameFleet, AfterDiscover
<1>2. CASE Down
  BY <1>2, <1>t, DownSame, DownFleet DEF DownSteps
<1>3. CASE Fails
  BY <1>3, FailsPc DEF Fails, CallFails
<1>4. CASE Crash
  <2>1. stored' = stored \/ stored'.file = "corrupt"
    BY <1>4 DEF Crash, KilledAt, NoConfig
  <2> QED
    BY <1>4, <2>1, FailsPc DEF Crash, KilledAt
<1>5. CASE Enrolls
  <2>1. UNCHANGED <<pc, config, stored, recorded>>
    BY <1>5 DEF Enrolls, AgentEnrolls, history
  <2> QED
    BY <1>5, <1>t, <2>1, EnrollsFleet
<1>6. CASE ExternalServerChanges
  BY <1>6 DEF ExternalServerChanges, history
<1>7. CASE UNCHANGED vars
  BY <1>7 DEF vars
<1> QED
  BY <1>1, <1>2, <1>3, <1>4, <1>5, <1>6, <1>7 DEF Next

-----------------------------------------------------------------------------
(***************************************************************************)
(* A tear-down that succeeds leaves nothing.                               *)
(***************************************************************************)
\* Each step belongs to one kind of command; a tear-down works on what is recorded,
\* and what it has removed does not come back.
Phases ==
    /\ pc \in UpSteps => command = "up"
    /\ pc \in DownSteps => command = "down" /\ config = stored
    /\ pc = "composeDown" => stored.file = "absent"
    /\ pc \in DownSteps \ {"composeDown", "removeServices"} => containers = {}
    /\ pc \in {"deleteAgentPolicy", "unenrollServers", "deleteServerPolicy", "removeOutput"} =>
         "elastic-agent" \notin fleet.enrolled
    /\ pc \in {"unenrollServers", "deleteServerPolicy", "removeOutput"} =>
         fleet.agentPolicy = "absent"
    /\ pc = "deleteServerPolicy" => "fleet-server" \notin fleet.enrolled
    /\ pc = "removeOutput" /\ recorded /\ stored.file = "valid" =>
         fleet.serverPolicy = "absent" /\ "fleet-server" \notin fleet.enrolled

Cleans == LaterFailureCleansFleet /\ CleanDownSucceeds

\* A step of a boot leads to a step of a boot, or ends it.
LEMMA UpPc ==
    Up => /\ pc' \in UpSteps \cup {"idle"}
          /\ command' = "up" \/ (pc \in UpSteps /\ command' = command)
<1> SUFFICES ASSUME Up
             PROVE  /\ pc' \in UpSteps \cup {"idle"}
                    /\ command' = "up" \/ (pc \in UpSteps /\ command' = command)
  OBVIOUS
<1> USE DEF UpSteps, AfterDiscover
<1>1. CASE BootUp
  BY <1>1 DEF BootUp, StartUp, StartCommand
<1>2. CASE DiscoverFleetServer
  BY <1>2 DEF DiscoverFleetServer, Goes
<1>3. CASE AddFleetServerHost \/ CreateFleetServiceToken
  BY <1>3, CallsPc DEF AddFleetServerHost, CreateFleetServiceToken, Calls
<1>4. CASE CreateFleetServerPolicy
  <2>1. pc = "serverPolicy" /\ pc' \in {"serviceToken", "serverPackage", "idle"}
    BY <1>4, CreatePolicyPc, Zenon DEF CreateFleetServerPolicy
  <2> QED
    BY <1>4, <2>1 DEF CreateFleetServerPolicy, CreatePolicy, Calls
<1>5. CASE CreateFleetServerPackagePolicy \/ CreateSystemPackagePolicy
  BY <1>5, CreatePackagePolicyPc
    DEF CreateFleetServerPackagePolicy, CreateSystemPackagePolicy, CreatePackagePolicy, Calls
<1>6. CASE StoreFleetConfig \/ StoreOutputConfig \/ StoreFinalConfig
  BY <1>6, StoresPc DEF StoreFleetConfig, StoreOutputConfig, StoreFinalConfig, StoreConfig
<1>7. CASE AddFleetOutput
  BY <1>7, AddOutputPc DEF AddFleetOutput, AddOutput, Calls, Skips
<1>8. CASE CreateAgentPolicy
  <2>1. pc = "agentPolicy" /\ pc' \in {"startServices", "agentPackage", "idle"}
    BY <1>8, CreatePolicyPc, Zenon DEF CreateAgentPolicy
  <2>2. command' = command
    BY <1>8 DEF CreateAgentPolicy, CreatePolicy, Calls
  <2> QED
    BY <2>1, <2>2
<1>9. CASE StartLocalServices
  <2>1. command' = command
    BY <1>9 DEF StartLocalServices, StartServices
  <2> QED
    BY <1>9, <2>1, StartLocalServicesPc
<1>10. CASE UpdateLogstashFleetOutput
  <2>1. pc = "updateOutput" /\ pc' \in {"store3", "idle"}
    BY <1>10, UpdateOutputPc DEF UpdateLogstashFleetOutput
  <2>2. command' = command
    BY <1>10 DEF UpdateLogstashFleetOutput, UpdateOutput, Calls
  <2> QED
    BY <2>1, <2>2
<1> QED
  BY <1>1, <1>2, <1>3, <1>4, <1>5, <1>6, <1>7, <1>8, <1>9, <1>10 DEF Up

\* A step of a tear-down, as long as it does not fail, removes what it is for.
LEMMA PhasesDown == TypeOK /\ Served /\ Phases /\ Down => Phases' /\ Cleans'
<1> SUFFICES ASSUME fleet \in Fleet, composed \in BOOLEAN, Served, Phases, Down
             PROVE  Phases' /\ Cleans'
  BY DEF TypeOK, StackTypeOK
<1>s. /\ stored' = stored /\ recorded' = recorded
      /\ ~TearDown => config' = config /\ command' = command
  BY DownSame
<1>e. ASSUME pc' = "idle", ok' = FALSE, fault' = TRUE \/ composed' = FALSE
      PROVE  Phases' /\ Cleans'
  BY <1>e DEF Phases, Cleans, LaterFailureCleansFleet, CleanDownSucceeds, Ended, UpSteps,
       DownSteps, AfterDiscover
<1>f. ASSUME pc' \in DownSteps, Phases' PROVE Phases' /\ Cleans'
  BY <1>f DEF Cleans, LaterFailureCleansFleet, CleanDownSucceeds, Ended, DownSteps
<1> USE DEF Phases, UpSteps, DownSteps, AfterDiscover, SameFleet
<1>1. CASE TearDown
  <2>1. Phases'
    BY <1>1 DEF TearDown, StartDown, StartCommand
  <2> QED
    BY <1>1, <2>1, <1>f DEF TearDown, StartDown, StartCommand
<1>2. CASE ComposeTearDown
  <2>1. pc' = "idle" /\ stored'.file = "absent"
    BY <1>2, <1>s, RemoveServicesPc DEF ComposeTearDown, RemoveServices
  <2> QED
    BY <2>1 DEF Cleans, LaterFailureCleansFleet, CleanDownSucceeds
<1>3. CASE DestroyLocalServices
  <2>1. pc = "removeServices"
    BY <1>3, RemoveServicesPc DEF DestroyLocalServices
  <2>2. CASE composed
    <3>1. containers' = {}
      BY <1>3, <2>2 DEF DestroyLocalServices, RemoveServices
    <3>2. pc' = "unenrollAgents" \/ (pc' = "idle" /\ ok' = FALSE /\ fault' = TRUE)
      BY <1>3, <2>2, CallsEnds DEF DestroyLocalServices, RemoveServices
    <3>3. CASE pc' = "unenrollAgents"
      <4>1. ~TearDown
        BY <2>1 DEF TearDown, StartDown, StartCommand
      <4> QED
        BY <2>1, <3>1, <3>3, <4>1, <1>s, <1>f
    <3> QED
      BY <3>2, <3>3, <1>e
  <2>3. CASE ~composed
    <3>1. Refused /\ composed' = composed
      BY <1>3, <2>3 DEF DestroyLocalServices, RemoveServices
    <3> QED
      BY <2>3, <3>1, <1>e DEF Refused, Returns
  <2> QED
    BY <2>2, <2>3
<1>4. CASE ForceUnenrollAgents
  <2>1. containers' = containers /\ pc = "unenrollAgents"
    BY <1>4, CallsPc DEF ForceUnenrollAgents, Unenroll
  <2>2. "elastic-agent" \notin fleet'.enrolled
    BY <1>4, UnenrollFleet DEF ForceUnenrollAgents
  <2>3. pc' = "deleteAgentPolicy" \/ (pc' = "idle" /\ ok' = FALSE /\ fault' = TRUE)
    BY <1>4, CallsEnds DEF ForceUnenrollAgents, Unenroll
  <2>4. CASE pc' = "deleteAgentPolicy"
    <3>1. ~TearDown
      BY <2>1 DEF TearDown, StartDown, StartCommand
    <3> QED
      BY <2>1, <2>2, <2>4, <3>1, <1>s, <1>f
  <2> QED
    BY <2>3, <2>4, <1>e
<1>5. CASE DeleteAgentPolicy
  <2>1. pc = "deleteAgentPolicy"
    BY <1>5, DeletePolicyPc DEF DeleteAgentPolicy
  <2>2. "elastic-agent" \notin fleet.enrolled
    BY <2>1
  <2>3. /\ containers' = containers
        /\ \/ pc' = IF config.managed THEN "unenrollServers" ELSE "removeOutput"
           \/ pc' = "idle" /\ ok' = FALSE /\ fault' = TRUE
    BY <1>5, <2>2, CallsEnds DEF DeleteAgentPolicy, DeletePolicy
  <2>4. fleet'.agentPolicy = "absent" /\ SameFleet({"serverPolicy", "host", "enrolled"})
    BY <1>5, <2>2, DeletePolicyFleet DEF DeleteAgentPolicy
  <2>5. CASE pc' = IF config.managed THEN "unenrollServers" ELSE "removeOutput"
    <3>1. ~TearDown
      BY <2>1 DEF TearDown, StartDown, StartCommand
    <3>2. recorded /\ stored.file = "valid" /\ ~config.managed =>
            fleet.serverPolicy = "absent" /\ "fleet-server" \notin fleet.enrolled
      BY <2>1 DEF Served
    <3> QED
      BY <2>1, <2>2, <2>3, <2>4, <2>5, <3>1, <3>2, <1>s, <1>f
  <2> QED
    BY <2>3, <2>5, <1>e
<1>6. CASE ForceUnenrollFleetServers
  <2>1. containers' = containers /\ pc = "unenrollServers"
    BY <1>6, CallsPc DEF ForceUnenrollFleetServers, Unenroll
  <2>2. /\ fleet'.enrolled = fleet.enrolled \ {"fleet-server"}
        /\ fleet'.agentPolicy = fleet.agentPolicy
    BY <1>6, UnenrollFleet DEF ForceUnenrollFleetServers
  <2>3. pc' = "deleteServerPolicy" \/ (pc' = "idle" /\ ok' = FALSE /\ fault' = TRUE)
    BY <1>6, CallsEnds DEF ForceUnenrollFleetServers, Unenroll
  <2>4. CASE pc' = "deleteServerPolicy"
    <3>1. ~TearDown
      BY <2>1 DEF TearDown, StartDown, StartCommand
    <3> QED
      BY <2>1, <2>2, <2>4, <3>1, <1>s, <1>f
  <2> QED
    BY <2>3, <2>4, <1>e
<1>7. CASE DeleteFleetServerPolicy
  <2>1. pc = "deleteServerPolicy"
    BY <1>7, DeletePolicyPc DEF DeleteFleetServerPolicy
  <2>2. "fleet-server" \notin fleet.enrolled
    BY <2>1
  <2>3. /\ containers' = containers
        /\ pc' = "removeOutput" \/ (pc' = "idle" /\ ok' = FALSE /\ fault' = TRUE)
    BY <1>7, <2>2, CallsEnds DEF DeleteFleetServerPolicy, DeletePolicy
  <2>4. fleet'.serverPolicy = "absent" /\ SameFleet({"agentPolicy", "enrolled"})
    BY <1>7, <2>2, DeletePolicyFleet DEF DeleteFleetServerPolicy
  <2>5. CASE pc' = "removeOutput"
    <3>1. ~TearDown
      BY <2>1 DEF TearDown, StartDown, StartCommand
    <3> QED
      BY <2>1, <2>2, <2>3, <2>4, <2>5, <3>1, <1>s, <1>f
  <2> QED
    BY <2>3, <2>5, <1>e
<1>8. CASE RemoveFleetOutput
  <2>1. pc = "removeOutput" /\ containers' = containers
    BY <1>8, CallsPc DEF RemoveFleetOutput
  <2>2. \/ pc' = "idle" /\ ok' = TRUE
        \/ pc' = "idle" /\ ok' = FALSE /\ fault' = TRUE
    BY <1>8, CallsEnds DEF RemoveFleetOutput, Skips, Goes, Returns
  <2>3. CASE pc' = "idle" /\ ok' = TRUE
    <3>1. /\ SameFleet({"agentPolicy", "serverPolicy", "enrolled"})
          /\ fleet'.outputs = fleet.outputs \ {config.output}
      BY <1>8, RemoveOutputFleet
    <3>2. fleet.enrolled \subseteq Agent /\ Agent = {"elastic-agent", "fleet-server"}
      BY DEF Fleet, Agent
    <3>3. LaterFailureCleansFleet'
      BY <2>1, <2>3, <3>1, <3>2, <1>s DEF LaterFailureCleansFleet
    <3>4. stored'.output \notin fleet'.outputs
      BY <2>1, <3>1, <1>s
    <3> QED
      BY <2>3, <3>3, <3>4 DEF Cleans, CleanDownSucceeds
  <2> QED
    BY <2>2, <2>3, <1>e
<1> QED
  BY <1>1, <1>2, <1>3, <1>4, <1>5, <1>6, <1>7, <1>8 DEF Down

\* Every step: once the containers are gone no agent enrolls again.
LEMMA PhasesNext ==
    TypeOK /\ Served /\ Phases /\ Cleans /\ [Next]_vars => Phases' /\ Cleans'
<1> SUFFICES ASSUME TypeOK, Served, Phases, Cleans, [Next]_vars PROVE Phases' /\ Cleans'
  OBVIOUS
<1>t. fleet \in Fleet
  BY DEF TypeOK, StackTypeOK
<1>1. CASE Down
  BY <1>1, PhasesDown
<1> USE DEF Phases, Cleans, LaterFailureCleansFleet, CleanDownSucceeds, Ended, UpSteps, DownSteps,
       AfterDiscover, SameFleet
<1>2. CASE Up
  <2>1. pc' \in UpSteps \cup {"idle"} /\ command' = "up"
    BY <1>2, UpPc
  <2> QED
    BY <2>1
<1>3. CASE Fails \/ Crash
  <2>1. pc' = "idle" /\ ok' = FALSE /\ fault' = TRUE
    BY <1>3 DEF Fails, Crash, CallFails, KilledAt, Errs, Returns
  <2> QED
    BY <2>1
<1>4. CASE Enrolls
  <2>1. UNCHANGED <<pc, command, config, stored, recorded, containers, composed, ok, fault, cmd>>
    BY <1>4 DEF Enrolls, AgentEnrolls, history
  <2>2. containers # {}
    BY <1>4 DEF Enrolls, AgentEnrolls
  <2>3. fleet'.outputs = fleet.outputs
    BY <1>4, <1>t, EnrollsFleet
  <2>4. Phases'
    BY <2>1, <2>2
  <2>5. LaterFailureCleansFleet'
    BY <2>1, <2>2
  <2>6. CleanDownSucceeds'
    BY <2>1, <2>3
  <2> QED
    BY <2>4, <2>5, <2>6
<1>5. CASE ExternalServerChanges
  BY <1>5 DEF ExternalServerChanges, history
<1>6. CASE UNCHANGED vars
  BY <1>6 DEF vars
<1> QED
  BY <1>1, <1>2, <1>3, <1>4, <1>5, <1>6 DEF Next

\* Before the first command nothing has to be cleaned up.
LEMMA PhasesInit == Init => Served /\ Phases /\ Cleans
  BY DEF Init, StackInit, NewFleet, NoConfig, Served, Phases, Cleans, LaterFailureCleansFleet,
       CleanDownSucceeds, Ended, UpSteps, DownSteps, AfterDiscover

\* What the tear-down of a recorded boot relies on and leaves.
LEMMA TearDownCorrect == Spec => [](Served /\ Phases /\ Cleans)
  BY PhasesInit, ServedNext, PhasesNext, TypeCorrect, PTL DEF Spec

\* A boot that fails after it stored its configuration can be cleaned up: a
\* tear-down that succeeds leaves no container, policy or agent behind (BootUp and
\* TearDown of environment.go).
THEOREM TearDownCleansFleet == Spec => []LaterFailureCleansFleet
  BY TearDownCorrect, PTL DEF Cleans

\* Once a boot came to the local services, a tear-down in which no call fails
\* succeeds and drops the output it knows of (TearDown of environment.go).
THEOREM TearDownSucceeds == Spec => []CleanDownSucceeds
  BY TearDownCorrect, PTL DEF Cleans
\* What a boot leaves behind, a tear-down removes (TearDown of environment.go).
THEOREM TearDownIsComplete == Spec => []TearDownCleans
  BY TearDownCleansFleet, TearDownSucceeds, PTL DEF TearDownCleans
-----------------------------------------------------------------------------
(***************************************************************************)
(* A boot in which no call fails leaves a stack that is ready.             *)
(***************************************************************************)
AfterServerPolicy == AfterDiscover \ {"addHost", "serverPolicy", "serverPackage"}
AfterOutput ==
    {"store2", "agentPolicy", "agentPackage", "startServices", "updateOutput", "store3"}
Launched == {"updateOutput", "store3"}

\* The services that are wanted run, with their agents.
Serving == Wanted \subseteq containers /\ Wanted \cap Agent \subseteq fleet.enrolled

\* What each step of a boot knows of Fleet.
Reached ==
    /\ pc \in UpSteps => config.file = "valid"
    /\ pc = "discover" => ~config.managed
    /\ pc \in AfterDiscover \ {"addHost"} =>
           fleet.host = "local" \/ (fleet.host = "external" /\ externalUp)
    /\ pc \in AfterServerPolicy /\ config.managed => fleet.serverPolicy # "absent"
    /\ pc \in AfterOutput => opts.output \in fleet.outputs \cup {"none"}
    /\ pc \in {"agentPackage", "startServices"} => fleet.agentPolicy # "absent"
    /\ pc = "updateOutput" => opts.output = "logstash"

\* What a boot without a failed call has, and a profile on which no call ever failed.
Sound ==
    /\ pc \in Launched /\ ~fault => Serving
    /\ pc = "store3" /\ ~fault /\ opts.output = "logstash" => fleet.certified
    /\ quiet /\ fleet.serverPolicy = "bare" => pc = "serverPackage"

\* A call that returns an error ends the boot, and nothing is claimed of it.
LEMMA ErrsReady == ASSUME Errs PROVE Reached' /\ Sound' /\ UpIsReady'
  BY DEF Errs, Returns, Reached, Sound, UpIsReady, Ended, UpSteps, AfterDiscover,
       AfterServerPolicy, AfterOutput, Launched

\* A boot that starts, or looks for a Fleet Server, or makes the local one the default.
LEMMA ReadyDiscover ==
    ASSUME TypeOK, Reached, Sound, BootUp \/ DiscoverFleetServer \/ AddFleetServerHost
    PROVE  Reached' /\ Sound' /\ UpIsReady'
<1>t. fleet \in Fleet /\ config \in Config
  BY DEF TypeOK, StackTypeOK
<1> USE DEF Reached, Sound, UpIsReady, Ended, UpSteps, AfterDiscover, AfterServerPolicy,
       AfterOutput, Launched
<1>1. CASE BootUp
  <2>1. /\ pc = "idle" /\ pc' = "discover" /\ fleet' = fleet /\ quiet' = quiet
        /\ config'.file = "valid" /\ ~config'.managed
    BY <1>1 DEF BootUp, StartUp, StartCommand, NoConfig
  <2> QED
    BY <2>1
<1>2. CASE DiscoverFleetServer
  <2>1. /\ pc = "discover" /\ fleet' = fleet /\ externalUp' = externalUp
        /\ quiet' = quiet \/ ~quiet'
        /\ config'.file = config.file
    BY <1>2, <1>t DEF DiscoverFleetServer, Goes, Config
  <2>2. \/ pc' = "addHost"
        \/ pc' = "store1" /\ config' = config /\ fleet.host = "external" /\ externalUp
    BY <1>2 DEF DiscoverFleetServer, Goes
  <2> QED
    BY <2>1, <2>2
<1>3. CASE AddFleetServerHost
  <2>1. CASE Errs
    BY <2>1, ErrsReady
  <2>2. CASE Goes("serverPolicy")
    <3>1. pc = "addHost" /\ pc' = "serverPolicy" /\ quiet' = quiet /\ config' = config
      BY <1>3, <2>2 DEF AddFleetServerHost, Calls, Goes
    <3>2. fleet'.host = "local" /\ fleet'.serverPolicy = fleet.serverPolicy
      BY <1>3, <1>t DEF AddFleetServerHost, Fleet
    <3> QED
      BY <3>1, <3>2
  <2> QED
    BY <1>3, <2>1, <2>2 DEF AddFleetServerHost, Calls
<1> QED
  BY <1>1, <1>2, <1>3

\* The Fleet Server gets its policy with a package policy.
LEMMA ReadyServer ==
    ASSUME TypeOK, Reached, Sound,
           \/ CreateFleetServerPolicy \/ CreateFleetServerPackagePolicy
           \/ CreateFleetServiceToken \/ StoreFleetConfig
    PROVE  Reached' /\ Sound' /\ UpIsReady'
<1>t. fleet \in Fleet /\ config \in Config
  BY DEF TypeOK, StackTypeOK
<1> SUFFICES ASSUME ~Errs PROVE Reached' /\ Sound' /\ UpIsReady'
  BY ErrsReady
<1> USE DEF Reached, Sound, UpIsReady, Ended, UpSteps, AfterDiscover, AfterServerPolicy,
       AfterOutput, Launched
<1>1. CASE CreateFleetServerPolicy
  <2>1. /\ pc = "serverPolicy" /\ quiet' = quiet /\ config' = config /\ externalUp' = externalUp
        /\ \/ pc' = "serviceToken" /\ fleet' = fleet /\ fleet.serverPolicy # "absent"
           \/ pc' = "serverPackage" /\ fleet'.serverPolicy = "bare"
    BY <1>1, <1>t DEF CreateFleetServerPolicy, CreatePolicy, Calls, Goes, Fleet
  <2>2. fleet'.host = fleet.host
    BY <1>1, <1>t DEF CreateFleetServerPolicy, CreatePolicy, Fleet
  <2> QED
    BY <2>1, <2>2
<1>2. CASE CreateFleetServerPackagePolicy
  <2>1. /\ pc = "serverPackage" /\ pc' = "serviceToken" /\ quiet' = quiet /\ config' = config
        /\ externalUp' = externalUp
    BY <1>2 DEF CreateFleetServerPackagePolicy, CreatePackagePolicy, Calls, Goes
  <2>2. fleet'.host = fleet.host /\ fleet'.serverPolicy = "full"
    BY <1>2, <1>t DEF CreateFleetServerPackagePolicy, CreatePackagePolicy, Fleet
  <2> QED
    BY <2>1, <2>2
<1>3. CASE CreateFleetServiceToken
  BY <1>3 DEF CreateFleetServiceToken, Calls, Goes
<1>4. CASE StoreFleetConfig
  BY <1>4 DEF StoreFleetConfig, StoreConfig, Goes
<1> QED
  BY <1>1, <1>2, <1>3, <1>4

\* The output and the agent policy are there when the services start.
LEMMA ReadyPolicy ==
    ASSUME TypeOK, Reached, Sound,
           AddFleetOutput \/ StoreOutputConfig \/ CreateAgentPolicy \/ CreateSystemPackagePolicy
    PROVE  Reached' /\ Sound' /\ UpIsReady'
<1>t. fleet \in Fleet /\ config \in Config
  BY DEF TypeOK, StackTypeOK
<1> SUFFICES ASSUME ~Errs PROVE Reached' /\ Sound' /\ UpIsReady'
  BY ErrsReady
<1> USE DEF Reached, Sound, UpIsReady, Ended, UpSteps, AfterDiscover, AfterServerPolicy,
       AfterOutput, Launched
<1>1. CASE AddFleetOutput
  <2>1. /\ pc = "addOutput" /\ pc' = "store2" /\ quiet' = quiet /\ externalUp' = externalUp
        /\ opts' = opts
    BY <1>1 DEF AddFleetOutput, AddOutput, Calls, Skips, Goes
  <2>2. /\ fleet'.host = fleet.host /\ fleet'.serverPolicy = fleet.serverPolicy
        /\ opts.output \in fleet'.outputs \cup {"none"}
    BY <1>1, <1>t, AddOutputFleet DEF AddFleetOutput, SameFleet
  <2>3. config'.file = config.file /\ config'.managed = config.managed
    BY <1>1, <1>t DEF AddFleetOutput, AddOutput, Config
  <2> QED
    BY <2>1, <2>2, <2>3
<1>2. CASE StoreOutputConfig
  BY <1>2 DEF StoreOutputConfig, StoreConfig, Goes
<1>3. CASE CreateAgentPolicy
  <2>1. /\ pc = "agentPolicy" /\ pc' \in {"agentPackage", "startServices"}
        /\ quiet' = quiet /\ config' = config /\ externalUp' = externalUp /\ opts' = opts
        /\ fleet'.agentPolicy # "absent"
    BY <1>3, <1>t DEF CreateAgentPolicy, CreatePolicy, Calls, Goes, Fleet
  <2>2. /\ fleet'.host = fleet.host /\ fleet'.serverPolicy = fleet.serverPolicy
        /\ fleet'.outputs = fleet.outputs
    BY <1>3, <1>t, CreatePolicyFleet, Zenon DEF CreateAgentPolicy, SameFleet
  <2> QED
    BY <2>1, <2>2
<1>4. CASE CreateSystemPackagePolicy
  <2>1. /\ pc = "agentPackage" /\ pc' = "startServices"
        /\ quiet' = quiet /\ config' = config /\ externalUp' = externalUp /\ opts' = opts
    BY <1>4 DEF CreateSystemPackagePolicy, CreatePackagePolicy, Calls, Goes
  <2>2. /\ fleet'.host = fleet.host /\ fleet'.serverPolicy = fleet.serverPolicy
        /\ fleet'.outputs = fleet.outputs /\ fleet'.agentPolicy = "full"
    BY <1>4, <1>t DEF CreateSystemPackagePolicy, CreatePackagePolicy, Fleet
  <2> QED
    BY <2>1, <2>2
<1> QED
  BY <1>1, <1>2, <1>3, <1>4

\* On a profile on which no call ever failed, everything is there that the services need.
LEMMA CanStartServices ==
    ASSUME TypeOK, Served, Reached, Sound, pc = "startServices", quiet PROVE CanStart(externalUp)
  BY DEF TypeOK, StackTypeOK, Fleet, PolicyState, Served, Reached, Sound, CanStart, UpSteps,
       AfterDiscover, AfterServerPolicy

\* The services start, or the boot has failed.
LEMMA ReadyServices ==
    ASSUME TypeOK, Served, Reached, Sound, StartLocalServices
    PROVE  Reached' /\ Sound' /\ UpIsReady'
<1>t. fleet \in Fleet /\ config \in Config
  BY DEF TypeOK, StackTypeOK
<1> DEFINE to == IF opts.output = "logstash" THEN "updateOutput" ELSE "store3"
<1>s. /\ pc = "startServices" /\ config' = config /\ opts' = opts /\ stored' = stored
      /\ externalUp' = externalUp
  BY DEF StartLocalServices, StartServices
<1> USE DEF Reached, Sound, UpIsReady, Ended, UpSteps, AfterDiscover, AfterServerPolicy,
       AfterOutput, Launched
<1>1. CASE ServicesUp /\ Goes(to)
  <2>1. /\ fleet'.host = fleet.host /\ fleet'.serverPolicy = fleet.serverPolicy
        /\ fleet'.outputs = fleet.outputs
        /\ fleet'.enrolled = fleet.enrolled \cup (Wanted \cap Agent)
    BY <1>1, <1>t DEF ServicesUp, Fleet
  <2>2. Wanted' = Wanted /\ Agent' = Agent
    BY <1>s DEF Wanted, Agent
  <2>3. Serving'
    BY <1>1, <2>1, <2>2 DEF Serving, ServicesUp
  <2>4. pc' = to /\ quiet' = quiet
    BY <1>1 DEF Goes
  <2> QED
    BY <1>s, <2>1, <2>3, <2>4
<1>2. CASE Errs
  BY <1>2, ErrsReady
<1>3. CASE ~CanStart(externalUp) /\ Refused
  <2>1. ~quiet /\ quiet' = quiet /\ pc' = "idle" /\ ok' = FALSE
    BY <1>3, <1>s, CanStartServices DEF Refused, Returns
  <2> QED
    BY <2>1
<1>4. CASE /\ fleet' = fleet /\ fault' = TRUE /\ quiet' = FALSE
           /\ IF to = "idle" THEN Returns(TRUE) ELSE pc' = to /\ UNCHANGED ok
  <2>1. pc' = to
    BY <1>4
  <2> QED
    BY <1>s, <1>4, <2>1
<1> QED
  BY <1>1, <1>2, <1>3, <1>4 DEF StartLocalServices, StartServices, ServicesLeft

\* The output gets its certificates, and what the boot knows is recorded.
LEMMA ReadyEnd ==
    ASSUME TypeOK, Reached, Sound, UpdateLogstashFleetOutput \/ StoreFinalConfig
    PROVE  Reached' /\ Sound' /\ UpIsReady'
<1>t. fleet \in Fleet /\ config \in Config
  BY DEF TypeOK, StackTypeOK
<1> SUFFICES ASSUME ~Errs PROVE Reached' /\ Sound' /\ UpIsReady'
  BY ErrsReady
<1>w. ASSUME config' = config, opts' = opts PROVE Wanted' = Wanted /\ Agent' = Agent
  BY <1>w DEF Wanted, Agent
<1> USE DEF Reached, Sound, UpSteps, AfterDiscover, AfterServerPolicy, AfterOutput, Launched
<1>1. CASE UpdateLogstashFleetOutput
  <2>1. pc = "updateOutput" /\ opts.output = "logstash" /\ "logstash" \in fleet.outputs
    BY <1>1, UpdateOutputPc DEF UpdateLogstashFleetOutput
  <2>2. /\ pc' = "store3" /\ fault' = fault /\ quiet' = quiet /\ config' = config /\ opts' = opts
        /\ externalUp' = externalUp /\ containers' = containers
    BY <1>1, <2>1 DEF UpdateLogstashFleetOutput, UpdateOutput, Calls, Goes
  <2>3. /\ fleet'.host = fleet.host /\ fleet'.serverPolicy = fleet.serverPolicy
        /\ fleet'.outputs = fleet.outputs /\ fleet'.enrolled = fleet.enrolled
        /\ fleet'.certified
    BY <1>1, <2>1, <1>t DEF UpdateLogstashFleetOutput, UpdateOutput, Fleet
  <2>4. Serving => Serving'
    BY <2>2, <2>3, <1>w DEF Serving
  <2> QED
    BY <2>1, <2>2, <2>3, <2>4 DEF UpIsReady, Ended
<1>2. CASE StoreFinalConfig
  <2>1. /\ pc = "store3" /\ pc' = "idle" /\ ok' = TRUE /\ fault' = fault /\ quiet' = quiet
        /\ config' = config /\ opts' = opts /\ fleet' = fleet /\ containers' = containers
        /\ stored' = [config EXCEPT !.file = "valid"]
    BY <1>2 DEF StoreFinalConfig, StoreConfig, Goes, Returns
  <2>2. config = [config EXCEPT !.file = "valid"]
    BY <2>1, <1>t DEF Config
  <2>3. ~fault => Ready'
    BY <2>1, <1>w DEF Ready, Serving
  <2> QED
    BY <2>1, <2>2, <2>3 DEF UpIsReady
<1> QED
  BY <1>1, <1>2

\* A failed call is not made up for by a tear-down.
LEMMA DownQuiet == Down => (quiet' => quiet)
<1> SUFFICES ASSUME Down, quiet' PROVE quiet
  OBVIOUS
<1>c. ASSUME NEW from, NEW to, Calls(from, to) \/ Skips(from, to) PROVE quiet
  BY <1>c DEF Calls, Skips, Goes, Errs
<1>1. CASE TearDown
  BY <1>1 DEF TearDown, StartDown, StartCommand
<1>2. CASE ComposeTearDown \/ DestroyLocalServices
  BY <1>2, <1>c DEF ComposeTearDown, DestroyLocalServices, RemoveServices, Refused
<1>3. CASE ForceUnenrollAgents \/ ForceUnenrollFleetServers
  BY <1>3, <1>c DEF ForceUnenrollAgents, ForceUnenrollFleetServers, Unenroll
<1>4. ASSUME NEW policy, NEW agent, NEW from, NEW to, DeletePolicy(policy, agent, from, to)
      PROVE  quiet
  BY <1>4, <1>c DEF DeletePolicy, Refused
<1>5. CASE DeleteAgentPolicy \/ DeleteFleetServerPolicy
  BY <1>5, <1>4 DEF DeleteAgentPolicy, DeleteFleetServerPolicy
<1>6. CASE RemoveFleetOutput
  BY <1>6, <1>c DEF RemoveFleetOutput
<1> QED
  BY <1>1, <1>2, <1>3, <1>5, <1>6 DEF Down

\* Every step of a boot.
LEMMA ReadyUp ==
    TypeOK /\ Served /\ Reached /\ Sound /\ Up => Reached' /\ Sound' /\ UpIsReady'
  BY ReadyDiscover, ReadyServer, ReadyPolicy, ReadyServices, ReadyEnd DEF Up

\* A tear-down, an agent that enrolls and the Fleet Server of the user leave a boot that has ended
\* as it was.
LEMMA ReadyNext ==
    TypeOK /\ Served /\ Phases /\ Reached /\ Sound /\ UpIsReady /\ [Next]_vars
      => Reached' /\ Sound' /\ UpIsReady'
<1> SUFFICES ASSUME TypeOK, Served, Phases, Reached, Sound, UpIsReady, [Next]_vars
             PROVE  Reached' /\ Sound' /\ UpIsReady'
  OBVIOUS
<1>t. fleet \in Fleet
  BY DEF TypeOK, StackTypeOK
<1>1. CASE Up
  BY <1>1, ReadyUp
<1>2. CASE Fails \/ Crash
  BY <1>2, ErrsReady DEF Fails, Crash, CallFails, KilledAt
<1> USE DEF Reached, Sound, UpIsReady, Ended, UpSteps, AfterDiscover, AfterServerPolicy,
       AfterOutput, Launched
<1>3. CASE Down
  <2>0. \/ pc = "idle" /\ command' = "down"
        \/ pc \in DownSteps /\ command' = command
    <3>1. TearDown => pc = "idle" /\ command' = "down"
      BY DEF TearDown, StartDown, StartCommand
    <3>2. ~TearDown => pc \in DownSteps
      BY <1>3, CallsPc, DeletePolicyPc, RemoveServicesPc
        DEF Down, DownSteps, ComposeTearDown, DestroyLocalServices, RemoveServices, Unenroll,
            ForceUnenrollAgents, ForceUnenrollFleetServers, DeleteAgentPolicy,
            DeleteFleetServerPolicy, RemoveFleetOutput
    <3> QED
      BY <1>3, <3>1, <3>2, DownSame
  <2>1. pc' \in DownSteps \cup {"idle"} /\ command' = "down"
    BY <1>3, <2>0, DownSame DEF Phases
  <2>2. pc # "serverPackage"
    BY <2>0 DEF DownSteps
  <2>3. quiet' => quiet
    BY <1>3, DownQuiet
  <2>4. fleet'.serverPolicy \in {fleet.serverPolicy, "absent"}
    BY <1>3, <1>t, DownFleet
  <2> QED
    BY <2>1, <2>2, <2>3, <2>4 DEF DownSteps
<1>4. CASE Enrolls
  <2>1. UNCHANGED <<pc, command, opts, config, stored, containers, ok, cmd, fault, quiet, externalUp>>
    BY <1>4 DEF Enrolls, AgentEnrolls, history
  <2>2. /\ SameFleet({"agentPolicy", "serverPolicy", "outputs", "host"})
        /\ fleet.enrolled \subseteq fleet'.enrolled /\ fleet'.certified = fleet.certified
    BY <1>4, <1>t DEF Enrolls, AgentEnrolls, SameFleet, Fleet
  <2>3. Wanted' = Wanted /\ Agent' = Agent
    BY <2>1 DEF Wanted, Agent
  <2>4. (Serving => Serving') /\ (Ready => Ready')
    BY <2>1, <2>2, <2>3 DEF Serving, Ready, SameFleet
  <2>5. Reached'
    BY <2>1, <2>2 DEF SameFleet
  <2>6. Sound'
    BY <2>1, <2>2, <2>4 DEF SameFleet
  <2> QED
    BY <2>1, <2>4, <2>5, <2>6
<1>5. CASE ExternalServerChanges
  <2>1. Wanted' = Wanted /\ Agent' = Agent
    BY <1>5 DEF ExternalServerChanges, Wanted, Agent
  <2> QED
    BY <1>5, <2>1 DEF ExternalServerChanges, history, Ready, Serving
<1>6. CASE UNCHANGED vars
  <2>1. Wanted' = Wanted /\ Agent' = Agent
    BY <1>6 DEF vars, Wanted, Agent
  <2> QED
    BY <1>6, <2>1 DEF vars, Ready, Serving
<1> QED
  BY <1>1, <1>2, <1>3, <1>4, <1>5, <1>6 DEF Next

\* A boot that succeeds without a failed call leaves a stack that can be used and is recorded, and
\* on a profile on which no call ever failed it does succeed (BootUp of environment.go).
THEOREM BootIsReady == Spec => []UpIsReady
<1>1. Init => Reached /\ Sound /\ UpIsReady
  BY DEF Init, StackInit, NewFleet, Reached, Sound, UpIsReady, Ended, UpSteps, AfterDiscover,
       AfterServerPolicy, AfterOutput, Launched
<1>2. TypeOK /\ Served /\ Phases /\ Reached /\ Sound /\ UpIsReady /\ [Next]_vars
        => Reached' /\ Sound' /\ UpIsReady'
  BY ReadyNext
<1> QED
  BY <1>1, <1>2, TypeCorrect, TearDownCorrect, PTL DEF Spec
=============================================================================
