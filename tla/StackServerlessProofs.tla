------------------------ MODULE StackServerlessProofs -------------------------
(***************************************************************************)
(* Theorems about StackServerless, for any number of commands and kills.   *)
(***************************************************************************)
EXTENDS StackServerless, StackProofs

\* A running command has a number, which names the project it creates.
Started == pc # "idle" => cmd \in 1..MaxCommands

\* While a boot creates a project, the recorded one is that or is gone.
SameRecord ==
    /\ pc = "find" => config = stored
    /\ pc = "createProject" /\ stored.file = "valid" => stored.project \notin projects
    /\ pc \in {"endpoints", "store1", "initialize", "store2"} /\ stored.file = "valid"
          /\ stored.project \in projects
       => stored.project = config.project

IInv == TypeOK /\ Started /\ SameRecord

-----------------------------------------------------------------------------
\* Before the first command there is no project and no record.
LEMMA InitInv == Init => IInv
<1> SUFFICES ASSUME Init PROVE IInv
  OBVIOUS
<1>1. 0 \in 0..MaxCommands /\ 0 \in 0..MaxCrashes
  BY StackAssumption
<1>2. opts \in [output : Output, monitored : BOOLEAN]
  BY DEF Init, StackInit, Output
<1>3. StackTypeOK
  BY <1>1, <1>2, NoConfigType, NewFleetType DEF Init, StackInit, StackTypeOK
<1> QED
  BY <1>3 DEF Init, StackInit, TypeOK, IInv, Started, SameRecord

\* A step of a boot keeps the types and the number of the command.
LEMMA UpType == TypeOK /\ Started /\ Up => TypeOK' /\ Started'
<1> SUFFICES ASSUME TypeOK, Started, Up PROVE TypeOK' /\ Started'
  OBVIOUS
<1> USE DEF TypeOK, Started, cloud, CallSteps, StoreSteps
<1>1. CASE BootUp
  BY <1>1, StartUpType, StartPc DEF BootUp, StackTypeOK, StartUp, StartCommand
<1>2. CASE FindProject
  <2>1. CommandTypeOK'
    BY <1>2, TypeParts, SkipsType, Zenon DEF FindProject
  <2>2. pc' \in {"startServices", "createProject", "idle"} /\ pc = "find" /\ cmd' = cmd
    BY <1>2, CallsPc DEF FindProject
  <2>3. StackTypeOK'
    BY <1>2, <2>1, NoConfigType DEF FindProject, StackTypeOK, CommandTypeOK
  <2> QED
    BY <1>2, <2>2, <2>3 DEF FindProject
<1>3. CASE CreateProject
  <2>1. CommandTypeOK'
    BY <1>3, TypeParts, CallsType, Zenon DEF CreateProject
  <2>2. pc' \in {"endpoints", "idle"} /\ pc = "createProject" /\ cmd' = cmd
    BY <1>3, CallsPc DEF CreateProject
  <2>3. config' \in Config
    BY <1>3, <2>2 DEF CreateProject, StackTypeOK, Config
  <2>4. StackTypeOK'
    BY <1>3, <2>1, <2>3, NewFleetType DEF CreateProject, StackTypeOK, CommandTypeOK
  <2> QED
    BY <1>3, <2>2, <2>4 DEF CreateProject
<1>4. CASE EnsureEndpoints
  <2>1. CommandTypeOK'
    BY <1>4, TypeParts, CallsType, Zenon DEF EnsureEndpoints
  <2>2. StackTypeOK'
    BY <1>4, <2>1 DEF EnsureEndpoints, StackTypeOK, CommandTypeOK
  <2> QED
    BY <1>4, <2>2, CallsPc DEF EnsureEndpoints
<1>5. CASE StoreProject
  <2>1. StackTypeOK'
    BY <1>5, StoreConfigType, Zenon DEF StoreProject
  <2>2. pc = "store1" /\ pc' \in {"initialize", "idle"} /\ cmd' = cmd
    BY <1>5, StoreConfigPc, Zenon DEF StoreProject
  <2> QED
    BY <1>5, <2>1, <2>2 DEF StoreProject
<1>6. CASE EnsureInitialized
  <2>1. CommandTypeOK'
    BY <1>6, TypeParts, CallsType, Zenon DEF EnsureInitialized
  <2>2. StackTypeOK'
    BY <1>6, <2>1 DEF EnsureInitialized, StackTypeOK, CommandTypeOK
  <2> QED
    BY <1>6, <2>2, CallsPc DEF EnsureInitialized
<1>7. CASE StoreFleetURL
  <2>1. StackTypeOK'
    BY <1>7, StoreConfigType, Zenon DEF StoreFleetURL
  <2>2. pc = "store2" /\ pc' \in {"healthy", "idle"} /\ cmd' = cmd
    BY <1>7, StoreConfigPc, Zenon DEF StoreFleetURL
  <2> QED
    BY <1>7, <2>1, <2>2 DEF StoreFleetURL
<1>8. CASE EnsureHealthy
  <2>1. CommandTypeOK'
    BY <1>8, TypeParts, CallsType, Zenon DEF EnsureHealthy
  <2>2. StackTypeOK'
    BY <1>8, <2>1 DEF EnsureHealthy, StackTypeOK, CommandTypeOK
  <2> QED
    BY <1>8, <2>2, CallsPc DEF EnsureHealthy
<1>9. CASE AddLogstashOutput
  BY <1>9, AddOutputType, AddOutputPc DEF AddLogstashOutput
<1>10. CASE CreateAgentPolicy
  BY <1>10, CreatePolicyType, CreatePolicyPc DEF CreateAgentPolicy
<1>11. CASE CreateSystemPackagePolicy
  BY <1>11, CreatePackagePolicyType, CreatePackagePolicyPc DEF CreateSystemPackagePolicy
<1>12. CASE StartLocalServices
  <2>1. StackTypeOK'
    BY <1>12, StartServicesType, Zenon DEF StartLocalServices
  <2>2. pc = "startServices" /\ pc' \in {"updateOutput", "idle"} /\ cmd' = cmd
    BY <1>12, StartServicesPc, Zenon DEF StartLocalServices
  <2> QED
    BY <1>12, <2>1, <2>2 DEF StartLocalServices
<1>13. CASE UpdateLogstashOutput
  BY <1>13, UpdateOutputType, UpdateOutputPc DEF UpdateLogstashOutput
<1> QED
  BY <1>1, <1>2, <1>3, <1>4, <1>5, <1>6, <1>7, <1>8, <1>9, <1>10, <1>11, <1>12, <1>13 DEF Up

\* A step of a tear-down does.
LEMMA DownType == TypeOK /\ Started /\ Down => TypeOK' /\ Started'
<1> SUFFICES ASSUME TypeOK, Started, Down PROVE TypeOK' /\ Started'
  OBVIOUS
<1> USE DEF TypeOK, Started, cloud, CallSteps, StoreSteps
<1>1. CASE TearDown
  BY <1>1, StartDownType, StartPc DEF TearDown
<1>2. CASE ComposeTearDown
  BY <1>2, RemoveServicesType, RemoveServicesPc DEF ComposeTearDown
<1>3. CASE DestroyLocalServices
  <2>1. ok' \in BOOLEAN /\ fault' \in BOOLEAN /\ quiet' \in BOOLEAN /\ errs' \in BOOLEAN
    BY <1>3, TypeParts, GoesType, Zenon DEF DestroyLocalServices, CommandTypeOK
  <2>2. pc = "removeServices" /\ pc' \in {"locate", "idle"} /\ cmd' = cmd
    BY <1>3 DEF DestroyLocalServices, Goes, Returns
  <2>3. StackTypeOK'
    BY <1>3, <2>1 DEF DestroyLocalServices, StackTypeOK
  <2> QED
    BY <1>3, <2>1, <2>2, <2>3 DEF DestroyLocalServices
<1>4. CASE LocateProject
  <2>1. ok' \in BOOLEAN /\ fault' = fault /\ quiet' = quiet
    BY <1>4, TypeParts, GoesType, RefusedType DEF LocateProject
  <2>2. pc = "locate" /\ pc' \in {"deleteProject", "idle"} /\ cmd' = cmd
    BY <1>4 DEF LocateProject, Goes, Refused, Returns
  <2>3. StackTypeOK'
    BY <1>4, <2>1 DEF LocateProject, StackTypeOK
  <2> QED
    BY <1>4, <2>2, <2>3 DEF LocateProject
<1>5. CASE DeleteProject
  <2>1. ok' \in BOOLEAN /\ fault' \in BOOLEAN /\ quiet' \in BOOLEAN
    BY <1>5, TypeParts, Zenon DEF DeleteProject, Returns, Errs, CommandTypeOK
  <2>2. pc' = "idle"
    BY <1>5 DEF DeleteProject, Errs, Returns
  <2>3. StackTypeOK'
    BY <1>5, <2>1, NewFleetType DEF DeleteProject, StackTypeOK
  <2> QED
    BY <1>5, <2>2, <2>3 DEF DeleteProject
<1> QED
  BY <1>1, <1>2, <1>3, <1>4, <1>5 DEF Down

\* Every step keeps the types and the number of the command.
LEMMA NextType == TypeOK /\ Started /\ [Next]_vars => TypeOK' /\ Started'
<1> SUFFICES ASSUME TypeOK, Started, [Next]_vars PROVE TypeOK' /\ Started'
  OBVIOUS
<1>1. CASE Up
  BY <1>1, UpType
<1>2. CASE Down
  BY <1>2, DownType
<1>3. CASE Fails
  BY <1>3, CallFailsType, FailsPc DEF Fails, TypeOK, Started, cloud
<1>4. CASE Crash
  BY <1>4, KilledType, FailsPc DEF Crash, TypeOK, Started, cloud
<1>5. CASE UNCHANGED vars
  BY <1>5 DEF vars, TypeOK, StackTypeOK, Started
<1> QED
  BY <1>1, <1>2, <1>3, <1>4, <1>5 DEF Next

-----------------------------------------------------------------------------
(***************************************************************************)
(* The record of the project.                                              *)
(***************************************************************************)
\* After the configuration was stored for good, a boot does not touch it.
Late ==
    \/ EnsureHealthy \/ AddLogstashOutput \/ CreateAgentPolicy \/ CreateSystemPackagePolicy
    \/ StartLocalServices \/ UpdateLogstashOutput
LateSteps ==
    {"healthy", "addOutput", "agentPolicy", "agentPackage", "startServices", "updateOutput"}

\* These steps touch neither the record nor the projects.
LEMMA LatePc ==
    Late => /\ pc \in LateSteps /\ pc' \in LateSteps \cup {"idle"}
            /\ stored' = stored /\ projects' = projects /\ command' = command
<1> SUFFICES ASSUME Late
             PROVE  /\ pc \in LateSteps /\ pc' \in LateSteps \cup {"idle"}
                    /\ stored' = stored /\ projects' = projects /\ command' = command
  OBVIOUS
<1> USE DEF LateSteps, cloud
<1>1. CASE EnsureHealthy
  BY <1>1, CallsPc DEF EnsureHealthy, Calls
<1>2. CASE AddLogstashOutput
  BY <1>2, AddOutputPc DEF AddLogstashOutput, AddOutput, Calls, Skips
<1>3. CASE CreateAgentPolicy
  BY <1>3, CreatePolicyPc DEF CreateAgentPolicy, CreatePolicy, Calls
<1>4. CASE CreateSystemPackagePolicy
  BY <1>4, CreatePackagePolicyPc DEF CreateSystemPackagePolicy, CreatePackagePolicy, Calls
<1>5. CASE StartLocalServices
  <2>1. pc = "startServices" /\ pc' \in {"updateOutput", "idle"}
    BY <1>5, StartServicesPc, Zenon DEF StartLocalServices
  <2> QED
    BY <1>5, <2>1 DEF StartLocalServices, StartServices
<1>6. CASE UpdateLogstashOutput
  BY <1>6, UpdateOutputPc DEF UpdateLogstashOutput, UpdateOutput, Calls
<1> QED
  BY <1>1, <1>2, <1>3, <1>4, <1>5, <1>6 DEF Late

\* A tear-down keeps the record, and creates no project.
LEMMA DownPc ==
    Down => /\ pc' \in {"composeDown", "removeServices", "locate", "deleteProject", "idle"}
            /\ stored' = stored /\ projects' \subseteq projects
<1> SUFFICES ASSUME Down
             PROVE  /\ pc' \in {"composeDown", "removeServices", "locate", "deleteProject", "idle"}
                    /\ stored' = stored /\ projects' \subseteq projects
  OBVIOUS
<1> USE DEF cloud
<1>1. CASE TearDown
  BY <1>1 DEF TearDown, StartDown, StartCommand
<1>2. CASE ComposeTearDown
  BY <1>2, RemoveServicesPc DEF ComposeTearDown, RemoveServices
<1>3. CASE DestroyLocalServices
  BY <1>3 DEF DestroyLocalServices, Goes, Returns
<1>4. CASE LocateProject
  BY <1>4 DEF LocateProject, Goes, Refused, Returns
<1>5. CASE DeleteProject
  BY <1>5 DEF DeleteProject, Errs, Returns
<1> QED
  BY <1>1, <1>2, <1>3, <1>4, <1>5 DEF Down

\* storeConfig writes what the boot has in memory, or ruins the file.
LEMMA StoreConfigStores ==
    ASSUME StackTypeOK, NEW from, NEW to, NEW marks, StoreConfig(from, to, marks)
    PROVE  /\ stored' = stored \/ stored'.file = "corrupt" \/ stored'.project = config.project
           /\ pc' # "idle" => stored'.project = config.project
           /\ config' = config
  BY DEF StackTypeOK, Config, NoConfig, StoreConfig, Goes, Errs, Returns

\* Every step: a boot creates a project only if the recorded one is gone.
LEMMA RecordInv == IInv /\ [Next]_vars => SameRecord'
<1> SUFFICES ASSUME IInv, [Next]_vars PROVE SameRecord'
  OBVIOUS
<1> USE DEF IInv, SameRecord, cloud
<1>1. CASE BootUp
  BY <1>1 DEF BootUp, StartUp, StartCommand
<1>2. CASE FindProject
  BY <1>2 DEF FindProject, Skips, Goes
<1>3. CASE CreateProject
  <2>1. pc = "createProject" /\ pc' \in {"endpoints", "idle"} /\ stored' = stored
    BY <1>3, CallsPc DEF CreateProject
  <2>2. config'.project = cmd
    BY <1>3 DEF CreateProject, TypeOK, StackTypeOK, Config
  <2> QED
    BY <1>3, <2>1, <2>2 DEF CreateProject
<1>4. CASE EnsureEndpoints
  BY <1>4, CallsPc DEF EnsureEndpoints
<1>5. CASE StoreProject
  <2>1. pc = "store1" /\ pc' \in {"initialize", "idle"}
    BY <1>5, StoreConfigPc, Zenon DEF StoreProject
  <2>2. (pc' # "idle" => stored'.project = config.project) /\ config' = config
    BY <1>5, StoreConfigStores, Zenon DEF StoreProject, TypeOK
  <2> QED
    BY <2>1, <2>2
<1>6. CASE EnsureInitialized
  BY <1>6, CallsPc DEF EnsureInitialized
<1>7. CASE StoreFleetURL
  <2>1. pc' \in {"healthy", "idle"}
    BY <1>7, StoreConfigPc, Zenon DEF StoreFleetURL
  <2> QED
    BY <2>1
<1>8. CASE Late
  BY <1>8, LatePc DEF LateSteps
<1>9. CASE Down
  BY <1>9, DownPc
<1>10. CASE Fails \/ Crash
  BY <1>10, FailsPc DEF Fails, Crash
<1>11. CASE UNCHANGED vars
  BY <1>11 DEF vars
<1> QED
  BY <1>1, <1>2, <1>3, <1>4, <1>5, <1>6, <1>7, <1>8, <1>9, <1>10, <1>11 DEF Next, Up, Late

\* Type correctness and the record, for every number of commands and kills.
THEOREM RecordCorrect == Spec => []IInv
<1>1. Init => IInv
  BY InitInv
<1>2. IInv /\ [Next]_vars => IInv'
  BY NextType, RecordInv DEF IInv
<1> QED
  BY <1>1, <1>2, PTL DEF Spec

\* Type correctness, for every number of commands and kills.
THEOREM TypeCorrect == Spec => []TypeOK
  BY RecordCorrect, PTL DEF IInv

-----------------------------------------------------------------------------
(***************************************************************************)
(* A recorded project is not forgotten.                                    *)
(***************************************************************************)
\* No step replaces the record of a project that exists after it.
LEMMA RecordKept ==
    IInv /\ [Next]_vars /\ stored.file = "valid" /\ stored.project \in projects'
         /\ stored'.file = "valid" => stored'.project = stored.project
<1> SUFFICES ASSUME IInv, [Next]_vars, stored.file = "valid", stored.project \in projects',
                    stored'.file = "valid"
             PROVE  stored'.project = stored.project
  OBVIOUS
<1> USE DEF IInv, SameRecord, cloud
<1>1. CASE BootUp \/ FindProject \/ CreateProject \/ EnsureEndpoints \/ EnsureInitialized
  BY <1>1 DEF BootUp, StartUp, StartCommand, FindProject, CreateProject, EnsureEndpoints,
       EnsureInitialized
<1>2. CASE StoreProject
  <2>1. pc = "store1" /\ projects' = projects
    BY <1>2, StoreConfigPc, Zenon DEF StoreProject
  <2>2. stored' = stored \/ stored'.file = "corrupt" \/ stored'.project = config.project
    BY <1>2, StoreConfigStores, Zenon DEF StoreProject, TypeOK
  <2> QED
    BY <2>1, <2>2
<1>3. CASE StoreFleetURL
  <2>1. pc = "store2" /\ projects' = projects
    BY <1>3, StoreConfigPc, Zenon DEF StoreFleetURL
  <2>2. stored' = stored \/ stored'.file = "corrupt" \/ stored'.project = config.project
    BY <1>3, StoreConfigStores, Zenon DEF StoreFleetURL, TypeOK
  <2> QED
    BY <2>1, <2>2
<1>4. CASE Late \/ Down
  BY <1>4, LatePc, DownPc
<1>5. CASE Fails
  BY <1>5 DEF Fails, CallFails
<1>6. CASE Crash
  <2>1. stored' = stored \/ stored' = [NoConfig EXCEPT !.file = "corrupt"]
    BY <1>6 DEF Crash, KilledAt
  <2> QED
    BY <2>1 DEF NoConfig
<1>7. CASE UNCHANGED vars
  BY <1>7 DEF vars
<1> QED
  BY <1>1, <1>2, <1>3, <1>4, <1>5, <1>6, <1>7 DEF Next, Up, Late

\* No boot replaces the record of a project that exists (BootUp and createProject
\* of serverless.go).
THEOREM ProjectNeverForgotten == Spec => NeverForgotten
<1>1. IInv /\ [Next]_vars =>
        [stored.file = "valid" /\ stored.project \in projects' /\ stored'.file = "valid" =>
           stored'.project = stored.project]_vars
  BY RecordKept
<1> QED
  BY RecordCorrect, <1>1, PTL DEF Spec, NeverForgotten

-----------------------------------------------------------------------------
(***************************************************************************)
(* A tear-down that succeeds has deleted the project.                      *)
(***************************************************************************)
UpSteps ==
    {"find", "createProject", "endpoints", "store1", "initialize", "store2"} \cup LateSteps
DownSteps == {"composeDown", "removeServices", "locate", "deleteProject"}

\* Each step belongs to one kind of command; a tear-down works on the recorded
\* project, and remembers whether the services are gone.  None runs that the compose
\* file was not written for.
Phases ==
    /\ pc \in UpSteps => command = "up"
    /\ pc \in DownSteps => command = "down" /\ config = stored
    /\ pc = "composeDown" => stored.file = "absent"
    /\ pc = "removeServices" => ~errs
    /\ pc \in {"locate", "deleteProject"} =>
         (errs => fault \/ containers = {}) /\ (errs \/ containers = {})
    /\ composed \/ containers = {}

\* A step of a boot leads to a step of a boot, or ends it.
LEMMA UpPc ==
    Up => /\ pc' \in UpSteps \cup {"idle"}
          /\ command' = "up" \/ (pc \in UpSteps /\ command' = command)
<1> SUFFICES ASSUME Up
             PROVE  /\ pc' \in UpSteps \cup {"idle"}
                    /\ command' = "up" \/ (pc \in UpSteps /\ command' = command)
  OBVIOUS
<1> USE DEF UpSteps
<1>1. CASE BootUp
  BY <1>1 DEF BootUp, StartUp, StartCommand
<1>2. CASE FindProject
  <2>1. pc = "find" /\ pc' \in {"startServices", "createProject", "idle"}
    BY <1>2, CallsPc DEF FindProject
  <2> QED
    BY <1>2, <2>1 DEF FindProject, Skips, LateSteps
<1>3. CASE CreateProject
  BY <1>3, CallsPc DEF CreateProject, Calls
<1>4. CASE EnsureEndpoints
  BY <1>4, CallsPc DEF EnsureEndpoints, Calls
<1>5. CASE StoreProject
  <2>1. pc = "store1" /\ pc' \in {"initialize", "idle"}
    BY <1>5, StoreConfigPc, Zenon DEF StoreProject
  <2> QED
    BY <1>5, <2>1 DEF StoreProject, StoreConfig
<1>6. CASE EnsureInitialized
  BY <1>6, CallsPc DEF EnsureInitialized, Calls
<1>7. CASE StoreFleetURL
  <2>1. pc = "store2" /\ pc' \in {"healthy", "idle"}
    BY <1>7, StoreConfigPc, Zenon DEF StoreFleetURL
  <2> QED
    BY <1>7, <2>1 DEF StoreFleetURL, StoreConfig, LateSteps
<1>8. CASE Late
  BY <1>8, LatePc
<1> QED
  BY <1>1, <1>2, <1>3, <1>4, <1>5, <1>6, <1>7, <1>8 DEF Up, Late

\* A call that fails and a kill end the command with an error.
LEMMA FailsErrs ==
    Fails \/ Crash => pc' = "idle" /\ ok' = FALSE /\ fault' = TRUE
  BY DEF Fails, Crash, CallFails, KilledAt, Errs, Returns

\* Containers are only added once the compose file is written, which stays.
LEMMA ServicesComposed ==
    ASSUME composed \/ containers = {}, [Next]_vars PROVE composed' \/ containers' = {}
<1>1. CASE Up
  <2>1. CASE StartLocalServices
    BY <2>1 DEF StartLocalServices, StartServices
  <2>2. CASE ~StartLocalServices
    BY <1>1, <2>2
      DEF Up, BootUp, StartUp, StartCommand, FindProject, CreateProject, EnsureEndpoints,
          StoreProject, EnsureInitialized, StoreFleetURL, StoreConfig, EnsureHealthy,
          AddLogstashOutput, AddOutput, CreateAgentPolicy, CreatePolicy,
          CreateSystemPackagePolicy, CreatePackagePolicy, UpdateLogstashOutput, UpdateOutput
  <2> QED
    BY <2>1, <2>2
<1>2. CASE Down
  BY <1>2 DEF Down, TearDown, StartDown, StartCommand, ComposeTearDown, RemoveServices,
       DestroyLocalServices, LocateProject, DeleteProject
<1>3. CASE Fails \/ Crash
  BY <1>3 DEF Fails, CallFails, Crash, KilledAt
<1>4. CASE UNCHANGED vars
  BY <1>4 DEF vars
<1> QED
  BY <1>1, <1>2, <1>3, <1>4 DEF Next

\* Every step of a tear-down, as long as it does not fail, removes what it is for.
LEMMA PhasesInv ==
    Phases /\ RecordedProjectIsDeleted /\ [Next]_vars => Phases' /\ RecordedProjectIsDeleted'
<1> SUFFICES ASSUME Phases, RecordedProjectIsDeleted, [Next]_vars
             PROVE  Phases' /\ RecordedProjectIsDeleted'
  OBVIOUS
<1>c. composed' \/ containers' = {}
  BY ServicesComposed DEF Phases
<1> USE <1>c DEF Phases, RecordedProjectIsDeleted, Ended, UpSteps, DownSteps, LateSteps
<1>1. CASE Up
  <2>1. pc' \in UpSteps \cup {"idle"} /\ command' = "up"
    BY <1>1, UpPc
  <2> QED
    BY <2>1
<1>2. CASE TearDown
  BY <1>2 DEF TearDown, StartDown, StartCommand
<1>3. CASE ComposeTearDown
  <2>1. stored'.file = "absent" /\ pc' = "idle"
    BY <1>3, RemoveServicesPc DEF ComposeTearDown, RemoveServices
  <2> QED
    BY <2>1
<1>4. CASE DestroyLocalServices
  <2>1. /\ pc' = "locate" /\ (errs' \/ containers' = {})
        /\ errs' => fault' \/ containers' = {}
    BY <1>4 DEF DestroyLocalServices, Goes
  <2> QED
    BY <1>4, <2>1 DEF DestroyLocalServices
<1>5. CASE LocateProject
  <2>1. CASE config.project \in projects
    BY <1>5, <2>1 DEF LocateProject, Goes, cloud
  <2>2. CASE config.project \notin projects
    BY <1>5, <2>2 DEF LocateProject, Refused, Returns, cloud
  <2> QED
    BY <2>1, <2>2
<1>6. CASE DeleteProject
  <2>1. CASE /\ projects' = projects \ {config.project}
             /\ Returns(~errs) /\ UNCHANGED <<fault, quiet>>
    BY <1>6, <2>1 DEF DeleteProject, Returns
  <2>2. CASE Errs
    BY <1>6, <2>2 DEF DeleteProject, Errs, Returns
  <2> QED
    BY <1>6, <2>1, <2>2 DEF DeleteProject
<1>7. CASE Fails \/ Crash
  BY <1>7, FailsErrs
<1>8. CASE UNCHANGED vars
  BY <1>8 DEF vars
<1> QED
  BY <1>1, <1>2, <1>3, <1>4, <1>5, <1>6, <1>7, <1>8 DEF Next, Down

\* What a tear-down relies on and leaves.
LEMMA TearDownCorrect == Spec => [](Phases /\ RecordedProjectIsDeleted)
<1>1. Init => Phases /\ RecordedProjectIsDeleted
  BY DEF Init, StackInit, Phases, RecordedProjectIsDeleted, Ended, UpSteps, DownSteps, LateSteps
<1>2. Phases /\ RecordedProjectIsDeleted /\ [Next]_vars
        => Phases' /\ RecordedProjectIsDeleted'
  BY PhasesInv
<1> QED
  BY <1>1, <1>2, PTL DEF Spec

\* After a tear-down that succeeds, or in which no call fails, neither the recorded
\* project nor containers are left (TearDown of serverless.go).
THEOREM TearDownDeletes == Spec => []RecordedProjectIsDeleted
  BY TearDownCorrect, PTL
-----------------------------------------------------------------------------
(***************************************************************************)
(* As long as no call fails every boot ends with a stack that is ready.    *)
(***************************************************************************)
Recording == {"endpoints", "store1"}
Creating == Recording \cup {"initialize", "store2", "healthy", "addOutput", "agentPolicy"}
WithOutput == {"agentPolicy", "agentPackage", "startServices", "updateOutput"}

\* The services that are wanted run, with their agents.
Serving == Wanted \subseteq containers /\ Wanted \cap Agent \subseteq fleet.enrolled

\* A recorded project is of an earlier command until this one has created its own, whose output is
\* there before agents need it.  The Fleet Server is always that of the project.
Known ==
    /\ ~config.managed /\ ~stored.managed /\ fleet.host # "local"
    /\ stored.project <= cmd
    /\ pc = "find" => stored.project < cmd
    /\ pc \in Creating \cup {"agentPackage", "updateOutput"} => config.project = cmd
    /\ pc = "updateOutput" => opts.output = "logstash"
    /\ pc \in WithOutput /\ config.project = cmd => opts.output \in fleet.outputs \cup {"none"}

\* As long as no call failed only the recorded project exists, complete once its boot was.
Sound ==
    quiet =>
       /\ projects \subseteq {IF pc \in Recording THEN config.project ELSE stored.project}
       /\ pc \in Creating \ Recording => stored.project = config.project
       /\ pc = "createProject" => projects = {}
       /\ projects # {} /\ pc \notin Creating => fleet.agentPolicy # "absent"
       /\ pc \in {"agentPackage", "startServices"} => fleet.agentPolicy # "absent"
       /\ pc = "updateOutput" => Serving

\* The steps until the configuration is stored for good leave what is known true.
LEMMA KnownCreate ==
    ASSUME IInv, Known,
           \/ BootUp \/ FindProject \/ CreateProject \/ EnsureEndpoints \/ StoreProject
           \/ EnsureInitialized \/ StoreFleetURL
    PROVE  Known'
<1>t. /\ fleet \in Fleet /\ config \in Config /\ stored \in Config /\ cmd \in Nat
      /\ stored.project \in Nat /\ config.project \in Nat
  BY StackAssumption DEF IInv, TypeOK, StackTypeOK, Config
<1>n. NoConfig.project = 0 /\ ~NoConfig.managed
  BY DEF NoConfig
<1> USE DEF Known, Recording, Creating, WithOutput
<1>1. CASE BootUp
  <2>1. /\ pc' = "find" /\ cmd' = cmd + 1 /\ config' = stored /\ stored' = stored
        /\ fleet' = fleet
    BY <1>1 DEF BootUp, StartUp, StartCommand
  <2> QED
    BY <1>t, <2>1
<1>2. CASE FindProject
  <2>1. /\ pc = "find" /\ UNCHANGED <<cmd, stored, fleet>>
        /\ \/ pc' = "startServices" /\ config' = config
           \/ pc' = "createProject" /\ config' = NoConfig
    BY <1>2 DEF FindProject, Skips, Goes
  <2>2. config = stored
    BY <2>1 DEF IInv, SameRecord
  <2> QED
    BY <1>t, <1>n, <2>1, <2>2
<1>3. CASE CreateProject
  <2>1. /\ pc' \in {"endpoints", "idle"} /\ UNCHANGED <<cmd, stored>>
        /\ config'.project = cmd /\ config'.managed = config.managed
    BY <1>3, <1>t, CallsPc DEF CreateProject, Config
  <2>2. fleet'.host = "external"
    BY <1>3 DEF CreateProject, NewFleet
  <2> QED
    BY <1>t, <2>1, <2>2
<1>4. CASE EnsureEndpoints
  BY <1>4, CallsPc DEF EnsureEndpoints
<1>5. ASSUME NEW to, NEW from \in {"store1", "store2"}, StoreConfig(from, to, TRUE),
             to \in {"initialize", "healthy"}
      PROVE  Known'
  <2>1. pc = from /\ pc' \in {to, "idle"} /\ UNCHANGED <<cmd, config, fleet>>
    BY <1>5, StoreConfigPc DEF StoreConfig
  <2>2. \/ stored' = stored
        \/ stored' = [NoConfig EXCEPT !.file = "corrupt"]
        \/ stored' = [config EXCEPT !.file = "valid"]
    BY <1>5 DEF StoreConfig
  <2>3. stored'.project \in {stored.project, 0, config.project} /\ ~stored'.managed
    BY <2>2, <1>t, <1>n DEF NoConfig, Config
  <2> QED
    BY <1>5, <1>t, <2>1, <2>3
<1>6. CASE StoreProject \/ StoreFleetURL
  BY <1>5, <1>6 DEF StoreProject, StoreFleetURL
<1>7. CASE EnsureInitialized
  BY <1>7, CallsPc DEF EnsureInitialized
<1> QED
  BY <1>1, <1>2, <1>3, <1>4, <1>6, <1>7

\* So do the ones after it.
LEMMA KnownLate == ASSUME IInv, Known, Late PROVE Known'
<1>t. fleet \in Fleet /\ config \in Config
  BY DEF IInv, TypeOK, StackTypeOK
<1>s. stored' = stored
  BY LatePc
<1> USE DEF Known, Recording, Creating, WithOutput, SameFleet
<1>1. CASE EnsureHealthy
  BY <1>1, CallsPc DEF EnsureHealthy
<1>2. CASE AddLogstashOutput
  <2>1. pc = "addOutput" /\ pc' \in {"agentPolicy", "idle"} /\ UNCHANGED <<cmd, opts>>
    BY <1>2, AddOutputPc DEF AddLogstashOutput, AddOutput, Calls, Skips
  <2>2. config'.project = config.project /\ config'.managed = config.managed
    BY <1>2, <1>t DEF AddLogstashOutput, AddOutput, Config
  <2>3. fleet'.host = fleet.host /\ opts.output \in fleet'.outputs \cup {"none"}
    BY <1>2, <1>t, AddOutputFleet DEF AddLogstashOutput
  <2> QED
    BY <1>s, <2>1, <2>2, <2>3
<1>3. CASE CreateAgentPolicy
  <2>1. /\ pc = "agentPolicy" /\ pc' \in {"startServices", "agentPackage", "idle"}
        /\ UNCHANGED <<cmd, opts, config>>
    BY <1>3, CreatePolicyPc DEF CreateAgentPolicy, CreatePolicy, Calls
  <2>2. SameFleet({"outputs", "host"})
    BY <1>3, <1>t, CreatePolicyFleet, Zenon DEF CreateAgentPolicy
  <2> QED
    BY <1>s, <2>1, <2>2
<1>4. CASE CreateSystemPackagePolicy
  <2>1. /\ pc = "agentPackage" /\ pc' \in {"startServices", "idle"}
        /\ UNCHANGED <<cmd, opts, config>>
    BY <1>4, CreatePackagePolicyPc DEF CreateSystemPackagePolicy, CreatePackagePolicy, Calls
  <2>2. SameFleet({"outputs", "host"})
    BY <1>4, <1>t, CreatePackagePolicyFleet DEF CreateSystemPackagePolicy
  <2> QED
    BY <1>s, <2>1, <2>2
<1>5. CASE StartLocalServices
  <2> DEFINE to == IF config.project = cmd /\ opts.output = "logstash" THEN "updateOutput"
                   ELSE "idle"
  <2>1. pc = "startServices" /\ pc' \in {to, "idle"} /\ UNCHANGED <<cmd, opts, config>>
    <3>1. pc = "startServices" /\ pc' \in {to, "idle"}
      BY <1>5, StartServicesPc, Zenon DEF StartLocalServices
    <3> QED
      BY <1>5, <3>1 DEF StartLocalServices, StartServices
  <2>2. SameFleet({"outputs", "host"})
    BY <1>5, <1>t, StartServicesFleet, Zenon DEF StartLocalServices
  <2> QED
    BY <1>s, <2>1, <2>2
<1>6. CASE UpdateLogstashOutput
  <2>1. pc' = "idle" /\ UNCHANGED <<cmd, config>>
    BY <1>6, UpdateOutputPc DEF UpdateLogstashOutput, UpdateOutput
  <2>2. fleet'.host = fleet.host
    BY <1>6, <1>t, UpdateOutputFleet DEF UpdateLogstashOutput
  <2> QED
    BY <1>s, <2>1, <2>2
<1> QED
  BY <1>1, <1>2, <1>3, <1>4, <1>5, <1>6 DEF Late

\* Every step leaves it true.
LEMMA KnownNext == ASSUME IInv, Known, [Next]_vars PROVE Known'
<1>t. fleet \in Fleet /\ cmd \in Nat /\ stored.project \in Nat /\ cmd + 1 \in Nat
  BY StackAssumption DEF IInv, TypeOK, StackTypeOK, Config
<1>1. CASE Up
  BY <1>1, KnownCreate, KnownLate DEF Up, Late
<1> USE DEF Known, Recording, Creating, WithOutput
<1>2. CASE Down
  <2>1. /\ pc' \in {"composeDown", "removeServices", "locate", "deleteProject", "idle"}
        /\ stored' = stored
    BY <1>2, DownPc
  <2>2. CASE TearDown
    <3>1. cmd' = cmd + 1 /\ config' = stored /\ fleet' = fleet
      BY <2>2 DEF TearDown, StartDown, StartCommand
    <3> QED
      BY <1>t, <2>1, <3>1
  <2>3. CASE ~TearDown
    <3>1. cmd' = cmd /\ config' = config
      BY <1>2, <2>3 DEF Down, ComposeTearDown, RemoveServices, Calls, DestroyLocalServices,
           LocateProject, DeleteProject
    <3>2. fleet' = fleet \/ fleet' = NewFleet("none")
      BY <1>2, <2>3 DEF Down, ComposeTearDown, RemoveServices, DestroyLocalServices,
           LocateProject, DeleteProject
    <3>3. fleet'.host \in {fleet.host, "none"}
      BY <3>2 DEF NewFleet
    <3> QED
      BY <2>1, <3>1, <3>3
  <2> QED
    BY <2>2, <2>3
<1>3. CASE Fails
  BY <1>3, FailsPc DEF Fails, CallFails
<1>4. CASE Crash
  <2>1. pc' = "idle" /\ UNCHANGED <<cmd, config, fleet>>
    BY <1>4, FailsPc DEF Crash, KilledAt
  <2>2. stored' = stored \/ (stored'.project = 0 /\ ~stored'.managed)
    BY <1>4 DEF Crash, KilledAt, NoConfig
  <2> QED
    BY <1>t, <2>1, <2>2
<1>5. CASE UNCHANGED vars
  BY <1>5 DEF vars
<1> QED
  BY <1>1, <1>2, <1>3, <1>4, <1>5 DEF Next

\* While no call fails: what exists is recorded, or the boot is about to.
LEMMA SoundCreate ==
    ASSUME IInv, Known, Sound, quiet',
           \/ BootUp \/ FindProject \/ CreateProject \/ EnsureEndpoints \/ StoreProject
           \/ EnsureInitialized \/ StoreFleetURL
    PROVE  Sound' /\ UpIsReady'
<1>t. config \in Config
  BY DEF IInv, TypeOK, StackTypeOK
<1>c. ASSUME NEW from, NEW to, Calls(from, to) \/ Skips(from, to), to # "idle"
      PROVE  pc = from /\ pc' = to /\ quiet
  BY <1>c DEF Calls, Skips, Goes, Errs
<1>s. ASSUME NEW from, NEW to, StoreConfig(from, to, TRUE), to # "idle"
      PROVE  /\ pc = from /\ pc' = to /\ quiet /\ config' = config /\ fleet' = fleet
             /\ stored'.project = config.project
  BY <1>s, <1>t DEF StoreConfig, Goes, Errs, Config
<1> USE DEF Sound, UpIsReady, Ended, Recording, Creating, cloud
<1>1. CASE BootUp
  BY <1>1 DEF BootUp, StartUp, StartCommand
<1>2. CASE FindProject
  <2>1. /\ pc = "find" /\ quiet /\ UNCHANGED <<projects, stored, fleet>>
        /\ \/ pc' = "startServices" /\ config.project \in projects
           \/ pc' = "createProject" /\ config.project \notin projects
    BY <1>2, <1>c DEF FindProject
  <2>2. config = stored
    BY <2>1 DEF IInv, SameRecord
  <2> QED
    BY <2>1, <2>2
<1>3. CASE CreateProject
  <2>1. pc = "createProject" /\ pc' = "endpoints" /\ quiet
    BY <1>3, <1>c DEF CreateProject
  <2>2. projects' = {cmd} /\ config'.project = cmd
    BY <1>3, <1>t, <2>1 DEF CreateProject, Config
  <2> QED
    BY <2>1, <2>2
<1>4. CASE EnsureEndpoints
  BY <1>4, <1>c DEF EnsureEndpoints
<1>5. CASE StoreProject
  <2>1. /\ pc = "store1" /\ pc' = "initialize" /\ quiet /\ config' = config /\ fleet' = fleet
        /\ stored'.project = config.project
    BY <1>5, <1>s DEF StoreProject
  <2>2. projects' = projects
    BY <1>5 DEF StoreProject
  <2> QED
    BY <2>1, <2>2
<1>6. CASE EnsureInitialized
  BY <1>6, <1>c DEF EnsureInitialized
<1>7. CASE StoreFleetURL
  <2>1. /\ pc = "store2" /\ pc' = "healthy" /\ quiet /\ config' = config /\ fleet' = fleet
        /\ stored'.project = config.project
    BY <1>7, <1>s DEF StoreFleetURL
  <2>2. projects' = projects
    BY <1>7 DEF StoreFleetURL
  <2> QED
    BY <2>1, <2>2
<1> QED
  BY <1>1, <1>2, <1>3, <1>4, <1>5, <1>6, <1>7

\* Agents are only started with a policy, and with the output of a new project.
LEMMA SoundLate == ASSUME IInv, Known, Sound, quiet', Late PROVE Sound' /\ UpIsReady'
<1>t. fleet \in Fleet /\ config \in Config
  BY DEF IInv, TypeOK, StackTypeOK
<1>k. pc \in LateSteps /\ stored' = stored /\ projects' = projects
  BY LatePc
<1>c. ASSUME NEW from, NEW to, Calls(from, to) \/ Skips(from, to)
      PROVE  /\ pc = from /\ quiet /\ UNCHANGED <<cmd, opts>>
             /\ IF to = "idle" THEN Returns(TRUE) ELSE pc' = to
  BY <1>c DEF Calls, Skips, Goes, Errs
<1>w. ASSUME config' = config, opts' = opts PROVE Wanted' = Wanted /\ Agent' = Agent
  BY <1>w DEF Wanted, Agent
<1> USE DEF Sound, UpIsReady, Ended, Recording, Creating, LateSteps, SameFleet
<1>1. CASE EnsureHealthy
  <2>1. pc = "healthy" /\ pc' = "addOutput" /\ quiet /\ config' = config /\ fleet' = fleet
    BY <1>1, <1>c DEF EnsureHealthy
  <2> QED
    BY <1>k, <2>1
<1>2. CASE AddLogstashOutput
  <2>1. pc = "addOutput" /\ pc' = "agentPolicy" /\ quiet
    BY <1>2, <1>c DEF AddLogstashOutput, AddOutput
  <2>2. config'.project = config.project
    BY <1>2, <1>t DEF AddLogstashOutput, AddOutput, Config
  <2> QED
    BY <1>k, <2>1, <2>2
<1>3. CASE CreateAgentPolicy
  <2>1. /\ pc = "agentPolicy" /\ pc' \in {"startServices", "agentPackage"} /\ quiet
        /\ fleet'.agentPolicy # "absent"
    BY <1>3, <1>t, <1>c DEF CreateAgentPolicy, CreatePolicy, Fleet
  <2> QED
    BY <1>k, <2>1
<1>4. CASE CreateSystemPackagePolicy
  <2>1. /\ pc = "agentPackage" /\ pc' = "startServices" /\ quiet /\ fleet'.agentPolicy = "full"
    BY <1>4, <1>t, <1>c DEF CreateSystemPackagePolicy, CreatePackagePolicy, Fleet
  <2> QED
    BY <1>k, <2>1
<1>5. CASE StartLocalServices
  <2> DEFINE to == IF config.project = cmd /\ opts.output = "logstash" THEN "updateOutput"
                   ELSE "idle"
  <2>1. pc = "startServices" /\ UNCHANGED <<cmd, opts, config>>
    BY <1>5 DEF StartLocalServices, StartServices
  <2>2. CASE ServicesUp /\ Goes(to)
    <3>1. quiet /\ (to = "idle" => pc' = "idle" /\ ok' = TRUE) /\ (to # "idle" => pc' = to)
      BY <2>2 DEF Goes, Returns
    <3>2. /\ fleet'.agentPolicy = fleet.agentPolicy /\ fleet'.outputs = fleet.outputs
          /\ fleet'.enrolled = fleet.enrolled \cup (Wanted \cap Agent)
      BY <2>2, <1>t DEF ServicesUp, Fleet
    <3>3. Serving' /\ "elastic-agent" \in fleet'.enrolled /\ Wanted' \subseteq containers'
      BY <2>1, <2>2, <3>2, <1>w DEF ServicesUp, Serving, Wanted, Agent
    <3>4. to = "idle" /\ config.project = cmd => Ready'
      BY <2>1, <3>2, <3>3 DEF Ready, Serving, Known, WithOutput
    <3> QED
      BY <1>k, <2>1, <3>1, <3>2, <3>3, <3>4
  <2>3. CASE ~CanStart(TRUE) /\ Refused
    <3>1. quiet
      BY <2>3 DEF Refused
    <3>2. CanStart(TRUE)
      BY <2>1, <3>1 DEF CanStart, Known
    <3> QED
      BY <2>3, <3>2
  <2> QED
    BY <1>5, <2>2, <2>3 DEF StartLocalServices, StartServices, Errs
<1>6. CASE UpdateLogstashOutput
  <2>1. pc = "updateOutput"
    BY <1>6, UpdateOutputPc DEF UpdateLogstashOutput
  <2>2. "logstash" \in fleet.outputs /\ opts.output = "logstash"
    BY <2>1 DEF Known, WithOutput, Creating
  <2>3. /\ pc' = "idle" /\ ok' = TRUE /\ quiet /\ UNCHANGED <<cmd, opts, config, containers>>
        /\ fleet' = [fleet EXCEPT !.certified = TRUE]
    BY <1>6, <2>2, <1>c DEF UpdateLogstashOutput, UpdateOutput, Returns
  <2>4. /\ fleet'.agentPolicy = fleet.agentPolicy /\ fleet'.outputs = fleet.outputs
        /\ fleet'.enrolled = fleet.enrolled /\ fleet'.certified
    BY <2>3, <1>t DEF Fleet
  <2>5. Ready' /\ "elastic-agent" \in fleet'.enrolled
    BY <2>1, <2>2, <2>3, <2>4, <1>w DEF Ready, Serving, Wanted, Agent
  <2> QED
    BY <1>k, <2>1, <2>3, <2>4, <2>5 DEF Ready
<1> QED
  BY <1>1, <1>2, <1>3, <1>4, <1>5, <1>6 DEF Late

\* A tear-down that succeeds leaves no project.
LEMMA SoundDown ==
    ASSUME IInv, Phases, Sound, quiet', Down PROVE Sound' /\ UpIsReady'
<1> USE DEF Sound, UpIsReady, Ended, Recording, Creating, cloud
<1>p. /\ pc' \in {"composeDown", "removeServices", "locate", "deleteProject", "idle"}
      /\ stored' = stored
  BY DownPc
<1>1. CASE TearDown
  BY <1>1, <1>p DEF TearDown, StartDown, StartCommand
<1>2. CASE ComposeTearDown
  <2>1. pc = "composeDown" /\ quiet /\ UNCHANGED <<fleet, projects, command>>
    BY <1>2 DEF ComposeTearDown, RemoveServices, Calls, Goes, Errs, Refused
  <2> QED
    BY <1>p, <2>1 DEF Phases, DownSteps
<1>3. CASE DestroyLocalServices
  <2>1. pc = "removeServices" /\ quiet /\ UNCHANGED <<fleet, projects, command>>
    BY <1>3 DEF DestroyLocalServices, Goes
  <2> QED
    BY <1>p, <2>1 DEF Phases, DownSteps
<1>4. CASE LocateProject
  <2>1. pc = "locate" /\ quiet /\ UNCHANGED <<fleet, projects, command>>
    BY <1>4 DEF LocateProject, Goes, Refused
  <2> QED
    BY <1>p, <2>1 DEF Phases, DownSteps
<1>5. CASE DeleteProject
  <2>1. /\ pc = "deleteProject" /\ quiet /\ projects' = projects \ {config.project}
        /\ command' = command
    BY <1>5 DEF DeleteProject, Errs
  <2>2. config = stored /\ command = "down"
    BY <2>1 DEF Phases, DownSteps
  <2> QED
    BY <1>p, <2>1, <2>2
<1> QED
  BY <1>1, <1>2, <1>3, <1>4, <1>5 DEF Down

\* Every step.
LEMMA SoundNext ==
    IInv /\ Phases /\ Known /\ Sound /\ UpIsReady /\ [Next]_vars => Sound' /\ UpIsReady'
<1> SUFFICES ASSUME IInv, Phases, Known, Sound, UpIsReady, [Next]_vars, quiet'
             PROVE  Sound' /\ UpIsReady'
  BY DEF Sound, UpIsReady
<1>1. CASE Up
  BY <1>1, SoundCreate, SoundLate DEF Up, Late
<1>2. CASE Down
  BY <1>2, SoundDown
<1>3. CASE Fails \/ Crash
  BY <1>3 DEF Fails, Crash, CallFails, KilledAt, Errs
<1>4. CASE UNCHANGED vars
  <2>1. Wanted' = Wanted /\ Agent' = Agent
    BY <1>4 DEF vars, Wanted, Agent
  <2> QED
    BY <1>4, <2>1 DEF vars, Sound, UpIsReady, Ended, Ready, Serving, Recording, Creating
<1> QED
  BY <1>1, <1>2, <1>3, <1>4 DEF Next

\* On a profile on which no call ever failed every boot ends well, and one that created its project
\* leaves it complete (BootUp of serverless.go).
THEOREM BootIsReady == Spec => []UpIsReady
<1>1. Init => Known /\ Sound /\ UpIsReady
  BY DEF Init, StackInit, NewFleet, NoConfig, Known, Sound, UpIsReady, Ended, Recording, Creating,
       WithOutput
<1>2. IInv /\ Known /\ [Next]_vars => Known'
  BY KnownNext
<1>3. IInv /\ Phases /\ Known /\ Sound /\ UpIsReady /\ [Next]_vars => Sound' /\ UpIsReady'
  BY SoundNext
<1> QED
  BY <1>1, <1>2, <1>3, RecordCorrect, TearDownCorrect, PTL DEF Spec
=============================================================================
