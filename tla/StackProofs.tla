----------------------------- MODULE StackProofs -----------------------------
(***************************************************************************)
(* Lemmas about the steps that the providers share: each of them keeps the *)
(* types of the shared state.                                              *)
(***************************************************************************)
EXTENDS Stack, TLAPS

\* The state without what the commands return.
DataTypeOK ==
    /\ config \in Config /\ stored \in Config
    /\ fleet \in Fleet
    /\ containers \subseteq Service /\ composed \in BOOLEAN

\* What a command is and returns.
CommandTypeOK ==
    /\ command \in {"up", "down"}
    /\ opts \in [output : Output, monitored : BOOLEAN]
    /\ cmd \in 0..MaxCommands /\ crashes \in 0..MaxCrashes
    /\ ok \in BOOLEAN /\ fault \in BOOLEAN /\ quiet \in BOOLEAN /\ recorded \in BOOLEAN

\* The type of the state is that of its two parts.
LEMMA TypeParts == StackTypeOK <=> DataTypeOK /\ CommandTypeOK
  BY DEF StackTypeOK, DataTypeOK, CommandTypeOK

\* A file without configuration, corrupt or not, and the Fleet of a new stack.
LEMMA NoConfigType ==
    /\ NoConfig \in Config
    /\ [NoConfig EXCEPT !.file = "corrupt"] \in Config
    /\ [NoConfig EXCEPT !.file = "valid"] \in Config
<1>1. 0 \in 0..MaxCommands
  BY StackAssumption
<1>2. NoConfig \in Config
  BY <1>1 DEF NoConfig, Config, Output
<1>3. \A f \in {"absent", "valid", "corrupt"} : [NoConfig EXCEPT !.file = f] \in Config
  BY <1>2 DEF Config
<1> QED
  BY <1>2, <1>3

\* The Fleet of a new stack.
LEMMA NewFleetType ==
    ASSUME NEW h \in {"none", "external", "local"} PROVE NewFleet(h) \in Fleet
  BY DEF NewFleet, Fleet, PolicyState, Output

\* A step that ends or goes on keeps what a command returns.
LEMMA GoesType ==
    ASSUME CommandTypeOK, NEW to, Goes(to)
    PROVE  ok' \in BOOLEAN /\ fault' = fault /\ quiet' = quiet
  BY Zenon DEF CommandTypeOK, Goes, Returns

\* A step that returns an error keeps what a command returns.
LEMMA ErrsType ==
    ASSUME Errs PROVE ok' \in BOOLEAN /\ fault' \in BOOLEAN /\ quiet' \in BOOLEAN
  BY DEF Errs, Returns

\* So does one that is refused.
LEMMA RefusedType ==
    ASSUME Refused PROVE ok' \in BOOLEAN /\ fault' = fault /\ quiet' = quiet
  BY DEF Refused, Returns

\* A call leaves the command what it is.
LEMMA CallsType ==
    ASSUME CommandTypeOK, NEW from, NEW to, Calls(from, to), recorded' = recorded
    PROVE  CommandTypeOK'
  BY GoesType, ErrsType, Zenon DEF Calls, CommandTypeOK

\* A step with nothing to do leaves the command what it is.
LEMMA SkipsType ==
    ASSUME CommandTypeOK, NEW from, NEW to, Skips(from, to), recorded' = recorded
    PROVE  CommandTypeOK'
  BY GoesType, Zenon DEF Skips, CommandTypeOK

-----------------------------------------------------------------------------
(***************************************************************************)
(* The steps that start and end commands and store the configuration.      *)
(***************************************************************************)
\* Starting a boot keeps the types.
LEMMA StartUpType ==
    ASSUME StackTypeOK, NEW first, StartUp(first), config' \in Config PROVE StackTypeOK'
<1>1. cmd' \in 0..MaxCommands
  BY StackAssumption DEF StackTypeOK, StartUp, StartCommand
<1>2. opts' \in [output : Output, monitored : BOOLEAN]
  BY StackAssumption DEF StartUp
<1>3. ok' \in BOOLEAN /\ fault' \in BOOLEAN /\ quiet' \in BOOLEAN /\ recorded' \in BOOLEAN
  BY Zenon DEF StackTypeOK, StartUp, StartCommand
<1> QED
  BY <1>1, <1>2, <1>3 DEF StackTypeOK, StartUp, StartCommand

\* Starting a tear-down keeps the types.
LEMMA StartDownType ==
    ASSUME StackTypeOK, NEW first, StartDown(first) PROVE StackTypeOK'
<1>1. cmd' \in 0..MaxCommands
  BY StackAssumption DEF StackTypeOK, StartDown, StartCommand
<1>2. ok' \in BOOLEAN /\ fault' \in BOOLEAN /\ quiet' \in BOOLEAN /\ recorded' \in BOOLEAN
  BY Zenon DEF StackTypeOK, StartDown, StartCommand
<1> QED
  BY <1>1, <1>2 DEF StackTypeOK, StartDown, StartCommand

\* storeConfig keeps the types, also if it leaves the file cut short.
LEMMA StoreConfigType ==
    ASSUME StackTypeOK, NEW from, NEW to, NEW marks \in BOOLEAN, StoreConfig(from, to, marks)
    PROVE  StackTypeOK'
<1>1. stored' \in Config
  <2>1. [config EXCEPT !.file = "valid"] \in Config
    BY DEF StackTypeOK, Config
  <2> QED
    BY <2>1, NoConfigType DEF StackTypeOK, StoreConfig
<1>2. CommandTypeOK
  BY TypeParts
<1>3. ok' \in BOOLEAN /\ fault' \in BOOLEAN /\ quiet' \in BOOLEAN /\ recorded' \in BOOLEAN
  <2>1. CASE Goes(to) /\ recorded' = (recorded \/ marks)
    BY <2>1, <1>2, GoesType, Zenon DEF CommandTypeOK
  <2>2. CASE Errs /\ recorded' = recorded
    BY <2>2, <1>2, ErrsType, Zenon DEF CommandTypeOK
  <2> QED
    BY <2>1, <2>2 DEF StoreConfig
<1> QED
  BY <1>1, <1>3 DEF StackTypeOK, StoreConfig

\* A call that fails keeps the types.
LEMMA CallFailsType ==
    ASSUME StackTypeOK, NEW steps, CallFails(steps) PROVE StackTypeOK'
  BY ErrsType DEF StackTypeOK, CallFails

\* So does a kill.
LEMMA KilledType ==
    ASSUME StackTypeOK, NEW steps, KilledAt(steps) PROVE StackTypeOK'
<1>1. crashes' \in 0..MaxCrashes
  BY StackAssumption DEF StackTypeOK, KilledAt
<1>2. stored' \in Config
  BY NoConfigType DEF StackTypeOK, KilledAt
<1> QED
  BY <1>1, <1>2, ErrsType DEF StackTypeOK, KilledAt

-----------------------------------------------------------------------------
(***************************************************************************)
(* The steps on Fleet and on the local services.                           *)
(***************************************************************************)
\* createAgentPolicy and createFleetServerPolicy keep the types.
LEMMA CreatePolicyType ==
    ASSUME StackTypeOK, NEW policy \in {"agentPolicy", "serverPolicy"}, NEW from, NEW package,
           NEW to, NEW needsPackage, CreatePolicy(policy, from, package, to, needsPackage)
    PROVE  StackTypeOK'
<1>1. fleet' \in Fleet
  BY DEF StackTypeOK, CreatePolicy, Fleet, PolicyState, Config
<1>2. CommandTypeOK'
  BY TypeParts, CallsType, Zenon DEF CreatePolicy
<1> QED
  BY <1>1, <1>2 DEF StackTypeOK, CommandTypeOK, CreatePolicy

\* createSystemPackagePolicy and createFleetServerPackagePolicy keep the types.
LEMMA CreatePackagePolicyType ==
    ASSUME StackTypeOK, NEW policy \in {"agentPolicy", "serverPolicy"}, NEW from, NEW to,
           CreatePackagePolicy(policy, from, to)
    PROVE  StackTypeOK'
<1>1. fleet' \in Fleet
  BY DEF StackTypeOK, CreatePackagePolicy, Fleet, PolicyState
<1>2. CommandTypeOK'
  BY TypeParts, CallsType, Zenon DEF CreatePackagePolicy
<1> QED
  BY <1>1, <1>2 DEF StackTypeOK, CommandTypeOK, CreatePackagePolicy

\* addFleetOutput keeps the types.
LEMMA AddOutputType ==
    ASSUME StackTypeOK, NEW from, NEW to, AddOutput(from, to) PROVE StackTypeOK'
<1>1. fleet' \in Fleet
  BY DEF StackTypeOK, AddOutput, Fleet
<1>2. config' \in Config
  BY DEF StackTypeOK, AddOutput, Config
<1>3. CommandTypeOK'
  BY TypeParts, CallsType, SkipsType, Zenon DEF AddOutput
<1> QED
  BY <1>1, <1>2, <1>3 DEF StackTypeOK, CommandTypeOK, AddOutput

\* updateLogstashFleetOutput keeps the types.
LEMMA UpdateOutputType ==
    ASSUME StackTypeOK, NEW from, NEW to, UpdateOutput(from, to) PROVE StackTypeOK'
<1>1. fleet' \in Fleet
  BY DEF StackTypeOK, UpdateOutput, Fleet
<1>2. CommandTypeOK'
  <2>1. CASE Calls(from, to)
    BY <2>1, TypeParts, CallsType, Zenon DEF UpdateOutput
  <2>2. CASE Refused /\ UNCHANGED <<command, opts, cmd, crashes>>
    BY <2>2, TypeParts, RefusedType DEF UpdateOutput, CommandTypeOK
  <2> QED
    BY <2>1, <2>2 DEF UpdateOutput
<1> QED
  BY <1>1, <1>2 DEF StackTypeOK, CommandTypeOK, UpdateOutput

\* An agent that enrolls keeps the types.
LEMMA AgentEnrollsType ==
    ASSUME StackTypeOK, NEW a, NEW external, AgentEnrolls(a, external) PROVE StackTypeOK'
<1>1. fleet' \in Fleet
  BY DEF StackTypeOK, AgentEnrolls, Fleet
<1> QED
  BY <1>1 DEF StackTypeOK, AgentEnrolls, history

\* docker compose up keeps the types, however it ends.
LEMMA StartServicesType ==
    ASSUME StackTypeOK, NEW from, NEW to, NEW external, StartServices(from, to, external)
    PROVE  StackTypeOK'
<1>1. Wanted \subseteq Service
  BY DEF Wanted, Service, Agent
<1>2. containers' \subseteq Service
  BY <1>1 DEF StackTypeOK, StartServices, ServicesUp, ServicesLeft
<1>3. fleet' \in Fleet
  <2>1. [fleet EXCEPT !.enrolled = @ \cup (Wanted \cap Agent)] \in Fleet
    BY DEF StackTypeOK, Fleet
  <2> QED
    BY <2>1 DEF StackTypeOK, StartServices, ServicesUp, ServicesLeft
<1>4. CommandTypeOK
  BY TypeParts
<1>5. ok' \in BOOLEAN /\ fault' \in BOOLEAN /\ quiet' \in BOOLEAN
  <2>1. CASE Goes(to)
    BY <2>1, <1>4, GoesType, Zenon DEF CommandTypeOK
  <2>2. CASE Errs
    BY <2>2, ErrsType
  <2>3. CASE Refused
    BY <2>3, <1>4, RefusedType, Zenon DEF CommandTypeOK
  <2>4. CASE /\ IF to = "idle" THEN Returns(TRUE) ELSE pc' = to /\ UNCHANGED ok
             /\ fault' = TRUE /\ quiet' = FALSE
    BY <2>4, <1>4, Zenon DEF CommandTypeOK, Returns
  <2> QED
    BY <2>1, <2>2, <2>3, <2>4 DEF StartServices
<1> QED
  BY <1>2, <1>3, <1>5 DEF StackTypeOK, StartServices

\* docker compose down keeps the types.
LEMMA RemoveServicesType ==
    ASSUME StackTypeOK, NEW from, NEW to, RemoveServices(from, to) PROVE StackTypeOK'
<1>1. CommandTypeOK'
  <2>1. CASE Calls(from, to)
    BY <2>1, TypeParts, CallsType, Zenon DEF RemoveServices
  <2>2. CASE Refused /\ UNCHANGED <<command, opts, cmd, crashes>>
    BY <2>2, TypeParts, RefusedType DEF RemoveServices, CommandTypeOK
  <2> QED
    BY <2>1, <2>2 DEF RemoveServices
<1> QED
  BY <1>1 DEF StackTypeOK, CommandTypeOK, RemoveServices

-----------------------------------------------------------------------------
(***************************************************************************)
(* Where the steps lead: on, or to the end of the command.                 *)
(***************************************************************************)
\* A call goes on or ends the command.
LEMMA CallsPc ==
    ASSUME NEW from, NEW to, Calls(from, to) \/ Skips(from, to)
    PROVE  pc = from /\ pc' \in {to, "idle"} /\ cmd' = cmd
  BY DEF Calls, Skips, Goes, Errs, Returns

\* storeConfig goes on or ends the command.
LEMMA StoreConfigPc ==
    ASSUME NEW from, NEW to, NEW marks, StoreConfig(from, to, marks)
    PROVE  pc = from /\ pc' \in {to, "idle"} /\ cmd' = cmd
  BY DEF StoreConfig, Goes, Errs, Returns

\* Creating a policy goes on, to its package policy if it is new, or ends the command.
LEMMA CreatePolicyPc ==
    ASSUME NEW policy, NEW from, NEW package, NEW to, NEW needsPackage,
           CreatePolicy(policy, from, package, to, needsPackage)
    PROVE  pc = from /\ pc' \in {to, package, "idle"} /\ cmd' = cmd
  BY DEF CreatePolicy, Calls, Goes, Errs, Returns

\* Creating a package policy goes on or ends the command.
LEMMA CreatePackagePolicyPc ==
    ASSUME NEW policy, NEW from, NEW to, CreatePackagePolicy(policy, from, to)
    PROVE  pc = from /\ pc' \in {to, "idle"} /\ cmd' = cmd
  BY CallsPc DEF CreatePackagePolicy

\* addFleetOutput goes on or ends the command.
LEMMA AddOutputPc ==
    ASSUME NEW from, NEW to, AddOutput(from, to)
    PROVE  pc = from /\ pc' \in {to, "idle"} /\ cmd' = cmd
  BY CallsPc DEF AddOutput

\* updateLogstashFleetOutput goes on or ends the command.
LEMMA UpdateOutputPc ==
    ASSUME NEW from, NEW to, UpdateOutput(from, to)
    PROVE  pc = from /\ pc' \in {to, "idle"} /\ cmd' = cmd
  BY CallsPc DEF UpdateOutput, Refused, Returns

\* docker compose up goes on or ends the command.
LEMMA StartServicesPc ==
    ASSUME NEW from, NEW to, NEW external, StartServices(from, to, external)
    PROVE  pc = from /\ pc' \in {to, "idle"} /\ cmd' = cmd
<1>1. ASSUME Goes(to) \/ Errs \/ Refused PROVE pc' \in {to, "idle"}
  BY <1>1 DEF Goes, Errs, Refused, Returns
<1>2. ASSUME IF to = "idle" THEN Returns(TRUE) ELSE pc' = to /\ UNCHANGED ok
      PROVE  pc' \in {to, "idle"}
  BY <1>2 DEF Returns
<1> QED
  BY <1>1, <1>2 DEF StartServices

\* docker compose down goes on or ends the command.
LEMMA RemoveServicesPc ==
    ASSUME NEW from, NEW to, RemoveServices(from, to)
    PROVE  pc = from /\ pc' \in {to, "idle"} /\ cmd' = cmd
  BY CallsPc DEF RemoveServices, Refused, Returns

\* A command starts when none runs, and has a number of its own.
LEMMA StartPc ==
    ASSUME StackTypeOK, NEW first, StartUp(first) \/ StartDown(first)
    PROVE  pc = "idle" /\ pc' = first /\ cmd' \in 1..MaxCommands
<1>1. PICK c : StartCommand(c, first)
  BY DEF StartUp, StartDown
<1>2. cmd \in 0..MaxCommands /\ cmd < MaxCommands /\ cmd' = cmd + 1
  BY <1>1 DEF StackTypeOK, StartCommand
<1>3. cmd' \in 1..MaxCommands
  BY <1>2, StackAssumption
<1> QED
  BY <1>1, <1>3 DEF StartCommand

\* A call that fails and a kill end the command.
LEMMA FailsPc ==
    ASSUME NEW steps, CallFails(steps) \/ KilledAt(steps) PROVE pc' = "idle" /\ cmd' = cmd
  BY DEF CallFails, KilledAt, Errs, Returns

\* A call goes on or ends the command with an error.
LEMMA CallsEnds ==
    ASSUME NEW from, NEW to, Calls(from, to)
    PROVE  \/ pc' = to /\ (to = "idle" => ok' = TRUE)
           \/ pc' = "idle" /\ ok' = FALSE /\ fault' = TRUE
  BY DEF Calls, Goes, Errs, Returns

-----------------------------------------------------------------------------
(***************************************************************************)
(* What the calls do to the fields of Fleet.                               *)
(***************************************************************************)
SameFleet(fields) == \A f \in fields : fleet'[f] = fleet[f]

\* createAgentPolicy names an output; both creations leave outputs and agents alone.
LEMMA CreatePolicyFleet ==
    ASSUME fleet \in Fleet, NEW policy \in {"agentPolicy", "serverPolicy"}, NEW from,
           NEW package, NEW to, NEW needs, CreatePolicy(policy, from, package, to, needs)
    PROVE  /\ SameFleet({"outputs", "host", "enrolled"})
           /\ policy = "agentPolicy" => /\ fleet'.serverPolicy = fleet.serverPolicy
                                        /\ fleet'.dataOutput \in {fleet.dataOutput, config.output}
           /\ policy = "serverPolicy" => SameFleet({"agentPolicy", "dataOutput"})
  BY DEF CreatePolicy, SameFleet, Fleet

\* A package policy changes nothing but its policy.
LEMMA CreatePackagePolicyFleet ==
    ASSUME fleet \in Fleet, NEW policy \in {"agentPolicy", "serverPolicy"}, NEW from, NEW to,
           CreatePackagePolicy(policy, from, to)
    PROVE  /\ SameFleet({"outputs", "host", "enrolled", "dataOutput"})
           /\ policy = "agentPolicy" => fleet'.serverPolicy = fleet.serverPolicy
           /\ policy = "serverPolicy" => fleet'.agentPolicy = fleet.agentPolicy
  BY DEF CreatePackagePolicy, SameFleet, Fleet

\* addFleetOutput adds the output that was asked for, if any, and nothing else.
LEMMA AddOutputFleet ==
    ASSUME fleet \in Fleet, NEW from, NEW to, AddOutput(from, to)
    PROVE  /\ SameFleet({"agentPolicy", "serverPolicy", "host", "enrolled", "dataOutput"})
           /\ fleet'.outputs = fleet.outputs \cup ({opts.output} \ {"none"})
  BY DEF AddOutput, SameFleet, Fleet

\* updateLogstashFleetOutput changes the certificates only.
LEMMA UpdateOutputFleet ==
    ASSUME fleet \in Fleet, NEW from, NEW to, UpdateOutput(from, to)
    PROVE  SameFleet({"agentPolicy", "serverPolicy", "outputs", "host", "enrolled", "dataOutput"})
  BY DEF UpdateOutput, SameFleet, Fleet

\* Starting the services enrolls a Fleet Server only if its policy is complete.
LEMMA StartServicesFleet ==
    ASSUME fleet \in Fleet, NEW from, NEW to, NEW external, StartServices(from, to, external)
    PROVE  /\ SameFleet({"agentPolicy", "serverPolicy", "outputs", "host", "dataOutput"})
           /\ "fleet-server" \in fleet'.enrolled =>
                "fleet-server" \in fleet.enrolled \/ fleet.serverPolicy = "full"
<1>1. CASE ServicesUp /\ CanStart(external)
  BY <1>1 DEF ServicesUp, CanStart, Wanted, SameFleet, Fleet, Agent
<1>2. CASE UNCHANGED fleet
  BY <1>2 DEF SameFleet
<1> QED
  BY <1>1, <1>2 DEF StartServices, ServicesLeft
=============================================================================
