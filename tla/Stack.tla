-------------------------------- MODULE Stack --------------------------------
(***************************************************************************)
(* What the providers of `elastic-package stack` share: commands that run  *)
(* one after the other on a profile, the configuration file that one       *)
(* leaves to the next, the objects they create in Fleet, and the local     *)
(* services they start in containers next to a remote stack.               *)
(*                                                                         *)
(* A command is a sequence of steps (pc), each a call that can fail before *)
(* or after it had its effect; SIGINT cancels the pending call and is one  *)
(* of the reasons.  SIGKILL (Crash) ends the command where it is.          *)
(***************************************************************************)
EXTENDS Naturals, FiniteSets

CONSTANTS
    MaxCommands,   \* bound: how many commands are issued
    MaxCrashes,    \* bound: how many of them are killed
    Outputs,       \* the Fleet outputs profiles ask for, see Output
    Monitoring     \* values of stack.self_monitor_enabled

\* The output agents need: none of their own, Elasticsearch under the name that
\* containers know it by, or Logstash.
Output == {"none", "elasticsearch", "logstash"}

ASSUME StackAssumption ==
    /\ MaxCommands \in Nat
    /\ MaxCrashes \in Nat
    /\ Outputs \subseteq Output
    /\ Monitoring \subseteq BOOLEAN

VARIABLES
    pc, command,   \* step and kind of the running command
    opts,          \* settings of the profile it was started with
    config,        \* the configuration it has in memory
    stored,        \* the configuration file
    fleet,         \* objects in Fleet
    containers,    \* local services that run
    composed,      \* the compose file of the local services is in the profile
    ok,            \* what the running, else the last command returns
    cmd,           \* number of the running (or last) command
    crashes,       \* history: commands killed so far
    fault,         \* history: a call of this command failed
    quiet,         \* history: no call of any command failed, none was killed
    recorded       \* history: the last boot stored its configuration

history == <<crashes, quiet, recorded>>

Agent == {"elastic-agent", "fleet-server"}
Service == Agent \cup {"logstash"}
PolicyState == {"absent", "bare", "full"}    \* bare: without its package policy

Config == [file : {"absent", "valid", "corrupt"}, managed : BOOLEAN, output : Output,
           project : 0..MaxCommands]
NoConfig == [file |-> "absent", managed |-> FALSE, output |-> "none", project |-> 0]

Fleet == [agentPolicy : PolicyState, serverPolicy : PolicyState,
          outputs : SUBSET (Output \ {"none"}), certified : BOOLEAN,
          dataOutput : Output,                     \* the one the agent policy names
          host : {"none", "external", "local"},    \* the default Fleet Server
          enrolled : SUBSET Agent]
NewFleet(host) == [agentPolicy |-> "absent", serverPolicy |-> "absent", outputs |-> {},
                   certified |-> FALSE, dataOutput |-> "none", host |-> host,
                   enrolled |-> {}]

StackTypeOK ==
    /\ command \in {"up", "down"}
    /\ opts \in [output : Output, monitored : BOOLEAN]
    /\ config \in Config /\ stored \in Config
    /\ fleet \in Fleet
    /\ containers \subseteq Service
    /\ cmd \in 0..MaxCommands /\ crashes \in 0..MaxCrashes
    /\ {composed, ok, fault, quiet, recorded} \subseteq BOOLEAN

StackInit ==
    /\ pc = "idle" /\ command = "down"
    /\ opts = [output |-> "none", monitored |-> FALSE]
    /\ config = NoConfig /\ stored = NoConfig
    /\ containers = {} /\ composed = FALSE
    /\ ok = TRUE /\ cmd = 0
    /\ crashes = 0 /\ fault = FALSE /\ quiet = TRUE /\ recorded = FALSE

-----------------------------------------------------------------------------
(***************************************************************************)
(* Steps of a command.                                                     *)
(***************************************************************************)
Returns(success) == pc' = "idle" /\ ok' = success

\* The command returns an error: of a call, or one that the state leads to.
Errs == Returns(FALSE) /\ fault' = TRUE /\ quiet' = FALSE
Refused == Returns(FALSE) /\ UNCHANGED <<fault, quiet>>

Goes(to) ==
    /\ IF to = "idle" THEN Returns(TRUE) ELSE pc' = to /\ UNCHANGED ok
    /\ UNCHANGED <<fault, quiet>>

\* A call that has its effect; its answer may be lost.
Calls(from, to) ==
    /\ pc = from
    /\ Goes(to) \/ Errs
    /\ UNCHANGED <<command, opts, cmd, crashes>>

\* A step that has nothing to do.
Skips(from, to) ==
    /\ pc = from
    /\ Goes(to)
    /\ UNCHANGED <<command, opts, cmd, crashes>>

\* A call of the running command fails without effect.
CallFails(steps) ==
    /\ pc \in steps
    /\ Errs
    /\ UNCHANGED <<command, opts, config, stored, fleet, containers, composed, cmd, crashes,
                   recorded>>

\* Every command reads the configuration file, to know its provider.
StartCommand(c, first) ==
    /\ pc = "idle" /\ cmd < MaxCommands
    /\ stored.file # "corrupt"
    /\ command' = c /\ pc' = first /\ cmd' = cmd + 1
    /\ ok' = FALSE /\ fault' = FALSE
    /\ recorded' = IF c = "up" THEN FALSE ELSE recorded
    /\ UNCHANGED <<stored, fleet, containers, composed, crashes, quiet>>

StartUp(first) ==
    /\ StartCommand("up", first)
    /\ \E o \in Outputs, m \in Monitoring : opts' = [output |-> o, monitored |-> m]

StartDown(first) ==
    /\ StartCommand("down", first)
    /\ config' = stored
    /\ UNCHANGED opts

\* storeConfig.  os.WriteFile truncates the file before it writes.
StoreConfig(from, to, marks) ==
    /\ pc = from
    /\ \/ /\ Goes(to)
          /\ stored' = [config EXCEPT !.file = "valid"]
          /\ recorded' = (recorded \/ marks)
       \/ /\ Errs
          /\ stored' \in {stored, [NoConfig EXCEPT !.file = "corrupt"]}
          /\ UNCHANGED recorded
    /\ UNCHANGED <<command, opts, config, fleet, containers, composed, cmd, crashes>>

\* The process is killed; the file it is writing can be cut short.
KilledAt(storeSteps) ==
    /\ pc # "idle" /\ crashes < MaxCrashes
    /\ Errs
    /\ crashes' = crashes + 1
    /\ stored' \in {stored} \cup
            (IF pc \in storeSteps THEN {[NoConfig EXCEPT !.file = "corrupt"]} ELSE {})
    /\ UNCHANGED <<command, opts, config, fleet, containers, composed, cmd, recorded>>

-----------------------------------------------------------------------------
(***************************************************************************)
(* Fleet.                                                                  *)
(***************************************************************************)
\* createAgentPolicy, createFleetServerPolicy: one that exists is used as it
\* is, with the output it has; a new one gets its package policy in a step of
\* its own.
CreatePolicy(policy, from, package, to, needsPackage) ==
    /\ IF fleet[policy] # "absent"
       THEN Calls(from, to) /\ UNCHANGED fleet
       ELSE /\ Calls(from, IF needsPackage THEN package ELSE to)
            /\ fleet' = [fleet EXCEPT ![policy] = "bare",
                         !.dataOutput = IF policy = "agentPolicy" THEN config.output ELSE @]
    /\ UNCHANGED <<config, stored, containers, composed, recorded>>

CreatePackagePolicy(policy, from, to) ==
    /\ Calls(from, to)
    /\ fleet' = [fleet EXCEPT ![policy] = "full"]
    /\ UNCHANGED <<config, stored, containers, composed, recorded>>

\* addFleetOutput: one that exists is no error.
AddOutput(from, to) ==
    /\ IF opts.output = "none"
       THEN Skips(from, to) /\ UNCHANGED fleet
       ELSE /\ Calls(from, to)
            /\ fleet' = [fleet EXCEPT !.outputs = @ \cup {opts.output}]
    /\ config' = [config EXCEPT !.output = opts.output]
    /\ UNCHANGED <<stored, containers, composed, recorded>>

\* updateLogstashFleetOutput: the certificates of the local services.
UpdateOutput(from, to) ==
    /\ IF "logstash" \in fleet.outputs
       THEN Calls(from, to) /\ fleet' = [fleet EXCEPT !.certified = TRUE]
       ELSE pc = from /\ Refused /\ UNCHANGED <<command, opts, cmd, crashes, fleet>>
    /\ UNCHANGED <<config, stored, containers, composed, recorded>>

\* An agent enrolls when it runs, its policy is there and, unless it is the
\* Fleet Server, one serves it.
CanEnroll(a, external) ==
    IF a = "fleet-server"
    THEN fleet.serverPolicy = "full"
    ELSE /\ fleet.agentPolicy # "absent"
         /\ fleet.host = "external" => external
         /\ fleet.host = "local" => "fleet-server" \in fleet.enrolled

AgentEnrolls(a, external) ==
    /\ a \in containers \cap Agent /\ a \notin fleet.enrolled /\ CanEnroll(a, external)
    /\ fleet' = [fleet EXCEPT !.enrolled = @ \cup {a}]
    /\ UNCHANGED <<pc, command, opts, config, stored, containers, composed, ok, cmd, fault,
                   history>>

-----------------------------------------------------------------------------
(***************************************************************************)
(* Local services.                                                         *)
(***************************************************************************)
Wanted ==
    {"elastic-agent"} \cup (IF config.managed THEN {"fleet-server"} ELSE {})
        \cup (IF opts.output = "logstash" THEN {"logstash"} ELSE {})

\* docker compose up returns when every service is healthy, which an agent is
\* once it is enrolled.
CanStart(external) ==
    /\ config.managed => fleet.serverPolicy = "full"
    /\ fleet.agentPolicy # "absent"
    /\ fleet.host = "local" => config.managed
    /\ fleet.host = "external" => external

ServicesUp ==
    /\ containers' = containers \cup Wanted
    /\ fleet' = [fleet EXCEPT !.enrolled = @ \cup (Wanted \cap Agent)]

\* Up failed and left some of the services.
ServicesLeft(some) ==
    /\ containers' = (containers \ Wanted) \cup some
    /\ UNCHANGED fleet

\* The compose file is written, then docker compose up.  If that fails and every
\* service but the agent runs, it is tried once more and an error of that is
\* returned; any other error of the first attempt, a cancellation included, is
\* dropped.
StartServices(from, to, external) ==
    /\ pc = from
    /\ \/ CanStart(external) /\ ServicesUp /\ Goes(to)
       \/ \E some \in SUBSET Wanted : ServicesLeft(some) /\ Errs
       \/ /\ ~CanStart(external)
          /\ ServicesLeft(Wanted) /\ Refused
       \/ \E some \in SUBSET Wanted :
            /\ ServicesLeft(some)
            /\ IF to = "idle" THEN Returns(TRUE) ELSE pc' = to /\ UNCHANGED ok
            /\ fault' = TRUE /\ quiet' = FALSE
    /\ composed' = TRUE
    /\ UNCHANGED <<command, opts, config, stored, cmd, crashes, recorded>>

\* A stack that can be used: its services run, agents are enrolled and the output
\* they need is there.
Ready ==
    /\ Wanted \subseteq containers /\ Wanted \cap Agent \subseteq fleet.enrolled
    /\ opts.output # "none" => opts.output \in fleet.outputs
    /\ opts.output = "logstash" => fleet.certified

\* docker compose down, which the compose file is needed for.
RemoveServices(from, to) ==
    /\ IF composed
       THEN Calls(from, to) /\ containers' = {}
       ELSE pc = from /\ Refused /\ UNCHANGED <<command, opts, cmd, crashes, containers>>
    /\ UNCHANGED <<config, stored, fleet, composed, recorded>>
=============================================================================
