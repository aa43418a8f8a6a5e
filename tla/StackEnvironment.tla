-------------------------- MODULE StackEnvironment ---------------------------
(***************************************************************************)
(* The `environment` provider of elastic-package stack: Fleet of a stack   *)
(* that exists is prepared for the tests, and agents, with a Fleet Server  *)
(* if the stack has none that answers, are started as local services.      *)
(*                                                                         *)
(* The address of the local Fleet Server is a name of the network of the   *)
(* containers, so a later boot never reaches it from the host and takes it *)
(* over again.                                                             *)
(***************************************************************************)
EXTENDS Stack

VARIABLE externalUp    \* the Fleet Server the user has answers

vars == <<pc, command, opts, config, stored, fleet, containers, composed, ok, cmd, crashes, fault,
          quiet, recorded, externalUp>>

StoreSteps == {"store1", "store2", "store3"}
CallSteps ==
    {"discover", "addHost", "serverPolicy", "serverPackage", "serviceToken", "agentPolicy",
     "agentPackage", "startServices", "updateOutput", "composeDown", "removeServices",
     "unenrollAgents", "deleteAgentPolicy", "unenrollServers", "deleteServerPolicy"}
OutputSteps == {"addOutput", "removeOutput"}

TypeOK ==
    /\ StackTypeOK
    /\ pc \in {"idle"} \cup StoreSteps \cup CallSteps \cup OutputSteps
    /\ externalUp \in BOOLEAN

Init ==
    /\ StackInit
    /\ fleet \in {NewFleet("none"), NewFleet("external")}
    /\ externalUp \in BOOLEAN

-----------------------------------------------------------------------------
(***************************************************************************)
(* BootUp.                                                                 *)
(***************************************************************************)
BootUp ==
    /\ StartUp("discover")
    /\ config' = [NoConfig EXCEPT !.file = "valid"]
    /\ UNCHANGED externalUp

DiscoverWithoutManaged ==    \* mutant: the parameter is only set in a copy
    /\ pc = "discover"
    /\ \/ fleet.host = "external" /\ externalUp /\ Goes("store1")
       \/ Goes("addHost")
    /\ UNCHANGED <<command, opts, config, cmd, crashes, stored, fleet, containers, composed,
                   recorded, externalUp>>

\* DefaultFleetServerURL and isFleetServerReachable.  A Fleet Server of its own
\* is set up if there is none or it does not answer; and also if asking Kibana
\* for it failed: the address is then empty, and an empty one does not answer.
DiscoverFleetServer ==
    /\ pc = "discover"
    /\ \/ /\ fleet.host = "external" /\ externalUp
          /\ Goes("store1") /\ UNCHANGED config
       \/ /\ fleet.host = "external" /\ externalUp
          /\ pc' = "addHost" /\ fault' = TRUE /\ quiet' = FALSE /\ UNCHANGED ok
          /\ config' = [config EXCEPT !.managed = TRUE]
       \/ /\ ~(fleet.host = "external" /\ externalUp)
          /\ Goes("addHost")
          /\ config' = [config EXCEPT !.managed = TRUE]
    /\ UNCHANGED <<command, opts, cmd, crashes, stored, fleet, containers, composed, recorded,
                   externalUp>>

AddFleetServerHostOnce ==    \* mutant: a conflict is an error
    /\ IF fleet.host = "local"
       THEN pc = "addHost" /\ Refused /\ UNCHANGED <<command, opts, cmd, crashes>>
       ELSE Calls("addHost", "serverPolicy")
    /\ fleet' = [fleet EXCEPT !.host = "local"]
    /\ UNCHANGED <<config, stored, containers, composed, recorded, externalUp>>

\* The local Fleet Server becomes the default; a host that exists is updated.
AddFleetServerHost ==
    /\ Calls("addHost", "serverPolicy")
    /\ fleet' = [fleet EXCEPT !.host = "local"]
    /\ UNCHANGED <<config, stored, containers, composed, recorded, externalUp>>

CreateFleetServerPolicy ==
    /\ CreatePolicy("serverPolicy", "serverPolicy", "serverPackage", "serviceToken", TRUE)
    /\ UNCHANGED externalUp

CreateFleetServerPackagePolicy ==
    CreatePackagePolicy("serverPolicy", "serverPackage", "serviceToken") /\ UNCHANGED externalUp

CreateFleetServiceToken ==
    /\ Calls("serviceToken", "store1")
    /\ UNCHANGED <<config, stored, fleet, containers, composed, recorded, externalUp>>

StoreFleetConfig == StoreConfig("store1", "addOutput", TRUE) /\ UNCHANGED externalUp

AddFleetOutput == AddOutput("addOutput", "store2") /\ UNCHANGED externalUp

StoreOutputConfig == StoreConfig("store2", "agentPolicy", TRUE) /\ UNCHANGED externalUp

CreateAgentPolicy ==
    /\ CreatePolicy("agentPolicy", "agentPolicy", "agentPackage", "startServices",
                    opts.monitored)
    /\ UNCHANGED externalUp

CreateSystemPackagePolicy ==
    CreatePackagePolicy("agentPolicy", "agentPackage", "startServices") /\ UNCHANGED externalUp

StartLocalServices ==
    /\ StartServices("startServices",
                     IF opts.output = "logstash" THEN "updateOutput" ELSE "store3", externalUp)
    /\ UNCHANGED externalUp

UpdateLogstashFleetOutput == UpdateOutput("updateOutput", "store3") /\ UNCHANGED externalUp

StoreFinalConfig == StoreConfig("store3", "idle", TRUE) /\ UNCHANGED externalUp

-----------------------------------------------------------------------------
(***************************************************************************)
(* TearDown.  Without a configuration file the provider is the default one *)
(* (compose), which takes the containers of the profile down.              *)
(***************************************************************************)
TearDown ==
    /\ StartDown(IF stored.file = "absent" THEN "composeDown" ELSE "removeServices")
    /\ UNCHANGED externalUp

ComposeTearDown == RemoveServices("composeDown", "idle") /\ UNCHANGED externalUp

DestroyLocalServices ==
    RemoveServices("removeServices", "unenrollAgents") /\ UNCHANGED externalUp

Unenroll(agent, from, to) ==
    /\ Calls(from, to)
    /\ fleet' = [fleet EXCEPT !.enrolled = @ \ {agent}]
    /\ UNCHANGED <<config, stored, containers, composed, recorded, externalUp>>

DeletePolicyStrict(policy, agent, from, to) ==    \* mutant: not found is an error
    /\ IF agent \in fleet.enrolled \/ fleet[policy] = "absent"
       THEN pc = from /\ Refused /\ UNCHANGED <<command, opts, cmd, crashes, fleet>>
       ELSE Calls(from, to) /\ fleet' = [fleet EXCEPT ![policy] = "absent"]
    /\ UNCHANGED <<config, stored, containers, composed, recorded, externalUp>>

DeletePolicyBestEffort(policy, agent, from, to) ==    \* mutant: an error is dropped
    /\ pc = from /\ Goes(to)
    /\ \/ UNCHANGED fleet
       \/ fleet' = [fleet EXCEPT ![policy] = "absent",
                        !.dataOutput = IF policy = "agentPolicy" THEN "none" ELSE @]
    /\ UNCHANGED <<command, opts, cmd, crashes, config, stored, containers, composed, recorded,
                   externalUp>>

\* Fleet refuses to delete a policy that an agent uses, which none does once the
\* services are gone and its agents are unenrolled; one that is gone is no error.
DeletePolicy(policy, agent, from, to) ==
    /\ IF agent \in fleet.enrolled
       THEN pc = from /\ Refused /\ UNCHANGED <<command, opts, cmd, crashes, fleet>>
       ELSE /\ Calls(from, to)
            /\ fleet' = [fleet EXCEPT ![policy] = "absent",
                         !.dataOutput = IF policy = "agentPolicy" THEN "none" ELSE @]
    /\ UNCHANGED <<config, stored, containers, composed, recorded, externalUp>>

ForceUnenrollAgents == Unenroll("elastic-agent", "unenrollAgents", "deleteAgentPolicy")

DeleteAgentPolicy ==
    DeletePolicy("agentPolicy", "elastic-agent", "deleteAgentPolicy",
                 IF config.managed THEN "unenrollServers" ELSE "removeOutput")

ForceUnenrollFleetServers == Unenroll("fleet-server", "unenrollServers", "deleteServerPolicy")

DeleteFleetServerPolicy ==
    DeletePolicy("serverPolicy", "fleet-server", "deleteServerPolicy", "removeOutput")

RemoveFleetOutput ==
    /\ IF config.output = "none"
       THEN Skips("removeOutput", "idle") /\ UNCHANGED fleet
       ELSE /\ Calls("removeOutput", "idle")
            /\ fleet' = [fleet EXCEPT !.outputs = @ \ {config.output},
                                      !.certified = @ /\ config.output # "logstash"]
    /\ UNCHANGED <<config, stored, containers, composed, recorded, externalUp>>

-----------------------------------------------------------------------------
\* The user's Fleet Server stops or comes back, between two commands.
ExternalServerChanges ==
    /\ pc = "idle" /\ fleet.host = "external"
    /\ externalUp' = ~externalUp
    /\ UNCHANGED <<pc, command, opts, config, stored, fleet, containers, composed, ok, cmd, fault,
                   history>>

Fails ==
    /\ CallFails(CallSteps \cup (IF opts.output = "none" THEN {} ELSE {"addOutput"})
                           \cup (IF config.output = "none" THEN {} ELSE {"removeOutput"}))
    /\ UNCHANGED externalUp

Enrolls == (\E a \in Agent : AgentEnrolls(a, externalUp)) /\ UNCHANGED externalUp

Crash == KilledAt(StoreSteps) /\ UNCHANGED externalUp

Up ==
    \/ BootUp \/ DiscoverFleetServer \/ AddFleetServerHost
    \/ CreateFleetServerPolicy \/ CreateFleetServerPackagePolicy \/ CreateFleetServiceToken
    \/ StoreFleetConfig \/ AddFleetOutput \/ StoreOutputConfig
    \/ CreateAgentPolicy \/ CreateSystemPackagePolicy
    \/ StartLocalServices \/ UpdateLogstashFleetOutput \/ StoreFinalConfig

Down ==
    \/ TearDown \/ ComposeTearDown \/ DestroyLocalServices
    \/ ForceUnenrollAgents \/ DeleteAgentPolicy
    \/ ForceUnenrollFleetServers \/ DeleteFleetServerPolicy \/ RemoveFleetOutput

Next == Up \/ Down \/ Fails \/ Enrolls \/ ExternalServerChanges \/ Crash

Spec == Init /\ [][Next]_vars

-----------------------------------------------------------------------------
(***************************************************************************)
(* Properties.                                                             *)
(***************************************************************************)
Ended(c) == pc = "idle" /\ cmd > 0 /\ command = c

\* A boot in which no call fails, and that succeeds, leaves a stack that can be
\* used and that is recorded, whatever failed, was killed or was set up
\* differently before; and it does succeed as long as no call of any command
\* failed (BootUp of environment.go).
UpIsReady ==
    Ended("up") /\ ~fault =>
        /\ ok => Ready /\ stored = config
        /\ quiet => ok

\* A boot that fails after it stored its configuration can be cleaned up
\* ("to be able to clean up Fleet if something fails later", environment.go):
\* a tear-down that succeeds leaves no container, policy or agent behind,
\* whatever boots before it left.
LaterFailureCleansFleet ==
    Ended("down") /\ ok /\ recorded /\ stored.file = "valid" =>
        /\ containers = {} /\ fleet.enrolled = {}
        /\ fleet.agentPolicy = "absent" /\ fleet.serverPolicy = "absent"

\* Once a boot came to the local services, a tear-down in which no call fails
\* succeeds, also after one that failed half-way and while agents still come up,
\* and drops the output it knows of.
CleanDownSucceeds ==
    Ended("down") /\ ~fault /\ stored.file = "valid" /\ composed =>
        ok /\ stored.output \notin fleet.outputs

\* What a boot leaves behind, a tear-down removes: it can succeed, and does the work then.
TearDownCleans == LaterFailureCleansFleet /\ CleanDownSucceeds

\* The agent policy never names an output that is gone, although a boot keeps the
\* policy of another one and a tear-down only knows the output of the last: the
\* policy goes before the output, or the output stays (TearDown of
\* environment.go).
PolicyOutputExists == fleet.dataOutput \in fleet.outputs \cup {"none"}

=============================================================================
