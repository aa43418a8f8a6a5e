--------------------------- MODULE StackServerless ---------------------------
(***************************************************************************)
(* The `serverless` provider of elastic-package stack: a project is        *)
(* created in Elastic Cloud, recorded in the profile, initialized, and     *)
(* agents are started as local services.  A boot that finds the recorded   *)
(* project only starts the services.                                       *)
(*                                                                         *)
(* Projects are named by the number of the command that created them;      *)
(* fleet is that of the project created last.                              *)
(***************************************************************************)
EXTENDS Stack

VARIABLES
    projects,    \* projects that exist in Elastic Cloud
    errs         \* the running tear-down failed to remove the services

vars == <<pc, command, opts, config, stored, fleet, containers, composed, ok, cmd, crashes, fault,
          quiet, recorded, projects, errs>>
cloud == <<projects, errs>>

StoreSteps == {"store1", "store2"}
CallSteps ==
    {"createProject", "endpoints", "initialize", "healthy", "agentPolicy", "agentPackage",
     "startServices", "updateOutput", "composeDown", "locate"}

TypeOK ==
    /\ StackTypeOK
    /\ pc \in {"idle", "find", "addOutput", "removeServices", "deleteProject"}
              \cup StoreSteps \cup CallSteps
    /\ projects \subseteq 1..MaxCommands
    /\ errs \in BOOLEAN

Init ==
    /\ StackInit
    /\ fleet = NewFleet("none")
    /\ projects = {} /\ errs = FALSE

-----------------------------------------------------------------------------
(***************************************************************************)
(* BootUp.                                                                 *)
(***************************************************************************)
BootUp == StartUp("find") /\ config' = stored /\ UNCHANGED cloud

FindProjectOrCreate ==    \* mutant: any error is taken for a missing project
    /\ pc = "find"
    /\ \/ config.project \in projects /\ Goes("startServices") /\ UNCHANGED config
       \/ config' = NoConfig /\ Goes("createProject")
    /\ UNCHANGED <<command, opts, cmd, crashes, stored, fleet, containers, composed, recorded,
                   cloud>>

\* currentProject: a profile without a project, or with one that was deleted, gets
\* a new one.
FindProject ==
    /\ IF config.project \in projects
       THEN Skips("find", "startServices") /\ UNCHANGED config
       ELSE Skips("find", "createProject") /\ config' = NoConfig
    /\ UNCHANGED <<stored, fleet, containers, composed, recorded, cloud>>

CreateProject ==
    /\ Calls("createProject", "endpoints")
    /\ projects' = projects \cup {cmd}
    /\ config' = [config EXCEPT !.project = cmd]
    /\ fleet' = NewFleet("external")
    /\ UNCHANGED <<stored, containers, composed, recorded, errs>>

EnsureEndpoints ==
    /\ Calls("endpoints", "store1")
    /\ UNCHANGED <<config, stored, fleet, containers, composed, recorded, cloud>>

StoreProject == StoreConfig("store1", "initialize", TRUE) /\ UNCHANGED cloud

\* EnsureProjectInitialized, createClients and the wait for the Fleet Server.
EnsureInitialized ==
    /\ Calls("initialize", "store2")
    /\ UNCHANGED <<config, stored, fleet, containers, composed, recorded, cloud>>

StoreFleetURL == StoreConfig("store2", "healthy", TRUE) /\ UNCHANGED cloud

EnsureHealthy ==
    /\ Calls("healthy", "addOutput")
    /\ UNCHANGED <<config, stored, fleet, containers, composed, recorded, cloud>>

AddLogstashOutput == AddOutput("addOutput", "agentPolicy") /\ UNCHANGED cloud

CreateAgentPolicy ==
    /\ CreatePolicy("agentPolicy", "agentPolicy", "agentPackage", "startServices",
                    opts.monitored)
    /\ UNCHANGED cloud

CreateSystemPackagePolicy ==
    CreatePackagePolicy("agentPolicy", "agentPackage", "startServices") /\ UNCHANGED cloud

StartServicesOnly ==    \* mutant: the output keeps no certificates
    StartServices("startServices", "idle", TRUE) /\ UNCHANGED cloud

\* The address of Fleet is recorded before the agent policy is created: a project
\* that has the policy has the address too.
StartLocalServices ==
    /\ StartServices("startServices",
                     IF config.project = cmd /\ opts.output = "logstash" THEN "updateOutput"
                     ELSE "idle", TRUE)
    /\ UNCHANGED cloud

UpdateLogstashOutput == UpdateOutput("updateOutput", "idle") /\ UNCHANGED cloud

-----------------------------------------------------------------------------
(***************************************************************************)
(* TearDown.  Without a configuration file the provider is the default one *)
(* (compose).                                                              *)
(***************************************************************************)
TearDown ==
    /\ StartDown(IF stored.file = "absent" THEN "composeDown" ELSE "removeServices")
    /\ errs' = FALSE
    /\ UNCHANGED projects

ComposeTearDown == RemoveServices("composeDown", "idle") /\ UNCHANGED cloud

\* An error, also that there is no compose file, is kept and the project is deleted
\* all the same.
DestroyLocalServices ==
    /\ pc = "removeServices"
    /\ \/ composed /\ containers' = {} /\ Goes("locate") /\ UNCHANGED errs
       \/ ~composed /\ Goes("locate") /\ errs' = TRUE /\ UNCHANGED containers
       \/ /\ containers' \in {containers, {}}
          /\ pc' = "locate" /\ errs' = TRUE
          /\ fault' = TRUE /\ quiet' = FALSE /\ UNCHANGED ok
    /\ UNCHANGED <<command, opts, config, stored, fleet, composed, cmd, crashes, recorded,
                   projects>>

LocateProject ==
    /\ pc = "locate"
    /\ IF config.project \in projects THEN Goes("deleteProject") ELSE Refused
    /\ UNCHANGED <<command, opts, config, stored, fleet, containers, composed, cmd, crashes,
                   recorded, cloud>>

DeleteProjectOnly ==    \* mutant: only its own error is returned
    /\ pc = "deleteProject"
    /\ \/ projects' = projects \ {config.project} /\ Returns(TRUE) /\ UNCHANGED <<fault, quiet>>
       \/ projects' \in {projects, projects \ {config.project}} /\ Errs
    /\ fleet' = IF config.project \in projects' THEN fleet ELSE NewFleet("none")
    /\ UNCHANGED <<command, opts, config, stored, containers, composed, cmd, crashes, recorded,
                   errs>>

DeleteProject ==
    /\ pc = "deleteProject"
    /\ \/ projects' = projects \ {config.project} /\ Returns(~errs) /\ UNCHANGED <<fault, quiet>>
       \/ projects' \in {projects, projects \ {config.project}} /\ Errs
    /\ fleet' = IF config.project \in projects' THEN fleet ELSE NewFleet("none")
    /\ UNCHANGED <<command, opts, config, stored, containers, composed, cmd, crashes, recorded,
                   errs>>

-----------------------------------------------------------------------------
Fails ==
    /\ CallFails(CallSteps \cup (IF config.project = 0 THEN {} ELSE {"find"})
                           \cup (IF opts.output = "none" THEN {} ELSE {"addOutput"}))
    /\ UNCHANGED cloud

Crash == KilledAt(StoreSteps) /\ UNCHANGED cloud

Up ==
    \/ BootUp \/ FindProject \/ CreateProject \/ EnsureEndpoints \/ StoreProject
    \/ EnsureInitialized \/ StoreFleetURL \/ EnsureHealthy \/ AddLogstashOutput
    \/ CreateAgentPolicy \/ CreateSystemPackagePolicy
    \/ StartLocalServices \/ UpdateLogstashOutput

Down ==
    \/ TearDown \/ ComposeTearDown \/ DestroyLocalServices \/ LocateProject \/ DeleteProject

Next == Up \/ Down \/ Fails \/ Crash

Spec == Init /\ [][Next]_vars

-----------------------------------------------------------------------------
(***************************************************************************)
(* Properties.                                                             *)
(***************************************************************************)
Ended(c) == pc = "idle" /\ cmd > 0 /\ command = c

\* As long as no call fails, every boot ends well with the agent enrolled; one
\* that created the project leaves the output it was asked for, complete
\* (BootUp of serverless.go).
UpIsReady ==
    Ended("up") /\ quiet =>
        /\ ok /\ Wanted \subseteq containers /\ "elastic-agent" \in fleet.enrolled
        /\ config.project = cmd => Ready

\* A tear-down that succeeds, or in which no call fails, leaves neither the
\* recorded project nor containers: an error of one half is never lost to the
\* success of the other (TearDown of serverless.go).
RecordedProjectIsDeleted ==
    Ended("down") /\ (ok \/ ~fault) /\ stored.file = "valid" =>
        stored.project \notin projects /\ containers = {}

\* A project that is recorded and exists stays the recorded one until it is
\* deleted ("Store config now in case fails initialization or other requests, so
\* it can be destroyed later", createProject of serverless.go): no boot replaces
\* it because it could not be reached.
NeverForgotten ==
    [][stored.file = "valid" /\ stored.project \in projects' /\ stored'.file = "valid" =>
           stored'.project = stored.project]_vars

=============================================================================
