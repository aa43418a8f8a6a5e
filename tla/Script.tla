-------------------------------- MODULE Script --------------------------------
(***************************************************************************)
(* The script tests: the scripts of a directory run one after the other,   *)
(* each a list of commands that start stacks, services and agents and      *)
(* install pipelines and packages.  What a command leaves behind is noted  *)
(* in registries that the next script of the directory clears; after the   *)
(* last script cleanUp removes what the registries still name, through     *)
(* every stack they name.                                                  *)
(*                                                                         *)
(* A script is any sequence of commands.  "own" is the stack that stack_up *)
(* starts from a profile in the directory of the script, "external" one    *)
(* that was running before and that use_stack names.  The project of a     *)
(* stack is that of the name of its profile, so the two can have the same. *)
(* A thing is the kind of artifact, the project it was made in and a       *)
(* number that tells it from others.                                       *)
(***************************************************************************)
EXTENDS Naturals, Sequences, FiniteSets

CONSTANTS
    Dirs,        \* number of directories with scripts
    Scripts,     \* number of scripts of a directory
    MaxSteps,    \* bound: commands of all scripts
    MaxFailures  \* bound: calls of stacks, services and agents that fail

ASSUME ScriptAssumption ==
    /\ Dirs \in Nat \ {0} /\ Scripts \in Nat \ {0}
    /\ MaxSteps \in Nat /\ MaxFailures \in Nat

VARIABLES
    opts,         \* work and continue: keep the work, go on after a failed command;
                  \* sameName: the profile in the directory has the name of the user's
    point,        \* of the runner
    dir, script,  \* directory that runs, scripts of it that have begun
    steps,        \* commands so far
    bad,          \* a command of the script has failed
    stacks,       \* runningStack: the stacks the script may use
    reg,          \* the other registries
    toClean,      \* stacks that cleanUp has not come to
    outcomes,     \* one outcome per script
    interrupted,  \* the context of the run is cancelled
    world,        \* what exists
    assigned,     \* agents whose policy holds the package policy
    made,         \* number of things made
    failures,
    failed,       \* history: things that a call failed to remove
    rewritten,    \* history: streams an agent wrote again
    booted,       \* history: stack_up was called
    begun         \* history: scripts that began, those with a failed command that did not
                  \* skip after it, and those that a panic ended

scriptVars == <<opts, point, dir, script, steps, bad, stacks, reg, toClean, outcomes, interrupted,
                world, assigned, made, failures, failed, rewritten, booted, begun>>
place == <<opts, dir, script, outcomes, begun>>
outside == <<interrupted, rewritten>>

-----------------------------------------------------------------------------
Stacks == {"own", "external"}
\* DockerComposeProjectName: of the name of the profile only.
Project(s) == IF opts.sameName THEN "external" ELSE s
Thing(kind, on, n) == [kind |-> kind, on |-> on, n |-> n]
StackOf(p) == Thing("stack", p, 0)
CurrentPackage(p) == Thing("current", p, 0)

\* Containers run beside the stack, everything else in it.
Contained(t) == t.kind \in {"service", "container"}

\* An installed agent is a container, its enrolment and the two policies.
Policies(a) == {Thing(k, a.on, a.n) : k \in {"testing", "enrolling"}}
Enrolment(a) == Thing("enrolment", a.on, a.n)
Container(a) == Thing("container", a.on, a.n)
PartsOf(t) == IF t.kind = "agent" THEN Policies(t) \cup {Enrolment(t), Container(t)} ELSE {t}

\* Services, pipelines and agents are kept under one name, data streams and packages in lists.
Noted(t) ==
    IF t.kind \in {"service", "pipelines"} THEN {r \in reg : r.kind # t.kind} \cup {t}
    ELSE IF t.kind = "agent" THEN {r \in reg : r.kind # "agent" \/ r.on # t.on} \cup {t}
    ELSE reg \cup {t}

ScriptInit ==
    /\ opts \in [work : BOOLEAN, continue : BOOLEAN, sameName : BOOLEAN]
    /\ point = "dir" /\ dir = 1 /\ script = 0 /\ steps = 0 /\ bad = FALSE
    /\ stacks = {} /\ reg = {} /\ toClean = <<>> /\ outcomes = <<>> /\ interrupted = FALSE
    /\ world = {StackOf("external")} /\ assigned = {} /\ made = 0 /\ failures = 0
    /\ failed = {} /\ rewritten = {} /\ booted = FALSE
    /\ begun = [all |-> 0, bad |-> 0, lost |-> 0]

-----------------------------------------------------------------------------
(* The runner.                                                             *)

\* A directory with scripts.  An interrupt is looked at only here, and the fatal error it
\* raises is caught by nothing.
EnterDir ==
    /\ point = "dir"
    /\ point' = IF interrupted THEN "crashed" ELSE "runner"
    /\ UNCHANGED <<place, steps, bad, stacks, reg, toClean, world, assigned, made, failures,
                   failed, booted, outside>>

\* A script begins with empty registries; one whose name the pattern does not match is passed over.
BeginScript ==
    /\ point = "runner" /\ script < Scripts
    /\ script' = script + 1
    /\ \/ /\ point' = "script" /\ bad' = FALSE
          /\ stacks' = {} /\ reg' = {}
          /\ begun' = [begun EXCEPT !.all = @ + 1]
       \/ UNCHANGED <<point, bad, stacks, reg, begun>>
    /\ UNCHANGED <<opts, dir, steps, outcomes, toClean, world, assigned, made, failures, failed,
                   booted, outside>>

\* The deferred function of Run: the outcome of the script is added to those before it.
Report(outcome) ==
    /\ point' = "runner"
    /\ outcomes' = Append(outcomes, outcome)
    /\ begun' = IF bad /\ outcome # "skip" THEN [begun EXCEPT !.bad = @ + 1] ELSE begun
    /\ UNCHANGED <<opts, dir, script, steps, bad, stacks, reg, toClean, world, assigned, made,
                   failures, failed, booted, outside>>

\* mutant: the outcome is added after the script instead of in the deferred function
EndScriptNotDeferred ==
    \/ /\ point = "ended" /\ point' = "runner" /\ begun' = [begun EXCEPT !.bad = @ + 1]
       /\ UNCHANGED <<opts, dir, script, steps, bad, stacks, reg, toClean, outcomes, world,
                      assigned, made, failures, failed, booted, outside>>
    \/ point = "script" /\ Report(IF bad THEN "fail" ELSE "pass")
    \/ point = "script" /\ Report("skip")

\* A script that skips is skipped, also when a command has failed before.
EndScript ==
    \/ point = "ended" /\ Report("fail")
    \/ point = "script" /\ Report(IF bad THEN "fail" ELSE "pass")
    \/ point = "script" /\ Report("skip")

\* The order a map of stacks is ranged over is any order.
Orders(s) == {q \in [1..Cardinality(s) -> s] : \A i, j \in DOMAIN q : q[i] = q[j] => i = j}

\* After the last script of the directory.
EndDir ==
    /\ point = "runner" /\ script = Scripts
    /\ point' = IF opts.work THEN "next" ELSE "clean"
    /\ toClean' \in IF opts.work THEN {<<>>} ELSE Orders(stacks)
    /\ UNCHANGED <<place, steps, bad, stacks, reg, world, assigned, made, failures, failed,
                   booted, outside>>

NextDir ==
    /\ point \in {"next", "cleaned"}
    /\ script' = 0
    /\ IF dir < Dirs THEN point' = "dir" /\ dir' = dir + 1 ELSE point' = "ran" /\ dir' = dir
    /\ UNCHANGED <<opts, outcomes, begun, steps, bad, stacks, reg, toClean, world, assigned, made,
                   failures, failed, booted, outside>>

\* The command that runs the scripts ends with an error when one of their outcomes is a failure.
EndScripts ==
    /\ point = "ran"
    /\ point' = IF \E k \in DOMAIN outcomes : outcomes[k] = "fail" THEN "failed" ELSE "passed"
    /\ UNCHANGED <<place, steps, bad, stacks, reg, toClean, world, assigned, made, failures,
                   failed, booted, outside>>

-----------------------------------------------------------------------------
(* The commands.                                                           *)

Begins ==
    /\ point = "script" /\ steps < MaxSteps /\ steps' = steps + 1
    /\ UNCHANGED <<toClean, outside>>
Command == Begins /\ UNCHANGED <<place, booted>>

Passes == point' = "script" /\ bad' = bad /\ UNCHANGED <<failures, failed>>
CheckFails == point' = (IF opts.continue THEN "script" ELSE "ended") /\ bad' = TRUE
\* A call fails, and what it was to remove stays.
CallFails(stay) ==
    CheckFails /\ failures < MaxFailures /\ failures' = failures + 1 /\ failed' = failed \cup stay
New(kind, s) == Thing(kind, Project(s), made + 1)

\* The stack runs and is registered; the project runs, and it is that of a registered stack.
Live(s) == s \in stacks /\ StackOf(Project(s)) \in world
Open(p) == \E s \in stacks : Live(s) /\ p = Project(s)
\* What is left when a project is taken down.
Beside(p) == {t \in world : t.on # p \/ Contained(t)}

\* A command that has no effect fails: a wrong argument, a match that is not found, no active
\* client for the profile, a query that ends with an error.
CommandFails ==
    /\ Command /\ CheckFails
    /\ UNCHANGED <<stacks, reg, world, assigned, made, failures, failed>>

\* GET and POST read the answer of a request that failed.  The panic is not one that Run expects:
\* it raises another before it adds the outcome, and the scripts that follow are not run.
CommandPanics ==
    /\ Begins
    /\ point' = "runner" /\ script' = Scripts
    /\ begun' = [begun EXCEPT !.lost = @ + 1]
    /\ UNCHANGED <<opts, dir, outcomes, bad, stacks, reg, world, assigned, made, failures, failed,
                   booted>>

\* stack_up registers the stack when it has booted and its clients are made.  The containers of a
\* project that runs are made anew, empty, if their configuration is not that of this script.
StackUp ==
    /\ Begins /\ booted' = TRUE /\ UNCHANGED place
    /\ world' \in {kept \cup {StackOf(Project("own"))} : kept \in {world, Beside(Project("own"))}}
    /\ \/ Passes /\ stacks' = stacks \cup {"own"}
       \/ CallFails({StackOf(Project("own"))}) /\ UNCHANGED stacks
    /\ UNCHANGED <<reg, assigned, made>>

\* use_stack asks the stack for its health and its version.
UseStack ==
    /\ Command /\ Passes
    /\ StackOf("external") \in world
    /\ stacks' = stacks \cup {"external"}
    /\ UNCHANGED <<reg, world, assigned, made>>

\* stack_down forgets the stack and then takes its project down, with everything in it.
StackDown ==
    /\ Command /\ "own" \in stacks
    /\ stacks' = stacks \ {"own"}
    /\ \/ Passes /\ world' = Beside(Project("own"))
       \/ CallFails({StackOf(Project("own"))}) /\ UNCHANGED world
    /\ UNCHANGED <<reg, assigned, made>>

\* docker_up: the deployer takes the service down itself when it does not start.
DockerUp(s) ==
    /\ Command /\ Live(s)
    /\ made' = made + 1
    /\ LET t == New("service", s)
       IN \/ Passes /\ world' = world \cup {t} /\ reg' = Noted(t)
          \/ CallFails({t}) /\ world' \in {world, world \cup {t}} /\ UNCHANGED reg
    /\ UNCHANGED <<stacks, assigned>>

DockerDown ==
    /\ Command
    /\ \E t \in reg :
          /\ t.kind = "service"
          /\ \/ Passes /\ world' = world \ {t} /\ reg' = reg \ {t}
             \/ CallFails({t}) /\ UNCHANGED <<world, reg>>
    /\ UNCHANGED <<stacks, assigned, made>>

\* install_pipelines registers them when all of them are installed.
InstallPipelines(s) ==
    /\ Command /\ Live(s)
    /\ made' = made + 1
    /\ LET t == New("pipelines", s)
       IN /\ world' = world \cup {t}
          /\ \/ Passes /\ reg' = Noted(t)
             \/ CallFails({t}) /\ UNCHANGED reg
    /\ UNCHANGED <<stacks, assigned>>

UninstallPipelines ==
    /\ Command
    /\ \E t \in reg :
          /\ t.kind = "pipelines" /\ Open(t.on)
          /\ \/ Passes /\ world' = world \ {t} /\ reg' = reg \ {t}
             \/ CallFails({t}) /\ UNCHANGED <<world, reg>>
    /\ UNCHANGED <<stacks, assigned, made>>

\* install_agent: when it fails the agent is not taken down, and the policies made so far are
\* deleted if the check that failed raises the panic that is recovered from here.
InstallAgent(s) ==
    /\ Command /\ Live(s)
    /\ made' = made + 1
    /\ LET a == New("agent", s)
       IN \/ Passes /\ world' = world \cup PartsOf(a) /\ reg' = Noted(a)
          \/ \E left \in {{}, {Container(a)}, {Container(a), Enrolment(a)}}, kept \in SUBSET Policies(a) :
                CallFails(left \cup kept) /\ world' = world \cup left \cup kept /\ UNCHANGED reg
    /\ UNCHANGED <<stacks, assigned>>

\* uninstall_agent forgets the agent first; a step that fails leaves the later ones undone.
UninstallAgent ==
    /\ Command
    /\ \E a \in reg :
          /\ a.kind = "agent" /\ \E s \in stacks : a.on = Project(s)
          /\ reg' = reg \ {a}
          /\ \/ Passes /\ Open(a.on) /\ world' = world \ PartsOf(a)
             \/ \E done \in {{}, {Enrolment(a)}, {Enrolment(a), Container(a)}} :
                   CallFails(PartsOf(a) \ done) /\ world' = world \ done
    /\ UNCHANGED <<stacks, assigned, made>>

AddPackage(s) ==
    /\ Command /\ Live(s)
    /\ world' = world \cup {CurrentPackage(Project(s))}
    /\ \/ Passes
       \/ CallFails({CurrentPackage(Project(s))})
    /\ UNCHANGED <<stacks, reg, assigned, made>>

RemovePackage(s) ==
    /\ Command /\ Live(s)
    /\ \/ Passes /\ world' = world \ {CurrentPackage(Project(s))}
       \/ CallFails({CurrentPackage(Project(s))}) /\ UNCHANGED world
    /\ UNCHANGED <<stacks, reg, assigned, made>>

\* install_package_from_registry notes the package before it downloads and extracts it.
InstallPackageFromRegistry(s) ==
    /\ Command /\ s \in stacks
    /\ LET t == Thing("package", Project(s), 0)
       IN /\ reg' = Noted(t)
          /\ \/ Passes /\ Live(s) /\ world' = world \cup {t}
             \/ CallFails({}) /\ world' \in {world} \cup (IF Live(s) THEN {world \cup {t}} ELSE {})
    /\ UNCHANGED <<stacks, assigned, made>>

\* add_package_zip and remove_package_zip note nothing.
AddPackageZip(s) ==
    /\ Command /\ Passes /\ Live(s)
    /\ world' = world \cup {Thing("zip", Project(s), 0)}
    /\ UNCHANGED <<stacks, reg, assigned, made>>

RemovePackageZip(s) ==
    /\ Command /\ Passes /\ Live(s)
    /\ world' = world \ {Thing("zip", Project(s), 0)}
    /\ UNCHANGED <<stacks, reg, assigned, made>>

\* add_package_policy: once the policy is assigned the agent writes to the data stream.
AddPackagePolicy ==
    /\ Command /\ Passes
    /\ \E a \in reg :
          /\ a.kind = "agent" /\ Open(a.on) /\ Policies(a) \cup {Enrolment(a)} \subseteq world
          /\ assigned' = assigned \cup {a}
          /\ LET t == Thing("stream", a.on, a.n)
             IN world' = world \cup {t} /\ reg' = Noted(t)
    /\ UNCHANGED <<stacks, made>>

\* remove_package_policy deletes the data stream; the policy stays.
RemovePackagePolicy ==
    /\ Command
    /\ \E t \in reg :
          /\ t.kind = "stream" /\ Open(t.on)
          /\ \/ Passes /\ world' = world \ {t} /\ reg' = (IF t \in world THEN reg \ {t} ELSE reg)
             \/ CallFails({t}) /\ UNCHANGED <<world, reg>>
    /\ UNCHANGED <<stacks, assigned, made>>

ScriptCommands ==
    \/ CommandFails \/ CommandPanics
    \/ StackUp \/ UseStack \/ StackDown
    \/ DockerDown \/ UninstallPipelines \/ UninstallAgent
    \/ AddPackagePolicy \/ RemovePackagePolicy
    \/ \E s \in Stacks :
          \/ DockerUp(s) \/ InstallPipelines(s) \/ InstallAgent(s)
          \/ AddPackage(s) \/ RemovePackage(s) \/ InstallPackageFromRegistry(s)
          \/ AddPackageZip(s) \/ RemovePackageZip(s)

-----------------------------------------------------------------------------
(* cleanUp, for one stack after the other.                                 *)

\* What cleanUp removes through stack s, in the order of the code.  Containers are removed through
\* any stack; what is in another project is asked for and not found.
Reachable(things, s) == {t \in things : t.on = Project(s) \/ Contained(t)}
Parts(kinds) == UNION {PartsOf(r) : r \in {r \in reg : r.kind \in kinds}}

\* Calls fail one by one, and the next one is made.
Remove(s, things) ==
    \E stay \in SUBSET (Reachable(things, s) \cap world) :
       /\ failures' = failures + Cardinality(stay) /\ failures' <= MaxFailures
       /\ failed' = failed \cup stay
       /\ world' = world \ (Reachable(things, s) \ stay)

Clean(at, next, s, things) ==
    /\ point = at /\ toClean # <<>> /\ s = Head(toClean)
    /\ point' = next
    /\ Remove(s, things)
    /\ UNCHANGED <<place, steps, bad, stacks, reg, toClean, assigned, made, booted, outside>>

CleanPipelinesAndServices(s) == Clean("clean", "streams", s, Parts({"pipelines", "service"}))

CleanStreams(s) == Clean("streams", "agents", s, Parts({"stream"}))

CleanAgents(s) == Clean("agents", "packages", s, Parts({"agent"}))

CleanPackages(s) ==
    Clean("packages", "stack", s, Parts({"package"}) \cup {CurrentPackage(Project(s))})

\* mutant: cleanUp returns at a stack that is external
CleanStackReturns(s) ==
    /\ point = "stack" /\ toClean # <<>> /\ s = Head(toClean)
    /\ point' = "clean"
    /\ IF s = "external" THEN toClean' = <<>> /\ UNCHANGED world
       ELSE toClean' = Tail(toClean) /\ world' = Beside(Project(s))
    /\ UNCHANGED <<place, steps, bad, stacks, reg, assigned, made, failures, failed, booted, outside>>

\* mutant: cleanUp takes every stack down
CleanStackAlways(s) ==
    /\ point = "stack" /\ toClean # <<>> /\ s = Head(toClean)
    /\ point' = "clean" /\ toClean' = Tail(toClean)
    /\ world' = Beside(Project(s))
    /\ UNCHANGED <<place, steps, bad, stacks, reg, assigned, made, failures, failed, booted, outside>>

\* A stack the scripts did not start is left alone.
CleanStack(s) ==
    /\ point = "stack" /\ toClean # <<>> /\ s = Head(toClean)
    /\ point' = "clean"
    /\ toClean' = Tail(toClean)
    /\ \/ s = "external" /\ UNCHANGED <<world, failures, failed>>
       \/ /\ s # "external" /\ UNCHANGED <<failures, failed>>
          /\ world' = Beside(Project(s))
       \/ /\ s # "external" /\ failures < MaxFailures /\ failures' = failures + 1
          /\ failed' = failed \cup {StackOf(Project(s))} /\ UNCHANGED world
    /\ UNCHANGED <<place, steps, bad, stacks, reg, assigned, made, booted, outside>>

CleanUp ==
    \/ \E s \in Stacks : \/ CleanPipelinesAndServices(s) \/ CleanStreams(s) \/ CleanAgents(s)
                         \/ CleanPackages(s) \/ CleanStack(s)
    \/ /\ point = "clean" /\ toClean = <<>> /\ point' = "cleaned"
       /\ UNCHANGED <<place, steps, bad, stacks, reg, toClean, world, assigned, made, failures,
                      failed, booted, outside>>

-----------------------------------------------------------------------------
\* An agent that is enrolled and runs writes to its data stream again.
AgentWrites ==
    \E a \in assigned :
       /\ point \notin {"passed", "failed", "crashed"}
       /\ {Enrolment(a), Container(a)} \cup Policies(a) \subseteq world
       /\ LET t == Thing("stream", a.on, a.n)
          IN t \notin world /\ world' = world \cup {t} /\ rewritten' = rewritten \cup {t}
       /\ UNCHANGED <<place, point, steps, bad, stacks, reg, toClean, interrupted, booted, assigned, made,
                      failures, failed>>

\* The signal cancels a context that commands and cleanUp do not use.
InterruptScripts ==
    /\ ~interrupted /\ point \notin {"passed", "failed", "crashed"}
    /\ interrupted' = TRUE
    /\ UNCHANGED <<place, point, steps, bad, stacks, reg, toClean, world, assigned, made,
                   failures, failed, rewritten, booted>>

ScriptNext ==
    \/ EnterDir \/ BeginScript \/ EndScript \/ EndDir \/ NextDir \/ EndScripts
    \/ ScriptCommands \/ CleanUp
    \/ AgentWrites \/ InterruptScripts

ScriptSpec == ScriptInit /\ [][ScriptNext]_scriptVars

-----------------------------------------------------------------------------
\* Everything the last script of a directory has registered, and the package and the stack that are
\* never registered, is gone when cleanUp ends, whatever order the stacks come in, unless a call
\* that was to remove it failed or an agent has written its stream again; a failed call never keeps
\* cleanUp from the rest.  Nothing is removed when the script has taken its stack down itself.
ScriptCleanUpIsComplete ==
    point = "cleaned" =>
       \A s \in stacks :
          LET owed == Reachable(UNION {PartsOf(r) : r \in reg}, s) \cup {CurrentPackage(Project(s))}
                      \cup (IF s = "own" THEN {StackOf(Project(s))} ELSE {})
          IN owed \cap world \subseteq failed \cup rewritten

\* A stack the user had running before is never taken down, not by a script and not by cleanUp, also
\* when the directory uses it beside a stack of its own; unless a script has called stack_up with a
\* profile of the same name, which takes the user's project over.
ExternalSurvives == StackOf("external") \in world \/ (opts.sameName /\ booted)

\* A command that fails anywhere in a script reaches the exit code, also that of an earlier script or
\* directory: when the command ends every script that began has its outcome in the results, but for
\* those that a request without an answer ended, and the command fails exactly when a command of one
\* of the other scripts has failed, and that script did not skip after it.
FailuresAreReported ==
    point \in {"passed", "failed"} =>
        /\ Len(outcomes) + begun.lost = begun.all
        /\ point = "failed" <=> begun.bad > 0
===============================================================================
