---------------------------- MODULE CommandProofs -----------------------------
(***************************************************************************)
(* Theorems about what commands do on their own: Script, Benchmark,        *)
(* Profiles and Testers.  The four share no constant, variable or          *)
(* definition, so the theorems of one say nothing of the others.           *)
(***************************************************************************)
EXTENDS Script, Benchmark, Profiles, Testers, FiniteSetTheorems, SequenceTheorems, TLAPS

-----------------------------------------------------------------------------
(***************************************************************************)
(* Script: any number of directories, scripts, commands and failing calls. *)
(***************************************************************************)
\* What the registries of a script may name.
RegisteredKinds == {"service", "pipelines", "agent", "package", "stream"}

CleanSteps == {"clean", "streams", "agents", "packages", "stack"}
Pcs == CleanSteps \cup {"dir", "runner", "script", "ended", "next", "cleaned", "ran", "failed",
                        "passed", "crashed"}

\* The part of the types that the properties rest on.
ScriptTypes ==
    /\ point \in Pcs /\ bad \in BOOLEAN
    /\ stacks \subseteq Stacks /\ toClean \in Seq(Stacks)
    /\ \A r \in reg : r.kind \in RegisteredKinds
    /\ outcomes \in Seq({"pass", "fail", "skip"})
    /\ begun \in [all : Nat, bad : Nat, lost : Nat] /\ booted \in BOOLEAN

\* Every script that began has its outcome, but for those a panic ended and the one that runs; a
\* failed command of a script that did not skip is an outcome, and nothing else is.
RunOutcomes ==
    /\ begun.all = Len(outcomes) + begun.lost + IF point \in {"script", "ended"} THEN 1 ELSE 0
    /\ begun.bad > 0 <=> \E k \in DOMAIN outcomes : outcomes[k] = "fail"
    /\ point = "ended" => bad
    /\ point \in {"passed", "failed"} => (point = "failed" <=> begun.bad > 0)

\* Nothing of these things is left, but for what could not be removed or was written again.
Gone(things) == things \cap world \subseteq failed \cup rewritten

\* What each step of cleanUp owes a stack.
PipelinesAndServices(s) == Reachable(Parts({"pipelines", "service"}), s)
StreamsOf(s) == Reachable(Parts({"stream"}), s)
AgentsOf(s) == Reachable(Parts({"agent"}), s)
PackagesOf(s) == Reachable(Parts({"package"}) \cup {CurrentPackage(Project(s))}, s)
StackItself(s) == IF s = "own" THEN {StackOf(Project(s))} ELSE {}

CleanedOf(s) ==
    /\ Gone(PipelinesAndServices(s)) /\ Gone(StreamsOf(s)) /\ Gone(AgentsOf(s)) /\ Gone(PackagesOf(s))
    /\ Gone(StackItself(s))

\* A stack is cleaned or still to come, and of the one that cleanUp is at, the steps that were made
\* are done.
ScriptCleaning ==
    /\ point \in CleanSteps \cup {"cleaned"} =>
          \A s \in stacks : CleanedOf(s) \/ \E k \in DOMAIN toClean : toClean[k] = s
    /\ point = "cleaned" => toClean = <<>>
    /\ point \in CleanSteps \ {"clean"} =>
          LET s == Head(toClean)
          IN  /\ toClean # <<>>
              /\ Gone(PipelinesAndServices(s))
              /\ point \in {"agents", "packages", "stack"} => Gone(StreamsOf(s))
              /\ point \in {"packages", "stack"} => Gone(AgentsOf(s))
              /\ point = "stack" => Gone(PackagesOf(s))

\* A stack of its own is one that a script has booted.
OwnIsBooted ==
    /\ "own" \in stacks => booted
    /\ \A k \in DOMAIN toClean : toClean[k] = "own" => booted

ScriptInv == ScriptTypes /\ RunOutcomes /\ ScriptCleaning /\ OwnIsBooted /\ ExternalSurvives

-----------------------------------------------------------------------------
(***************************************************************************)
(* The commands.                                                           *)
(***************************************************************************)
\* A command touches no outcome, and the script that runs ends only when one has failed.
LEMMA CommandsRun ==
    ASSUME ScriptCommands, ~CommandPanics
    PROVE  /\ point = "script" /\ point' \in {"script", "ended"}
           /\ bad' \in {bad, TRUE} /\ (point' = "ended" => bad')
           /\ UNCHANGED <<toClean, outcomes, begun, opts>>
           /\ booted' \in {booted, TRUE} /\ ("own" \in stacks' => "own" \in stacks \/ booted')
<1> USE DEF Begins, Command, Passes, CheckFails, CallFails, place
<1>1. CASE CommandFails \/ StackUp \/ UseStack \/ StackDown \/ DockerDown
  BY <1>1 DEF CommandFails, StackUp, UseStack, StackDown, DockerDown
<1>2. CASE UninstallPipelines \/ UninstallAgent \/ AddPackagePolicy \/ RemovePackagePolicy
  BY <1>2 DEF UninstallPipelines, UninstallAgent, AddPackagePolicy, RemovePackagePolicy
<1>3. CASE \E s \in Stacks : DockerUp(s) \/ InstallPipelines(s) \/ InstallAgent(s)
  BY <1>3 DEF DockerUp, InstallPipelines, InstallAgent
<1>4. CASE \E s \in Stacks :
              \/ AddPackage(s) \/ RemovePackage(s) \/ InstallPackageFromRegistry(s)
              \/ AddPackageZip(s) \/ RemovePackageZip(s)
  BY <1>4 DEF AddPackage, RemovePackage, InstallPackageFromRegistry, AddPackageZip, RemovePackageZip
<1> QED
  BY <1>1, <1>2, <1>3, <1>4 DEF ScriptCommands

\* A registered thing takes the place of another or is added.
LEMMA RegisterKeeps ==
    ASSUME NEW t, NEW r \in Noted(t)
    PROVE  r = t \/ r \in reg
BY DEF Noted

\* A command registers stacks and things of the kinds that are registered.
LEMMA CommandsRegister ==
    ASSUME ScriptTypes, ScriptCommands, ~CommandPanics
    PROVE  stacks' \subseteq Stacks /\ \A r \in reg' : r.kind \in RegisteredKinds
<1> USE RegisterKeeps DEF ScriptTypes, RegisteredKinds, Thing, New
<1>1. CASE CommandFails \/ StackUp \/ UseStack \/ StackDown \/ DockerDown
  BY <1>1 DEF CommandFails, StackUp, UseStack, StackDown, DockerDown, Stacks
<1>2. CASE UninstallPipelines \/ UninstallAgent \/ RemovePackagePolicy
  BY <1>2 DEF UninstallPipelines, UninstallAgent, RemovePackagePolicy
<1>3. CASE AddPackagePolicy
  BY <1>3 DEF AddPackagePolicy
<1>4. CASE \E s \in Stacks : DockerUp(s) \/ InstallPipelines(s) \/ InstallAgent(s)
  <2>1. CASE \E s \in Stacks : DockerUp(s) \/ InstallPipelines(s)
    BY <2>1 DEF DockerUp, InstallPipelines
  <2>2. CASE \E s \in Stacks : InstallAgent(s)
    <3>1. PICK s \in Stacks : InstallAgent(s)
      BY <2>2
    <3>2. stacks' = stacks /\ reg' \in {reg, Noted(New("agent", s))}
      BY <3>1 DEF InstallAgent
    <3> QED
      BY <3>2
  <2> QED
    BY <1>4, <2>1, <2>2
<1>5. CASE \E s \in Stacks :
              \/ AddPackage(s) \/ RemovePackage(s) \/ InstallPackageFromRegistry(s)
              \/ AddPackageZip(s) \/ RemovePackageZip(s)
  BY <1>5 DEF AddPackage, RemovePackage, InstallPackageFromRegistry, AddPackageZip, RemovePackageZip
<1> QED
  BY <1>1, <1>2, <1>3, <1>4, <1>5 DEF ScriptCommands

\* A stack is not a part of a registered thing.
LEMMA StackIsNoPart ==
    ASSUME NEW t, NEW s, t.kind # "stack"
    PROVE  StackOf(s) \notin PartsOf(t)
BY DEF PartsOf, StackOf, Thing, Policies, Enrolment, Container

\* What tells the user's stack from everything that is removed.
LEMMA External ==
    /\ StackOf("external").kind = "stack" /\ StackOf("external").on = "external"
    /\ \A s : StackOf("external") # CurrentPackage(s) /\ StackOf("external") # Thing("zip", s, 0)
    /\ ~Contained(StackOf("external"))
BY DEF StackOf, CurrentPackage, Thing, Contained

\* It is there when a project of another name is taken down.
LEMMA BesideOwn ==
    ASSUME StackOf("external") \in world, ~opts.sameName
    PROVE  StackOf("external") \in Beside(Project("own"))
BY External DEF Beside, Project

\* No command takes the user's stack down but those of a stack with the same name.
LEMMA CommandsSpareExternal ==
    ASSUME ExternalSurvives, OwnIsBooted, ScriptCommands, ~CommandPanics
    PROVE  ExternalSurvives'
<1>1. booted' \in {booted, TRUE} /\ opts' = opts
  BY CommandsRun
<1> SUFFICES ASSUME ~(opts.sameName /\ booted') PROVE StackOf("external") \in world'
  BY <1>1 DEF ExternalSurvives
<1>2. StackOf("external") \in world
  BY <1>1 DEF ExternalSurvives
<1> USE <1>2, External
<1>3. CASE StackUp \/ StackDown
  <2>1. ~opts.sameName
    BY <1>1, <1>3 DEF StackUp, StackDown, OwnIsBooted, Begins
  <2> QED
    BY <1>3, <2>1, BesideOwn DEF StackUp, StackDown
<1>4. CASE CommandFails \/ UseStack \/ DockerDown
  BY <1>4 DEF CommandFails, UseStack, DockerDown
<1>5. CASE UninstallPipelines \/ AddPackagePolicy \/ RemovePackagePolicy
  BY <1>5 DEF UninstallPipelines, AddPackagePolicy, RemovePackagePolicy
<1>6. CASE UninstallAgent
  <2>1. PICK a \in reg : a.kind = "agent" /\ \E gone \in SUBSET PartsOf(a) : world' = world \ gone
    BY <1>6 DEF UninstallAgent, PartsOf
  <2> QED
    BY <2>1, StackIsNoPart
<1>7. CASE \E s \in Stacks : DockerUp(s) \/ InstallPipelines(s) \/ InstallAgent(s)
  BY <1>7 DEF DockerUp, InstallPipelines, InstallAgent
<1>8. CASE \E s \in Stacks :
              \/ AddPackage(s) \/ RemovePackage(s) \/ InstallPackageFromRegistry(s)
              \/ AddPackageZip(s) \/ RemovePackageZip(s)
  BY <1>8 DEF AddPackage, RemovePackage, InstallPackageFromRegistry, AddPackageZip, RemovePackageZip
<1> QED
  BY <1>3, <1>4, <1>5, <1>6, <1>7, <1>8 DEF ScriptCommands

\* A script that a panic ends is counted.
LEMMA PanicKeeps == ScriptInv /\ CommandPanics => ScriptInv'
<1> SUFFICES ASSUME ScriptInv, CommandPanics PROVE ScriptInv'
  OBVIOUS
<1> USE DEF CommandPanics, Begins, ScriptInv
<1>1. begun \in [all : Nat, bad : Nat, lost : Nat]
  BY DEF ScriptTypes
<1>2. begun' \in [all : Nat, bad : Nat, lost : Nat] /\ begun'.lost = begun.lost + 1
      /\ begun'.all = begun.all /\ begun'.bad = begun.bad
  BY <1>1
<1>3. booted' = booted
  BY DEF ScriptTypes
<1>4. ScriptTypes'
  BY <1>2, <1>3 DEF ScriptTypes, Pcs
<1>5. RunOutcomes'
  <2>1. Len(outcomes) \in Nat
    BY LenProperties DEF ScriptTypes
  <2> QED
    BY <1>1, <1>2, <2>1 DEF RunOutcomes
<1> QED
  BY <1>3, <1>4, <1>5 DEF ScriptCleaning, CleanSteps, OwnIsBooted, ExternalSurvives

\* A command keeps the invariant.
LEMMA CommandsKeep == ScriptInv /\ ScriptCommands => ScriptInv'
<1> SUFFICES ASSUME ScriptInv, ScriptCommands, ~CommandPanics PROVE ScriptInv'
  BY PanicKeeps
<1>1. ScriptTypes'
  BY CommandsRun, CommandsRegister DEF ScriptInv, ScriptTypes, Pcs
<1>2. RunOutcomes' /\ ScriptCleaning' /\ OwnIsBooted'
  BY CommandsRun DEF ScriptInv, RunOutcomes, ScriptCleaning, CleanSteps, OwnIsBooted
<1> QED
  BY <1>1, <1>2, CommandsSpareExternal DEF ScriptInv

-----------------------------------------------------------------------------
(***************************************************************************)
(* The runner.                                                             *)
(***************************************************************************)
\* Nothing has run and nothing is owed.
LEMMA InitScriptInv == ScriptInit => ScriptInv
<1> SUFFICES ASSUME ScriptInit PROVE ScriptInv
  OBVIOUS
<1>1. begun \in [all : Nat, bad : Nat, lost : Nat] /\ toClean \in Seq(Stacks)
      /\ outcomes \in Seq({"pass", "fail", "skip"})
  BY DEF ScriptInit
<1>2. ScriptTypes
  BY <1>1 DEF ScriptInit, ScriptTypes, Pcs
<1>3. RunOutcomes
  BY DEF ScriptInit, RunOutcomes
<1>4. ScriptCleaning /\ OwnIsBooted /\ ExternalSurvives
  BY DEF ScriptInit, ScriptCleaning, CleanSteps, OwnIsBooted, ExternalSurvives
<1> QED
  BY <1>2, <1>3, <1>4 DEF ScriptInv

\* An outcome that is added is counted.
LEMMA ReportKeeps ==
    ASSUME ScriptInv, point \in {"script", "ended"}, NEW verdict \in {"pass", "fail", "skip"},
           verdict # "skip" => (verdict = "fail" <=> bad), Report(verdict)
    PROVE  ScriptInv'
<1>1. outcomes \in Seq({"pass", "fail", "skip"}) /\ begun \in [all : Nat, bad : Nat, lost : Nat]
  BY DEF ScriptInv, ScriptTypes
<1>2. /\ Len(outcomes') = Len(outcomes) + 1 /\ outcomes'[Len(outcomes) + 1] = verdict
      /\ \A k \in DOMAIN outcomes : outcomes'[k] = outcomes[k]
      /\ DOMAIN outcomes' = DOMAIN outcomes \cup {Len(outcomes) + 1}
      /\ outcomes' \in Seq({"pass", "fail", "skip"})
  BY <1>1 DEF Report
<1>3. begun' \in [all : Nat, bad : Nat, lost : Nat] /\ begun'.all = begun.all
      /\ begun'.bad = begun.bad + (IF verdict = "fail" THEN 1 ELSE 0) /\ begun'.lost = begun.lost
  BY <1>1 DEF Report
<1>4. point' = "runner" /\ UNCHANGED <<bad, stacks, reg, toClean, world, booted, opts>>
  BY DEF Report
<1>5. ScriptTypes'
  BY <1>2, <1>3, <1>4 DEF ScriptInv, ScriptTypes, Pcs
<1>6. RunOutcomes'
  <2>1. Len(outcomes) \in Nat /\ Len(outcomes) + 1 \in DOMAIN outcomes'
    BY <1>1, <1>2, LenProperties
  <2>2. begun'.all = Len(outcomes') + begun'.lost
    BY <1>1, <1>2, <1>3, <2>1 DEF ScriptInv, RunOutcomes
  <2>3. begun'.bad > 0 <=> \E k \in DOMAIN outcomes' : outcomes'[k] = "fail"
    <3>1. begun.bad > 0 <=> \E k \in DOMAIN outcomes : outcomes[k] = "fail"
      BY DEF ScriptInv, RunOutcomes
    <3>2. CASE verdict = "fail"
      <4>1. begun'.bad > 0
        BY <1>1, <1>3, <3>2
      <4> QED
        BY <1>2, <2>1, <3>2, <4>1
    <3>3. CASE verdict # "fail"
      <4>1. begun'.bad = begun.bad
        BY <1>1, <1>3, <3>3
      <4> QED
        BY <1>2, <3>1, <3>3, <4>1
    <3> QED
      BY <3>2, <3>3
  <2> QED
    BY <1>4, <2>2, <2>3, <1>1, <1>2, <1>3, <2>1 DEF RunOutcomes
<1> QED
  BY <1>4, <1>5, <1>6 DEF ScriptInv, ScriptCleaning, CleanSteps, OwnIsBooted, ExternalSurvives

\* Whatever order cleanUp takes the stacks in, it comes to all of them.
LEMMA OrdersCoverStacks ==
    ASSUME stacks \subseteq Stacks, NEW q \in Orders(stacks)
    PROVE  /\ q \in Seq(Stacks) /\ \A k \in DOMAIN q : q[k] \in stacks
           /\ \A s \in stacks : \E k \in DOMAIN q : q[k] = s
<1>1. IsFiniteSet(Stacks)
  <2>1. IsFiniteSet({"own"} \cup {"external"})
    BY FS_Singleton, FS_AddElement
  <2> QED
    BY <2>1 DEF Stacks
<1>2. IsFiniteSet(stacks) /\ Cardinality(stacks) \in Nat
  BY <1>1, FS_Subset, FS_CardinalityType
<1> DEFINE n == Cardinality(stacks)
<1>3. q \in [1..n -> stacks] /\ q \in Injection(1..n, stacks)
  BY DEF Orders, Injection, IsInjective
<1>4. Cardinality(1..n) = n
  BY <1>2, FS_Interval
<1>5. q \in Surjection(1..n, stacks)
  BY <1>2, <1>3, <1>4, FS_Injection
<1> HIDE DEF n
<1>6. \A s \in stacks : \E k \in DOMAIN q : q[k] = s
  BY <1>5, <1>3 DEF Surjection
<1>7. n \in Nat
  BY <1>2 DEF n
<1> QED
  BY <1>3, <1>6, <1>7

\* The steps of the runner keep the invariant.
LEMMA RunnerKeeps ==
    ScriptInv /\ (EnterDir \/ BeginScript \/ EndScript \/ EndDir \/ NextDir \/ EndScripts) => ScriptInv'
<1> SUFFICES ASSUME ScriptInv, EnterDir \/ BeginScript \/ EndScript \/ EndDir \/ NextDir \/ EndScripts
             PROVE  ScriptInv'
  OBVIOUS
<1> USE DEF place, outside
<1>1. CASE EnterDir \/ NextDir \/ EndScripts
  <2>1. ScriptTypes'
    BY <1>1 DEF ScriptInv, ScriptTypes, Pcs, EnterDir, NextDir, EndScripts
  <2>2. RunOutcomes'
    BY <1>1 DEF ScriptInv, RunOutcomes, EnterDir, NextDir, EndScripts
  <2> QED
    BY <1>1, <2>1, <2>2
       DEF ScriptInv, ScriptCleaning, CleanSteps, OwnIsBooted, ExternalSurvives, EnterDir, NextDir, EndScripts
<1>2. CASE BeginScript
  <2>1. begun' \in [all : Nat, bad : Nat, lost : Nat]
    BY <1>2 DEF ScriptInv, ScriptTypes, BeginScript
  <2>2. ScriptTypes'
    BY <1>2, <2>1 DEF ScriptInv, ScriptTypes, Pcs, BeginScript
  <2>3. RunOutcomes'
    BY <1>2 DEF ScriptInv, ScriptTypes, RunOutcomes, BeginScript
  <2> QED
    BY <1>2, <2>2, <2>3 DEF ScriptInv, ScriptCleaning, CleanSteps, OwnIsBooted, ExternalSurvives, BeginScript
<1>3. CASE EndScript
  BY <1>3, ReportKeeps DEF EndScript, ScriptInv, RunOutcomes
<1>4. CASE EndDir
  <2>1. toClean' \in Seq(Stacks)
        /\ (point' = "clean" => \A s \in stacks : \E k \in DOMAIN toClean' : toClean'[k] = s)
        /\ \A k \in DOMAIN toClean' : toClean'[k] \in stacks
    <3>1. CASE opts.work
      BY <1>4, <3>1 DEF EndDir
    <3>2. CASE ~opts.work
      BY <1>4, <3>2, OrdersCoverStacks DEF EndDir, ScriptInv, ScriptTypes
    <3> QED
      BY <3>1, <3>2
  <2>2. ScriptTypes'
    BY <1>4, <2>1 DEF ScriptInv, ScriptTypes, Pcs, CleanSteps, EndDir
  <2>3. RunOutcomes'
    BY <1>4 DEF ScriptInv, RunOutcomes, EndDir
  <2>4. ScriptCleaning'
    BY <1>4, <2>1 DEF EndDir, ScriptCleaning, CleanSteps
  <2> QED
    BY <1>4, <2>1, <2>2, <2>3, <2>4 DEF ScriptInv, OwnIsBooted, ExternalSurvives, EndDir
<1> QED
  BY <1>1, <1>2, <1>3, <1>4

-----------------------------------------------------------------------------
(***************************************************************************)
(* cleanUp.                                                                *)
(***************************************************************************)
\* What is gone stays gone while only an agent adds to the world.
LEMMA GoneStays ==
    ASSUME reg' = reg, opts' = opts, world' \subseteq world \cup rewritten', failed \subseteq failed',
           rewritten \subseteq rewritten', NEW s
    PROVE  /\ Gone(PipelinesAndServices(s)) => Gone(PipelinesAndServices(s))'
           /\ Gone(StreamsOf(s)) => Gone(StreamsOf(s))'
           /\ Gone(AgentsOf(s)) => Gone(AgentsOf(s))'
           /\ Gone(PackagesOf(s)) => Gone(PackagesOf(s))'
           /\ Gone(StackItself(s)) => Gone(StackItself(s))'
           /\ CleanedOf(s) => CleanedOf(s)'
<1>1. /\ PipelinesAndServices(s)' = PipelinesAndServices(s) /\ StreamsOf(s)' = StreamsOf(s)
      /\ AgentsOf(s)' = AgentsOf(s) /\ PackagesOf(s)' = PackagesOf(s) /\ StackItself(s)' = StackItself(s)
  BY Zenon DEF PipelinesAndServices, StreamsOf, AgentsOf, PackagesOf, StackItself, Parts, Reachable, Project
<1>2. ASSUME NEW things, Gone(things)
      PROVE  things \cap world' \subseteq failed' \cup rewritten'
  BY <1>2 DEF Gone
<1> QED
  BY <1>1, <1>2 DEF Gone, CleanedOf

\* A step of cleanUp that removes things leaves none of them but those it failed to remove.
LEMMA RemoveRemoves ==
    ASSUME NEW s, NEW things, Remove(s, things)
    PROVE  /\ world' \subseteq world /\ failed \subseteq failed'
           /\ Reachable(things, s) \cap world' \subseteq failed'
BY DEF Remove, Reachable

\* What cleanUp removes step by step is never a stack.
LEMMA RemoveSparesStacks ==
    ASSUME NEW s, NEW things, Remove(s, things), ExternalSurvives, StackOf("external") \notin things,
           UNCHANGED <<opts, booted>>
    PROVE  ExternalSurvives'
BY DEF Remove, Reachable, ExternalSurvives

\* No part of a registered thing of these kinds is a stack.
LEMMA PartsAreNoStacks ==
    ASSUME NEW kinds \in SUBSET RegisteredKinds, NEW s
    PROVE  StackOf(s) \notin Parts(kinds)
BY StackIsNoPart DEF Parts, RegisteredKinds

\* cleanUp removes the user's stack only with one of the same name.
LEMMA CleanUpSparesExternal ==
    ASSUME ExternalSurvives, OwnIsBooted, ScriptTypes, CleanUp
    PROVE  ExternalSurvives'
<1> USE DEF place
<1>1. ASSUME NEW kinds \in SUBSET RegisteredKinds
      PROVE  StackOf("external") \notin Parts(kinds)
  BY <1>1, PartsAreNoStacks
<1>2. CASE \E s \in Stacks : CleanPipelinesAndServices(s)
  BY <1>1, <1>2, RemoveSparesStacks DEF CleanPipelinesAndServices, Clean, RegisteredKinds
<1>3. CASE \E s \in Stacks : CleanStreams(s)
  BY <1>1, <1>3, RemoveSparesStacks DEF CleanStreams, Clean, RegisteredKinds
<1>4. CASE \E s \in Stacks : CleanAgents(s)
  BY <1>1, <1>4, RemoveSparesStacks DEF CleanAgents, Clean, RegisteredKinds
<1>5. CASE \E s \in Stacks : CleanPackages(s)
  BY <1>1, <1>5, RemoveSparesStacks, External DEF CleanPackages, Clean, RegisteredKinds
<1>6. CASE \E s \in Stacks : CleanStack(s)
  <2>1. PICK s \in Stacks : CleanStack(s)
    BY <1>6
  <2>2. s = toClean[1] /\ 1 \in DOMAIN toClean /\ UNCHANGED <<opts, booted>>
    BY <2>1 DEF CleanStack, ScriptTypes
  <2>3. CASE s = "external"
    BY <2>1, <2>2, <2>3 DEF CleanStack, ExternalSurvives
  <2>4. CASE s = "own"
    <3>1. booted
      BY <2>2, <2>4 DEF OwnIsBooted
    <3> QED
      BY <2>1, <2>2, <2>4, <3>1, BesideOwn DEF CleanStack, ExternalSurvives
  <2> QED
    BY <2>3, <2>4 DEF Stacks
<1>7. CASE point = "clean" /\ toClean = <<>> /\ UNCHANGED <<world, opts, booted>>
  BY <1>7 DEF ExternalSurvives
<1> QED
  BY <1>2, <1>3, <1>4, <1>5, <1>6, <1>7 DEF CleanUp

\* cleanUp keeps types and outcomes.
LEMMA CleanUpRuns ==
    ASSUME ScriptTypes, RunOutcomes, OwnIsBooted, CleanUp
    PROVE  /\ ScriptTypes' /\ RunOutcomes' /\ OwnIsBooted' /\ UNCHANGED <<stacks, reg, rewritten, opts>>
           /\ world' \subseteq world /\ failed \subseteq failed'
<1> USE DEF place, outside
<1> DEFINE Effect ==
       /\ point \in CleanSteps /\ point' \in CleanSteps \cup {"cleaned"}
       /\ toClean' \in {toClean, Tail(toClean)} /\ (toClean' = toClean \/ toClean # <<>>)
       /\ UNCHANGED <<bad, stacks, reg, outcomes, begun, rewritten, booted, opts>>
       /\ world' \subseteq world /\ failed \subseteq failed'
<1>1. ASSUME NEW s, NEW at \in CleanSteps, NEW next \in CleanSteps, NEW things,
             Clean(at, next, s, things)
      PROVE  Effect
  BY <1>1, RemoveRemoves DEF Clean
<1>2. Effect
  <2>1. CASE \E s \in Stacks : CleanPipelinesAndServices(s) \/ CleanStreams(s)
    BY <1>1, <2>1 DEF CleanPipelinesAndServices, CleanStreams, CleanSteps
  <2>2. CASE \E s \in Stacks : CleanAgents(s) \/ CleanPackages(s)
    BY <1>1, <2>2 DEF CleanAgents, CleanPackages, CleanSteps
  <2>3. CASE \E s \in Stacks : CleanStack(s)
    BY <2>3 DEF CleanStack, CleanSteps, Beside
  <2>4. CASE /\ point = "clean" /\ toClean = <<>> /\ point' = "cleaned"
             /\ UNCHANGED <<place, bad, stacks, reg, toClean, world, failed, booted, outside>>
    BY <2>4 DEF CleanSteps
  <2> QED
    BY <2>1, <2>2, <2>3, <2>4 DEF CleanUp
<1>3. ScriptTypes'
  <2>1. CASE toClean' = toClean
    BY <1>2, <2>1 DEF ScriptTypes, Pcs
  <2>2. CASE toClean # <<>> /\ toClean' = Tail(toClean)
    BY <1>2, <2>2 DEF ScriptTypes, Pcs
  <2> QED
    BY <1>2, <2>1, <2>2
<1>4. RunOutcomes'
  BY <1>2 DEF RunOutcomes, CleanSteps
<1>5. OwnIsBooted'
  <2>1. CASE toClean' = toClean
    BY <1>2, <2>1 DEF OwnIsBooted
  <2>2. CASE toClean # <<>> /\ toClean' = Tail(toClean)
    <3>1. \A k \in DOMAIN toClean' : k + 1 \in DOMAIN toClean /\ toClean'[k] = toClean[k + 1]
      BY <2>2 DEF ScriptTypes
    <3> QED
      BY <1>2, <3>1 DEF OwnIsBooted
  <2> QED
    BY <1>2, <2>1, <2>2
<1> QED
  BY <1>2, <1>3, <1>4, <1>5

\* cleanUp comes to every stack and through all its steps.
LEMMA CleanUpCleans ==
    ASSUME ScriptTypes, ScriptCleaning, CleanUp, UNCHANGED <<stacks, reg, rewritten, opts>>,
           world' \subseteq world, failed \subseteq failed'
    PROVE  ScriptCleaning'
<1>1. \A s : /\ Gone(PipelinesAndServices(s)) => Gone(PipelinesAndServices(s))'
             /\ Gone(StreamsOf(s)) => Gone(StreamsOf(s))'
             /\ Gone(AgentsOf(s)) => Gone(AgentsOf(s))'
             /\ Gone(PackagesOf(s)) => Gone(PackagesOf(s))'
             /\ CleanedOf(s) => CleanedOf(s)'
  BY GoneStays
<1>2. \A s \in stacks : CleanedOf(s) \/ \E k \in DOMAIN toClean : toClean[k] = s
  BY DEF CleanUp, ScriptCleaning, CleanSteps, CleanPipelinesAndServices, CleanStreams, CleanAgents,
         CleanPackages, CleanStack, Clean
<1>3. CASE \E s \in Stacks : CleanPipelinesAndServices(s)
  <2>1. PICK s \in Stacks : CleanPipelinesAndServices(s)
    BY <1>3
  <2>2. Gone(PipelinesAndServices(s))'
    BY <2>1, RemoveRemoves DEF CleanPipelinesAndServices, Clean, Gone, PipelinesAndServices, Parts, Reachable, Project
  <2> QED
    BY <1>1, <1>2, <2>1, <2>2 DEF ScriptCleaning, CleanSteps, CleanPipelinesAndServices, Clean
<1>4. CASE \E s \in Stacks : CleanStreams(s)
  <2>1. PICK s \in Stacks : CleanStreams(s)
    BY <1>4
  <2>2. Gone(StreamsOf(s))'
    BY <2>1, RemoveRemoves DEF CleanStreams, Clean, Gone, StreamsOf, Parts, Reachable, Project
  <2> QED
    BY <1>1, <1>2, <2>1, <2>2 DEF ScriptCleaning, CleanSteps, CleanStreams, Clean
<1>5. CASE \E s \in Stacks : CleanAgents(s)
  <2>1. PICK s \in Stacks : CleanAgents(s)
    BY <1>5
  <2>2. Gone(AgentsOf(s))'
    BY <2>1, RemoveRemoves DEF CleanAgents, Clean, Gone, AgentsOf, Parts, Reachable, Project
  <2> QED
    BY <1>1, <1>2, <2>1, <2>2 DEF ScriptCleaning, CleanSteps, CleanAgents, Clean
<1>6. CASE \E s \in Stacks : CleanPackages(s)
  <2>1. PICK s \in Stacks : CleanPackages(s)
    BY <1>6
  <2>2. Gone(PackagesOf(s))'
    BY <2>1, RemoveRemoves DEF CleanPackages, Clean, Gone, PackagesOf, Parts, Reachable, Project
  <2> QED
    BY <1>1, <1>2, <2>1, <2>2 DEF ScriptCleaning, CleanSteps, CleanPackages, Clean
<1>7. CASE \E s \in Stacks : CleanStack(s)
  <2>1. PICK s \in Stacks : CleanStack(s)
    BY <1>7
  <2>2. point = "stack" /\ point' = "clean" /\ toClean # <<>> /\ s = Head(toClean) /\ toClean' = Tail(toClean)
    BY <2>1 DEF CleanStack
  <2>3. Gone(StackItself(s))'
    BY <2>1 DEF CleanStack, Stacks, StackItself, Gone, StackOf, Thing, Contained, Beside, Project
  <2>4. CleanedOf(s)'
    BY <1>1, <2>2, <2>3 DEF ScriptCleaning, CleanSteps, CleanedOf
  <2>5. ASSUME NEW r \in stacks
        PROVE  CleanedOf(r)' \/ \E k \in DOMAIN toClean' : toClean'[k] = r
    <3>1. CASE CleanedOf(r) \/ r = s
      BY <1>1, <2>4, <3>1
    <3>2. CASE r # s /\ \E k \in DOMAIN toClean : toClean[k] = r
      <4>1. PICK k \in DOMAIN toClean : toClean[k] = r
        BY <3>2
      <4>2. k \in 1..Len(toClean) /\ k # 1
        BY <4>1, <3>2, <2>2 DEF ScriptTypes
      <4>3. k - 1 \in DOMAIN toClean' /\ toClean'[k - 1] = r
        BY <4>1, <4>2, <2>2 DEF ScriptTypes
      <4> QED
        BY <4>3
    <3> QED
      BY <3>1, <3>2, <1>2
  <2> QED
    BY <2>2, <2>5 DEF ScriptCleaning, CleanSteps
<1>8. CASE point = "clean" /\ toClean = <<>> /\ point' = "cleaned" /\ toClean' = toClean
  BY <1>1, <1>2, <1>8 DEF ScriptCleaning, CleanSteps
<1> QED
  BY <1>3, <1>4, <1>5, <1>6, <1>7, <1>8 DEF CleanUp

-----------------------------------------------------------------------------
(***************************************************************************)
(* The invariant is inductive, and what follows from it.                   *)
(***************************************************************************)
\* Agents that write and a signal disturb nothing.
LEMMA OutsideKeeps == ScriptInv /\ (AgentWrites \/ InterruptScripts \/ UNCHANGED scriptVars) => ScriptInv'
<1> SUFFICES ASSUME ScriptInv, AgentWrites \/ InterruptScripts \/ UNCHANGED scriptVars PROVE ScriptInv'
  OBVIOUS
<1>1. /\ UNCHANGED <<point, bad, stacks, reg, toClean, outcomes, begun, failed, booted, opts>>
      /\ world \subseteq world' /\ world' \subseteq world \cup rewritten' /\ rewritten \subseteq rewritten'
  BY DEF AgentWrites, InterruptScripts, scriptVars, place
<1>2. ScriptTypes' /\ RunOutcomes'
  BY <1>1 DEF ScriptInv, ScriptTypes, RunOutcomes
<1>3. ScriptCleaning'
  BY <1>1, GoneStays DEF ScriptInv, ScriptCleaning
<1> QED
  BY <1>1, <1>2, <1>3 DEF ScriptInv, OwnIsBooted, ExternalSurvives

\* Every step keeps the invariant.
LEMMA ScriptStepInv == ScriptInv /\ [ScriptNext]_scriptVars => ScriptInv'
<1> SUFFICES ASSUME ScriptInv, [ScriptNext]_scriptVars PROVE ScriptInv'
  OBVIOUS
<1>1. CASE CleanUp
  BY <1>1, CleanUpRuns, CleanUpCleans, CleanUpSparesExternal DEF ScriptInv
<1> QED
  BY <1>1, RunnerKeeps, CommandsKeep, OutsideKeeps DEF ScriptNext

\* So it holds throughout.
LEMMA ScriptInvariance == ScriptSpec => []ScriptInv
BY InitScriptInv, ScriptStepInv, PTL DEF ScriptSpec

\* The user's stack outlives every script and every cleanUp, as long as no script starts one whose
\* profile has the same name: nothing that a command or cleanUp removes is the stack of another
\* project than that of stack_up.
THEOREM UserStackSurvives == ScriptSpec => []ExternalSurvives
<1>1. ScriptInv => ExternalSurvives
  BY DEF ScriptInv
<1> QED
  BY <1>1, ScriptInvariance, PTL

\* Whatever fails in whichever script, its outcome is in the results and the command fails, and it
\* fails for no other reason; but for the scripts that a panic ends and those that skip.
THEOREM FailuresReachTheExitCode == ScriptSpec => []FailuresAreReported
<1>1. ScriptInv => FailuresAreReported
  BY DEF ScriptInv, ScriptTypes, RunOutcomes, FailuresAreReported
<1> QED
  BY <1>1, ScriptInvariance, PTL

\* When cleanUp ends nothing is left in any stack it was given, but for what could not be removed
\* and what an agent wrote again.
THEOREM CleanUpCompletes == ScriptSpec => []ScriptCleanUpIsComplete
<1>1. ScriptInv => ScriptCleanUpIsComplete
  <2> SUFFICES ASSUME ScriptInv, point = "cleaned", NEW s \in stacks,
                      NEW t \in (Reachable(UNION {PartsOf(r) : r \in reg}, s)
                                 \cup {CurrentPackage(Project(s))}
                                 \cup (IF s = "own" THEN {StackOf(Project(s))} ELSE {})) \cap world
               PROVE  t \in failed \cup rewritten
    BY DEF ScriptCleanUpIsComplete
  <2>1. CleanedOf(s)
    BY DEF ScriptInv, ScriptCleaning
  <2>2. CASE t = CurrentPackage(Project(s))
    <3>1. t \in PackagesOf(s)
      BY <2>2 DEF PackagesOf, Reachable, CurrentPackage, Thing
    <3> QED
      BY <2>1, <3>1 DEF CleanedOf, Gone
  <2>3. CASE t \in StackItself(s)
    BY <2>1, <2>3 DEF CleanedOf, Gone
  <2>4. CASE t \in Reachable(UNION {PartsOf(r) : r \in reg}, s)
    <3>1. PICK r \in reg : t \in PartsOf(r)
      BY <2>4 DEF Reachable
    <3>2. r.kind \in RegisteredKinds
      BY DEF ScriptInv, ScriptTypes
    <3>3. \/ t \in PipelinesAndServices(s) \/ t \in StreamsOf(s)
          \/ t \in AgentsOf(s) \/ t \in PackagesOf(s)
      BY <2>4, <3>1, <3>2
         DEF RegisteredKinds, PipelinesAndServices, StreamsOf, AgentsOf, PackagesOf, Parts, Reachable
    <3> QED
      BY <2>1, <3>3 DEF CleanedOf, Gone
  <2> QED
    BY <2>2, <2>3, <2>4 DEF StackItself
<1> QED
  BY <1>1, ScriptInvariance, PTL

-----------------------------------------------------------------------------
(***************************************************************************)
(* Benchmark: any sets of generators and backfills.                        *)
(***************************************************************************)
\* What the calls still to make are.
CallNames(s) == {s[i] : i \in DOMAIN s}

\* The calls that a runner of a kind may have to make, in any phase.
CallsOf(k) ==
    CASE k = "rally" -> {"install", "generator", "wipe", "cleared", "startMetrics", "corpus", "track",
                         "race", "stopMetrics", "reindex", "defer", "persist", "package", "docs"}
      [] k = "system" -> {"service", "generator", "policy", "wipe", "cleared", "startMetrics", "corpus",
                          "enroll", "signal", "finish", "stopMetrics", "reindex", "defer", "agents",
                          "docs"}
      [] k = "stream" -> {"generator", "install", "wipe", "cleared", "stream", "package",
                          "docs"}
      [] k = "pipeline" -> {"pipelines", "simulate"}

\* The handlers that it may register.
HandlersOf(k) ==
    CASE k = "rally" -> {"package", "docs", "corpus", "persist"}
      [] k = "system" -> {"service", "policy", "docs", "corpus", "agents"}
      [] k = "stream" -> {"package", "docs"}
      [] k = "pipeline" -> {"pipelines"}

\* The orders that the clean-up relies on: x only before y, a y after every x, and x only once.
Before(s, x, y) == \A i, j \in DOMAIN s : s[i] = x /\ s[j] = y => i < j
Followed(s, x, y) == \A i \in DOMAIN s : s[i] = x => \E j \in DOMAIN s : i < j /\ s[j] = y
Once(s, x) == \A i, j \in DOMAIN s : s[i] = x /\ s[j] = x => i = j

InOrder(s) ==
    /\ Before(s, "corpus", "track") /\ Before(s, "persist", "corpus")
    /\ Before(s, "agents", "policy")
    /\ Followed(s, "agents", "docs") /\ Followed(s, "startMetrics", "stopMetrics")
    /\ Once(s, "policy")

CallList(s, k) == s \in Seq(CallsOf(k)) /\ InOrder(s)

\* The part of the types that the properties rest on.
RunnerTypes ==
    /\ kind \in BenchmarkKinds
    /\ phase \in {"setup", "run", "teardown", "end"}
    /\ process = "up" \/ phase = "end"
    /\ Finished => calls = <<>>
    /\ CallList(calls, kind)
    /\ handlers \subseteq HandlersOf(kind)

\* The collector runs only during Run, which still has to stop it.
Collecting ==
    process = "up" =>
        /\ collector \in {"none", "on", "stopping", "done"}
        /\ collector # "none" => kind \in {"rally", "system"}
        /\ collector = "on" => phase = "run" /\ "stopMetrics" \in CallNames(calls)
        /\ collector = "stopping" => phase = "run" /\ calls # <<>> /\ Head(calls) = "stopMetrics"

\* When the channel is closed no generator is left.
Generating == DOMAIN gens = Generators \cup Backfills /\ NoSendOnClosedChannel

\* What was made has its handler, unless the call that made it failed.
Registered ==
    LET known == handlers \cup lost
    IN  /\ pkg => "package" \in known
        /\ service => "service" \in known
        /\ policy => "policy" \in known
        /\ corpus => "corpus" \in known
        /\ pipelines # {} => "pipelines" \in known
        /\ (\E a \in Agents : agents[a] = "bench") => "agents" \in known

\* In TearDown the handler of what is left is still to run, if it did not fail.
Cleared ==
    phase = "teardown" \/ Finished =>
        (NotKept =>
            \A r \in Left \ {"track"} :
                \/ r \in lost \cup tdErr
                \/ r \in handlers /\ r \in CallNames(calls)
                \/ r = "docs" /\ ("docs" \notin handlers \/ "agents" \in Left))

\* The policy has no handler before it exists, and it is gone only when the agents had their turn.
PolicyHeld ==
    /\ phase = "setup" /\ "policy" \in CallNames(calls) => "policy" \notin handlers
    /\ "policy" \in handlers /\ ~policy =>
          /\ phase = "teardown" \/ Finished
          /\ "agents" \notin CallNames(calls)

\* The track is only there to save once the corpus is, and the corpus stays until it is saved.
Saving ==
    /\ phase = "setup" => "persist" \notin handlers
    /\ phase = "run" =>
          /\ "corpus" \in CallNames(calls) => "persist" \notin handlers
          /\ kind = "rally" /\ "track" \in CallNames(calls) => corpus \/ "corpus" \in CallNames(calls)
          /\ "persist" \in handlers => corpus
    /\ phase = "teardown" \/ Finished =>
          ("persist" \in handlers =>
              /\ "persist" \in CallNames(calls) => corpus
              /\ "persist" \in CallNames(calls) \/ saved = {"track", "corpus"} \/ "persist" \in tdErr)

BenchmarkInv ==
    RunnerTypes /\ Collecting /\ Generating /\ Registered /\ Cleared /\ PolicyHeld /\ Saving
-----------------------------------------------------------------------------
(***************************************************************************)
(* Lists of calls.                                                         *)
(***************************************************************************)
\* A call that was made is gone from the list, and the others keep their order.
LEMMA TailCalls ==
    ASSUME NEW S, NEW s \in Seq(S), s # <<>>
    PROVE  /\ Tail(s) \in Seq(S) /\ Head(s) \in S
           /\ CallNames(s) = {Head(s)} \cup CallNames(Tail(s))
           /\ InOrder(s) => InOrder(Tail(s))
<1>1. /\ Tail(s) \in Seq(S) /\ Head(s) \in S /\ Len(s) \in Nat \ {0} /\ Head(s) = s[1]
      /\ DOMAIN s = 1..Len(s) /\ DOMAIN Tail(s) = 1..(Len(s) - 1)
      /\ \A i \in DOMAIN Tail(s) : i + 1 \in DOMAIN s /\ Tail(s)[i] = s[i + 1]
  OBVIOUS
<1>2. CallNames(s) = {Head(s)} \cup CallNames(Tail(s))
  <2>1. ASSUME NEW i \in DOMAIN s PROVE s[i] = s[1] \/ s[i] \in CallNames(Tail(s))
    <3>1. CASE i = 1
      BY <3>1
    <3>2. CASE i # 1
      <4>1. i - 1 \in DOMAIN Tail(s) /\ Tail(s)[i - 1] = s[i]
        BY <1>1, <3>2
      <4> QED
        BY <4>1 DEF CallNames
    <3> QED
      BY <3>1, <3>2
  <2>2. CallNames(Tail(s)) \subseteq CallNames(s) /\ Head(s) \in CallNames(s)
    BY <1>1 DEF CallNames
  <2>3. CallNames(s) \subseteq {Head(s)} \cup CallNames(Tail(s))
    BY <1>1, <2>1 DEF CallNames
  <2> QED
    BY <2>2, <2>3
<1>3. ASSUME NEW x, NEW y, Before(s, x, y) PROVE Before(Tail(s), x, y)
  BY <1>1, <1>3 DEF Before
<1>4. ASSUME NEW x, Once(s, x) PROVE Once(Tail(s), x)
  BY <1>1, <1>4 DEF Once
<1>5. ASSUME NEW x, NEW y, Followed(s, x, y) PROVE Followed(Tail(s), x, y)
  <2> SUFFICES ASSUME NEW i \in DOMAIN Tail(s), Tail(s)[i] = x
               PROVE  \E j \in DOMAIN Tail(s) : i < j /\ Tail(s)[j] = y
    BY DEF Followed
  <2>1. PICK j \in DOMAIN s : i + 1 < j /\ s[j] = y
    BY <1>1, <1>5 DEF Followed
  <2>2. j - 1 \in DOMAIN Tail(s) /\ i < j - 1 /\ Tail(s)[j - 1] = y
    BY <1>1, <2>1
  <2> QED
    BY <2>2
<1> QED
  BY <1>1, <1>2, <1>3, <1>4, <1>5 DEF InOrder

\* What the orders say of the call that is made next.
LEMMA NextCall ==
    ASSUME NEW S, NEW s \in Seq(S), s # <<>>, NEW x, NEW y
    PROVE  /\ Before(s, x, y) /\ Head(s) = y => x \notin CallNames(s)
           /\ Followed(s, x, y) /\ Head(s) = x => y \in CallNames(Tail(s))
           /\ Once(s, x) /\ Head(s) = x => x \notin CallNames(Tail(s))
<1>1. /\ Len(s) \in Nat \ {0} /\ Head(s) = s[1] /\ 1 \in DOMAIN s
      /\ DOMAIN s = 1..Len(s) /\ DOMAIN Tail(s) = 1..(Len(s) - 1)
      /\ \A i \in DOMAIN Tail(s) : i + 1 \in DOMAIN s /\ Tail(s)[i] = s[i + 1]
  OBVIOUS
<1>2. Before(s, x, y) /\ Head(s) = y => x \notin CallNames(s)
  BY <1>1 DEF Before, CallNames
<1>3. ASSUME Followed(s, x, y), Head(s) = x PROVE y \in CallNames(Tail(s))
  <2>1. PICK j \in DOMAIN s : 1 < j /\ s[j] = y
    BY <1>1, <1>3 DEF Followed
  <2>2. j - 1 \in DOMAIN Tail(s) /\ Tail(s)[j - 1] = y
    BY <1>1, <2>1
  <2> QED
    BY <2>2 DEF CallNames
<1>4. ASSUME Once(s, x), Head(s) = x PROVE x \notin CallNames(Tail(s))
  BY <1>1, <1>4 DEF Once, CallNames
<1> QED
  BY <1>2, <1>3, <1>4

\* A concatenation is the sequence with the items of both.
LEMMA Joined ==
    ASSUME NEW S, NEW s \in Seq(S), NEW t \in Seq(S), NEW u \in Seq(S), Len(u) = Len(s) + Len(t),
           \A i \in 1..Len(s) : u[i] = s[i], \A i \in 1..Len(t) : u[Len(s) + i] = t[i]
    PROVE  s \o t = u
<1>1. /\ s \o t \in Seq(S) /\ Len(s \o t) = Len(s) + Len(t)
      /\ \A i \in 1..(Len(s) + Len(t)) : (s \o t)[i] = IF i <= Len(s) THEN s[i] ELSE t[i - Len(s)]
  BY ConcatProperties
<1>2. Len(s) \in Nat /\ Len(t) \in Nat
  BY LenProperties
<1>3. \A i \in 1..Len(s \o t) : (s \o t)[i] = u[i]
  <2> TAKE i \in 1..Len(s \o t)
  <2>1. CASE i <= Len(s)
    BY <1>1, <1>2, <2>1
  <2>2. CASE ~(i <= Len(s))
    <3>1. i - Len(s) \in 1..Len(t) /\ Len(s) + (i - Len(s)) = i
      BY <1>1, <1>2, <2>2
    <3> QED
      BY <1>1, <2>2, <3>1
  <2> QED
    BY <2>1, <2>2
<1> QED
  BY <1>1, <1>3, SeqEqual

\* The lists of the code are in order.
LEMMA EmptyList == ASSUME NEW k PROVE CallList(<<>>, k) /\ CallNames(<<>>) = {}
BY DEF CallList, CallNames, InOrder, Before, Followed, Once

LEMMA StopList ==
    /\ \A k \in {"rally", "system"} : CallList(<<"stopMetrics">>, k)
    /\ CallNames(<<"stopMetrics">>) = {"stopMetrics"} /\ Head(<<"stopMetrics">>) = "stopMetrics"
    /\ <<"stopMetrics">> # <<>>
<1> DEFINE s == <<"stopMetrics">>
<1>1. s[1] = "stopMetrics" /\ DOMAIN s = {1} /\ s \in Seq({"stopMetrics"}) /\ Head(s) = s[1] /\ s # <<>>
  OBVIOUS
<1> HIDE DEF s
<1>2. CallNames(s) = {"stopMetrics"} /\ InOrder(s)
  BY <1>1 DEF CallNames, InOrder, Before, Followed, Once
<1>3. \A k \in {"rally", "system"} : s \in Seq(CallsOf(k))
  BY <1>1, SeqMonotonic DEF CallsOf
<1> QED
  BY <1>1, <1>2, <1>3 DEF CallList, s

\* The lists of a rally benchmark.
LEMMA RallyLists ==
    /\ CallList(RallySetUp, "rally") /\ CallList(RallyRun, "rally") /\ CallList(RallyTearDown, "rally")
    /\ "corpus" \in CallNames(RallyRun) /\ HandlersOf("rally") \subseteq CallNames(RallyTearDown)
<1>1. CallList(RallySetUp, "rally")
  <2> DEFINE s == RallySetUp
  <2>1. /\ s \in Seq({"install", "generator", "wipe", "cleared"})
        /\ DOMAIN s = 1..4
        /\ s[1] = "install" /\ s[2] = "generator" /\ s[3] = "wipe" /\ s[4] = "cleared"
    BY DEF RallySetUp
  <2> HIDE DEF s
  <2>2. DOMAIN s = {1, 2, 3, 4}
    BY <2>1
  <2>3. InOrder(s)
    BY <2>1, <2>2 DEF InOrder, Before, Followed, Once
  <2>4. CallNames(s) = {"install", "generator", "wipe", "cleared"}
    BY <2>1, <2>2 DEF CallNames
  <2>5. s \in Seq(CallsOf("rally"))
    BY <2>1, SeqMonotonic DEF CallsOf
  <2> QED
    BY <2>3, <2>4, <2>5 DEF CallList, HandlersOf, s
<1>2. CallList(RallyRun, "rally") /\ "corpus" \in CallNames(RallyRun)
  <2> DEFINE s == RallyRun
  <2>1. /\ s \in Seq({"startMetrics", "corpus", "track", "race", "stopMetrics", "reindex"})
        /\ DOMAIN s = 1..6
        /\ s[1] = "startMetrics" /\ s[2] = "corpus" /\ s[3] = "track" /\ s[4] = "race"
        /\ s[5] = "stopMetrics" /\ s[6] = "reindex"
    BY DEF RallyRun
  <2> HIDE DEF s
  <2>2. DOMAIN s = {1, 2, 3, 4, 5, 6}
    BY <2>1
  <2>3. InOrder(s)
    BY <2>1, <2>2 DEF InOrder, Before, Followed, Once
  <2>4. CallNames(s) = {"startMetrics", "corpus", "track", "race", "stopMetrics", "reindex"}
    BY <2>1, <2>2 DEF CallNames
  <2>5. s \in Seq(CallsOf("rally"))
    BY <2>1, SeqMonotonic DEF CallsOf
  <2> QED
    BY <2>3, <2>4, <2>5 DEF CallList, HandlersOf, s
<1>3. CallList(RallyTearDown, "rally") /\ HandlersOf("rally") \subseteq CallNames(RallyTearDown)
  <2> DEFINE s == RallyTearDown
  <2>1. /\ s \in Seq({"defer", "persist", "package", "docs", "corpus"})
        /\ DOMAIN s = 1..5
        /\ s[1] = "defer" /\ s[2] = "persist" /\ s[3] = "package" /\ s[4] = "docs"
        /\ s[5] = "corpus"
    BY DEF RallyTearDown
  <2> HIDE DEF s
  <2>2. DOMAIN s = {1, 2, 3, 4, 5}
    BY <2>1
  <2>3. InOrder(s)
    BY <2>1, <2>2 DEF InOrder, Before, Followed, Once
  <2>4. CallNames(s) = {"defer", "persist", "package", "docs", "corpus"}
    BY <2>1, <2>2 DEF CallNames
  <2>5. s \in Seq(CallsOf("rally"))
    BY <2>1, SeqMonotonic DEF CallsOf
  <2> QED
    BY <2>3, <2>4, <2>5 DEF CallList, HandlersOf, s
<1> QED
  BY <1>1, <1>2, <1>3

\* Those of a system benchmark.
LEMMA SystemLists ==
    /\ \A f : CallList(SystemSetUp(f), "system")
    /\ CallList(SystemRun, "system") /\ CallList(SystemTearDown, "system")
    /\ HandlersOf("system") \subseteq CallNames(SystemTearDown)
<1>1. CallList(<<"generator", "policy", "wipe", "cleared">>, "system")
  <2> DEFINE s == <<"generator", "policy", "wipe", "cleared">>
  <2>1. /\ s \in Seq({"generator", "policy", "wipe", "cleared"})
        /\ DOMAIN s = 1..4
        /\ s[1] = "generator" /\ s[2] = "policy" /\ s[3] = "wipe" /\ s[4] = "cleared"
    OBVIOUS
  <2> HIDE DEF s
  <2>2. DOMAIN s = {1, 2, 3, 4}
    BY <2>1
  <2>3. InOrder(s)
    BY <2>1, <2>2 DEF InOrder, Before, Followed, Once
  <2>4. CallNames(s) = {"generator", "policy", "wipe", "cleared"}
    BY <2>1, <2>2 DEF CallNames
  <2>5. s \in Seq(CallsOf("system"))
    BY <2>1, SeqMonotonic DEF CallsOf
  <2> QED
    BY <2>3, <2>4, <2>5 DEF CallList, HandlersOf, s
<1>2. CallList(<<"service", "generator", "policy", "wipe", "cleared">>, "system")
  <2> DEFINE s == <<"service", "generator", "policy", "wipe", "cleared">>
  <2>1. /\ s \in Seq({"service", "generator", "policy", "wipe", "cleared"})
        /\ DOMAIN s = 1..5
        /\ s[1] = "service" /\ s[2] = "generator" /\ s[3] = "policy" /\ s[4] = "wipe"
        /\ s[5] = "cleared"
    OBVIOUS
  <2> HIDE DEF s
  <2>2. DOMAIN s = {1, 2, 3, 4, 5}
    BY <2>1
  <2>3. InOrder(s)
    BY <2>1, <2>2 DEF InOrder, Before, Followed, Once
  <2>4. CallNames(s) = {"service", "generator", "policy", "wipe", "cleared"}
    BY <2>1, <2>2 DEF CallNames
  <2>5. s \in Seq(CallsOf("system"))
    BY <2>1, SeqMonotonic DEF CallsOf
  <2> QED
    BY <2>3, <2>4, <2>5 DEF CallList, HandlersOf, s
<1>3. <<"service">> \o <<"generator", "policy", "wipe", "cleared">> = <<"service", "generator", "policy", "wipe", "cleared">>
  <2> DEFINE s == <<"service">>
             t == <<"generator", "policy", "wipe", "cleared">>
             u == <<"service", "generator", "policy", "wipe", "cleared">>
             S == {"service", "generator", "policy", "wipe", "cleared"}
  <2>1. /\ s \in Seq(S) /\ t \in Seq(S) /\ u \in Seq(S) /\ Len(u) = Len(s) + Len(t)
        /\ \A i \in 1..Len(s) : u[i] = s[i]
        /\ \A i \in 1..Len(t) : u[Len(s) + i] = t[i]
    OBVIOUS
  <2> HIDE DEF s, t, u, S
  <2>2. s \o t = u
    BY <2>1, Joined
  <2> QED
    BY <2>2 DEF s, t, u
<1>4. <<>> \o <<"generator", "policy", "wipe", "cleared">> = <<"generator", "policy", "wipe", "cleared">>
  OBVIOUS
<1>5. ASSUME NEW f PROVE CallList(SystemSetUp(f), "system")
  <2>1. CASE "service" \in f
    <3>1. SystemSetUp(f) = <<"service">> \o <<"generator", "policy", "wipe", "cleared">>
      BY <2>1 DEF SystemSetUp
    <3> QED
      BY <3>1, <1>2, <1>3
  <2>2. CASE "service" \notin f
    <3>1. SystemSetUp(f) = <<>> \o <<"generator", "policy", "wipe", "cleared">>
      BY <2>2 DEF SystemSetUp
    <3> QED
      BY <3>1, <1>1, <1>4
  <2> QED
    BY <2>1, <2>2
<1>6. CallList(SystemRun, "system")
  <2> DEFINE s == SystemRun
  <2>1. /\ s \in Seq({"startMetrics", "corpus", "enroll", "signal", "finish", "stopMetrics", "reindex"})
        /\ DOMAIN s = 1..7
        /\ s[1] = "startMetrics" /\ s[2] = "corpus" /\ s[3] = "enroll" /\ s[4] = "signal"
        /\ s[5] = "finish" /\ s[6] = "stopMetrics" /\ s[7] = "reindex"
    BY DEF SystemRun
  <2> HIDE DEF s
  <2>2. DOMAIN s = {1, 2, 3, 4, 5, 6, 7}
    BY <2>1
  <2>3. InOrder(s)
    BY <2>1, <2>2 DEF InOrder, Before, Followed, Once
  <2>4. CallNames(s) = {"startMetrics", "corpus", "enroll", "signal", "finish", "stopMetrics", "reindex"}
    BY <2>1, <2>2 DEF CallNames
  <2>5. s \in Seq(CallsOf("system"))
    BY <2>1, SeqMonotonic DEF CallsOf
  <2> QED
    BY <2>3, <2>4, <2>5 DEF CallList, HandlersOf, s
<1>7. CallList(SystemTearDown, "system") /\ HandlersOf("system") \subseteq CallNames(SystemTearDown)
  <2> DEFINE s == SystemTearDown
  <2>1. /\ s \in Seq({"defer", "agents", "policy", "service", "docs", "corpus"})
        /\ DOMAIN s = 1..6
        /\ s[1] = "defer" /\ s[2] = "agents" /\ s[3] = "policy" /\ s[4] = "service"
        /\ s[5] = "docs" /\ s[6] = "corpus"
    BY DEF SystemTearDown
  <2> HIDE DEF s
  <2>2. DOMAIN s = {1, 2, 3, 4, 5, 6}
    BY <2>1
  <2>3. InOrder(s)
    BY <2>1, <2>2 DEF InOrder, Before, Followed, Once
  <2>4. CallNames(s) = {"defer", "agents", "policy", "service", "docs", "corpus"}
    BY <2>1, <2>2 DEF CallNames
  <2>5. s \in Seq(CallsOf("system"))
    BY <2>1, SeqMonotonic DEF CallsOf
  <2> QED
    BY <2>3, <2>4, <2>5 DEF CallList, HandlersOf, s
<1> QED
  BY <1>5, <1>6, <1>7

\* Those of a stream benchmark.
LEMMA StreamLists ==
    /\ \A f : CallList(StreamSetUp(f), "stream") /\ CallList(StreamTearDown(f), "stream")
    /\ CallList(<<"stream">>, "stream")
    /\ \A f : "cleanup" \in f => HandlersOf("stream") \subseteq CallNames(StreamTearDown(f))
<1>1. CallList(<<"generator", "install">>, "stream")
  <2> DEFINE s == <<"generator", "install">>
  <2>1. /\ s \in Seq({"generator", "install"})
        /\ DOMAIN s = 1..2
        /\ s[1] = "generator" /\ s[2] = "install"
    OBVIOUS
  <2> HIDE DEF s
  <2>2. DOMAIN s = {1, 2}
    BY <2>1
  <2>3. InOrder(s)
    BY <2>1, <2>2 DEF InOrder, Before, Followed, Once
  <2>4. CallNames(s) = {"generator", "install"}
    BY <2>1, <2>2 DEF CallNames
  <2>5. s \in Seq(CallsOf("stream"))
    BY <2>1, SeqMonotonic DEF CallsOf
  <2> QED
    BY <2>3, <2>4, <2>5 DEF CallList, HandlersOf, s
<1>2. CallList(<<"generator", "install", "wipe", "cleared">>, "stream")
  <2> DEFINE s == <<"generator", "install", "wipe", "cleared">>
  <2>1. /\ s \in Seq({"generator", "install", "wipe", "cleared"})
        /\ DOMAIN s = 1..4
        /\ s[1] = "generator" /\ s[2] = "install" /\ s[3] = "wipe" /\ s[4] = "cleared"
    OBVIOUS
  <2> HIDE DEF s
  <2>2. DOMAIN s = {1, 2, 3, 4}
    BY <2>1
  <2>3. InOrder(s)
    BY <2>1, <2>2 DEF InOrder, Before, Followed, Once
  <2>4. CallNames(s) = {"generator", "install", "wipe", "cleared"}
    BY <2>1, <2>2 DEF CallNames
  <2>5. s \in Seq(CallsOf("stream"))
    BY <2>1, SeqMonotonic DEF CallsOf
  <2> QED
    BY <2>3, <2>4, <2>5 DEF CallList, HandlersOf, s
<1>3. <<"generator", "install">> \o <<"wipe", "cleared">> = <<"generator", "install", "wipe", "cleared">>
  <2> DEFINE s == <<"generator", "install">>
             t == <<"wipe", "cleared">>
             u == <<"generator", "install", "wipe", "cleared">>
             S == {"generator", "install", "wipe", "cleared"}
  <2>1. /\ s \in Seq(S) /\ t \in Seq(S) /\ u \in Seq(S) /\ Len(u) = Len(s) + Len(t)
        /\ \A i \in 1..Len(s) : u[i] = s[i]
        /\ \A i \in 1..Len(t) : u[Len(s) + i] = t[i]
    OBVIOUS
  <2> HIDE DEF s, t, u, S
  <2>2. s \o t = u
    BY <2>1, Joined
  <2> QED
    BY <2>2 DEF s, t, u
<1>4. <<"generator", "install">> \o <<>> = <<"generator", "install">>
  OBVIOUS
<1>5. CallList(<<"package", "docs">>, "stream") /\ HandlersOf("stream") \subseteq CallNames(<<"package", "docs">>)
  <2> DEFINE s == <<"package", "docs">>
  <2>1. /\ s \in Seq({"package", "docs"})
        /\ DOMAIN s = 1..2
        /\ s[1] = "package" /\ s[2] = "docs"
    OBVIOUS
  <2> HIDE DEF s
  <2>2. DOMAIN s = {1, 2}
    BY <2>1
  <2>3. InOrder(s)
    BY <2>1, <2>2 DEF InOrder, Before, Followed, Once
  <2>4. CallNames(s) = {"package", "docs"}
    BY <2>1, <2>2 DEF CallNames
  <2>5. s \in Seq(CallsOf("stream"))
    BY <2>1, SeqMonotonic DEF CallsOf
  <2> QED
    BY <2>3, <2>4, <2>5 DEF CallList, HandlersOf, s
<1>6. CallList(<<"stream">>, "stream")
  <2> DEFINE s == <<"stream">>
  <2>1. /\ s \in Seq({"stream"})
        /\ DOMAIN s = 1..1
        /\ s[1] = "stream"
    OBVIOUS
  <2> HIDE DEF s
  <2>2. DOMAIN s = {1}
    BY <2>1
  <2>3. InOrder(s)
    BY <2>1, <2>2 DEF InOrder, Before, Followed, Once
  <2>4. CallNames(s) = {"stream"}
    BY <2>1, <2>2 DEF CallNames
  <2>5. s \in Seq(CallsOf("stream"))
    BY <2>1, SeqMonotonic DEF CallsOf
  <2> QED
    BY <2>3, <2>4, <2>5 DEF CallList, HandlersOf, s
<1>7. ASSUME NEW f PROVE CallList(StreamSetUp(f), "stream")
  <2>1. CASE "cleanup" \in f
    <3>1. StreamSetUp(f) = <<"generator", "install">> \o <<"wipe", "cleared">>
      BY <2>1 DEF StreamSetUp
    <3> QED
      BY <3>1, <1>2, <1>3
  <2>2. CASE "cleanup" \notin f
    <3>1. StreamSetUp(f) = <<"generator", "install">> \o <<>>
      BY <2>2 DEF StreamSetUp
    <3> QED
      BY <3>1, <1>1, <1>4
  <2> QED
    BY <2>1, <2>2
<1> QED
  BY <1>5, <1>6, <1>7, EmptyList DEF StreamTearDown

\* Those of a pipeline benchmark.
LEMMA PipelineLists ==
    /\ CallList(<<"pipelines">>, "pipeline") /\ CallList(<<"simulate">>, "pipeline")
    /\ HandlersOf("pipeline") \subseteq CallNames(<<"pipelines">>)
<1>1. CallList(<<"pipelines">>, "pipeline") /\ HandlersOf("pipeline") \subseteq CallNames(<<"pipelines">>)
  <2> DEFINE s == <<"pipelines">>
  <2>1. /\ s \in Seq({"pipelines"})
        /\ DOMAIN s = 1..1
        /\ s[1] = "pipelines"
    OBVIOUS
  <2> HIDE DEF s
  <2>2. DOMAIN s = {1}
    BY <2>1
  <2>3. InOrder(s)
    BY <2>1, <2>2 DEF InOrder, Before, Followed, Once
  <2>4. CallNames(s) = {"pipelines"}
    BY <2>1, <2>2 DEF CallNames
  <2>5. s \in Seq(CallsOf("pipeline"))
    BY <2>1, SeqMonotonic DEF CallsOf
  <2> QED
    BY <2>3, <2>4, <2>5 DEF CallList, HandlersOf, s
<1>2. CallList(<<"simulate">>, "pipeline")
  <2> DEFINE s == <<"simulate">>
  <2>1. /\ s \in Seq({"simulate"})
        /\ DOMAIN s = 1..1
        /\ s[1] = "simulate"
    OBVIOUS
  <2> HIDE DEF s
  <2>2. DOMAIN s = {1}
    BY <2>1
  <2>3. InOrder(s)
    BY <2>1, <2>2 DEF InOrder, Before, Followed, Once
  <2>4. CallNames(s) = {"simulate"}
    BY <2>1, <2>2 DEF CallNames
  <2>5. s \in Seq(CallsOf("pipeline"))
    BY <2>1, SeqMonotonic DEF CallsOf
  <2> QED
    BY <2>3, <2>4, <2>5 DEF CallList, HandlersOf, s
<1> QED
  BY <1>1, <1>2

\* The lists of every phase are in order, and TearDown has a turn for every handler, unless the
\* user wants to keep what there is.
LEMMA Lists ==
    ASSUME NEW k \in BenchmarkKinds, NEW f
    PROVE  /\ CallList(SetUpCalls(k, f), k) /\ CallList(RunCalls(k), k)
           /\ CallList(TearDownCalls(k, f), k)
           /\ k = "rally" => "corpus" \in CallNames(RunCalls(k))
           /\ k # "stream" \/ "cleanup" \in f => HandlersOf(k) \subseteq CallNames(TearDownCalls(k, f))
<1>1. CASE k = "rally"
  BY <1>1, RallyLists DEF SetUpCalls, RunCalls, TearDownCalls
<1>2. CASE k = "system"
  BY <1>2, SystemLists DEF SetUpCalls, RunCalls, TearDownCalls
<1>3. CASE k = "stream"
  BY <1>3, StreamLists DEF SetUpCalls, RunCalls, TearDownCalls
<1>4. CASE k = "pipeline"
  BY <1>4, PipelineLists DEF SetUpCalls, RunCalls, TearDownCalls, PipelineSetUp
<1> QED
  BY <1>1, <1>2, <1>3, <1>4 DEF BenchmarkKinds
-----------------------------------------------------------------------------
(***************************************************************************)
(* How a step moves through the calls.                                     *)
(***************************************************************************)
Pops ==
    /\ phase # "end" /\ phase' = phase /\ calls # <<>> /\ calls' = Tail(calls)
    /\ Head(calls) = "stopMetrics" => collector = "done" /\ collector' = "done"
Leaves ==
    /\ phase \in {"setup", "run"} /\ phase' = "teardown"
    /\ calls' = TearDownCalls(kind, flags) /\ collector' \in {"none", "done"}
Stops ==
    /\ phase = "run" /\ phase' = "run" /\ collector = "on"
    /\ calls' = <<"stopMetrics">>
Enters == phase = "setup" /\ phase' = "run" /\ calls = <<>> /\ calls' = RunCalls(kind)
Concludes == phase = "teardown" /\ phase' = "end" /\ calls = <<>> /\ calls' = calls
Crashes == collector \in {"on", "stopping"} /\ phase' = "end" /\ calls' = <<>> /\ process' = "crashed"
Stays == UNCHANGED <<phase, calls>>

Moves ==
    /\ UNCHANGED command
    /\ \/ Crashes
       \/ process' = process /\ (Pops \/ Leaves \/ Stops \/ Enters \/ Concludes \/ Stays)

\* A call that fails ends the phase, after the collector was stopped.
LEMMA AbortMoves ==
    ASSUME RunnerTypes, Collecting, process = "up", NEW p \in {"setup", "run"}, NEW c, Calling(p, c),
           c # "stopMetrics", NEW result, Abort(result), collector' = collector
    PROVE  Leaves \/ Stops
  BY DEF Calling, Abort, Collecting, Leaves, Stops

\* The calls of SetUp.
LEMMA SetUpMoves ==
    ASSUME RunnerTypes, Collecting,
           \/ InstallPackage \/ InitializeGenerator \/ SetupService \/ CreateBenchmarkPolicy
           \/ WipeDataStream \/ WaitCleared \/ InstallBenchmarkPipelines \/ EnterRun
    PROVE  Moves /\ phase = "setup" /\ handlers' \subseteq HandlersOf(kind)
<1> USE DEF Moves, routines
<1>1. /\ phase # "end" => process = "up"
      /\ \A p, c : Calling(p, c) => /\ calls # <<>> /\ Head(calls) \in CallsOf(kind)
                                  /\ phase = p /\ Head(calls) = c
  BY TailCalls DEF RunnerTypes, CallList, Calling
<1>2. Return /\ calls # <<>> /\ phase # "end" /\ Head(calls) # "stopMetrics" => Pops
  BY DEF Return, Pops
<1>3. CASE InstallPackage
  <2>1. Pops \/ Leaves \/ Stops
    BY <1>1, <1>2, <1>3, AbortMoves DEF InstallPackage
  <2>2. handlers' \subseteq handlers \cup {"package"} /\ kind \in {"rally", "stream"}
    BY <1>1, <1>3 DEF InstallPackage, Register, CallsOf, RunnerTypes, BenchmarkKinds, Keep
  <2> QED
    BY <1>1, <1>3, <2>1, <2>2 DEF InstallPackage, RunnerTypes, HandlersOf
<1>4. CASE InitializeGenerator
  <2>1. Pops \/ Leaves \/ Stops
    BY <1>1, <1>2, <1>4, AbortMoves DEF InitializeGenerator, Streaming
  <2> QED
    BY <1>1, <1>4, <2>1 DEF InitializeGenerator, RunnerTypes, Keep, Streaming
<1>5. CASE SetupService
  <2>1. Pops \/ Leaves \/ Stops
    BY <1>1, <1>2, <1>5, AbortMoves DEF SetupService
  <2>2. handlers' \subseteq handlers \cup {"service"} /\ kind \in {"system"}
    BY <1>1, <1>5 DEF SetupService, Register, CallsOf, RunnerTypes, BenchmarkKinds, Keep
  <2> QED
    BY <1>1, <1>5, <2>1, <2>2 DEF SetupService, RunnerTypes, HandlersOf
<1>6. CASE CreateBenchmarkPolicy
  <2>1. Pops \/ Leaves \/ Stops
    BY <1>1, <1>2, <1>6, AbortMoves DEF CreateBenchmarkPolicy
  <2>2. handlers' \subseteq handlers \cup {"policy"} /\ kind \in {"system"}
    BY <1>1, <1>6 DEF CreateBenchmarkPolicy, Register, CallsOf, RunnerTypes, BenchmarkKinds, Keep
  <2> QED
    BY <1>1, <1>6, <2>1, <2>2 DEF CreateBenchmarkPolicy, RunnerTypes, HandlersOf
<1>7. CASE WipeDataStream
  <2>1. Pops \/ Leaves \/ Stops
    BY <1>1, <1>2, <1>7, AbortMoves DEF WipeDataStream
  <2>2. handlers' \subseteq handlers \cup {"docs"} /\ kind \in {"rally", "system", "stream"}
    BY <1>1, <1>7 DEF WipeDataStream, Register, CallsOf, RunnerTypes, BenchmarkKinds, Keep
  <2> QED
    BY <1>1, <1>7, <2>1, <2>2 DEF WipeDataStream, RunnerTypes, HandlersOf
<1>8. CASE WaitCleared
  <2>1. Pops \/ Leaves \/ Stops
    BY <1>1, <1>2, <1>8, AbortMoves DEF WaitCleared, Streaming
  <2> QED
    BY <1>1, <1>8, <2>1 DEF WaitCleared, RunnerTypes, Keep, Streaming
<1>9. CASE InstallBenchmarkPipelines
  <2>1. Pops \/ Leaves \/ Stops
    BY <1>1, <1>2, <1>9, AbortMoves DEF InstallBenchmarkPipelines
  <2>2. handlers' \subseteq handlers \cup {"pipelines"} /\ kind \in {"pipeline"}
    BY <1>1, <1>9 DEF InstallBenchmarkPipelines, Register, CallsOf, RunnerTypes, BenchmarkKinds, Keep
  <2> QED
    BY <1>1, <1>9, <2>1, <2>2 DEF InstallBenchmarkPipelines, RunnerTypes, HandlersOf
<1>10. CASE EnterRun
  BY <1>1, <1>2, <1>10 DEF EnterRun, RunnerTypes, Keep, Enters, Stays, control, Streaming
<1> QED
  BY <1>3, <1>4, <1>5, <1>6, <1>7, <1>8, <1>9, <1>10

\* Those of Run.
LEMMA RunMoves ==
    ASSUME RunnerTypes, Collecting,
           \/ StartMetrics \/ StopMetrics \/ WriteCorpus \/ CreateRallyTrack \/ RunRally
           \/ EnrollAgents \/ SignalService \/ PollHits \/ FinishFails \/ ReindexData
           \/ SimulatePipeline \/ StartStream \/ StreamInterrupted \/ StreamReturns
    PROVE  Moves /\ phase = "run" /\ handlers' \subseteq HandlersOf(kind)
<1> USE DEF Moves, routines
<1>1. /\ phase # "end" => process = "up"
      /\ \A p, c : Calling(p, c) => /\ calls # <<>> /\ Head(calls) \in CallsOf(kind)
                                  /\ phase = p /\ Head(calls) = c
  BY TailCalls DEF RunnerTypes, CallList, Calling
<1>2. Return /\ calls # <<>> /\ phase # "end" /\ Head(calls) # "stopMetrics" => Pops
  BY DEF Return, Pops
<1>3. CASE StartMetrics
  BY <1>1, <1>2, <1>3 DEF StartMetrics, RunnerTypes, Keep, Enters, Stays, control, Streaming
<1>4. CASE StopMetrics
  BY <1>1, <1>2, <1>4 DEF StopMetrics, RunnerTypes, Keep, Enters, Stays, control, Streaming
<1>5. CASE WriteCorpus
  <2>1. Pops \/ Leaves \/ Stops
    BY <1>1, <1>2, <1>5, AbortMoves DEF WriteCorpus
  <2>2. handlers' \subseteq handlers \cup {"corpus"} /\ kind \in {"rally", "system"}
    BY <1>1, <1>5 DEF WriteCorpus, Register, CallsOf, RunnerTypes, BenchmarkKinds, Keep
  <2> QED
    BY <1>1, <1>5, <2>1, <2>2 DEF WriteCorpus, RunnerTypes, HandlersOf
<1>6. CASE CreateRallyTrack
  <2>1. Pops \/ Leaves \/ Stops
    BY <1>1, <1>2, <1>6, AbortMoves DEF CreateRallyTrack
  <2>2. handlers' \subseteq handlers \cup {"persist"} /\ kind \in {"rally"}
    BY <1>1, <1>6 DEF CreateRallyTrack, Register, CallsOf, RunnerTypes, BenchmarkKinds, Keep
  <2> QED
    BY <1>1, <1>6, <2>1, <2>2 DEF CreateRallyTrack, RunnerTypes, HandlersOf
<1>7. CASE RunRally
  <2>1. Pops \/ Leaves \/ Stops
    BY <1>1, <1>2, <1>7, AbortMoves DEF RunRally, Streaming
  <2> QED
    BY <1>1, <1>7, <2>1 DEF RunRally, RunnerTypes, Keep, Streaming
<1>8. CASE EnrollAgents
  <2>1. Pops \/ Leaves \/ Stops
    BY <1>1, <1>2, <1>8, AbortMoves DEF EnrollAgents
  <2>2. handlers' \subseteq handlers \cup {"agents"} /\ kind \in {"system"}
    BY <1>1, <1>8 DEF EnrollAgents, Register, CallsOf, RunnerTypes, BenchmarkKinds, Keep
  <2> QED
    BY <1>1, <1>8, <2>1, <2>2 DEF EnrollAgents, RunnerTypes, HandlersOf
<1>9. CASE SignalService
  <2>1. Pops \/ Leaves \/ Stops
    BY <1>1, <1>2, <1>9, AbortMoves DEF SignalService, Streaming
  <2> QED
    BY <1>1, <1>9, <2>1 DEF SignalService, RunnerTypes, Keep, Streaming
<1>10. CASE PollHits
  BY <1>1, <1>2, <1>10 DEF PollHits, RunnerTypes, Keep, Enters, Stays, control, Streaming
<1>11. CASE FinishFails
  <2>1. Pops \/ Leaves \/ Stops
    BY <1>1, <1>2, <1>11, AbortMoves DEF FinishFails, Streaming
  <2> QED
    BY <1>1, <1>11, <2>1 DEF FinishFails, RunnerTypes, Keep, Streaming
<1>12. CASE ReindexData
  <2>1. Pops \/ Leaves \/ Stops
    BY <1>1, <1>2, <1>12, AbortMoves DEF ReindexData, Streaming
  <2> QED
    BY <1>1, <1>12, <2>1 DEF ReindexData, RunnerTypes, Keep, Streaming
<1>13. CASE SimulatePipeline
  <2>1. Pops \/ Leaves \/ Stops
    BY <1>1, <1>2, <1>13, AbortMoves DEF SimulatePipeline, Streaming
  <2> QED
    BY <1>1, <1>13, <2>1 DEF SimulatePipeline, RunnerTypes, Keep, Streaming
<1>14. CASE StartStream
  BY <1>1, <1>2, <1>14 DEF StartStream, RunnerTypes, Keep, Enters, Stays, control, Streaming
<1>15. CASE StreamInterrupted
  BY <1>1, <1>2, <1>15 DEF StreamInterrupted, RunnerTypes, Keep, Enters, Stays, control, Streaming
<1>16. CASE StreamReturns
  <2>1. Pops \/ Leaves \/ Stops
    BY <1>1, <1>2, <1>16, AbortMoves DEF StreamReturns, Streaming
  <2> QED
    BY <1>1, <1>16, <2>1 DEF StreamReturns, RunnerTypes, Keep, Streaming
<1> QED
  BY <1>3, <1>4, <1>5, <1>6, <1>7, <1>8, <1>9, <1>10, <1>11, <1>12, <1>13, <1>14, <1>15, <1>16

\* The collector, the generators and TearDown register nothing.
LEMMA OtherMoves ==
    ASSUME RunnerTypes, Collecting,
           \/ LastCollect \/ MetricsStopped \/ MetricsTick \/ EnterTearDown \/ DeferCleanup \/ Finish
           \/ \E h \in Handlers : RunHandler(h)
           \/ \E g \in Generators \cup Backfills :
                 \/ GeneratorCancelled(g) \/ StreamReceives(g) \/ Drain(g) \/ StreamEvents(g)
                 \/ GeneratorFails(g) \/ BackfillEnds(g)
           \/ InterruptBenchmark \/ Ingest \/ UNCHANGED benchmarkVars
    PROVE  Moves /\ handlers' = handlers
<1> USE DEF Moves
<1>1. /\ phase # "end" => process = "up"
      /\ \A p, c : Calling(p, c) => calls # <<>> /\ phase = p /\ Head(calls) = c
  BY TailCalls DEF RunnerTypes, CallList, Calling
<1>3. CASE LastCollect \/ MetricsTick
  BY <1>3 DEF LastCollect, MetricsTick, Panic, Crashes, Stays, control
<1>4. CASE MetricsStopped
  <2>1. process' = process /\ UNCHANGED command /\ handlers' = handlers /\ collector' = "done"
    BY <1>4 DEF MetricsStopped, Keep, routines
  <2>2. Pops \/ Leaves
    BY <1>1, <1>4, <2>1 DEF MetricsStopped, Return, Pops, Leaves
  <2> QED
    BY <2>1, <2>2
<1>5. CASE EnterTearDown
  <2>1. Leaves
    BY <1>1, <1>5, EmptyList DEF EnterTearDown, Leaves, Collecting, routines
  <2> QED
    BY <1>5, <2>1 DEF EnterTearDown, Keep
<1>6. CASE DeferCleanup \/ Finish
  BY <1>1, <1>6 DEF DeferCleanup, Finish, Pops, Concludes
<1>7. CASE \E h \in Handlers : RunHandler(h)
  BY <1>1, <1>7 DEF RunHandler, Pops, Handlers, Resources
<1>8. CASE \E g \in Generators \cup Backfills :
              \/ GeneratorCancelled(g) \/ StreamReceives(g) \/ Drain(g) \/ StreamEvents(g)
              \/ GeneratorFails(g) \/ BackfillEnds(g)
  BY <1>8 DEF GeneratorCancelled, StreamReceives, Drain, StreamEvents, GeneratorFails, BackfillEnds,
              Stays, control
<1>9. CASE InterruptBenchmark \/ Ingest \/ UNCHANGED benchmarkVars
  BY <1>9 DEF InterruptBenchmark, Ingest, benchmarkVars, control, Stays
<1> QED
  BY <1>3, <1>4, <1>5, <1>6, <1>7, <1>8, <1>9

\* So every step moves so.
LEMMA StepMoves ==
    ASSUME RunnerTypes, Collecting, [BenchmarkNext]_benchmarkVars
    PROVE  Moves /\ handlers' \subseteq HandlersOf(kind)
<1>1. CASE \/ InstallPackage \/ InitializeGenerator \/ SetupService \/ CreateBenchmarkPolicy
           \/ WipeDataStream \/ WaitCleared \/ InstallBenchmarkPipelines \/ EnterRun
  BY <1>1, SetUpMoves
<1>2. CASE \/ StartMetrics \/ StopMetrics \/ WriteCorpus \/ CreateRallyTrack \/ RunRally
           \/ EnrollAgents \/ SignalService \/ PollHits \/ FinishFails \/ ReindexData
           \/ SimulatePipeline \/ StartStream \/ StreamInterrupted \/ StreamReturns
  BY <1>2, RunMoves
<1>3. CASE \/ LastCollect \/ MetricsStopped \/ MetricsTick \/ EnterTearDown \/ DeferCleanup \/ Finish
           \/ \E h \in Handlers : RunHandler(h)
           \/ \E g \in Generators \cup Backfills :
                 \/ GeneratorCancelled(g) \/ StreamReceives(g) \/ Drain(g) \/ StreamEvents(g)
                 \/ GeneratorFails(g) \/ BackfillEnds(g)
           \/ InterruptBenchmark \/ Ingest \/ UNCHANGED benchmarkVars
  BY <1>3, OtherMoves DEF RunnerTypes
<1> QED
  BY <1>1, <1>2, <1>3, Zenon DEF BenchmarkNext, Step, Environment, Ended

\* Which keeps the lists in order.
LEMMA TypesKept == RunnerTypes /\ Collecting /\ [BenchmarkNext]_benchmarkVars => RunnerTypes'
<1> SUFFICES ASSUME RunnerTypes, Collecting, [BenchmarkNext]_benchmarkVars PROVE RunnerTypes'
  OBVIOUS
<1>1. Moves /\ handlers' \subseteq HandlersOf(kind)
  BY StepMoves
<1>2. kind' = kind /\ flags' = flags /\ kind \in BenchmarkKinds
  BY <1>1 DEF Moves, command, RunnerTypes
<1>3. /\ phase' \in {"setup", "run", "teardown", "end"} /\ (process' = "up" \/ phase' = "end")
      /\ Finished' => calls' = <<>>
  BY <1>1 DEF RunnerTypes, Finished, Moves, Crashes, Pops, Leaves, Stops, Enters, Concludes, Stays
<1>4. CallList(calls', kind)
  <2>1. CASE Pops
    BY <2>1, TailCalls DEF Pops, RunnerTypes, CallList
  <2>2. CASE Stops
    BY <2>2, StopList DEF Stops, Collecting, RunnerTypes
  <2>3. CASE Leaves \/ Enters
    BY <1>2, <2>3, Lists DEF Leaves, Enters
  <2>4. CASE Crashes
    BY <2>4, EmptyList DEF Crashes
  <2>5. CASE Concludes \/ Stays
    BY <2>5 DEF Concludes, Stays, RunnerTypes
  <2> QED
    BY <1>1, <2>1, <2>2, <2>3, <2>4, <2>5 DEF Moves
<1> QED
  BY <1>1, <1>2, <1>3, <1>4 DEF RunnerTypes

-----------------------------------------------------------------------------
(***************************************************************************)
(* The goroutines.                                                         *)
(***************************************************************************)
\* Only the collector itself and those who start and stop it touch it.
LEMMA CollectorMoves ==
    ASSUME [BenchmarkNext]_benchmarkVars
    PROVE  collector' = collector \/ StartMetrics \/ StopMetrics \/ LastCollect
<1> USE DEF routines
<1>1. CASE \/ InstallPackage \/ InitializeGenerator \/ SetupService \/ CreateBenchmarkPolicy
           \/ WipeDataStream \/ WaitCleared \/ InstallBenchmarkPipelines \/ EnterRun
  BY <1>1 DEF InstallPackage, InitializeGenerator, SetupService, CreateBenchmarkPolicy,
              WipeDataStream, WaitCleared, InstallBenchmarkPipelines, EnterRun
<1>2. CASE \/ WriteCorpus \/ CreateRallyTrack \/ RunRally \/ EnrollAgents \/ SignalService
           \/ PollHits \/ FinishFails \/ ReindexData \/ SimulatePipeline
  BY <1>2 DEF WriteCorpus, CreateRallyTrack, RunRally, EnrollAgents, SignalService, PollHits,
              FinishFails, ReindexData, SimulatePipeline
<1>3. CASE \/ StartStream \/ StreamInterrupted \/ StreamReturns
           \/ \E g \in Generators \cup Backfills :
                 \/ GeneratorCancelled(g) \/ StreamReceives(g) \/ Drain(g) \/ StreamEvents(g)
                 \/ GeneratorFails(g) \/ BackfillEnds(g)
  BY <1>3 DEF StartStream, StreamInterrupted, StreamReturns, GeneratorCancelled, StreamReceives,
              Drain, StreamEvents, GeneratorFails, BackfillEnds
<1>4. CASE MetricsStopped \/ MetricsTick \/ EnterTearDown \/ DeferCleanup \/ Finish \/ InterruptBenchmark \/ Ingest
  BY <1>4 DEF MetricsStopped, MetricsTick, EnterTearDown, DeferCleanup, Finish, InterruptBenchmark, Ingest
<1>5. CASE \E h \in Handlers : RunHandler(h)
  BY <1>5 DEF RunHandler
<1>6. CASE UNCHANGED benchmarkVars
  BY <1>6 DEF benchmarkVars
<1> QED
  BY <1>1, <1>2, <1>3, <1>4, <1>5, <1>6, Zenon DEF BenchmarkNext, Step, Environment, Ended

\* The collector stays within Run.
LEMMA CollectingKept == RunnerTypes /\ Collecting /\ [BenchmarkNext]_benchmarkVars => Collecting'
<1> SUFFICES ASSUME RunnerTypes, Collecting, [BenchmarkNext]_benchmarkVars, process' = "up" PROVE Collecting'
  BY DEF Collecting
<1>1. Moves /\ kind' = kind /\ process = "up"
  BY StepMoves DEF Moves, command, Crashes
<1>2. \A s \in Seq(CallsOf(kind)) : s # <<>> => CallNames(s) = {Head(s)} \cup CallNames(Tail(s))
  BY TailCalls
<1>3. calls \in Seq(CallsOf(kind)) /\ InOrder(calls)
  BY DEF RunnerTypes, CallList
<1>4. CASE StartMetrics
  <2>1. /\ phase = "run" /\ phase' = phase /\ calls # <<>> /\ Head(calls) = "startMetrics" /\ calls' = Tail(calls)
        /\ collector' = "on"
    BY <1>4 DEF StartMetrics, Calling, Return
  <2>2. "stopMetrics" \in CallNames(Tail(calls))
    BY <1>3, <2>1, NextCall DEF InOrder
  <2>3. kind \in {"rally", "system"}
    BY <1>3, <2>1, TailCalls DEF CallsOf, RunnerTypes, BenchmarkKinds
  <2> QED
    BY <1>1, <2>1, <2>2, <2>3 DEF Collecting
<1>5. CASE StopMetrics
  BY <1>1, <1>5 DEF StopMetrics, Calling, control, Collecting
<1>6. CASE LastCollect
  BY <1>1, <1>6 DEF LastCollect, Panic, Collecting
<1>7. CASE collector' = collector
  <2>1. CASE Pops
    BY <1>1, <1>2, <1>3, <1>7, <2>1 DEF Pops, Collecting
  <2>2. CASE Leaves
    BY <1>1, <1>7, <2>2 DEF Leaves, Collecting
  <2>3. CASE Stops
    BY <1>1, <1>7, <2>3, StopList DEF Stops, Collecting
  <2>4. CASE Enters \/ Concludes
    BY <1>1, <1>7, <2>4 DEF Enters, Concludes, Collecting
  <2>5. CASE Stays
    BY <1>1, <1>7, <2>5 DEF Stays, Collecting
  <2> QED
    BY <1>1, <2>1, <2>2, <2>3, <2>4, <2>5 DEF Moves, Crashes
<1> QED
  BY <1>4, <1>5, <1>6, <1>7, CollectorMoves

\* The generators of a closed stream are done, and a generator that is done does nothing more.
LEMMA GeneratingKept == Generating /\ [BenchmarkNext]_benchmarkVars => Generating'
<1> SUFFICES ASSUME Generating, [BenchmarkNext]_benchmarkVars PROVE Generating'
  OBVIOUS
<1> USE DEF routines, Generating, NoSendOnClosedChannel
<1>1. CASE \/ InstallPackage \/ InitializeGenerator \/ SetupService \/ CreateBenchmarkPolicy
           \/ WipeDataStream \/ WaitCleared \/ InstallBenchmarkPipelines \/ EnterRun
  BY <1>1 DEF InstallPackage, InitializeGenerator, SetupService, CreateBenchmarkPolicy,
              WipeDataStream, WaitCleared, InstallBenchmarkPipelines, EnterRun
<1>2. CASE \/ WriteCorpus \/ CreateRallyTrack \/ RunRally \/ EnrollAgents \/ SignalService
           \/ PollHits \/ FinishFails \/ ReindexData \/ SimulatePipeline
  BY <1>2 DEF WriteCorpus, CreateRallyTrack, RunRally, EnrollAgents, SignalService, PollHits,
              FinishFails, ReindexData, SimulatePipeline
<1>3. CASE StartStream \/ StreamInterrupted \/ StreamReturns
  BY <1>3 DEF StartStream, StreamInterrupted, StreamReturns
<1>4. ASSUME NEW g \in Generators \cup Backfills,
             \/ GeneratorCancelled(g) \/ StreamReceives(g) \/ Drain(g) \/ StreamEvents(g)
             \/ GeneratorFails(g) \/ BackfillEnds(g)
      PROVE  Generating'
  BY <1>4 DEF GeneratorCancelled, StreamReceives, Drain, StreamEvents, GeneratorFails, BackfillEnds
<1>5. CASE \/ StartMetrics \/ StopMetrics \/ LastCollect \/ MetricsStopped \/ MetricsTick
           \/ EnterTearDown \/ DeferCleanup \/ Finish \/ InterruptBenchmark \/ Ingest \/ UNCHANGED benchmarkVars
  BY <1>5 DEF StartMetrics, StopMetrics, LastCollect, MetricsStopped, MetricsTick, EnterTearDown,
              DeferCleanup, Finish, InterruptBenchmark, Ingest, benchmarkVars
<1>6. CASE \E h \in Handlers : RunHandler(h)
  BY <1>6 DEF RunHandler
<1> QED
  BY <1>1, <1>2, <1>3, <1>4, <1>5, <1>6, Zenon DEF BenchmarkNext, Step, Environment, Ended

-----------------------------------------------------------------------------
(***************************************************************************)
(* What is made, and who removes it.                                       *)
(***************************************************************************)
things == <<pkg, service, policy, corpus, saved, pipelines, agents, handlers, lost, tdErr>>

\* These steps make and remove things, and only these.
LEMMA Touches ==
    ASSUME [BenchmarkNext]_benchmarkVars
    PROVE  \/ UNCHANGED things
           \/ InstallPackage \/ SetupService \/ CreateBenchmarkPolicy \/ WipeDataStream
           \/ InstallBenchmarkPipelines \/ WriteCorpus \/ CreateRallyTrack \/ EnrollAgents
           \/ \E h \in Handlers : RunHandler(h)
<1> USE DEF things, artifacts, Keep, control
<1>1. CASE InitializeGenerator \/ WaitCleared \/ EnterRun
  BY <1>1 DEF InitializeGenerator, WaitCleared, EnterRun
<1>2. CASE RunRally \/ SignalService \/ PollHits \/ FinishFails \/ ReindexData \/ SimulatePipeline
  BY <1>2 DEF RunRally, SignalService, PollHits, FinishFails, ReindexData, SimulatePipeline
<1>3. CASE \/ StartStream \/ StreamInterrupted \/ StreamReturns
           \/ \E g \in Generators \cup Backfills :
                 \/ GeneratorCancelled(g) \/ StreamReceives(g) \/ Drain(g) \/ StreamEvents(g)
                 \/ GeneratorFails(g) \/ BackfillEnds(g)
  BY <1>3 DEF StartStream, StreamInterrupted, StreamReturns, GeneratorCancelled, StreamReceives,
              Drain, StreamEvents, GeneratorFails, BackfillEnds
<1>4. CASE StartMetrics \/ StopMetrics \/ LastCollect \/ MetricsStopped \/ MetricsTick
  BY <1>4 DEF StartMetrics, StopMetrics, LastCollect, MetricsStopped, MetricsTick, Panic
<1>5. CASE EnterTearDown \/ DeferCleanup \/ Finish \/ InterruptBenchmark \/ Ingest \/ UNCHANGED benchmarkVars
  BY <1>5 DEF EnterTearDown, DeferCleanup, Finish, InterruptBenchmark, Ingest, benchmarkVars
<1> QED
  BY <1>1, <1>2, <1>3, <1>4, <1>5, Zenon DEF BenchmarkNext, Step, Environment, Ended

\* A handler only takes things away, and of the others it leaves all.
LEMMA Removes ==
    ASSUME NEW h, Release(h) \/ ReleaseFails(h) \/ UNCHANGED artifacts
    PROVE  /\ pkg' => pkg
           /\ service' => service
           /\ policy' => policy
           /\ corpus' => corpus
           /\ pipelines' # {} => pipelines # {}
           /\ \A a \in Agents : agents'[a] = "bench" => agents[a] = "bench"
           /\ h # "policy" => (policy => policy')
           /\ h # "corpus" => (corpus => corpus')
           /\ events' \in {events, 0}
<1>1. CASE Release(h)
  <2>1. /\ pkg' => pkg
        /\ service' => service
        /\ policy' => policy
        /\ corpus' => corpus
        /\ h # "policy" => (policy => policy')
        /\ h # "corpus" => (corpus => corpus')
    BY <1>1, Zenon DEF Release
  <2>2. pipelines' \in {pipelines, {}} /\ events' \in {events, 0}
    BY <1>1 DEF Release
  <2>3. agents' = agents \/ agents' = [a \in Agents |-> "orig"]
    BY <1>1 DEF Release
  <2> QED
    BY <2>1, <2>2, <2>3
<1>2. CASE ReleaseFails(h)
  <2>1. /\ UNCHANGED <<pkg, service, policy, events, corpus, pipelines>>
        /\ agents' = agents \/ \E back \in SUBSET Agents :
              agents' = [a \in Agents |-> IF a \in back THEN "orig" ELSE agents[a]]
    BY <1>2 DEF ReleaseFails
  <2> QED
    BY <2>1
<1> QED
  BY <1>1, <1>2 DEF artifacts

\* A thing that a call made has its handler, or the call failed.
LEMMA RegisteredKept == Registered /\ [BenchmarkNext]_benchmarkVars => Registered'
<1> SUFFICES ASSUME Registered, [BenchmarkNext]_benchmarkVars PROVE Registered'
  OBVIOUS
<1> USE DEF Registered, Register
<1>1. CASE UNCHANGED things
  BY <1>1 DEF things
<1>2. CASE InstallPackage
  BY <1>2 DEF InstallPackage
<1>3. CASE SetupService
  BY <1>3 DEF SetupService
<1>4. CASE CreateBenchmarkPolicy
  BY <1>4 DEF CreateBenchmarkPolicy
<1>5. CASE WipeDataStream
  BY <1>5 DEF WipeDataStream
<1>6. CASE InstallBenchmarkPipelines
  BY <1>6 DEF InstallBenchmarkPipelines
<1>7. CASE WriteCorpus
  BY <1>7 DEF WriteCorpus, Keep
<1>8. CASE CreateRallyTrack
  BY <1>8 DEF CreateRallyTrack
<1>9. CASE EnrollAgents
  BY <1>9 DEF EnrollAgents
<1>10. CASE \E h \in Handlers : RunHandler(h)
  <2>1. PICK h : handlers' = handlers /\ lost' = lost /\ (Release(h) \/ ReleaseFails(h) \/ UNCHANGED artifacts)
    BY <1>10 DEF RunHandler
  <2> QED
    BY <2>1, Removes
<1> QED
  BY <1>1, <1>2, <1>3, <1>4, <1>5, <1>6, <1>7, <1>8, <1>9, <1>10, Touches

\* The policy is created once, before it has a handler, and the agents have their turn before it.
LEMMA PolicyHeldKept == RunnerTypes /\ Collecting /\ PolicyHeld /\ [BenchmarkNext]_benchmarkVars => PolicyHeld'
<1> SUFFICES ASSUME RunnerTypes, Collecting, PolicyHeld, [BenchmarkNext]_benchmarkVars PROVE PolicyHeld'
  OBVIOUS
<1>1. Moves
  BY StepMoves
<1>2. \A s \in Seq(CallsOf(kind)) : s # <<>> => CallNames(s) = {Head(s)} \cup CallNames(Tail(s))
  BY TailCalls
<1>3. calls \in Seq(CallsOf(kind)) /\ InOrder(calls)
  BY DEF RunnerTypes, CallList
<1>4. phase' = "setup" => phase = "setup" /\ CallNames(calls') \subseteq CallNames(calls)
  BY <1>1, <1>2, <1>3 DEF Moves, Crashes, Pops, Leaves, Stops, Enters, Concludes, Stays
<1>5. phase = "teardown" \/ Finished =>
          (phase' = "teardown" \/ Finished') /\ CallNames(calls') \subseteq CallNames(calls)
  <2>1. phase = "teardown" \/ Finished => phase \in {"teardown", "end"} /\ process = "up"
    BY DEF RunnerTypes, Finished
  <2>2. phase = "teardown" \/ Finished => ~Crashes
    BY <2>1 DEF Crashes, Collecting
  <2> QED
    BY <1>1, <1>2, <1>3, <2>1, <2>2 DEF Moves, Pops, Leaves, Stops, Enters, Concludes, Stays, Finished
<1>6. ASSUME policy => policy', "policy" \in handlers' => "policy" \in handlers PROVE PolicyHeld'
  BY <1>4, <1>5, <1>6 DEF PolicyHeld
<1>7. CASE UNCHANGED things
  BY <1>6, <1>7 DEF things
<1>8. CASE CreateBenchmarkPolicy
  <2>1. phase = "setup" /\ calls # <<>> /\ Head(calls) = "policy"
    BY <1>8 DEF CreateBenchmarkPolicy, Calling
  <2>2. "policy" \in CallNames(calls) /\ "policy" \notin CallNames(Tail(calls))
    BY <1>2, <1>3, <2>1, NextCall DEF InOrder
  <2>3. "policy" \notin handlers
    BY <2>1, <2>2 DEF PolicyHeld
  <2>4. phase' = "setup" => Pops
    BY <1>1, <2>1, <1>8 DEF Moves, Crashes, Leaves, Stops, Enters, Concludes, Stays, CreateBenchmarkPolicy,
                            Return, Abort, Pops, Collecting, routines, RunnerTypes
  <2>5. phase' = "setup" => "policy" \notin CallNames(calls')
    BY <2>2, <2>4 DEF Pops
  <2> QED
    BY <1>8, <2>3, <2>5 DEF CreateBenchmarkPolicy, Register, PolicyHeld
<1>9. CASE \/ InstallPackage \/ SetupService \/ WipeDataStream \/ InstallBenchmarkPipelines \/ WriteCorpus
           \/ CreateRallyTrack \/ EnrollAgents
  BY <1>6, <1>9 DEF InstallPackage, SetupService, WipeDataStream, InstallBenchmarkPipelines, WriteCorpus,
                    CreateRallyTrack, EnrollAgents, Register, Keep
<1>10. ASSUME NEW h \in Handlers, RunHandler(h) PROVE PolicyHeld'
  <2>1. phase = "teardown" /\ calls # <<>> /\ Head(calls) = h /\ calls' = Tail(calls) /\ phase' = phase
        /\ handlers' = handlers
    BY <1>10 DEF RunHandler, Calling
  <2>2. CASE h = "policy"
    BY <1>2, <1>3, <2>1, <2>2, NextCall DEF InOrder, PolicyHeld
  <2>3. CASE h # "policy"
    <3>1. policy => policy'
      BY <1>10, <2>3, Removes DEF RunHandler
    <3> QED
      BY <1>6, <2>1, <3>1
  <2> QED
    BY <2>2, <2>3
<1> QED
  BY <1>7, <1>8, <1>9, <1>10, Touches

\* How a step moves through the phases and what that leaves of the calls.
LEMMA PhaseMoves ==
    ASSUME RunnerTypes, Collecting, [BenchmarkNext]_benchmarkVars
    PROVE  /\ phase' = "setup" => phase = "setup"
           /\ phase' = "run" => \/ phase = "setup" /\ calls' = RunCalls(kind)
                                \/ phase = "run" /\ CallNames(calls') \subseteq CallNames(calls)
                                \/ phase = "run" /\ CallNames(calls') = {"stopMetrics"}
           /\ phase' = "teardown" \/ Finished' =>
                 \/ phase \in {"setup", "run"} /\ calls' = TearDownCalls(kind, flags)
                 \/ (phase = "teardown" \/ Finished) /\ CallNames(calls') \subseteq CallNames(calls)
           /\ kind' = kind /\ flags' = flags
<1>1. Moves
  BY StepMoves
<1>2. \A s \in Seq(CallsOf(kind)) : s # <<>> => CallNames(s) = {Head(s)} \cup CallNames(Tail(s))
  BY TailCalls
<1>3. calls \in Seq(CallsOf(kind))
  BY DEF RunnerTypes, CallList
<1> QED
  BY <1>1, <1>2, <1>3, StopList
     DEF Moves, Crashes, Pops, Leaves, Stops, Enters, Concludes, Stays, Finished, command, RunnerTypes

\* Only its own step makes a call.
LEMMA OwnStep ==
    ASSUME [BenchmarkNext]_benchmarkVars, calls # <<>>
    PROVE  /\ phase = "run" /\ Head(calls) = "corpus" => WriteCorpus \/ calls' = calls \/ phase' # "run"
           /\ \A h \in Handlers :
                 phase = "teardown" /\ Head(calls) = h =>
                     RunHandler(h) \/ calls' = calls \/ ~(phase' = "teardown" \/ Finished')
<1>1. CASE \/ InstallPackage \/ InitializeGenerator \/ SetupService \/ CreateBenchmarkPolicy
           \/ WipeDataStream \/ WaitCleared \/ InstallBenchmarkPipelines \/ EnterRun
  BY <1>1 DEF InstallPackage, InitializeGenerator, SetupService, CreateBenchmarkPolicy,
              WipeDataStream, WaitCleared, InstallBenchmarkPipelines, EnterRun, Calling
<1>2. CASE \/ CreateRallyTrack \/ RunRally \/ EnrollAgents \/ SignalService
           \/ PollHits \/ FinishFails \/ ReindexData \/ SimulatePipeline
  BY <1>2 DEF CreateRallyTrack, RunRally, EnrollAgents, SignalService, PollHits,
              FinishFails, ReindexData, SimulatePipeline, Calling
<1>3. CASE \/ StartStream \/ StreamInterrupted \/ StreamReturns
           \/ \E g \in Generators \cup Backfills :
                 \/ GeneratorCancelled(g) \/ StreamReceives(g) \/ Drain(g) \/ StreamEvents(g)
                 \/ GeneratorFails(g) \/ BackfillEnds(g)
  BY <1>3 DEF StartStream, StreamInterrupted, StreamReturns, GeneratorCancelled, StreamReceives,
              Drain, StreamEvents, GeneratorFails, BackfillEnds, Streaming, Calling
<1>4. CASE StartMetrics \/ StopMetrics \/ LastCollect \/ MetricsStopped \/ MetricsTick
  BY <1>4 DEF StartMetrics, StopMetrics, LastCollect, MetricsStopped, MetricsTick, Panic, Calling,
              control, Finished
<1>5. CASE EnterTearDown \/ DeferCleanup \/ Finish \/ InterruptBenchmark \/ Ingest \/ UNCHANGED benchmarkVars
  BY <1>5 DEF EnterTearDown, DeferCleanup, Finish, InterruptBenchmark, Ingest, Calling, benchmarkVars, control, Handlers,
              Resources
<1>6. CASE \E h \in Handlers : RunHandler(h)
  BY <1>6 DEF RunHandler, Calling
<1>7. CASE WriteCorpus
  BY <1>7 DEF WriteCorpus, Calling
<1> QED
  BY <1>1, <1>2, <1>3, <1>4, <1>5, <1>6, <1>7, Zenon DEF BenchmarkNext, Step, Environment, Ended

\* A step that neither writes the corpus nor runs a handler leaves their calls to be made.
LEMMA CallsStay ==
    ASSUME RunnerTypes, Collecting, [BenchmarkNext]_benchmarkVars
    PROVE  /\ phase = "run" /\ phase' = "run" /\ ~WriteCorpus =>
                 \/ CallNames(calls') = {"stopMetrics"}
                 \/ CallNames(calls') \subseteq CallNames(calls)
                    /\ ("corpus" \in CallNames(calls) => "corpus" \in CallNames(calls'))
           /\ (phase = "teardown" \/ Finished) /\ (phase' = "teardown" \/ Finished') =>
                 \A h \in Handlers :
                     ~RunHandler(h) /\ h \in CallNames(calls) => h \in CallNames(calls')
<1>1. Moves
  BY StepMoves
<1>2. \A s \in Seq(CallsOf(kind)) : s # <<>> => CallNames(s) = {Head(s)} \cup CallNames(Tail(s))
  BY TailCalls
<1>3. calls \in Seq(CallsOf(kind)) /\ (Finished => calls = <<>>)
  BY DEF RunnerTypes, CallList
<1>4. CASE Pops
  BY <1>2, <1>3, <1>4, OwnStep DEF Pops
<1>5. CASE ~Pops
  <2>1. phase = "run" /\ phase' = "run" => CallNames(calls') = {"stopMetrics"} \/ calls' = calls
    BY <1>1, <1>5, StopList DEF Moves, Crashes, Leaves, Stops, Enters, Concludes, Stays
  <2>2. (phase = "teardown" \/ Finished) /\ (phase' = "teardown" \/ Finished') => calls' = calls
    BY <1>1, <1>5 DEF Moves, Crashes, Leaves, Stops, Enters, Concludes, Stays, Finished
  <2> QED
    BY <2>1, <2>2
<1> QED
  BY <1>4, <1>5

\* The corpus is there while the track may still be saved.
LEMMA SavingKept == RunnerTypes /\ Collecting /\ Saving /\ [BenchmarkNext]_benchmarkVars => Saving'
<1> SUFFICES ASSUME RunnerTypes, Collecting, Saving, [BenchmarkNext]_benchmarkVars PROVE Saving'
  OBVIOUS
<1>1. /\ \A s \in Seq(CallsOf(kind)) : s # <<>> => CallNames(s) = {Head(s)} \cup CallNames(Tail(s))
      /\ calls \in Seq(CallsOf(kind)) /\ InOrder(calls)
      /\ "persist" \in handlers => kind = "rally"
  BY TailCalls DEF RunnerTypes, CallList, BenchmarkKinds, HandlersOf
<1>2. kind \in BenchmarkKinds /\ kind' = kind /\ flags' = flags
  BY PhaseMoves DEF RunnerTypes
<1>3. /\ kind = "rally" => "corpus" \in CallNames(RunCalls(kind))
      /\ kind = "rally" => "persist" \in CallNames(TearDownCalls(kind, flags))
  BY <1>2, Lists DEF HandlersOf
<1>4. ASSUME ~WriteCorpus, ~RunHandler("persist"), saved' = saved, tdErr \subseteq tdErr',
             corpus => corpus' \/ (phase \in {"teardown", "end"} /\ "persist" \notin CallNames(calls)),
             "persist" \in handlers' => "persist" \in handlers
      PROVE  Saving'
  <2>1. phase' = "setup" => "persist" \notin handlers'
    BY <1>4, PhaseMoves DEF Saving
  <2>2. ASSUME phase' = "run"
        PROVE  /\ "corpus" \in CallNames(calls') => "persist" \notin handlers'
               /\ kind = "rally" /\ "track" \in CallNames(calls') => corpus' \/ "corpus" \in CallNames(calls')
               /\ "persist" \in handlers' => corpus'
    <3>1. CASE phase = "setup" /\ calls' = RunCalls(kind)
      BY <1>3, <1>4, <3>1 DEF Saving
    <3>2. CASE phase = "run"
      BY <1>4, <2>2, <3>2, CallsStay DEF Saving
    <3> QED
      BY <2>2, <3>1, <3>2, PhaseMoves
  <2>3. ASSUME phase' = "teardown" \/ Finished', "persist" \in handlers'
        PROVE  /\ "persist" \in CallNames(calls') => corpus'
               /\ "persist" \in CallNames(calls') \/ saved' = {"track", "corpus"} \/ "persist" \in tdErr'
    <3>1. CASE phase \in {"setup", "run"} /\ calls' = TearDownCalls(kind, flags)
      BY <1>1, <1>3, <1>4, <2>3, <3>1 DEF Saving
    <3>2. CASE (phase = "teardown" \/ Finished) /\ CallNames(calls') \subseteq CallNames(calls)
      <4>1. "persist" \in CallNames(calls) <=> "persist" \in CallNames(calls')
        BY <1>4, <2>3, <3>2, CallsStay DEF Handlers
      <4> QED
        BY <1>4, <2>3, <3>2, <4>1 DEF Saving
    <3> QED
      BY <2>3, <3>1, <3>2, PhaseMoves
  <2> QED
    BY <1>2, <2>1, <2>2, <2>3 DEF Saving
<1>5. CASE WriteCorpus
  <2>1. /\ phase = "run" /\ calls # <<>> /\ Head(calls) = "corpus"
        /\ handlers' \subseteq handlers \cup {"corpus"}
        /\ \/ corpus' = TRUE \/ kind = "system" \/ phase' # "run" \/ calls' = <<"stopMetrics">>
    BY <1>5 DEF WriteCorpus, Calling, Register, Keep, Return, Abort
  <2>2. "persist" \notin handlers'
    BY <1>1, <2>1 DEF Saving
  <2>3. phase' = "run" /\ kind = "rally" /\ "track" \in CallNames(calls') => corpus'
    BY <2>1, StopList
  <2> QED
    BY <1>2, <2>1, <2>2, <2>3 DEF Saving
<1>6. CASE CreateRallyTrack
  <2>1. /\ phase = "run" /\ calls # <<>> /\ Head(calls) = "track" /\ corpus' = corpus
    BY <1>6 DEF CreateRallyTrack, Calling
  <2>2. "corpus" \notin CallNames(calls) /\ "track" \in CallNames(calls)
    BY <1>1, <2>1, NextCall DEF InOrder
  <2>3. kind = "rally"
    BY <1>1, <1>2, <2>1, TailCalls DEF CallsOf, BenchmarkKinds
  <2>4. corpus'
    BY <2>1, <2>2, <2>3 DEF Saving
  <2>5. phase' = "run" => "corpus" \notin CallNames(calls')
    BY <2>1, <2>2, PhaseMoves
  <2>6. phase' = "teardown" \/ Finished' => "persist" \in CallNames(calls')
    BY <1>3, <2>1, <2>3, PhaseMoves DEF Finished
  <2> QED
    BY <1>2, <2>1, <2>4, <2>5, <2>6, PhaseMoves DEF Saving
<1>7. ASSUME NEW h \in Handlers, RunHandler(h) PROVE Saving'
  <2>1. /\ phase = "teardown" /\ phase' = phase /\ calls # <<>> /\ Head(calls) = h
        /\ handlers' = handlers /\ tdErr \subseteq tdErr' /\ process' = process
    BY <1>7 DEF RunHandler, Calling
  <2>2. CASE h = "persist"
    <3>1. "persist" \in handlers => saved' = {"track", "corpus"} \/ "persist" \in tdErr'
      BY <1>7, <2>2 DEF RunHandler, Release
    <3>2. "persist" \in handlers => corpus'
      <4>1. "persist" \in handlers => corpus
        BY <1>1, <2>1, <2>2 DEF Saving
      <4> QED
        BY <1>7, <2>2, <4>1, Removes DEF RunHandler
    <3> QED
      BY <2>1, <3>1, <3>2 DEF Saving, Finished
  <2>3. CASE h # "persist"
    <3>1. saved' = saved
      BY <1>7, <2>3 DEF RunHandler, Release, ReleaseFails, artifacts
    <3>2. corpus => corpus' \/ "persist" \notin CallNames(calls)
      <4>1. CASE h = "corpus"
        BY <1>1, <2>1, <4>1, NextCall DEF InOrder
      <4>2. CASE h # "corpus"
        BY <1>7, <4>2, Removes DEF RunHandler
      <4> QED
        BY <4>1, <4>2
    <3>3. ~WriteCorpus /\ ~RunHandler("persist")
      BY <2>1, <2>3 DEF WriteCorpus, RunHandler, Calling
    <3> QED
      BY <1>4, <2>1, <3>1, <3>2, <3>3
  <2> QED
    BY <2>2, <2>3
<1>8. ASSUME ~WriteCorpus, ~CreateRallyTrack, ~\E h \in Handlers : RunHandler(h) PROVE Saving'
  <2>1. /\ corpus => corpus'
        /\ saved' = saved /\ tdErr' = tdErr /\ ("persist" \in handlers' => "persist" \in handlers)
    <3>1. CASE UNCHANGED things
      BY <3>1 DEF things
    <3>2. CASE \/ InstallPackage \/ SetupService \/ CreateBenchmarkPolicy \/ WipeDataStream
               \/ InstallBenchmarkPipelines \/ EnrollAgents
      BY <3>2 DEF InstallPackage, SetupService, CreateBenchmarkPolicy, WipeDataStream,
                  InstallBenchmarkPipelines, EnrollAgents, Register
    <3> QED
      BY <1>8, <3>1, <3>2, Touches
  <2>2. ~RunHandler("persist")
    BY <1>8 DEF Handlers
  <2> QED
    BY <1>4, <1>8, <2>1, <2>2
<1> QED
  BY <1>5, <1>6, <1>7, <1>8

\* A handler whose requests succeed leaves nothing of its own.
LEMMA ReleaseRemoves ==
    ASSUME NEW h \in Handlers, Release(h)
    PROVE  h \notin Left'
<1>1. /\ h = "package" => ~pkg'
      /\ h = "service" => ~service'
      /\ h = "policy" => ~policy'
      /\ h = "corpus" => ~corpus'
  BY Zenon DEF Release
<1>2. /\ h = "agents" => \A a \in Agents : agents'[a] # "bench"
      /\ h = "docs" => events' = 0
      /\ h = "pipelines" => pipelines' = {}
  BY DEF Release
<1>3. h # "track"
  BY DEF Handlers
<1> QED
  BY <1>1, <1>2, <1>3 DEF Left

\* What is left has its handler, or its call failed.
LEMMA LeftIsKnown ==
    ASSUME Registered
    PROVE  Left \ {"track", "docs"} \subseteq handlers \cup lost
  BY DEF Registered, Left

\* Once Run is over documents come only from an agent that still has the policy.
LEMMA LateDocuments ==
    ASSUME [BenchmarkNext]_benchmarkVars, phase \in {"teardown", "end"}
    PROVE  events' = events \/ Ingest \/ \E h \in Handlers : RunHandler(h)
<1> USE DEF artifacts
<1>1. CASE \/ InstallPackage \/ InitializeGenerator \/ SetupService \/ CreateBenchmarkPolicy
           \/ WipeDataStream \/ WaitCleared \/ InstallBenchmarkPipelines \/ EnterRun
  BY <1>1 DEF InstallPackage, InitializeGenerator, SetupService, CreateBenchmarkPolicy,
              WipeDataStream, WaitCleared, InstallBenchmarkPipelines, EnterRun, Calling
<1>2. CASE \/ WriteCorpus \/ CreateRallyTrack \/ RunRally \/ EnrollAgents \/ SignalService
           \/ PollHits \/ FinishFails \/ ReindexData \/ SimulatePipeline
  BY <1>2 DEF WriteCorpus, CreateRallyTrack, RunRally, EnrollAgents, SignalService, PollHits,
              FinishFails, ReindexData, SimulatePipeline, Calling
<1>3. CASE \/ StartStream \/ StreamInterrupted \/ StreamReturns
           \/ \E g \in Generators \cup Backfills :
                 \/ GeneratorCancelled(g) \/ StreamReceives(g) \/ Drain(g) \/ StreamEvents(g)
                 \/ GeneratorFails(g) \/ BackfillEnds(g)
  BY <1>3 DEF StartStream, StreamInterrupted, StreamReturns, GeneratorCancelled, StreamReceives,
              Drain, StreamEvents, GeneratorFails, BackfillEnds, Streaming, Calling
<1>4. CASE \/ StartMetrics \/ StopMetrics \/ LastCollect \/ MetricsStopped \/ MetricsTick
           \/ EnterTearDown \/ DeferCleanup \/ Finish \/ InterruptBenchmark \/ UNCHANGED benchmarkVars
  BY <1>4 DEF StartMetrics, StopMetrics, LastCollect, MetricsStopped, MetricsTick, EnterTearDown,
              DeferCleanup, Finish, InterruptBenchmark, benchmarkVars
<1> QED
  BY <1>1, <1>2, <1>3, <1>4, Zenon DEF BenchmarkNext, Step, Environment, Ended

\* What is left waits for its handler, whatever fails.
LEMMA ClearedKept ==
    RunnerTypes /\ Collecting /\ Registered' /\ RunnerTypes' /\ Cleared /\ [BenchmarkNext]_benchmarkVars => Cleared'
<1> SUFFICES ASSUME RunnerTypes, Collecting, Registered', RunnerTypes', Cleared, [BenchmarkNext]_benchmarkVars,
                    phase' = "teardown" \/ Finished', NotKept', NEW r \in Left' \ {"track"}
             PROVE  \/ r \in lost' \cup tdErr'
                    \/ r \in handlers' /\ r \in CallNames(calls')
                    \/ r = "docs" /\ ("docs" \notin handlers' \/ "agents" \in Left')
  BY DEF Cleared
<1>1. kind' = kind /\ flags' = flags /\ kind \in BenchmarkKinds /\ NotKept
  BY PhaseMoves DEF RunnerTypes, NotKept
<1>2. CASE phase \in {"setup", "run"} /\ calls' = TearDownCalls(kind, flags)
  <2>1. handlers' \subseteq CallNames(calls')
    BY <1>1, <1>2, Lists DEF RunnerTypes, NotKept
  <2>2. r # "docs" => r \in handlers' \cup lost'
    <3>1. (Left \ {"track", "docs"} \subseteq handlers \cup lost)'
      BY LeftIsKnown, PTL
    <3> QED
      BY <3>1
  <2> QED
    BY <2>1, <2>2
<1>3. ASSUME phase = "teardown" \/ Finished PROVE phase \in {"teardown", "end"} /\ r \in Resources
             /\ (r \in Left => \/ r \in lost \cup tdErr
                               \/ r \in handlers /\ r \in CallNames(calls)
                               \/ r = "docs" /\ ("docs" \notin handlers \/ "agents" \in Left))
  BY <1>1, <1>3 DEF Cleared, Finished, Left
<1>4. ASSUME phase = "teardown" \/ Finished, NEW h \in Handlers, RunHandler(h)
      PROVE  \/ r \in lost' \cup tdErr'
             \/ r \in handlers' /\ r \in CallNames(calls')
             \/ r = "docs" /\ ("docs" \notin handlers' \/ "agents" \in Left')
  <2>1. /\ phase = "teardown" /\ calls # <<>> /\ Head(calls) = h /\ calls' = Tail(calls)
        /\ handlers' = handlers /\ lost' = lost /\ tdErr \subseteq tdErr'
    BY <1>4 DEF RunHandler, Calling
  <2>2. calls \in Seq(CallsOf(kind)) /\ InOrder(calls)
    BY DEF RunnerTypes, CallList
  <2>3. CallNames(calls) = {h} \cup CallNames(calls') /\ (h = "agents" => "docs" \in CallNames(calls'))
    BY <2>1, <2>2, TailCalls, NextCall DEF InOrder
  <2>4. Release(h) \/ ReleaseFails(h) \/ UNCHANGED artifacts
    BY <1>4 DEF RunHandler
  <2>5. r \in Left
    BY <2>4, Removes DEF Left, artifacts, Release, ReleaseFails
  <2>6. CASE r \in handlers /\ r \in CallNames(calls)
    <3>1. CASE r = h
      <4>1. Release(h) \/ h \in tdErr'
        BY <1>4, <2>6, <3>1 DEF RunHandler
      <4> QED
        BY <3>1, <4>1, ReleaseRemoves
    <3>2. CASE r # h
      BY <2>1, <2>3, <2>6, <3>2
    <3> QED
      BY <3>1, <3>2
  <2>7. CASE r = "docs" /\ "agents" \in Left
    <3>1. CASE h = "agents"
      BY <2>1, <2>3, <2>7, <3>1
    <3>2. CASE h # "agents"
      <4>1. agents' = agents
        BY <1>4, <3>2 DEF RunHandler, Release, ReleaseFails, artifacts
      <4> QED
        BY <2>7, <4>1 DEF Left
    <3> QED
      BY <3>1, <3>2
  <2> QED
    BY <1>3, <1>4, <2>1, <2>5, <2>6, <2>7
<1>5. ASSUME phase = "teardown" \/ Finished, ~\E h \in Handlers : RunHandler(h)
      PROVE  \/ r \in lost' \cup tdErr'
             \/ r \in handlers' /\ r \in CallNames(calls')
             \/ r = "docs" /\ ("docs" \notin handlers' \/ "agents" \in Left')
  <2>1. UNCHANGED things
    <3>1. ~(\/ InstallPackage \/ SetupService \/ CreateBenchmarkPolicy \/ WipeDataStream
            \/ InstallBenchmarkPipelines \/ WriteCorpus \/ CreateRallyTrack \/ EnrollAgents)
      BY <1>3, <1>5 DEF InstallPackage, SetupService, CreateBenchmarkPolicy, WipeDataStream,
                        InstallBenchmarkPipelines, WriteCorpus, CreateRallyTrack, EnrollAgents, Calling
    <3> QED
      BY <1>5, <3>1, Touches
  <2>2. r \in handlers /\ r \in CallNames(calls) => r \in CallNames(calls')
    BY <1>5, CallsStay DEF RunnerTypes, HandlersOf, Handlers, Resources, BenchmarkKinds
  <2>3. CASE r \in Left
    <3>1. "agents" \in Left => "agents" \in Left'
      BY <2>1 DEF Left, things
    <3> QED
      BY <1>3, <1>5, <2>1, <2>2, <2>3, <3>1 DEF things
  <2>4. CASE r \notin Left
    <3>1. r = "docs" /\ events' # events
      BY <2>1, <2>4 DEF Left, things
    <3>2. Ingest
      BY <1>3, <1>5, <3>1, LateDocuments
    <3>3. "agents" \in Left'
      BY <3>2 DEF Ingest, Left, Resources
    <3> QED
      BY <3>1, <3>3
  <2> QED
    BY <2>3, <2>4
<1> QED
  BY <1>2, <1>4, <1>5, PhaseMoves

-----------------------------------------------------------------------------
(***************************************************************************)
(* The invariant is inductive, and what follows from it.                   *)
(***************************************************************************)
\* It holds at first.
LEMMA InitBenchmarkInv == BenchmarkInit => BenchmarkInv
<1> SUFFICES ASSUME BenchmarkInit PROVE BenchmarkInv
  OBVIOUS
<1>1. RunnerTypes
  BY Lists DEF BenchmarkInit, RunnerTypes, Finished
<1>2. Collecting /\ Generating
  BY DEF BenchmarkInit, Collecting, Generating, NoSendOnClosedChannel
<1>3. Registered /\ Cleared /\ PolicyHeld
  BY DEF BenchmarkInit, Registered, Cleared, PolicyHeld, Finished
<1>4. Saving
  BY DEF BenchmarkInit, Saving, Finished
<1> QED
  BY <1>1, <1>2, <1>3, <1>4 DEF BenchmarkInv

\* Every step keeps it.
LEMMA BenchmarkStep == BenchmarkInv /\ [BenchmarkNext]_benchmarkVars => BenchmarkInv'
<1> SUFFICES ASSUME BenchmarkInv, [BenchmarkNext]_benchmarkVars PROVE BenchmarkInv'
  OBVIOUS
<1>1. RunnerTypes' /\ Collecting' /\ Generating' /\ Registered'
  BY TypesKept, CollectingKept, GeneratingKept, RegisteredKept DEF BenchmarkInv
<1>2. Cleared' /\ PolicyHeld' /\ Saving'
  BY <1>1, ClearedKept, PolicyHeldKept, SavingKept DEF BenchmarkInv
<1> QED
  BY <1>1, <1>2 DEF BenchmarkInv

\* So it holds throughout.
LEMMA BenchmarkInvariance == BenchmarkSpec => []BenchmarkInv
BY InitBenchmarkInv, BenchmarkStep, PTL DEF BenchmarkSpec

\* When a benchmark ends, whatever failed and whenever SIGINT came, nothing of it is left that had a
\* clean-up handler, unless that handler failed (TearDown of the runners).
THEOREM BenchmarkCleansUp == BenchmarkSpec => []CleanUpIsComplete
<1>1. BenchmarkInv => CleanUpIsComplete
  <2> SUFFICES ASSUME BenchmarkInv, Finished, NotKept, NEW r \in Left \ {"track"}
               PROVE  r \in lost \cup tdErr \/ (r = "docs" /\ ("docs" \notin handlers \/ "agents" \in Left))
    BY DEF CleanUpIsComplete
  <2>1. CallNames(calls) = {}
    BY EmptyList DEF BenchmarkInv, RunnerTypes
  <2>2. \/ r \in lost \cup tdErr
        \/ r \in handlers /\ r \in CallNames(calls)
        \/ r = "docs" /\ ("docs" \notin handlers \/ "agents" \in Left)
    BY DEF BenchmarkInv, Cleared
  <2> QED
    BY <2>1, <2>2
<1> QED
  BY <1>1, BenchmarkInvariance, PTL

\* The policy outlives its agents, the collector ends before TearDown, and no generator sends on the
\* closed channel, whichever way Run ended.
THEOREM BenchmarkShutsDownInOrder == BenchmarkSpec => []ShutdownIsOrdered
<1>1. BenchmarkInv => ShutdownIsOrdered
  <2> SUFFICES ASSUME BenchmarkInv PROVE ShutdownIsOrdered
    OBVIOUS
  <2>1. CollectorStopsFirst
    <3>1. phase = "teardown" \/ Finished => process = "up" /\ phase # "run"
      BY DEF BenchmarkInv, RunnerTypes, Finished
    <3> QED
      BY <3>1 DEF BenchmarkInv, Collecting, CollectorStopsFirst
  <2>2. PolicyOutlivesAgents
    <3> SUFFICES ASSUME "policy" \in handlers, ~policy, NEW a \in Agents, agents[a] = "bench"
                 PROVE  "agents" \in lost \cup tdErr
      BY DEF PolicyOutlivesAgents
    <3>1. "agents" \in Left
      BY DEF Left, Resources
    <3>2. NotKept
      BY DEF BenchmarkInv, RunnerTypes, HandlersOf, BenchmarkKinds, NotKept
    <3> QED
      BY <3>1, <3>2 DEF BenchmarkInv, PolicyHeld, Cleared
  <2> QED
    BY <2>1, <2>2 DEF ShutdownIsOrdered, BenchmarkInv, Generating
<1> QED
  BY <1>1, BenchmarkInvariance, PTL

\* A rally track is saved with its corpus, or its handler says that it was not (RallyTearDown).
THEOREM RallyTrackIsSavedWhole == BenchmarkSpec => []SavedTrackIsComplete
<1>1. BenchmarkInv => SavedTrackIsComplete
  <2> SUFFICES ASSUME BenchmarkInv, "persist" \in handlers
               PROVE  /\ Calling("teardown", "persist") => corpus
                      /\ Finished /\ saved # {"track", "corpus"} => "persist" \in tdErr
    BY DEF SavedTrackIsComplete
  <2>1. Calling("teardown", "persist") => corpus
    <3>1. calls # <<>> => CallNames(calls) = {Head(calls)} \cup CallNames(Tail(calls))
      BY TailCalls DEF BenchmarkInv, RunnerTypes, CallList
    <3> QED
      BY <3>1 DEF Calling, BenchmarkInv, Saving
  <2>2. Finished /\ saved # {"track", "corpus"} => "persist" \in tdErr
    BY EmptyList DEF BenchmarkInv, RunnerTypes, Saving
  <2> QED
    BY <2>1, <2>2
<1> QED
  BY <1>1, BenchmarkInvariance, PTL

-----------------------------------------------------------------------------
(***************************************************************************)
(* Profiles: any profiles, services with a certificate, number of commands *)
(* and of cuts.                                                            *)
(***************************************************************************)
\* Numbers of commands that are over.
Past == {n \in 0..MaxCommands : n <= cmd /\ (stage = "command" => n < cmd)}

\* What is known between two steps.
Steady ==
    /\ stage = "command" => home.root /\ ~applied /\ cmd >= 1
    /\ ~home.root => projects = {}

\* Every number was given by a command that is over.
Numbered ==
    /\ projects \subseteq Past
    /\ \A p \in Names :
        /\ store[p].record.project \in Past
        /\ \A f \in CertFile : LET pair == store[p].certs[f] IN
               pair.made \in Past /\ (pair.made # 0 => pair.issuer \in Past)

\* A directory without profile.json records nothing that is still there.
AbsentForgets ==
    \A p \in Names :
        store[p].meta = "absent" => store[p].record.project \notin projects \ given

\* The default profile is not deleted.
DefaultLoads == home.root /\ ~loose => Loads("default")

\* Whoever has a pair of the CA in the file finds its key in the directory.
Sound(c) ==
    c[<<"ca", "cert">>].made # 0 =>
        \A s \in Services :
            /\ c[<<s, "cert">>] = c[<<s, "key">>] /\ c[<<s, "cert">>].made # 0
            /\ c[<<s, "cert">>].issuer = c[<<"ca", "cert">>].made
            => c[<<"ca", "key">>] = c[<<"ca", "cert">>]

AllSound == ~mingled => \A p \in Names : Sound(store[p].certs)

-----------------------------------------------------------------------------
\* Services are numbered.
LEMMA ServicesOrdered ==
    ASSUME ProfilesAssumption
    PROVE  /\ Cardinality(Services) \in Nat
           /\ ServiceOrder \in [1..Cardinality(Services) -> Services]
           /\ \A s \in Services : \E i \in 1..Cardinality(Services) : ServiceOrder[i] = s
<1> DEFINE n == Cardinality(Services)
           Bijections == {o \in [1..n -> Services] : \A i, j \in DOMAIN o : o[i] = o[j] => i = j}
<1>1. n \in Nat /\ ExistsBijection(1..n, Services) BY FS_CardinalityType DEF ProfilesAssumption
<1>2. PICK b \in Bijection(1..n, Services) : TRUE BY <1>1 DEF ExistsBijection
<1>3. \E o \in [1..n -> Services] : \A i, j \in DOMAIN o : o[i] = o[j] => i = j
    BY <1>2 DEF Bijection, Injection, IsInjective
<1>4. ServiceOrder \in [1..n -> Services] /\ \A i, j \in 1..n : ServiceOrder[i] = ServiceOrder[j] => i = j
    BY <1>3 DEF ServiceOrder
<1>5. IsFiniteSet(1..n) /\ Cardinality(1..n) = n BY <1>1, FS_Interval
<1>6. ServiceOrder \in Injection(1..n, Services) BY <1>4 DEF Injection, IsInjective
<1>7. ServiceOrder \in Surjection(1..n, Services) BY <1>1, <1>5, <1>6, FS_Injection DEF ProfilesAssumption
<1> QED BY <1>1, <1>4, <1>7 DEF Surjection

\* The certificate of the CA is written and copied first, then its key.
LEMMA AuthorityFirst ==
    ASSUME ProfilesAssumption, NEW order \in {WriteOrder, CopyOrder}
    PROVE  /\ Position(<<"ca", "cert">>, order) \in Nat /\ Position(<<"ca", "key">>, order) \in Nat
           /\ Position(<<"ca", "cert">>, order) < Position(<<"ca", "key">>, order)
           /\ \A f \in CertFile \ {<<"ca", "cert">>, <<"ca", "key">>} :
                  /\ Position(f, order) \in Nat
                  /\ Position(<<"ca", "key">>, order) < Position(f, order)
<1>1. DOMAIN order = 1..3 BY DEF WriteOrder, CopyOrder
<1> DEFINE Place(suffix) == CHOOSE i \in DOMAIN order : order[i] = suffix
<1>2. Place("cert") \in 1..2 /\ Place("key") \in 2..3 /\ Place("key") = Place("cert") + 1
      /\ Place("cert") \in Nat /\ Place("key") \in Nat
    BY <1>1 DEF WriteOrder, CopyOrder
<1>3. Place("ca") \in 1..3 BY <1>1 DEF WriteOrder, CopyOrder
<1>4. /\ Position(<<"ca", "cert">>, order) = Place("cert")
      /\ Position(<<"ca", "key">>, order) = Place("key")
    <2>1. ASSUME NEW suffix \in {"cert", "key"}, Place(suffix) \in Nat
          PROVE  Position(<<"ca", suffix>>, order) = Place(suffix)
        <3>1. Position(<<"ca", suffix>>, order) = 3 * 0 + Place(suffix) BY DEF Position
        <3> HIDE DEF Place
        <3> QED BY <2>1, <3>1
    <2>2. Place("cert") \in Nat /\ Place("key") \in Nat BY <1>2, Zenon
    <2> HIDE DEF Place
    <2> QED BY <2>1, <2>2
<1>5. ASSUME NEW f \in CertFile \ {<<"ca", "cert">>, <<"ca", "key">>}
      PROVE  Position(f, order) \in Nat /\ Position(f, order) > 3
    <2>1. PICK s \in Services, suffix \in {"cert", "key", "ca"} : f = <<s, suffix>> BY <1>5 DEF CertFile
    <2>2. s # "ca" BY <2>1 DEF ProfilesAssumption
    <2> DEFINE n == CHOOSE i \in DOMAIN ServiceOrder : ServiceOrder[i] = s
    <2>3. n \in 1..Cardinality(Services) BY ServicesOrdered
    <2>4. Position(f, order) = 3 * n + Place(suffix) BY <2>1, <2>2 DEF Position
    <2>5. Place(suffix) \in 1..3 BY <1>2, <1>3, <2>1
    <2> HIDE DEF n, Place
    <2> QED BY <2>3, <2>4, <2>5, ServicesOrdered
<1> HIDE DEF Place
<1> QED BY <1>2, <1>4, <1>5

-----------------------------------------------------------------------------
Certificates == [CertFile -> Pair]

\* The certificates fit together.
Fitting(c) ==
    /\ c[<<"ca", "cert">>] = c[<<"ca", "key">>]
    /\ \A s \in Services : /\ c[<<s, "cert">>] = c[<<s, "key">>]
                           /\ c[<<s, "cert">>].issuer = c[<<"ca", "cert">>].made
                           /\ c[<<s, "ca">>] = c[<<"ca", "cert">>]

\* No certificate was made by the command that runs.
Older(c) ==
    \A f \in CertFile : c[f].made < cmd /\ (c[f].made # 0 => c[f].issuer < cmd)

LEMMA CertFiles ==
    /\ <<"ca", "cert">> \in CertFile /\ <<"ca", "key">> \in CertFile
    /\ \A s \in Services : /\ <<s, "cert">> \in CertFile /\ <<s, "key">> \in CertFile
                           /\ <<s, "ca">> \in CertFile
BY DEF CertFile

\* The files of services are not those of the CA.
LEMMA ServiceFiles ==
    ASSUME ProfilesAssumption, NEW s \in Services, NEW suffix \in {"cert", "key", "ca"}
    PROVE  <<s, suffix>> \in CertFile \ {<<"ca", "cert">>, <<"ca", "key">>} /\ s # "ca"
BY DEF CertFile, ProfilesAssumption

\* What a boot wants in each file.
LEMMA WantedFiles ==
    ASSUME ProfilesAssumption, NEW c
    PROVE  /\ Wanted(c)[<<"ca", "cert">>] = CA(c) /\ Wanted(c)[<<"ca", "key">>] = CA(c)
           /\ \A s \in Services : /\ Wanted(c)[<<s, "cert">>] = ServicePair(c, s)
                                  /\ Wanted(c)[<<s, "key">>] = ServicePair(c, s)
                                  /\ Wanted(c)[<<s, "ca">>] = CA(c)
<1>1. /\ Wanted(c)[<<"ca", "cert">>] = CA(c) /\ Wanted(c)[<<"ca", "key">>] = CA(c)
    BY CertFiles DEF Wanted
<1>2. ASSUME NEW s \in Services
      PROVE  /\ Wanted(c)[<<s, "cert">>] = ServicePair(c, s)
             /\ Wanted(c)[<<s, "key">>] = ServicePair(c, s)
             /\ Wanted(c)[<<s, "ca">>] = CA(c)
    <2>1. s # "ca" BY ServiceFiles
    <2> QED BY <2>1, CertFiles DEF Wanted
<1> QED BY <1>1, <1>2

LEMMA WantedTypes ==
    ASSUME ProfilesAssumption, NEW c \in Certificates, cmd \in 0..MaxCommands
    PROVE  /\ Wanted(c) \in Certificates
           /\ CA(c) \in {c[<<"ca", "cert">>], [made |-> cmd, issuer |-> cmd]}
           /\ \A s \in Services : ServicePair(c, s) \in {c[<<s, "cert">>], [made |-> cmd, issuer |-> CA(c).made]}
<1>1. c[<<"ca", "cert">>] \in Pair /\ \A s \in Services : c[<<s, "cert">>] \in Pair
    BY CertFiles DEF Certificates
<1>2. CA(c) \in Pair /\ CA(c) \in {c[<<"ca", "cert">>], [made |-> cmd, issuer |-> cmd]}
    BY <1>1 DEF CA, Pair
<1>3. ASSUME NEW s \in Services
      PROVE  /\ ServicePair(c, s) \in {c[<<s, "cert">>], [made |-> cmd, issuer |-> CA(c).made]}
             /\ ServicePair(c, s) \in Pair
    BY <1>1, <1>2 DEF ServicePair, Pair
<1>4. ASSUME NEW f \in CertFile PROVE Wanted(c)[f] \in Pair
    <2>1. CASE f \in {<<"ca", "cert">>, <<"ca", "key">>} BY <2>1, <1>2, WantedFiles
    <2>2. CASE f \in Services \X {"cert", "key", "ca"}
        <3>1. PICK s \in Services, suffix \in {"cert", "key", "ca"} : f = <<s, suffix>> BY <2>2
        <3> QED BY <3>1, <1>2, <1>3, WantedFiles
    <2> QED BY <2>1, <2>2 DEF CertFile
<1>5. Wanted(c) = [f \in CertFile |-> Wanted(c)[f]] BY DEF Wanted
<1> QED BY <1>2, <1>3, <1>4, <1>5 DEF Certificates

\* A boot that is not cut makes everything fit.
LEMMA WantedFits ==
    ASSUME ProfilesAssumption, NEW c \in Certificates, Sound(c),
           cmd \in 1..MaxCommands, expired \in Nat
    PROVE  Fitting(Wanted(c))
<1>1. ASSUME NEW s \in Services PROVE ServicePair(c, s).issuer = CA(c).made
    <2>1. CASE ~ValidService(c, s) BY <2>1 DEF ServicePair
    <2>2. CASE ValidService(c, s)
        <3>1. /\ c[<<s, "cert">>] \in Pair /\ c[<<"ca", "cert">>] \in Pair
            BY CertFiles DEF Certificates
        <3>2. c[<<s, "cert">>].made # 0 /\ c[<<"ca", "cert">>].made # 0
            BY <2>2, <3>1 DEF ValidService, Expired, Pair
        <3>3. c[<<"ca", "key">>] = c[<<"ca", "cert">>]
            BY <2>2, <3>2 DEF ValidService, Sound
        <3>4. ValidCA(c) BY <2>2, <3>3 DEF ValidCA, ValidService
        <3> QED BY <2>2, <3>4 DEF CA, ServicePair, ValidService
    <2> QED BY <2>1, <2>2
<1> QED BY <1>1, WantedFiles DEF Fitting

LEMMA FittingIsSound == ASSUME NEW c, Fitting(c) PROVE Sound(c)
BY DEF Fitting, Sound

\* What can be found in a file after writing failed.
LEMMA InterruptedFiles ==
    ASSUME NEW old, NEW new, NEW order, NEW g, NEW torn \in BOOLEAN, NEW rest \in BOOLEAN,
           NEW f \in CertFile
    PROVE  Interrupted(old, new, order, g, torn, rest)[f] \in {old[f], new[f], Torn}
BY DEF Interrupted

LEMMA InterruptedTypes ==
    ASSUME NEW old \in Certificates, NEW new \in Certificates, NEW order, NEW g,
           NEW torn \in BOOLEAN, NEW rest \in BOOLEAN, MaxCommands \in Nat \ {0}
    PROVE  Interrupted(old, new, order, g, torn, rest) \in Certificates
<1> DEFINE i == Interrupted(old, new, order, g, torn, rest)
<1>1. Torn \in Pair BY DEF Torn, Pair
<1>2. \A f \in CertFile : i[f] \in Pair BY <1>1, InterruptedFiles DEF Certificates
<1>3. i = [f \in CertFile |-> i[f]] BY DEF Interrupted
<1> QED BY <1>2, <1>3 DEF Certificates

\* A boot that fails anywhere but at the key of the CA alone leaves nothing that the next
\* one takes for complete.
LEMMA InterruptedSound ==
    ASSUME ProfilesAssumption, NEW c \in Certificates, Sound(c), Older(c),
           cmd \in 1..MaxCommands, expired \in Nat, NEW g \in CertFile, NEW torn \in BOOLEAN,
           NEW rest \in BOOLEAN, ~(rest /\ g = <<"ca", "key">>)
    PROVE  Sound(Interrupted(c, Wanted(c), WriteOrder, g, torn, rest))
<1> DEFINE i == Interrupted(c, Wanted(c), WriteOrder, g, torn, rest)
           cert == <<"ca", "cert">>
           key == <<"ca", "key">>
<1> SUFFICES Sound(i) OBVIOUS
<1>1. /\ c[cert] \in Pair /\ c[key] \in Pair BY CertFiles DEF Certificates
<1>2. CASE CA(c) = c[cert]
    <2>1. c[cert].made # cmd BY <1>1, CertFiles DEF Older, Pair
    <2>2. ValidCA(c) BY <1>2, <2>1 DEF CA
    <2>3. i[cert] = c[cert] /\ i[key] = c[key]
        BY <1>2, <2>2, CertFiles, WantedFiles DEF Interrupted, ValidCA
    <2> QED BY <2>2, <2>3 DEF Sound, ValidCA
<1>3. CASE CA(c) # c[cert]
    <2>1. CA(c) = [made |-> cmd, issuer |-> cmd] BY <1>3 DEF CA
    <2>2. Wanted(c)[key] # c[key]
        BY <1>1, <2>1, CertFiles, WantedFiles DEF Older, Pair
    <2>3. CASE g = cert
        <3>1. i[cert] \in {c[cert], Torn} BY <2>3, CertFiles DEF Interrupted
        <3>2. CASE i[cert] = Torn
            <4> HIDE DEF i
            <4> QED BY <3>2 DEF Sound, Torn
        <3>3. CASE i[cert] = c[cert] /\ ~rest
            <4>1. ASSUME NEW f \in CertFile PROVE i[f] = c[f]
                <5>1. CASE f = cert BY <5>1, <3>3
                <5>2. CASE f # cert
                    <6>1. ~(Position(f, WriteOrder) < Position(cert, WriteOrder))
                        BY <5>2, <4>1, AuthorityFirst
                    <6> QED BY <5>2, <6>1, <2>3, <3>3, <4>1 DEF Interrupted
                <5> QED BY <5>1, <5>2
            <4> QED BY <4>1, CertFiles DEF Sound
        <3>4. CASE i[cert] = c[cert] /\ rest
            <4>1. ASSUME NEW s \in Services
                  PROVE  i[<<s, "cert">>] = ServicePair(c, s)
                <5>1. <<s, "cert">> \in CertFile \ {cert, key} BY ServiceFiles
                <5> QED BY <2>3, <3>4, <5>1, WantedFiles DEF Interrupted
            <4>2. ASSUME NEW s \in Services, c[cert].made # 0
                  PROVE  i[<<s, "cert">>].issuer # c[cert].made
                <5>1. CASE ~ValidService(c, s)
                    <6>1. ServicePair(c, s).issuer = cmd BY <5>1, <2>1 DEF ServicePair
                    <6>2. c[cert].made < cmd /\ c[cert].made \in Nat
                        BY <1>1, CertFiles DEF Older, Pair
                    <6> HIDE DEF i
                    <6> QED BY <4>1, <6>1, <6>2
                <5>2. CASE ValidService(c, s)
                    <6>1. c[<<s, "cert">>] \in Pair BY CertFiles DEF Certificates
                    <6>2. c[<<s, "cert">>].made # 0 BY <5>2, <6>1 DEF ValidService, Expired, Pair
                    <6>3. c[key] = c[cert] BY <4>2, <5>2, <6>2 DEF ValidService, Sound
                    <6>4. ValidCA(c) BY <5>2, <6>3 DEF ValidCA, ValidService
                    <6> QED BY <1>3, <6>4 DEF CA
                <5> QED BY <5>1, <5>2
            <4> HIDE DEF i
            <4> QED BY <3>4, <4>2 DEF Sound
        <3> QED BY <3>1, <3>2, <3>3, <3>4
    <2>4. CASE g # cert
        <3>1. Position(cert, WriteOrder) < Position(g, WriteOrder)
            BY <2>4, AuthorityFirst
        <3>2. i[cert] = CA(c) BY <3>1, <2>4, <1>3, CertFiles, WantedFiles DEF Interrupted
        <3>3. CASE g = key
            <4>1. ASSUME NEW s \in Services
                  PROVE  i[<<s, "cert">>] = c[<<s, "cert">>]
                <5>1. <<s, "cert">> \in CertFile \ {cert, key} BY ServiceFiles
                <5>2. ~(Position(<<s, "cert">>, WriteOrder) < Position(key, WriteOrder))
                    BY <5>1, AuthorityFirst
                <5> QED BY <2>4, <3>3, <5>1, <5>2 DEF Interrupted
            <4>2. ASSUME NEW s \in Services, i[<<s, "cert">>].made # 0
                  PROVE  i[<<s, "cert">>].issuer # i[cert].made
                <5>1. c[<<s, "cert">>].issuer < cmd BY <4>1, <4>2, CertFiles DEF Older
                <5> HIDE DEF i
                <5>2. c[<<s, "cert">>] \in Pair BY CertFiles DEF Certificates
                <5>3. c[<<s, "cert">>].issuer \in 0..MaxCommands BY <5>2 DEF Pair
                <5>4. i[cert].made = cmd BY <3>2, <2>1
                <5> QED BY <5>1, <5>3, <5>4, <4>1
            <4> HIDE DEF i
            <4> QED BY <4>2 DEF Sound
        <3>4. CASE g # key
            <4>1. Position(key, WriteOrder) < Position(g, WriteOrder)
                BY <2>4, <3>4, AuthorityFirst
            <4>2. i[key] = CA(c) BY <4>1, <3>4, <2>2, CertFiles, WantedFiles DEF Interrupted
            <4> HIDE DEF i
            <4> QED BY <3>2, <4>2 DEF Sound
        <3> QED BY <3>3, <3>4
    <2> QED BY <2>3, <2>4
<1> QED BY <1>2, <1>3

\* Files that agree are as sound.
LEMMA SoundAgrees ==
    ASSUME NEW a, NEW b, Sound(b), \A f \in CertFile : a[f] = b[f]
    PROVE  Sound(a)
BY CertFiles DEF Sound

\* Certificates that are copied to a directory without any, or a copy of none, to the end or
\* cut anywhere.
LEMMA CopiedSound ==
    ASSUME ProfilesAssumption, NEW p, NEW from,
           store[p].certs \in Certificates, store[from].certs \in Certificates,
           Sound(store[p].certs), Sound(store[from].certs),
           NoCerts \in {store[p].certs, store[from].certs},
           NEW g \in CertFile, NEW torn \in BOOLEAN
    PROVE  /\ Sound(CopiedCerts(p, from))
           /\ Sound(Interrupted(store[p].certs, CopiedCerts(p, from), CopyOrder, g, torn, FALSE))
<1> DEFINE d == store[p].certs
           e == store[from].certs
           new == CopiedCerts(p, from)
           i == Interrupted(d, new, CopyOrder, g, torn, FALSE)
           cert == <<"ca", "cert">>
           key == <<"ca", "key">>
<1> SUFFICES Sound(new) /\ Sound(i) OBVIOUS
<1>1. CASE e = NoCerts
    <2>1. \A f \in CertFile : new[f] = d[f] BY <1>1 DEF CopiedCerts, NoCerts
    <2>2. \A f \in CertFile : i[f] = d[f] BY <2>1 DEF Interrupted
    <2> HIDE DEF new, i
    <2> QED BY <2>1, <2>2, SoundAgrees
<1>2. CASE d = NoCerts
    <2>1. \A f \in CertFile : new[f] = e[f] BY <1>2 DEF CopiedCerts, NoCerts
    <2>2. Sound(new)
        <3> HIDE DEF new
        <3> QED BY <2>1, SoundAgrees
    <2>3. ASSUME NEW s \in Services, i[cert].made # 0, i[<<s, "cert">>].made # 0,
                 i[<<s, "cert">>] = i[<<s, "key">>], i[<<s, "cert">>].issuer = i[cert].made
          PROVE  i[key] = i[cert]
        <3>1. ASSUME NEW f \in CertFile, i[f].made # 0
              PROVE  i[f] = e[f] /\ Position(f, CopyOrder) < Position(g, CopyOrder)
            <4>1. d[f].made = 0 /\ Torn.made = 0 BY <1>2, <3>1 DEF NoCerts, NoPair, Torn
            <4>2. i[f] # d[f] /\ i[f] # Torn
                <5> HIDE DEF i
                <5> QED BY <3>1, <4>1
            <4> QED BY <2>1, <4>2, <3>1 DEF Interrupted
        <3>2. Position(key, CopyOrder) < Position(<<s, "cert">>, CopyOrder)
            BY ServiceFiles, AuthorityFirst
        <3>3. /\ i[cert] = e[cert] /\ i[<<s, "cert">>] = e[<<s, "cert">>]
              /\ Position(<<s, "cert">>, CopyOrder) < Position(g, CopyOrder)
            <4> HIDE DEF i
            <4> QED BY <3>1, <2>3, CertFiles
        <3>4. i[<<s, "key">>] = e[<<s, "key">>]
            <4> HIDE DEF i
            <4> QED BY <3>1, <2>3, CertFiles
        <3>5. Position(key, CopyOrder) < Position(g, CopyOrder) /\ key # g
            <4>1. /\ Position(key, CopyOrder) \in Nat /\ Position(<<s, "cert">>, CopyOrder) \in Nat
                  /\ Position(g, CopyOrder) \in Nat
                BY ServiceFiles, AuthorityFirst
            <4> QED BY <4>1, <3>2, <3>3
        <3>6. i[key] = e[key] BY <3>5, <2>1, CertFiles DEF Interrupted
        <3> HIDE DEF i
        <3> QED BY <3>3, <3>4, <3>6, <2>3 DEF Sound
    <2> HIDE DEF i
    <2> QED BY <2>2, <2>3 DEF Sound
<1> QED BY <1>1, <1>2

-----------------------------------------------------------------------------
\* One directory is written.
Puts(p, m, r, c) ==
    /\ m \in Names \cup {"absent", "corrupt"} /\ r \in Record /\ c \in Certificates
    /\ store' = [store EXCEPT ![p] = [meta |-> m, record |-> r, certs |-> c]]

\* A directory is its parts.
LEMMA DirectoryParts ==
    ASSUME ProfilesTypeOK, NEW p \in Names
    PROVE  /\ store[p] = [meta |-> store[p].meta, record |-> store[p].record, certs |-> store[p].certs]
           /\ store[p].meta \in Names \cup {"absent", "corrupt"} /\ store[p].record \in Record
           /\ store[p].certs \in Certificates
           /\ [store EXCEPT ![p] = store[p]] = store
<1>1. store[p] \in Directory /\ store \in [Names -> Directory] BY DEF ProfilesTypeOK
<1> QED BY <1>1 DEF Directory, Certificates

\* Ways to write to it.
LEMMA PutsNothing ==
    ASSUME ProfilesTypeOK, NEW p \in Names, store' = store
    PROVE  Puts(p, store[p].meta, store[p].record, store[p].certs)
BY DirectoryParts DEF Puts

LEMMA PutsBoth ==
    ASSUME ProfilesTypeOK, NEW p \in Names, NEW r \in Record, NEW c \in Certificates,
           store' = [store EXCEPT ![p].record = r, ![p].certs = c]
    PROVE  Puts(p, store[p].meta, r, c)
<1> DEFINE d == store[p]
<1>1. d = [meta |-> d.meta, record |-> d.record, certs |-> d.certs]
      /\ d.meta \in Names \cup {"absent", "corrupt"}
    BY DirectoryParts
<1>2. [d EXCEPT !.record = r] = [meta |-> d.meta, record |-> r, certs |-> d.certs]
    <2>1. [[meta |-> d.meta, record |-> d.record, certs |-> d.certs] EXCEPT !.record = r]
              = [meta |-> d.meta, record |-> r, certs |-> d.certs]
        OBVIOUS
    <2> QED BY <1>1, <2>1, Zenon
<1>3. [[d EXCEPT !.record = r] EXCEPT !.certs = c] = [meta |-> d.meta, record |-> r, certs |-> c]
    <2>1. [[meta |-> d.meta, record |-> r, certs |-> d.certs] EXCEPT !.certs = c]
              = [meta |-> d.meta, record |-> r, certs |-> c]
        OBVIOUS
    <2> QED BY <1>2, <2>1, Zenon
<1>4. [store EXCEPT ![p].record = r, ![p].certs = c]
        = [store EXCEPT ![p] = [[d EXCEPT !.record = r] EXCEPT !.certs = c]] BY DEF ProfilesTypeOK
<1> HIDE DEF d
<1>5. store' = [store EXCEPT ![p] = [meta |-> d.meta, record |-> r, certs |-> c]]
    BY <1>3, <1>4, Zenon
<1> QED BY <1>1, <1>5 DEF Puts, d

LEMMA PutsCerts ==
    ASSUME ProfilesTypeOK, NEW p \in Names, NEW c \in Certificates,
           store' = [store EXCEPT ![p].certs = c]
    PROVE  Puts(p, store[p].meta, store[p].record, c)
<1> DEFINE d == store[p]
<1>1. d = [meta |-> d.meta, record |-> d.record, certs |-> d.certs]
      /\ d.meta \in Names \cup {"absent", "corrupt"} /\ d.record \in Record
    BY DirectoryParts
<1>2. [d EXCEPT !.certs = c] = [meta |-> d.meta, record |-> d.record, certs |-> c]
    <2>1. [[meta |-> d.meta, record |-> d.record, certs |-> d.certs] EXCEPT !.certs = c]
              = [meta |-> d.meta, record |-> d.record, certs |-> c]
        OBVIOUS
    <2> QED BY <1>1, <2>1, Zenon
<1>3. [store EXCEPT ![p].certs = c] = [store EXCEPT ![p] = [d EXCEPT !.certs = c]] BY DEF ProfilesTypeOK
<1> HIDE DEF d
<1>4. store' = [store EXCEPT ![p] = [meta |-> d.meta, record |-> d.record, certs |-> c]]
    BY <1>2, <1>3, Zenon
<1> QED BY <1>1, <1>4 DEF Puts, d

LEMMA PutsRecord ==
    ASSUME ProfilesTypeOK, NEW p \in Names, NEW r \in Record,
           store' = [store EXCEPT ![p].record = r]
    PROVE  Puts(p, store[p].meta, r, store[p].certs)
<1> DEFINE d == store[p]
<1>1. d = [meta |-> d.meta, record |-> d.record, certs |-> d.certs]
      /\ d.meta \in Names \cup {"absent", "corrupt"} /\ d.certs \in Certificates
    BY DirectoryParts
<1>2. [d EXCEPT !.record = r] = [meta |-> d.meta, record |-> r, certs |-> d.certs]
    <2>1. [[meta |-> d.meta, record |-> d.record, certs |-> d.certs] EXCEPT !.record = r]
              = [meta |-> d.meta, record |-> r, certs |-> d.certs]
        OBVIOUS
    <2> QED BY <1>1, <2>1, Zenon
<1>3. [store EXCEPT ![p].record = r] = [store EXCEPT ![p] = [d EXCEPT !.record = r]] BY DEF ProfilesTypeOK
<1> HIDE DEF d
<1>4. store' = [store EXCEPT ![p] = [meta |-> d.meta, record |-> r, certs |-> d.certs]]
    BY <1>2, <1>3, Zenon
<1> QED BY <1>1, <1>4 DEF Puts, d

\* What every command does: it ends, and writes to one directory at most.
Returned(p) ==
    /\ stage' = "idle" /\ cmd' = cmd /\ expired' = expired /\ target' = p
    /\ ok' \in BOOLEAN /\ cuts' \in 0..MaxCuts
    /\ home' \in [root : {home.root}, current : Names \cup {"absent", "corrupt"}, version : {home.version}]
    /\ containers' \in [Names -> SUBSET Services]
    /\ loose' \in BOOLEAN /\ mingled' \in BOOLEAN

\* What it does to the certificates: what it leaves is as sound as what it found, and when it
\* says that it wrote them, it has written all.
Certifies(p, c) ==
    /\ mingled => mingled'
    /\ applied' \in BOOLEAN /\ (applied' => c = Wanted(store[p].certs))
    /\ \A f \in CertFile : c[f].made \in 0..cmd /\ (c[f].made # 0 => c[f].issuer \in 0..cmd)
    /\ ~mingled' => Sound(c)

\* What it does to projects and to the record of one.
Records(p, m, r) ==
    LET kept == projects \ given IN
    /\ projects' \subseteq 0..cmd /\ 0 \notin projects' /\ given' \subseteq 1..MaxCommands
    /\ r.project \in 0..cmd
    /\ projects' \ given' \subseteq kept \cup ({cmd} \cap {r.project})
    /\ store[p].record.project \in projects' \ given' => r.project = store[p].record.project
    /\ m = "absent" => r.project \notin projects' \ given'

Effect(p, m, r, c) ==
    /\ Puts(p, m, r, c) /\ Returned(p)
    /\ Certifies(p, c) /\ Records(p, m, r)

-----------------------------------------------------------------------------
\* A command begins.
Ready ==
    /\ ProfilesTypeOK /\ Steady /\ Numbered /\ AbsentForgets /\ AllSound
    /\ stage = "command"

LEMMA ReadyFacts ==
    ASSUME ProfilesAssumption, Ready, NEW p \in Names
    PROVE  /\ cmd \in 1..MaxCommands /\ expired \in Nat /\ applied = FALSE
           /\ store[p].certs \in Certificates /\ Older(store[p].certs)
           /\ ~mingled => Sound(store[p].certs)
           /\ store[p].record.project \in 0..(cmd - 1)
           /\ projects \subseteq 1..(cmd - 1) /\ given \subseteq 1..MaxCommands
           /\ store[p].meta = "absent" => store[p].record.project \notin projects \ given
<1>1. cmd \in 1..MaxCommands /\ expired \in Nat /\ applied = FALSE
    BY DEF Ready, ProfilesTypeOK, Steady
<1>2. store[p].certs \in Certificates BY DirectoryParts DEF Ready
<1>3. Past = 0..(cmd - 1) BY <1>1 DEF Past, Ready
<1>4. projects \subseteq 1..(cmd - 1) BY <1>3 DEF Ready, Numbered, ProfilesTypeOK
<1>5. Older(store[p].certs)
    <2>1. ASSUME NEW f \in CertFile
          PROVE  store[p].certs[f].made \in 0..(cmd - 1)
                 /\ (store[p].certs[f].made # 0 => store[p].certs[f].issuer \in 0..(cmd - 1))
        BY <1>3 DEF Ready, Numbered
    <2> QED BY <1>1, <2>1 DEF Older
<1>6. store[p].record.project \in 0..(cmd - 1) BY <1>3 DEF Ready, Numbered
<1> QED BY <1>1, <1>2, <1>4, <1>5, <1>6 DEF Ready, AbsentForgets, AllSound, ProfilesTypeOK

\* A command that leaves the certificates, one that writes them, and one that is cut there.
LEMMA KeepsCerts ==
    ASSUME ProfilesAssumption, Ready, NEW p \in Names,
           applied' = applied, mingled => mingled'
    PROVE  Certifies(p, store[p].certs)
<1>1. applied' = FALSE /\ Older(store[p].certs) /\ store[p].certs \in Certificates
    BY ReadyFacts
<1>2. ~mingled' => Sound(store[p].certs) BY ReadyFacts
<1>3. ASSUME NEW f \in CertFile
      PROVE  LET pair == store[p].certs[f] IN
             pair.made \in 0..cmd /\ (pair.made # 0 => pair.issuer \in 0..cmd)
    <2>1. store[p].certs[f] \in Pair BY <1>1 DEF Certificates
    <2>2. cmd \in 1..MaxCommands BY ReadyFacts
    <2> QED BY <2>1, <2>2, <1>1 DEF Older, Pair
<1> QED BY <1>1, <1>2, <1>3 DEF Certifies

LEMMA WritesCerts ==
    ASSUME ProfilesAssumption, Ready, NEW p \in Names,
           applied' \in BOOLEAN, mingled => mingled'
    PROVE  /\ Wanted(store[p].certs) \in Certificates
           /\ Certifies(p, Wanted(store[p].certs))
<1> DEFINE c == store[p].certs
           w == Wanted(c)
<1>1. c \in Certificates /\ Older(c) /\ cmd \in 1..MaxCommands /\ expired \in Nat
    BY ReadyFacts
<1>2. w \in Certificates BY <1>1, WantedTypes
<1>3. ASSUME ~mingled' PROVE Sound(w)
    <2>1. Sound(c) BY <1>3, ReadyFacts
    <2>2. Fitting(w) BY <1>1, <2>1, WantedFits
    <2> QED BY <2>2, FittingIsSound
<1>4. ASSUME NEW f \in CertFile
      PROVE  w[f].made \in 0..cmd /\ (w[f].made # 0 => w[f].issuer \in 0..cmd)
    <2>1. \A h \in CertFile : c[h] \in Pair BY <1>1 DEF Certificates
    <2>2. /\ CA(c).made \in 0..cmd /\ (CA(c).made # 0 => CA(c).issuer \in 0..cmd)
        <3>1. CA(c) \in {c[<<"ca", "cert">>], [made |-> cmd, issuer |-> cmd]} BY <1>1, WantedTypes
        <3> QED BY <1>1, <2>1, <3>1, CertFiles DEF Older, Pair
    <2>3. ASSUME NEW s \in Services
          PROVE  LET pair == ServicePair(c, s) IN
                 pair.made \in 0..cmd /\ (pair.made # 0 => pair.issuer \in 0..cmd)
        <3>1. ServicePair(c, s) \in {c[<<s, "cert">>], [made |-> cmd, issuer |-> CA(c).made]}
            BY <1>1, WantedTypes
        <3>2. /\ c[<<s, "cert">>].made \in 0..cmd
              /\ c[<<s, "cert">>].made # 0 => c[<<s, "cert">>].issuer \in 0..cmd
            <4>1. <<s, "cert">> \in CertFile BY CertFiles
            <4> DEFINE pair == c[<<s, "cert">>]
            <4>2. pair \in Pair /\ pair.made < cmd /\ (pair.made # 0 => pair.issuer < cmd)
                BY <1>1, <2>1, <4>1 DEF Older
            <4> HIDE DEF pair
            <4>3. pair.made \in 0..cmd /\ (pair.made # 0 => pair.issuer \in 0..cmd)
                BY <1>1, <4>2 DEF Pair
            <4> QED BY <4>3 DEF pair
        <3> HIDE DEF c
        <3> QED BY <1>1, <2>2, <3>1, <3>2
    <2>4. CASE f \in {<<"ca", "cert">>, <<"ca", "key">>} BY <2>4, <2>2, WantedFiles
    <2>5. CASE f \in Services \X {"cert", "key", "ca"}
        <3>1. PICK s \in Services, suffix \in {"cert", "key", "ca"} : f = <<s, suffix>> BY <2>5
        <3>2. w[f] \in {CA(c), ServicePair(c, s)} BY <3>1, WantedFiles
        <3> HIDE DEF w
        <3> QED BY <3>1, <3>2, <2>2, <2>3
    <2> QED BY <2>4, <2>5 DEF CertFile
<1> QED BY <1>2, <1>3, <1>4 DEF Certifies

LEMMA CutsCerts ==
    ASSUME ProfilesAssumption, Ready, NEW p \in Names,
           applied' = applied,
           NEW g \in CertFile, NEW torn \in BOOLEAN, NEW rest \in BOOLEAN,
           mingled' = (mingled \/ (rest /\ g = <<"ca", "key">>))
    PROVE  LET i == Interrupted(store[p].certs, Wanted(store[p].certs), WriteOrder, g, torn, rest) IN
           i \in Certificates /\ Certifies(p, i)
<1> DEFINE c == store[p].certs
           i == Interrupted(c, Wanted(c), WriteOrder, g, torn, rest)
<1>1. /\ c \in Certificates /\ Older(c) /\ cmd \in 1..MaxCommands /\ expired \in Nat
      /\ applied' = FALSE
    BY ReadyFacts
<1>2. MaxCommands \in Nat \ {0} BY <1>1 DEF ProfilesAssumption
<1>a. (mingled => mingled') /\ (~mingled' => ~mingled /\ ~(rest /\ g = <<"ca", "key">>))
    BY Zenon
<1>3. Wanted(c) \in Certificates BY <1>1, WantedTypes
<1>4. i \in Certificates BY <1>1, <1>2, <1>3, InterruptedTypes
<1>5. ASSUME ~mingled' PROVE Sound(i)
    <2>1. ~mingled /\ ~(rest /\ g = <<"ca", "key">>) BY <1>5, <1>a, Zenon
    <2>2. Sound(c) BY <2>1, ReadyFacts
    <2> QED BY <1>1, <2>1, <2>2, InterruptedSound
<1>6. ASSUME NEW f \in CertFile
      PROVE  i[f].made \in 0..cmd /\ (i[f].made # 0 => i[f].issuer \in 0..cmd)
    <2>1. i[f] \in {c[f], Wanted(c)[f], Torn} BY InterruptedFiles
    <2>2. Torn.made = 0 /\ 0 \in 0..cmd BY <1>1 DEF Torn
    <2>3. c[f].made \in 0..cmd /\ (c[f].made # 0 => c[f].issuer \in 0..cmd)
        BY <1>a, KeepsCerts DEF Certifies
    <2>4. Wanted(c)[f].made \in 0..cmd /\ (Wanted(c)[f].made # 0 => Wanted(c)[f].issuer \in 0..cmd)
        <3>1. applied' \in BOOLEAN BY <1>1
        <3> QED BY <3>1, <1>a, WritesCerts DEF Certifies
    <2> HIDE DEF i, c
    <2> QED BY <2>1, <2>2, <2>3, <2>4
<1> HIDE DEF i
<1>7. Certifies(p, i) BY <1>1, <1>5, <1>6, <1>a DEF Certifies
<1> QED BY <1>4, <1>7 DEF i

\* A command that leaves the record, perhaps deleting its project; one that replaces the
\* record; one that records the project it creates, and one that does not get there.
LEMMA KeepsRecord ==
    ASSUME ProfilesAssumption, Ready, NEW p \in Names, NEW m,
           m = "absent" => store[p].meta = "absent",
           projects' \subseteq projects, given \subseteq given', given' \subseteq 1..MaxCommands
    PROVE  Records(p, m, store[p].record)
<1> DEFINE n == store[p].record.project
           a == store[p].meta
<1>1. /\ cmd \in 1..MaxCommands /\ n \in 0..(cmd - 1)
      /\ projects \subseteq 1..(cmd - 1) /\ given \subseteq 1..MaxCommands
      /\ a = "absent" => n \notin projects \ given
    BY ReadyFacts
<1> HIDE DEF n, a
<1> QED BY <1>1 DEF Records, n, a

LEMMA DropsRecord ==
    ASSUME ProfilesAssumption, Ready, NEW p \in Names, NEW m, NEW r, r.project = 0,
           projects' = projects, given' = given \cup RecordedBy(p)
    PROVE  Records(p, m, r)
<1> DEFINE n == store[p].record.project
           a == store[p].meta
<1>1. /\ cmd \in 1..MaxCommands /\ n \in 0..(cmd - 1)
      /\ projects \subseteq 1..(cmd - 1) /\ given \subseteq 1..MaxCommands
      /\ a = "absent" => n \notin projects \ given
    BY ReadyFacts
<1> HIDE DEF n, a
<1>2. RecordedBy(p) = {n} \cap projects BY DEF RecordedBy, n
<1>3. given' \subseteq 1..MaxCommands BY <1>1, <1>2
<1>4. projects' \subseteq 0..cmd /\ 0 \notin projects' /\ r.project \in 0..cmd BY <1>1
<1>5. projects' \ given' \subseteq projects \ given /\ n \notin projects' \ given'
      /\ r.project \notin projects'
    BY <1>1, <1>2, <1>4
<1> QED BY <1>3, <1>4, <1>5 DEF Records, n

LEMMA RecordsProject ==
    ASSUME ProfilesAssumption, Ready, NEW p \in Names, NEW m, m # "absent", NEW r, r.project = cmd,
           store[p].record.project \notin projects,
           projects' = projects \cup {cmd}, given' = given
    PROVE  Records(p, m, r)
<1> DEFINE n == store[p].record.project
           a == store[p].meta
<1>1. /\ cmd \in 1..MaxCommands /\ n \in 0..(cmd - 1)
      /\ projects \subseteq 1..(cmd - 1) /\ given \subseteq 1..MaxCommands
      /\ a = "absent" => n \notin projects \ given
    BY ReadyFacts
<1> HIDE DEF n, a
<1>2. /\ projects' \subseteq 0..cmd /\ 0 \notin projects' /\ cmd \in 0..cmd
      /\ given' \subseteq 1..MaxCommands
    <2>1. cmd \in Int /\ cmd >= 1 /\ cmd \in 0..cmd BY <1>1
    <2>2. \A x \in projects : x \in 0..cmd /\ x # 0 BY <1>1, <2>1
    <2>3. projects' = projects \cup {cmd} /\ given' = given OBVIOUS
    <2>4. \A x \in projects' : x \in 0..cmd /\ x # 0 BY <2>1, <2>2, <2>3
    <2>5. given' \subseteq 1..MaxCommands BY <1>1, <2>3
    <2> QED BY <2>1, <2>4, <2>5, Zenon
<1>3. n \notin projects' \ given' BY <1>1 DEF n
<1>4. projects' \ given' \subseteq (projects \ given) \cup {cmd} OBVIOUS
<1> QED BY <1>2, <1>3, <1>4 DEF Records, n

LEMMA LosesProject ==
    ASSUME ProfilesAssumption, Ready, NEW p \in Names, NEW m, m # "absent", NEW r,
           r.project \in {0, store[p].record.project},
           store[p].record.project \notin projects,
           projects' = projects \cup {cmd}, given' = given \cup {cmd}
    PROVE  Records(p, m, r)
<1> DEFINE n == store[p].record.project
           a == store[p].meta
<1>1. /\ cmd \in 1..MaxCommands /\ n \in 0..(cmd - 1)
      /\ projects \subseteq 1..(cmd - 1) /\ given \subseteq 1..MaxCommands
      /\ a = "absent" => n \notin projects \ given
    BY ReadyFacts
<1> HIDE DEF n, a
<1> QED BY <1>1 DEF Records, n

LEMMA ProfileCommandEnds ==
    ASSUME ProfilesAssumption, ProfilesTypeOK, Ends \/ Refused \/ Cut
    PROVE  stage' = "idle" /\ ok' \in BOOLEAN /\ cuts' \in 0..MaxCuts
<1>1. cuts \in 0..MaxCuts /\ MaxCuts \in Nat BY DEF ProfilesTypeOK, ProfilesAssumption
<1>2. CASE Ends BY <1>1, <1>2 DEF Ends
<1>3. CASE Refused BY <1>1, <1>3 DEF Refused
<1>4. CASE Cut
    <2>1. cuts \in Nat /\ cuts < MaxCuts /\ cuts' = cuts + 1 /\ stage' = "idle" /\ ok' = FALSE
        BY <1>1, <1>4 DEF Cut
    <2>2. cuts' \in 0..MaxCuts BY <1>1, <2>1
    <2> QED BY <2>1, <2>2
<1> QED BY <1>2, <1>3, <1>4

LEMMA CommandReturns ==
    ASSUME ProfilesAssumption, Ready, NEW p \in Names, Ends \/ Refused \/ Cut,
           target' = p, UNCHANGED <<cmd, expired, loose, mingled>>,
           containers' \in [Names -> SUBSET Services],
           home' = home
    PROVE  Returned(p)
<1>1. stage' = "idle" /\ ok' \in BOOLEAN /\ cuts' \in 0..MaxCuts
    BY ProfileCommandEnds DEF Ready
<1>2. home \in [root : {home.root}, current : Names \cup {"absent", "corrupt"}, version : {home.version}]
    BY DEF Ready, ProfilesTypeOK
<1>3. loose \in BOOLEAN /\ mingled \in BOOLEAN BY DEF Ready, ProfilesTypeOK
<1> QED BY <1>1, <1>2, <1>3 DEF Returned

\* The services of a profile are some of those there are.
LEMMA ComposeTypes ==
    ASSUME ProfilesTypeOK, NEW p \in Names, NEW up \in SUBSET Services
    PROVE  [containers EXCEPT ![p] = up] \in [Names -> SUBSET Services]
BY DEF ProfilesTypeOK

\* What a command of a stack does.
Boots(p) ==
    /\ \E r, c : Effect(p, store[p].meta, r, c)
    /\ home' = home /\ loose' = loose

\* One that writes nothing, and one that fails.
LEMMA NothingWritten ==
    ASSUME ProfilesAssumption, Ready, NEW p \in Names, Returned(p), home' = home,
           UNCHANGED <<store, applied, given, mingled, loose>>, projects' \subseteq projects
    PROVE  Boots(p)
<1>1. Puts(p, store[p].meta, store[p].record, store[p].certs)
    <2>1. ProfilesTypeOK BY DEF Ready
    <2> QED BY <2>1, PutsNothing
<1>2. Certifies(p, store[p].certs) BY KeepsCerts
<1>3. given' \subseteq 1..MaxCommands BY ReadyFacts
<1>4. Records(p, store[p].meta, store[p].record) BY <1>3, KeepsRecord
<1> QED BY <1>1, <1>2, <1>4 DEF Boots, Effect

LEMMA FailsBoots ==
    ASSUME ProfilesAssumption, Ready, NEW p \in Names, ProfileCommandFails,
           target' = p, UNCHANGED <<home, expired, cmd, loose>>
    PROVE  Boots(p)
<1>1. containers \in [Names -> SUBSET Services] BY DEF Ready, ProfilesTypeOK
<1>2. Returned(p) BY <1>1, CommandReturns DEF ProfileCommandFails
<1> QED BY <1>2, NothingWritten DEF ProfileCommandFails

\* One that is cut among the certificates.
LEMMA ApplyFailsBoots ==
    ASSUME ProfilesAssumption, Ready, NEW p \in Names, ApplyFails(p),
           target' = p, UNCHANGED <<home, expired, cmd, loose>>
    PROVE  Boots(p)
<1>1. containers \in [Names -> SUBSET Services] /\ ProfilesTypeOK BY DEF Ready, ProfilesTypeOK
<1>3. PICK g \in CertFile, torn \in BOOLEAN, rest \in BOOLEAN :
          /\ store' = [store EXCEPT ![p].certs =
                          Interrupted(store[p].certs, Wanted(store[p].certs), WriteOrder, g, torn, rest)]
          /\ mingled' = (mingled \/ (rest /\ g = <<"ca", "key">>))
    BY <1>1 DEF ApplyFails, ProfilesTypeOK
<1>2. Returned(p)
    <2>1. stage' = "idle" /\ ok' \in BOOLEAN /\ cuts' \in 0..MaxCuts
        BY <1>1, ProfileCommandEnds DEF ApplyFails
    <2>2. home \in [root : {home.root}, current : Names \cup {"absent", "corrupt"},
                    version : {home.version}]
        BY <1>1 DEF ProfilesTypeOK
    <2>3. loose' \in BOOLEAN BY <1>1 DEF ProfilesTypeOK
    <2>4. mingled' \in BOOLEAN BY <1>3, Zenon
    <2>5. containers' \in [Names -> SUBSET Services] BY <1>1 DEF ApplyFails
    <2> QED BY <2>1, <2>2, <2>3, <2>4, <2>5 DEF Returned
<1> DEFINE i == Interrupted(store[p].certs, Wanted(store[p].certs), WriteOrder, g, torn, rest)
<1>4. i \in Certificates /\ Certifies(p, i) BY <1>3, CutsCerts DEF ApplyFails
<1>5. store' = [store EXCEPT ![p].certs = i] BY <1>3
<1> HIDE DEF i
<1>6. Puts(p, store[p].meta, store[p].record, i) BY <1>1, <1>4, <1>5, PutsCerts
<1>7. given' \subseteq 1..MaxCommands BY ReadyFacts DEF ApplyFails
<1>8. Records(p, store[p].meta, store[p].record) BY <1>7, KeepsRecord DEF ApplyFails
<1> QED BY <1>2, <1>4, <1>6, <1>8 DEF Boots, Effect

\* One that writes them all, and perhaps the record.
LEMMA AppliesBoots ==
    ASSUME ProfilesAssumption, Ready, NEW p \in Names, Returned(p), NEW r \in Record,
           applied' \in BOOLEAN, UNCHANGED <<home, loose, mingled>>,
           store' = [store EXCEPT ![p].record = r, ![p].certs = Wanted(store[p].certs)],
           Records(p, store[p].meta, r)
    PROVE  Boots(p)
<1> DEFINE w == Wanted(store[p].certs)
<1>1. ProfilesTypeOK BY DEF Ready
<1>2. w \in Certificates /\ Certifies(p, w) BY WritesCerts
<1>3. store' = [store EXCEPT ![p].record = r, ![p].certs = w] OBVIOUS
<1> HIDE DEF w
<1>4. Puts(p, store[p].meta, r, w) BY <1>1, <1>2, <1>3, PutsBoth
<1> QED BY <1>2, <1>4 DEF Boots, Effect

LEMMA AppliesOnlyBoots ==
    ASSUME ProfilesAssumption, Ready, NEW p \in Names, Returned(p),
           ApplyResources(p) \/ (store' = [store EXCEPT ![p].certs = Wanted(store[p].certs)] /\ applied' = TRUE),
           UNCHANGED <<home, loose, mingled, projects, given>>
    PROVE  Boots(p)
<1> DEFINE w == Wanted(store[p].certs)
<1>1. ProfilesTypeOK /\ store \in [Names -> Directory] BY DEF Ready, ProfilesTypeOK
<1>2. applied' \in BOOLEAN BY DEF ApplyResources
<1>3. w \in Certificates /\ Certifies(p, w) BY <1>2, WritesCerts
<1>4. store' = [store EXCEPT ![p].certs = w] BY <1>1 DEF ApplyResources
<1> HIDE DEF w
<1>5. Puts(p, store[p].meta, store[p].record, w) BY <1>1, <1>3, <1>4, PutsCerts
<1>6. given' \subseteq 1..MaxCommands BY ReadyFacts
<1>7. Records(p, store[p].meta, store[p].record) BY <1>6, KeepsRecord
<1> QED BY <1>3, <1>5, <1>7 DEF Boots, Effect

LEMMA UpdateBoots ==
    ASSUME ProfilesAssumption, Ready, NEW p \in Names, Update(p)
    PROVE  Boots(p)
<1>1. target' = p /\ UNCHANGED <<home, expired, cmd, loose>> BY DEF Update
<1>2. CASE ProfileCommandFails BY <1>1, <1>2, FailsBoots
<1>3. CASE ApplyFails(p) BY <1>1, <1>3, ApplyFailsBoots
<1>4. CASE ApplyResources(p) /\ (Ends \/ Cut) /\ UNCHANGED <<containers, projects, given, mingled>>
    <2>1. containers \in [Names -> SUBSET Services] BY DEF Ready, ProfilesTypeOK
    <2>2. Returned(p) BY <1>1, <1>4, <2>1, CommandReturns
    <2> QED BY <1>1, <1>4, <2>2, AppliesOnlyBoots
<1> QED BY <1>2, <1>3, <1>4 DEF Update

LEMMA DownBoots ==
    ASSUME ProfilesAssumption, Ready, NEW p \in Names, Down(p)
    PROVE  Boots(p)
<1>1. target' = p /\ UNCHANGED <<home, expired, cmd, loose, mingled>> BY DEF Down
<1>2. CASE ProfileCommandFails BY <1>1, <1>2, FailsBoots
<1>3. ASSUME TearDownCompose(p) \/ TearDownServerless(p), UNCHANGED <<store, applied, given>>
      PROVE  Boots(p)
    <2>1. containers \in [Names -> SUBSET Services] BY DEF Ready, ProfilesTypeOK
    <2>2. PICK left \in SUBSET Services : containers' = [containers EXCEPT ![p] = left]
        BY <1>3, <2>1 DEF TearDownCompose, TearDownServerless, ComposeUp
    <2>3. containers' \in [Names -> SUBSET Services] BY <2>1, <2>2
    <2>4. Ends \/ Refused \/ Cut BY <1>3 DEF TearDownCompose, TearDownServerless
    <2>5. projects' \subseteq projects BY <1>3 DEF TearDownCompose, TearDownServerless
    <2>6. Returned(p) BY <1>1, <2>3, <2>4, CommandReturns
    <2> QED BY <1>1, <1>3, <2>5, <2>6, NothingWritten
<1> QED BY <1>2, <1>3 DEF Down

LEMMA LocalServices ==
    ASSUME ProfilesAssumption, Ready, NEW p \in Names, StartLocalServices(p)
    PROVE  containers' \in [Names -> SUBSET Services] /\ (Ends \/ Cut)
<1>1. Agent \in Services BY DEF Agent, ProfilesAssumption
<1>2. containers \in [Names -> SUBSET Services] BY DEF Ready, ProfilesTypeOK
<1>3. PICK left \in SUBSET {Agent} : containers' = [containers EXCEPT ![p] = (containers[p] \ {Agent}) \cup left]
    BY DEF StartLocalServices, ComposeUp
<1>4. (containers[p] \ {Agent}) \cup left \in SUBSET Services BY <1>1, <1>2
<1> QED BY <1>2, <1>3, <1>4 DEF StartLocalServices

LEMMA ComposeBoots ==
    ASSUME ProfilesAssumption, Ready, NEW p \in Names, BootUpCompose(p),
           target' = p, UNCHANGED <<home, expired, cmd, loose>>
    PROVE  Boots(p)
<1> DEFINE w == Wanted(store[p].certs)
           r == [provider |-> "compose", project |-> 0]
<1>1. containers \in [Names -> SUBSET Services] /\ ProfilesTypeOK BY DEF Ready, ProfilesTypeOK
<1>2. CASE ApplyFails(p) BY <1>2, ApplyFailsBoots
<1>3. CASE ApplyResources(p) /\ Cut /\ UNCHANGED <<containers, projects, given, mingled>>
    <2>1. Returned(p) BY <1>1, <1>3, CommandReturns
    <2> QED BY <1>3, <2>1, AppliesOnlyBoots
<1>4. ASSUME NEW left \in SUBSET Services, ApplyResources(p), Cut, ComposeUp(p, left),
             UNCHANGED <<projects, given, mingled>>
      PROVE  Boots(p)
    <2>1. containers' \in [Names -> SUBSET Services] BY <1>1, <1>4, ComposeTypes DEF ComposeUp
    <2>2. Returned(p) BY <1>4, <2>1, CommandReturns
    <2> QED BY <1>4, <2>2, AppliesOnlyBoots
<1>5. ASSUME applied' = TRUE, ComposeUp(p, Services), StoreRecord(p, r, w),
             given' = given \cup RecordedBy(p),
             UNCHANGED <<projects, mingled>>
      PROVE  Boots(p)
    <2>1. containers' \in [Names -> SUBSET Services] BY <1>1, <1>5, ComposeTypes DEF ComposeUp
    <2>2. Returned(p) BY <1>5, <2>1, CommandReturns DEF StoreRecord
    <2>3. r \in Record /\ Corrupt \in Record BY DEF Record, Corrupt, ProfilesAssumption
    <2>4. CASE store' = [store EXCEPT ![p].record = r, ![p].certs = w]
        <3>1. Records(p, store[p].meta, r) BY <1>5, DropsRecord
        <3>2. applied' \in BOOLEAN BY <1>5
        <3> QED BY <1>5, <2>2, <2>3, <2>4, <3>1, <3>2, AppliesBoots
    <2>5. CASE store' = [store EXCEPT ![p].certs = w]
        <3>1. w \in Certificates /\ Certifies(p, w)
            <4>1. applied' \in BOOLEAN BY <1>5
            <4> QED BY <1>5, <4>1, WritesCerts
        <3>2. Puts(p, store[p].meta, store[p].record, w) BY <1>1, <2>5, <3>1, PutsCerts
        <3>3. given' \subseteq 1..MaxCommands
            <4>1. projects \subseteq 1..MaxCommands /\ given \subseteq 1..MaxCommands BY <1>1 DEF ProfilesTypeOK
            <4> QED BY <1>5, <4>1 DEF RecordedBy
        <3>4. Records(p, store[p].meta, store[p].record) BY <1>5, <3>3, KeepsRecord
        <3> HIDE DEF w
        <3> QED BY <2>2, <3>1, <3>2, <3>4 DEF Boots, Effect
    <2>6. CASE store' = [store EXCEPT ![p].record = Corrupt, ![p].certs = w]
        <3>1. Corrupt.project = 0 BY DEF Corrupt
        <3>2. Records(p, store[p].meta, Corrupt) BY <1>5, <3>1, DropsRecord
        <3>3. applied' \in BOOLEAN BY <1>5
        <3> QED BY <1>5, <2>2, <2>3, <2>6, <3>2, <3>3, AppliesBoots
    <2> QED BY <1>5, <2>4, <2>5, <2>6 DEF StoreRecord
<1> QED BY <1>2, <1>3, <1>4, <1>5 DEF BootUpCompose

LEMMA UseProjectBoots ==
    ASSUME ProfilesAssumption, Ready, NEW p \in Names, UseProject(p),
           target' = p, UNCHANGED <<home, expired, cmd, loose>>
    PROVE  Boots(p)
<1>1. CASE ApplyFails(p) BY <1>1, ApplyFailsBoots
<1>2. CASE ApplyResources(p) /\ StartLocalServices(p) /\ UNCHANGED <<projects, given, mingled>>
    <2>1. Returned(p) BY <1>2, LocalServices, CommandReturns
    <2> QED BY <1>2, <2>1, AppliesOnlyBoots
<1> QED BY <1>1, <1>2 DEF UseProject

\* Here what is there already is not asked for: the profile loads.
LEMMA CreateProjectBoots ==
    ASSUME ProfilesAssumption, Ready, NEW p \in Names, CreateProject(p), Loads(p),
           target' = p, UNCHANGED <<home, expired, cmd, loose>>
    PROVE  Boots(p)
<1> DEFINE r == [provider |-> "serverless", project |-> cmd]
           m == store[p].meta
           n == store[p].record.project
<1>1. containers \in [Names -> SUBSET Services] /\ ProfilesTypeOK BY DEF Ready, ProfilesTypeOK
<1>2. m # "absent" BY DEF Loads
<1>3. r \in Record /\ r.project = cmd /\ Corrupt \in Record /\ Corrupt.project = 0
    <2>0. cmd \in 1..MaxCommands BY ReadyFacts
    <2>1. cmd \in 0..MaxCommands /\ 0 \in 0..MaxCommands BY <2>0
    <2> QED BY <2>1 DEF Record, Corrupt
<1>4. n \notin projects /\ UNCHANGED mingled BY DEF CreateProject
<1>5. CASE Cut /\ UNCHANGED <<store, containers, projects, applied, given>>
    <2>1. Returned(p) BY <1>1, <1>4, <1>5, CommandReturns
    <2> QED BY <1>4, <1>5, <2>1, NothingWritten
<1>6. CASE /\ Cut /\ projects' = projects \cup {cmd} /\ given' = given \cup {cmd}
           /\ store' \in {store, [store EXCEPT ![p].record = Corrupt]}
           /\ UNCHANGED <<containers, applied>>
    <2>1. Returned(p) BY <1>1, <1>4, <1>6, CommandReturns
    <2>2. Certifies(p, store[p].certs) BY <1>4, <1>6, KeepsCerts
    <2>3. Records(p, m, store[p].record) /\ Records(p, m, Corrupt)
        BY <1>2, <1>3, <1>4, <1>6, LosesProject
    <2>4. CASE store' = store
        <3>1. Puts(p, m, store[p].record, store[p].certs) BY <1>1, <2>4, PutsNothing
        <3> QED BY <2>1, <2>2, <2>3, <3>1 DEF Boots, Effect
    <2>5. CASE store' = [store EXCEPT ![p].record = Corrupt]
        <3>1. Puts(p, m, Corrupt, store[p].certs) BY <1>1, <1>3, <2>5, PutsRecord
        <3> QED BY <2>1, <2>2, <2>3, <3>1 DEF Boots, Effect
    <2> QED BY <1>6, <2>4, <2>5
<1>7. CASE /\ Cut /\ store' = [store EXCEPT ![p].record = r]
           /\ UNCHANGED <<containers, applied>>
           /\ projects' = projects \cup {cmd} /\ UNCHANGED given
    <2>1. Returned(p) BY <1>1, <1>4, <1>7, CommandReturns
    <2>2. Certifies(p, store[p].certs) BY <1>4, <1>7, KeepsCerts
    <2>3. Records(p, m, r) BY <1>2, <1>3, <1>4, <1>7, RecordsProject
    <2>4. Puts(p, m, r, store[p].certs) BY <1>1, <1>3, <1>7, PutsRecord
    <2> HIDE DEF r
    <2> QED BY <2>1, <2>2, <2>3, <2>4 DEF Boots, Effect
<1>8. CASE /\ store' = [store EXCEPT ![p].record = r, ![p].certs = Wanted(@)]
           /\ StartLocalServices(p) /\ applied' = TRUE
           /\ projects' = projects \cup {cmd} /\ UNCHANGED given
    <2>1. Returned(p) BY <1>4, <1>8, LocalServices, CommandReturns
    <2>2. Records(p, m, r) BY <1>2, <1>3, <1>4, <1>8, RecordsProject
    <2>3. store' = [store EXCEPT ![p].record = r, ![p].certs = Wanted(store[p].certs)]
        BY <1>1, <1>8 DEF ProfilesTypeOK, Directory
    <2>4. applied' \in BOOLEAN BY <1>8
    <2> QED BY <1>3, <1>4, <2>1, <2>2, <2>3, <2>4, AppliesBoots
<1> QED BY <1>5, <1>6, <1>7, <1>8 DEF CreateProject

LEMMA UpBoots ==
    ASSUME ProfilesAssumption, Ready, NEW p \in Names, NEW flag, Up(p, flag)
    PROVE  Boots(p)
<1>1. target' = p /\ UNCHANGED <<home, expired, cmd, loose>> BY DEF Up
<1>2. CASE ProfileCommandFails BY <1>1, <1>2, FailsBoots
<1>3. CASE BootUpCompose(p) BY <1>1, <1>3, ComposeBoots
<1>4. CASE UseProject(p) BY <1>1, <1>4, UseProjectBoots
<1>5. CASE CreateProject(p) /\ Loads(p) BY <1>1, <1>5, CreateProjectBoots
<1> QED BY <1>2, <1>3, <1>4, <1>5 DEF Up

-----------------------------------------------------------------------------
\* Certificates that are copied, to the end or cut anywhere.
LEMMA CopiesCerts ==
    ASSUME ProfilesAssumption, Ready, NEW p \in Names, NEW from \in Names,
           applied' = applied, mingled => mingled',
           ~mingled' => NoCerts \in {store[p].certs, store[from].certs},
           NEW g \in CertFile, NEW torn \in BOOLEAN
    PROVE  LET new == CopiedCerts(p, from)
               i == Interrupted(store[p].certs, new, CopyOrder, g, torn, FALSE)
           IN  /\ new \in Certificates /\ Certifies(p, new)
               /\ i \in Certificates /\ Certifies(p, i)
<1> DEFINE d == store[p].certs
           e == store[from].certs
           new == CopiedCerts(p, from)
           i == Interrupted(d, new, CopyOrder, g, torn, FALSE)
           Given(c) == \A f \in CertFile :
                           c[f].made \in 0..cmd /\ (c[f].made # 0 => c[f].issuer \in 0..cmd)
<1>1. /\ d \in Certificates /\ e \in Certificates /\ cmd \in 1..MaxCommands
      /\ applied' = FALSE
    BY ReadyFacts
<1>2. ASSUME NEW q \in Names PROVE Given(store[q].certs)
    <2>1. Past = 0..(cmd - 1) BY <1>1 DEF Past, Ready
    <2> QED BY <1>1, <2>1 DEF Ready, Numbered
<1>3. MaxCommands \in Nat \ {0} BY <1>1 DEF ProfilesAssumption
<1>4. \A f \in CertFile : new[f] \in {d[f], e[f]} BY DEF CopiedCerts
<1>5. new = [f \in CertFile |-> new[f]] BY DEF CopiedCerts
<1>6. new \in Certificates
    <2> HIDE DEF new, d, e
    <2> QED BY <1>1, <1>4, <1>5 DEF Certificates
<1>7. i \in Certificates BY <1>1, <1>3, <1>6, InterruptedTypes
<1>8. \A f \in CertFile : i[f] \in {d[f], new[f], Torn} BY InterruptedFiles
<1>9. Given(d) /\ Given(e) BY <1>2
<1>10. Given(new)
    <2> HIDE DEF new, d, e
    <2> QED BY <1>4, <1>9
<1>11. Given(i)
    <2>1. Torn.made = 0 /\ 0 \in 0..cmd BY <1>1 DEF Torn
    <2> HIDE DEF i, new, d, e
    <2> QED BY <1>8, <1>9, <1>10, <2>1
<1>12. ASSUME ~mingled' PROVE Sound(new) /\ Sound(i)
    <2>1. Sound(d) /\ Sound(e) BY <1>12, ReadyFacts
    <2> QED BY <1>1, <1>12, <2>1, CopiedSound
<1> HIDE DEF new, i
<1>13. Certifies(p, new) /\ Certifies(p, i) BY <1>1, <1>10, <1>11, <1>12 DEF Certifies
<1> QED BY <1>6, <1>7, <1>13 DEF new, i

\* A profile that is created records what was there or what it was copied from.
LEMMA CreatesRecord ==
    ASSUME ProfilesAssumption, Ready, NEW p \in Names, store[p].meta = "absent", NEW m, NEW r,
           m = "absent" => r = store[p].record,
           r.project = 0 \/ \E q \in Names : r.project = store[q].record.project,
           UNCHANGED <<projects, given>>
    PROVE  Records(p, m, r)
<1> DEFINE n == store[p].record.project
<1>1. /\ cmd \in 1..MaxCommands /\ n \in 0..(cmd - 1)
      /\ projects \subseteq 1..(cmd - 1) /\ given \subseteq 1..MaxCommands
      /\ n \notin projects \ given
    BY ReadyFacts
<1>2. r.project \in 0..cmd
    <2>1. ASSUME NEW q \in Names PROVE store[q].record.project \in 0..(cmd - 1) BY ReadyFacts
    <2> QED BY <1>1, <2>1
<1>3. projects' \subseteq 0..cmd /\ 0 \notin projects' BY <1>1
<1>4. m = "absent" => r.project = n OBVIOUS
<1> HIDE DEF n
<1> QED BY <1>1, <1>2, <1>3, <1>4 DEF Records, n

Creates(p) ==
    /\ \E m, r, c : Effect(p, m, r, c)
    /\ home' = home /\ loose' = loose
    /\ store'[p].meta = store[p].meta \/ store[p].meta = "absent"

\* The record of a boot that was cut.
LEMMA CorruptRecord == ASSUME ProfilesAssumption PROVE Corrupt \in Record /\ Corrupt.project = 0
<1>1. 0 \in 0..MaxCommands BY DEF ProfilesAssumption
<1> QED BY <1>1 DEF Corrupt, Record

\* What a copy, to the end or cut, puts in the directory.
LEMMA CopyPuts ==
    ASSUME ProfilesTypeOK, NEW p \in Names, NEW from \in Names,
           \/ store' = [store EXCEPT ![p] = [Copied(p, from) EXCEPT !.meta = p]]
           \/ store' = [store EXCEPT ![p] = Copied(p, from)]
           \/ store' = [store EXCEPT ![p] = [Copied(p, from) EXCEPT !.meta = "corrupt"]]
           \/ \E d \in CopiedPartly(p, from) : store' = [store EXCEPT ![p] = d]
    PROVE  LET m0 == store[p].meta
               r0 == store[p].record
               c0 == store[p].certs
               m1 == store[from].meta
               r1 == IF store[from].record # NoRecord THEN store[from].record ELSE r0
               new == CopiedCerts(p, from)
               i(g, torn) == Interrupted(c0, new, CopyOrder, g, torn, FALSE)
               put(m, r, c) == [store EXCEPT ![p] = [meta |-> m, record |-> r, certs |-> c]]
           IN  \/ \E m \in {p, m1, "corrupt"} : store' = put(m, r1, new)
               \/ \E g \in CertFile, torn \in BOOLEAN : store' = put(m0, r0, i(g, torn))
               \/ \E m \in {m0, "corrupt"} : store' = put(m, r0, new)
               \/ \E r \in {r0, Corrupt} : store' = put(m1, r, new)
<1> DEFINE m0 == store[p].meta
           r0 == store[p].record
           c0 == store[p].certs
           m1 == store[from].meta
           r1 == IF store[from].record # NoRecord THEN store[from].record ELSE r0
           new == CopiedCerts(p, from)
           i(g, torn) == Interrupted(c0, new, CopyOrder, g, torn, FALSE)
           put(m, r, c) == [store EXCEPT ![p] = [meta |-> m, record |-> r, certs |-> c]]
<1> SUFFICES \/ \E m \in {p, m1, "corrupt"} : store' = put(m, r1, new)
             \/ \E g \in CertFile, torn \in BOOLEAN : store' = put(m0, r0, i(g, torn))
             \/ \E m \in {m0, "corrupt"} : store' = put(m, r0, new)
             \/ \E r \in {r0, Corrupt} : store' = put(m1, r, new)
    OBVIOUS
<1>A. Copied(p, from) = [meta |-> m1, record |-> r1, certs |-> new] BY DEF Copied
<1>B. store[p] = [meta |-> m0, record |-> r0, certs |-> c0] BY DirectoryParts
<1>2. ASSUME NEW d \in CopiedPartly(p, from)
      PROVE  \/ \E g \in CertFile, torn \in BOOLEAN :
                   d = [store[p] EXCEPT !.certs = i(g, torn)]
             \/ \E m \in {m0, "corrupt"} : d = [meta |-> m, record |-> r0, certs |-> new]
             \/ \E r \in {r0, Corrupt} : d = [Copied(p, from) EXCEPT !.record = r]
    <2> DEFINE A == {[store[p] EXCEPT !.certs = Interrupted(c0, new, CopyOrder, g, torn, FALSE)] :
                         g \in CertFile, torn \in BOOLEAN}
               B == {[meta |-> m, record |-> r0, certs |-> new] : m \in {m0, "corrupt"}}
               C == {[Copied(p, from) EXCEPT !.record = r] : r \in {r0, Corrupt}}
    <2>1. CopiedPartly(p, from) = (A \cup B) \cup C BY DEF CopiedPartly
    <2>2. ASSUME d \in A
          PROVE  \E g \in CertFile, torn \in BOOLEAN : d = [store[p] EXCEPT !.certs = i(g, torn)]
        <3> DEFINE e(g, torn) == [store[p] EXCEPT !.certs = i(g, torn)]
        <3>1. A = {e(g, torn) : g \in CertFile, torn \in BOOLEAN} OBVIOUS
        <3> HIDE DEF A, e
        <3>2. \E g \in CertFile, torn \in BOOLEAN : d = e(g, torn) BY <2>2, <3>1
        <3> QED BY <3>2 DEF e
    <2>3. ASSUME d \in B PROVE \E m \in {m0, "corrupt"} : d = [meta |-> m, record |-> r0, certs |-> new]
        <3> HIDE DEF m0, r0, new
        <3> QED BY <2>3
    <2>4. ASSUME d \in C PROVE \E r \in {r0, Corrupt} : d = [Copied(p, from) EXCEPT !.record = r]
        <3> HIDE DEF r0
        <3> QED BY <2>4
    <2>5. d \in A \/ d \in B \/ d \in C
        <3> HIDE DEF A, B, C
        <3> QED BY <1>2, <2>1
    <2> HIDE DEF A, B, C
    <2> QED BY <2>2, <2>3, <2>4, <2>5, Zenon
<1> HIDE DEF m0, r0, c0, m1, r1, new, i
<1>3. \A m : [Copied(p, from) EXCEPT !.meta = m] = [meta |-> m, record |-> r1, certs |-> new]
    <2>1. \A m : [[meta |-> m1, record |-> r1, certs |-> new] EXCEPT !.meta = m]
                     = [meta |-> m, record |-> r1, certs |-> new]
        OBVIOUS
    <2> QED BY <1>A, <1>B, <2>1, Zenon
<1>4. \A c : [store[p] EXCEPT !.certs = c] = [meta |-> m0, record |-> r0, certs |-> c]
    <2>1. \A c : [[meta |-> m0, record |-> r0, certs |-> c0] EXCEPT !.certs = c]
                     = [meta |-> m0, record |-> r0, certs |-> c]
        OBVIOUS
    <2> QED BY <1>B, <2>1, Zenon
<1>5. \A r : [Copied(p, from) EXCEPT !.record = r] = [meta |-> m1, record |-> r, certs |-> new]
    <2>1. \A r : [[meta |-> m1, record |-> r1, certs |-> new] EXCEPT !.record = r]
                     = [meta |-> m1, record |-> r, certs |-> new]
        OBVIOUS
    <2> QED BY <1>A, <2>1, Zenon
<1>6. CASE store' = [store EXCEPT ![p] = [Copied(p, from) EXCEPT !.meta = p]]
    BY <1>3, <1>6, Zenon
<1>7. CASE store' = [store EXCEPT ![p] = Copied(p, from)] BY <1>A, <1>7
<1>8. CASE store' = [store EXCEPT ![p] = [Copied(p, from) EXCEPT !.meta = "corrupt"]]
    BY <1>3, <1>8, Zenon
<1>9. ASSUME NEW d \in CopiedPartly(p, from), store' = [store EXCEPT ![p] = d]
      PROVE  \/ \E g \in CertFile, torn \in BOOLEAN : store' = put(m0, r0, i(g, torn))
             \/ \E m \in {m0, "corrupt"} : store' = put(m, r0, new)
             \/ \E r \in {r0, Corrupt} : store' = put(m1, r, new)
    <2>1. CASE \E g \in CertFile, torn \in BOOLEAN :
                   d = [store[p] EXCEPT !.certs = i(g, torn)]
        BY <2>1, <1>9, <1>4, Zenon
    <2>2. CASE \E m \in {m0, "corrupt"} : d = [meta |-> m, record |-> r0, certs |-> new]
        BY <2>2, <1>9, <1>3, Zenon
    <2>3. CASE \E r \in {r0, Corrupt} : d = [Copied(p, from) EXCEPT !.record = r]
        BY <2>3, <1>9, <1>5, Zenon
    <2> QED BY <1>2, <2>1, <2>2, <2>3
<1> QED BY <1>6, <1>7, <1>8, <1>9

LEMMA CreateEffect ==
    ASSUME ProfilesAssumption, Ready, NEW p \in Names, NEW from \in Names \cup {""}, Create(p, from)
    PROVE  Creates(p)
<1> DEFINE copies == from \notin {"", "default"}
           copied == IF copies THEN Copied(p, from) ELSE store[p]
           refuses == store[p].meta # "absent" \/ (copies /\ ~Loads(from))
<1>1. ProfilesTypeOK /\ containers \in [Names -> SUBSET Services] /\ store \in [Names -> Directory]
    BY DEF Ready, ProfilesTypeOK
<1>2. /\ target' = p /\ UNCHANGED <<home, containers, projects, expired, cmd, applied, loose, given>>
    BY DEF Create
<1>3. CASE refuses
    <2>1. Refused /\ UNCHANGED <<store, mingled>> BY <1>3 DEF Create
    <2>2. Returned(p) BY <1>1, <1>2, <2>1, CommandReturns
    <2>3. Boots(p) BY <1>2, <2>1, <2>2, NothingWritten
    <2> QED BY <2>1, <2>3, <1>2 DEF Boots, Creates
<1>4. CASE ~refuses
    <2>1. store[p].meta = "absent" /\ (copies => Loads(from)) BY <1>4
    <2>2. mingled' = (mingled \/ (copies /\ NoCerts \notin {store[p].certs, store[from].certs}))
        BY <1>4 DEF Create
    <2>3. mingled' \in BOOLEAN /\ (mingled => mingled') BY <2>2, <1>1, Zenon DEF ProfilesTypeOK
    <2>4. Ends \/ Cut BY <1>4 DEF Create
    <2>5. Returned(p)
        <3>1. stage' = "idle" /\ ok' \in BOOLEAN /\ cuts' \in 0..MaxCuts
            BY <1>1, <2>4, ProfileCommandEnds
        <3>2. home \in [root : {home.root}, current : Names \cup {"absent", "corrupt"}, version : {home.version}]
            BY <1>1 DEF ProfilesTypeOK
        <3>3. loose \in BOOLEAN BY <1>1 DEF ProfilesTypeOK
        <3> QED BY <1>1, <1>2, <2>3, <3>1, <3>2, <3>3 DEF Returned
    <2>6. ASSUME NEW m \in Names \cup {"absent", "corrupt"}, NEW r \in Record, NEW c \in Certificates,
                 store' = [store EXCEPT ![p] = [meta |-> m, record |-> r, certs |-> c]],
                 Certifies(p, c), m = "absent" => r = store[p].record,
                 r.project = 0 \/ \E q \in Names : r.project = store[q].record.project
          PROVE  Creates(p)
        <3>1. Puts(p, m, r, c) BY <2>6 DEF Puts
        <3>2. Records(p, m, r) BY <1>2, <2>1, <2>6, CreatesRecord
        <3> QED BY <1>2, <2>1, <2>5, <2>6, <3>1, <3>2 DEF Effect, Creates
    <2>7. store[p] = [meta |-> store[p].meta, record |-> store[p].record, certs |-> store[p].certs]
          /\ store[p].record \in Record /\ store[p].certs \in Certificates
        BY <1>1, DirectoryParts
    <2>8. CASE ~copies
        <3> DEFINE m0 == store[p].meta
                   r0 == store[p].record
                   c0 == store[p].certs
        <3>1. Certifies(p, c0)
            <4>1. mingled' = mingled BY <2>2, <2>8, <1>1, Zenon DEF ProfilesTypeOK
            <4> QED BY <1>2, <4>1, KeepsCerts
        <3>2. \/ store' = [store EXCEPT ![p] = [store[p] EXCEPT !.meta = p]]
              \/ store' = [store EXCEPT ![p] = store[p]]
              \/ store' = [store EXCEPT ![p] = [store[p] EXCEPT !.meta = "corrupt"]]
            BY <1>4, <2>8 DEF Create
        <3>3. PICK m \in {p, m0, "corrupt"} :
                  store' = [store EXCEPT ![p] = [meta |-> m, record |-> r0, certs |-> c0]]
            BY <2>7, <3>2
        <3>4. m \in Names \cup {"absent", "corrupt"} BY <2>1
        <3> HIDE DEF m0, r0, c0
        <3>5. r0 \in Record /\ c0 \in Certificates BY <2>7 DEF r0, c0
        <3> QED BY <2>6, <3>1, <3>3, <3>4, <3>5 DEF r0
    <2>9. CASE copies
        <3> DEFINE m0 == store[p].meta
                   r0 == store[p].record
                   c0 == store[p].certs
                   m1 == store[from].meta
                   r1 == IF store[from].record # NoRecord THEN store[from].record ELSE r0
                   new == CopiedCerts(p, from)
                   i(g, torn) == Interrupted(c0, new, CopyOrder, g, torn, FALSE)
                   put(m, r, c) == [store EXCEPT ![p] = [meta |-> m, record |-> r, certs |-> c]]
        <3>1. from \in Names BY <2>9
        <3>2. m1 \in Names \cup {"absent", "corrupt"} /\ m1 # "absent" /\ store[from].record \in Record
            BY <1>1, <2>1, <2>9, <3>1, DirectoryParts DEF Loads
        <3>3. ~mingled' => NoCerts \in {c0, store[from].certs} BY <2>2, <2>9
        <3>4. \A g \in CertFile, torn \in BOOLEAN :
                  /\ new \in Certificates /\ Certifies(p, new)
                  /\ i(g, torn) \in Certificates /\ Certifies(p, i(g, torn))
            BY <1>2, <2>3, <3>1, <3>3, CopiesCerts
        <3>5. new \in Certificates /\ Certifies(p, new) BY <3>4, CertFiles
        <3>6. Copied(p, from) = [meta |-> m1, record |-> r1, certs |-> new] BY DEF Copied
        <3>7. store[p] = [meta |-> m0, record |-> r0, certs |-> c0] BY <2>7
        <3>8. Corrupt \in Record /\ Corrupt.project = 0
            BY CorruptRecord
        <3>9. \/ \E m \in {p, m1, "corrupt"} : store' = put(m, r1, new)
              \/ \E g \in CertFile, torn \in BOOLEAN : store' = put(m0, r0, i(g, torn))
              \/ \E m \in {m0, "corrupt"} : store' = put(m, r0, new)
              \/ \E r \in {r0, Corrupt} : store' = put(m1, r, new)
            <4>1. \/ store' = [store EXCEPT ![p] = [Copied(p, from) EXCEPT !.meta = p]]
                  \/ store' = [store EXCEPT ![p] = Copied(p, from)]
                  \/ store' = [store EXCEPT ![p] = [Copied(p, from) EXCEPT !.meta = "corrupt"]]
                  \/ \E d \in CopiedPartly(p, from) : store' = [store EXCEPT ![p] = d]
                BY <1>4, <2>9 DEF Create
            <4> QED BY <1>1, <3>1, <4>1, CopyPuts
        <3>10. r0 \in Record /\ r1 \in Record BY <2>7, <3>2
        <3>11. /\ \E q \in Names : r0.project = store[q].record.project
               /\ \E q \in Names : r1.project = store[q].record.project
            BY <3>1
        <3>12. m0 = "absent" /\ r0 = store[p].record /\ p # "absent"
            BY <2>1 DEF ProfilesAssumption
        <3> HIDE DEF m0, r0, c0, m1, r1, new, i
        <3>13. ASSUME NEW m \in {p, m1, "corrupt"}, store' = put(m, r1, new) PROVE Creates(p)
            BY <2>6, <3>2, <3>5, <3>10, <3>11, <3>12, <3>13
        <3>14. ASSUME NEW g \in CertFile, NEW torn \in BOOLEAN, store' = put(m0, r0, i(g, torn))
               PROVE  Creates(p)
            BY <2>6, <3>4, <3>10, <3>11, <3>12, <3>14
        <3>15. ASSUME NEW m \in {m0, "corrupt"}, store' = put(m, r0, new) PROVE Creates(p)
            BY <2>6, <3>5, <3>10, <3>11, <3>12, <3>15
        <3>16. ASSUME NEW r \in {r0, Corrupt}, store' = put(m1, r, new) PROVE Creates(p)
            BY <2>6, <3>2, <3>5, <3>8, <3>10, <3>11, <3>12, <3>16
        <3> QED BY <3>9, <3>13, <3>14, <3>15, <3>16
    <2> QED BY <2>8, <2>9
<1> QED BY <1>3, <1>4

-----------------------------------------------------------------------------
\* The profile that commands use when none is given.
InUse == IF home.current = "absent" THEN "default" ELSE home.current

LEMMA InUseIs == CurrentProfile("") = InUse
BY Zenon DEF CurrentProfile, InUse

\* The configuration is written, or lost.
LEMMA WritesCurrent ==
    ASSUME ProfilesAssumption, ProfilesTypeOK, NEW p \in Names, WriteCurrent(p)
    PROVE  /\ home' \in [root : {home.root}, current : Names \cup {"absent", "corrupt"}, version : {home.version}]
           /\ Ends \/ Cut
           /\ (Ends /\ home'.current = p) \/ home' = home \/ home'.current = "corrupt"
<1>1. home = [root |-> home.root, current |-> home.current, version |-> home.version]
      /\ home.current \in Names \cup {"absent", "corrupt"}
    BY DEF ProfilesTypeOK
<1>2. \A x : [home EXCEPT !.current = x] = [root |-> home.root, current |-> x, version |-> home.version]
    <2> DEFINE a == home.root
               b == home.current
               c == home.version
    <2>1. home = [root |-> a, current |-> b, version |-> c] BY <1>1
    <2> HIDE DEF a, b, c
    <2>2. \A x : [[root |-> a, current |-> b, version |-> c] EXCEPT !.current = x]
                    = [root |-> a, current |-> x, version |-> c]
        OBVIOUS
    <2>3. \A x : [home EXCEPT !.current = x] = [root |-> a, current |-> x, version |-> c]
        BY <2>1, <2>2, Zenon
    <2> QED BY <2>3 DEF a, c
<1>3. \/ Ends /\ home' = [home EXCEPT !.current = p]
      \/ Cut /\ (home' = home \/ home' = [home EXCEPT !.current = "corrupt"])
    BY DEF WriteCurrent
<1>4. CASE Ends /\ home' = [home EXCEPT !.current = p] BY <1>2, <1>4
<1>5. CASE Cut /\ home' = home BY <1>1, <1>5
<1>6. CASE Cut /\ home' = [home EXCEPT !.current = "corrupt"] BY <1>2, <1>6
<1> QED BY <1>3, <1>4, <1>5, <1>6

Uses(p) ==
    /\ \E m, r, c : Effect(p, m, r, c)
    /\ store' = store /\ loose' = loose
    /\ home' = home \/ home'.current = "corrupt" \/ (home'.current = p /\ Loads(p))

LEMMA UseEffect ==
    ASSUME ProfilesAssumption, Ready, NEW p \in Names, Use(p)
    PROVE  Uses(p)
<1> DEFINE m == store[p].meta
           r == store[p].record
           c == store[p].certs
<1>1. /\ target' = p
      /\ UNCHANGED <<store, containers, projects, expired, cmd, applied, loose, given, mingled>>
    BY DEF Use, history
<1>2. ProfilesTypeOK /\ containers \in [Names -> SUBSET Services] /\ loose \in BOOLEAN /\ mingled \in BOOLEAN
    BY DEF Ready, ProfilesTypeOK
<1>3. Puts(p, m, r, c) BY <1>1, <1>2, PutsNothing
<1>4. Certifies(p, c) BY <1>1, KeepsCerts
<1>5. Records(p, m, r)
    <2>1. given' \subseteq 1..MaxCommands BY <1>1, <1>2 DEF ProfilesTypeOK
    <2> QED BY <1>1, <2>1, KeepsRecord
<1>6. /\ home' \in [root : {home.root}, current : Names \cup {"absent", "corrupt"}, version : {home.version}]
      /\ Ends \/ Cut \/ Refused
      /\ home' = home \/ home'.current = "corrupt" \/ (home'.current = p /\ Loads(p))
    <2>1. CASE Loads(p) /\ WriteCurrent(p) BY <1>2, <2>1, WritesCurrent
    <2>2. CASE Refused /\ home' = home BY <1>2, <2>2 DEF ProfilesTypeOK
    <2> QED BY <2>1, <2>2 DEF Use
<1>7. Returned(p) BY <1>1, <1>2, <1>6, ProfileCommandEnds DEF Returned
<1> HIDE DEF m, r, c
<1> QED BY <1>1, <1>3, <1>4, <1>5, <1>6, <1>7 DEF Effect, Uses

\* A profile that is deleted gives up its project.
LEMMA DeletesRecord ==
    ASSUME ProfilesAssumption, Ready, NEW p \in Names, NEW m, NEW r,
           r.project \in {0, store[p].record.project},
           projects' = projects, given' = given \cup RecordedBy(p)
    PROVE  Records(p, m, r)
<1> DEFINE n == store[p].record.project
<1>1. /\ cmd \in 1..MaxCommands /\ n \in 0..(cmd - 1)
      /\ projects \subseteq 1..(cmd - 1) /\ given \subseteq 1..MaxCommands
    BY ReadyFacts
<1>2. RecordedBy(p) = {n} \cap projects BY DEF RecordedBy
<1>3. r.project \in {0, n} OBVIOUS
<1> HIDE DEF n
<1>4. given' \subseteq 1..MaxCommands BY <1>1, <1>2
<1>5. projects' \subseteq 0..cmd /\ 0 \notin projects' /\ r.project \in 0..cmd BY <1>1, <1>3
<1>6. projects' \ given' \subseteq projects \ given /\ n \notin projects' \ given'
      /\ r.project \notin projects' \ given'
    BY <1>1, <1>2, <1>3, <1>5
<1> QED BY <1>4, <1>5, <1>6 DEF Records, n

Deletes(p) ==
    /\ \E m, r, c : Effect(p, m, r, c)
    /\ loose => loose'
    /\ \/ store' = store /\ home' = home
       \/ /\ p # "default"
          /\ loose' \/ (home' = home /\ InUse # p) \/ home'.current = "default"

LEMMA DeleteEffect ==
    ASSUME ProfilesAssumption, Ready, NEW p \in Names, NEW env, Delete(p, env)
    PROVE  Deletes(p)
<1> DEFINE m0 == store[p].meta
           r0 == store[p].record
           c0 == store[p].certs
           part(kept) == [f \in CertFile |-> IF f \in kept THEN c0[f] ELSE NoPair]
           refuses == ~ReadsConfiguration \/ p = "default"
<1>1. target' = p /\ UNCHANGED <<containers, projects, expired, cmd, applied>> BY DEF Delete
<1>2. /\ ProfilesTypeOK /\ containers \in [Names -> SUBSET Services] /\ loose \in BOOLEAN /\ mingled \in BOOLEAN
      /\ c0 \in Certificates /\ r0 \in Record /\ m0 \in Names \cup {"absent", "corrupt"}
      /\ home \in [root : {home.root}, current : Names \cup {"absent", "corrupt"}, version : {home.version}]
    BY DirectoryParts DEF Ready, ProfilesTypeOK
<1>3. cmd \in 1..MaxCommands /\ applied' = FALSE BY <1>1, ReadyFacts
<1>4. CASE Refused /\ UNCHANGED <<home, store, given, loose, mingled>>
    <2>1. Returned(p) BY <1>1, <1>2, <1>4, CommandReturns
    <2>2. projects' \subseteq projects BY <1>1
    <2>3. Boots(p) BY <1>1, <1>4, <2>1, <2>2, NothingWritten
    <2> QED BY <1>4, <2>3 DEF Boots, Deletes
<1>5. NoCerts \in Certificates /\ NoPair \in Pair
      /\ NoRecord \in Record /\ NoRecord.project = 0
    <2>1. 0 \in 0..MaxCommands BY DEF ProfilesAssumption
    <2> QED BY <2>1 DEF NoCerts, NoPair, Certificates, Pair, NoRecord, Record
<1>6. /\ \A f \in CertFile : NoCerts[f].made = 0
      /\ Certifies(p, NoCerts) \/ (mingled /\ ~mingled')
    <2>1. \A f \in CertFile : NoCerts[f].made = 0 BY DEF NoCerts, NoPair
    <2>2. Sound(NoCerts) BY <2>1, CertFiles DEF Sound
    <2>3. 0 \in 0..cmd BY <1>3
    <2> QED BY <1>3, <2>1, <2>2, <2>3 DEF Certifies
<1>9. given' = given \cup RecordedBy(p) => Records(p, "absent", NoRecord)
    BY <1>1, <1>5, DeletesRecord
<1>7. ASSUME store' = [store EXCEPT ![p] = NoDirectory], ResetCurrent(p, env), p # "default",
             loose' = (loose \/ env # "" \/ ~ok'), UNCHANGED mingled,
             given' = given \cup RecordedBy(p)
      PROVE  Deletes(p)
    <2>1. Puts(p, "absent", NoRecord, NoCerts) BY <1>5, <1>7 DEF Puts, NoDirectory
    <2>2. Certifies(p, NoCerts) BY <1>6, <1>7
    <2>3. Records(p, "absent", NoRecord) BY <1>7, <1>9
    <2>4. /\ home' \in [root : {home.root}, current : Names \cup {"absent", "corrupt"}, version : {home.version}]
          /\ Ends \/ Cut
          /\ (Ends /\ home'.current = "default") \/ (Cut /\ CurrentProfile(env) = p)
             \/ (home' = home /\ CurrentProfile(env) # p)
        <3>1. CASE CurrentProfile(env) = p /\ WriteCurrent("default")
            <4>1. "default" \in Names BY DEF ProfilesAssumption
            <4> QED BY <1>2, <3>1, <4>1, WritesCurrent DEF WriteCurrent
        <3>2. CASE CurrentProfile(env) # p /\ Ends /\ home' = home BY <1>2, <3>2
        <3> QED BY <1>7, <3>1, <3>2 DEF ResetCurrent
    <2>5. loose' \in BOOLEAN /\ (loose => loose') BY <1>7, Zenon
    <2>6. loose' \/ (home' = home /\ InUse # p) \/ home'.current = "default"
        <3>1. CASE Cut
            <4>1. ~ok' BY <3>1 DEF Cut
            <4> QED BY <1>7, <4>1, Zenon
        <3>2. CASE env # "" BY <1>7, <3>2, Zenon
        <3>3. CASE env = "" /\ home' = home /\ CurrentProfile(env) # p BY <3>3, InUseIs, Zenon
        <3> QED BY <2>4, <3>1, <3>2, <3>3, Zenon
    <2>7. Returned(p) BY <1>1, <1>2, <1>7, <2>4, <2>5, ProfileCommandEnds DEF Returned
    <2> QED BY <1>7, <2>1, <2>2, <2>3, <2>5, <2>6, <2>7, Zenon DEF Effect, Deletes
<1>8. ASSUME Cut, loose' = TRUE, UNCHANGED home, p # "default",
             NEW m \in {m0, "absent"}, NEW r \in {r0, NoRecord}, NEW kept \in SUBSET CertFile,
             store' = [store EXCEPT ![p] = [meta |-> m, record |-> r, certs |-> part(kept)]],
             mingled' = (mingled \/ part(kept) \notin {c0, NoCerts}),
             given' = given \cup RecordedBy(p)
      PROVE  Deletes(p)
    <2> DEFINE c == part(kept)
    <2>1. \A f \in CertFile : c[f] \in {c0[f], NoPair} OBVIOUS
    <2>2. c = [f \in CertFile |-> c[f]] OBVIOUS
    <2>3. mingled' \in BOOLEAN /\ (mingled => mingled') /\ (~mingled' => ~mingled /\ c \in {c0, NoCerts})
        BY <1>2, <1>8, Zenon
    <2>4. store' = [store EXCEPT ![p] = [meta |-> m, record |-> r, certs |-> c]] BY <1>8
    <2> HIDE DEF c
    <2>5. c \in Certificates
        <3>1. \A f \in CertFile : c[f] \in Pair
            <4> HIDE DEF c0
            <4> QED BY <1>2, <1>5, <2>1 DEF Certificates
        <3> QED BY <2>2, <3>1 DEF Certificates
    <2>6. Certifies(p, c)
        <3>1. ASSUME NEW f \in CertFile
              PROVE  c[f].made \in 0..cmd /\ (c[f].made # 0 => c[f].issuer \in 0..cmd)
            <4>1. c0[f].made \in 0..cmd /\ (c0[f].made # 0 => c0[f].issuer \in 0..cmd)
                <5>1. Older(c0) /\ c0[f] \in Pair BY <1>2, ReadyFacts DEF Certificates
                <5> DEFINE pair == c0[f]
                <5>2. pair \in Pair /\ pair.made < cmd /\ (pair.made # 0 => pair.issuer < cmd)
                    BY <5>1 DEF Older
                <5> HIDE DEF pair
                <5>3. pair.made \in 0..cmd /\ (pair.made # 0 => pair.issuer \in 0..cmd)
                    BY <1>3, <5>2 DEF Pair
                <5> QED BY <5>3 DEF pair
            <4>2. NoPair.made = 0 /\ 0 \in 0..cmd BY <1>3 DEF NoPair
            <4> HIDE DEF c0
            <4> QED BY <2>1, <4>1, <4>2
        <3>2. ASSUME ~mingled' PROVE Sound(c)
            <4>1. Sound(c0) BY <2>3, <3>2, ReadyFacts
            <4>2. Sound(NoCerts) BY <1>6, CertFiles DEF Sound
            <4> QED BY <2>3, <3>2, <4>1, <4>2
        <3> QED BY <1>3, <2>3, <3>1, <3>2 DEF Certifies
    <2>7. m \in Names \cup {"absent", "corrupt"} /\ r \in Record /\ r.project \in {0, r0.project}
        BY <1>2, <1>5, <1>8
    <2>8. Puts(p, m, r, c) BY <2>4, <2>5, <2>7 DEF Puts
    <2>9. Records(p, m, r) BY <1>1, <1>8, <2>7, DeletesRecord
    <2>10. Returned(p) BY <1>1, <1>2, <1>8, <2>3, ProfileCommandEnds DEF Returned
    <2> QED BY <1>8, <2>6, <2>8, <2>9, <2>10 DEF Effect, Deletes
<1> QED BY <1>4, <1>7, <1>8 DEF Delete

-----------------------------------------------------------------------------
\* What holds after a command, from what it does.
LEMMA EffectTypes ==
    ASSUME ProfilesAssumption, Ready, NEW p \in Names, NEW m, NEW r, NEW c, Effect(p, m, r, c)
    PROVE  ProfilesTypeOK' /\ Steady'
<1>1. [meta |-> m, record |-> r, certs |-> c] \in Directory
    BY DEF Effect, Puts, Directory, Certificates
<1>2. store \in [Names -> Directory] /\ cmd \in 0..MaxCommands /\ expired \in 0..MaxCommands
      /\ home.root \in BOOLEAN /\ home.root = TRUE /\ home.version \in {"absent", "old", "latest"}
    BY DEF Ready, ProfilesTypeOK, Steady
<1>3. store' \in [Names -> Directory] BY <1>1, <1>2 DEF Effect, Puts
<1>4. projects' \subseteq 1..MaxCommands /\ given' \subseteq 1..MaxCommands
    BY <1>2 DEF Effect, Records
<1>5. home' \in [root : {home.root}, current : Names \cup {"absent", "corrupt"}, version : {home.version}]
    BY DEF Effect, Returned
<1>6. home' \in [root : BOOLEAN, current : Names \cup {"absent", "corrupt"},
                 version : {"absent", "old", "latest"}] /\ home'.root = TRUE
    BY <1>2, <1>5
<1>7. /\ stage' = "idle" /\ containers' \in [Names -> SUBSET Services]
      /\ cmd' \in 0..MaxCommands /\ expired' \in 0..MaxCommands /\ target' \in Names
      /\ cuts' \in 0..MaxCuts
    BY <1>2 DEF Effect, Returned
<1>8. ok' \in BOOLEAN /\ applied' \in BOOLEAN /\ loose' \in BOOLEAN /\ mingled' \in BOOLEAN
    BY Zenon DEF Effect, Returned, Certifies
<1>9. ProfilesTypeOK' BY <1>3, <1>4, <1>6, <1>7, <1>8 DEF ProfilesTypeOK
<1>10. Steady' BY <1>6, <1>7 DEF Steady
<1> QED BY <1>9, <1>10

LEMMA EffectStore ==
    ASSUME ProfilesTypeOK, NEW p \in Names, NEW m, NEW r, NEW c, Effect(p, m, r, c)
    PROVE  /\ store'[p].meta = m /\ store'[p].record = r /\ store'[p].certs = c
           /\ \A q \in Names : q # p => store'[q] = store[q]
<1>1. store' = [store EXCEPT ![p] = [meta |-> m, record |-> r, certs |-> c]] BY DEF Effect, Puts
<1>2. store'[p] = [meta |-> m, record |-> r, certs |-> c] BY <1>1 DEF ProfilesTypeOK
<1>3. \A q \in Names : q # p => store'[q] = store[q] BY <1>1 DEF ProfilesTypeOK
<1> QED BY <1>2, <1>3

LEMMA EffectNumbered ==
    ASSUME ProfilesAssumption, Ready, NEW p \in Names, NEW m, NEW r, NEW c, Effect(p, m, r, c)
    PROVE  Numbered'
<1>1. cmd \in 1..MaxCommands BY ReadyFacts
<1>2. Past' = 0..cmd BY <1>1 DEF Past, Effect, Returned
<1>3. Past = 0..(cmd - 1) BY <1>1 DEF Past, Ready
<1>4. ProfilesTypeOK BY DEF Ready
<1>5. projects' \subseteq Past' BY <1>2 DEF Effect, Records
<1>6. ASSUME NEW q \in Names
      PROVE  /\ store'[q].record.project \in Past'
             /\ \A f \in CertFile : LET pair == store'[q].certs[f] IN
                    pair.made \in Past' /\ (pair.made # 0 => pair.issuer \in Past')
    <2>1. CASE q = p
        <3>1. store'[q].record = r /\ store'[q].certs = c BY <1>4, <2>1, EffectStore
        <3>2. r.project \in 0..cmd BY DEF Effect, Records
        <3>3. \A f \in CertFile : c[f].made \in 0..cmd /\ (c[f].made # 0 => c[f].issuer \in 0..cmd)
            BY DEF Effect, Certifies
        <3> QED BY <1>2, <3>1, <3>2, <3>3
    <2>2. CASE q # p
        <3>1. store'[q] = store[q] BY <1>4, <2>2, EffectStore
        <3>2. Past \subseteq Past' BY <1>1, <1>2, <1>3
        <3> QED BY <3>1, <3>2 DEF Ready, Numbered
    <2> QED BY <2>1, <2>2
<1> QED BY <1>5, <1>6 DEF Numbered

LEMMA EffectRecords ==
    ASSUME ProfilesAssumption, Ready, ProjectsAreRecorded,
           NEW p \in Names, NEW m, NEW r, NEW c, Effect(p, m, r, c)
    PROVE  AbsentForgets' /\ ProjectsAreRecorded'
<1> DEFINE kept == projects \ given
           left == projects' \ given'
           n(q) == store[q].record.project
           n1(q) == store'[q].record.project
<1>1. ProfilesTypeOK BY DEF Ready
<1>2. /\ left \subseteq kept \cup ({cmd} \cap {r.project})
      /\ n(p) \in left => r.project = n(p)
      /\ m = "absent" => r.project \notin left
    BY DEF Effect, Records
<1>3. /\ n1(p) = r.project /\ store'[p].meta = m
      /\ \A q \in Names : q # p => n1(q) = n(q) /\ store'[q].meta = store[q].meta
    BY <1>1, EffectStore
<1>4. ASSUME NEW q \in Names PROVE n(q) # cmd /\ (store[q].meta = "absent" => n(q) \notin kept)
    <2>1. n(q) \in 0..(cmd - 1) /\ cmd \in 1..MaxCommands
          /\ (store[q].meta = "absent" => n(q) \notin kept)
        BY ReadyFacts
    <2> QED BY <2>1
<1>5. \A x \in kept : \E q \in Names : x = n(q) BY DEF ProjectsAreRecorded
<1> HIDE DEF kept, left, n, n1
<1>6. ASSUME NEW q \in Names, store'[q].meta = "absent" PROVE n1(q) \notin left
    <2>1. CASE q = p BY <1>2, <1>3, <1>6, <2>1
    <2>2. CASE q # p BY <1>2, <1>3, <1>4, <1>6, <2>2
    <2> QED BY <2>1, <2>2
<1>7. ASSUME NEW x \in left PROVE \E q \in Names : x = n1(q)
    <2>1. CASE x = r.project BY <1>3, <2>1
    <2>2. CASE x # r.project
        <3>1. x \in kept BY <1>2, <1>7, <2>2
        <3>2. PICK q \in Names : x = n(q) BY <1>5, <3>1
        <3>3. q # p BY <1>2, <1>7, <2>2, <3>2
        <3> QED BY <1>3, <3>2, <3>3
    <2> QED BY <2>1, <2>2
<1>8. AbsentForgets' BY <1>6 DEF AbsentForgets, left, n1
<1>9. ProjectsAreRecorded' BY <1>7 DEF ProjectsAreRecorded, left, n1
<1> QED BY <1>8, <1>9

LEMMA EffectCertificates ==
    ASSUME ProfilesAssumption, Ready, NEW p \in Names, NEW m, NEW r, NEW c, Effect(p, m, r, c)
    PROVE  AllSound' /\ CertificatesMatch'
<1>1. ProfilesTypeOK BY DEF Ready
<1>2. /\ store'[p].certs = c /\ \A q \in Names : q # p => store'[q] = store[q]
    BY <1>1, EffectStore
<1>3. /\ target' = p /\ (mingled => mingled')
      /\ applied' => c = Wanted(store[p].certs)
      /\ ~mingled' => Sound(c)
    BY DEF Effect, Certifies, Returned
<1>4. ASSUME ~mingled', NEW q \in Names PROVE Sound(store'[q].certs)
    <2>1. CASE q = p BY <1>2, <1>3, <1>4, <2>1
    <2>2. CASE q # p
        <3>1. Sound(store[q].certs) BY <1>3, <1>4 DEF Ready, AllSound
        <3> QED BY <1>2, <2>2, <3>1
    <2> QED BY <2>1, <2>2
<1>5. ASSUME ~mingled', applied' PROVE Fitting(store'[target'].certs)
    <2>1. Sound(store[p].certs) BY <1>3, <1>5, ReadyFacts
    <2>2. Fitting(Wanted(store[p].certs)) BY <2>1, ReadyFacts, WantedFits
    <2>3. store'[target'].certs = Wanted(store[p].certs) BY <1>2, <1>3, <1>5, Zenon
    <2> QED BY <2>2, <2>3, Zenon
<1>6. AllSound' BY <1>4 DEF AllSound, Sound
<1>7. CertificatesMatch' BY <1>5 DEF CertificatesMatch, Fitting
<1> QED BY <1>6, <1>7

-----------------------------------------------------------------------------
\* The current profile loads, said of the configuration.
CurrentLoads == loose \/ ~home.root \/ home.current = "corrupt" \/ Loads(InUse)

LEMMA CurrentLoadsIs == CurrentProfileLoads <=> CurrentLoads
BY InUseIs, Zenon DEF CurrentProfileLoads, CurrentLoads, ReadsConfiguration

\* A profile loads by its profile.json.
LEMMA LoadsKept ==
    ASSUME ProfilesAssumption, Ready, DefaultLoads, CurrentLoads,
           home'.root = TRUE, loose => loose',
           loose' \/ (Loads("default") => Loads("default")'),
           \/ loose' \/ home'.current = "corrupt"
           \/ home'.current \in Names /\ Loads(home.current)'
           \/ home'.current = home.current
              /\ (InUse \in Names /\ Loads(InUse) => store'[InUse].meta \notin {"absent", "corrupt"})
    PROVE  DefaultLoads' /\ CurrentLoads'
<1>1. home.root = TRUE /\ home.current \in Names \cup {"absent", "corrupt"}
    BY DEF Ready, Steady, ProfilesTypeOK
<1>2. "default" \in Names /\ "absent" \notin Names /\ "corrupt" \notin Names
    BY DEF ProfilesAssumption
<1>3. DefaultLoads' BY <1>1 DEF DefaultLoads
<1>4. CASE loose' BY <1>3, <1>4 DEF CurrentLoads
<1>5. CASE home'.current = "corrupt" BY <1>3, <1>5 DEF CurrentLoads
<1>6. CASE home'.current \in Names /\ Loads(home.current)'
    <2>1. InUse' = home'.current BY <1>2, <1>6 DEF InUse
    <2> QED BY <1>3, <1>6, <2>1 DEF CurrentLoads, Loads
<1>7. CASE /\ home'.current = home.current /\ ~loose'
           /\ InUse \in Names /\ Loads(InUse) => store'[InUse].meta \notin {"absent", "corrupt"}
    <2>1. InUse' = InUse BY <1>7 DEF InUse
    <2>2. CASE home.current = "corrupt" BY <1>3, <1>7, <2>2 DEF CurrentLoads
    <2>3. CASE home.current # "corrupt"
        <3>1. InUse \in Names BY <1>1, <1>2, <2>3 DEF InUse
        <3>2. Loads(InUse) BY <1>1, <1>7, <2>3 DEF CurrentLoads
        <3> QED BY <1>3, <1>7, <2>1, <3>1, <3>2 DEF CurrentLoads, Loads
    <2> QED BY <2>2, <2>3
<1> QED BY <1>3, <1>4, <1>5, <1>6, <1>7

LEMMA BootsLoads ==
    ASSUME ProfilesAssumption, Ready, DefaultLoads, CurrentLoads, NEW p \in Names, Boots(p)
    PROVE  DefaultLoads' /\ CurrentLoads'
<1>1. PICK r, c : Effect(p, store[p].meta, r, c) BY DEF Boots
<1>2. ProfilesTypeOK /\ home.root = TRUE BY DEF Ready, Steady, ProfilesTypeOK
<1>3. \A q \in Names : store'[q].meta = store[q].meta BY <1>1, <1>2, EffectStore
<1>4. home' = home /\ loose' = loose BY DEF Boots
<1>5. "default" \in Names BY DEF ProfilesAssumption
<1>6. Loads("default") => Loads("default")' BY <1>3, <1>5 DEF Loads
<1>7. InUse \in Names /\ Loads(InUse) => store'[InUse].meta \notin {"absent", "corrupt"}
    BY <1>3 DEF Loads
<1> QED BY <1>2, <1>4, <1>6, <1>7, LoadsKept

LEMMA CreatesLoads ==
    ASSUME ProfilesAssumption, Ready, DefaultLoads, CurrentLoads, NEW p \in Names, Creates(p)
    PROVE  DefaultLoads' /\ CurrentLoads'
<1>1. PICK m, r, c : Effect(p, m, r, c) BY DEF Creates
<1>2. ProfilesTypeOK /\ home.root = TRUE BY DEF Ready, Steady, ProfilesTypeOK
<1>3. \A q \in Names : Loads(q) => store'[q].meta = store[q].meta
    <2>1. ASSUME NEW q \in Names, Loads(q) PROVE store'[q].meta = store[q].meta
        <3>1. CASE q = p BY <2>1, <3>1 DEF Creates, Loads
        <3>2. CASE q # p BY <1>1, <1>2, <3>2, EffectStore
        <3> QED BY <3>1, <3>2
    <2> QED BY <2>1
<1>4. home' = home /\ loose' = loose BY DEF Creates
<1>5. "default" \in Names BY DEF ProfilesAssumption
<1>6. Loads("default") => Loads("default")' BY <1>3, <1>5 DEF Loads
<1>7. InUse \in Names /\ Loads(InUse) => store'[InUse].meta \notin {"absent", "corrupt"}
    BY <1>3 DEF Loads
<1> QED BY <1>2, <1>4, <1>6, <1>7, LoadsKept

LEMMA UsesLoads ==
    ASSUME ProfilesAssumption, Ready, DefaultLoads, CurrentLoads, NEW p \in Names, Uses(p)
    PROVE  DefaultLoads' /\ CurrentLoads'
<1>1. PICK m, r, c : Effect(p, m, r, c) BY DEF Uses
<1>2. ProfilesTypeOK /\ home.root = TRUE BY DEF Ready, Steady, ProfilesTypeOK
<1>3. home'.root = TRUE BY <1>1, <1>2 DEF Effect, Returned
<1>4. store' = store /\ loose' = loose BY DEF Uses
<1>5. Loads("default") => Loads("default")' BY <1>4 DEF Loads
<1>6. CASE home' = home \/ home'.current = "corrupt"
    <2>1. InUse \in Names /\ Loads(InUse) => store'[InUse].meta \notin {"absent", "corrupt"}
        BY <1>4 DEF Loads
    <2> QED BY <1>3, <1>4, <1>5, <1>6, <2>1, LoadsKept
<1>7. CASE home'.current = p /\ Loads(p)
    <2>1. home'.current \in Names /\ Loads(home.current)' BY <1>4, <1>7 DEF Loads
    <2> QED BY <1>3, <1>4, <1>5, <2>1, LoadsKept
<1> QED BY <1>6, <1>7 DEF Uses

LEMMA DeletesLoads ==
    ASSUME ProfilesAssumption, Ready, DefaultLoads, CurrentLoads, NEW p \in Names, Deletes(p)
    PROVE  DefaultLoads' /\ CurrentLoads'
<1>1. PICK m, r, c : Effect(p, m, r, c) BY DEF Deletes
<1>2. ProfilesTypeOK /\ home.root = TRUE BY DEF Ready, Steady, ProfilesTypeOK
<1>3. home'.root = TRUE BY <1>1, <1>2 DEF Effect, Returned
<1>4. loose => loose' BY DEF Deletes
<1>5. "default" \in Names BY DEF ProfilesAssumption
<1>6. CASE store' = store /\ home' = home
    <2>1. Loads("default") => Loads("default")' BY <1>6 DEF Loads
    <2>2. InUse \in Names /\ Loads(InUse) => store'[InUse].meta \notin {"absent", "corrupt"}
        BY <1>6 DEF Loads
    <2> QED BY <1>3, <1>4, <1>6, <2>1, <2>2, LoadsKept
<1>7. CASE /\ p # "default"
           /\ loose' \/ (home' = home /\ InUse # p) \/ home'.current = "default"
    <2>1. \A q \in Names : q # p => store'[q] = store[q] BY <1>1, <1>2, EffectStore
    <2>2. Loads("default") => Loads("default")' BY <1>5, <1>7, <2>1 DEF Loads
    <2>3. CASE loose' BY <1>3, <2>2, <2>3, LoadsKept
    <2>4. CASE ~loose' /\ home' = home /\ InUse # p
        <3>1. InUse \in Names /\ Loads(InUse) => store'[InUse].meta \notin {"absent", "corrupt"}
            BY <2>1, <2>4 DEF Loads
        <3> QED BY <1>3, <1>4, <2>2, <2>4, <3>1, LoadsKept
    <2>5. CASE ~loose' /\ home'.current = "default"
        <3>1. Loads("default") BY <1>2, <1>4, <2>5 DEF DefaultLoads
        <3>2. home'.current \in Names /\ Loads(home.current)' BY <1>5, <2>2, <2>5, <3>1 DEF Loads
        <3> QED BY <1>3, <1>4, <2>2, <3>2, LoadsKept
    <2> QED BY <1>7, <2>3, <2>4, <2>5
<1> QED BY <1>6, <1>7 DEF Deletes

-----------------------------------------------------------------------------
ProfilesInv ==
    /\ ProfilesTypeOK /\ Steady /\ Numbered
    /\ AbsentForgets /\ ProjectsAreRecorded
    /\ DefaultLoads /\ CurrentLoads
    /\ AllSound /\ CertificatesMatch

\* What a command does to a directory keeps all but the current profile.
LEMMA EffectKeeps ==
    ASSUME ProfilesAssumption, ProfilesInv, stage = "command",
           NEW p \in Names, NEW m, NEW r, NEW c, Effect(p, m, r, c),
           DefaultLoads' /\ CurrentLoads'
    PROVE  ProfilesInv'
<1>1. Ready BY DEF ProfilesInv, Ready
<1>2. ProfilesTypeOK' /\ Steady' BY <1>1, EffectTypes
<1>3. Numbered' BY <1>1, EffectNumbered
<1>4. ProjectsAreRecorded BY DEF ProfilesInv
<1>5. AbsentForgets' /\ ProjectsAreRecorded' BY <1>1, <1>4, EffectRecords
<1>6. AllSound' /\ CertificatesMatch' BY <1>1, EffectCertificates
<1> QED BY <1>2, <1>3, <1>5, <1>6 DEF ProfilesInv

LEMMA CommandKeeps ==
    ASSUME ProfilesAssumption, ProfilesInv, ProfileCommand
    PROVE  ProfilesInv'
<1>1. Ready /\ stage = "command" /\ DefaultLoads /\ CurrentLoads BY DEF ProfileCommand, Ready, ProfilesInv
<1>2. ASSUME NEW p \in Names, Boots(p) PROVE ProfilesInv'
    <2>1. DefaultLoads' /\ CurrentLoads' BY <1>1, <1>2, BootsLoads
    <2>2. PICK r, c : Effect(p, store[p].meta, r, c) BY <1>2 DEF Boots
    <2> QED BY <1>1, <2>1, <2>2, EffectKeeps
<1>3. ASSUME NEW p \in Names, Creates(p) PROVE ProfilesInv'
    <2>1. DefaultLoads' /\ CurrentLoads' BY <1>1, <1>3, CreatesLoads
    <2>2. PICK m, r, c : Effect(p, m, r, c) BY <1>3 DEF Creates
    <2> QED BY <1>1, <2>1, <2>2, EffectKeeps
<1>4. ASSUME NEW p \in Names, Uses(p) PROVE ProfilesInv'
    <2>1. DefaultLoads' /\ CurrentLoads' BY <1>1, <1>4, UsesLoads
    <2>2. PICK m, r, c : Effect(p, m, r, c) BY <1>4 DEF Uses
    <2> QED BY <1>1, <2>1, <2>2, EffectKeeps
<1>5. ASSUME NEW p \in Names, Deletes(p) PROVE ProfilesInv'
    <2>1. DefaultLoads' /\ CurrentLoads' BY <1>1, <1>5, DeletesLoads
    <2>2. PICK m, r, c : Effect(p, m, r, c) BY <1>5 DEF Deletes
    <2> QED BY <1>1, <2>1, <2>2, EffectKeeps
<1>6. PICK p \in Names :
        \/ \E from \in Names \cup {""} : Create(p, from)
        \/ \E env \in Names \cup {""} : Delete(p, env)
        \/ Use(p)
        \/ \E flag \in Providers \cup {""} : Up(p, flag)
        \/ Down(p)
        \/ Update(p)
    BY Zenon DEF ProfileCommand
<1>7. ASSUME NEW from \in Names \cup {""}, Create(p, from) PROVE ProfilesInv'
    BY <1>1, <1>3, <1>7, CreateEffect, Zenon
<1>8. ASSUME NEW env \in Names \cup {""}, Delete(p, env) PROVE ProfilesInv'
    BY <1>1, <1>5, <1>8, DeleteEffect, Zenon
<1>9. ASSUME Use(p) PROVE ProfilesInv' BY <1>1, <1>4, <1>9, UseEffect
<1>10. ASSUME NEW flag \in Providers \cup {""}, Up(p, flag) PROVE ProfilesInv'
    BY <1>1, <1>2, <1>10, UpBoots, Zenon
<1>11. ASSUME Down(p) PROVE ProfilesInv'
    BY <1>1, <1>2, <1>11, DownBoots
<1>12. ASSUME Update(p) PROVE ProfilesInv'
    BY <1>1, <1>2, <1>12, UpdateBoots
<1> QED BY <1>6, <1>7, <1>8, <1>9, <1>10, <1>11, <1>12, Zenon

-----------------------------------------------------------------------------
\* The check of the installation.

\* Steps that leave directories and projects.
LEMMA LeavesDirectories ==
    ASSUME ProfilesAssumption, ProfilesInv, ProfilesTypeOK', cmd' >= cmd, stage' = "idle" \/ cmd' > cmd,
           UNCHANGED <<projects, given, mingled>>,
           \A q \in Names : store'[q].record = store[q].record /\ store'[q].certs = store[q].certs,
           \A q \in Names : store'[q].meta = "absent" => store[q].meta = "absent"
    PROVE  Numbered' /\ AbsentForgets' /\ ProjectsAreRecorded' /\ AllSound'
<1>1. cmd \in 0..MaxCommands /\ cmd' \in 0..MaxCommands /\ MaxCommands \in Nat
    BY DEF ProfilesInv, ProfilesTypeOK, ProfilesAssumption
<1>2. Past \subseteq Past' BY <1>1 DEF Past
<1>3. Numbered' BY <1>2 DEF ProfilesInv, Numbered
<1>4. AbsentForgets' BY DEF ProfilesInv, AbsentForgets
<1>5. ProjectsAreRecorded'
    <2>1. {store'[p].record.project : p \in Names} = {store[p].record.project : p \in Names} OBVIOUS
    <2> QED BY <2>1 DEF ProfilesInv, ProjectsAreRecorded
<1>6. AllSound' BY DEF ProfilesInv, AllSound
<1> QED BY <1>3, <1>4, <1>5, <1>6

LEMMA InstallKeeps ==
    ASSUME ProfilesAssumption, ProfilesInv, EnsureInstalled, Install
    PROVE  ProfilesInv'
<1>1. PICK n \in 0..4, torn \in BOOLEAN :
        /\ home' = InstalledHome(n, torn)
        /\ store' = [store EXCEPT !["default"].meta = InstalledMeta(n, torn)]
        /\ IF n = 4 THEN stage' = "command" /\ UNCHANGED <<ok, cuts, loose>>
           ELSE Cut /\ loose' = TRUE
    BY DEF Install
<1>2. /\ ~home.root /\ stage = "idle" /\ cmd < MaxCommands /\ cmd' = cmd + 1 /\ applied' = FALSE
      /\ UNCHANGED <<containers, projects, expired, target, given, mingled>>
    BY DEF Install, EnsureInstalled
<1>3. ProfilesTypeOK /\ cmd \in Nat /\ MaxCommands \in Nat /\ cuts \in 0..MaxCuts /\ MaxCuts \in Nat
      /\ "default" \in Names
    BY DEF ProfilesInv, ProfilesTypeOK, ProfilesAssumption
<1>4. projects = {} BY <1>2 DEF ProfilesInv, Steady
<1>5. InstalledMeta(n, torn) \in {"absent", "corrupt", "default"} /\ (n = 4 => InstalledMeta(n, torn) = "default")
    BY <1>1 DEF InstalledMeta
<1>6. /\ home' \in [root : BOOLEAN, current : Names \cup {"absent", "corrupt"},
                    version : {"absent", "old", "latest"}]
      /\ n = 4 => home'.root = TRUE /\ home'.current = "default"
    <2> DEFINE current == CASE n >= 2 -> "default" [] n = 1 /\ torn -> "corrupt" [] OTHER -> "absent"
               release == CASE n >= 3 -> "latest" [] n = 2 /\ torn -> "old" [] OTHER -> "absent"
    <2>1. home' = [root |-> n >= 1, current |-> current, version |-> release]
        BY <1>1, Zenon DEF InstalledHome
    <2>2. current \in {"default", "absent", "corrupt"} /\ release \in {"absent", "old", "latest"}
        OBVIOUS
    <2>3. (n >= 1) \in BOOLEAN /\ (n = 4 => (n >= 1) = TRUE /\ current = "default") OBVIOUS
    <2>4. current \in Names \cup {"absent", "corrupt"} BY <1>3, <2>2
    <2> HIDE DEF current, release
    <2> QED BY <2>1, <2>2, <2>3, <2>4
<1> DEFINE d == store["default"]
           m == InstalledMeta(n, torn)
<1>7. store' = [store EXCEPT !["default"] = [meta |-> m, record |-> d.record, certs |-> d.certs]]
    <2>1. d = [meta |-> d.meta, record |-> d.record, certs |-> d.certs] BY <1>3, DirectoryParts
    <2>2. [[meta |-> d.meta, record |-> d.record, certs |-> d.certs] EXCEPT !.meta = m]
            = [meta |-> m, record |-> d.record, certs |-> d.certs]
        OBVIOUS
    <2>3. [d EXCEPT !.meta = m] = [meta |-> m, record |-> d.record, certs |-> d.certs]
        BY <2>1, <2>2, Zenon
    <2>4. store' = [store EXCEPT !["default"] = [d EXCEPT !.meta = m]] BY <1>1, <1>3 DEF ProfilesTypeOK
    <2> HIDE DEF d, m
    <2> QED BY <2>3, <2>4, Zenon
<1>8. /\ store' \in [Names -> Directory]
      /\ \A q \in Names : store'[q].record = store[q].record /\ store'[q].certs = store[q].certs
      /\ store'["default"].meta = m
    <2>1. m \in Names \cup {"absent", "corrupt"} BY <1>3, <1>5
    <2>2. d.record \in Record /\ d.certs \in Certificates BY <1>3, DirectoryParts
    <2>3. store \in [Names -> Directory] BY <1>3 DEF ProfilesTypeOK
    <2> HIDE DEF m
    <2>4. [meta |-> m, record |-> d.record, certs |-> d.certs] \in Directory
        BY <2>1, <2>2 DEF Directory, Certificates
    <2> QED BY <1>3, <1>7, <2>3, <2>4
<1>9. stage' \in {"idle", "command"} /\ ok' \in BOOLEAN /\ loose' \in BOOLEAN /\ cuts' \in 0..MaxCuts
      /\ (n # 4 => loose' = TRUE /\ stage' = "idle")
    <2>1. ok \in BOOLEAN /\ loose \in BOOLEAN BY <1>3, Zenon DEF ProfilesTypeOK
    <2>2. CASE n = 4 BY <1>1, <1>3, <2>1, <2>2
    <2>3. CASE n # 4
        <3>1. Cut /\ loose' = TRUE BY <1>1, <2>3
        <3>2. stage' = "idle" /\ ok' \in BOOLEAN /\ loose' \in BOOLEAN BY <3>1, Zenon DEF Cut
        <3>3. cuts' \in 0..MaxCuts BY <1>3, <3>1 DEF Cut
        <3> QED BY <3>1, <3>2, <3>3
    <2> QED BY <2>2, <2>3
<1>10. ProfilesTypeOK'
    <2>1. mingled' \in BOOLEAN /\ applied' \in BOOLEAN BY <1>2, <1>3, Zenon DEF ProfilesTypeOK
    <2>2. cmd' \in 0..MaxCommands BY <1>2, <1>3
    <2> QED BY <1>2, <1>3, <1>6, <1>8, <1>9, <2>1, <2>2 DEF ProfilesTypeOK
<1>11. Steady' BY <1>2, <1>3, <1>4, <1>6, <1>9 DEF Steady
<1>12. Numbered' /\ AllSound'
    <2>1. cmd' \in Nat /\ Past \subseteq Past' BY <1>2, <1>3, <1>9 DEF Past
    <2>2. Numbered' BY <1>2, <1>8, <2>1 DEF ProfilesInv, Numbered
    <2>3. AllSound' BY <1>2, <1>8 DEF ProfilesInv, AllSound
    <2> QED BY <2>2, <2>3
<1>13. AbsentForgets' /\ ProjectsAreRecorded' BY <1>2, <1>4 DEF AbsentForgets, ProjectsAreRecorded
<1>14. DefaultLoads' /\ CurrentLoads'
    <2>1. CASE n # 4 BY <1>9, <2>1 DEF DefaultLoads, CurrentLoads
    <2>2. CASE n = 4
        <3>1. home'.current = "default" /\ store'["default"].meta = "default" BY <1>5, <1>6, <1>8, <2>2
        <3>2. InUse' = "default" BY <3>1 DEF InUse
        <3>3. Loads("default")' BY <3>1 DEF Loads
        <3> QED BY <3>2, <3>3 DEF DefaultLoads, CurrentLoads, Loads
    <2> QED BY <2>1, <2>2
<1>15. CertificatesMatch' BY <1>2 DEF CertificatesMatch
<1> QED BY <1>10, <1>11, <1>12, <1>13, <1>14, <1>15 DEF ProfilesInv

LEMMA MigrateKeeps ==
    ASSUME ProfilesAssumption, ProfilesInv, EnsureInstalled, Migrate \/ LatestInstalled
    PROVE  ProfilesInv'
<1>1. /\ home.root = TRUE /\ stage = "idle" /\ cmd < MaxCommands /\ cmd' = cmd + 1 /\ applied' = FALSE
      /\ UNCHANGED <<containers, projects, expired, target, given, mingled, store, loose>>
    BY DEF Migrate, LatestInstalled, EnsureInstalled, ProfilesInv, ProfilesTypeOK
<1>2. ProfilesTypeOK /\ cmd \in Nat /\ MaxCommands \in Nat /\ cuts \in 0..MaxCuts /\ MaxCuts \in Nat
    BY DEF ProfilesInv, ProfilesTypeOK, ProfilesAssumption
<1>3. stage' \in {"idle", "command"} /\ ok' \in BOOLEAN /\ cuts' \in 0..MaxCuts
    <2>1. ok \in BOOLEAN BY <1>2, Zenon DEF ProfilesTypeOK
    <2>2. \/ stage' = "command" /\ UNCHANGED <<ok, cuts>>
          \/ Refused
          \/ Cut
        BY DEF Migrate, LatestInstalled
    <2>3. ok' \in BOOLEAN BY <2>1, <2>2, Zenon DEF Refused, Cut
    <2>4. stage' \in {"idle", "command"} /\ cuts' \in 0..MaxCuts BY <1>2, <2>2 DEF Refused, Cut
    <2> QED BY <2>3, <2>4
<1>4. /\ home' \in [root : BOOLEAN, current : Names \cup {"absent", "corrupt"},
                    version : {"absent", "old", "latest"}]
      /\ home'.root = TRUE /\ home'.current = home.current
    BY <1>1, <1>2 DEF Migrate, LatestInstalled, ProfilesTypeOK
<1>5. ProfilesTypeOK'
    <2>1. loose' \in BOOLEAN /\ mingled' \in BOOLEAN /\ applied' \in BOOLEAN
        BY <1>1, <1>2, Zenon DEF ProfilesTypeOK
    <2>2. cmd' \in 0..MaxCommands BY <1>1, <1>2
    <2> QED BY <1>1, <1>2, <1>3, <1>4, <2>1, <2>2 DEF ProfilesTypeOK
<1>6. Steady' BY <1>1, <1>2, <1>4 DEF Steady
<1>7. Numbered' /\ AbsentForgets' /\ ProjectsAreRecorded' /\ AllSound'
    BY <1>1, <1>2, <1>5, LeavesDirectories
<1>8. DefaultLoads' BY <1>1, <1>4 DEF ProfilesInv, DefaultLoads, Loads
<1>9. CurrentLoads'
    <2>1. InUse' = InUse BY <1>4 DEF InUse
    <2>2. CurrentLoads BY DEF ProfilesInv
    <2> QED BY <1>1, <1>4, <2>1, <2>2 DEF CurrentLoads, Loads
<1>10. CertificatesMatch' BY <1>1 DEF CertificatesMatch
<1> QED BY <1>5, <1>6, <1>7, <1>8, <1>9, <1>10 DEF ProfilesInv

\* The others.
LEMMA UpgradeKeeps ==
    ASSUME ProfilesAssumption, ProfilesInv, Upgrade
    PROVE  ProfilesInv'
<1>1. /\ stage = "idle" /\ home' = [home EXCEPT !.version = "old"]
      /\ UNCHANGED <<stage, store, containers, projects, expired, cmd, target, ok, applied, cuts,
                     loose, given, mingled>>
    BY DEF Upgrade, history
<1>2. ProfilesTypeOK /\ cmd \in Nat BY DEF ProfilesInv, ProfilesTypeOK
<1>3. /\ home' \in [root : BOOLEAN, current : Names \cup {"absent", "corrupt"},
                    version : {"absent", "old", "latest"}]
      /\ home'.root = home.root /\ home'.current = home.current
    BY <1>1, <1>2 DEF ProfilesTypeOK
<1>4. ProfilesTypeOK' BY <1>1, <1>2, <1>3 DEF ProfilesTypeOK
<1>5. Steady' BY <1>1, <1>3 DEF Steady, ProfilesInv
<1>6. Numbered' /\ AbsentForgets' /\ ProjectsAreRecorded' /\ AllSound'
    BY <1>1, <1>2, <1>4, LeavesDirectories
<1>7. DefaultLoads' BY <1>1, <1>3 DEF ProfilesInv, DefaultLoads, Loads
<1>8. CurrentLoads'
    <2>1. InUse' = InUse BY <1>3 DEF InUse
    <2>2. CurrentLoads BY DEF ProfilesInv
    <2> QED BY <1>1, <1>3, <2>1, <2>2 DEF CurrentLoads, Loads
<1>9. CertificatesMatch' BY <1>1 DEF CertificatesMatch, ProfilesInv
<1> QED BY <1>4, <1>5, <1>6, <1>7, <1>8, <1>9 DEF ProfilesInv

LEMMA ExpireKeeps ==
    ASSUME ProfilesAssumption, ProfilesInv, Expire
    PROVE  ProfilesInv'
<1>1. /\ stage = "idle" /\ expired' \in (expired + 1)..cmd
      /\ UNCHANGED <<stage, home, store, containers, projects, cmd, target, ok, applied, cuts,
                     loose, given, mingled>>
    BY DEF Expire, history
<1>2. ProfilesTypeOK /\ cmd \in 0..MaxCommands /\ expired \in Nat /\ MaxCommands \in Nat
    BY DEF ProfilesInv, ProfilesTypeOK, ProfilesAssumption
<1>3. expired' \in 0..MaxCommands BY <1>1, <1>2
<1>4. ProfilesTypeOK' BY <1>1, <1>2, <1>3 DEF ProfilesTypeOK
<1>5. Steady' BY <1>1 DEF Steady, ProfilesInv
<1>6. Numbered' /\ AbsentForgets' /\ ProjectsAreRecorded' /\ AllSound'
    BY <1>1, <1>2, <1>4, LeavesDirectories
<1>7. DefaultLoads' BY <1>1 DEF ProfilesInv, DefaultLoads, Loads
<1>8. CurrentLoads'
    <2>1. InUse' = InUse BY <1>1 DEF InUse
    <2>2. CurrentLoads BY DEF ProfilesInv
    <2> QED BY <1>1, <2>1, <2>2 DEF CurrentLoads, Loads
<1>9. CertificatesMatch' BY <1>1 DEF CertificatesMatch, ProfilesInv
<1> QED BY <1>4, <1>5, <1>6, <1>7, <1>8, <1>9 DEF ProfilesInv

LEMMA StutterKeeps ==
    ASSUME ProfilesInv, UNCHANGED profilesVars
    PROVE  ProfilesInv'
BY DEF ProfilesInv, profilesVars, ProfilesTypeOK, Steady, Numbered, Past, AbsentForgets, ProjectsAreRecorded,
       DefaultLoads, CurrentLoads, InUse, Loads, AllSound, CertificatesMatch

LEMMA InitProfilesInv ==
    ASSUME ProfilesAssumption, ProfilesInit
    PROVE  ProfilesInv
<1>1. /\ stage = "idle" /\ cmd = 0 /\ target = "default" /\ ok = TRUE /\ applied = FALSE
      /\ home = [root |-> FALSE, current |-> "absent", version |-> "absent"]
      /\ store = [p \in Names |-> NoDirectory] /\ containers = [p \in Names |-> {}]
      /\ projects = {} /\ expired = 0 /\ cuts = 0 /\ loose = FALSE /\ given = {} /\ mingled = FALSE
    BY DEF ProfilesInit
<1>2. MaxCommands \in Nat /\ MaxCuts \in Nat /\ "default" \in Names BY DEF ProfilesAssumption
<1>3. NoPair \in Pair /\ NoRecord \in Record BY <1>2 DEF NoPair, Pair, NoRecord, Record
<1>4. NoDirectory \in Directory BY <1>3 DEF NoDirectory, Directory, NoCerts
<1>5. ProfilesTypeOK
    <2>1. ok \in BOOLEAN /\ applied \in BOOLEAN /\ loose \in BOOLEAN /\ mingled \in BOOLEAN
        BY <1>1, Zenon
    <2>2. home \in [root : BOOLEAN, current : Names \cup {"absent", "corrupt"},
                    version : {"absent", "old", "latest"}]
        BY <1>1
    <2> QED BY <1>1, <1>2, <1>4, <2>1, <2>2 DEF ProfilesTypeOK
<1>6. Steady BY <1>1 DEF Steady
<1>7. 0 \in Past BY <1>1, <1>2 DEF Past
<1>8. \A p \in Names : store[p].record.project = 0 /\ \A f \in CertFile : store[p].certs[f].made = 0
    BY <1>1 DEF NoDirectory, NoRecord, NoCerts, NoPair
<1>9. Numbered BY <1>1, <1>7, <1>8 DEF Numbered
<1>10. AbsentForgets /\ ProjectsAreRecorded BY <1>1 DEF AbsentForgets, ProjectsAreRecorded
<1>11. DefaultLoads /\ CurrentLoads BY <1>1 DEF DefaultLoads, CurrentLoads
<1>12. AllSound BY <1>8, CertFiles DEF AllSound, Sound
<1>13. CertificatesMatch BY <1>1 DEF CertificatesMatch
<1> QED BY <1>5, <1>6, <1>9, <1>10, <1>11, <1>12, <1>13 DEF ProfilesInv

LEMMA ProfilesInvariance ==
    ASSUME ProfilesAssumption
    PROVE  ProfilesSpec => []ProfilesInv
<1>1. ProfilesInit => ProfilesInv BY InitProfilesInv
<1>2. ASSUME ProfilesInv, [ProfilesNext]_profilesVars PROVE ProfilesInv'
    <2>1. CASE EnsureInstalled
        <3>1. Install \/ Migrate \/ LatestInstalled BY <2>1 DEF EnsureInstalled
        <3> QED BY <1>2, <2>1, <3>1, InstallKeeps, MigrateKeeps
    <2>2. CASE ProfileCommand BY <1>2, <2>2, CommandKeeps
    <2>3. CASE Upgrade BY <1>2, <2>3, UpgradeKeeps
    <2>4. CASE Expire BY <1>2, <2>4, ExpireKeeps
    <2>5. CASE UNCHANGED profilesVars BY <1>2, <2>5, StutterKeeps
    <2> QED BY <1>2, <2>1, <2>2, <2>3, <2>4, <2>5, Zenon DEF ProfilesNext
<1>3. ProfilesInv /\ [ProfilesNext]_profilesVars => ProfilesInv' BY <1>2
<1> QED BY <1>1, <1>3, PTL DEF ProfilesSpec

\* However commands are cut, a project in Elastic Cloud is recorded by a profile until it is
\* deleted, given up, or lost by the boot that created it.
THEOREM ProjectsStayRecorded ==
    ASSUME ProfilesAssumption
    PROVE  ProfilesSpec => []ProjectsAreRecorded
<1>1. ProfilesSpec => []ProfilesInv BY ProfilesInvariance
<1>2. ProfilesInv => ProjectsAreRecorded BY DEF ProfilesInv
<1> QED BY <1>1, <1>2, PTL

\* The profile that commands use when none is given exists.
THEOREM CurrentProfileExists ==
    ASSUME ProfilesAssumption
    PROVE  ProfilesSpec => []CurrentProfileLoads
<1>1. ProfilesSpec => []ProfilesInv BY ProfilesInvariance
<1>2. ProfilesInv => CurrentLoads BY DEF ProfilesInv
<1>3. CurrentLoads => CurrentProfileLoads BY CurrentLoadsIs
<1> QED BY <1>1, <1>2, <1>3, PTL

\* Wherever boots were cut and whichever of their writes failed, a command that wrote the
\* files of the stack leaves certificates that fit together (CertificatesMatch: not in a
\* directory with certificates of several origins, or with a CA whose key alone was not
\* written).
THEOREM CertificatesFit ==
    ASSUME ProfilesAssumption
    PROVE  ProfilesSpec => []CertificatesMatch
<1>1. ProfilesSpec => []ProfilesInv BY ProfilesInvariance
<1>2. ProfilesInv => CertificatesMatch BY DEF ProfilesInv
<1> QED BY <1>1, <1>2, PTL

-----------------------------------------------------------------------------
(***************************************************************************)
(* Testers: any data streams, polls, documents, assertions, failing calls  *)
(* and commands.                                                           *)
(***************************************************************************)
Words == {"plain", "field", "bad"}
Statuses == {"pass", "fail", "error", "skip"}
Edition == [version : Nat, volatile : Nat]

\* The types that the rest relies on.
TestersTypes ==
    /\ test.kind \in Kinds /\ defect \in Defects(test.kind) \cup {"none"}
    /\ version \in Nat /\ run \in Nat /\ faults \in Nat
    /\ results \in Seq(Statuses)
    /\ file \in Edition /\ output \in Edition

-----------------------------------------------------------------------------
\* What every step but the next command has in common.
Counted == faults' \in Nat /\ faults' >= faults
Typed ==
    /\ UNCHANGED shared /\ Counted
    /\ results' \in Seq(Statuses) /\ file' \in Edition /\ output' \in Edition

LEMMA Counts ==
    ASSUME TestersTypes, Works \/ Fails \/ FailsDetached \/ UNCHANGED faults
    PROVE  Counted
BY DEF TestersTypes, Works, Fails, FailsDetached, Counted

LEMMA ResultLists ==
    /\ <<>> \in Seq(Statuses)
    /\ \A v \in Statuses : <<v>> \in Seq(Statuses)
    /\ \A v, w \in Statuses : <<v, w>> \in Seq(Statuses)
    /\ \A s \in Seq(Statuses), v \in Statuses : Append(s, v) \in Seq(Statuses)
BY DEF Statuses

LEMMA Editions ==
    ASSUME TestersTypes
    PROVE  /\ [version |-> version, volatile |-> run] \in Edition
           /\ CleanPolicy(output) \in Edition
BY DEF TestersTypes, Edition, CleanPolicy

LEMMA CommandTypes == ASSUME TestersTypes, Commands PROVE Typed
<1>1. Works \/ Fails \/ FailsDetached \/ UNCHANGED faults
    BY DEF Commands, StaticCommand, PipelineCommand, SystemCommand, AssetCommand, PolicyCommand
<1>2. PICK k \in Kinds : BeginCommand(k)
    BY DEF Commands, StaticCommand, PipelineCommand, SystemCommand, AssetCommand, PolicyCommand,
           Kinds
<1> QED
    BY <1>1, <1>2, Counts DEF BeginCommand, Carries, Typed, TestersTypes, local

LEMMA ReportTypes == ASSUME TestersTypes, ProcessResults \/ Skip PROVE Typed
<1>1. Works \/ Fails \/ FailsDetached \/ UNCHANGED faults
    BY DEF ProcessResults, Skip
<1> QED
    BY <1>1, Counts, ResultLists
    DEF ProcessResults, Skip, Goto, Returns, Carries, Typed, TestersTypes, local, Statuses

LEMMA SystemTypes == ASSUME TestersTypes, SystemStep PROVE Typed /\ UNCHANGED local
<1>1. Works \/ Fails \/ FailsDetached \/ UNCHANGED faults
    BY DEF SystemStep, BeginSystem, SearchDataStreams, DiscoveryExpires, RefuseHitCount, GetDocs,
           WaitExpires, VerifyDataStream, PrepareFails, RejectStream, AcceptStream,
           ValidationFails, FinishValidation, TearDownTest, CheckAgentLogs
<1>2. UNCHANGED shared /\ UNCHANGED local
    BY DEF SystemStep, BeginSystem, SearchDataStreams, DiscoveryExpires, RefuseHitCount, GetDocs,
           WaitExpires, VerifyDataStream, PrepareFails, RejectStream, AcceptStream,
           ValidationFails, FinishValidation, TearDownTest, CheckAgentLogs, Goto, Returns, Discovered
<1>3. results' \in Seq(Statuses)
    BY ResultLists
    DEF SystemStep, BeginSystem, SearchDataStreams, DiscoveryExpires, RefuseHitCount, GetDocs,
        WaitExpires, VerifyDataStream, PrepareFails, RejectStream, AcceptStream,
        ValidationFails, FinishValidation, TearDownTest, CheckAgentLogs, Returns, Discovered,
        Carries, Verdict, Statuses, TestersTypes
<1> QED BY <1>1, <1>2, <1>3, Counts DEF Typed, TestersTypes, local

LEMMA PipelineTypes == ASSUME TestersTypes, PipelineStep PROVE Typed
<1>1. Works \/ Fails \/ FailsDetached \/ UNCHANGED faults
    BY DEF PipelineStep, InstallTestPipelines, InstallTestPipelinesFails, Simulate, VerifyResults,
           VerifyResultsFails, CheckElasticsearchLogs, UninstallTestPipelines
<1>2. UNCHANGED shared
    BY DEF PipelineStep, InstallTestPipelines, InstallTestPipelinesFails, Simulate, VerifyResults,
           VerifyResultsFails, CheckElasticsearchLogs, UninstallTestPipelines, Goto, Returns
<1>3. results' \in Seq(Statuses)
    BY ResultLists
    DEF PipelineStep, InstallTestPipelines, InstallTestPipelinesFails, Simulate, VerifyResults,
        VerifyResultsFails, CheckElasticsearchLogs, UninstallTestPipelines, Returns, Carries,
        Compared, Statuses, TestersTypes
<1>4. file' \in Edition /\ output' \in Edition
    BY Editions
    DEF PipelineStep, InstallTestPipelines, InstallTestPipelinesFails, Simulate, VerifyResults,
        VerifyResultsFails, CheckElasticsearchLogs, UninstallTestPipelines, local, TestersTypes
<1> QED BY <1>1, <1>2, <1>3, <1>4, Counts DEF Typed

LEMMA PackageTypes == ASSUME TestersTypes, PackageStep PROVE Typed
<1>1. Counted
  <2>1. CASE \E next \in {"apply", "compare", "report", "tearDown"} :
                InstallTestedPackageFails(next)
    BY <2>1 DEF InstallTestedPackageFails, TestersTypes, Counted
  <2>2. CASE Works \/ Fails \/ FailsDetached \/ UNCHANGED faults
    BY <2>2, Counts
  <2> QED
    BY <2>1, <2>2
    DEF PackageStep, SetupRunner, CreatePolicy, ComparePolicy, DeletePolicy, BeginAsset,
        CompareAssets, RemoveTestedPackage, InstallTestedPackage
<1>2. UNCHANGED shared
    BY DEF PackageStep, SetupRunner, CreatePolicy, ComparePolicy, DeletePolicy, BeginAsset,
           CompareAssets, RemoveTestedPackage, InstallTestedPackage, InstallTestedPackageFails,
           Goto, Returns
<1>3. results' \in Seq(Statuses)
    BY ResultLists
    DEF PackageStep, SetupRunner, CreatePolicy, ComparePolicy, DeletePolicy, BeginAsset,
        CompareAssets, RemoveTestedPackage, InstallTestedPackage, InstallTestedPackageFails,
        Returns, Carries, Statuses, TestersTypes
<1>4. file' \in Edition /\ output' \in Edition
    BY Editions
    DEF PackageStep, SetupRunner, CreatePolicy, ComparePolicy, DeletePolicy, BeginAsset,
        CompareAssets, RemoveTestedPackage, InstallTestedPackage, InstallTestedPackageFails,
        local, TestersTypes
<1> QED BY <1>1, <1>2, <1>3, <1>4 DEF Typed

LEMMA StaticTypes == ASSUME TestersTypes, VerifyStatic \/ TearDown PROVE Typed
<1>1. results' \in Seq(Statuses)
  <2>1. ASSUME NEW v \in {<<>>, <<"error">>, <<"pass">>}, NEW w \in {<<>>, <<"fail">>, <<"pass">>}
        PROVE  v \o w \in Seq(Statuses)
    BY <2>1, ResultLists, ConcatProperties DEF Statuses
  <2> QED BY <2>1 DEF VerifyStatic, TearDown, Returns, Carries, TestersTypes
<1> QED
    BY <1>1 DEF VerifyStatic, TearDown, Returns, Goto, Counted, Typed, TestersTypes, local

LEMMA TesterTypes == ASSUME TestersTypes, TesterStep PROVE Typed
BY CommandTypes, ReportTypes, SystemTypes, PipelineTypes, PackageTypes, StaticTypes DEF TesterStep

\* A step of the whole specification: of the tester, the signal, a document or the next command.
LEMMA TestersTypesKept ==
    ASSUME TestersTypes, TestersNext
    PROVE  TestersTypes'
<1>1. CASE NextRun
  <2>1. test'.kind = test.kind BY <1>1 DEF NextRun, Tests
  <2>a. version' \in {version, version + 1} /\ run' = run + 1 /\ faults' = 0
    BY <1>1, Zenon DEF NextRun
  <2>2. version' \in Nat /\ run' \in Nat /\ faults' \in Nat BY <2>a DEF TestersTypes
  <2>3. results' \in Seq(Statuses) BY <1>1, ResultLists DEF NextRun
  <2>4. file' \in Edition /\ output' \in Edition
    BY <1>1 DEF NextRun, TestersTypes, Edition, None
  <2> QED BY <1>1, <2>1, <2>2, <2>3, <2>4 DEF NextRun, TestersTypes
<1>2. CASE InterruptTester
  BY <1>2 DEF InterruptTester, TestersTypes, shared, local
<1>3. CASE \E s \in Streams : Arrive(s)
  BY <1>3 DEF Arrive, TestersTypes, shared, local
<1>4. CASE TesterStep
  BY <1>4, TesterTypes DEF Typed, Counted, TestersTypes, shared
<1> QED BY <1>1, <1>2, <1>3, <1>4 DEF TestersNext

LEMMA InitTestersTypes ==
    ASSUME TestersInit PROVE TestersTypes
<1>1. test.kind \in Kinds /\ defect \in Defects(test.kind) \cup {"none"}
  <2>1. PICK k \in Kinds : test \in Tests(k) /\ defect \in Defects(k) \cup {"none"}
    BY DEF TestersInit
  <2>2. test.kind = k BY <2>1 DEF Tests
  <2> QED BY <2>1, <2>2
<1>2. file \in Edition /\ output \in Edition
  <2>1. output = None /\ file \in {None} \cup {[version |-> 1, volatile |-> 0]}
    BY DEF TestersInit, Fresh
  <2> QED BY <2>1 DEF None, Edition
<1>3. results \in Seq(Statuses) BY ResultLists DEF TestersInit, Fresh
<1> QED BY <1>1, <1>2, <1>3 DEF TestersInit, Fresh, TestersTypes

-----------------------------------------------------------------------------
(* The expected result on disk.                                            *)

\* What is compared is what this edition produced, and nothing was compared before.
Comparing ==
    /\ pc = "compare" /\ Compares => output.version = version
    /\ why = "compare" => pc \notin {"command", "begin", "simulate", "apply", "compare"}
    /\ GeneratedIsAccepted

\* Equal once the dynamic fields are removed, results are of one edition.
LEMMA ComparedEditions ==
    ASSUME NEW r \in Edition, NEW q \in Edition, test.masked \/ test.kind = "policy",
           r.version = q.version
    PROVE  Comparable(r) = Comparable(q)
BY DEF Comparable, CleanPolicy, Adjust, Edition

\* Equal results are of one edition.
LEMMA EqualEditions ==
    ASSUME NEW r \in Edition, NEW q \in Edition, Comparable(r) = Comparable(q)
    PROVE  r.version = q.version
<1>1. Comparable(r).version = r.version /\ Comparable(q).version = q.version
    BY DEF Comparable, CleanPolicy, Adjust, Edition
<1> QED BY <1>1

\* What a step that compares nothing keeps.
Early == {"command", "begin", "simulate", "apply"}
Quiet ==
    /\ UNCHANGED <<shared, file, output, why>>
    /\ UNCHANGED pc \/ (pc' \in Early \cup {"compare"} => pc \in Early /\ (pc' = "compare" => ~Compares))

LEMMA QuietKeeps ==
    ASSUME Comparing, Quiet
    PROVE  Comparing'
BY DEF Comparing, Quiet, Early, GeneratedIsAccepted, shared, Compares

LEMMA QuietSteps ==
    ASSUME \/ Commands \/ ProcessResults \/ Skip \/ SystemStep \/ VerifyStatic \/ TearDown
           \/ InstallTestPipelines \/ InstallTestPipelinesFails \/ CheckElasticsearchLogs
           \/ UninstallTestPipelines \/ SetupRunner \/ DeletePolicy \/ BeginAsset
           \/ CompareAssets \/ RemoveTestedPackage
    PROVE  Quiet
<1> USE DEF Quiet, Early, At, Goto, Returns, local
<1>1. CASE Commands
  BY <1>1
  DEF Commands, StaticCommand, PipelineCommand, SystemCommand, AssetCommand, PolicyCommand,
      BeginCommand
<1>2. CASE ProcessResults \/ Skip \/ VerifyStatic \/ TearDown
  BY <1>2 DEF ProcessResults, Skip, VerifyStatic, TearDown
<1>3. CASE SystemStep
  BY <1>3
  DEF SystemStep, BeginSystem, SearchDataStreams, DiscoveryExpires, RefuseHitCount, GetDocs,
      WaitExpires, VerifyDataStream, PrepareFails, RejectStream, AcceptStream,
      ValidationFails, FinishValidation, TearDownTest, CheckAgentLogs, Discovered
<1>4. CASE InstallTestPipelines \/ InstallTestPipelinesFails \/ CheckElasticsearchLogs
           \/ UninstallTestPipelines
  BY <1>4
  DEF InstallTestPipelines, InstallTestPipelinesFails, CheckElasticsearchLogs,
      UninstallTestPipelines
<1>5. CASE SetupRunner \/ DeletePolicy \/ BeginAsset \/ CompareAssets \/ RemoveTestedPackage
  BY <1>5
  DEF SetupRunner, DeletePolicy, BeginAsset, CompareAssets, RemoveTestedPackage,
      InstallTestedPackage, InstallTestedPackageFails, Compares
<1> QED BY <1>1, <1>2, <1>3, <1>4, <1>5

LEMMA ComparingKept ==
    ASSUME TestersTypes, Comparing, TestersNext
    PROVE  Comparing'
<1> USE DEF At
<1>1. CASE NextRun
  <2>1. why' = "" /\ pc' = "command" BY <1>1 DEF NextRun
  <2> QED BY <2>1 DEF Comparing, GeneratedIsAccepted
<1>2. CASE InterruptTester \/ \E s \in Streams : Arrive(s)
  <2>1. Quiet BY <1>2 DEF InterruptTester, Arrive, Quiet, local
  <2> QED BY <2>1, QuietKeeps
<1>3. CASE Simulate
  BY <1>3 DEF Simulate, Goto, Returns, Comparing, GeneratedIsAccepted, Compares, shared
<1>4. CASE VerifyResults
  <2> DEFINE compared == IF test.compare THEN Compared(file') ELSE "pass"
  <2>1. /\ pc' = "logs" /\ UNCHANGED <<shared, output>>
        /\ why' = IF compared = "fail" THEN "compare" ELSE ""
    BY <1>4 DEF VerifyResults, Returns, Goto
  <2>2. pc = "compare" /\ test.kind = "pipeline" /\ output.version = version
    BY <1>4 DEF VerifyResults, Comparing, Compares
  <2>3. ASSUME why' = "compare", test.masked PROVE file'.version # version
    <3>1. Comparable(file') # Comparable(output) BY <2>1, <2>3 DEF Compared
    <3>2. file' \in Edition BY <1>4, TesterTypes DEF TesterStep, PipelineStep, Typed
    <3> QED BY <2>2, <2>3, <3>1, <3>2, ComparedEditions DEF TestersTypes
  <2> QED BY <2>1, <2>3 DEF Comparing, GeneratedIsAccepted, shared
<1>5. CASE VerifyResultsFails
  BY <1>5 DEF VerifyResultsFails, Goto, Returns, Comparing, GeneratedIsAccepted, shared
<1>6. CASE CreatePolicy
  BY <1>6 DEF CreatePolicy, Goto, Returns, Comparing, GeneratedIsAccepted, Compares, shared
<1>7. CASE ComparePolicy
  <2>1. pc = "compare" /\ test.kind = "policy" /\ output.version = version
    BY <1>7 DEF ComparePolicy, Comparing, Compares
  <2>2. pc' = "clean" /\ UNCHANGED <<shared, output>>
    BY <1>7 DEF ComparePolicy, Returns, Goto
  <2>3. ASSUME why' = "compare" PROVE file'.version # version
    <3>1. why # "compare" BY <2>1 DEF Comparing
    <3>2. ~test.generate /\ file' = file /\ Comparable(file) # Comparable(output)
      BY <1>7, <2>3, <3>1 DEF ComparePolicy, Compared
    <3> QED BY <2>1, <3>2, ComparedEditions DEF TestersTypes
  <2> QED BY <2>2, <2>3 DEF Comparing, GeneratedIsAccepted, shared
<1> QED
  BY <1>1, <1>2, <1>3, <1>4, <1>5, <1>6, <1>7, QuietSteps, QuietKeeps
  DEF TestersNext, TesterStep, PipelineStep, PackageStep

\* The steps with the types, for every conjunct of the invariant that follows.
LEMMA TestersStart == TestersInit => TestersTypes /\ Comparing
BY InitTestersTypes DEF TestersInit, Fresh, Comparing, GeneratedIsAccepted

\* An expected result of this edition is never rejected because of identifiers, revisions or
\* dynamic fields, whichever tester, command and edition wrote it.
THEOREM GeneratedResultsAreAccepted ==
    TestersSpec => []GeneratedIsAccepted
<1>1. TestersTypes /\ Comparing /\ [TestersNext]_testersVars => (TestersTypes /\ Comparing)'
  <2>1. CASE UNCHANGED testersVars
    BY <2>1 DEF testersVars, shared, local, TestersTypes, Comparing, GeneratedIsAccepted, Compares
  <2> QED BY <2>1, TestersTypesKept, ComparingKept
<1>2. Comparing => GeneratedIsAccepted BY DEF Comparing
<1> QED BY <1>1, <1>2, TestersStart, PTL DEF TestersSpec

-----------------------------------------------------------------------------
(* What is left in Elasticsearch and Fleet.                                *)

\* What a command that met no failure has created, and who remembers it, by the tester.
PipelinesHeld ==
    /\ remote \subseteq Range(TestPipelines)
    /\ pc \in {"command", "begin"} => remote = {}
    /\ pc \in {"simulate", "compare", "logs"} => mine = TestPipelines
    /\ pc = "tearDown" => mine = TestPipelines \/ cancelled \/ remote = {}
    /\ pc \in {"report", "passed", "failed"} => cancelled \/ remote = {}

AgentPolicyHeld ==
    /\ remote \subseteq {"package", "policy"}
    /\ pc \in {"command", "begin"} => remote = {}
    /\ pc = "apply" => remote \subseteq {"package"}
    /\ pc \in {"compare", "clean"} => remote \subseteq {"package"} \cup Range(mine)
    /\ pc = "tearDown" => cancelled \/ remote \subseteq {"package"}
    /\ pc \in {"report", "passed", "failed"} => "package" \notin remote /\ (cancelled \/ remote = {})

AssetsHeld ==
    /\ remote \subseteq {"package"}
    /\ pc \in {"command", "begin", "report", "passed", "failed"} => remote = {}

Holding ==
    /\ test.kind \in {"system", "static"} => remote = {}
    /\ test.kind = "pipeline" => PipelinesHeld
    /\ test.kind = "policy" => AgentPolicyHeld
    /\ test.kind = "asset" => AssetsHeld

Held == faults = 0 => Holding

LEMMA Ranges ==
    /\ Range(<<>>) = {} /\ Range(<<"policy">>) = {"policy"}
    /\ TestPipelines # <<>> /\ "package" \notin Range(TestPipelines)
    /\ \A n \in 0..Len(TestPipelines) : Range(SubSeq(TestPipelines, 1, n)) \subseteq Range(TestPipelines)
<1>1. /\ Range(<<>>) = {} /\ Range(<<"policy">>) = {"policy"}
      /\ TestPipelines # <<>> /\ "package" \notin Range(TestPipelines)
    BY DEF Range, TestPipelines
<1>2. TestPipelines \in Seq({"default", "nested"}) BY DEF TestPipelines
<1>3. ASSUME NEW n \in 0..Len(TestPipelines)
      PROVE  Range(SubSeq(TestPipelines, 1, n)) \subseteq Range(TestPipelines)
    BY <1>2, SubSeqProperties DEF Range
<1> QED BY <1>1, <1>3

\* Without a failure a call fails when the context is cancelled, and a detached one does not.
LEMMA NoFault ==
    ASSUME TestersTypes, faults' = 0, Counted
    PROVE  /\ faults = 0
           /\ Fails => cancelled
           /\ ~FailsDetached
BY DEF TestersTypes, Fails, FailsDetached, Counted

LEMMA HeldKept ==
    ASSUME TestersTypes, Held, TestersNext
    PROVE  Held'
<1> SUFFICES ASSUME faults' = 0 PROVE Holding'
  BY DEF Held
<1>1. CASE NextRun
  <2>1. remote' = {} /\ pc' = "command" BY <1>1 DEF NextRun
  <2> QED BY <2>1 DEF Holding, PipelinesHeld, AgentPolicyHeld, AssetsHeld
<1>2. CASE InterruptTester
  BY <1>2 DEF InterruptTester, Held, Holding, PipelinesHeld, AgentPolicyHeld, AssetsHeld, shared, local
<1>3. CASE \E s \in Streams : Arrive(s)
  BY <1>3 DEF Arrive, Held, Holding, PipelinesHeld, AgentPolicyHeld, AssetsHeld, shared, local
<1>4. CASE TesterStep
  <2> USE DEF At, Goto, Returns, local, shared
  <2>1. Typed BY <1>4, TesterTypes
  <2>2. Holding /\ (Fails => cancelled) /\ ~FailsDetached
    BY <2>1, NoFault DEF Typed, Held
  <2>3. CASE SystemStep
    <3>1. test.kind = "system"
      BY <2>3
      DEF SystemStep, BeginSystem, SearchDataStreams, DiscoveryExpires, RefuseHitCount, GetDocs,
          WaitExpires, VerifyDataStream, PrepareFails, RejectStream, AcceptStream,
          ValidationFails, FinishValidation, TearDownTest, CheckAgentLogs
    <3> QED BY <2>1, <2>2, <2>3, <3>1, SystemTypes DEF Holding, Typed
  <2>4. CASE Commands
    BY <2>2, <2>4
    DEF Commands, StaticCommand, PipelineCommand, SystemCommand, AssetCommand, PolicyCommand,
        BeginCommand, Holding, PipelinesHeld, AgentPolicyHeld, AssetsHeld
  <2>5. CASE ProcessResults
    BY <2>2, <2>5 DEF ProcessResults, Holding, PipelinesHeld, AgentPolicyHeld, AssetsHeld
  <2>6. CASE Skip
    BY <2>2, <2>6 DEF Skip, Holding, AssetsHeld
  <2>7. CASE VerifyStatic \/ TearDown
    BY <2>2, <2>7 DEF VerifyStatic, TearDown, Holding
  <2>8. CASE PipelineStep
    <3>1. CASE InstallTestPipelines
      BY <2>2, <3>1 DEF InstallTestPipelines, Holding, PipelinesHeld
    <3>2. CASE InstallTestPipelinesFails
      BY <2>2, <3>2, Ranges DEF InstallTestPipelinesFails, Holding, PipelinesHeld
    <3>3. CASE Simulate
      BY <2>2, <3>3 DEF Simulate, Holding, PipelinesHeld
    <3>4. CASE VerifyResults
      BY <2>2, <3>4 DEF VerifyResults, Holding, PipelinesHeld
    <3>5. CASE VerifyResultsFails
      BY <2>2, <3>5 DEF VerifyResultsFails, Holding, PipelinesHeld
    <3>6. CASE CheckElasticsearchLogs
      BY <2>2, <3>6 DEF CheckElasticsearchLogs, Holding, PipelinesHeld
    <3>7. CASE UninstallTestPipelines
      BY <2>2, <3>7, Ranges DEF UninstallTestPipelines, Works, Holding, PipelinesHeld
    <3> QED BY <2>8, <3>1, <3>2, <3>3, <3>4, <3>5, <3>6, <3>7 DEF PipelineStep
  <2>9. CASE PackageStep
    <3>1. ASSUME NEW next, InstallTestedPackageFails(next)
          PROVE  /\ cancelled /\ pc' = next
                 /\ remote' \subseteq remote \cup {"package"}
                 /\ test.kind = "policy" => remote' = remote
      <4>1. PICK left \in {{}, {"package"}} :
                LET again == IF left # {} /\ (cancelled \/ test.kind = "policy") THEN 1 ELSE 0
                    first == IF cancelled THEN 0 ELSE 1 IN
                /\ faults' = faults + first + again
                /\ remote' = remote \cup left
        BY <3>1 DEF InstallTestedPackageFails
      <4>2. faults = 0 BY <2>1, NoFault DEF Typed
      <4>3. cancelled /\ (test.kind = "policy" => left = {}) BY <4>1, <4>2
      <4> QED BY <3>1, <4>1, <4>3 DEF InstallTestedPackageFails
    <3>2. CASE SetupRunner
      BY <2>2, <3>1, <3>2 DEF SetupRunner, InstallTestedPackage, InstallTestedPackageFails, Holding, AgentPolicyHeld
    <3>3. CASE CreatePolicy
      BY <2>2, <3>3, Ranges DEF CreatePolicy, Holding, AgentPolicyHeld
    <3>4. CASE ComparePolicy
      BY <2>2, <3>4 DEF ComparePolicy, Holding, AgentPolicyHeld
    <3>5. CASE DeletePolicy
      BY <2>2, <3>5, Ranges DEF DeletePolicy, Holding, AgentPolicyHeld
    <3>6. CASE BeginAsset
      BY <2>2, <3>1, <3>6 DEF BeginAsset, InstallTestedPackage, InstallTestedPackageFails, Holding, AssetsHeld
    <3>7. CASE CompareAssets
      BY <2>2, <3>7 DEF CompareAssets, Holding, AssetsHeld
    <3>8. CASE RemoveTestedPackage
      BY <2>2, <3>8 DEF RemoveTestedPackage, Holding, AgentPolicyHeld, AssetsHeld
    <3> QED BY <2>9, <3>2, <3>3, <3>4, <3>5, <3>6, <3>7, <3>8 DEF PackageStep
  <2> QED BY <1>4, <2>3, <2>4, <2>5, <2>6, <2>7, <2>8, <2>9 DEF TesterStep
<1> QED BY <1>1, <1>2, <1>3, <1>4 DEF TestersNext

\* A command none of whose calls failed leaves nothing in Elasticsearch or Fleet, and an
\* interrupted one no package, for any number of data streams, polls, documents and commands.
THEOREM TestersLeaveNothing ==
    TestersSpec => []NothingIsLeft
<1>1. TestersInit => TestersTypes /\ Held
  <2>1. TestersInit => remote = {} /\ pc = "command" BY DEF TestersInit, Fresh
  <2>2. remote = {} /\ pc = "command" => Held
    BY DEF Held, Holding, PipelinesHeld, AgentPolicyHeld, AssetsHeld
  <2> QED BY <2>1, <2>2, InitTestersTypes
<1>2. TestersTypes /\ Held /\ [TestersNext]_testersVars => (TestersTypes /\ Held)'
  <2>1. CASE UNCHANGED testersVars
    BY <2>1 DEF testersVars, shared, local, TestersTypes, Held, Holding, PipelinesHeld, AgentPolicyHeld,
                AssetsHeld
  <2> QED BY <2>1, TestersTypesKept, HeldKept
<1>3. TestersTypes /\ Held => NothingIsLeft
  BY Ranges
  DEF TestersTypes, Kinds, Held, Holding, PipelinesHeld, AgentPolicyHeld, AssetsHeld, NothingIsLeft, Done
<1> QED BY <1>1, <1>2, <1>3, PTL DEF TestersSpec

-----------------------------------------------------------------------------
(* The documents that the system tester fetches.                           *)

FetchTypes ==
    /\ docs \in [Streams -> Seq(Words)] /\ poll.streams \subseteq Streams
    /\ todo \in Seq(Streams) /\ hits \in Seq([stream : Streams, docs : Seq(Words)])
    /\ wait \in [old : Nat, found : BOOLEAN, expired : BOOLEAN]

LEMMA MainStreamIsData == MainStream \in Streams \ Rollups
BY TestersAssumption DEF TestersAssumption, MainStream

Least(m, n) == IF m < n THEN m ELSE n

LEMMA Beginning ==
    ASSUME NEW d \in Seq(Words)
    PROVE  /\ SubSeq(d, 1, Least(Len(d), QuerySize)) \in Seq(Words)
           /\ Range(SubSeq(d, 1, Least(Len(d), QuerySize))) = {d[i] : i \in 1..Least(Len(d), QuerySize)}
<1>1. Least(Len(d), QuerySize) \in 0..Len(d)
    BY TestersAssumption, LenProperties DEF TestersAssumption, Least
<1> QED BY <1>1, SubSeqProperties DEF Range

\* A search returns documents of its data stream.
LEMMA SearchIsBeginning ==
    ASSUME FetchTypes, NEW s \in Streams
    PROVE  Search(s) \in Seq(Words) /\ Range(Search(s)) \subseteq Range(docs[s])
<1>1. docs[s] \in Seq(Words) BY DEF FetchTypes
<1>2. /\ Search(s) \in Seq(Words)
      /\ Range(Search(s)) = {docs[s][i] : i \in 1..Least(Len(docs[s]), QuerySize)}
  BY <1>1, Beginning DEF Search, Least
<1>3. DOMAIN docs[s] = 1..Len(docs[s]) /\ Len(docs[s]) \in Nat BY <1>1, LenProperties
<1>4. 1..Least(Len(docs[s]), QuerySize) \subseteq DOMAIN docs[s]
    BY <1>3, TestersAssumption DEF TestersAssumption, Least
<1> QED BY <1>2, <1>4 DEF Range

\* A document that arrives takes none away from its data stream.
LEMMA ArriveGrows ==
    ASSUME FetchTypes, NEW s \in Streams, Arrive(s)
    PROVE  /\ docs' \in [Streams -> Seq(Words)]
           /\ \A t \in Streams : Range(docs[t]) \subseteq Range(docs'[t])
<1>1. PICK q \in Words, k \in 1..(Len(docs[s]) + 1) : docs' = [docs EXCEPT ![s] = PutAt(@, k, q)]
    BY DEF Arrive, Words
<1> DEFINE d == docs[s]
           e == PutAt(d, k, q)
<1>2. d \in Seq(Words) /\ Len(d) \in Nat /\ DOMAIN d = 1..Len(d)
    BY LenProperties DEF FetchTypes
<1>3. \A i \in 1..Len(d) : d[i] \in Words BY <1>2, ElementOfSeq
<1> HIDE DEF d
<1>4. e = [j \in 1..(Len(d) + 1) |-> IF j < k THEN d[j] ELSE IF j = k THEN q ELSE d[j - 1]]
    BY DEF PutAt
<1>5. k \in Int BY <1>1, <1>2 DEF d
<1>6. ASSUME NEW j \in 1..(Len(d) + 1) PROVE e[j] \in Words
  <2>1. CASE j < k BY <1>1, <1>2, <1>3, <1>4, <1>5, <2>1 DEF d
  <2>2. CASE j = k BY <1>4, <2>2
  <2>3. CASE j > k
    <3>1. j - 1 \in 1..Len(d) BY <1>1, <1>2, <1>5, <2>3 DEF d
    <3>2. e[j] = d[j - 1] BY <1>4, <1>5, <2>3
    <3> QED BY <1>3, <3>1, <3>2
  <2> QED BY <1>2, <1>5, <2>1, <2>2, <2>3
<1>7. e \in Seq(Words)
  <2>1. e \in [1..(Len(d) + 1) -> Words] BY <1>4, <1>6
  <2>2. Len(d) + 1 \in Nat BY <1>2
  <2> HIDE DEF e
  <2> QED BY <2>1, <2>2
<1>8. ASSUME NEW x \in Range(d) PROVE x \in Range(e)
  <2>1. PICK i \in 1..Len(d) : x = d[i] BY <1>2 DEF Range
  <2>2. i \in Int /\ Len(d) \in Int BY <1>2
  <2>3. CASE i < k
    <3>1. i \in 1..(Len(d) + 1) /\ e[i] = d[i] BY <1>4, <1>5, <2>2, <2>3
    <3>2. DOMAIN e = 1..(Len(d) + 1) BY <1>4
    <3> QED BY <2>1, <3>1, <3>2 DEF Range
  <2>4. CASE ~(i < k)
    <3>1. i + 1 \in 1..(Len(d) + 1) BY <2>2
    <3>2. ~(i + 1 < k) /\ i + 1 # k /\ (i + 1) - 1 = i BY <1>5, <2>2, <2>4
    <3>3. e[i + 1] = d[i] BY <1>4, <3>1, <3>2
    <3>4. DOMAIN e = 1..(Len(d) + 1) BY <1>4
    <3> QED BY <2>1, <3>1, <3>3, <3>4 DEF Range
  <2> QED BY <2>3, <2>4
<1>9. docs' = [docs EXCEPT ![s] = e] BY <1>1 DEF d
<1> HIDE DEF e
<1> QED BY <1>7, <1>8, <1>9 DEF FetchTypes, d

-----------------------------------------------------------------------------
\* The data streams that the system tester has to verify, and those it fetched.
Targets == IF test.dynamic THEN poll.streams \ Rollups ELSE {MainStream}
Fetched == {hits[i].stream : i \in DOMAIN hits}
Distinct(q) == \A i, j \in DOMAIN q : q[i] = q[j] => i = j

\* Every target is fetched or is one of the rest, once.
Awaited(rest) ==
    /\ Fetched \cup Range(rest) = Targets /\ Fetched \cap Range(rest) = {}
    /\ Distinct(rest)

\* A data stream that was validated.
Validated(h) ==
    /\ "bad" \notin Range(h.docs)
    /\ message \/ (test.hitCount # 0 => Len(h.docs) = test.hitCount)

\* Those after the first ones, which are validated, are still to be validated.
Validating ==
    /\ hits # <<>> /\ Len(todo) <= Len(hits) /\ Fetched = Targets
    /\ defect # "exit" /\ (Len(todo) < Len(hits) => defect \notin {"mapping", "transform"})
    /\ \A i \in 1..Len(todo) : todo[i] = hits[Len(hits) - Len(todo) + i].stream
    /\ \A i \in 1..(Len(hits) - Len(todo)) : Validated(hits[i])

HitsHold ==
    /\ \A i, j \in DOMAIN hits : hits[i].stream = hits[j].stream => i = j
    /\ \A i \in DOMAIN hits : /\ hits[i].docs # <<>>
                              /\ test.fields => "field" \in Range(docs[hits[i].stream])

Waiting ==
    /\ todo # <<>> /\ Awaited(todo) /\ ~wait.expired
    /\ wait.found => "field" \in Range(docs[Current])

Verifying ==
    todo # <<>> /\ (wait.expired \/ (hits # <<>> /\ Awaited(Tail(todo))))

Progress ==
    /\ pc \in {"command", "begin", "discover"} => hits = <<>> /\ wait = NoWait
    /\ pc = "discover" => test.dynamic
    /\ pc = "wait" => Waiting
    /\ pc = "verify" => Verifying
    /\ pc = "validate" => Validating

SystemFetches == test.kind = "system" => FetchTypes /\ HitsHold /\ Progress

-----------------------------------------------------------------------------
LEMMA FirstAndRest ==
    ASSUME NEW q \in Seq(Streams), q # <<>>, Distinct(q)
    PROVE  /\ Head(q) \in Streams /\ Tail(q) \in Seq(Streams)
           /\ Range(q) = {Head(q)} \cup Range(Tail(q)) /\ Head(q) \notin Range(Tail(q))
           /\ Distinct(Tail(q))
<1>1. /\ Head(q) \in Streams /\ Tail(q) \in Seq(Streams)
      /\ Len(Tail(q)) = Len(q) - 1 /\ Len(q) \in Nat \ {0}
      /\ \A i \in 1..Len(Tail(q)) : Tail(q)[i] = q[i + 1]
    BY HeadTailProperties, EmptySeq
<1>2. Head(q) = q[1] OBVIOUS
<1>3. DOMAIN q = 1..Len(q) /\ DOMAIN Tail(q) = 1..Len(Tail(q)) BY <1>1, LenProperties
<1>4. \A j \in DOMAIN q : j = 1 \/ (j - 1 \in DOMAIN Tail(q) /\ Tail(q)[j - 1] = q[j]) BY <1>1, <1>3
<1>5. \A i \in DOMAIN Tail(q) : i + 1 \in DOMAIN q /\ i + 1 # 1 /\ Tail(q)[i] = q[i + 1] BY <1>1, <1>3
<1>6. 1 \in DOMAIN q BY <1>1, <1>3
<1>7. Range(q) = {Head(q)} \cup Range(Tail(q))
  <2>1. ASSUME NEW x \in Range(q) PROVE x = Head(q) \/ x \in Range(Tail(q))
    <3>1. PICK j \in DOMAIN q : x = q[j] BY DEF Range
    <3> QED BY <1>2, <1>4, <3>1 DEF Range
  <2>2. ASSUME NEW x \in Range(Tail(q)) PROVE x \in Range(q)
    <3>1. PICK j \in DOMAIN Tail(q) : x = Tail(q)[j] BY DEF Range
    <3> QED BY <1>5, <3>1 DEF Range
  <2>3. Head(q) \in Range(q) BY <1>2, <1>6 DEF Range
  <2> QED BY <2>1, <2>2, <2>3
<1>8. Head(q) \notin Range(Tail(q)) BY <1>2, <1>5, <1>6 DEF Range, Distinct
<1>9. Distinct(Tail(q))
  <2> SUFFICES ASSUME NEW i \in DOMAIN Tail(q), NEW j \in DOMAIN Tail(q), Tail(q)[i] = Tail(q)[j]
               PROVE  i = j
    BY DEF Distinct
  <2>1. i + 1 = j + 1 BY <1>5 DEF Distinct
  <2> QED BY <1>3, <2>1
<1> QED BY <1>1, <1>7, <1>8, <1>9

\* A list of n elements that names all n members of a set names each of them once.
LEMMA NamedOnce ==
    ASSUME NEW S \in SUBSET Streams, NEW q \in [1..Cardinality(S) -> S], Range(q) = S
    PROVE  q \in Seq(Streams) /\ Distinct(q) /\ (S # {} => q # <<>>)
<1>1. IsFiniteSet(S) /\ Cardinality(S) \in Nat
    BY FS_Subset, FS_CardinalityType, TestersAssumption DEF TestersAssumption
<1>2. q \in Seq(Streams) BY <1>1
<1>3. Distinct(q)
  <2> DEFINE n == Cardinality(S)
  <2>1. IsFiniteSet(1..n) /\ Cardinality(1..n) = n BY <1>1, FS_Interval
  <2>2. q \in Surjection(1..n, S) BY DEF Surjection, Range
  <2>3. q \in Injection(1..n, S) BY <1>1, <2>1, <2>2, FS_Surjection
  <2> QED BY <2>3 DEF Injection, IsInjective, Distinct
<1>4. S # {} => q # <<>> BY Ranges
<1> QED BY <1>2, <1>3, <1>4

\* What is shown about the documents is about these variables only.
LEMMA FetchesUnchanged ==
    ASSUME FetchTypes, HitsHold, Progress, UNCHANGED <<test, defect, system>>,
           \/ UNCHANGED pc
           \/ pc = "command" /\ pc' = "begin"
           \/ pc' \notin {"command", "begin", "discover", "wait", "verify", "validate"}
    PROVE  FetchTypes' /\ HitsHold' /\ Progress'
<1> USE DEF system
<1>1. FetchTypes' BY DEF FetchTypes
<1>2. HitsHold' BY DEF HitsHold
<1>3. Waiting' <=> Waiting BY DEF Waiting, Awaited, Fetched, Targets, Current
<1>4. Verifying' <=> Verifying BY DEF Verifying, Awaited, Fetched, Targets
<1>5. Validating' <=> Validating BY DEF Validating, Validated, Fetched, Targets
<1>6. Progress' BY <1>3, <1>4, <1>5 DEF Progress
<1> QED BY <1>1, <1>2, <1>6

\* The steps that fetch nothing.
LEMMA FetchesStay ==
    ASSUME FetchTypes, HitsHold, Progress, test.kind = "system",
           \/ Commands \/ ProcessResults \/ Skip \/ RefuseHitCount \/ PrepareFails
           \/ RejectStream \/ ValidationFails \/ FinishValidation \/ TearDownTest \/ CheckAgentLogs
           \/ PipelineStep \/ PackageStep \/ VerifyStatic \/ TearDown \/ InterruptTester
    PROVE  FetchTypes' /\ HitsHold' /\ Progress'
<1> USE DEF At, Goto, Returns
<1>1. UNCHANGED <<test, defect, system>>
  <2>1. CASE Commands
    BY <2>1
    DEF Commands, StaticCommand, PipelineCommand, SystemCommand, AssetCommand, PolicyCommand,
        BeginCommand, shared
  <2>2. CASE PipelineStep \/ PackageStep
    BY <2>2
    DEF PipelineStep, InstallTestPipelines, InstallTestPipelinesFails, Simulate, VerifyResults,
        VerifyResultsFails, CheckElasticsearchLogs, UninstallTestPipelines,
        PackageStep, SetupRunner, CreatePolicy, ComparePolicy, DeletePolicy, BeginAsset,
        CompareAssets, RemoveTestedPackage
  <2>3. CASE \/ ProcessResults \/ Skip \/ RefuseHitCount \/ PrepareFails
             \/ RejectStream \/ ValidationFails \/ FinishValidation \/ TearDownTest \/ CheckAgentLogs
             \/ VerifyStatic \/ TearDown \/ InterruptTester
    BY <2>3
    DEF ProcessResults, Skip, RefuseHitCount, PrepareFails, RejectStream, ValidationFails,
        FinishValidation, TearDownTest, CheckAgentLogs, VerifyStatic, TearDown, InterruptTester,
        shared
  <2> QED BY <2>1, <2>2, <2>3
<1>2. \/ UNCHANGED pc
      \/ pc = "command" /\ pc' = "begin"
      \/ pc' \notin {"command", "begin", "discover", "wait", "verify", "validate"}
  <2>1. CASE Commands
    BY <2>1
    DEF Commands, StaticCommand, PipelineCommand, SystemCommand, AssetCommand, PolicyCommand,
        BeginCommand
  <2>2. CASE PipelineStep \/ PackageStep
    BY <2>2
    DEF PipelineStep, InstallTestPipelines, InstallTestPipelinesFails, Simulate, VerifyResults,
        VerifyResultsFails, CheckElasticsearchLogs, UninstallTestPipelines,
        PackageStep, SetupRunner, CreatePolicy, ComparePolicy, DeletePolicy, BeginAsset,
        CompareAssets, RemoveTestedPackage
  <2>3. CASE \/ ProcessResults \/ Skip \/ RefuseHitCount \/ PrepareFails
             \/ RejectStream \/ ValidationFails \/ FinishValidation \/ TearDownTest \/ CheckAgentLogs
             \/ VerifyStatic \/ TearDown \/ InterruptTester
    BY <2>3
    DEF ProcessResults, Skip, RefuseHitCount, PrepareFails, RejectStream, ValidationFails,
        FinishValidation, TearDownTest, CheckAgentLogs, VerifyStatic, TearDown, InterruptTester
  <2> QED BY <2>1, <2>2, <2>3
<1> QED BY <1>1, <1>2, FetchesUnchanged

LEMMA FetchArrive ==
    ASSUME FetchTypes, HitsHold, Progress, NEW s \in Streams, Arrive(s)
    PROVE  FetchTypes' /\ HitsHold' /\ Progress'
<1>1. UNCHANGED <<test, defect, pc, poll, todo, hits, wait, message>> BY DEF Arrive, shared
<1>2. FetchTypes' BY <1>1, ArriveGrows DEF FetchTypes
<1>3. HitsHold'
  <2>1. ASSUME NEW i \in DOMAIN hits, test.fields PROVE "field" \in Range(docs'[hits[i].stream])
    <3> DEFINE Hit == [stream : Streams, docs : Seq(Words)]
    <3>1. hits \in Seq(Hit) BY DEF FetchTypes
    <3> HIDE DEF Hit
    <3>2. DOMAIN hits = 1..Len(hits) BY <3>1, LenProperties
    <3>3. hits[i] \in Hit BY <2>1, <3>1, <3>2, ElementOfSeq
    <3>4. hits[i].stream \in Streams BY <3>3 DEF Hit
    <3>5. "field" \in Range(docs[hits[i].stream]) BY <2>1 DEF HitsHold
    <3> QED BY <3>4, <3>5, ArriveGrows
  <2> QED BY <1>1, <2>1 DEF HitsHold
<1>4. Waiting => Waiting'
  <2> SUFFICES ASSUME Waiting PROVE Waiting'
    OBVIOUS
  <2>1. Awaited(todo)' BY <1>1 DEF Waiting, Awaited, Fetched, Targets
  <2>2. Current \in Streams /\ Current' = Current
    BY <1>1, HeadTailProperties DEF Waiting, FetchTypes, Current
  <2>3. wait.found => "field" \in Range(docs'[Current])
    BY <2>2, ArriveGrows DEF Waiting
  <2> QED BY <1>1, <2>1, <2>2, <2>3 DEF Waiting
<1>5. Verifying' <=> Verifying BY <1>1 DEF Verifying, Awaited, Fetched, Targets
<1>6. pc # "validate" BY DEF Arrive
<1>7. Progress' BY <1>1, <1>4, <1>5, <1>6 DEF Progress
<1> QED BY <1>2, <1>3, <1>7

LEMMA FetchBegin ==
    ASSUME FetchTypes, HitsHold, Progress, BeginSystem
    PROVE  FetchTypes' /\ HitsHold' /\ Progress'
<1> USE DEF BeginSystem, At, Goto
<1>1. UNCHANGED <<test, defect, docs, poll, hits, wait, message>> /\ hits = <<>> /\ wait = NoWait
    BY DEF shared, Progress
<1>2. HitsHold' BY <1>1 DEF HitsHold
<1>3. CASE test.dynamic
  <2>1. todo' = todo /\ pc' = "discover" BY <1>3
  <2> QED BY <1>1, <1>2, <1>3, <2>1 DEF FetchTypes, Progress
<1>4. CASE ~test.dynamic
  <2>1. todo' = <<MainStream>> /\ pc' = "wait" BY <1>4
  <2>2. todo' \in Seq(Streams) /\ todo' # <<>> BY <2>1, MainStreamIsData
  <2>3. Range(todo') = {MainStream} /\ Distinct(todo') BY <2>1 DEF Range, Distinct
  <2>4. Fetched' = {} BY <1>1 DEF Fetched
  <2>5. Targets' = {MainStream} BY <1>1, <1>4 DEF Targets
  <2>6. Awaited(todo)' BY <2>3, <2>4, <2>5 DEF Awaited
  <2>7. wait'.expired = FALSE /\ wait'.found = FALSE BY <1>1 DEF NoWait
  <2>8. Waiting' BY <2>2, <2>6, <2>7 DEF Waiting
  <2>9. FetchTypes' BY <1>1, <2>2 DEF FetchTypes
  <2> QED BY <1>2, <2>1, <2>8, <2>9 DEF Progress
<1> QED BY <1>3, <1>4

LEMMA FetchDiscovered ==
    ASSUME FetchTypes, HitsHold, Progress, pc = "discover",
           NEW S \in SUBSET Streams, Discovered(S), poll'.streams = S,
           UNCHANGED <<docs, hits, wait, message>>
    PROVE  FetchTypes' /\ HitsHold' /\ Progress'
<1> USE DEF Discovered
<1>1. UNCHANGED <<test, defect>> BY DEF Returns, Goto, shared
<1>2. HitsHold' BY <1>1 DEF HitsHold
<1>3. hits = <<>> /\ wait = NoWait /\ test.dynamic BY DEF Progress
<1>4. CASE S \subseteq Rollups
  BY <1>2, <1>4 DEF Returns, Goto, FetchTypes, Progress
<1>5. CASE ~(S \subseteq Rollups)
  <2> DEFINE T == S \ Rollups
  <2>1. todo' \in [1..Cardinality(T) -> T] /\ Range(todo') = T /\ pc' = "wait"
    BY <1>5 DEF Goto
  <2>2. todo' \in Seq(Streams) /\ Distinct(todo') /\ todo' # <<>>
    BY <1>5, <2>1, NamedOnce
  <2>3. Fetched' = {} /\ Targets' = T BY <1>1, <1>3 DEF Fetched, Targets
  <2>4. Awaited(todo)' BY <2>1, <2>2, <2>3 DEF Awaited
  <2>5. wait'.expired = FALSE /\ wait'.found = FALSE BY <1>3 DEF NoWait
  <2>6. Waiting' BY <2>2, <2>4, <2>5 DEF Waiting
  <2>7. FetchTypes' BY <2>2 DEF FetchTypes
  <2> QED BY <1>2, <2>1, <2>6, <2>7 DEF Progress
<1> QED BY <1>4, <1>5

LEMMA FetchDiscovers ==
    ASSUME FetchTypes, HitsHold, Progress, SearchDataStreams \/ DiscoveryExpires
    PROVE  FetchTypes' /\ HitsHold' /\ Progress'
<1>1. CASE SearchDataStreams
  <2>1. /\ pc = "discover" /\ UNCHANGED <<docs, hits, wait, message>> /\ poll' = PollOf(Found)
        /\ Discovered(Found) \/ (Goto(pc) /\ UNCHANGED todo)
    BY <1>1 DEF SearchDataStreams, At
  <2>2. Found \in SUBSET Streams /\ poll'.streams = Found BY <2>1 DEF Found, PollOf
  <2>3. CASE Discovered(Found)
    BY <2>1, <2>2, <2>3, FetchDiscovered
  <2>4. CASE Goto(pc) /\ UNCHANGED todo
    <3>1. UNCHANGED <<test, defect, pc>> BY <2>4 DEF Goto, shared
    <3> QED BY <2>1, <2>2, <2>4, <3>1 DEF FetchTypes, HitsHold, Progress
  <2> QED BY <2>1, <2>3, <2>4
<1>2. CASE DiscoveryExpires
  BY <1>2, FetchDiscovered DEF DiscoveryExpires, At, FetchTypes
<1> QED BY <1>1, <1>2

\* A search whose documents satisfy the assertions is kept.
LEMMA FetchGets ==
    ASSUME FetchTypes, HitsHold, Progress, GetDocs
    PROVE  FetchTypes' /\ HitsHold' /\ Progress'
<1> DEFINE ds == Search(Current)
           h == [stream |-> Current, docs |-> ds]
           holds == ds # <<>> /\ HitCountHolds(Len(ds)) /\ FieldsHold(ds)
<1>1. /\ pc = "wait" /\ UNCHANGED <<docs, poll, todo, message>>
      /\ wait' = [wait EXCEPT !.old = Len(ds), !.found = FieldSeen(ds)]
      /\ IF holds THEN hits' = Append(hits, h) /\ Goto("verify") ELSE UNCHANGED hits /\ Goto(pc)
    BY DEF GetDocs, At
<1>2. UNCHANGED <<test, defect>> BY <1>1 DEF Goto, shared
<1>3. Waiting BY <1>1 DEF Progress
<1>4. Current \in Streams BY <1>3, HeadTailProperties DEF Waiting, FetchTypes, Current
<1>5. ds \in Seq(Words) BY <1>4, SearchIsBeginning
<1>6. /\ wait' \in [old : Nat, found : BOOLEAN, expired : BOOLEAN]
      /\ wait'.found = FieldSeen(ds) /\ wait'.expired = wait.expired
  <2>1. FieldSeen(ds) \in BOOLEAN BY Zenon DEF FieldSeen
  <2>2. Len(ds) \in Nat BY <1>5, LenProperties
  <2> QED BY <1>1, <2>1, <2>2 DEF FetchTypes
<1>7. FieldSeen(ds) => "field" \in Range(docs[Current])
  <2>1. Range(ds) \subseteq Range(docs[Current]) BY <1>4, SearchIsBeginning
  <2> QED BY <1>3, <2>1 DEF FieldSeen, Waiting
<1> HIDE DEF ds
<1>8. CASE holds
  <2>1. hits' = Append(hits, h) /\ pc' = "verify" BY <1>1, <1>8 DEF Goto
  <2>2. h \in [stream : Streams, docs : Seq(Words)] BY <1>4, <1>5
  <2>3. /\ hits' \in Seq([stream : Streams, docs : Seq(Words)]) /\ hits' # <<>>
        /\ Len(hits') = Len(hits) + 1 /\ Len(hits) \in Nat
        /\ \A i \in 1..Len(hits) : hits'[i] = hits[i]
        /\ hits'[Len(hits) + 1] = h
    BY <2>1, <2>2, AppendProperties, LenProperties DEF FetchTypes
  <2>4. DOMAIN hits = 1..Len(hits) /\ DOMAIN hits' = 1..(Len(hits) + 1)
    BY <2>3, LenProperties DEF FetchTypes
  <2>5. /\ \A i \in DOMAIN hits : i \in DOMAIN hits' /\ hits'[i] = hits[i]
        /\ \A i \in DOMAIN hits' : i \in DOMAIN hits \/ (i = Len(hits) + 1 /\ hits'[i] = h)
        /\ Len(hits) + 1 \in DOMAIN hits'
    BY <2>3, <2>4
  <2>6. /\ \A i \in DOMAIN hits : hits[i].stream # Current
        /\ Range(todo) = {Current} \cup Range(Tail(todo)) /\ Current \notin Range(Tail(todo))
        /\ Distinct(Tail(todo))
        /\ Fetched \cup Range(todo) = Targets /\ Fetched \cap Range(todo) = {}
    <3>1. /\ Range(todo) = {Current} \cup Range(Tail(todo)) /\ Current \notin Range(Tail(todo))
          /\ Distinct(Tail(todo))
      BY <1>3, FirstAndRest DEF Waiting, Awaited, FetchTypes, Current
    <3>2. Fetched \cup Range(todo) = Targets /\ Fetched \cap Range(todo) = {}
      BY <1>3 DEF Waiting, Awaited
    <3>3. Current \notin Fetched BY <3>1, <3>2
    <3> QED BY <3>1, <3>2, <3>3 DEF Fetched
  <2>7. Fetched' = Fetched \cup {Current}
    <3>1. ASSUME NEW x \in Fetched' PROVE x \in Fetched \cup {Current}
      <4>1. PICK i \in DOMAIN hits' : x = hits'[i].stream BY DEF Fetched
      <4> QED BY <2>5, <4>1 DEF Fetched
    <3>2. Fetched \subseteq Fetched' BY <2>5 DEF Fetched
    <3>3. Current \in Fetched' BY <2>3, <2>5 DEF Fetched
    <3> QED BY <3>1, <3>2, <3>3
  <2>8. HitsHold'
    <3>1. h.stream = Current /\ h.docs = ds OBVIOUS
    <3>2. ASSUME NEW i \in DOMAIN hits', NEW j \in DOMAIN hits', hits'[i].stream = hits'[j].stream
          PROVE  i = j
      BY <2>5, <2>6, <3>1, <3>2 DEF HitsHold
    <3>3. ASSUME NEW i \in DOMAIN hits'
          PROVE  hits'[i].docs # <<>> /\ (test'.fields => "field" \in Range(docs'[hits'[i].stream]))
      <4>1. test.fields => "field" \in Range(docs[Current]) BY <1>7, <1>8 DEF FieldsHold
      <4>2. CASE i \in DOMAIN hits BY <1>1, <1>2, <2>5, <4>2 DEF HitsHold
      <4>3. CASE hits'[i] = h BY <1>1, <1>2, <1>8, <3>1, <4>1, <4>3
      <4> QED BY <2>5, <4>2, <4>3
    <3> QED BY <3>2, <3>3 DEF HitsHold
  <2>9. Verifying'
    <3>1. Targets' = Targets /\ todo' = todo BY <1>1, <1>2 DEF Targets
    <3>2. Awaited(Tail(todo))' BY <2>6, <2>7, <3>1 DEF Awaited
    <3> QED BY <1>3, <2>3, <3>1, <3>2 DEF Waiting, Verifying
  <2> QED BY <1>1, <1>6, <2>1, <2>3, <2>8, <2>9 DEF FetchTypes, Progress
<1>9. CASE ~holds
  <2>1. UNCHANGED <<pc, hits>> BY <1>1, <1>9 DEF Goto
  <2>2. HitsHold' BY <1>1, <1>2, <2>1 DEF HitsHold
  <2>3. docs'[Current'] = docs[Current] BY <1>1 DEF Current
  <2>4. Waiting'
    BY <1>1, <1>2, <1>3, <1>6, <1>7, <2>1, <2>3 DEF Waiting, Awaited, Fetched, Targets
  <2> QED BY <1>1, <1>6, <2>1, <2>2, <2>4 DEF FetchTypes, Progress
<1> QED BY <1>8, <1>9

LEMMA FetchWaitExpires ==
    ASSUME FetchTypes, HitsHold, Progress, WaitExpires
    PROVE  FetchTypes' /\ HitsHold' /\ Progress'
<1>1. /\ UNCHANGED <<test, defect, docs, poll, todo, hits, message>> /\ pc = "wait" /\ pc' = "verify"
      /\ wait' = [wait EXCEPT !.expired = TRUE]
    BY DEF WaitExpires, At, Goto, shared
<1>2. wait' \in [old : Nat, found : BOOLEAN, expired : BOOLEAN] /\ wait'.expired
    BY <1>1 DEF FetchTypes
<1>3. HitsHold' BY <1>1 DEF HitsHold
<1> QED BY <1>1, <1>2, <1>3 DEF FetchTypes, Progress, Waiting, Verifying

\* The next data stream, or the validation of all that was fetched.
LEMMA FetchVerifies ==
    ASSUME FetchTypes, HitsHold, Progress, VerifyDataStream
    PROVE  FetchTypes' /\ HitsHold' /\ Progress'
<1>1. /\ pc = "verify" /\ UNCHANGED <<docs, poll, hits, message>> /\ wait' = NoWait
      /\ IF defect = "exit" \/ wait.expired
         THEN Returns(<<"fail">>, FALSE, "release") /\ UNCHANGED todo
         ELSE IF Len(todo) > 1
              THEN todo' = Tail(todo) /\ Goto("wait")
              ELSE todo' = [i \in DOMAIN hits |-> hits[i].stream] /\ Goto("validate")
    BY DEF VerifyDataStream, At
<1>2. UNCHANGED <<test, defect>> BY <1>1 DEF Returns, Goto, shared
<1>3. HitsHold' BY <1>1, <1>2 DEF HitsHold
<1>4. wait' \in [old : Nat, found : BOOLEAN, expired : BOOLEAN] /\ ~wait'.expired /\ ~wait'.found
    BY <1>1 DEF NoWait
<1>5. todo # <<>> /\ (wait.expired \/ (hits # <<>> /\ Awaited(Tail(todo))))
    BY <1>1 DEF Progress, Verifying
<1>6. /\ Tail(todo) \in Seq(Streams) /\ Len(Tail(todo)) = Len(todo) - 1 /\ Len(todo) \in Nat \ {0}
    BY <1>5, HeadTailProperties, EmptySeq DEF FetchTypes
<1>7. CASE defect = "exit" \/ wait.expired
  <2>1. pc' = "release" /\ todo' = todo BY <1>1, <1>7 DEF Returns, Goto
  <2> QED BY <1>1, <1>3, <1>4, <2>1 DEF FetchTypes, Progress
<1>8. CASE ~(defect = "exit" \/ wait.expired) /\ Len(todo) > 1
  <2>1. todo' = Tail(todo) /\ pc' = "wait" BY <1>1, <1>8 DEF Goto
  <2>2. Fetched' = Fetched /\ Targets' = Targets BY <1>1, <1>2 DEF Fetched, Targets
  <2>3. Awaited(todo)' BY <1>5, <1>8, <2>1, <2>2 DEF Awaited
  <2>4. todo' # <<>> /\ todo' \in Seq(Streams)
    <3>1. todo' \in Seq(Streams) BY <1>6, <2>1
    <3>2. Len(todo') = Len(todo) - 1 BY <1>6, <2>1
    <3>3. Len(todo') # 0 BY <1>6, <1>8, <3>2
    <3> QED BY <3>1, <3>3
  <2>5. Waiting' BY <1>4, <2>3, <2>4 DEF Waiting
  <2> QED BY <1>1, <1>3, <1>4, <2>1, <2>4, <2>5 DEF FetchTypes, Progress
<1>9. CASE ~(defect = "exit" \/ wait.expired) /\ ~(Len(todo) > 1)
  <2>1. todo' = [i \in DOMAIN hits |-> hits[i].stream] /\ pc' = "validate" BY <1>1, <1>9 DEF Goto
  <2>2. /\ DOMAIN hits = 1..Len(hits) /\ Len(hits) \in Nat
        /\ \A i \in DOMAIN hits : hits[i] \in [stream : Streams, docs : Seq(Words)]
    <3> DEFINE Hit == [stream : Streams, docs : Seq(Words)]
    <3>1. hits \in Seq(Hit) BY DEF FetchTypes
    <3> HIDE DEF Hit
    <3>2. /\ DOMAIN hits = 1..Len(hits) /\ Len(hits) \in Nat
          /\ \A i \in DOMAIN hits : hits[i] \in Hit
      BY <3>1, LenProperties
    <3> QED BY <3>2 DEF Hit
  <2>3. todo' \in Seq(Streams) /\ Len(todo') = Len(hits) BY <2>1, <2>2
  <2>4. Fetched = Targets
    <3>1. Tail(todo) = <<>> BY <1>6, <1>9, EmptySeq
    <3> QED BY <1>5, <1>9, <3>1, Ranges DEF Awaited
  <2>5. Fetched' = Fetched /\ Targets' = Targets BY <1>1, <1>2 DEF Fetched, Targets
  <2>6. Validating'
    BY <1>1, <1>2, <1>5, <1>9, <2>1, <2>2, <2>3, <2>4, <2>5 DEF Validating
  <2> QED BY <1>1, <1>3, <1>4, <2>1, <2>3, <2>6 DEF FetchTypes, Progress
<1> QED BY <1>7, <1>8, <1>9

\* The first data stream of the rest is validated with the documents that were fetched from it.
LEMMA FetchAccepts ==
    ASSUME FetchTypes, HitsHold, Progress, AcceptStream
    PROVE  FetchTypes' /\ HitsHold' /\ Progress'
<1> DEFINE n == Len(hits) - Len(todo)
           Hit == [stream : Streams, docs : Seq(Words)]
           d == DocsOf(Current)
<1>1. /\ pc = "validate" /\ todo # <<>> /\ Valid(d)
      /\ UNCHANGED <<docs, poll, hits, wait>>
      /\ IF TransformsHold THEN todo' = Tail(todo) /\ Goto(pc)
                           ELSE Returns(<<"fail">>, FALSE, "release") /\ UNCHANGED todo
    BY DEF AcceptStream, At
<1>2. /\ message => message'
      /\ message' \/ (test.hitCount # 0 => Len(d) = test.hitCount)
    BY Zenon DEF AcceptStream
<1>3. UNCHANGED <<test, defect>> BY <1>1 DEF Returns, Goto, shared
<1>4. HitsHold' BY <1>1, <1>3 DEF HitsHold
<1>5. CASE ~TransformsHold
  <2>1. pc' = "release" /\ todo' = todo BY <1>1, <1>5 DEF Returns, Goto
  <2> QED BY <1>1, <1>4, <2>1 DEF FetchTypes, Progress
<1>6. CASE TransformsHold
  <2>1. todo' = Tail(todo) /\ pc' = "validate" BY <1>1, <1>6 DEF Goto
  <2>2. Validating BY <1>1 DEF Progress
  <2>3. /\ todo \in Seq(Streams) /\ Tail(todo) \in Seq(Streams) /\ Len(Tail(todo)) = Len(todo) - 1
        /\ Len(todo) \in Nat \ {0} /\ \A i \in 1..Len(Tail(todo)) : Tail(todo)[i] = todo[i + 1]
    BY <1>1, HeadTailProperties, EmptySeq DEF FetchTypes
  <2>4. DOMAIN hits = 1..Len(hits) /\ Len(hits) \in Nat
    <3>1. hits \in Seq(Hit) BY DEF FetchTypes
    <3> HIDE DEF Hit
    <3> QED BY <3>1, LenProperties
  <2>5. n \in Nat /\ n + 1 \in DOMAIN hits /\ Len(hits) - Len(todo') = n + 1
    BY <2>1, <2>2, <2>3, <2>4 DEF Validating
  <2>6. Current = hits[n + 1].stream
    <3>1. Current = todo[1] BY DEF Current
    <3>2. todo[1] = hits[n + 1].stream BY <2>2, <2>3 DEF Validating
    <3> QED BY <3>1, <3>2
  <2>7. d = hits[n + 1].docs
    <3> HIDE DEF n
    <3>1. hits[n + 1] \in Range(hits) BY <2>5 DEF Range
    <3>2. \A r \in Range(hits) : r.stream = Current => r = hits[n + 1]
      BY <2>5, <2>6 DEF Range, HitsHold
    <3> QED BY <2>6, <3>1, <3>2 DEF DocsOf
  <2>8. "bad" \notin Range(d) /\ defect # "mapping" /\ defect # "transform"
    BY <1>1, <1>6 DEF Valid, TransformsHold
  <2> HIDE DEF d
  <2>9. ASSUME NEW i \in 1..(n + 1) PROVE Validated(hits[i])'
    <3>1. i = n + 1 \/ i \in 1..n BY <2>5
    <3>2. CASE i = n + 1
      <4>1. hits'[i].docs = d BY <1>1, <2>7, <3>2
      <4> QED BY <1>2, <1>3, <2>8, <4>1 DEF Validated
    <3>3. CASE i \in 1..n
      <4>1. Validated(hits[i]) BY <2>2, <3>3 DEF Validating
      <4> QED BY <1>1, <1>2, <1>3, <4>1 DEF Validated
    <3> QED BY <3>1, <3>2, <3>3
  <2>10. ASSUME NEW i \in 1..Len(todo') PROVE todo'[i] = hits[n + 1 + i].stream
    <3>1. todo'[i] = todo[i + 1] /\ i + 1 \in 1..Len(todo) BY <2>1, <2>3
    <3>2. todo[i + 1] = hits[Len(hits) - Len(todo) + (i + 1)].stream
      BY <2>2, <3>1 DEF Validating
    <3>3. Len(hits) - Len(todo) + (i + 1) = n + 1 + i BY <2>3, <2>4
    <3> QED BY <3>1, <3>2, <3>3
  <2>11. Fetched' = Fetched /\ Targets' = Targets BY <1>1, <1>3 DEF Fetched, Targets
  <2>12. Validating'
    <3>1. hits' = hits BY <1>1
    <3>2. \A i \in 1..Len(todo)' : todo'[i] = hits'[Len(hits') - Len(todo') + i].stream
      BY <2>5, <2>10, <3>1
    <3>3. \A i \in 1..(Len(hits) - Len(todo))' : Validated(hits[i])' BY <2>5, <2>9, <3>1
    <3>4. Len(todo') <= Len(hits') BY <2>5, <2>4, <3>1, <2>1, <2>3
    <3> HIDE DEF n
    <3> QED BY <1>3, <2>2, <2>8, <2>11, <3>1, <3>2, <3>3, <3>4 DEF Validating
  <2> QED BY <1>1, <1>4, <2>1, <2>3, <2>12 DEF FetchTypes, Progress
<1> QED BY <1>5, <1>6

LEMMA SystemFetchesKept ==
    ASSUME TestersTypes, SystemFetches, TestersNext
    PROVE  SystemFetches'
<1> SUFFICES ASSUME test'.kind = "system" PROVE FetchTypes' /\ HitsHold' /\ Progress'
  BY DEF SystemFetches
<1>1. ~NextRun BY DEF NextRun, Tests, Compares
<1>2. test' = test
  BY <1>1, TesterTypes DEF TestersNext, InterruptTester, Arrive, Typed, shared
<1>3. FetchTypes /\ HitsHold /\ Progress BY <1>2 DEF SystemFetches
<1>4. CASE \E s \in Streams : Arrive(s)
  BY <1>3, <1>4, FetchArrive
<1>5. CASE BeginSystem \/ SearchDataStreams \/ DiscoveryExpires
  BY <1>3, <1>5, FetchBegin, FetchDiscovers
<1>6. CASE GetDocs \/ WaitExpires \/ VerifyDataStream \/ AcceptStream
  BY <1>3, <1>6, FetchGets, FetchWaitExpires, FetchVerifies, FetchAccepts
<1>7. CASE \/ Commands \/ ProcessResults \/ Skip \/ RefuseHitCount \/ PrepareFails
           \/ RejectStream \/ ValidationFails \/ FinishValidation \/ TearDownTest \/ CheckAgentLogs
           \/ PipelineStep \/ PackageStep \/ VerifyStatic \/ TearDown \/ InterruptTester
  BY <1>2, <1>3, <1>7, FetchesStay
<1> QED BY <1>1, <1>4, <1>5, <1>6, <1>7 DEF TestersNext, TesterStep, SystemStep

LEMMA SystemFetchesStart == TestersInit => SystemFetches
<1> SUFFICES ASSUME TestersInit PROVE FetchTypes /\ HitsHold /\ Progress
  BY DEF SystemFetches
<1>1. /\ docs = [s \in Streams |-> <<>>] /\ poll.streams = {} /\ todo = <<>> /\ hits = <<>>
      /\ wait = NoWait /\ pc = "command"
  BY DEF TestersInit, Fresh, NoPoll
<1>2. FetchTypes
  <2>1. wait \in [old : Nat, found : BOOLEAN, expired : BOOLEAN] BY <1>1 DEF NoWait
  <2> QED BY <1>1, <2>1 DEF FetchTypes
<1>3. HitsHold /\ Progress BY <1>1 DEF HitsHold, Progress
<1> QED BY <1>2, <1>3

-----------------------------------------------------------------------------
(* What a pass shows.                                                      *)

\* Nothing so far fails the command, and the tester has nothing more to check.
Good == ~error /\ Range(results) \subseteq {"pass"}
Late == {"tearDown", "report", "passed"}

SystemChecked ==
    /\ Fetched = Targets /\ defect \notin {"exit", "mapping", "transform", "warnings"}
    /\ \A i \in DOMAIN hits : /\ "bad" \notin Range(hits[i].docs)
                              /\ test.hitCount # 0 => Len(hits[i].docs) = test.hitCount
PipelineChecked == ~Broken /\ (test.compare => file.version = version)

\* What the tester has checked once it is as far as this.
Shown ==
    /\ At("system", pc) /\ pc \in {"release", "logs"} \cup Late => SystemChecked
    /\ At("system", pc) /\ pc \in Late => defect # "stackLogs"
    /\ At("pipeline", pc) /\ pc \in {"logs"} \cup Late => PipelineChecked
    /\ At("pipeline", pc) /\ pc \in Late => (test.logs => defect # "warnings")
    /\ At("policy", pc) /\ pc \in {"clean"} \cup Late => file.version = version
    /\ At("asset", pc) /\ pc \in Late => defect # "missing"
    /\ At("static", pc) /\ pc \in Late => defect \notin {"benchmark", "badSample"}

Earned ==
    /\ Good => Shown
    /\ pc \in {"logs", "passed"} => ~error

\* A step that neither changes what was checked nor gets further than what was.
LEMMA EarnedStays ==
    ASSUME Earned, pc' # "logs", Good' => Good, pc' = "passed" => ~error',
           UNCHANGED <<test, defect, version, hits, file, poll>>,
           \/ pc' \notin {"release", "logs", "clean"} \cup Late
           \/ pc \in Late /\ pc' \in Late
    PROVE  Earned'
BY DEF Earned, Shown, SystemChecked, PipelineChecked, Broken, Fetched, Targets, At, Late

\* A step whose results are not all passes.
LEMMA EarnedFails ==
    ASSUME ~Good', pc' \notin {"logs", "passed"} \/ ~error'
    PROVE  Earned'
BY DEF Earned

LEMMA NotGood ==
    ASSUME NEW v \in {"fail", "error", "skip"}, results' = <<v>>
    PROVE  ~Good'
<1>1. v \in Range(results') BY DEF Range
<1> QED BY <1>1 DEF Good

LEMMA AppendRange ==
    ASSUME NEW s \in Seq(Statuses), NEW v \in Statuses
    PROVE  Range(Append(s, v)) = Range(s) \cup {v}
<1>1. /\ Append(s, v) \in Seq(Statuses) /\ Len(Append(s, v)) = Len(s) + 1
      /\ \A i \in 1..Len(s) : Append(s, v)[i] = s[i]
      /\ Append(s, v)[Len(s) + 1] = v /\ Len(s) \in Nat
    BY AppendProperties, LenProperties
<1>2. DOMAIN s = 1..Len(s) /\ DOMAIN Append(s, v) = 1..(Len(s) + 1) BY <1>1, LenProperties
<1> QED BY <1>1, <1>2 DEF Range

LEMMA FinishEarns ==
    ASSUME TestersTypes, SystemFetches, FinishValidation
    PROVE  Earned'
<1>1. /\ test.kind = "system" /\ pc = "validate" /\ todo = <<>>
      /\ results' = <<IF Warned THEN "fail" ELSE Verdict>> /\ ~error' /\ pc' = "release"
      /\ UNCHANGED <<shared, system>>
    BY DEF FinishValidation, At, Returns, Goto
<1>2. Validating /\ FetchTypes BY <1>1 DEF SystemFetches, Progress
<1>3. SUFFICES ASSUME Good' PROVE SystemChecked'
  BY <1>1 DEF Earned, Shown, At, Late, shared
<1>4. ~Warned /\ ~message
  <2>1. ~Warned BY <1>1, <1>3, NotGood
  <2>2. Verdict # "fail" BY <1>1, <1>3, <2>1, NotGood
  <2> QED BY <2>1, <2>2 DEF Verdict
<1>5. Len(todo) = 0 /\ Len(hits) \in Nat \ {0} /\ DOMAIN hits = 1..Len(hits)
  <2> DEFINE Hit == [stream : Streams, docs : Seq(Words)]
  <2>1. hits \in Seq(Hit) /\ hits # <<>> BY <1>2 DEF FetchTypes, Validating
  <2> HIDE DEF Hit
  <2> QED BY <1>1, <2>1, EmptySeq, LenProperties
<1>6. defect \notin {"exit", "mapping", "transform", "warnings"}
  BY <1>2, <1>4, <1>5 DEF Validating, Warned
<1>7. ASSUME NEW i \in DOMAIN hits PROVE Validated(hits[i]) BY <1>2, <1>5 DEF Validating
<1>8. Fetched' = Fetched /\ Targets' = Targets BY <1>1 DEF Fetched, Targets, shared, system
<1> QED
  BY <1>1, <1>2, <1>4, <1>6, <1>7, <1>8
  DEF SystemChecked, Validating, Validated, shared, system

LEMMA SystemEarns ==
    ASSUME TestersTypes, SystemFetches, Earned, SystemStep
    PROVE  Earned'
<1> USE DEF At, Goto, Returns, Carries, shared, local
<1>1. CASE BeginSystem \/ GetDocs \/ WaitExpires
  <2>1. pc' \in {"discover", "wait", "verify"} BY <1>1 DEF BeginSystem, GetDocs, WaitExpires
  <2> QED BY <2>1 DEF Earned, Shown, Late
<1>2. CASE RefuseHitCount \/ RejectStream \/ PrepareFails \/ ValidationFails
  <2>1. pc' = "release" /\ (results' = <<"fail">> \/ results' = <<"error">>)
    BY <1>2 DEF RefuseHitCount, RejectStream, PrepareFails, ValidationFails
  <2> QED BY <2>1, NotGood, EarnedFails
<1>3. CASE SearchDataStreams \/ DiscoveryExpires \/ VerifyDataStream \/ AcceptStream
  <2>1. \/ pc' \in {"discover", "wait", "validate"}
        \/ pc' = "release" /\ results' = <<"fail">>
    BY <1>3 DEF SearchDataStreams, DiscoveryExpires, VerifyDataStream, AcceptStream, Discovered
  <2>2. CASE pc' \in {"discover", "wait", "validate"}
    BY <2>2 DEF Earned, Shown, Late
  <2> QED BY <2>1, <2>2, NotGood, EarnedFails
<1>4. CASE FinishValidation BY <1>4, FinishEarns
<1>5. CASE TearDownTest
  <2>1. /\ UNCHANGED <<test, defect, version, hits, file, poll, results>> /\ pc = "release"
        /\ \/ pc' = "logs" /\ ~error /\ ~error'
           \/ pc' = "tearDown" /\ error'
        /\ test.kind = "system"
    BY <1>5 DEF TearDownTest, system
  <2> QED
    BY <2>1
    DEF Earned, Good, Shown, SystemChecked, Fetched, Targets, Late
<1>6. CASE CheckAgentLogs
  <2>1. /\ UNCHANGED <<test, defect, version, hits, file, poll>> /\ pc = "logs"
        /\ pc' = "tearDown" /\ test.kind = "system" /\ ~error
        /\ \/ results' = IF defect = "stackLogs" THEN Append(results, "fail") ELSE results
           \/ error'
    BY <1>6 DEF CheckAgentLogs, Earned, system
  <2>2. CASE error' BY <2>1, <2>2 DEF Earned, Good
  <2>3. CASE defect = "stackLogs" /\ results' = Append(results, "fail")
    <3>1. "fail" \in Range(results')
      BY <2>3, AppendRange DEF TestersTypes, Statuses
    <3>2. ~Good' BY <3>1 DEF Good
    <3> QED BY <2>1, <3>2 DEF Earned
  <2>4. CASE defect # "stackLogs" /\ results' = results
    <3>1. Good' => SystemChecked BY <2>1, <2>4 DEF Earned, Good, Shown, Late
    <3>2. SystemChecked => SystemChecked' BY <2>1 DEF SystemChecked, Fetched, Targets
    <3> QED BY <2>1, <2>4, <3>1, <3>2 DEF Earned, Shown, Late
  <2> QED BY <2>1, <2>2, <2>3, <2>4
<1> QED BY <1>1, <1>2, <1>3, <1>4, <1>5, <1>6 DEF SystemStep

LEMMA PipelineEarns ==
    ASSUME TestersTypes, Comparing, Earned, PipelineStep
    PROVE  Earned'
<1> USE DEF At, Goto, Returns, Carries, shared, local
<1>1. CASE InstallTestPipelines
  BY <1>1 DEF InstallTestPipelines, Earned, Shown, Late
<1>2. CASE InstallTestPipelinesFails
  BY <1>2 DEF InstallTestPipelinesFails, Earned, Good
<1>3. CASE Simulate
  <2>1. \/ pc' = "compare"
        \/ pc' = "logs" /\ ~error' /\ (results' = <<"skip">> \/ results' = <<"error">>)
    BY <1>3 DEF Simulate
  <2> QED BY <2>1, NotGood, EarnedFails DEF Earned, Shown, Late
<1>4. CASE VerifyResults
  <2> DEFINE compared == IF test.compare THEN Compared(file') ELSE "pass"
  <2>1. /\ pc' = "logs" /\ ~error' /\ pc = "compare" /\ test.kind = "pipeline"
        /\ UNCHANGED <<shared, output>>
        /\ results' = IF compared # "pass" THEN <<compared>>
                      ELSE IF Broken THEN <<"fail">> ELSE <<"pass">>
    BY <1>4 DEF VerifyResults
  <2>2. compared \in {"pass", "fail", "error"} BY DEF Compared
  <2>3. ASSUME Good' PROVE compared = "pass" /\ ~Broken
    BY <2>1, <2>2, <2>3, NotGood
  <2>4. ASSUME Good', test.compare PROVE file'.version = version
    <3>1. Comparable(file') = Comparable(output) BY <2>3, <2>4 DEF Compared
    <3>2. file' \in Edition BY <1>4, TesterTypes DEF TesterStep, PipelineStep, Typed
    <3>3. output.version = version BY <2>1 DEF Comparing, Compares
    <3> QED BY <3>1, <3>2, <3>3, EqualEditions DEF TestersTypes
  <2>5. Good' => PipelineChecked' BY <2>1, <2>3, <2>4 DEF PipelineChecked, Broken
  <2> QED BY <2>1, <2>5 DEF Earned, Shown, Late
<1>5. CASE VerifyResultsFails
  <2>1. \/ pc' = "logs" /\ ~error' /\ results' = <<"error">>
        \/ pc' = "tearDown" /\ error'
    BY <1>5 DEF VerifyResultsFails
  <2> QED BY <2>1, NotGood, EarnedFails DEF Good
<1>6. CASE CheckElasticsearchLogs
  <2>1. /\ UNCHANGED <<test, defect, version, file>> /\ pc = "logs"
        /\ pc' = "tearDown" /\ test.kind = "pipeline" /\ ~error
        /\ \/ error'
           \/ ~test.logs /\ results' = results
           \/ test.logs /\ results' = Append(results, IF defect = "warnings" THEN "fail" ELSE "pass")
    BY <1>6 DEF CheckElasticsearchLogs, Earned
  <2>2. CASE error' BY <2>1, <2>2 DEF Earned, Good
  <2>3. CASE ~error'
    <3>1. ASSUME Good'
          PROVE  Range(results) \subseteq {"pass"} /\ (test.logs => defect # "warnings")
      <4>1. CASE ~test.logs /\ results' = results BY <3>1, <4>1 DEF Good
      <4>2. CASE test.logs /\ results' = Append(results, IF defect = "warnings" THEN "fail" ELSE "pass")
        <5>1. Range(results') = Range(results) \cup {IF defect = "warnings" THEN "fail" ELSE "pass"}
          BY <4>2, AppendRange DEF TestersTypes, Statuses
        <5> QED BY <3>1, <5>1 DEF Good
      <4> QED BY <2>1, <2>3, <4>1, <4>2
    <3>2. Good' => PipelineChecked BY <2>1, <3>1 DEF Earned, Good, Shown
    <3>3. PipelineChecked => PipelineChecked' BY <2>1 DEF PipelineChecked, Broken
    <3> QED BY <2>1, <2>3, <3>1, <3>2, <3>3 DEF Earned, Shown, Late
  <2> QED BY <2>2, <2>3
<1>7. CASE UninstallTestPipelines
  <2>1. pc' = "report" /\ pc = "tearDown" /\ (error' \/ error' = error)
        /\ UNCHANGED <<test, defect, version, hits, file, poll, results>>
    BY <1>7 DEF UninstallTestPipelines, system
  <2>2. Good' => Good BY <2>1 DEF Good
  <2> QED BY <2>1, <2>2, EarnedStays DEF Late
<1> QED BY <1>1, <1>2, <1>3, <1>4, <1>5, <1>6, <1>7 DEF PipelineStep

LEMMA PackageEarns ==
    ASSUME TestersTypes, Comparing, Earned, PackageStep
    PROVE  Earned'
<1> USE DEF At, Goto, Returns, Carries, shared, local
<1>1. CASE SetupRunner
  <2>1. (pc' = "apply" /\ test'.kind = "policy") \/ (pc' = "report" /\ error')
    BY <1>1 DEF SetupRunner, InstallTestedPackage, InstallTestedPackageFails
  <2> QED BY <2>1 DEF Earned, Good, Shown, Late
<1>2. CASE BeginAsset
  <2>1. (pc' = "compare" /\ test'.kind = "asset") \/ (pc' = "tearDown" /\ error')
    BY <1>2 DEF BeginAsset, InstallTestedPackage, InstallTestedPackageFails
  <2> QED BY <2>1 DEF Earned, Good, Shown, Late
<1>3. CASE CreatePolicy
  <2>1. \/ pc' = "compare" /\ test'.kind = "policy"
        \/ pc' \in {"clean", "tearDown"} /\ (results' = <<"skip">> \/ results' = <<"error">>)
    BY <1>3 DEF CreatePolicy
  <2> QED BY <2>1, NotGood, EarnedFails DEF Earned, Shown, Late
<1>4. CASE ComparePolicy
  <2>1. /\ pc' = "clean" /\ pc = "compare" /\ test.kind = "policy" /\ UNCHANGED <<shared, output>>
        /\ \/ results' = <<"error">>
           \/ /\ results' = <<"pass">> /\ file' = IF test.generate THEN CleanPolicy(output) ELSE file
              /\ test.generate \/ Compared(file) = "pass"
    BY <1>4 DEF ComparePolicy
  <2>2. CASE results' = <<"error">> BY <2>1, <2>2, NotGood, EarnedFails
  <2>3. CASE results' = <<"pass">> /\ ~(results' = <<"error">>)
    <3>1. output.version = version BY <2>1 DEF Comparing, Compares
    <3>2. CASE test.generate
      <4>1. file'.version = version
        BY <2>1, <2>3, <3>1, <3>2 DEF CleanPolicy, TestersTypes, Edition
      <4> QED BY <2>1, <4>1 DEF Earned, Shown, Late
    <3>3. CASE ~test.generate
      <4>1. file' = file /\ Comparable(file) = Comparable(output)
        BY <2>1, <2>3, <3>3 DEF Compared
      <4>2. file'.version = version BY <3>1, <4>1, EqualEditions DEF TestersTypes
      <4> QED BY <2>1, <4>2 DEF Earned, Shown, Late
    <3> QED BY <3>2, <3>3
  <2> QED BY <2>1, <2>2, <2>3
<1>5. CASE DeletePolicy
  <2>1. /\ pc = "clean" /\ pc' = "tearDown" /\ UNCHANGED <<test, defect, version, file>>
        /\ test.kind = "policy"
        /\ UNCHANGED <<results, error>> \/ results' = <<"error">>
    BY <1>5 DEF DeletePolicy
  <2>2. CASE results' = <<"error">> BY <2>1, <2>2, NotGood, EarnedFails
  <2> QED BY <2>1, <2>2 DEF Earned, Good, Shown, Late
<1>6. CASE CompareAssets
  <2>1. /\ pc' = "tearDown" /\ test'.kind = "asset" /\ defect' = defect
        /\ \/ error'
           \/ results' = <<"pass", IF defect = "missing" THEN "fail" ELSE "pass">>
    BY <1>6 DEF CompareAssets
  <2>2. ASSUME defect = "missing", Good' PROVE FALSE
    <3>1. results' = <<"pass", "fail">> BY <2>1, <2>2 DEF Good
    <3>2. "fail" \in Range(results') BY <3>1 DEF Range
    <3> QED BY <2>2, <3>2 DEF Good
  <2> QED BY <2>1, <2>2 DEF Earned, Shown, Late
<1>7. CASE RemoveTestedPackage
  <2>1. pc' = "report" /\ pc = "tearDown" /\ (error' \/ error' = error)
        /\ UNCHANGED <<test, defect, version, hits, file, poll, results>>
    BY <1>7 DEF RemoveTestedPackage, system
  <2>2. Good' => Good BY <2>1 DEF Good
  <2> QED BY <2>1, <2>2, EarnedStays DEF Late
<1> QED BY <1>1, <1>2, <1>3, <1>4, <1>5, <1>6, <1>7 DEF PackageStep

LEMMA StaticEarns ==
    ASSUME Earned, VerifyStatic
    PROVE  Earned'
<1>1. /\ pc' = "tearDown" /\ test'.kind = "static" /\ defect' = defect
      /\ \E v \in {<<>>, <<"error">>, <<"pass">>}, w \in {<<>>, <<"fail">>, <<"pass">>} :
             /\ defect = "benchmark" => v = <<"error">>
             /\ defect = "badSample" => w = <<"fail">>
             /\ results' = v \o w
    BY DEF VerifyStatic, At, Returns, Goto, shared
<1>2. PICK v \in {<<>>, <<"error">>, <<"pass">>}, w \in {<<>>, <<"fail">>, <<"pass">>} :
          /\ defect = "benchmark" => v = <<"error">>
          /\ defect = "badSample" => w = <<"fail">>
          /\ results' = v \o w
    BY <1>1
<1>3. v \in Seq(Statuses) /\ w \in Seq(Statuses) BY ResultLists DEF Statuses
<1>4. /\ Len(v \o w) = Len(v) + Len(w) /\ v \o w \in Seq(Statuses)
      /\ \A i \in 1..Len(v) : (v \o w)[i] = v[i]
      /\ \A i \in 1..Len(w) : (v \o w)[Len(v) + i] = w[i]
    BY <1>3, ConcatProperties
<1>5. DOMAIN (v \o w) = 1..Len(v \o w) BY <1>4, LenProperties
<1>6. defect = "benchmark" => "error" \in Range(results')
  <2> SUFFICES ASSUME defect = "benchmark" PROVE "error" \in Range(v \o w) BY <1>2
  <2>1. v = <<"error">> BY <1>2
  <2>2. Len(v) = 1 /\ v[1] = "error" /\ Len(w) \in Nat BY <1>3, <2>1, LenProperties
  <2> QED BY <1>4, <1>5, <2>2 DEF Range
<1>7. defect = "badSample" => "fail" \in Range(results')
  <2> SUFFICES ASSUME defect = "badSample" PROVE "fail" \in Range(v \o w) BY <1>2
  <2>1. w = <<"fail">> BY <1>2
  <2>2. Len(w) = 1 /\ w[1] = "fail" /\ Len(v) \in Nat BY <1>3, <2>1, LenProperties
  <2> QED BY <1>4, <1>5, <2>2 DEF Range
<1> QED BY <1>1, <1>6, <1>7 DEF Earned, Good, Shown, At, Late

LEMMA EarnedKept ==
    ASSUME TestersTypes, Comparing, SystemFetches, Earned, TestersNext
    PROVE  Earned'
<1> USE DEF At, Goto, Returns, Carries, shared, local
<1>1. CASE NextRun
  <2>1. pc' = "command" BY <1>1 DEF NextRun
  <2> QED BY <2>1 DEF Earned, Shown, Late
<1>2. CASE InterruptTester
  <2>1. UNCHANGED <<test, defect, version, hits, file, poll, pc, results, error>>
    BY <1>2 DEF InterruptTester, system
  <2> QED
    BY <2>1
    DEF Earned, Good, Shown, SystemChecked, PipelineChecked, Broken, Fetched, Targets, Late
<1>3. CASE \E s \in Streams : Arrive(s)
  <2>1. pc' \in {"begin", "discover", "wait", "verify"} BY <1>3 DEF Arrive
  <2> QED BY <2>1 DEF Earned, Shown, Late
<1>4. CASE Commands
  <2>1. pc' \in {"begin", "failed"}
    BY <1>4
    DEF Commands, StaticCommand, PipelineCommand, SystemCommand, AssetCommand, PolicyCommand,
        BeginCommand
  <2> QED BY <2>1 DEF Earned, Shown, Late
<1>5. CASE ProcessResults
  <2>1. /\ UNCHANGED <<test, defect, version, hits, file, poll, results, error>> /\ pc = "report"
        /\ pc' = "failed" \/ (pc' = "passed" /\ ~error)
    BY <1>5 DEF ProcessResults, system
  <2>2. Good' => Good BY <2>1 DEF Good
  <2> QED BY <2>1, <2>2, EarnedStays DEF Late
<1>6. CASE Skip
  <2>1. results' = <<"skip">> /\ pc' = "tearDown" BY <1>6 DEF Skip
  <2> QED BY <2>1, NotGood, EarnedFails
<1>7. CASE TearDown
  <2>1. /\ UNCHANGED <<test, defect, version, hits, file, poll, results, error>>
        /\ pc = "tearDown" /\ pc' = "report"
    BY <1>7 DEF TearDown, system
  <2>2. Good' => Good BY <2>1 DEF Good
  <2> QED BY <2>1, <2>2, EarnedStays DEF Late
<1> QED
  BY <1>1, <1>2, <1>3, <1>4, <1>5, <1>6, <1>7, SystemEarns, PipelineEarns, PackageEarns, StaticEarns
  DEF TestersNext, TesterStep

LEMMA EarnedMeans ==
    ASSUME TestersTypes, SystemFetches, Earned
    PROVE  PassIsEarned
<1> SUFFICES ASSUME Passed
             PROVE  /\ defect \in {"none"} \cup (IF test.masked THEN {} ELSE {"pattern"})
                                  \cup (IF test.logs THEN {} ELSE {"warnings"})
                                  \cup (IF test.kind = "system" THEN {"badDoc"} ELSE {})
                    /\ test.kind = "system" =>
                         /\ {h.stream : h \in Range(hits)} = Targets
                         /\ \A h \in Range(hits) :
                                /\ h.docs # <<>> /\ "bad" \notin Range(h.docs)
                                /\ test.hitCount # 0 => Len(h.docs) = test.hitCount
                                /\ test.fields => "field" \in Range(docs[h.stream])
                    /\ (test.kind \in {"pipeline", "policy"} /\ test.compare) => file.version = version
  BY DEF PassIsEarned, Targets
<1>1. pc = "passed" /\ Good /\ Shown BY DEF Passed, Good, Earned
<1>2. CASE test.kind = "system"
  <2>1. SystemChecked /\ defect # "stackLogs" BY <1>1, <1>2 DEF Shown, At, Late
  <2>2. defect \in {"none", "badDoc"}
    BY <1>2, <2>1 DEF SystemChecked, TestersTypes, Defects
  <2>3. {h.stream : h \in Range(hits)} = Fetched BY DEF Range, Fetched
  <2>4. HitsHold BY <1>2 DEF SystemFetches
  <2> QED BY <1>2, <2>1, <2>2, <2>3, <2>4 DEF SystemChecked, HitsHold, Range
<1>3. CASE test.kind = "pipeline"
  <2>1. PipelineChecked /\ (test.logs => defect # "warnings") BY <1>1, <1>3 DEF Shown, At, Late
  <2>2. defect \in {"badDoc", "pattern", "warnings", "none"} BY <1>3 DEF TestersTypes, Defects
  <2> QED BY <1>3, <2>1, <2>2 DEF PipelineChecked, Broken
<1>4. CASE test.kind = "policy"
  <2>1. file.version = version BY <1>1, <1>4 DEF Shown, At, Late
  <2>2. defect = "none" BY <1>4 DEF TestersTypes, Defects
  <2> QED BY <1>4, <2>1, <2>2
<1>5. CASE test.kind = "asset"
  <2>1. defect # "missing" BY <1>1, <1>5 DEF Shown, At, Late
  <2>2. defect = "none" BY <1>5, <2>1 DEF TestersTypes, Defects
  <2> QED BY <1>5, <2>2
<1>6. CASE test.kind = "static"
  <2>1. defect \notin {"benchmark", "badSample"} BY <1>1, <1>6 DEF Shown, At, Late
  <2>2. defect = "none" BY <1>6, <2>1 DEF TestersTypes, Defects
  <2> QED BY <1>6, <2>2
<1> QED BY <1>2, <1>3, <1>4, <1>5, <1>6 DEF TestersTypes, Kinds

\* A test that passes has checked all that its tester checks, for any data streams, rollups,
\* polls, documents, assertions and failing calls: nothing is skipped on the way.
THEOREM PassesAreEarned ==
    TestersSpec => []PassIsEarned
<1> DEFINE Inv == TestersTypes /\ Comparing /\ SystemFetches /\ Earned
<1>1. TestersInit => Inv
  <2> SUFFICES ASSUME TestersInit PROVE Inv OBVIOUS
  <2>1. Earned BY DEF TestersInit, Earned, Shown, At, Late
  <2> QED BY <2>1, TestersStart, SystemFetchesStart
<1>2. Inv /\ [TestersNext]_testersVars => Inv'
  <2> SUFFICES ASSUME Inv, [TestersNext]_testersVars PROVE Inv' OBVIOUS
  <2>1. CASE TestersNext
    BY <2>1, TestersTypesKept, ComparingKept, SystemFetchesKept, EarnedKept
  <2>2. CASE UNCHANGED testersVars
    <3> USE <2>2 DEF testersVars, shared, local, system
    <3>1. TestersTypes' BY DEF TestersTypes
    <3>2. Comparing' BY DEF Comparing, GeneratedIsAccepted, Compares
    <3>3. SystemFetches'
      <4>1. UNCHANGED <<test, defect, system, pc>> OBVIOUS
      <4> QED BY <4>1, FetchesUnchanged DEF SystemFetches
    <3>4. Earned'
      BY DEF Earned, Good, Shown, At, SystemChecked, PipelineChecked, Broken, Fetched, Targets
    <3> QED BY <3>1, <3>2, <3>3, <3>4
  <2> QED BY <2>1, <2>2
<1>3. Inv => PassIsEarned BY EarnedMeans
<1> QED BY <1>1, <1>2, <1>3, PTL DEF TestersSpec
=============================================================================
