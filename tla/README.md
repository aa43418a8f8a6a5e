# elastic-package: TLA+ models, checks and proofs

`elastic-package` is the command line tool with which packages of Elastic
integrations are built, tested, benchmarked, documented and published. Much of
its code transforms files; the part that is hard to get right drives *other*
systems: it starts containers, creates policies and data streams in Fleet,
enrolls agents, charges cloud projects to somebody's account, and has to give
all of that back whatever fails and whenever the user presses Ctrl-C. This
directory models that part, and the algorithms of the rest whose errors no test
of a single case shows.

Paths below are relative to the root of the repository's source (`src/` in
`PROJECT.json`). `PROJECT.json` maps every definition to the lines it models,
lists the hazards with the properties that are about them, and one mutant at
least for every property: a change of the model, as a plausible bug of the code
would be, that the property notices.

| module | models | checked by |
| --- | --- | --- |
| `TestSuite` | `RunSuite` and its goroutines (`internal/testrunner`) | `test_suite`, `test_suite_zero`, proofs |
| `SuiteLifecycle` | what `RunSuite` promises to a runner: the abstract specification | refined by `TestSuite` |
| `MCTestSuite` | instances of `TestSuite` | |
| `SystemTest` | the scenario of `test system` over several commands (`testrunner/runners/system`, deployers, Fleet) | `system_test`, proofs |
| `Testers` | what the system, pipeline, policy, asset and static testers conclude and leave (`testrunner/runners`) | `testers`, proofs |
| `Script` | `test script` (`testrunner/script`) | `script`, proofs |
| `Benchmark` | `benchmark` with its four runners (`benchrunner`) | `benchmark`, proofs |
| `Stack` | what the stack providers share (`cmd/stack.go`, `internal/stack`) | through the next two |
| `StackEnvironment` | `stack up` and `down` on a stack that exists (`stack/environment.go`) | `stack_environment`, proofs |
| `StackServerless` | the same with projects of Elastic Cloud (`stack/serverless.go`) | `stack_serverless`, proofs |
| `Profiles` | installation, profiles, their certificates and records; the compose provider (`install`, `profile`, `stack`) | `profiles`, proofs |
| `MCProfiles` | its instance: names of profiles that are treated alike | |
| `Build` | `build`, `check`, `lint`, `install`, `uninstall`, `clean`, `links`, `changelog add`, `requires update` | `build`, proofs |
| `DocAgent` | `update documentation` with its agents and review (`llmagent/docagent`) | `doc_agent`, proofs |
| `RequiredInputs`, `PackagePolicy`, `PolicyNormalize`, `Fields`, `Filters`, `Coverage` | pure algorithms (`requiredinputs`, `kibana`, `runners/policy`, `fields`, `filter`, coverage reports of `testrunner`) | `algorithms` |
| `MCAlgorithms` | their inputs, and the run's specification | |
| `TestSuiteProofs`, `SystemTestProofs`, `CommandProofs`, `StackProofs`, `StackEnvironmentProofs`, `StackServerlessProofs`, `BuildProofs`, `DocAgentProofs` | theorems, for every value of the constants | TLAPS |

## Inventory

### The parts and how they interact

A command of `cmd/` reads flags and the profile, builds clients and calls one of
the parts below. State is kept in four places: variables captured by closures
while a command runs; files (of the profile, under `~/.elastic-package`; of the
package; of the build directory); the containers Docker runs; and objects of
Kibana, Elasticsearch and Elastic Cloud. Nothing ties these together in a
transaction, so the order of the calls and the clean-up handlers are what keeps
them consistent.

| component | state | operations | talks to |
| --- | --- | --- | --- |
| suite runner | goroutines, semaphore and results channels, joined errors | `RunSuite`, `runSuiteParallel`, `runSuite`, `run` | a `TestRunner` and its `Tester`s, the context SIGINT cancels |
| system tester | seven clean-up handlers, the run id, the service state file; documents and data streams found | `prepareScenario`, `waitForDocs`, `validateTestScenario`, `tearDownTest` | deployers, Fleet, Elasticsearch |
| pipeline, policy, asset, static testers | installed pipelines, policies, packages; expected results on disk | `Run`, `TearDown` | Elasticsearch, Fleet |
| script runner | registries of stacks, services, agents, pipelines, packages, data streams | the script commands, `cleanUp` | all of the above |
| benchmark runners | clean-up handlers; metrics collector; generators and their error channel; corpus and track | `SetUp`, `Run`, `TearDown` | Fleet, Elasticsearch, rally |
| stack providers | `config.json` of the profile, compose project, Fleet outputs and policies, cloud project | `BootUp`, `TearDown` | Docker, Fleet, the serverless API |
| installation and profiles | home directory, version file, `config.yml`, directories of profiles, certificates | install, create, use, delete, up, down | disk |
| package builder and friends | working tree, build directory, zips, signatures, link checksums, changelog | build, lint, clean, links, install, ... | disk, registry, Kibana |
| documentation agent | document, backup, sections, results channel, best round | generate, modify, review, restore | a language model, tools that write |
| required inputs, package policies, policy comparison, field validation, filters, coverage reports | none | functions of their input | |
| formatters, exporters, reports, status, terminal UI, clients | none | transformation and remote calls | |

### What is hard

- **Interleaving.** Testers run in goroutines behind a semaphore; generators of a
  stream benchmark share an unbuffered channel that is closed at the end; agents
  write sections, and files, while the user reviews; documents arrive while they
  are counted.
- **Partial failure.** Every step of a preparation is a remote call. What an
  earlier step acquired is released by a handler only if that was registered in
  time, is not told to stand down in this mode, and is not blocked by an earlier
  failure (Fleet refuses to delete a policy in use).
- **Interruption.** SIGINT cancels the context of the pending call; clean-up runs
  with `context.WithoutCancel`, mostly.
- **State across commands.** `--setup`, `--no-provision` and `--tear-down` hand a
  scenario over through a file; `stack up` records what `stack down` needs;
  expected results are compared by later commands; profiles copy records.
- **Crashes.** Files are written without an atomic rename, several in a row.
- **Late answers, retries, limits.** A call takes effect and still fails; a
  tear-down is repeated; the capacity of the semaphore may be zero; a search
  returns at most so many documents.
- **Two ways to the same result.** A document is nested or dotted, a policy in the
  old or the new format, a README rendered by the build or by lint: both have to
  come to the same end.

### What makes each part correct

- *Suite:* bounded parallelism; a sequential tester runs alone; outcomes reach the
  caller; the runner outlives its testers; the suite returns.
- *System test:* each mode gives back what it took, and what a setup stored stays
  usable until a tear-down.
- *Testers:* a pass is earned; nothing is left; what one command generates the
  next accepts; every command ends.
- *Scripts:* clean-up reaches all that is registered, nothing of the user's; no
  failure is lost.
- *Benchmarks:* clean-up is complete and in order; a track is saved with its
  corpus; nothing blocks for ever.
- *Stack providers:* a boot that succeeds leaves a usable stack, a tear-down
  removes what was recorded, and a project is not forgotten.
- *Profiles:* certificates fit together, the profile in use exists, projects are
  recorded.
- *Builds:* what is delivered is fresh and whole; lint accepts what a build leaves;
  versions are described.
- *Documentation agent:* a cancelled review restores; what is reviewed is whole.
- *Algorithms:* they agree with what they are for, stated without the algorithm.

## Modules

### TestSuite, SuiteLifecycle

The main goroutine is `pc`, one value per phase of `RunSuite`: `getTests`,
`setupRunner` (with `abort` when it fails), `readMaximum`, `parallel` (the
spawning loop, `wg.Wait` and the draining of the results channel), `sequential`
and `tearDownRunner`. `state[t]` is the progress of tester `t`:

    waiting -> spawned -> running -> ran -> reported -> released -> finished

`spawned` is between `sem <- 1` and the check of the context, `ran` is before
`tester.TearDown` returned, `reported` after the send on the (buffered) results
channel, `released` and `finished` are the two deferred calls, `<-sem` and
`wg.Done`, in the order Go runs them. A sequential tester goes from `ran` to
`finished` in the main goroutine. The choice of the next tester is
nondeterministic, which covers every order of `GetTests`.

`SuiteLifecycle` states the contract of the interfaces `TestRunner` and `Tester`:
set up once, testers only between set-up and tear-down, none twice, tear-down once
and after every tester.

### SystemTest

One test case of `test system`, over a sequence of commands. `pc` is the step of
the running command: `GetTests`, `SetupRunner`, the steps of `prepareScenario` and
`finalizeScenario` in their order, the handlers of `tearDownTest` in theirs, the
removal of the state file, `TearDownRunner`.

- `fleet` is what Kibana and Elasticsearch hold, `docker` which containers run,
  `installed` the package under test; `handlers` is the set of registered
  handlers, `loc` the variables they capture; `stateFile` and `saved` the service
  state file.
- Policies and run ids are named by the command that makes them.
- Every step of the preparation may fail before it has an effect (`FailPrepare`),
  and where its call can fail *after* it there is an action for that: a policy or a
  package policy that was created, a log level that was set, an agent that was
  reassigned, containers that started, definitions that were applied. SIGINT is one of
  the reasons; `Crash` is SIGKILL between any two steps. `AgentSends` is the agent,
  which sends documents when it wants. A clean-up call that fails is counted, whether
  it had its effect (modelled where the code waits after the call, and for kubectl and
  the two policies) or not: nothing is promised after it.
- `StandsDown` collects the early returns of the handlers. History variables:
  `faults` counts the calls of the command that failed and left something of which no
  handler knows: a clean-up call, or one of the preparation that took effect all the
  same before its handler was registered,
  `disturbed` says that a command since the last setup was killed or failed,
  `before` is Fleet and Docker when the command started.

- `service` is the deployer the test defines: compose, terraform (plain runs only) or
  kubernetes, whose definitions live in the cluster of `docker` and are not of one run;
  `deployment` tells where the agent is, and which services go with it.

Left out: several data streams, services and variants, which are several instances
of what is modelled; `--defer-cleanup`, which delays the handlers; a kubernetes service
that installs an agent of its own (`TEST_ENABLE_INDEPENDENT_AGENT=false`).

### Testers

What follows when the scenario is prepared, and the other four testers from their
beginning. `defect` is what is wrong with the package; `docs` are the documents that
have arrived, `poll` and `wait` what the polls of `discoverDataStreams` and
`waitForDocs` have seen, `hits` what was fetched, `results` and `error` what `Run`
returns, `remote` what is in Elasticsearch or Fleet, `mine` what the tester knows
it has to remove. `file` and `output` are the expected and the actual result: the
edition of the package they are of, and what is volatile in them. A second command
may follow on an edited package (pipeline and policy tests, when nothing is left).
Calls with the context of the command (`Works`, `Fails`) and with one that cannot
be cancelled (`FailsDetached`) are told apart. `docs` are ordered by timestamp, as a search
returns them: a document can arrive that is older than the others.

### Script

A script is any sequence of commands, on a stack of its own and on one of the
user's. A compose project has the name of the profile only (`stack/boot.go:28`), so
`opts.sameName` tells whether the script's profile, in a directory of its own, is one of
the same name: the two stacks are then one project. A thing is its kind, the project it
was made in and a number. `reg` are the registries, `world` is what exists, and history
tells what a call failed to remove and what an agent wrote again. `cleanUp` goes through
the stacks in any order, as Go ranges over a map. What a failing `install_agent` leaves
depends on whether the check that fails raises the panic it recovers from: the policies
are deleted or stay. `CommandPanics` is the panic of `GET` and `POST` on a request
without an answer; `begun` counts the scripts that ended this way.

### Benchmark

A runner is the list of calls it has still to make (`calls`), built from the code of
`SetUp` and `Run` with the flags; a call can fail, can take effect and lose its
answer, and fails once SIGINT has cancelled the context. `res` is what exists,
`handlers` what was registered. The metrics collector and the generators of the
stream benchmark are processes of their own with their channels.

`Script`, `Benchmark`, `Profiles` and `Testers` share no name, because their theorems are
in one module: hence `ScriptSpec`, `InterruptTester`, `ProfileCommand` and the like, and
constants of their own (`MaxFailures`, `MaxEvents`, `MaxFaults`, `MaxCuts`).

### Stack, StackEnvironment, StackServerless

`Stack` has the state the providers share and the steps they have in common; each
provider's module adds its own variables and the sequence of its steps. Commands
`up` and `down` follow each other on one profile, each `up` with settings of its
own.

- `stored` is `config.json`, `config` what the command has in memory. `storeConfig`
  and SIGKILL can leave the file cut short (`corrupt`).
- `fleet` holds the two managed policies (`bare` without their package policy), the
  outputs, the default Fleet Server and the agents; `containers` are the local
  services, and `composed` whether their compose file is in the profile: only
  `StartServices` writes it, and a tear-down fails at once without it.
- `Calls` is a remote call that takes effect, whose answer may be lost, `CallFails`
  one that has none, `Refused` an error that the state leads to; `fault` is set by
  failing calls only. Calls that only read fail with the next one that writes.
- `StartServices` is `docker compose up` with what the code makes of its errors.

In `StackEnvironment` the user may have a Fleet Server that stops and comes back
between commands. In `StackServerless` a project is the number of the command that
created it; `EnsureEndpoints`, `EnsureProjectInitialized` and `EnsureHealthy` poll
until a deadline and are one step each.

### Profiles

A command is the check of the installation, then the command itself: one step, to
its end or cut anywhere by an error or a signal, with what it had written and the
file it was writing torn. Certificates and projects carry the number of the command
that made them. The compose provider appears with what it leaves: certificates,
record and containers. A certificate and its key are two files, each written, copied
and deleted on its own, in the order of the code; a file that is torn and one that is
missing are told apart, because `LoadCertificate` does. A deletion that is cut can leave
any subset of the files of a profile, and of the files of a boot one write can fail alone
(`Apply` collects the errors, `stack/resources.go:243`) or with all that follow; `mingled` records that
certificates of several origins are in one directory, or that the key of the CA was the
only file not written.

### Build

`source` is the working tree as revisions of its files, pinned dependency, version,
changelog and checksum of the link; `output` the directories, zips and signatures of
all versions; `kibana` and `served` what is installed, and what the registry
indexed when it started. Editors, publishers and Fleet users act between any two
steps of a command. A file of the tree is its revision; a built package knows which
revision each part holds and which transformation it has been through. The author
edits contents, not the version, while a command runs; revisions only grow; the
README template renders the fields; the registry restarts between commands.

A step that fails may have truncated the file it writes in the source (`CutShort`):
`os.WriteFile` leaves the newest entries of a changelog or none of them, no manifest, or
an empty README. A changelog cut in the middle of an entry is refused by the commands that
patch it (`torn`), and a package without a manifest is not found by any. `RestoreFiles` is
the author, who takes such a file back from the repository. A license text is optional, and
missing only if the environment names a file that is not there. The checksum of a link is
taken to be written whole, and the build to accept a changelog that was cut.

### DocAgent

Every section has a goroutine that goes through rounds of generation and validation
and sends its result over a buffered channel; tools may write the document while an
agent runs. The user accepts, cancels or asks for changes. The evaluation mode, which
writes no document, is left out.

An answer is one of four: empty; a title or a note only, which the validation loop takes
for content and `normalizeSectionContent` does not; a section; several headings of the
second level. A section of the document is whose it is, who wrote it and its `extent`: the
whole section with its subsections, the first of several, or, in a modification of all
sections, what was made from the section without its subsections (`own`), possibly with
further sections behind it (`more`). Between two rounds the document is parsed again
(`ParseSections`), so it can then have more sections than the template.

### Pure algorithms

- `RequiredInputs`: `Bundle` with its passes (templates, fields, stream types,
  variables at input and stream level).
- `PackagePolicy`: the package policy in both formats, with which template, input
  and stream are chosen, which variables get which value, and where documents go.
- `PolicyNormalize`: new names for OpenTelemetry components and their references.
- `Fields`: finding a definition, validating a document, the sanitising of synthetic
  sources and the generated sample event, comparing mappings with their preview.
  Uses RECURSIVE operators over documents, and so has no theorems.
- `Filters`: walk with depth and exclusions, the filters in sequence, and `foreach`.
- `Coverage`: the base report of a package, the reports of results (pipelines with the
  statistics of Elasticsearch, or whole files) and how they are merged, in both formats.

Each has its reference definitions beside it, under their own names
(`VariablesHavePlace`, `TestedAlone`, `FormatsAgree`, `SamePolicy`,
`AcceptedIsDefined`, `FormDoesNotMatter`, `AllAreServed`, `CoverageIsExact`, ...), with the
preconditions under which the code promises them (`OneScope`, `ImportsOnce`,
`Unambiguous`, `Meaningful`): what happens outside of these is under *Also seen*.

## Runs

| run | instance | what it shows |
| --- | --- | --- |
| `test_suite` | 3 parallel testers for 2 slots, 2 sequential ones, every failure, an interruption | safety, the refinement of `SuiteLifecycle`, and that the suite returns |
| `test_suite_zero` | capacity zero | the suite hangs (Findings) |
| `system_test` | 3 commands of any mode, every deployment and service deployer, one kill, one call a command that leaves something | every mode gives back what it took, a stored setup stays usable |
| `testers` | 5 testers, a defect, three data streams and documents, a failing call, an interrupt, a second command | passes are earned, nothing is left, commands end |
| `script` | 2 directories, 4 commands, 2 stacks of one project or two, a failing call, an interrupt | clean-up and outcomes |
| `benchmark` | 4 runners, all flags, 2 agents, 2 generators, any failures, an interrupt | clean-up, its order, termination |
| `stack_environment` | 3 commands with any settings, each call failing, one kill | promises of boot and tear-down |
| `stack_serverless` | 4 commands with any settings, each call failing, one kill | projects are kept track of |
| `profiles` | 4 commands on 3 profiles, 1 service, 2 providers, 2 cuts | certificates, current profile, records |
| `build` | 2 commands in a row, 2 edits, one failing step, its file cut short or not, a license text or none | freshness, lint after build, changelog |
| `doc_agent` | 2 sections, 3 after a modification, 2 rounds of 2 iterations, 2 rounds of changes | restore, whole documents, termination |
| `algorithms` | see below | the algorithms agree with their references |

### Bounds, and why they are enough

- *Testers of a suite:* three for two slots is the smallest suite in which one waits
  while two hold a token, two sequential ones the smallest in which an error of the
  first decides about the second. The proofs remove this bound.
- *Commands:* a setup, something in between and a tear-down are three; a boot, one
  that takes over what the first left and a tear-down too; for projects a fourth
  lets a boot follow a tear-down after a failed boot; for certificates a fourth
  follows two that were cut (services are treated alike, so one is enough to find what
  the proof then shows for any). A build and one that follows it, or a lint, are two.
- *Kills:* one where commands read left-overs through one file only, two where the
  second can hit the repair.
- *`MaxFaults`:* one call of a `SystemTest` command that leaves something behind, any of
  them, and one failing call elsewhere: the properties ask what a single failure costs.
- *Documents:* searches return two, three arrive, so that one can be pushed off the page;
  hit counts are zero, one, which is met or exceeded, and three, above what a search returns. The assertions on documents are
  combined with packages that have no other defect.
- *Sections:* two make a wrong order visible, and a third is what an answer with several
  headings adds. A document that would have more when it is parsed again is not.
- *Profiles:* the two that are not `default` are model values and treated alike
  (`Interchangeable`), which is sound as no definition tells them apart and all properties
  of the run are invariants.
- *Algorithms:* two of everything that is chosen between (templates, data streams,
  inputs, packages), named and typed alike or not, three variables; policies of up to
  eight components with every assignment of three identifiers; documents and mappings
  of up to three levels with every kind of leaf; repositories of three manifests and
  every pair of flags; two results of a pipeline of two processors on the same line, on
  consecutive ones or apart.

Deadlock is not checked where the commands of an instance come to an end.

### Fairness

- `TestSuite!FairSpec`: weak fairness of the main goroutine and of each tester's. Go
  eventually runs every goroutine that can run. That a tester's `Run` and `TearDown`
  return is the subject of `Testers`.
- `TestersSpec`: the tester goes on, its timers (`wait.UntilTrue`) expire, and no
  call has to fail. Documents need not arrive.
- `BenchmarkSpec`: the runner, the collector and the generators go on. A stream
  benchmark ends only after a signal or an error, and `CommandEnds` says so.
- `Build!Spec`: a command goes on to its end.
- `DocAgent!Spec`: agents and goroutines go on, language model and user answer.

SIGINT, kills, edits, failures and arriving documents are never fair. The other
specifications state safety only.

## Findings

- **A host with one processor hangs** (`test_suite_zero`). `defaultMaximumRoutines`
  is `runtime.GOMAXPROCS(0) / 2`, which is 0 with one processor. The semaphore has
  capacity 0, `sem <- 1` waits for a receiver, and the receivers are the goroutines
  the loop has yet to start.

### Also seen

What the models show besides; the properties except it, or the modules leave it out.

*System test.* A `--no-provision` run whose preparation fails late returns without
`tearDownTest`, the agent stays on its test policy and the next run does not find it
(`tester.go:452`; `docs/howto/system_testing.md:1035` says it can be run several
times). A tear-down repeated after one that failed half-way cannot delete what is
gone, and the state file stays (`tester.go:1679`, `runner.go:176`). One whose
preparation fails before the service was looked up removes the state file all the same
(`tester.go:465`). After a failed `--setup` the agent of the stack keeps the test
policy (`tester.go:1379`). An independent agent that enrolls before its deployment
fails stays in Fleet. Two commands on one profile are not kept apart (`runner.go:173`).
A request that creates a policy or sets the log level and whose answer is lost leaves
the policy or the debug level, as the handler is set after it (`tester.go:1406`, `:1628`,
`:1671`): `CommandsRestore` and `AcquiredHasHandler` except what was acquired this way.
A failed `kubectl apply` leaves what it applied, and no handler knows of it
(`servicedeployer/kubernetes.go:134`,
`agentdeployer/kubernetes.go:109`). A `SetUp` that ends with a missing file, as terraform's
without its outputs (`servicedeployer/terraform.go:62`), is taken for a test without
deployer although one is named (`tester.go:1281`, against its comment).
A tear-down stops at a `kubectl delete` of what is gone.

*Testers.* A field seen in one poll counts, but an older document that arrives later can
push the one that has it off the page that is validated (`tester.go:842`, `:1880`), so
`PassIsEarned` asks for it among all documents. A document after two equal polls, or above the search size, is not counted
(`tester.go:1861`; `system_testing.md:618` says otherwise). Discovery compares numbers
of data streams, not names. A failed installation of pipelines forgets them
(`runners/pipeline/tester.go:178`); removal of pipelines and policies uses the
context SIGINT cancels and stops at the first failure. A failing dump of logs drops
the verdict; warnings in logs replace results. `-g` writes before later checks fail.
Two dynamic streams of one type overwrite one sample event.

*Scripts.* `GET` and `POST` read the body of a response that is nil when the request failed
(`script.go:875`, `:925`). The deferred function of `Run` does not expect this panic and
raises another one before it adds the outcome (`:757`); `runTests` returns that as an error,
and `runScriptTestsForDir` drops it, because "elastic-package detects errors by the results
slice" (`:428`): the other scripts of the directory are not run, and the command passes.
`FailuresAreReported` excepts these scripts. `stack_up` with the profile `default` of the script, which is its own default,
works on the compose project of the user's profile of that name: it boots over that stack,
and `stack_down` and `cleanUp` take it down (`boot.go:28`, `stack.go:45`, `script.go:554`).
`ExternalSurvives` excepts this. With `--continue`, a script that skips after a failed
command is recorded as skipped (`script.go:744`). Registries are cleared per script, `cleanUp` runs once after the last one
(`script.go:763`; `docs/howto/script_testing.md:57` promises clean-up). A script that
took its stack down cleans nothing. Data streams are deleted before the agents that
write them. `install_agent` that fails leaves container and enrolment. An interrupt
between directories raises a fatal error outside of `Run`.

*Benchmarks.* `clearTrackHandler` never runs (`rally/runner.go:168`); rally's
`reindexData` sends a body it has read already; the reset handler of agents is
registered when all have moved; the pipeline runner drops what it installed on error.

*Stack.* `BootUp` stores its configuration "to be able to clean up Fleet if something fails
later" (`environment.go:70`), but `TearDown` begins with the local services, whose compose
file only the last step of the boot writes: until one has, every tear-down fails at once
(`environment.go:226`, `compose.go:177`) and policies, output and Fleet Server host stay.
`TearDownCleans` excepts this (`composed`). An unavailable Kibana looks like a missing Fleet Server and the user's is
replaced (`stack/environment.go:169`). The first `storeConfig` of a second boot forgets
the output of the first (`:72`). A boot that fails in `setupFleet` has stored nothing;
neither has one whose project has no endpoints yet (`serverless.go:76`). Only the
error of the second `docker compose up` is returned (`localservices.go:44`). Existing
agent policies are used as they are (`agentpolicy.go:43`); a boot that finds its
project does not resume (`serverless.go:343`).

*Profiles.* A write of the key of the CA that fails alone, a deletion that is cut among the
certificates and a copy over others leave services of a CA without its key, which the next
boot accepts (`stack/certs.go:137`; `mingled`). A migration rewrites `profile.json` in
place (`profile/migrations.go:83`), which is left out. `profiles delete` compares with the environment
variable, so the current profile can dangle. `--from` copies the record of the stack.
`up --provider compose` over a serverless record forgets the project
(`stack/boot.go:117`). A missing version file stops every command
(`install/version_file.go:21`). `config.yml` is read, changed and written unlocked.

*Builds.* `clean` leaves signatures and other versions' zips (`cleanup/build.go:19`);
a build without `--sign` leaves the old signature; an invalid zip stays; checksum and
content of a link are read one after the other; `install` ships the README as it is;
old Kibana installs what the registry indexed at its start; changelog before manifest
leaves a divergence that `requires update --changelog` refuses and `changelog add`
repeats. Neither writes through a temporary file: a failed write can leave the changelog
without the version of the manifest, which `VersionIsRecorded` excepts, or no manifest, and
then no command finds the package.

*Documentation agent.* An approved section is the best round, not the validated one;
a modification that changes nothing drops the title; tools can write before the backup;
errors leave the file as written. A title without text is approved by the loop
(`docagent.go:1231`) and a placeholder in the document (`:1043`), which `ReviewedIsWhole`
excepts. Of an answer with several headings only the first section is kept
(`parsing/extraction.go:25`), but a modification of all sections writes them all. It also
hands the agent `sec.Content` (`docagent.go:664`) and puts the answer in the place of the
section *with* its subsections, where `modifySpecificSections` hands over the full content
(`:740`), which `parsing.Section` has "for generation" (`parsing/section.go:18`):
subsections the agent does not write anew are lost, so `ReviewedIsWhole` asks for whole
sections after the other rounds only. Any error
when the document is looked for is taken for a missing one (`fileops.go:33`).

*Required inputs and package policies.* Promotion by two templates of one data stream:
variables end up nowhere, twice, or overwritten. An input package named as another's
type, or typed as a native input, is confused with it. Empty lists are sent in one
format and omitted in the other. A test that names a template or input that does not
go with its data stream gets a policy with nothing enabled. Two data streams with one
dataset share a key.

*Fields, comparison, filters.* A `geo_point` of a synthetic source becomes an object
the next check refuses (`fields/validate.go:730`). A wildcard that comes first wins
over the exact definition; a dynamic template without wildcard never matches
(`dynamictemplate.go:82`). The cache of ECS is written non-atomically while others read
it. Pipelines of equal text may be renamed differently, and one mapping for all
sections lets equal identifiers collide. Slice flags accumulate from package to package
under `foreach`, as all executions share one root command (`cmd/foreach.go:73`).

*Coverage.* Cobertura, the default, names files by package and base name: with a
manifest of the package and one of a data stream no report is written
(`testrunner/coverage.go:135`; the scripts of the repository use the generic format).
Merging two classes without methods drops their lines, and merging a third fails
(`coberturacoverage.go:120`); a pipeline counts twice among the valid lines, under two
names. The changelog is left out only if the package is the repository (`coverage.go:45`).
A pipeline with a `reroute` of its own has no coverage, and of one that is written in a
single line the last processor has none.

## Proofs

Every theorem holds for all values of the constants: any number of commands, failures
and kills, of testers, sections, scripts, edits or versions. Where it speaks of a property
of a run, it is about the same definition. The assumptions are the `ASSUME`s of the
modules, which only say of what kind the constants are.

### Test suites

`TestSuiteProofs` proves about `TestSuite`, for every finite set of testers, any
subset of them parallel, and any capacity in `Nat` (`SuiteAssumption`):

| theorem | says |
| --- | --- |
| `TypeCorrect` | `Spec => []TypeOK` |
| `BoundedParallelism` | the tokens in the channel are the goroutines at work, at most `MaxRoutines` |
| `SequentialExclusion` | a sequential tester runs next to nobody |
| `NoFailureSwallowed`, `ResultsComplete`, `OutcomesReported` | success means that everything succeeded; exactly the results that should be are returned; both together are `OutcomesAreReported` |
| `SuiteImplementsLifecycle` | `TestSuite` implements `SuiteLifecycle` |

*The argument.* None of these is inductive: `SequentialRunsAlone` depends on the
phase of the main goroutine, that on `wg.Wait`, and so on. The inductive invariant
`IInv` has `TypeOK` and

- `Movers`: a tester that moved was found by `GetTests`, and a sequential one never
  holds a token;
- `Phases`: which testers can be at work in each phase of the main goroutine;
- `OneAtATime`: two sequential testers at work are the same one, and none is after an
  error;
- `RunnerPhases`: the state of the runner in each phase;
- `OutcomePhases`: which outcomes go with which progress;
- `ParallelismIsBounded`: the counting argument, from the lemmas on cardinalities of
  the library.

It is proved in two halves (the progress of the testers, and the semaphore, which needs
the first), each split by main-goroutine steps and tester steps. `ResultsInvariance`
adds what the results and errors record in each phase. The refinement maps every step to
`SetUp`, `Begin`, `End`, `TearDown` or a stutter, under `IInv`.

### Stack providers

`StackEnvironmentProofs` and `StackServerlessProofs` prove about the two providers, for
any number of commands and kills and any settings (`StackAssumption`):

| theorem | of | says |
| --- | --- | --- |
| `TypeCorrect` | both | `Spec => []TypeOK` |
| `TearDownCleansFleet`, `TearDownSucceeds`, `TearDownIsComplete` | environment | a tear-down that succeeds after a recorded boot leaves no container, policy or agent; once a boot came to the local services, one without a failing call succeeds and drops the output it knows of; both together are `TearDownCleans` |
| `BootIsReady` | both | a boot that succeeds without a failed call leaves what was asked for, and on a profile on which no call ever failed it succeeds (`UpIsReady`) |
| `OutputOutlivesPolicy` | environment | no policy names an output that is gone |
| `RecordCorrect` | serverless | the invariant below |
| `ProjectNeverForgotten` | serverless | the record of a project that exists is not replaced |
| `TearDownDeletes` | serverless | a tear-down that succeeds has deleted the recorded project |

*The argument.* `StackProofs` has, for each step the providers share, that it keeps the
types and where it leads; the provider's own steps are added to that. The properties
only speak of commands that have ended. For the environment provider the tear-down relies
on two things:

- `Phases`: each of its steps knows what the ones before it removed, that no agent
  enrolls again because the containers are gone, and, past the first, that the compose
  file is there;
- `Served`: it skips the Fleet Server only if the stored configuration is not a managed
  one, and a Fleet Server policy is only created by a boot that made the local Fleet
  Server the default and records so; a later boot finds that default and, not reaching
  it, manages it again.

`OutputKept` follows the output the agent policy names between its creation and its
removal. For the serverless provider `SameRecord` says that while a boot creates a
project, the recorded one is that or is gone: `currentProject` fails, rather than reports
a missing project, on any answer but a definite one. `Started` gives each project the
number of a command.

`BootIsReady` needs what each step of a boot knows of Fleet. For the environment provider
this is `Reached` (which policies, host and output are there from which step on, whatever
failed before) and `Sound` (from the start of the services on, a boot without a failed call
has them; a policy lacks its package policy only between the two calls that make it, as
long as no call ever failed). For the serverless provider `Known` says that a boot that
finds its project recorded is not the one that created it, and `Sound` that as long as no
call failed only the recorded project exists and has an agent policy: that is why starting
the services of a project found in the record cannot be refused.

### System test scenarios

`SystemTestProofs` proves about `SystemTest`, for every deployment and service and any
number of commands:

| theorem | says |
| --- | --- |
| `TypeCorrect` | `Spec => []TypeOK` |
| `WhatIsAcquiredIsGivenBack` | at every point of a preparation what it acquired has a handler (`AcquiredHasHandler`) |
| `CommandsGiveBack` | each mode gives back what it owes, over any sequence of commands (`CommandsRestore`) |
| `StoredSetupCanBeUsed` | what a stored setup names exists (`StoredSetupIsUsable`) |
| `SetupsAreNotDismantled` | no step but of a tear-down takes a stored setup apart (`OnlyTearDownDismantles`) |

*The argument.* `CommandsRestore` compares the state when a command ends with the one when
it began, so the inductive invariant has to say at every step in between how far the two
differ. It does so in one form for everything that can be acquired: it is as before, *or*
it is owed, by a handler that is registered and has not run. At the end no handler is left
(`Registered`), so it is as before. The parts of `IInv`:

- `Numbered`: what is named after a command did not exist before it;
- `Placed`: what a deployment or service does not use is not there, and agents are on
  policies that exist;
- `Process`: what the process remembers (original policy and log level, the two policies of
  the test) is what the handlers will need;
- `Registered`: which handlers there are at each step, from the order in which a preparation
  registers and `TearDown` runs them;
- `Containers`, `Agents` (the agent that is tested, what is owed to it, and all others),
  `Policies` (policies and data streams): each of them as before, owed or given back;
- `Stored`: what the state file describes, and that no command but a tear-down touches it.

`Owing` and `Undoing` say under which conditions a command owes anything: no call failed
and left something, or nothing has failed yet, and the mode gives Fleet back. A tear-down owes what its *setup* acquired,
which is why its form refers to the state file instead of the state before the command.

### Scripts, benchmarks, profiles and testers

`CommandProofs` proves about `Script`, `Benchmark`, `Profiles` and `Testers`, one after the
other; the theorems of one use nothing of the others.

| theorem | of | for any | says |
| --- | --- | --- | --- |
| `UserStackSurvives` | `Script` | directories, scripts, commands, failing calls | `ExternalSurvives`: the user's stack runs, unless a profile of its name was booted |
| `FailuresReachTheExitCode` | | | `FailuresAreReported`: of all scripts that no panic ended |
| `CleanUpCompletes` | | | `ScriptCleanUpIsComplete` |
| `BenchmarkCleansUp` | `Benchmark` | agents, generators, backfills, events | `CleanUpIsComplete` |
| `BenchmarkShutsDownInOrder` | | | `ShutdownIsOrdered` |
| `RallyTrackIsSavedWhole` | | | `SavedTrackIsComplete` |
| `ProjectsStayRecorded` | `Profiles` | profiles, services, commands, cuts | `ProjectsAreRecorded` |
| `CurrentProfileExists` | | | `CurrentProfileLoads` |
| `CertificatesFit` | | | `CertificatesMatch`, whichever writes fail |
| `PassesAreEarned` | `Testers` | data streams, polls, documents, assertions, failing calls, commands | `PassIsEarned` |
| `TestersLeaveNothing` | | | `NothingIsLeft` |
| `GeneratedResultsAreAccepted` | | | `GeneratedIsAccepted` |

*Scripts.* `RunOutcomes` counts: each script that began has its outcome or was lost to a
panic, but for the one that runs. `OwnIsBooted`: only a script that called `stack_up` has a
stack of its own to take down, whatever its project. `ScriptCleaning` has, for `cleanUp`, that every stack is cleaned or still in
`toClean`, and for the one at work which of its steps are done; a step only removes, and an
agent that writes its stream again is recorded.

*Benchmarks.* A runner is a list of calls, so the argument is about lists: `InOrder` says
which calls come before which and which are followed by which, and holds of the tail of a
list of which it holds. With it `BenchmarkInv` relates what exists to handlers and calls to
come: `Registered` (what exists has its handler, or its call failed), `Cleared` (in the
tear-down the handler of what is left is still to run, or failed), `PolicyHeld` (the policy is
gone only after the agents had their turn), `Saving` (the corpus stays until the track is
saved), `Collecting` and `Generating` (the collector ends within `Run`, and the channel is
closed when no generator is left).

*Profiles.* Of a command that is one step, the proof needs what it can do, taken to its end
or cut at any file. That is one effect on the directory of a profile (`Effect`) for all
commands but the installation, the deletion and the choice of a profile. `ProfilesInv` has
`Steady`, `Numbered` (what is on disk is of a command that is over), `AbsentForgets` (a
directory without `profile.json` records no project that is still there),
`ProjectsAreRecorded`, `DefaultLoads` (the default profile is not deleted), `CurrentLoads`
and `AllSound`: a service whose pair is of the CA in the directory finds that CA's key there.
The code checks the pair and the issuer but not the key, and `CertificatesMatch` depends on
`AllSound` wherever the files of a service are kept. It follows from the order of the files,
the CA's first, when they are written and when they are copied. `InterruptedSound` is the
lemma for a boot that fails: if it stops, what comes later is old, and no old pair is of the
new CA; if it goes on after the file that failed, a pair is only kept when it was valid with
the CA that was there, and then, as the directory was sound, the CA is kept too. What
remains is the case that the certificate of the CA and all services are new and only the
key is not: that is what `mingled` excepts.

*Testers.* `Comparing` is for the file with the expected result: what is compared is what
this edition produced. `Held` says who remembers what was created, at each step of each
tester, while no call has failed. `SystemFetches` follows the data streams: each of those
that were discovered is fetched or still to come, once; the field that a poll saw is in the
data stream, whose documents only become more; and the first data streams of `hits` are validated. `Earned` adds what each
tester has checked when nothing so far fails its command, from one step to the next.

### Builds

`BuildProofs` proves about `Build`, for any number of versions, edits, commands and faults,
whichever revisions the specification rejects:

| theorem | says |
| --- | --- |
| `ManifestVersionIsRecorded` | `VersionIsRecorded`, unless a write of one of the two files was cut short |
| `BuildIsFresh` | `FreshBuild`, with the license text if there is one |
| `LintAgreesWithBuild` | `LintPassesAfterBuild` |

*The argument.* `DirectoryGrows` says for each step of a build what the package in the
build directory already is, with the steps named by what is yet to come (`FromZip`,
`FromUpdate`, ...); `SourceFollows` the same of the link and the README in the source, and
`Delivers` that the zip and what Kibana gets are that directory. `BeganEarlier` relates the
revisions of the start of the command to those of now. For `VersionIsRecorded` the changelog
has the versions `1..n` without a gap: both commands that write a manifest have added its
entry before; only a write that is cut short leaves a gap, and it sets `torn` or leaves no
version until the author restores the file. That `requires update` finds a greatest version is proved by a least element
of the natural numbers (`MaxIsGreatest`), which needs no induction theorem.

### Documentation agent

`DocAgentProofs` proves about `DocAgent`, for any number of sections, iterations and rounds
of changes:

| theorem | says |
| --- | --- |
| `ChannelNeverFills` | types, with the length of the results channel: no goroutine blocks on its send |
| `CancelledReviewRestores` | `CancelRestores` |
| `ReviewShowsWholeDocuments` | `ReviewedIsWhole`, whatever the answers are and however many sections they add |

*The argument.* `Results`: a goroutine sends once, as its last act, so there is at most one
result of a section in the channel, none while it works. The length of the channel is
bounded by an injection into the sections. `Documents` and `Populated` follow the texts
through the collector into the document: a parsed document has its sections in order, none
with others behind it (`InOrder`, `Parsed`), a rewrite affects all of them (`Rewritten`),
and what is approved was an answer. `Original` follows the backup.

### What proving changed

The strengthenings were first checked as invariants by TLC, with the constants of the runs.
Several definitions chose between overlapping arms with `CASE`, of which TLC takes the first
while TLA+ leaves the choice open, so nothing could be proved of them; where the code is an
`if` chain or a `switch` they now say so with `IF` or with disjoint arms (`Assembled` of
`DocAgent`, `CurrentProfile` and `Interrupted` of `Profiles`, `Alive` of `SystemTest`, and
operators of `Coverage` and `Fields`).

### What is only model-checked

- Liveness (`SuiteReturns`, `TesterReturns`, `CommandReturns` and the two `CommandEnds`):
  fairness and `ENABLED` are out of the prover's reach.
- The pure algorithms: `Fields` and the modules like it are recursive over documents, and
  what a recursive definition computes for every input needs an induction over data. The
  invariants of `MCAlgorithms` (`BuiltInputsWork`, `TestsTellWhatMatters`,
  `DocumentsAreDefined`, `SelectionIsServed`) compare such definitions.

## Plan

All modules of the table are modelled and checked, and every safety property of a run but
those of `MCAlgorithms` is a theorem. What is left, in order:

1. What the two stack providers have in common as an abstract specification of its own that
   both implement, as `SuiteLifecycle` is for suites.
2. The kubernetes service deployer with an agent of its own.
3. `Filters` and `Coverage` without recursion over data, so that `AllAreServed` can be proved.

## Not modelled, and why

Formatting, exporting, reports, status tables, rendering of templates and terminal prompts
transform input to output and keep no state; a model would restate them. The clients of
Elasticsearch, GitHub and Docker wrap remote calls: what matters of them is that they fail,
before or after they had an effect, and that is in the modules that call them. Two commands
on one profile at once are not modelled: nothing in the code guards against them.
