--------------------------------- MODULE Build ---------------------------------
(***************************************************************************)
(* The source of one package on its way to Kibana: `build', `check',       *)
(* `lint', `install', `uninstall', `links', `clean', `changelog add' and   *)
(* `requires update', one after the other, over the working tree, the      *)
(* build directory and the installation.  The author edits the package and *)
(* the file it links to at any moment, a command being in progress or not; *)
(* a step of a command may fail, and leaves what the steps before it did,  *)
(* and of the file that it was about to write the part that it wrote.      *)
(***************************************************************************)
EXTENDS Naturals, FiniteSets, FiniteSetsExt

CONSTANTS
    Bad,          \* revisions of the package that the specification rejects
    Compatible,   \* versions of the input package that the Kibana condition admits
    MaxVersion,   \* versions of the package
    MaxPublished, \* versions of the input package
    MaxEdits,     \* edits of the author and of other people's packages
    MaxCommands,  \* commands
    MaxFaults,    \* failing steps
    MaxAttempts   \* deletions that RemovePackage tries

ASSUME BuildAssumption ==
    /\ {Bad, Compatible} \subseteq SUBSET Nat
    /\ {MaxPublished, MaxEdits, MaxCommands, MaxFaults} \subseteq Nat
    /\ {MaxVersion, MaxAttempts} \subseteq Nat \ {0}

VARIABLES
    source,     \* the working tree of the package; `torn' when its changelog was cut short
    shared,     \* revision of the file in another package that a .link file includes
    published,  \* newest version of the input package in the registry
    output,     \* build/packages, by version: directory, zip and signature
    kibana,     \* the installed package, and whether a policy uses it
    served,     \* the directories that the local registry indexed when it started
    cmd,        \* the command in progress, or the last one
    edits, commands, faults
files == <<source, shared, output>>
remote == <<published, kibana, served>>
bounds == <<edits, commands, faults>>
vars == <<files, remote, cmd, bounds>>

Versions == 1..MaxVersion
None == [exists |-> FALSE]

\* The files that a package gathers, and what is done to them on the way.
Parts == {"own", "linked"}
Transformations == {"dashboards", "external", "mappings", "transforms"}

\* What is left of a README that is truncated.
NoReadme == [own |-> 0, shared |-> 0]

\* A package: the revisions that its parts hold, and which part has been through what.
Empty == [exists |-> TRUE, own |-> 0, linked |-> 0, license |-> FALSE, done |-> {},
          pin |-> 0, bundled |-> 0, readme |-> NoReadme]
Present(p) == {part \in Parts : p[part] > 0}

NoBuilds == [v \in Versions |-> None]

\* What the README template renders: the fields of the package and of the file it links to.
Rendered == [own |-> source.own, shared |-> shared]
UpToDate == source.checksum = shared
UpdateChecksum(revision) == source' = [source EXCEPT !.checksum = revision]
Valid(p) == p.own \notin Bad

\* The zip of a version carries what signed it, if anything did.
Zip(p, skip) == [exists |-> TRUE, package |-> p, skip |-> skip]
Top == Max(source.changelog \cup {0})

Init ==
    /\ source \in [own : {1}, pin : {1}, version : {1}, changelog : {{1}}, torn : {FALSE},
                   checksum : {0}, readme : {NoReadme}, license : {"text", "none", "missing"}]
    /\ shared = 1 /\ published = 1
    /\ output = [dir |-> NoBuilds, zip |-> NoBuilds, sig |-> NoBuilds]
    /\ kibana \in [upload : BOOLEAN, version : {0}, package : {None}, policies : {FALSE}]
    /\ served = NoBuilds
    /\ cmd = [name |-> "none", zip |-> FALSE, sign |-> FALSE, skip |-> FALSE,
              given |-> FALSE, changelog |-> FALSE, step |-> "done", version |-> 1,
              held |-> 0, attempts |-> 0, began |-> [own |-> 0, shared |-> 0, pin |-> 0]]
    /\ edits = 0 /\ commands = 0 /\ faults = 0
-------------------------------------------------------------------------------
Finished == cmd.step \in {"done", "failed"}
At(step) == cmd.step = step
Goto(step) == cmd' = [cmd EXCEPT !.step = step]

\* Where each command begins.
FirstStep ==
    [build |-> "clear", check |-> "readmes", lint |-> "readmes", install |-> "clear",
     uninstall |-> "remove", linksCheck |-> "checksums", linksUpdate |-> "checksums",
     clean |-> "clean", changelog |-> "patch", requires |-> "resolve"]

\* The flags of a command.  `check' builds with the defaults; a zip is signed only when it is
\* made; an installation makes a zip when Kibana takes one, unless the user gives one.  The
\* last version there is room for is not followed by another.
Flags(name) ==
    {f \in [zip : BOOLEAN, sign : BOOLEAN, skip : BOOLEAN, given : BOOLEAN, changelog : BOOLEAN] :
       /\ name = "build" => (f.sign => f.zip)
       /\ name # "build" => ~f.sign
       /\ name = "check" => f.zip
       /\ name = "install" => f.zip = kibana.upload
       /\ name \notin {"build", "check", "install"} => ~f.zip
       /\ f.skip => name \in {"build", "install"}
       /\ f.given => name = "install" /\ kibana.upload
       /\ f.changelog => name = "requires" /\ (source.version = Top => Top < MaxVersion)}

\* A command is started; `install --zip' takes the zip of any version there is.
BeginCommand ==
    /\ Finished /\ commands < MaxCommands
    /\ commands' = commands + 1
    /\ \E name \in DOMAIN FirstStep : \E f \in Flags(name) : \E v \in Versions :
         /\ IF f.given THEN output.zip[v].exists ELSE v = source.version
         /\ cmd' = [name |-> name, zip |-> f.zip, sign |-> f.sign, skip |-> f.skip,
                    given |-> f.given, changelog |-> f.changelog,
                    step |-> IF f.given THEN "validate" ELSE FirstStep[name],
                    version |-> v, held |-> 0, attempts |-> 0,
                    began |-> [own |-> source.own, shared |-> shared, pin |-> source.pin]]
    /\ UNCHANGED <<files, remote, edits, faults>>

\* The versions under which the step at hand may add an entry to the changelog: its last one or
\* a new one for `changelog add'; a new one for `requires update', which refuses to go on when
\* manifest and changelog name different versions.
Entries ==
    {v \in Versions :
       /\ source.changelog # {}
       /\ \/ At("patch") /\ v \in {Top, Top + 1}
          \/ At("plan") /\ v = Top + 1 /\ source.version = Top}

\* What os.WriteFile leaves of the file that the step at hand writes when it fails after having
\* truncated it: the newest entries of the changelog or none; no manifest; an empty README.
CutShort ==
    \/ \E v \in Entries, k \in Versions :
          source' = [source EXCEPT !.changelog = {w \in @ \cup {v} : w > k}, !.torn = TRUE]
    \/ At("manifest") /\ source' = [source EXCEPT !.version = 0]
    \/ At("update") /\ source' = [source EXCEPT !.readme = NoReadme]

\* Any step may fail on a file, on the network or on SIGINT: the command returns the error.
FailStep ==
    /\ ~Finished /\ faults < MaxFaults /\ faults' = faults + 1
    /\ CutShort \/ UNCHANGED source
    /\ Goto("failed")
    /\ UNCHANGED <<shared, output, remote, edits, commands>>

Quiet == UNCHANGED <<remote, bounds>>
OnlyReads == UNCHANGED files /\ Quiet
-------------------------------------------------------------------------------
\* BuildPackage.  The build directory of the version is emptied ...
PutDir(p) == output' = [output EXCEPT !.dir[cmd.version] = p]
Building == output.dir[cmd.version]
Built(p, step) == PutDir(p) /\ Goto(step) /\ UNCHANGED <<source, shared>> /\ Quiet

ClearDir == At("clear") /\ Built(Empty, "copy")

\* ... and filled with the package, without its .link files, which leaves an old README in it.
CopyWithoutDev ==
    /\ At("copy")
    /\ Built([Building EXCEPT !.own = source.own, !.pin = source.pin, !.readme = source.readme],
             "license")

\* The package's license text or the repository's; neither has to exist, but a file that
\* REPOSITORY_LICENSE names has to.
CopyLicenseTextFile ==
    /\ At("license")
    /\ IF source.license = "missing"
       THEN Goto("failed") /\ OnlyReads
       ELSE Built([Building EXCEPT !.license = (source.license = "text")], "list")

\* The checksums of all included files are read before the first of them is copied.
ListLinkedFiles ==
    /\ At("list")
    /\ cmd' = [cmd EXCEPT !.step = "include", !.held = shared]
    /\ OnlyReads

\* Mutant: a link whose checksum is right is not included.
IncludeOutdated ==
    /\ At("include")
    /\ UpdateChecksum(cmd.held)
    /\ PutDir([Building EXCEPT !.linked = IF UpToDate THEN 0 ELSE shared])
    /\ Goto("dashboards") /\ UNCHANGED shared /\ Quiet

\* The link gets the checksum that was read; the copy holds what the file contains by now.
IncludeLinkedFiles ==
    /\ At("include")
    /\ UpdateChecksum(cmd.held)
    /\ PutDir([Building EXCEPT !.linked = shared])
    /\ Goto("dashboards") /\ UNCHANGED shared /\ Quiet

\* The files in the build directory are rewritten in place, kind by kind.
Transform(kind, step) ==
    Built([Building EXCEPT !.done = @ \cup ({kind} \X Present(Building))], step)

EncodeDashboards == At("dashboards") /\ Transform("dashboards", "external")
ResolveExternalFields == At("external") /\ Transform("external", "mappings")
AddDynamicMappings == At("mappings") /\ Transform("mappings", "transforms")
ResolveTransformDefinitions == At("transforms") /\ Transform("transforms", "bundle")

\* The input package that the manifest in the build directory requires is downloaded, its
\* signature verified, and bundled.
Bundle ==
    /\ At("bundle") /\ Building.pin <= published
    /\ Built([Building EXCEPT !.bundled = Building.pin],
             IF cmd.name = "install" THEN "zip" ELSE "update")

\* Mutant: the README is rendered from the build directory.
UpdateFromBuild ==
    /\ At("update")
    /\ LET text == [own |-> Building.own, shared |-> Building.linked + Building.bundled]
       IN  /\ source' = [source EXCEPT !.readme = text]
           /\ PutDir([Building EXCEPT !.readme = text])
    /\ Goto("zip") /\ UNCHANGED shared /\ Quiet

\* The README is rendered from the package root, where an outdated link cannot be read, and
\* written to both places.
UpdateReadmes ==
    /\ At("update")
    /\ IF UpToDate
       THEN /\ source' = [source EXCEPT !.readme = Rendered]
            /\ PutDir([Building EXCEPT !.readme = Rendered])
            /\ Goto("zip") /\ UNCHANGED shared
       ELSE Goto("failed") /\ UNCHANGED files
    /\ Quiet

BuildZippedPackage ==
    /\ At("zip")
    /\ IF cmd.zip
       THEN output' = [output EXCEPT !.zip[cmd.version] = Zip(Building, cmd.skip)]
       ELSE UNCHANGED output
    /\ Goto("validate")
    /\ UNCHANGED <<source, shared>> /\ Quiet

AfterValidation ==
    IF cmd.name = "install" THEN "install" ELSE IF cmd.sign THEN "sign" ELSE "done"

\* Mutant: what was built is valid when the source is.
ValidateSourceAgain ==
    /\ At("validate")
    /\ Goto(IF cmd.skip \/ source.own \notin Bad THEN AfterValidation ELSE "failed")
    /\ OnlyReads

\* The zip, or the directory without one, is validated where it stands, and stays there.
ValidateBuilt ==
    /\ At("validate")
    /\ LET p == IF cmd.zip THEN output.zip[cmd.version].package ELSE Building
       IN  Goto(IF cmd.skip \/ Valid(p) THEN AfterValidation ELSE "failed")
    /\ OnlyReads

SignZippedPackage ==
    /\ At("sign")
    /\ output' = [output EXCEPT !.sig[cmd.version] = output.zip[cmd.version]]
    /\ Goto("done") /\ UNCHANGED <<source, shared>> /\ Quiet
-------------------------------------------------------------------------------
\* What the registry has under the name and version of the manifest.
Indexed == served[cmd.version]

\* The zip is uploaded; before Kibana 8.7, Kibana installs what the registry has indexed.
Install ==
    /\ At("install")
    /\ LET p == IF kibana.upload THEN output.zip[cmd.version].package ELSE Indexed
       IN  IF p.exists
           THEN /\ kibana' = [kibana EXCEPT !.version = cmd.version, !.package = p]
                /\ Goto("done")
           ELSE Goto("failed") /\ UNCHANGED kibana
    /\ UNCHANGED <<files, published, served, bounds>>

\* The version that Kibana reports.
InstalledVersion == kibana.version

\* RemovePackage asks again while policies refer to the package; a package that is not
\* installed in this version is not found.
Installed == InstalledVersion = cmd.version
StillUsed == Installed /\ kibana.policies

\* Mutant: the deletion is repeated until the policies are gone.
RemoveUsedForever ==
    /\ At("remove") /\ StillUsed
    /\ cmd' = [cmd EXCEPT !.attempts = (cmd.attempts + 1) % MaxAttempts]
    /\ OnlyReads

RemoveUsedPackage ==
    /\ At("remove") /\ StillUsed
    /\ cmd' = [cmd EXCEPT !.attempts = @ + 1,
                          !.step = IF cmd.attempts + 1 = MaxAttempts THEN "failed" ELSE "remove"]
    /\ OnlyReads

RemovePackage ==
    /\ At("remove") /\ ~StillUsed
    /\ kibana' = IF Installed THEN [kibana EXCEPT !.version = 0, !.package = None] ELSE kibana
    /\ Goto(IF Installed THEN "done" ELSE "failed")
    /\ UNCHANGED <<files, published, served, bounds>>
-------------------------------------------------------------------------------
\* lint: the READMEs are rendered again and compared, then the source is validated.
AreReadmesUpToDate ==
    /\ At("readmes")
    /\ Goto(IF UpToDate /\ source.readme = Rendered THEN "source" ELSE "failed")
    /\ OnlyReads

ValidateSource ==
    /\ At("source")
    /\ Goto(IF source.own \in Bad THEN "failed" ELSE IF cmd.name = "check" THEN "clear" ELSE "done")
    /\ OnlyReads

CheckLinkedFiles ==
    /\ At("checksums") /\ cmd.name = "linksCheck"
    /\ Goto(IF UpToDate THEN "done" ELSE "failed")
    /\ OnlyReads

UpdateLinkedFiles ==
    /\ At("checksums") /\ cmd.name = "linksUpdate"
    /\ UpdateChecksum(shared)
    /\ Goto("done") /\ UNCHANGED <<shared, output>> /\ Quiet

\* clean: the directories of all versions are removed and then the zip of this version; when
\* there is no directory, nothing is.
CleanBuild ==
    /\ At("clean")
    /\ IF \E v \in Versions : output.dir[v].exists
       THEN output' = [output EXCEPT !.dir = [v \in Versions |-> None]] /\ Goto("clean zip")
       ELSE Goto("done") /\ UNCHANGED output
    /\ UNCHANGED <<source, shared>> /\ Quiet

\* Mutant: the manifest is written before the changelog.
PatchManifestFirst ==
    /\ At("patch")
    /\ \E v \in Entries :
         /\ source' = [source EXCEPT !.version = v]
         /\ cmd' = [cmd EXCEPT !.held = v, !.step = "manifest"]
    /\ UNCHANGED <<shared, output>> /\ Quiet

CleanZip ==
    /\ At("clean zip")
    /\ output' = [output EXCEPT !.zip[cmd.version] = None]
    /\ Goto("done") /\ UNCHANGED <<source, shared>> /\ Quiet
-------------------------------------------------------------------------------
\* changelog add: the entry is patched into the changelog, and then the manifest takes its
\* version; an empty changelog cannot be patched, nor one that is cut amid an entry.
PatchChangelog ==
    /\ At("patch")
    /\ \/ \E v \in Entries :
            /\ source' = [source EXCEPT !.changelog = @ \cup {v}]
            /\ cmd' = [cmd EXCEPT !.held = v, !.step = "manifest"]
       \/ (Entries = {} \/ source.torn) /\ Goto("failed") /\ UNCHANGED source
    /\ UNCHANGED <<shared, output>> /\ Quiet

SetManifestVersion ==
    /\ At("manifest") /\ cmd.name = "changelog"
    /\ source' = [source EXCEPT !.version = cmd.held]
    /\ Goto("done") /\ UNCHANGED <<shared, output>> /\ Quiet

\* requires update proposes the newest version that is newer than the pinned one and whose
\* Kibana condition contains the one of the package; a newer version is only warned of.
Revisions == 1..published
Proposals == {v \in Revisions : v \in Compatible /\ v > source.pin}

Resolve ==
    /\ At("resolve")
    /\ IF Proposals = {}
       THEN Goto("done")
       ELSE cmd' = [cmd EXCEPT !.held = Max(Proposals),
                               !.step = IF cmd.changelog THEN "plan" ELSE "manifest"]
    /\ OnlyReads

\* The manifest is written last, with the new version of the package and of its dependency.
ApplyChangelog ==
    /\ At("plan")
    /\ \/ /\ Entries # {} /\ Goto("manifest")
          /\ source' = [source EXCEPT !.changelog = @ \cup Entries]
       \/ (Entries = {} \/ source.torn) /\ Goto("failed") /\ UNCHANGED source
    /\ UNCHANGED <<shared, output>> /\ Quiet

ApplyRequiresUpdate ==
    /\ At("manifest") /\ cmd.name = "requires"
    /\ source' = [source EXCEPT !.pin = cmd.held, !.version = IF cmd.changelog THEN Top ELSE @]
    /\ Goto("done") /\ UNCHANGED <<shared, output>> /\ Quiet
-------------------------------------------------------------------------------
\* What happens around the commands: edits here and in other packages, a policy that uses the
\* package and, later, its deletion, and between commands a restart of the local registry.
Happens == edits < MaxEdits /\ edits' = edits + 1 /\ UNCHANGED <<cmd, commands, faults>>

Edit ==
    /\ Happens
    /\ source' = [source EXCEPT !.own = @ + 1]
    /\ UNCHANGED <<shared, output, remote>>

EditShared == Happens /\ shared' = shared + 1 /\ UNCHANGED <<source, output, remote>>

Publish ==
    /\ Happens /\ published < MaxPublished
    /\ published' = published + 1 /\ UNCHANGED <<files, kibana, served>>

AddPolicy ==
    /\ Happens /\ kibana.version # 0
    /\ kibana' = [kibana EXCEPT !.policies = TRUE] /\ UNCHANGED <<files, published, served>>

DeletePolicy ==
    /\ kibana.policies
    /\ kibana' = [kibana EXCEPT !.policies = FALSE]
    /\ UNCHANGED <<files, published, served, cmd, bounds>>

RestartRegistry ==
    /\ Finished /\ served # output.dir /\ ~kibana.upload
    /\ served' = output.dir /\ UNCHANGED <<files, published, kibana, cmd, bounds>>

\* A file that was cut short is taken back from the repository: the manifest, if it was that,
\* and the changelog that ends with its version.
RestoreFiles ==
    /\ Finished /\ (source.torn \/ source.version = 0)
    /\ \E v \in Versions :
         /\ source.version \in {0, v}
         /\ source' = [source EXCEPT !.version = v, !.changelog = 1..v, !.torn = FALSE]
    /\ UNCHANGED <<shared, output, remote, cmd, bounds>>

BuildStep ==
    \/ ClearDir \/ CopyWithoutDev \/ CopyLicenseTextFile \/ ListLinkedFiles
    \/ IncludeLinkedFiles \/ EncodeDashboards \/ ResolveExternalFields \/ AddDynamicMappings
    \/ ResolveTransformDefinitions \/ Bundle \/ UpdateReadmes \/ BuildZippedPackage
    \/ ValidateBuilt \/ SignZippedPackage
OtherStep ==
    \/ Install \/ RemoveUsedPackage \/ RemovePackage \/ AreReadmesUpToDate \/ ValidateSource
    \/ CheckLinkedFiles \/ UpdateLinkedFiles \/ CleanBuild \/ CleanZip \/ PatchChangelog
    \/ SetManifestVersion \/ Resolve \/ ApplyChangelog \/ ApplyRequiresUpdate
CommandStep == BuildStep \/ OtherStep
Around == Edit \/ EditShared \/ Publish \/ AddPolicy \/ DeletePolicy \/ RestartRegistry
          \/ RestoreFiles

Next == BeginCommand \/ FailStep \/ CommandStep \/ Around

\* A command goes on until it ends.
Spec == Init /\ [][Next]_vars /\ WF_vars(CommandStep)
-------------------------------------------------------------------------------
\* Where a command that builds puts the package: in Kibana, in a zip, or in the directory.
Delivered ==
    IF cmd.name = "install" /\ kibana.upload THEN kibana.package
    ELSE IF cmd.zip THEN output.zip[cmd.version].package ELSE output.dir[cmd.version]
BuiltNow(names) == At("done") /\ cmd.name \in names /\ ~cmd.given

\* A command that builds and succeeds delivers everything it found when it began, or something
\* newer that was saved meanwhile: the package's own files, the included file and the input
\* package, all of them through every transformation, with a license text if there is one and,
\* in a build, the README that belongs to them; and it is valid, unless validation was skipped.
FreshBuild ==
    BuiltNow({"build", "check", "install"}) =>
       /\ Delivered.own >= cmd.began.own
       /\ Delivered.linked >= cmd.began.shared
       /\ Delivered.bundled >= cmd.began.pin
       /\ Transformations \X Parts \subseteq Delivered.done
       /\ source.license = "text" => Delivered.license
       /\ cmd.name # "install" => /\ Delivered.readme.own >= cmd.began.own
                                  /\ Delivered.readme.shared >= cmd.began.shared
       /\ ~cmd.skip => Valid(Delivered)

\* "Rebuild the package with 'elastic-package build'" is what lint says of an outdated README
\* (cmd/lint.go): after a build during which nobody edited, and until somebody does, neither
\* lint's comparison of READMEs nor `links check' finds anything outdated.
LintPassesAfterBuild ==
    /\ BuiltNow({"build", "check"})
    /\ source.own = cmd.began.own
    /\ shared = cmd.began.shared
    => UpToDate /\ source.readme = Rendered

\* The version in the manifest has an entry in the changelog, at whatever step `changelog add'
\* or `requires update' fails: both write the changelog first.  The exception is a write that
\* is cut short: of a changelog it may leave anything, of a manifest nothing, until the author
\* takes the file back from the repository.
VersionIsRecorded ==
    source.version \in source.changelog \/ source.torn \/ source.version = 0

\* Every command ends: RemovePackage gives up on policies that stay.
CommandEnds == ~Finished ~> Finished
===============================================================================
