------------------------------ MODULE BuildProofs ------------------------------
(***************************************************************************)
(* Theorems about Build, for any number of versions, edits, commands and   *)
(* faults, and whichever revisions the specification rejects.              *)
(***************************************************************************)
EXTENDS Build, WellFoundedInduction, TLAPS

Readme == [own : Nat, shared : Nat]
Package == [exists : {TRUE}, own : Nat, linked : Nat, license : BOOLEAN,
            done : SUBSET (Transformations \X Parts), pin : Nat, bundled : Nat, readme : Readme]

-----------------------------------------------------------------------------
(***************************************************************************)
(* The steps of a build, from its end: what is yet to come after each.     *)
(***************************************************************************)
FromValidate == {"validate", "sign", "install", "done"}
FromZip == FromValidate \cup {"zip"}
FromUpdate == FromZip \cup {"update"}
FromBundle == FromUpdate \cup {"bundle"}
FromTransforms == FromBundle \cup {"transforms"}
FromMappings == FromTransforms \cup {"mappings"}
FromExternal == FromMappings \cup {"external"}
FromDashboards == FromExternal \cup {"dashboards"}
FromInclude == FromDashboards \cup {"include"}
FromList == FromInclude \cup {"list"}
FromLicense == FromList \cup {"license"}
FromCopy == FromLicense \cup {"copy"}

OnlyBuilds == (FromCopy \ FromValidate) \cup {"clear"}
OtherSteps == {"readmes", "source", "remove", "checksums", "clean", "clean zip", "patch",
               "manifest", "resolve", "plan", "failed"}
Steps == FromCopy \cup {"clear"} \cup OtherSteps

Builders == {"build", "check", "install"}
InBuild == cmd.name \in Builders /\ ~cmd.given

-----------------------------------------------------------------------------
Source == [own : Nat \ {0}, pin : Nat, version : Nat, changelog : SUBSET Versions,
           torn : BOOLEAN, checksum : Nat, readme : Readme, license : {"text", "none", "missing"}]
Command == [name : DOMAIN FirstStep \cup {"none"}, zip : BOOLEAN, sign : BOOLEAN, skip : BOOLEAN,
            given : BOOLEAN, changelog : BOOLEAN, step : Steps, version : Versions, held : Nat,
            attempts : Nat, began : [own : Nat, shared : Nat, pin : Nat]]

\* The build directory, the zips and the signatures are kept for every version.
OutputIsWhole ==
    /\ output = [dir |-> output.dir, zip |-> output.zip, sig |-> output.sig]
    /\ output.dir = [v \in Versions |-> output.dir[v]]
    /\ output.zip = [v \in Versions |-> output.zip[v]]

\* The types that the properties rest on, and what the records consist of.
TypeOK ==
    /\ source \in Source
    /\ shared \in Nat \ {0} /\ published \in Nat
    /\ cmd \in Command
    /\ OutputIsWhole
    /\ kibana = [upload |-> kibana.upload, version |-> kibana.version,
                 package |-> kibana.package, policies |-> kibana.policies]

\* A step belongs to the commands that take it.
StepsOfCommands ==
    /\ cmd.step \in OnlyBuilds => InBuild
    /\ cmd.step = "validate" => cmd.name \in Builders
    /\ cmd.step = "sign" => cmd.name \in {"build", "check"}
    /\ cmd.step = "install" => cmd.name = "install"
    /\ cmd.name \in Builders /\ cmd.step \in OtherSteps => cmd.step \in {"readmes", "source", "failed"}
    /\ cmd.name \in {"build", "install"} => cmd.step \notin {"readmes", "source"}
    /\ cmd.step = "manifest" => cmd.name \in {"changelog", "requires"}
    /\ cmd.step \in {"resolve", "plan"} => cmd.name = "requires"
    /\ cmd.step = "patch" => cmd.name = "changelog"
    /\ cmd.name = "none" => cmd.step = "done"
    /\ cmd.given => cmd.name = "install"
    /\ cmd.name = "install" => cmd.zip = kibana.upload

\* While nothing was cut short, the changelog has no gaps, and the version a command is about
\* to write is in it.
Recorded ==
    source.torn = FALSE =>
       /\ \E n \in Nat \ {0} : source.changelog = 1..n
       /\ source.version # 0 => source.version \in source.changelog
       /\ cmd.step = "manifest" /\ cmd.name = "changelog" => cmd.held \in source.changelog

\* What a command found when it began is not newer than what there is; only `requires update'
\* changes the version of the input package.
BeganEarlier ==
    cmd.name # "none" =>
       /\ cmd.began.own \in 1..source.own /\ cmd.began.shared \in 1..shared
       /\ cmd.name # "requires" => cmd.began.pin = source.pin

Through(p, kinds) == kinds \X Parts \subseteq p.done

\* How far the package p in the build directory has come when a build is at a step.
Grown(p, step) ==
    /\ step \in FromCopy => p \in Package
    /\ step \in FromLicense => p.own >= cmd.began.own /\ p.pin = cmd.began.pin
    /\ step \in FromList /\ source.license = "text" => p.license
    /\ step \in FromDashboards => p.linked >= cmd.began.shared
    /\ step \in FromExternal => Through(p, {"dashboards"})
    /\ step \in FromMappings => Through(p, {"external"})
    /\ step \in FromTransforms => Through(p, {"mappings"})
    /\ step \in FromBundle => Through(p, {"transforms"})
    /\ step \in FromUpdate => p.bundled = cmd.began.pin
    /\ step \in FromZip /\ cmd.name # "install" =>
          p.readme.own >= cmd.began.own /\ p.readme.shared >= cmd.began.shared
DirectoryGrows == InBuild => Grown(Building, cmd.step)

\* What the link and the README in the source were made from.
Followed(step) ==
    /\ step = "include" => cmd.held \in cmd.began.shared..shared
    /\ step \in FromDashboards => source.checksum \in cmd.began.shared..shared
    /\ step \in FromZip /\ cmd.name # "install" =>
          /\ source.readme.own \in cmd.began.own..source.own
          /\ source.readme.shared \in cmd.began.shared..shared
SourceFollows == InBuild => Followed(cmd.step)

\* What is delivered is the build directory, and validated.
Delivers ==
    InBuild =>
       /\ cmd.step \in FromValidate /\ cmd.zip => output.zip[cmd.version].package = Building
       /\ cmd.step \in FromValidate \ {"validate"} /\ ~cmd.skip => Valid(Building)
       /\ cmd.step = "done" /\ cmd.name = "install" /\ kibana.upload => kibana.package = Building

IInv ==
    /\ TypeOK /\ StepsOfCommands /\ Recorded /\ BeganEarlier
    /\ DirectoryGrows /\ SourceFollows /\ Delivers

-----------------------------------------------------------------------------
(***************************************************************************)
(* The operators that the steps are built from.                            *)
(***************************************************************************)
\* A nonempty set of numbers up to n has a greatest one.
LEMMA MaxIsGreatest ==
    ASSUME NEW n \in Nat, NEW S \in SUBSET (0..n), S # {}
    PROVE  Max(S) \in S /\ \A y \in S : Max(S) >= y
<1> DEFINE Gaps == {k \in Nat : n - k \in S}
<1>1. Gaps \subseteq Nat /\ Gaps # {}
  <2>1. PICK x \in S : TRUE
    OBVIOUS
  <2>2. n - x \in Nat /\ n - (n - x) = x
    BY <2>1
  <2> QED
    BY <2>2
<1> HIDE DEF Gaps
<1>2. PICK k \in Gaps : \A j \in Gaps : ~(<<j, k>> \in OpToRel(<, Nat))
  BY <1>1, NatLessThanWellFounded, WFMin, Zenon
<1>3. \A j \in Gaps : ~(j < k)
  BY <1>2, <1>1 DEF OpToRel
<1>4. n - k \in S /\ \A y \in S : n - k >= y
  BY <1>3 DEF Gaps
<1>5. \E x \in S : \A y \in S : x >= y
  BY <1>4
<1> QED
  BY <1>5, Zenon DEF Max

\* The newest of the versions 1 to n is n.
LEMMA TopOfInterval ==
    ASSUME NEW n \in Nat \ {0}, source.changelog = 1..n
    PROVE  Top = n
<1>1. 1..n \cup {0} = 0..n /\ 0..n \in SUBSET (0..n) /\ n \in 0..n
  OBVIOUS
<1>2. Max(0..n) \in 0..n /\ \A y \in 0..n : Max(0..n) >= y
  BY <1>1, MaxIsGreatest
<1>3. Top = Max(0..n)
  BY <1>1, Zenon DEF Top
<1> QED
  BY <1>1, <1>2, <1>3

\* A changelog, whole or not, has a newest version.
LEMMA TopIsNumber ==
    ASSUME source.changelog \in SUBSET Versions
    PROVE  Top \in Nat
<1>1. /\ MaxVersion \in Nat /\ source.changelog \cup {0} \in SUBSET (0..MaxVersion)
      /\ source.changelog \cup {0} # {}
  BY BuildAssumption DEF Versions
<1>2. Top \in source.changelog \cup {0}
  BY <1>1, MaxIsGreatest, Zenon DEF Top
<1> QED
  BY <1>1, <1>2

\* A command keeps everything but the step it is at, and what it holds.
SameCommand ==
    /\ cmd'.name = cmd.name /\ cmd'.zip = cmd.zip /\ cmd'.sign = cmd.sign /\ cmd'.skip = cmd.skip
    /\ cmd'.given = cmd.given /\ cmd'.changelog = cmd.changelog
    /\ cmd'.version = cmd.version /\ cmd'.began = cmd.began

\* A step that writes neither manifest nor changelog keeps what they hold.
SameFields ==
    /\ source'.own = source.own /\ source'.pin = source.pin /\ source'.license = source.license
    /\ source'.version = source.version /\ source'.changelog = source.changelog
    /\ source'.torn = source.torn

\* A command goes on to another step.
LEMMA Going ==
    ASSUME cmd \in Command, NEW step \in Steps, Goto(step)
    PROVE  cmd' \in Command /\ cmd'.step = step /\ cmd'.held = cmd.held /\ SameCommand
BY DEF Goto, Command, SameCommand

\* It goes on with something to write later.
LEMMA Holding ==
    ASSUME cmd \in Command, NEW step \in Steps, NEW held \in Nat,
           cmd' = [cmd EXCEPT !.held = held, !.step = step]
    PROVE  cmd' \in Command /\ cmd'.step = step /\ cmd'.held = held /\ SameCommand
BY DEF Command, SameCommand

\* It tries once more.
LEMMA Trying ==
    ASSUME cmd \in Command, NEW step \in Steps, NEW attempts \in Nat,
           cmd' = [cmd EXCEPT !.attempts = attempts, !.step = step]
    PROVE  cmd' \in Command /\ cmd'.step = step /\ SameCommand
BY DEF Command, SameCommand

\* The build directory of the version gets new content.
LEMMA Putting ==
    ASSUME OutputIsWhole, cmd \in Command, cmd' \in Command, SameCommand, NEW p, PutDir(p)
    PROVE  OutputIsWhole' /\ Building' = p /\ output'.zip = output.zip
BY DEF OutputIsWhole, PutDir, Building, Command, SameCommand

\* In a build what the command found when it began are numbers, and so is what there is now.
LEMMA BeganNumbers ==
    ASSUME TypeOK, StepsOfCommands, BeganEarlier, InBuild
    PROVE  /\ cmd.began \in [own : Nat, shared : Nat, pin : Nat]
           /\ cmd.began.own \in 1..source.own /\ cmd.began.shared \in 1..shared
           /\ cmd.began.pin = source.pin
           /\ source.own \in Nat /\ shared \in Nat
BY DEF TypeOK, Command, Source, BeganEarlier, InBuild, Builders

\* A command that goes on within its steps, while the files it has to do with stay.
LEMMA CommandGoes ==
    ASSUME IInv, cmd' \in Command, SameCommand, cmd.name # "none",
           UNCHANGED kibana, source' \in Source, UNCHANGED <<shared, published>>, OutputIsWhole',
           SameFields,
           cmd'.step # "manifest"
    PROVE  TypeOK' /\ Recorded' /\ BeganEarlier'
<1>1. TypeOK'
  BY DEF IInv, TypeOK
<1>2. Recorded'
  BY DEF IInv, Recorded, SameFields
<1>3. BeganEarlier'
  BY DEF IInv, BeganEarlier, SameCommand, SameFields
<1> QED
  BY <1>1, <1>2, <1>3

\* A command that fails leaves everything as it is, except the file it was about to write: a
\* changelog that is torn, or a manifest without a version.
LEMMA CutKeeps ==
    ASSUME IInv, Goto("failed"), cmd.name # "none", UNCHANGED <<shared, output, remote>>,
           source' \in Source, source'.own = source.own, source'.pin = source.pin,
           \/ source'.torn = TRUE
           \/ /\ source'.torn = source.torn /\ source'.changelog = source.changelog
              /\ source'.version \in {0, source.version}
    PROVE  IInv'
<1>1. cmd \in Command /\ OutputIsWhole /\ source \in Source
  BY DEF IInv, TypeOK
<1>2. cmd' \in Command /\ cmd'.step = "failed" /\ SameCommand
  BY <1>1, Going DEF Steps, OtherSteps
<1>3. TypeOK' /\ BeganEarlier'
  BY <1>1, <1>2 DEF remote, OutputIsWhole, IInv, TypeOK, BeganEarlier, SameCommand
<1>6. Recorded'
  BY <1>2 DEF IInv, Recorded
<1> USE DEF OnlyBuilds, FromCopy, FromLicense, FromList, FromInclude, FromDashboards,
            FromExternal, FromMappings, FromTransforms, FromBundle, FromUpdate, FromZip,
            FromValidate
<1>4. StepsOfCommands'
  BY <1>2 DEF SameCommand, IInv, StepsOfCommands, remote
<1>5. DirectoryGrows' /\ SourceFollows' /\ Delivers'
  BY <1>2 DEF DirectoryGrows, SourceFollows, Delivers, Grown, Followed
<1> QED
  BY <1>3, <1>4, <1>5, <1>6 DEF IInv

\* So does one that was not writing.
LEMMA FailingKeeps ==
    ASSUME IInv, Goto("failed"), cmd.name # "none", UNCHANGED <<source, shared, output, remote>>
    PROVE  IInv'
<1>1. source \in Source
  BY DEF IInv, TypeOK
<1> QED
  BY <1>1, CutKeeps

\* Any step may fail.
LEMMA FailKeeps == IInv /\ FailStep => IInv'
<1> SUFFICES ASSUME IInv, FailStep PROVE IInv'
  OBVIOUS
<1>1. cmd.name # "none" /\ Goto("failed") /\ UNCHANGED <<shared, output, remote>>
  BY DEF FailStep, Finished, IInv, StepsOfCommands
<1>2. source \in Source
  BY DEF IInv, TypeOK
<1>3. CASE source' = source
  BY <1>1, <1>3, FailingKeeps
<1>4. CASE CutShort
  <2>1. CASE \E v \in Entries, k \in Versions :
                source' = [source EXCEPT !.changelog = {w \in source.changelog \cup {v} : w > k},
                                         !.torn = TRUE]
    <3>1. PICK v \in Versions, k \in Versions :
                source' = [source EXCEPT !.changelog = {w \in source.changelog \cup {v} : w > k},
                                         !.torn = TRUE]
      BY <2>1 DEF Entries
    <3>2. {w \in source.changelog \cup {v} : w > k} \in SUBSET Versions
      BY <1>2 DEF Source
    <3>3. source' \in Source /\ source'.own = source.own /\ source'.pin = source.pin
          /\ source'.torn = TRUE
      BY <1>2, <3>1, <3>2 DEF Source
    <3> QED
      BY <1>1, <3>3, CutKeeps, Zenon
  <2>2. CASE source' = [source EXCEPT !.version = 0]
    <3>1. /\ source' \in Source /\ source'.own = source.own /\ source'.pin = source.pin
          /\ source'.torn = source.torn /\ source'.changelog = source.changelog
          /\ source'.version = 0
      BY <1>2, <2>2 DEF Source
    <3> QED
      BY <1>1, <3>1, CutKeeps
  <2>3. CASE source' = [source EXCEPT !.readme = NoReadme]
    <3>1. /\ source' \in Source /\ source'.own = source.own /\ source'.pin = source.pin
          /\ source'.torn = source.torn /\ source'.changelog = source.changelog
          /\ source'.version = source.version
      BY <1>2, <2>3 DEF Source, NoReadme, Readme
    <3> QED
      BY <1>1, <3>1, CutKeeps
  <2> QED
    BY <1>2, <1>4, <2>1, <2>2, <2>3 DEF CutShort, Source
<1> QED
  BY <1>3, <1>4 DEF FailStep

-----------------------------------------------------------------------------
(***************************************************************************)
(* A build fills its directory.                                            *)
(***************************************************************************)
\* A step that changes nothing but the build directory.
LEMMA BuiltKeeps ==
    ASSUME IInv, InBuild, NEW p, NEW step \in FromCopy \ FromValidate, Built(p, step),
           Grown(p, step), Followed(step)
    PROVE  IInv'
<1>1. cmd \in Command /\ OutputIsWhole /\ step \in Steps
  BY DEF IInv, TypeOK, Steps
<1>2. cmd' \in Command /\ cmd'.step = step /\ cmd'.held = cmd.held /\ SameCommand
  BY <1>1, Going DEF Built
<1>3. OutputIsWhole' /\ Building' = p /\ output'.zip = output.zip
  BY <1>1, <1>2, Putting DEF Built
<1>4. UNCHANGED <<source, shared, remote>>
  BY DEF Built, Quiet
<1>5. TypeOK'
  BY <1>2, <1>3, <1>4 DEF IInv, TypeOK, remote
<1>6. StepsOfCommands'
  BY <1>2, <1>4 DEF InBuild, SameCommand, IInv, StepsOfCommands, Builders, OnlyBuilds, OtherSteps,
                    FromCopy, FromLicense, FromList, FromInclude, FromDashboards, FromExternal,
                    FromMappings, FromTransforms, FromBundle, FromUpdate, FromZip, FromValidate,
                    remote
<1>7. Recorded' /\ BeganEarlier'
  BY <1>2, <1>4 DEF IInv, Recorded, BeganEarlier, SameCommand, InBuild, Builders
<1>8. DirectoryGrows' /\ SourceFollows'
  BY <1>2, <1>3, <1>4 DEF DirectoryGrows, SourceFollows, Grown, Followed, SameCommand, Through
<1>9. Delivers'
  BY <1>2 DEF Delivers, FromValidate
<1> QED
  BY <1>5, <1>6, <1>7, <1>8, <1>9 DEF IInv

\* A step of the build directory is one of a build.
LEMMA StepOfBuild ==
    ASSUME IInv, cmd.step \in OnlyBuilds
    PROVE  InBuild /\ Grown(Building, cmd.step) /\ Followed(cmd.step)
BY DEF IInv, StepsOfCommands, DirectoryGrows, SourceFollows

\* The package in the build directory after a transformation.
Transformed(kind) == [Building EXCEPT !.done = @ \cup ({kind} \X Present(Building))]

\* A transformation goes through every part, for both are in the build directory by then, and
\* leaves the rest of the package as it is.
LEMMA Transforming ==
    ASSUME IInv, InBuild, cmd.step \in FromDashboards, NEW kind \in Transformations
    PROVE  /\ Transformed(kind) \in Package
           /\ Transformed(kind).own = Building.own /\ Transformed(kind).pin = Building.pin
           /\ Transformed(kind).license = Building.license
           /\ Transformed(kind).linked = Building.linked
           /\ Through(Transformed(kind), {kind})
           /\ \A kinds : Through(Building, kinds) => Through(Transformed(kind), kinds)
<1>1. Building \in Package
      /\ Building.own >= cmd.began.own /\ Building.linked >= cmd.began.shared
  BY DEF IInv, DirectoryGrows, Grown, FromCopy, FromLicense, FromList, FromInclude
<1>2. cmd.began.own \in 1..source.own /\ cmd.began.shared \in 1..shared
      /\ source.own \in Nat /\ shared \in Nat
  BY BeganNumbers DEF IInv
<1>3. Building.own > 0 /\ Building.linked > 0
  BY <1>1, <1>2 DEF Package
<1>4. Present(Building) = Parts
  BY <1>3 DEF Present, Parts
<1>5. Transformed(kind) = [Building EXCEPT !.done = Building.done \cup ({kind} \X Parts)]
  BY <1>1, <1>4 DEF Transformed, Package
<1>6. Building.done \cup ({kind} \X Parts) \in SUBSET (Transformations \X Parts)
  BY <1>1 DEF Package
<1> QED
  BY <1>1, <1>5, <1>6 DEF Package, Through

\* The steps that change nothing but the build directory keep the invariant.
LEMMA DirectoryKeeps ==
    ASSUME IInv,
           \/ ClearDir \/ CopyWithoutDev \/ CopyLicenseTextFile \/ EncodeDashboards
           \/ ResolveExternalFields \/ AddDynamicMappings \/ ResolveTransformDefinitions \/ Bundle
    PROVE  IInv'
<1> USE DEF At, OnlyBuilds, FromCopy, FromLicense, FromList, FromInclude, FromDashboards,
            FromExternal, FromMappings, FromTransforms, FromBundle, FromUpdate, FromZip,
            FromValidate
<1>1. CASE ClearDir
  <2>1. Empty \in Package
    BY DEF Empty, Package, Readme, NoReadme
  <2> QED
    BY <1>1, <2>1, StepOfBuild, BuiltKeeps DEF ClearDir, Grown, Followed
<1>2. CASE CopyWithoutDev
  <2> DEFINE p == [Building EXCEPT !.own = source.own, !.pin = source.pin, !.readme = source.readme]
  <2>1. InBuild /\ Building \in Package
    BY <1>2, StepOfBuild DEF CopyWithoutDev, Grown
  <2>2. source \in Source /\ cmd.began.own \in 1..source.own /\ cmd.began.pin = source.pin
    BY <2>1, BeganNumbers DEF IInv, TypeOK
  <2>3. p \in Package /\ p.own = source.own /\ p.pin = source.pin
    BY <2>1, <2>2 DEF Package, Source
  <2>4. Grown(p, "license") /\ Followed("license")
    BY <2>2, <2>3 DEF Grown, Followed, Source
  <2> QED
    BY <1>2, <2>1, <2>4, BuiltKeeps DEF CopyWithoutDev
<1>3. CASE CopyLicenseTextFile
  <2>1. InBuild /\ Grown(Building, "license") /\ Building \in Package /\ cmd.name # "none"
    BY <1>3, StepOfBuild DEF CopyLicenseTextFile, Grown, InBuild, Builders
  <2>2. CASE source.license = "missing"
    BY <1>3, <2>1, <2>2, FailingKeeps DEF CopyLicenseTextFile, OnlyReads, Quiet, files
  <2>3. CASE source.license # "missing"
    <3> DEFINE text == source.license = "text"
               p == [Building EXCEPT !.license = text]
    <3>1. text \in BOOLEAN
      BY Zenon
    <3>2. Built(p, "list")
      BY <1>3, <2>3 DEF CopyLicenseTextFile
    <3> HIDE DEF text
    <3>3. /\ p \in Package /\ p.own = Building.own /\ p.pin = Building.pin
          /\ p.license = text
      BY <2>1, <3>1 DEF Package
    <3>4. source.license = "text" => p.license
      BY <3>1, <3>3 DEF text
    <3>5. Grown(p, "list") /\ Followed("list")
      BY <2>1, <3>3, <3>4 DEF Grown, Followed
    <3> QED
      BY <2>1, <3>2, <3>5, BuiltKeeps
  <2> QED
    BY <2>2, <2>3
<1>4. CASE EncodeDashboards
  <2>1. Grown(Transformed("dashboards"), "external")
    BY <1>4, StepOfBuild, Transforming DEF EncodeDashboards, Grown, Transformations
  <2> QED
    BY <1>4, <2>1, StepOfBuild, BuiltKeeps
       DEF EncodeDashboards, Transform, Transformed, Followed
<1>5. CASE ResolveExternalFields
  <2>1. Grown(Transformed("external"), "mappings")
    BY <1>5, StepOfBuild, Transforming DEF ResolveExternalFields, Grown, Transformations
  <2> QED
    BY <1>5, <2>1, StepOfBuild, BuiltKeeps
       DEF ResolveExternalFields, Transform, Transformed, Followed
<1>6. CASE AddDynamicMappings
  <2>1. Grown(Transformed("mappings"), "transforms")
    BY <1>6, StepOfBuild, Transforming DEF AddDynamicMappings, Grown, Transformations
  <2> QED
    BY <1>6, <2>1, StepOfBuild, BuiltKeeps
       DEF AddDynamicMappings, Transform, Transformed, Followed
<1>7. CASE ResolveTransformDefinitions
  <2>1. Grown(Transformed("transforms"), "bundle")
    BY <1>7, StepOfBuild, Transforming DEF ResolveTransformDefinitions, Grown, Transformations
  <2> QED
    BY <1>7, <2>1, StepOfBuild, BuiltKeeps
       DEF ResolveTransformDefinitions, Transform, Transformed, Followed
<1>8. CASE Bundle
  <2> DEFINE p == [Building EXCEPT !.bundled = Building.pin]
             step == IF cmd.name = "install" THEN "zip" ELSE "update"
  <2>1. InBuild /\ Grown(Building, "bundle") /\ Followed("bundle") /\ Building \in Package
    BY <1>8, StepOfBuild DEF Bundle, Grown
  <2>2. /\ p \in Package /\ p.bundled = Building.pin /\ p.done = Building.done
        /\ p.own = Building.own /\ p.pin = Building.pin /\ p.license = Building.license
        /\ p.linked = Building.linked
    BY <2>1 DEF Package
  <2>3. Grown(p, step) /\ Followed(step)
    BY <2>1, <2>2 DEF Grown, Followed, Through
  <2> QED
    BY <1>8, <2>1, <2>3, BuiltKeeps DEF Bundle
<1> QED
  BY <1>1, <1>2, <1>3, <1>4, <1>5, <1>6, <1>7, <1>8

-----------------------------------------------------------------------------
(***************************************************************************)
(* The other steps of a build.                                             *)
(***************************************************************************)
\* The checksums are read: the file may only get newer before it is included.
LEMMA ListKeeps == IInv /\ ListLinkedFiles => IInv'
<1> SUFFICES ASSUME IInv, ListLinkedFiles PROVE IInv'
  OBVIOUS
<1> USE DEF At, OnlyBuilds, FromCopy, FromLicense, FromList, FromInclude, FromDashboards,
            FromExternal, FromMappings, FromTransforms, FromBundle, FromUpdate, FromZip,
            FromValidate
<1>1. InBuild /\ Grown(Building, "list") /\ cmd.name # "none" /\ cmd.step = "list"
  BY StepOfBuild DEF ListLinkedFiles, InBuild, Builders
<1>2. cmd \in Command /\ shared \in Nat /\ OutputIsWhole /\ source \in Source
  BY DEF IInv, TypeOK
<1>3. cmd' \in Command /\ cmd'.step = "include" /\ cmd'.held = shared /\ SameCommand
  BY <1>2 DEF ListLinkedFiles, Command, SameCommand, Steps
<1>4. UNCHANGED <<source, shared, output, remote>>
  BY DEF ListLinkedFiles, OnlyReads, Quiet, files
<1>5. TypeOK' /\ Recorded' /\ BeganEarlier'
  BY <1>1, <1>2, <1>3, <1>4, CommandGoes DEF remote, OutputIsWhole, SameFields
<1>6. StepsOfCommands'
  BY <1>1, <1>3, <1>4 DEF InBuild, SameCommand, IInv, StepsOfCommands, Builders, OtherSteps, remote
<1>7. DirectoryGrows'
  BY <1>1, <1>3, <1>4 DEF DirectoryGrows, Grown, SameCommand, Through, Building
<1>8. SourceFollows'
  BY <1>1, <1>3, <1>4, BeganNumbers DEF IInv, SourceFollows, Followed, SameCommand
<1>9. Delivers'
  BY <1>3 DEF Delivers
<1> QED
  BY <1>5, <1>6, <1>7, <1>8, <1>9 DEF IInv

\* The file is included as it is now, and the link gets the checksum that was read.
LEMMA IncludeKeeps == IInv /\ IncludeLinkedFiles => IInv'
<1> SUFFICES ASSUME IInv, IncludeLinkedFiles PROVE IInv'
  OBVIOUS
<1> USE DEF At, OnlyBuilds, FromCopy, FromLicense, FromList, FromInclude, FromDashboards,
            FromExternal, FromMappings, FromTransforms, FromBundle, FromUpdate, FromZip,
            FromValidate
<1> DEFINE p == [Building EXCEPT !.linked = shared]
<1>1. /\ InBuild /\ Grown(Building, "include") /\ Followed("include") /\ cmd.name # "none"
      /\ cmd.step = "include" /\ Building \in Package
  BY StepOfBuild DEF IncludeLinkedFiles, InBuild, Builders, Grown
<1>2. cmd \in Command /\ shared \in Nat /\ OutputIsWhole /\ source \in Source /\ cmd.held \in Nat
  BY DEF IInv, TypeOK, Command
<1>3. cmd' \in Command /\ cmd'.step = "dashboards" /\ cmd'.held = cmd.held /\ SameCommand
  BY <1>2, Going DEF IncludeLinkedFiles, Steps
<1>4. OutputIsWhole' /\ Building' = p
  BY <1>2, <1>3, Putting DEF IncludeLinkedFiles
<1>5. UNCHANGED <<shared, remote>> /\ source' = [source EXCEPT !.checksum = cmd.held]
  BY DEF IncludeLinkedFiles, Quiet, UpdateChecksum
<1>6. /\ source' \in Source /\ source'.checksum = cmd.held
      /\ SameFields
  BY <1>2, <1>5 DEF Source, SameFields
<1>7. TypeOK' /\ Recorded' /\ BeganEarlier'
  BY <1>1, <1>3, <1>4, <1>5, <1>6, CommandGoes DEF remote
<1>8. StepsOfCommands'
  BY <1>1, <1>3, <1>5 DEF InBuild, SameCommand, IInv, StepsOfCommands, Builders, OtherSteps, remote
<1>9. p \in Package /\ p.own = Building.own /\ p.pin = Building.pin /\ p.license = Building.license
      /\ p.linked = shared
  BY <1>1, <1>2 DEF Package
<1>10. cmd.began.shared \in 1..shared
  BY <1>1, BeganNumbers DEF IInv
<1>11. DirectoryGrows'
  BY <1>1, <1>2, <1>3, <1>4, <1>6, <1>9, <1>10 DEF DirectoryGrows, Grown, SameCommand, SameFields
<1>12. SourceFollows'
  BY <1>1, <1>3, <1>5, <1>6 DEF SourceFollows, Followed, SameCommand
<1>13. Delivers'
  BY <1>3 DEF Delivers
<1> QED
  BY <1>7, <1>8, <1>11, <1>12, <1>13 DEF IInv

\* The READMEs are rendered from what the source holds now.
LEMMA UpdateKeeps == IInv /\ UpdateReadmes => IInv'
<1> SUFFICES ASSUME IInv, UpdateReadmes PROVE IInv'
  OBVIOUS
<1> USE DEF At, OnlyBuilds, FromCopy, FromLicense, FromList, FromInclude, FromDashboards,
            FromExternal, FromMappings, FromTransforms, FromBundle, FromUpdate, FromZip,
            FromValidate
<1>1. /\ InBuild /\ Grown(Building, "update") /\ Followed("update") /\ cmd.name # "none"
      /\ cmd.step = "update" /\ Building \in Package
  BY StepOfBuild DEF UpdateReadmes, InBuild, Builders, Grown
<1>2. cmd \in Command /\ shared \in Nat /\ OutputIsWhole /\ source \in Source
  BY DEF IInv, TypeOK
<1>3. CASE UpToDate
  <2> DEFINE p == [Building EXCEPT !.readme = Rendered]
  <2>1. cmd' \in Command /\ cmd'.step = "zip" /\ cmd'.held = cmd.held /\ SameCommand
    BY <1>2, <1>3, Going DEF UpdateReadmes, Steps
  <2>2. OutputIsWhole' /\ Building' = p
    BY <1>2, <1>3, <2>1, Putting DEF UpdateReadmes
  <2>3. UNCHANGED <<shared, remote>> /\ source' = [source EXCEPT !.readme = Rendered]
    BY <1>3 DEF UpdateReadmes, Quiet
  <2>4. Rendered \in Readme /\ Rendered.own = source.own /\ Rendered.shared = shared
    BY <1>2 DEF Rendered, Readme, Source
  <2>5. /\ source' \in Source /\ source'.readme = Rendered /\ source'.checksum = source.checksum
        /\ SameFields
    BY <1>2, <2>3, <2>4 DEF Source, SameFields
  <2>6. TypeOK' /\ Recorded' /\ BeganEarlier'
    BY <1>1, <2>1, <2>2, <2>3, <2>5, CommandGoes DEF remote
  <2>7. StepsOfCommands'
    BY <1>1, <2>1, <2>3
       DEF InBuild, SameCommand, IInv, StepsOfCommands, Builders, OtherSteps, remote
  <2>8. /\ p \in Package /\ p.own = Building.own /\ p.pin = Building.pin
        /\ p.license = Building.license /\ p.linked = Building.linked /\ p.done = Building.done
        /\ p.bundled = Building.bundled /\ p.readme = Rendered
    BY <1>1, <2>4 DEF Package
  <2>9. cmd.began.own \in 1..source.own /\ cmd.began.shared \in 1..shared /\ source.own \in Nat
    BY <1>1, BeganNumbers DEF IInv
  <2>10. DirectoryGrows'
    BY <1>1, <1>2, <2>1, <2>2, <2>4, <2>5, <2>8, <2>9
       DEF DirectoryGrows, Grown, SameCommand, Through, SameFields
  <2>11. SourceFollows'
    BY <1>1, <1>2, <2>1, <2>3, <2>4, <2>5, <2>9 DEF SourceFollows, Followed, SameCommand
  <2>12. Delivers'
    BY <2>1 DEF Delivers
  <2> QED
    BY <2>6, <2>7, <2>10, <2>11, <2>12 DEF IInv
<1>4. CASE ~UpToDate
  BY <1>1, <1>4, FailingKeeps DEF UpdateReadmes, Quiet, files, remote
<1> QED
  BY <1>3, <1>4

\* The zip holds what the build directory holds.
LEMMA ZipKeeps == IInv /\ BuildZippedPackage => IInv'
<1> SUFFICES ASSUME IInv, BuildZippedPackage PROVE IInv'
  OBVIOUS
<1> USE DEF At, OnlyBuilds, FromCopy, FromLicense, FromList, FromInclude, FromDashboards,
            FromExternal, FromMappings, FromTransforms, FromBundle, FromUpdate, FromZip,
            FromValidate
<1>1. /\ InBuild /\ Grown(Building, "zip") /\ Followed("zip") /\ cmd.name # "none"
      /\ cmd.step = "zip"
  BY StepOfBuild DEF BuildZippedPackage, InBuild, Builders
<1>2. cmd \in Command /\ OutputIsWhole /\ source \in Source
  BY DEF IInv, TypeOK
<1>3. cmd' \in Command /\ cmd'.step = "validate" /\ cmd'.held = cmd.held /\ SameCommand
  BY <1>2, Going DEF BuildZippedPackage, Steps
<1>4. UNCHANGED <<source, shared, remote>>
  BY DEF BuildZippedPackage, Quiet
<1>5. OutputIsWhole' /\ Building' = Building /\ (cmd.zip => output'.zip[cmd.version].package = Building)
  <2>1. CASE cmd.zip
    <3>1. output' = [output EXCEPT !.zip[cmd.version] = Zip(Building, cmd.skip)]
      BY <2>1 DEF BuildZippedPackage
    <3>2. cmd.version \in Versions /\ cmd'.version = cmd.version
      BY <1>2, <1>3 DEF Command, SameCommand
    <3>3. output'.dir = output.dir
          /\ output'.zip = [output.zip EXCEPT ![cmd.version] = Zip(Building, cmd.skip)]
      BY <1>2, <3>1 DEF OutputIsWhole
    <3>4. OutputIsWhole'
      BY <1>2, <3>1, <3>2, <3>3 DEF OutputIsWhole
    <3>5. output'.zip[cmd.version] = Zip(Building, cmd.skip)
      BY <1>2, <3>2, <3>3 DEF OutputIsWhole
    <3> QED
      BY <3>2, <3>3, <3>4, <3>5 DEF Building, Zip
  <2>2. CASE ~cmd.zip
    BY <1>2, <1>3, <2>2 DEF BuildZippedPackage, Building, OutputIsWhole, SameCommand
  <2> QED
    BY <2>1, <2>2
<1>6. TypeOK' /\ Recorded' /\ BeganEarlier'
  BY <1>1, <1>2, <1>3, <1>4, <1>5, CommandGoes DEF remote, SameFields
<1>7. StepsOfCommands'
  BY <1>1, <1>3, <1>4 DEF InBuild, SameCommand, IInv, StepsOfCommands, Builders, OtherSteps, remote
<1>8. DirectoryGrows' /\ SourceFollows'
  BY <1>1, <1>3, <1>4, <1>5 DEF DirectoryGrows, SourceFollows, Grown, Followed, SameCommand, Through
<1>9. Delivers'
  BY <1>3, <1>5 DEF Delivers, SameCommand
<1> QED
  BY <1>6, <1>7, <1>8, <1>9 DEF IInv

\* What is validated is what is delivered.
LEMMA ValidateKeeps == IInv /\ ValidateBuilt => IInv'
<1> SUFFICES ASSUME IInv, ValidateBuilt PROVE IInv'
  OBVIOUS
<1> USE DEF At, OnlyBuilds, FromCopy, FromLicense, FromList, FromInclude, FromDashboards,
            FromExternal, FromMappings, FromTransforms, FromBundle, FromUpdate, FromZip,
            FromValidate
<1> DEFINE p == IF cmd.zip THEN output.zip[cmd.version].package ELSE Building
<1>1. cmd.step = "validate" /\ cmd.name \in Builders /\ cmd.name # "none"
  BY DEF ValidateBuilt, IInv, StepsOfCommands, Builders
<1>2. cmd \in Command /\ OutputIsWhole /\ source \in Source
  BY DEF IInv, TypeOK
<1>3. UNCHANGED <<source, shared, output, remote>>
  BY DEF ValidateBuilt, OnlyReads, Quiet, files
<1>4. CASE ~(cmd.skip \/ Valid(p))
  BY <1>1, <1>3, <1>4, FailingKeeps DEF ValidateBuilt
<1>5. CASE cmd.skip \/ Valid(p)
  <2> DEFINE step == AfterValidation
  <2>1. Goto(step)
    BY <1>5 DEF ValidateBuilt
  <2>2. /\ step \in {"install", "sign", "done"} /\ (cmd.name = "install" <=> step = "install")
    BY DEF AfterValidation
  <2> HIDE DEF step
  <2>3. cmd' \in Command /\ cmd'.step = step /\ cmd'.held = cmd.held /\ SameCommand
    BY <1>2, <2>1, <2>2, Going DEF Steps
  <2>4. TypeOK' /\ Recorded' /\ BeganEarlier'
    BY <1>1, <1>2, <1>3, <2>2, <2>3, CommandGoes DEF remote, OutputIsWhole, SameFields
  <2>5. StepsOfCommands'
    BY <1>1, <1>3, <2>2, <2>3 DEF SameCommand, IInv, StepsOfCommands, Builders, OtherSteps, remote
  <2>6. DirectoryGrows' /\ SourceFollows'
    BY <1>1, <1>3, <2>2, <2>3
       DEF IInv, DirectoryGrows, SourceFollows, Grown, Followed, SameCommand, Through, Building,
           InBuild
  <2>7. InBuild => p = Building
    BY <1>1 DEF IInv, Delivers
  <2>8. Delivers'
    BY <1>1, <1>3, <1>5, <2>2, <2>3, <2>7
       DEF IInv, Delivers, SameCommand, InBuild, Building, Valid
  <2> QED
    BY <2>4, <2>5, <2>6, <2>8 DEF IInv
<1> QED
  BY <1>4, <1>5

\* A command that ends, or goes on when its build is finished, and changes neither the directories
\* nor the zips.
LEMMA EndingKeeps ==
    ASSUME IInv, cmd.step \in {"sign", "install"}, Goto("done"), OutputIsWhole',
           UNCHANGED <<source, shared, published, output.dir, output.zip>>,
           kibana' = [upload |-> kibana'.upload, version |-> kibana'.version,
                      package |-> kibana'.package, policies |-> kibana'.policies],
           kibana'.upload = kibana.upload,
           InBuild /\ cmd.name = "install" /\ kibana.upload => kibana'.package = Building
    PROVE  IInv'
<1> USE DEF OnlyBuilds, FromCopy, FromLicense, FromList, FromInclude, FromDashboards,
            FromExternal, FromMappings, FromTransforms, FromBundle, FromUpdate, FromZip,
            FromValidate
<1>1. cmd \in Command /\ OutputIsWhole /\ source \in Source /\ cmd.name \in Builders
  BY DEF IInv, TypeOK, StepsOfCommands, Builders
<1>2. cmd' \in Command /\ cmd'.step = "done" /\ cmd'.held = cmd.held /\ SameCommand
  BY <1>1, Going DEF Steps
<1>3. Building' = Building /\ output'.zip = output.zip
  BY <1>2 DEF Building, SameCommand
<1>4. TypeOK' /\ Recorded' /\ BeganEarlier'
  BY <1>1, <1>2 DEF IInv, TypeOK, Recorded, BeganEarlier, SameCommand
<1>5. StepsOfCommands'
  BY <1>1, <1>2 DEF SameCommand, IInv, StepsOfCommands, Builders, OtherSteps
<1>6. DirectoryGrows' /\ SourceFollows'
  BY <1>2, <1>3
     DEF IInv, DirectoryGrows, SourceFollows, Grown, Followed, SameCommand, Through, InBuild
<1>7. Delivers'
  BY <1>2, <1>3 DEF IInv, Delivers, SameCommand, InBuild, Valid
<1> QED
  BY <1>4, <1>5, <1>6, <1>7 DEF IInv

\* The signature is put beside the zip.
LEMMA SignKeeps == IInv /\ SignZippedPackage => IInv'
<1> SUFFICES ASSUME IInv, SignZippedPackage PROVE IInv'
  OBVIOUS
<1>1. cmd.step = "sign" /\ Goto("done") /\ UNCHANGED <<source, shared, remote>>
      /\ output' = [output EXCEPT !.sig[cmd.version] = output.zip[cmd.version]]
  BY DEF SignZippedPackage, At, Quiet
<1>2. OutputIsWhole' /\ output'.dir = output.dir /\ output'.zip = output.zip
  BY <1>1 DEF IInv, TypeOK, OutputIsWhole
<1>3. cmd.name # "install"
  BY <1>1 DEF IInv, StepsOfCommands
<1> QED
  BY <1>1, <1>2, <1>3, EndingKeeps DEF remote, IInv, TypeOK

\* Kibana gets the zip, or what the registry has; without either the command fails.
LEMMA InstallKeeps == IInv /\ Install => IInv'
<1> SUFFICES ASSUME IInv, Install PROVE IInv'
  OBVIOUS
<1> DEFINE p == IF kibana.upload THEN output.zip[cmd.version].package ELSE Indexed
<1>1. cmd.step = "install" /\ UNCHANGED <<files, published, served>> /\ cmd.name = "install"
      /\ cmd.zip = kibana.upload
  BY DEF Install, At, IInv, StepsOfCommands
<1>2. CASE p.exists
  <2>1. kibana' = [kibana EXCEPT !.version = cmd.version, !.package = p] /\ Goto("done")
    BY <1>2 DEF Install
  <2>2. /\ kibana' = [upload |-> kibana'.upload, version |-> kibana'.version,
                      package |-> kibana'.package, policies |-> kibana'.policies]
        /\ kibana'.upload = kibana.upload /\ kibana'.package = p
    BY <2>1 DEF IInv, TypeOK
  <2>3. InBuild /\ kibana.upload => p = Building
    BY <1>1 DEF IInv, Delivers, FromValidate
  <2> QED
    BY <1>1, <2>1, <2>2, <2>3, EndingKeeps DEF files, IInv, TypeOK, OutputIsWhole
<1>3. CASE ~p.exists
  BY <1>1, <1>3, FailingKeeps DEF Install, files, remote
<1> QED
  BY <1>2, <1>3

-----------------------------------------------------------------------------
(***************************************************************************)
(* The steps of other commands, and those before a build.                  *)
(***************************************************************************)
\* A step that is not, or not yet, one of a build.
LEMMA OtherKeeps ==
    ASSUME IInv, cmd.step \in OtherSteps, cmd' \in Command, SameCommand, StepsOfCommands',
           ~InBuild \/ cmd'.step \in OtherSteps \cup {"clear"},
           OutputIsWhole', source' \in Source, Recorded', UNCHANGED <<shared, published>>,
           source'.own = source.own, cmd.name # "requires" => source'.pin = source.pin,
           kibana' = [upload |-> kibana'.upload, version |-> kibana'.version,
                      package |-> kibana'.package, policies |-> kibana'.policies]
    PROVE  IInv'
<1> USE DEF FromCopy, FromLicense, FromList, FromInclude, FromDashboards,
            FromExternal, FromMappings, FromTransforms, FromBundle, FromUpdate, FromZip,
            FromValidate, OtherSteps
<1>1. TypeOK'
  BY DEF IInv, TypeOK
<1>2. BeganEarlier'
  BY DEF IInv, BeganEarlier, SameCommand
<1>3. DirectoryGrows' /\ SourceFollows' /\ Delivers'
  BY DEF DirectoryGrows, SourceFollows, Delivers, Grown, Followed, InBuild, SameCommand
<1> QED
  BY <1>1, <1>2, <1>3 DEF IInv

\* A step that reads only.
LEMMA ReadingKeeps ==
    ASSUME IInv, cmd.step \in OtherSteps, NEW step \in Steps, Goto(step),
           UNCHANGED <<source, shared, output, published, kibana.upload>>, StepsOfCommands',
           ~InBuild \/ step \in OtherSteps \cup {"clear"}, step # "manifest",
           kibana' = [upload |-> kibana'.upload, version |-> kibana'.version,
                      package |-> kibana'.package, policies |-> kibana'.policies]
    PROVE  IInv'
<1>1. cmd \in Command /\ OutputIsWhole /\ source \in Source
  BY DEF IInv, TypeOK
<1>2. cmd' \in Command /\ cmd'.step = step /\ SameCommand
  BY <1>1, Going
<1>3. Recorded'
  BY <1>2 DEF IInv, Recorded
<1> QED
  BY <1>1, <1>2, <1>3, OtherKeeps DEF OutputIsWhole

\* The steps of other commands that read, and those of lint.
LEMMA ReadersKeep ==
    ASSUME IInv, RemovePackage \/ AreReadmesUpToDate \/ ValidateSource \/ CheckLinkedFiles
    PROVE  IInv'
<1> USE DEF At, OnlyReads, Quiet, files, remote
<1>1. cmd \in Command /\ StepsOfCommands
      /\ kibana = [upload |-> kibana.upload, version |-> kibana.version,
                   package |-> kibana.package, policies |-> kibana.policies]
  BY DEF IInv, TypeOK
<1>2. PICK step \in {"failed", "done", "source", "clear"} :
         /\ Goto(step)
         /\ step = "source" => cmd.step = "readmes"
         /\ step = "clear" => cmd.name = "check"
         /\ step = "done" => cmd.name \notin Builders
  BY <1>1 DEF RemovePackage, AreReadmesUpToDate, ValidateSource, CheckLinkedFiles,
              StepsOfCommands, OtherSteps, Builders
<1>3. cmd.step \in {"remove", "readmes", "source", "checksums"}
  BY DEF RemovePackage, AreReadmesUpToDate, ValidateSource, CheckLinkedFiles
<1>4. UNCHANGED <<source, shared, output, published, kibana.upload>>
      /\ kibana' = [upload |-> kibana'.upload, version |-> kibana'.version,
                    package |-> kibana'.package, policies |-> kibana'.policies]
  BY <1>1 DEF RemovePackage, AreReadmesUpToDate, ValidateSource, CheckLinkedFiles
<1>5. cmd'.step = step /\ SameCommand
  BY <1>1, <1>2, Going DEF Steps, OtherSteps, OnlyBuilds, FromCopy, FromLicense, FromList,
        FromInclude, FromDashboards, FromExternal, FromMappings, FromTransforms, FromBundle,
        FromUpdate, FromZip, FromValidate
<1> USE DEF Steps, OtherSteps, OnlyBuilds, FromCopy, FromLicense, FromList,
        FromInclude, FromDashboards, FromExternal, FromMappings, FromTransforms, FromBundle,
        FromUpdate, FromZip, FromValidate
<1>6. StepsOfCommands'
  BY <1>1, <1>2, <1>3, <1>4, <1>5 DEF StepsOfCommands, InBuild, Builders, SameCommand
<1> QED
  BY <1>2, <1>3, <1>4, <1>6, ReadingKeeps DEF InBuild

\* The steps that write the source, the build directory or what the command is to write: none of
\* them is one of a command that builds.
LEMMA WritersKeep ==
    ASSUME IInv,
           \/ RemoveUsedPackage \/ UpdateLinkedFiles \/ CleanBuild \/ CleanZip \/ PatchChangelog
           \/ SetManifestVersion \/ Resolve \/ ApplyChangelog \/ ApplyRequiresUpdate
    PROVE  IInv'
<1> USE DEF At, OnlyReads, Quiet, files, remote
<1>1. /\ cmd \in Command /\ StepsOfCommands /\ source \in Source /\ OutputIsWhole /\ shared \in Nat
      /\ published \in Nat
      /\ kibana = [upload |-> kibana.upload, version |-> kibana.version,
                   package |-> kibana.package, policies |-> kibana.policies]
  BY DEF IInv, TypeOK
<1>2. PICK n \in Nat \ {0} : source.torn = FALSE => source.changelog = 1..n
  BY DEF IInv, Recorded
<1>3. /\ Top \in Nat /\ 1..n \cup {n} = 1..n /\ 1..n \cup {n + 1} = 1..(n + 1)
      /\ source.torn = FALSE => Top = n /\ (source.version # 0 => source.version \in 1..n)
  BY <1>1, <1>2, TopOfInterval, TopIsNumber DEF IInv, Recorded, Source
<1> DEFINE Kept(step) ==
       /\ cmd' \in Command /\ cmd'.step = step /\ SameCommand
       /\ UNCHANGED <<shared, kibana, published>>
<1>4. ASSUME cmd.step \in OtherSteps, cmd.name \notin Builders,
             NEW step \in OtherSteps \cup {"done"}, Kept(step),
             step \notin {"resolve", "patch", "readmes", "source"},
             step = "plan" => cmd.name = "requires",
             step = "manifest" => cmd.name \in {"changelog", "requires"},
             OutputIsWhole', source' \in Source, source'.own = source.own,
             cmd.name # "requires" => source'.pin = source.pin, Recorded'
      PROVE  IInv'
  <2>1. StepsOfCommands'
    BY <1>1, <1>4 DEF StepsOfCommands, SameCommand, Builders, InBuild, OnlyBuilds, FromCopy,
          FromLicense, FromList, FromInclude, FromDashboards, FromExternal, FromMappings,
          FromTransforms, FromBundle, FromUpdate, FromZip, FromValidate, OtherSteps
  <2> QED
    BY <1>1, <1>4, <2>1, OtherKeeps DEF InBuild
<1> USE DEF OtherSteps
<1>5. {"done", "failed", "remove", "manifest", "plan", "clean zip"} \subseteq Steps
  BY DEF Steps, FromCopy, FromLicense, FromList, FromInclude, FromDashboards, FromExternal,
         FromMappings, FromTransforms, FromBundle, FromUpdate, FromZip, FromValidate
<1>6. CASE RemoveUsedPackage
  <2>1. PICK step \in {"failed", "remove"} :
           cmd' = [cmd EXCEPT !.attempts = cmd.attempts + 1, !.step = step]
    BY <1>1, <1>6 DEF RemoveUsedPackage, Command
  <2>2. Kept(step)
    <3>1. cmd.attempts + 1 \in Nat
      BY <1>1 DEF Command
    <3>2. cmd' \in Command /\ cmd'.step = step /\ SameCommand
      BY <1>1, <1>5, <2>1, <3>1, Trying
    <3> QED
      BY <1>6, <3>2 DEF RemoveUsedPackage
  <2>3. UNCHANGED <<source, output>> /\ cmd.step = "remove" /\ cmd.name \notin Builders
    BY <1>1, <1>6 DEF RemoveUsedPackage, StepsOfCommands
  <2>4. Recorded'
    BY <2>2, <2>3 DEF IInv, Recorded
  <2> QED
    BY <1>1, <1>4, <2>2, <2>3, <2>4 DEF OutputIsWhole
<1>7. CASE UpdateLinkedFiles
  <2>1. source' = [source EXCEPT !.checksum = shared] /\ Goto("done") /\ output' = output
        /\ cmd.step = "checksums" /\ cmd.name \notin Builders /\ UNCHANGED <<shared, kibana, published>>
    BY <1>1, <1>7 DEF UpdateLinkedFiles, UpdateChecksum, StepsOfCommands
  <2>2. Kept("done")
    BY <1>1, <1>5, <2>1, Going
  <2>3. source' \in Source /\ SameFields
    BY <1>1, <2>1 DEF Source, SameFields
  <2>4. Recorded'
    BY <2>2, <2>3 DEF IInv, Recorded, SameFields
  <2> QED
    BY <1>1, <1>4, <2>1, <2>2, <2>3, <2>4 DEF OutputIsWhole, SameFields
<1>8. CASE CleanBuild \/ CleanZip
  <2>1. PICK step \in {"done", "clean zip"} : Goto(step)
    BY <1>8 DEF CleanBuild, CleanZip
  <2>2. UNCHANGED <<source, shared, kibana, published>>
        /\ cmd.step \in {"clean", "clean zip"} /\ cmd.name \notin Builders
    BY <1>1, <1>8 DEF CleanBuild, CleanZip, StepsOfCommands
  <2>3. Kept(step)
    BY <1>1, <1>5, <2>1, <2>2, Going
  <2>4. Recorded'
    BY <2>2, <2>3 DEF IInv, Recorded
  <2>5. OutputIsWhole'
    BY <1>1, <1>8 DEF CleanBuild, CleanZip, OutputIsWhole
  <2> QED
    BY <1>1, <1>4, <2>2, <2>3, <2>4, <2>5
<1>9. CASE PatchChangelog
  <2>1. UNCHANGED <<shared, output, kibana, published>> /\ cmd.step = "patch"
        /\ cmd.name = "changelog"
    BY <1>1, <1>9 DEF PatchChangelog, StepsOfCommands
  <2>2. CASE Goto("failed") /\ UNCHANGED source
    BY <1>9, <2>1, <2>2, FailingKeeps DEF PatchChangelog
  <2>3. CASE \E v \in Entries :
               /\ source' = [source EXCEPT !.changelog = source.changelog \cup {v}]
               /\ cmd' = [cmd EXCEPT !.held = v, !.step = "manifest"]
    <3>1. PICK v \in Versions :
             /\ v \in {Top, Top + 1}
             /\ source' = [source EXCEPT !.changelog = source.changelog \cup {v}]
             /\ cmd' = [cmd EXCEPT !.held = v, !.step = "manifest"]
      BY <2>1, <2>3 DEF Entries
    <3>2. v \in Nat
      BY DEF Versions
    <3>3. Kept("manifest") /\ cmd'.held = v
      BY <1>1, <1>5, <2>1, <3>1, <3>2, Holding
    <3>4. /\ source' \in Source /\ source'.changelog = source.changelog \cup {v}
          /\ source'.torn = source.torn /\ source'.own = source.own
          /\ source'.pin = source.pin /\ source'.version = source.version
      BY <1>1, <3>1 DEF Source
    <3>5. Recorded'
      BY <1>2, <1>3, <3>1, <3>3, <3>4 DEF Recorded
    <3> QED
      BY <1>1, <1>4, <2>1, <3>3, <3>4, <3>5 DEF OutputIsWhole, Builders
  <2> QED
    BY <1>1, <1>9, <2>2, <2>3 DEF PatchChangelog, Source
<1>10. CASE SetManifestVersion
  <2>1. source' = [source EXCEPT !.version = cmd.held] /\ Goto("done") /\ output' = output
        /\ cmd.step = "manifest" /\ cmd.name = "changelog" /\ UNCHANGED <<shared, kibana, published>>
    BY <1>10 DEF SetManifestVersion
  <2>2. Kept("done")
    BY <1>1, <1>5, <2>1, Going
  <2>3. /\ source' \in Source /\ source'.version = cmd.held
        /\ source'.own = source.own /\ source'.pin = source.pin
        /\ source'.changelog = source.changelog /\ source'.torn = source.torn
    BY <1>1, <2>1 DEF Source, Command
  <2>4. Recorded'
    BY <2>1, <2>2, <2>3 DEF IInv, Recorded
  <2> QED
    BY <1>1, <1>4, <2>1, <2>2, <2>3, <2>4 DEF OutputIsWhole, Builders
<1>11. CASE Resolve
  <2>1. UNCHANGED <<source, shared, output, kibana, published>> /\ cmd.step = "resolve"
        /\ cmd.name = "requires"
    BY <1>1, <1>11 DEF Resolve, StepsOfCommands
  <2>2. PICK held \in Nat, step \in {"done", "plan", "manifest"} :
           cmd' = [cmd EXCEPT !.held = held, !.step = step]
    <3>1. CASE Proposals = {}
      <4>1. cmd.held \in Nat
            /\ [cmd EXCEPT !.step = "done"] = [cmd EXCEPT !.held = cmd.held, !.step = "done"]
        BY <1>1 DEF Command
      <4> QED
        BY <1>11, <3>1, <4>1 DEF Resolve, Goto
    <3>2. CASE Proposals # {}
      <4>1. Proposals \in SUBSET (0..published)
        BY <1>1 DEF Proposals, Revisions
      <4>2. Max(Proposals) \in Nat
        BY <1>1, <3>2, <4>1, MaxIsGreatest
      <4> QED
        BY <1>11, <3>2, <4>2 DEF Resolve
    <3> QED
      BY <3>1, <3>2
  <2>3. Kept(step)
    BY <1>1, <1>5, <2>1, <2>2, Holding
  <2>4. Recorded'
    BY <2>1, <2>3 DEF IInv, Recorded, SameCommand
  <2> QED
    BY <1>1, <1>4, <2>1, <2>3, <2>4 DEF OutputIsWhole, Builders
<1>12. CASE ApplyChangelog
  <2>1. UNCHANGED <<shared, output, kibana, published>> /\ cmd.step = "plan" /\ cmd.name = "requires"
    BY <1>1, <1>12 DEF ApplyChangelog, StepsOfCommands
  <2>2. CASE Goto("failed") /\ UNCHANGED source
    BY <1>12, <2>1, <2>2, FailingKeeps DEF ApplyChangelog
  <2> SUFFICES ASSUME ~(Goto("failed") /\ UNCHANGED source) PROVE IInv'
    BY <2>2
  <2>a. Goto("manifest") /\ source' = [source EXCEPT !.changelog = source.changelog \cup Entries]
    BY <1>1, <1>12 DEF ApplyChangelog, Source
  <2>3. Kept("manifest")
    BY <1>1, <1>5, <2>1, <2>a, Going DEF Steps
  <2>4. Entries \in SUBSET Versions /\ Entries \in SUBSET {Top + 1}
    BY <2>1 DEF Entries
  <2>5. /\ source' \in Source /\ source'.changelog = source.changelog \cup Entries
        /\ source'.torn = source.torn /\ source'.own = source.own
        /\ source'.version = source.version
    BY <1>1, <2>a, <2>4 DEF Source
  <2>6. Entries = {} \/ Entries = {Top + 1}
    BY <2>4
  <2>7. source.torn = FALSE => source'.changelog = 1..n \/ source'.changelog = 1..(n + 1)
    BY <1>2, <1>3, <2>5, <2>6
  <2>8. Recorded'
    <3>1. source.torn = FALSE => n + 1 \in Nat \ {0} /\ 1..n \subseteq 1..(n + 1)
      OBVIOUS
    <3> QED
      BY <1>2, <1>3, <2>1, <2>3, <2>5, <2>7, <3>1 DEF Recorded, SameCommand
  <2> QED
    BY <1>1, <1>4, <2>1, <2>3, <2>5, <2>8 DEF OutputIsWhole, Builders
<1>13. CASE ApplyRequiresUpdate
  <2>1. /\ source' = [source EXCEPT !.pin = cmd.held,
                                    !.version = IF cmd.changelog THEN Top ELSE source.version]
        /\ Goto("done") /\ UNCHANGED <<shared, output, kibana, published>>
        /\ cmd.step = "manifest" /\ cmd.name = "requires"
    BY <1>1, <1>13 DEF ApplyRequiresUpdate, Source
  <2>2. Kept("done")
    BY <1>1, <1>5, <2>1, Going
  <2>3. /\ source' \in Source /\ source'.version \in {Top, source.version}
        /\ source'.own = source.own /\ source'.changelog = source.changelog
        /\ source'.torn = source.torn
    BY <1>1, <1>3, <2>1 DEF Source, Command
  <2>4. Recorded'
    BY <1>2, <1>3, <2>1, <2>2, <2>3 DEF IInv, Recorded
  <2> QED
    BY <1>1, <1>4, <2>1, <2>2, <2>3, <2>4 DEF OutputIsWhole, Builders
<1> QED
  BY <1>6, <1>7, <1>8, <1>9, <1>10, <1>11, <1>12, <1>13

-----------------------------------------------------------------------------
(***************************************************************************)
(* What begins and ends a command, and what happens around one.            *)
(***************************************************************************)
\* A command begins with what there is.
LEMMA BeginKeeps == IInv /\ BeginCommand => IInv'
<1> SUFFICES ASSUME IInv, BeginCommand PROVE IInv'
  OBVIOUS
<1> USE DEF files, remote
<1> DEFINE Given(name, f, v) ==
       cmd' = [name |-> name, zip |-> f.zip, sign |-> f.sign, skip |-> f.skip,
               given |-> f.given, changelog |-> f.changelog,
               step |-> IF f.given THEN "validate" ELSE FirstStep[name],
               version |-> v, held |-> 0, attempts |-> 0,
               began |-> [own |-> source.own, shared |-> shared, pin |-> source.pin]]
<1>0. PICK name \in DOMAIN FirstStep : \E f \in Flags(name) : \E v \in Versions : Given(name, f, v)
  BY Zenon DEF BeginCommand
<1>1. PICK f \in Flags(name), v \in Versions : Given(name, f, v)
  BY <1>0
<1>2. UNCHANGED <<source, shared, output, kibana, published>>
  BY DEF BeginCommand
<1>3. /\ source \in Source /\ shared \in Nat \ {0}
      /\ kibana = [upload |-> kibana.upload, version |-> kibana.version,
                   package |-> kibana.package, policies |-> kibana.policies]
  BY DEF IInv, TypeOK
<1>4. /\ f \in [zip : BOOLEAN, sign : BOOLEAN, skip : BOOLEAN, given : BOOLEAN, changelog : BOOLEAN]
      /\ name = "install" => f.zip = kibana.upload
      /\ f.given => name = "install"
  BY DEF Flags
<1>5. /\ FirstStep[name] \in {"clear", "readmes", "remove", "checksums", "clean", "patch", "resolve"}
      /\ FirstStep[name] = "clear" => name \in {"build", "install"}
      /\ name \in Builders => FirstStep[name] \in {"clear", "readmes"}
      /\ name \in {"build", "install"} => FirstStep[name] = "clear"
      /\ FirstStep[name] = "resolve" => name = "requires"
      /\ FirstStep[name] = "patch" => name = "changelog"
      /\ name # "none"
  BY DEF FirstStep, Builders
<1> DEFINE step == IF f.given THEN "validate" ELSE FirstStep[name]
<1>6. /\ cmd'.name = name /\ cmd'.zip = f.zip /\ cmd'.given = f.given /\ cmd'.step = step
      /\ cmd'.began = [own |-> source.own, shared |-> shared, pin |-> source.pin]
  BY <1>1
<1>7. step \in Steps
  BY <1>5 DEF Steps, OtherSteps, FromCopy, FromLicense, FromList, FromInclude, FromDashboards,
      FromExternal, FromMappings, FromTransforms, FromBundle, FromUpdate, FromZip, FromValidate
<1>8. cmd' \in Command
  <2>1. 0 \in Nat /\ [own |-> source.own, shared |-> shared, pin |-> source.pin]
                       \in [own : Nat, shared : Nat, pin : Nat]
    BY <1>3 DEF Source
  <2> HIDE DEF step
  <2> QED
    BY <1>1, <1>4, <1>7, <2>1 DEF Command, step
<1>9. TypeOK'
  BY <1>2, <1>8 DEF IInv, TypeOK, OutputIsWhole
<1>10. StepsOfCommands'
  BY <1>2, <1>4, <1>5, <1>6 DEF StepsOfCommands, InBuild, Builders, OnlyBuilds, OtherSteps,
      FromCopy, FromLicense, FromList, FromInclude, FromDashboards, FromExternal, FromMappings,
      FromTransforms, FromBundle, FromUpdate, FromZip, FromValidate
<1>11. Recorded' /\ BeganEarlier'
  BY <1>2, <1>3, <1>5, <1>6 DEF IInv, Recorded, BeganEarlier, Source
<1>12. DirectoryGrows' /\ SourceFollows' /\ Delivers'
  BY <1>5, <1>6 DEF DirectoryGrows, SourceFollows, Delivers, Grown, Followed, InBuild,
      FromCopy, FromLicense, FromList, FromInclude, FromDashboards, FromExternal, FromMappings,
      FromTransforms, FromBundle, FromUpdate, FromZip, FromValidate
<1> QED
  BY <1>9, <1>10, <1>11, <1>12 DEF IInv

\* Edits make the source and the shared file newer, and nothing around a command touches a build,
\* a zip or the installed package.
LEMMA AroundKeeps == IInv /\ (Around \/ UNCHANGED vars) => IInv'
<1> SUFFICES ASSUME IInv, Around \/ UNCHANGED vars PROVE IInv'
  OBVIOUS
<1> USE DEF files, remote
<1>1. source \in Source /\ shared \in Nat \ {0} /\ published \in Nat
      /\ kibana = [upload |-> kibana.upload, version |-> kibana.version,
                   package |-> kibana.package, policies |-> kibana.policies]
  BY DEF IInv, TypeOK
<1>a. /\ cmd' = cmd /\ output' = output
      /\ \/ source' = source
         \/ source' = [source EXCEPT !.own = source.own + 1]
         \/ \E v \in Versions :
               /\ Finished
               /\ source' = [source EXCEPT !.version = v, !.changelog = 1..v, !.torn = FALSE]
      /\ shared' \in Nat \ {0} /\ shared' >= shared /\ published' \in Nat
      /\ UNCHANGED <<kibana.upload, kibana.package>>
      /\ kibana' = [upload |-> kibana'.upload, version |-> kibana'.version,
                    package |-> kibana'.package, policies |-> kibana'.policies]
  <2>1. CASE RestoreFiles
    <3>1. UNCHANGED <<shared, output, published, kibana, cmd>> /\ Finished
      BY <2>1 DEF RestoreFiles
    <3>2. \E v \in Versions :
            source' = [source EXCEPT !.version = v, !.changelog = 1..v, !.torn = FALSE]
      BY <2>1 DEF RestoreFiles
    <3>3. UNCHANGED <<kibana.upload, kibana.package>>
          /\ kibana' = [upload |-> kibana'.upload, version |-> kibana'.version,
                        package |-> kibana'.package, policies |-> kibana'.policies]
      BY <1>1, <3>1
    <3>4. shared' \in Nat \ {0} /\ shared' >= shared /\ published' \in Nat
      BY <1>1, <3>1
    <3> QED
      BY <3>1, <3>2, <3>3, <3>4
  <2>2. CASE Edit \/ EditShared \/ Publish
    <3>1. UNCHANGED <<output, kibana, cmd>> /\ shared' \in {shared, shared + 1}
          /\ published' \in {published, published + 1}
      BY <2>2 DEF Edit, EditShared, Publish, Happens
    <3>2. source' = source \/ source' = [source EXCEPT !.own = source.own + 1]
      BY <1>1, <2>2 DEF Edit, EditShared, Publish, Source
    <3>3. UNCHANGED <<kibana.upload, kibana.package>>
          /\ kibana' = [upload |-> kibana'.upload, version |-> kibana'.version,
                        package |-> kibana'.package, policies |-> kibana'.policies]
      BY <1>1, <3>1
    <3>4. shared' \in Nat \ {0} /\ shared' >= shared /\ published' \in Nat
      BY <1>1, <3>1
    <3> QED
      BY <3>1, <3>2, <3>3, <3>4
  <2>3. CASE AddPolicy \/ DeletePolicy \/ RestartRegistry \/ UNCHANGED vars
    <3>1. UNCHANGED <<source, shared, output, published, cmd>>
      BY <2>3 DEF AddPolicy, DeletePolicy, RestartRegistry, Happens, vars
    <3>2. UNCHANGED <<kibana.upload, kibana.package>>
          /\ kibana' = [upload |-> kibana'.upload, version |-> kibana'.version,
                        package |-> kibana'.package, policies |-> kibana'.policies]
      BY <1>1, <2>3 DEF AddPolicy, DeletePolicy, RestartRegistry, vars
    <3> QED
      BY <1>1, <3>1, <3>2
  <2> QED
    BY <2>1, <2>2, <2>3 DEF Around
<1>2. cmd' = cmd /\ output' = output
  BY <1>a
<1>3. \/ source' = source
      \/ source' = [source EXCEPT !.own = source.own + 1]
      \/ \E v \in Versions :
            /\ Finished
            /\ source' = [source EXCEPT !.version = v, !.changelog = 1..v, !.torn = FALSE]
  BY <1>a
<1>4. /\ source' \in Source /\ source'.own \in Nat /\ source'.own >= source.own
      /\ source'.readme = source.readme /\ source'.pin = source.pin
      /\ source'.checksum = source.checksum /\ source'.license = source.license
  <2>1. MaxVersion \in Nat
    BY BuildAssumption
  <2>2. \A v \in Versions : v \in Nat /\ 1..v \in SUBSET Versions
    <3>1. \A v \in 1..MaxVersion : v \in Nat /\ \A w \in 1..v : w \in 1..MaxVersion
      BY <2>1
    <3> QED
      BY <3>1 DEF Versions
  <2> QED
    <3>1. CASE source' = source
      BY <1>1, <3>1 DEF Source
    <3>2. CASE source' = [source EXCEPT !.own = source.own + 1]
      BY <1>1, <3>2 DEF Source
    <3>3. ASSUME NEW v \in Versions,
                 source' = [source EXCEPT !.version = v, !.changelog = 1..v, !.torn = FALSE]
          PROVE  /\ source' \in Source /\ source'.own \in Nat /\ source'.own >= source.own
                 /\ source'.readme = source.readme /\ source'.pin = source.pin
                 /\ source'.checksum = source.checksum /\ source'.license = source.license
      <4>1. v \in Nat /\ 1..v \in SUBSET Versions
        BY <2>2
      <4> HIDE DEF Versions
      <4> DEFINE old == 1..v
      <4>2. old \in SUBSET Versions
        BY <4>1
      <4> HIDE DEF old
      <4>3. source' = [source EXCEPT !.version = v, !.changelog = old, !.torn = FALSE]
        BY <3>3 DEF old
      <4>4. /\ source'.own = source.own /\ source'.readme = source.readme
            /\ source'.pin = source.pin /\ source'.checksum = source.checksum
            /\ source'.license = source.license
        BY <1>1, <4>3 DEF Source
      <4>5. source' \in Source
        BY <1>1, <4>1, <4>2, <4>3 DEF Source
      <4>6. source.own \in Nat
        BY <1>1 DEF Source
      <4> QED
        BY <4>4, <4>5, <4>6
    <3> QED
      BY <1>3, <3>1, <3>2, <3>3
<1>5. shared' \in Nat \ {0} /\ shared' >= shared /\ published' \in Nat
  BY <1>a
<1>6. UNCHANGED <<kibana.upload, kibana.package>>
      /\ kibana' = [upload |-> kibana'.upload, version |-> kibana'.version,
                    package |-> kibana'.package, policies |-> kibana'.policies]
  BY <1>a
<1>7. TypeOK' /\ StepsOfCommands'
  BY <1>2, <1>4, <1>5, <1>6 DEF IInv, TypeOK, StepsOfCommands, InBuild, OutputIsWhole
<1>8. Recorded'
  <2>1. CASE source' = source \/ source' = [source EXCEPT !.own = source.own + 1]
    <3>1. /\ source'.version = source.version /\ source'.changelog = source.changelog
          /\ source'.torn = source.torn
      BY <1>1, <2>1 DEF Source
    <3> QED
      BY <1>2, <3>1 DEF IInv, Recorded
  <2>2. CASE source' # source /\ source' # [source EXCEPT !.own = source.own + 1]
    <3>1. PICK v \in Versions :
             /\ Finished
             /\ source' = [source EXCEPT !.version = v, !.changelog = 1..v, !.torn = FALSE]
      BY <1>3, <2>2
    <3>2. cmd.step # "manifest"
      BY <3>1 DEF Finished
    <3>3. source'.version = v /\ source'.changelog = 1..v /\ v \in Nat \ {0} /\ v \in 1..v
      BY <1>1, <3>1 DEF Source, Versions
    <3> QED
      BY <1>2, <3>2, <3>3 DEF Recorded
  <2> QED
    BY <2>1, <2>2
<1>9. BeganEarlier'
  BY <1>1, <1>2, <1>4, <1>5 DEF IInv, BeganEarlier, Source, TypeOK, Command
<1>10. DirectoryGrows' /\ Delivers'
  BY <1>2, <1>4, <1>6 DEF IInv, DirectoryGrows, Delivers, Grown, InBuild, Building, Through
<1>11. SourceFollows'
  BY <1>1, <1>2, <1>4, <1>5
     DEF IInv, SourceFollows, Followed, InBuild, Source, Readme, TypeOK, Command
<1> QED
  BY <1>7, <1>8, <1>9, <1>10, <1>11 DEF IInv

\* Before the first command.
LEMMA InitIInv == Init => IInv
<1> SUFFICES ASSUME Init PROVE IInv
  OBVIOUS
<1>1. TypeOK
  <2>1. source \in Source /\ shared \in Nat \ {0} /\ published \in Nat
    <3>1. 1 \in Versions
      BY BuildAssumption DEF Versions
    <3>2. NoReadme \in Readme
      BY DEF NoReadme, Readme
    <3>3. {1} \in SUBSET Versions
      BY <3>1
    <3>4. PICK text \in {"text", "none", "missing"} :
             source = [own |-> 1, pin |-> 1, version |-> 1, changelog |-> {1}, torn |-> FALSE,
                       checksum |-> 0, readme |-> NoReadme, license |-> text]
      BY DEF Init
    <3>5. source \in Source
      BY <3>2, <3>3, <3>4 DEF Source
    <3> QED
      BY <3>5 DEF Init
  <2>2. cmd \in Command
    <3>1. 1 \in Versions /\ "none" \in DOMAIN FirstStep \cup {"none"} /\ "done" \in Steps
      BY BuildAssumption DEF Versions, Steps, FromCopy, FromLicense, FromList, FromInclude,
         FromDashboards, FromExternal, FromMappings, FromTransforms, FromBundle, FromUpdate,
         FromZip, FromValidate
    <3> QED
      BY <3>1 DEF Init, Command
  <2>3. OutputIsWhole
    BY DEF Init, OutputIsWhole, NoBuilds
  <2>4. kibana = [upload |-> kibana.upload, version |-> kibana.version,
                  package |-> kibana.package, policies |-> kibana.policies]
    BY DEF Init
  <2> QED
    BY <2>1, <2>2, <2>3, <2>4 DEF TypeOK
<1>2. cmd.name = "none" /\ cmd.step = "done" /\ cmd.given = FALSE
  BY DEF Init
<1>3. Recorded
  <2>1. source.changelog = 1..1 /\ source.version = 1
    BY DEF Init
  <2> QED
    BY <1>2, <2>1 DEF Recorded
<1>4. StepsOfCommands /\ BeganEarlier /\ DirectoryGrows /\ SourceFollows /\ Delivers
  BY <1>2 DEF StepsOfCommands, BeganEarlier, DirectoryGrows, SourceFollows, Delivers, InBuild,
     Builders, OnlyBuilds, OtherSteps, FromValidate
<1> QED
  BY <1>1, <1>3, <1>4 DEF IInv

\* Every step keeps the invariant.
LEMMA StepIInv == IInv /\ [Next]_vars => IInv'
<1> SUFFICES ASSUME IInv, [Next]_vars PROVE IInv'
  OBVIOUS
<1>1. CASE BuildStep
  BY <1>1, DirectoryKeeps, ListKeeps, IncludeKeeps, UpdateKeeps, ZipKeeps, ValidateKeeps, SignKeeps
     DEF BuildStep
<1>2. CASE OtherStep
  BY <1>2, InstallKeeps, ReadersKeep, WritersKeep DEF OtherStep
<1>3. CASE FailStep
  BY <1>3, FailKeeps
<1> QED
  BY <1>1, <1>2, <1>3, BeginKeeps, AroundKeeps DEF Next, CommandStep

\* So it holds throughout.
LEMMA Invariance == Spec => []IInv
BY InitIInv, StepIInv, PTL DEF Spec

-----------------------------------------------------------------------------
\* Whichever step of `changelog add' or `requires update' fails, the version in the manifest has an
\* entry in the changelog, unless the failing step cut one of the two files short.
THEOREM ManifestVersionIsRecorded == Spec => []VersionIsRecorded
<1>1. IInv => VersionIsRecorded
  BY DEF IInv, Recorded, VersionIsRecorded, TypeOK, Source
<1> QED
  BY <1>1, Invariance, PTL

\* What a build delivers, to the directory, the zip or Kibana, is complete and is not older than what
\* the command found, whatever is edited and published while it runs.
THEOREM BuildIsFresh == Spec => []FreshBuild
<1>1. IInv => FreshBuild
  <2> SUFFICES ASSUME IInv, BuiltNow({"build", "check", "install"}) PROVE FreshBuild
    BY DEF FreshBuild
  <2>1. cmd.step = "done" /\ InBuild
    BY DEF BuiltNow, At, InBuild, Builders
  <2>2. Grown(Building, "done")
    BY <2>1 DEF IInv, DirectoryGrows
  <2>3. Delivered = Building
    BY <2>1 DEF IInv, Delivers, StepsOfCommands, Delivered, Building, FromValidate
  <2>4. ~cmd.skip => Valid(Building)
    BY <2>1 DEF IInv, Delivers, FromValidate
  <2> USE DEF FromCopy, FromLicense, FromList, FromInclude, FromDashboards, FromExternal,
              FromMappings, FromTransforms, FromBundle, FromUpdate, FromZip, FromValidate
  <2>5. Transformations \X Parts \subseteq Building.done
    BY <2>2 DEF Grown, Through, Transformations
  <2>6. Building.bundled >= cmd.began.pin
    <3>1. cmd.began.pin \in Nat
      BY <2>1, BeganNumbers DEF IInv
    <3> QED
      BY <2>2, <3>1 DEF Grown
  <2> QED
    BY <2>2, <2>3, <2>4, <2>5, <2>6 DEF Grown, FreshBuild
<1> QED
  BY <1>1, Invariance, PTL

\* After a build during which nobody edited lint finds its READMEs and `links check' its checksums
\* up to date.
THEOREM LintAgreesWithBuild == Spec => []LintPassesAfterBuild
<1>1. IInv => LintPassesAfterBuild
  <2> SUFFICES ASSUME IInv, BuiltNow({"build", "check"}), source.own = cmd.began.own,
                      shared = cmd.began.shared
               PROVE  UpToDate /\ source.readme = Rendered
    BY DEF LintPassesAfterBuild
  <2>1. cmd.step = "done" /\ InBuild /\ cmd.name # "install"
    BY DEF BuiltNow, At, InBuild, Builders
  <2>2. Followed("done")
    BY <2>1 DEF IInv, SourceFollows
  <2>3. source \in Source /\ shared \in Nat
    BY DEF IInv, TypeOK
  <2>4. source.checksum = shared /\ source.readme.own = source.own /\ source.readme.shared = shared
    BY <2>1, <2>2, <2>3 DEF Followed, Source, Readme, FromDashboards, FromExternal, FromMappings,
       FromTransforms, FromBundle, FromUpdate, FromZip, FromValidate
  <2>5. source.readme = Rendered
    BY <2>3, <2>4 DEF Source, Readme, Rendered
  <2> QED
    BY <2>4, <2>5 DEF UpToDate
<1> QED
  BY <1>1, Invariance, PTL
===============================================================================
