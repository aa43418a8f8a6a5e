-------------------------------- MODULE Filters --------------------------------
(***************************************************************************)
(* The packages of a repository that `find' lists and in which `foreach'   *)
(* runs a command.  A repository is the sequence of its manifest files in  *)
(* the order of a walk, [path, manifest], where the path leads from the    *)
(* working directory.  A flag that takes values is [given, values]; of one *)
(* that takes patterns there is the set of [valid, names] of what they     *)
(* match; the version constraint is [given, valid, versions].              *)
(***************************************************************************)
EXTENDS Naturals, FiniteSets, SequencesExt

CONSTANTS
    Here,            \* the name of the working directory
    AlwaysExcluded,  \* names of directories that are never searched
    Owners,          \* what may own a package
    AllowedCommands  \* what foreach runs

Failed == [failed |-> TRUE]
Unreadable == [type |-> "unreadable"]
-------------------------------------------------------------------------------
\* The search for packages.  Manifests of other things, or that cannot be read, are passed over.
AllowedPackageTypes == {"input", "integration", "content"}
IsPackage(manifest) == manifest.type \in AllowedPackageTypes

\* A directory is skipped with all that is in it; the one the search begins in never is.
Searched(path, depth, exclude) ==
    /\ Len(path) <= depth
    /\ \A n \in DOMAIN path : path[n] \notin AlwaysExcluded \cup exclude

ReadAllPackageManifestsFromRepo(repository, depth, exclude) ==
    SelectSeq(repository, LAMBDA file : /\ Searched(file.path, depth, exclude)
                                        /\ IsPackage(file.manifest))
-------------------------------------------------------------------------------
\* One filter each.  A flag that is given without any value, as a comma, admits everything.
HasAnyMatch(values, items) == values = {} \/ values \cap items # {}
HasAnyPattern(patterns, name) == \E pattern \in patterns : name \in pattern.names

ExtractInputs(manifest) ==
    UNION {({template.input} \ {""}) \cup ToSet(template.inputs) :
             template \in ToSet(manifest.templates)}

DirName(file) == IF file.path = <<>> THEN Here ELSE Last(file.path)

CategoryMatches(flags, manifest) == HasAnyMatch(flags.categories.values, manifest.categories)
CodeOwnerMatches(flags, manifest) == HasAnyMatch(flags.owners.values, {manifest.owner})
InputMatches(flags, manifest) == HasAnyMatch(flags.inputs.values, ExtractInputs(manifest))
PackageDirNameMatches(flags, file) == HasAnyPattern(flags.dirs, DirName(file))
PackageNameMatches(flags, manifest) == HasAnyPattern(flags.names, manifest.name)
PackageTypeMatches(flags, manifest) == HasAnyMatch(flags.types.values, {manifest.type})
SpecVersionMatches(flags, manifest) == manifest.spec \in flags.spec.versions

Matches(flags, flag, file) ==
    CASE flag = "categories" -> CategoryMatches(flags, file.manifest)
      [] flag = "owners" -> CodeOwnerMatches(flags, file.manifest)
      [] flag = "inputs" -> InputMatches(flags, file.manifest)
      [] flag = "dirs" -> PackageDirNameMatches(flags, file)
      [] flag = "names" -> PackageNameMatches(flags, file.manifest)
      [] flag = "types" -> PackageTypeMatches(flags, file.manifest)
      [] flag = "spec" -> SpecVersionMatches(flags, file.manifest)

\* The filters that a command uses, in their order.
IsApplied(flags, flag) ==
    IF flag \in {"dirs", "names"} THEN flags[flag] # {} ELSE flags[flag].given
Filters(flags) ==
    SelectSeq(<<"categories", "owners", "inputs", "dirs", "names", "types", "spec">>,
              LAMBDA flag : IsApplied(flags, flag))

\* Flags are refused as a whole.
Parses(flags) ==
    /\ \A pattern \in flags.dirs \cup flags.names : pattern.valid
    /\ flags.spec.given => flags.spec.valid
Validates(flags) == flags.owners.values \subseteq Owners

\* Mutant: a filter replaces what the filters before it have left.
ExecuteLast(flags, packages) ==
    FoldLeft(LAMBDA found, flag : SelectSeq(packages, LAMBDA p : Matches(flags, flag, p)),
             packages, Filters(flags))

\* Each filter takes from what the one before it has left.
Execute(flags, packages) ==
    FoldLeft(LAMBDA found, flag : SelectSeq(found, LAMBDA p : Matches(flags, flag, p)),
             packages, Filters(flags))

FindPackage(repository, flags) ==
    IF ~Parses(flags) \/ ~Validates(flags) THEN Failed
    ELSE [failed |-> FALSE,
          found |-> Execute(flags, ReadAllPackageManifestsFromRepo(repository, flags.depth,
                                                                   flags.exclude))]
-------------------------------------------------------------------------------
\* What `find' prints of each package.
ApplyTo(info, packages) ==
    [i \in DOMAIN packages |->
       CASE info = "package_name" -> packages[i].manifest.name
         [] info = "dir_name" -> DirName(packages[i])
         [] info = "absolute_path" -> packages[i].path]

FindCommand(repository, flags, info) ==
    LET result == FindPackage(repository, flags)
    IN  IF result.failed \/ info \notin {"package_name", "dir_name", "absolute_path"} THEN Failed
        ELSE [failed |-> FALSE, printed |-> ApplyTo(info, result.found)]
-------------------------------------------------------------------------------
\* The command is executed again and again in one process.  It changes to the directory of the
\* package, and a flag with a list of values keeps those of the executions before.
ChangeDirectory(work, path) == [work EXCEPT !.directory = path]
ParseFlags(work, streams) == [work EXCEPT !.streams = @ \o streams]

\* Mutant: what failed once is not tried any further.
StopAtFailure(work, file, streams, failing) ==
    IF work.errors > 0 THEN work
    ELSE LET begun == ChangeDirectory(ParseFlags(work, streams), file.path)
         IN  [begun EXCEPT !.ran = Append(@, [directory |-> begun.directory,
                                              streams |-> begun.streams]),
                           !.errors = IF begun.directory \in failing THEN @ + 1 ELSE @]

RunIn(work, file, streams, failing) ==
    LET begun == ChangeDirectory(ParseFlags(work, streams), file.path)
    IN  [begun EXCEPT !.ran = Append(@, [directory |-> begun.directory,
                                         streams |-> begun.streams]),
                      !.errors = IF begun.directory \in failing THEN @ + 1 ELSE @]

ForeachCommand(repository, flags, command, failing) ==
    LET result == FindPackage(repository, flags)
        start == [directory |-> <<>>, streams |-> <<>>, ran |-> <<>>, errors |-> 0]
    IN  IF command.name \notin AllowedCommands \/ result.failed THEN Failed
        ELSE LET work == FoldLeft(LAMBDA w, file : RunIn(w, file, command.streams, failing),
                                  start, result.found)
             IN  [failed |-> FALSE, ran |-> work.ran, errors |-> work.errors]
-------------------------------------------------------------------------------
\* What a user means by the flags: a package has to satisfy each of those that name something.
Meant(flags, file) ==
    LET manifest == file.manifest
        Named(flag) == flags[flag].given /\ flags[flag].values # {}
    IN  /\ IsPackage(manifest)
        /\ Named("categories") => flags.categories.values \cap manifest.categories # {}
        /\ Named("owners") => manifest.owner \in flags.owners.values
        /\ Named("types") => manifest.type \in flags.types.values
        /\ Named("inputs") => \E template \in ToSet(manifest.templates) :
              \E value \in flags.inputs.values :
                 value = template.input \/ Contains(template.inputs, value)
        /\ flags.dirs # {} => DirName(file) \in UNION {p.names : p \in flags.dirs}
        /\ flags.names # {} => manifest.name \in UNION {p.names : p \in flags.names}
        /\ flags.spec.given => manifest.spec \in flags.spec.versions

\* `find' lists every package that is meant, and a command is run once in each of them, in its
\* directory and with all data streams that are asked for, whatever became of it in others;
\* every failure is counted.
AllAreServed(repository, flags, command, failing, listed, result) ==
    LET meant == {file \in ToSet(repository) : /\ Searched(file.path, flags.depth, flags.exclude)
                                               /\ Meant(flags, file)}
        directories == [i \in DOMAIN result.ran |-> result.ran[i].directory]
    IN  /\ ~listed.failed => Len(listed.printed) = Cardinality(meant)
        /\ ~result.failed =>
             /\ ToSet(directories) = {file.path : file \in meant}
             /\ IsInjective(directories)
             /\ \A i \in DOMAIN result.ran : ToSet(result.ran[i].streams) = ToSet(command.streams)
             /\ result.errors = Cardinality(ToSet(directories) \cap failing)
===============================================================================
