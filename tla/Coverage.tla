-------------------------------- MODULE Coverage --------------------------------
(***************************************************************************)
(* What `test --test-coverage' reports of a package.  Every result of a    *)
(* test brings a report of its own, and they are merged, in the order of   *)
(* the results, into a report in which nothing is covered.                 *)
(*                                                                         *)
(* A package is [name, prefix, files] in the order of a walk, the prefix   *)
(* being its place in the repository; a file [dirs, name, ext, lines,      *)
(* terminated], where the last line need not be terminated; a pipeline     *)
(* [name, file, processors, next], of processors [type, line] and with the *)
(* line of the key after them, or 0.  A result is of a test of pipelines,  *)
(* with what the nodes of Elasticsearch answer, or of one that covers the  *)
(* files its patterns match.  `AnyName' matches any name.                      *)
(***************************************************************************)
EXTENDS Naturals, FiniteSets, SequencesExt

CONSTANT AnyName
-------------------------------------------------------------------------------
\* Each element of the second sequence joins the first one like it, or is added.
Merged(as, bs, Like(_, _), Join(_, _)) ==
    FoldLeft(LAMBDA merged, b :
               LET like == {n \in DOMAIN merged : Like(merged[n], b)}
               IN  IF like = {} THEN Append(merged, b)
                                ELSE [merged EXCEPT ![Min(like)] = Join(@, b)],
             as, bs)

SameName(a, b) == a.name = b.name
-------------------------------------------------------------------------------
(* The generic format: files with lines. *)

\* Mutant: the last result decides.
GenericLineLast(a, b) == b

GenericLineMerge(a, b) == [a EXCEPT !.covered = a.covered \/ b.covered]
GenericFileMerge(a, b) ==
    [a EXCEPT !.lines = Merged(@, b.lines, LAMBDA x, y : x.number = y.number, GenericLineMerge)]

GenericMerge(a, b) == Merged(a, b, LAMBDA x, y : x.path = y.path, GenericFileMerge)
-------------------------------------------------------------------------------
(* Cobertura: packages with classes, which have the lines of their methods. *)

CanMerge(a, b) ==
    /\ a.ok /\ b.ok
    /\ a.filename = b.filename
    /\ [n \in DOMAIN a.lines |-> a.lines[n].number] = [n \in DOMAIN b.lines |-> b.lines[n].number]
    /\ Len(a.methods) = Len(b.methods)
    /\ \A m \in DOMAIN a.methods : /\ a.methods[m].name = b.methods[m].name
                                   /\ Len(a.methods[m].lines) = Len(b.methods[m].lines)

MethodMerge(a, b) ==
    [a EXCEPT !.lines = [n \in DOMAIN a.lines |->
                           [a.lines[n] EXCEPT !.hits = @ + b.lines[n].hits]]]

\* Mutant: only what the methods say is added up.
CoberturaClassMergeMethods(a, b) ==
    IF ~CanMerge(a, b)
    THEN [a EXCEPT !.ok = FALSE]
    ELSE [a EXCEPT !.methods = [m \in DOMAIN a.methods |->
                                  MethodMerge(a.methods[m], b.methods[m])]]

\* A class that cannot be merged with one of its name is an error of the report.
CoberturaClassMerge(a, b) ==
    IF ~CanMerge(a, b)
    THEN [a EXCEPT !.ok = FALSE]
    ELSE LET methods == [m \in DOMAIN a.methods |-> MethodMerge(a.methods[m], b.methods[m])]
         IN  [a EXCEPT !.methods = methods,
                       !.lines = FlattenSeq([m \in DOMAIN methods |-> methods[m].lines])]

CoberturaPackageMerge(a, b) ==
    [a EXCEPT !.classes = Merged(@, b.classes, SameName, CoberturaClassMerge)]
CoberturaMerge(a, b) == Merged(a, b, SameName, CoberturaPackageMerge)

Classes(report) == FlattenSeq([p \in DOMAIN report |-> report[p].classes])
Readable(report) == \A c \in DOMAIN Classes(report) : Classes(report)[c].ok

\* The total, which is counted again at every merge.
CoberturaLines(report) == FlattenSeq([c \in DOMAIN Classes(report) |-> Classes(report)[c].lines])
LinesCovered(report) == Len(SelectSeq(CoberturaLines(report), LAMBDA line : line.hits > 0))
-------------------------------------------------------------------------------
(* Reports of whole files. *)

Path(package, file) == package.prefix \o file.dirs \o <<file.name, file.ext>>

\* Counts ends of lines.
CountReaderLines(file) == IF file.terminated THEN file.lines ELSE file.lines - 1

GenericFileReport(package, name, file, covered) ==
    <<[path |-> Path(package, file),
       lines |-> [n \in 1..CountReaderLines(file) |-> [number |-> n, covered |-> covered]]]>>

CoberturaFileReport(package, name, file, covered) ==
    <<[name |-> name,
       classes |-> <<[name |-> <<name, file.name>>, filename |-> Path(package, file), ok |-> TRUE,
                      methods |-> <<>>,
                      lines |-> [n \in 1..CountReaderLines(file) |->
                                   [number |-> n, hits |-> IF covered THEN 1 ELSE 0]]]>>]>>

Merge(format, a, b) ==
    IF a = <<>> THEN b
    ELSE IF b = <<>> THEN a
    ELSE IF format = "generic" THEN GenericMerge(a, b) ELSE CoberturaMerge(a, b)

FileReport(format, package, name, file, covered) ==
    IF format = "generic" THEN GenericFileReport(package, name, file, covered)
                          ELSE CoberturaFileReport(package, name, file, covered)

ReportOf(format, package, name, files, covered) ==
    FoldLeft(LAMBDA report, file :
               Merge(format, report, FileReport(format, package, name, file, covered)),
             <<>>, files)

\* Everything but what is for development, and the changelog at the root of the repository.
InBaseReport(package, file) ==
    /\ "_dev" \notin ToSet(file.dirs)
    /\ Path(package, file) # <<"changelog", "yml">>
BaseReport(format, package) ==
    ReportOf(format, package, package.name,
             SelectSeq(package.files, LAMBDA file : InBaseReport(package, file)), FALSE)

GlobMatches(pattern, file) ==
    /\ Len(pattern.dirs) = Len(file.dirs)
    /\ \A n \in DOMAIN file.dirs : pattern.dirs[n] \in {AnyName, file.dirs[n]}
    /\ pattern.name \in {AnyName, file.name} /\ pattern.ext = file.ext
GlobReport(format, package, name, patterns) ==
    ReportOf(format, package, name,
             FlattenSeq([n \in DOMAIN patterns |->
                           SelectSeq(package.files, LAMBDA file : GlobMatches(patterns[n], file))]),
             TRUE)
-------------------------------------------------------------------------------
(* Reports of pipelines: which processors there are, in which lines, and   *)
(* how often each was run.                                                 *)

FirstLine(pipeline, n) == pipeline.processors[n].line

\* Mutant: a processor goes on to the line in which the next one begins.
LastLineOfNext(pipeline, n) ==
    IF n < Len(pipeline.processors) THEN FirstLine(pipeline, n + 1) ELSE pipeline.file.lines

LastLine(pipeline, n) ==
    CASE n < Len(pipeline.processors) ->
           Max({FirstLine(pipeline, n), FirstLine(pipeline, n + 1) - 1})
      [] n = Len(pipeline.processors) /\ pipeline.next # 0 -> pipeline.next - 1
      [] OTHER -> pipeline.file.lines

\* A node tells of each pipeline its processors, [id, type, count]; one that has a condition is
\* of that type, and else of the one that its identifier begins with.
Extracts(entry) == entry.type \in {entry.id, "conditional"}
GetPipelineStats(nodes, pipelines) ==
    /\ Len(nodes) = 1
    /\ \A n \in DOMAIN pipelines :
         /\ pipelines[n].name \in DOMAIN nodes[1]
         /\ \A e \in DOMAIN nodes[1][pipelines[n].name] : Extracts(nodes[1][pipelines[n].name][e])

\* Routing rules of the package are installed as processors that the file does not have.
ProcessorStats(nodes, pipeline) ==
    SelectSeq(nodes[1][pipeline.name], LAMBDA entry : entry.id # "reroute")

PipelineDataForCoverage(nodes, pipeline) ==
    LET stats == ProcessorStats(nodes, pipeline)
    IN  /\ Len(stats) = Len(pipeline.processors)
        /\ \A n \in DOMAIN stats : stats[n].id \in {"compound", pipeline.processors[n].type}

\* The lines of a processor; none, if what follows the last one is in its line.
LinesOf(pipeline, n) ==
    LET first == FirstLine(pipeline, n)
        last == LastLine(pipeline, n)
    IN  [k \in 1..(IF last < first THEN 0 ELSE last - first + 1) |-> first + k - 1]

GenericLinesOf(pipeline, n, stats) ==
    LET numbers == LinesOf(pipeline, n)
    IN  [k \in DOMAIN numbers |-> [number |-> numbers[k], covered |-> stats[n].count > 0]]
GenericForSinglePipeline(package, pipeline, stats) ==
    [path |-> Path(package, pipeline.file),
     lines |-> FlattenSeq([n \in DOMAIN stats |-> GenericLinesOf(pipeline, n, stats)])]

Method(pipeline, n, stats) ==
    LET numbers == LinesOf(pipeline, n)
    IN  [name |-> pipeline.processors[n].type,
         lines |-> [k \in DOMAIN numbers |-> [number |-> numbers[k], hits |-> stats[n].count]]]
CoberturaForSinglePipeline(package, pipeline, stats) ==
    LET methods == [n \in DOMAIN stats |-> Method(pipeline, n, stats)]
    IN  [name |-> <<pipeline.file.name>>, filename |-> Path(package, pipeline.file), ok |-> TRUE,
         methods |-> methods, lines |-> FlattenSeq([n \in DOMAIN methods |-> methods[n].lines])]

\* A test of which there are no statistics, or ones of other processors, is in error.
HasCoverage(result) ==
    /\ GetPipelineStats(result.nodes, result.pipelines)
    /\ \A n \in DOMAIN result.pipelines :
         PipelineDataForCoverage(result.nodes, result.pipelines[n])

PipelineReport(format, package, result) ==
    LET Stats(n) == ProcessorStats(result.nodes, result.pipelines[n])
    IN  IF ~HasCoverage(result) THEN <<>>
        ELSE IF format = "generic"
        THEN [n \in DOMAIN result.pipelines |->
                GenericForSinglePipeline(package, result.pipelines[n], Stats(n))]
        ELSE <<[name |-> result.name,
                  classes |-> [n \in DOMAIN result.pipelines |->
                    CoberturaForSinglePipeline(package, result.pipelines[n], Stats(n))]]>>
-------------------------------------------------------------------------------
ResultReport(format, package, result) ==
    IF result.kind = "pipelines" THEN PipelineReport(format, package, result)
                                 ELSE GlobReport(format, package, result.name, result.patterns)

\* The report that is written, if it is Readable.
CreateCoverageReport(format, package, results) ==
    FoldLeft(LAMBDA report, result :
               Merge(format, report, ResultReport(format, package, result)),
             BaseReport(format, package), results)
-------------------------------------------------------------------------------
(* What a report should tell, said of the lines and not of their ranges.   *)

\* Every processor begins in a line of its own, and so does what follows the last one.
Formatted(pipeline) ==
    /\ \A m, n \in DOMAIN pipeline.processors :
         m < n => FirstLine(pipeline, m) < FirstLine(pipeline, n)
    /\ \A n \in DOMAIN pipeline.processors : pipeline.next # 0 => FirstLine(pipeline, n) < pipeline.next
AllFormatted(results) ==
    \A r \in ToSet(results) : r.kind = "pipelines" => \A p \in ToSet(r.pipelines) : Formatted(p)

\* A line belongs to the last processor that begins before its end.
Owns(pipeline, n, k) ==
    /\ FirstLine(pipeline, n) <= k
    /\ \A m \in DOMAIN pipeline.processors : FirstLine(pipeline, m) <= k => m <= n
    /\ pipeline.next = 0 \/ k < pipeline.next

RunsLine(package, file, k, result) ==
    IF result.kind = "pipelines"
    THEN /\ HasCoverage(result)
         /\ \E p \in ToSet(result.pipelines) : \E n \in DOMAIN p.processors :
              /\ p.file = file /\ Owns(p, n, k)
              /\ ProcessorStats(result.nodes, p)[n].count > 0
    ELSE /\ k <= CountReaderLines(file)
         /\ \E pattern \in ToSet(result.patterns) : GlobMatches(pattern, file)

GenericLines(package, file, report) ==
    UNION {ToSet(f.lines) : f \in {g \in ToSet(report) : g.path = Path(package, file)}}

\* Exactly the lines that some test ran are covered, and of the lines of the package none is
\* missing, or there both as covered and as not covered.
CoverageIsExact(package, results, report) ==
    \A file \in ToSet(package.files) :
      /\ \A k \in 1..file.lines :
           (\E line \in GenericLines(package, file, report) : line.number = k /\ line.covered)
             <=> \E result \in ToSet(results) : RunsLine(package, file, k, result)
      /\ InBaseReport(package, file) =>
           \A k \in 1..CountReaderLines(file) :
             Cardinality({line \in GenericLines(package, file, report) : line.number = k}) = 1

\* The order in which the results come is that of the testers, which run in parallel.
OrderDoesNotMatter(package, results, report) ==
    \A file \in ToSet(package.files) :
      GenericLines(package, file, report)
        = GenericLines(package, file, CreateCoverageReport("generic", package, Reverse(results)))

\* Cobertura calls the files of a package by their names alone.
NamesAreDistinct(package) ==
    \A f, g \in {h \in ToSet(package.files) : InBaseReport(package, h)} : f.name = g.name => f = g

CoberturaCovers(package, file, k, report) ==
    \E class \in ToSet(Classes(report)) :
      /\ class.filename = Path(package, file)
      /\ \E line \in ToSet(class.lines) : line.number = k /\ line.hits > 0

\* Both formats tell the same of tests of pipelines, and so does the total.
FormatsTellTheSame(package, generic, cobertura) ==
    LET CoveredIn(file) == {line \in GenericLines(package, file, generic) : line.covered}
    IN  /\ Readable(cobertura)
        /\ \A file \in ToSet(package.files) : \A k \in 1..file.lines :
             CoberturaCovers(package, file, k, cobertura)
               <=> \E line \in CoveredIn(file) : line.number = k
        /\ LinesCovered(cobertura)
             = FoldLeft(LAMBDA sum, file : sum + Cardinality(CoveredIn(file)), 0, package.files)
===============================================================================
