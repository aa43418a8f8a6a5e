------------------------------ MODULE MCAlgorithms ------------------------------
(***************************************************************************)
(* The pure algorithms over small inputs: every behaviour takes one input  *)
(* of one of them and computes what it returns.                            *)
(***************************************************************************)
EXTENDS Fields

RQ == INSTANCE RequiredInputs WITH Own <- "own", Dataset <- "dataset", Template <- "template"
PP == INSTANCE PackagePolicy WITH Unset <- 0, Nothing <- 9, Dataset <- "dataset",
                                  Type <- "type", Apm <- "apm"
FL == INSTANCE Filters WITH Here <- "here", AlwaysExcluded <- {"build"}, Owners <- {"o1", "o2"},
                            AllowedCommands <- {"test"}
PN == INSTANCE PolicyNormalize WITH Bare <- 0, Forward <- "forward"
CV == INSTANCE Coverage WITH AnyName <- "*"

VARIABLES
    subject,  \* "integration", "package", "policy", "document", "sample", "mappings",
              \* "repository" or "results"
    input,    \* what it is given
    output    \* what it returns, as a sequence that is empty before

algorithm == <<subject, input, output>>
-------------------------------------------------------------------------------
(* Integrations with up to two policy templates, two data streams and two  *)
(* input packages, of one type or two, that declare up to three variables. *)

Packages ==
    {"p" :> [templates |-> p, files |-> <<"p.hbs">>, fields |-> <<"f", "g">>] @@
     "q" :> [templates |-> <<[type |-> type, vars |-> vars]>>, files |-> <<>>,
             fields |-> <<"g", "g">>] :
        p \in {<<[type |-> "A", vars |-> <<"a", "dataset">>]>>,
               <<[type |-> "A", vars |-> <<"a">>], [type |-> "B", vars |-> <<"b", "a">>]>>},
        type \in {"A", "B"}, vars \in {<<>>, <<"b", "a">>}}

In(name, vars) == [package |-> name, vars |-> vars]
Inputs ==
    {<<In("p", promoted)>> : promoted \in {{}, {"a"}, {"a", "dataset"}, {"a", "c"}}}
      \cup {<<In("p", {"a"}), In("q", promoted)>> : promoted \in {{}, {"a", "b"}}}
      \cup {<<In("own", {"c"}), In("q", {"b"})>>}

TemplatesOf ==
    {<<[streams |-> streams, inputs |-> inputs]>> :
        streams \in {{}, {"d1", "d2"}, {"d1"}}, inputs \in Inputs}
      \cup {<<[streams |-> {"d1"}, inputs |-> first], [streams |-> streams, inputs |-> second]>> :
              streams \in {{"d2"}, {"d1", "d2"}, {}}, first, second \in Inputs}

StreamsOf(paths) ==
    {[package |-> name, vars |-> vars, paths |-> paths] :
        name \in {"p", "q", "own"}, vars \in {<<>>, <<"dataset", "a">>, <<"c">>}}

Integrations ==
    {[requires |-> {"p", "q"}, templates |-> templates,
      streams |-> "d1" :> <<s>> @@ "d2" :> <<t>>,
      fields |-> "d1" :> <<"f">> @@ "d2" :> <<>>] :
        templates \in TemplatesOf, s \in StreamsOf(<<"s.hbs">>), t \in StreamsOf(<<>>)}
-------------------------------------------------------------------------------
(* Packages of up to two policy templates and two data streams, with inputs *)
(* of one type that are told apart by name or not, and tests of them.       *)

Def(name, default, multi, yaml) ==
    [name |-> name, default |-> default, multi |-> multi, yaml |-> yaml]
Definitions == {<<>>, <<Def("a", 1, FALSE, FALSE), Def("b", 0, FALSE, TRUE)>>,
                <<Def("m", 0, TRUE, FALSE), Def("a", 2, FALSE, TRUE)>>}
Settings == {PP!NoValues, "a" :> 3, "a" :> 9 @@ "b" :> 4, "m" :> 9 @@ "b" :> 9}

DeclaredBy(type, name) == [type |-> type, name |-> name, vars |-> <<Def("b", 1, FALSE, TRUE)>>]
InputLists == {<<DeclaredBy("A", "")>>, <<DeclaredBy("A", ""), DeclaredBy("B", "")>>,
               <<DeclaredBy("A", "p"), DeclaredBy("A", "q")>>, <<DeclaredBy("A", "q")>>}
PolicyTemplate(name, streams, inputs) == [name |-> name, streams |-> streams, inputs |-> inputs]
TemplateLists ==
    {<<PolicyTemplate("t1", streams, inputs)>> : streams \in {{}, {"d1"}}, inputs \in InputLists}
      \cup {<<PolicyTemplate("t1", {"d1"}, first), PolicyTemplate("t2", streams, second)>> :
              streams \in {{}, {"d2"}, {"d1", "d2"}}, first, second \in InputLists}

DataStream(name, inputs, definitions) ==
    [name |-> name, dataset |-> <<"dataset of", name>>,
     streams |-> [i \in DOMAIN inputs |-> [input |-> inputs[i], vars |-> definitions]]]

PackageTests ==
    {[pkg |-> [type |-> "integration", vars |-> <<Def("a", 0, FALSE, FALSE)>>,
               templates |-> templates,
               dataStreams |-> <<DataStream("d1", first, definitions),
                                 DataStream("d2", second, <<>>)>>],
      test |-> [template |-> template, input |-> name,
                ds |-> DataStream("d1", first, definitions),
                vars |-> settings[1], dsVars |-> settings[2]]] :
       templates \in TemplateLists, first \in {<<"A">>, <<"B", "A">>, <<"q">>, <<"p", "q">>},
       second \in {<<"q">>, <<"A", "B">>}, definitions \in Definitions,
       template \in {"", "t1"}, name \in {"", "A", "q"},
       settings \in {PP!NoValues} \X Settings \cup {<<"a" :> 3, "a" :> 9 @@ "b" :> 4>>}}

\* Input packages, where tests may set what the package need not declare.
InputTests ==
    {[pkg |-> [type |-> "input", vars |-> <<>>, dataStreams |-> <<>>,
               templates |-> <<[name |-> "t1", input |-> type, vars |-> definitions \o own],
                               [name |-> "t2", input |-> "B", vars |-> <<>>]>>],
      test |-> [template |-> template, input |-> "", ds |-> <<>>, dsVars |-> PP!NoValues,
                vars |-> PP!Over(settings, more)]] :
       type \in {"A", "B", "otelcol"}, definitions \in Definitions, settings \in Settings,
       own \in {<<>>, <<Def("dataset", 7, FALSE, FALSE), Def("type", 1, FALSE, FALSE)>>},
       template \in {"", "t1", "t2", "t3"},
       more \in {PP!NoValues, "dataset" :> 8 @@ "type" :> 2 @@ "apm" :> 5}}
-------------------------------------------------------------------------------
(* Policies with up to eight components; two of them differ in what Fleet  *)
(* calls the components.                                                   *)

Component(type, id, value, refs) == [type |-> type, id |-> id, value |-> value, refs |-> refs]
Key(type, id) == [type |-> type, id |-> id]

\* What the components are called: Fleet gives no identifier at all, or one to each.
Ids == {ids \in [{"e", "f", "r1", "r2", "x", "c", "l1", "l2"} -> 0..2] :
          /\ ids["r1"] # 0 /\ ids["r2"] # 0 /\ ids["x"] = 1 /\ ids["c"] # 2
          /\ ids["e"] # ids["f"] /\ ids["r1"] # ids["r2"] /\ ids["l1"] # ids["l2"]}

\* `alone' when there is one extension of its type, which is then named without identifier.
Policy(alone, ids) ==
    LET auth == Key("auth", IF alone THEN 0 ELSE ids["e"])
    IN  [extensions |-> {Component("auth", ids["e"], 1, <<>>)} \cup
                        (IF alone THEN {} ELSE {Component("auth", ids["f"], 2, <<>>)}),
         receivers |-> {Component("otlp", ids["r1"], 2, <<auth>>),
                        Component("otlp", ids["r2"], 1, <<>>)},
         processors |-> {},
         connectors |-> {Component("forward", ids["c"], 1, <<>>)},
         exporters |-> {Component("es", ids["x"], 1, <<auth>>)},
         pipelines |-> {Component("logs", ids["l1"], 1, <<Key("otlp", ids["r1"]),
                                                          Key("forward", ids["c"])>>),
                        Component("logs", ids["l2"], 2, <<Key("otlp", ids["r2"]),
                                                          Key("es", ids["x"])>>)}]
-------------------------------------------------------------------------------
(* Documents of three levels and schemas of an object with one field, of   *)
(* which ECS may know, next to one that takes anything.                    *)

Leaf(kind) == [kind |-> kind]
Array(s) == [kind |-> "array", of |-> s]
Object(members) == [kind |-> "map", of |-> members]

Scalars == {Leaf(kind) : kind \in {"string", "odd", "digits", "number", "bool", "null"}}
Values == Scalars \cup {Array(<<v>>) : v \in Scalars} \cup {Array(<<Leaf("string"), Leaf("number")>>)}
InObject == {Object(<<name>> :> value) : name \in {"b", "x"}, value \in Values}
              \cup {Object(<<"b">> :> Object(<<"x">> :> value)) : value \in Scalars}
              \cup {Object(<<"b", "x">> :> value) : value \in Scalars}
Members == Values \cup InObject \cup {Array(<<v>>) : v \in InObject}
             \cup {Array(<<v, Object(<<"b">> :> Leaf("number"))>>) : v \in InObject}
Documents ==
    {Object(<<name>> :> value) : name \in {"a", "z", "host"}, value \in Members}
      \cup {Object(<<"a", "b">> :> value) : value \in Values}
      \cup {Object(<<"a", "b">> :> value @@ <<"z">> :> Leaf("string")) : value \in Values}

ECS == <<Definition(<<"a">>, "group"),
         [Definition(<<"a", "b">>, "keyword") EXCEPT !.array = TRUE, !.strict = TRUE]>>
Schemas ==
    {Schema(<<outer, inner, Definition(<<"z">>, zone)>>, ECS, all) :
       outer \in {Definition(<<"a">>, "group"), Definition(<<"a">>, "nested"),
                  [Definition(<<"a">>, "object") EXCEPT !.object = "long"],
                  [Definition(<<"a">>, "object") EXCEPT !.enabled = FALSE]},
       inner \in {Definition(<<"a", "b">>, type) : type \in {"keyword", "ip", "long", "geo_point"}}
                   \cup {[Definition(<<"a", "b">>, "") EXCEPT !.external = TRUE],
                         [Definition(<<"a", "*">>, "date") EXCEPT !.strict = TRUE]},
       zone \in {"flattened", "object"}, all \in BOOLEAN}

Validators ==
    {[schema |-> schema, version |-> version, normalized |-> lenient, numericKeyword |-> lenient,
      stringNumber |-> lenient, otel |-> FALSE, datasets |-> {"set"}] :
        schema \in Schemas, version \in Versions, lenient \in BOOLEAN}

\* Documents as they are read where their source is synthetic, and packages that define fields
\* which are arrays, and multi-fields.
Texts == {Array(<<Leaf("string")>>), Array(<<Leaf("string"), Leaf("string")>>),
          Array(<<Leaf("number")>>)}
Parts == {Object(<<name>> :> value) : name \in {"b", "x"}, value \in Texts}
FieldValues == Texts \cup {Array(<<part>>) : part \in Parts}
                     \cup {Array(<<part, Object(<<"b">> :> Array(<<Leaf("string")>>))>>) : part \in Parts}
Fetched ==
    {Object(<<"a">> :> value @@ <<"z">> :> last) : value \in FieldValues, last \in FieldValues}
      \cup {Object(more @@ <<"a", "b">> :> value @@ <<"z">> :> last) : value, last \in Texts,
              more \in {<<"a", "b", "t">> :> Array(<<Leaf("string")>>),
                        <<"a", "c">> :> Array(<<Leaf("number")>>)}}

Sampled ==
    {[schema |-> <<Definition(<<"a">>, outer),
                   [Definition(<<"a", "b">>, "keyword") EXCEPT !.array = inner],
                   Definition(<<"a", "b", "t">>, "text"),
                   [Definition(<<"z">>, zone) EXCEPT !.array = last]>>,
      version |-> version, normalized |-> FALSE, numericKeyword |-> lenient, stringNumber |-> FALSE,
      otel |-> FALSE, datasets |-> {}] :
       outer \in {"group", "nested", "geo_point", "flattened"}, zone \in {"keyword", "flattened"},
       inner, last, lenient \in BOOLEAN, version \in {2, 3}}
-------------------------------------------------------------------------------
(* Mappings of two levels, with multi-fields, and what the index template  *)
(* previews of them.                                                       *)

None == [x \in {} |-> 0]
Field(type) == [type |-> type, value |-> "", dynamic |-> FALSE, props |-> None, fields |-> None]
Constant(value) == [Field("constant_keyword") EXCEPT !.value = value]
Dynamic == [Field("object") EXCEPT !.dynamic = TRUE]

Simple == {Field("keyword"), Field("long"), Field("float"), Field("object"), Dynamic,
           Constant(""), Constant("v"), Constant("w"),
           [Field("keyword") EXCEPT !.fields = "t" :> Field("text")],
           [Field("keyword") EXCEPT !.fields = "t" :> Field("keyword") @@ "u" :> Field("text")]}
Nested(type, props) == [Field(type) EXCEPT !.props = props]
Mappings ==
    Simple \cup {Nested(type, "b" :> m) : type \in {"", "nested"}, m \in Simple}
           \cup {Nested("", "b" :> Field("keyword") @@ "c" :> m) : m \in Simple}

Checks ==
    {[templates |-> templates, schema |-> schema, exceptions |-> exceptions] :
        templates \in {<<>>, <<[path |-> <<"a", "*">>, mapping |-> Field("keyword")]>>},
        schema \in {<<>>, <<[Definition(<<"a", "c">>, "double") EXCEPT !.external = TRUE]>>},
        exceptions \in {{}, {<<"a", "b">>}}}
-------------------------------------------------------------------------------
(* Repositories of three manifest files, one of them not of a package, and *)
(* any two flags.                                                          *)

Manifest(type, name, owner, categories, spec, templates) ==
    [type |-> type, name |-> name, owner |-> owner, categories |-> categories, spec |-> spec,
     templates |-> templates]
Manifests == {FL!Unreadable,
              Manifest("integration", "p", "o1", {"c1", "c2"}, 2,
                       <<[input |-> "", inputs |-> <<"A", "B">>], [input |-> "", inputs |-> <<>>]>>),
              Manifest("input", "q", "o2", {"c1"}, 3, <<[input |-> "A", inputs |-> <<>>]>>),
              Manifest("content", "p", "o1", {}, 0, <<>>)}
Places == {<<<<>>, <<"p">>, <<"p", "build">>>>, <<<<"build">>, <<"build", "x">>, <<"p">>>>,
           <<<<"p">>, <<"x", "p">>, <<"x", "q">>>>}
Repositories ==
    {[i \in 1..3 |-> [path |-> places[i], manifest |-> manifests[i]]] :
        places \in Places, manifests \in [1..3 -> Manifests]}

Absent == [given |-> FALSE, values |-> {}]
Given(values) == [given |-> TRUE, values |-> values]
NoFlags == [depth |-> 2, exclude |-> {}, categories |-> Absent, owners |-> Absent,
            inputs |-> Absent, types |-> Absent, dirs |-> {}, names |-> {},
            spec |-> [given |-> FALSE, valid |-> TRUE, versions |-> {}]]
Pattern(names) == [valid |-> TRUE, names |-> names]
FlagValues ==
    {<<"depth", 1>>, <<"exclude", {"x"}>>, <<"categories", Given({})>>,
     <<"categories", Given({"c2", "c3"})>>, <<"owners", Given({"o1"})>>, <<"owners", Given({"?"})>>,
     <<"inputs", Given({"A"})>>, <<"inputs", Given({"B"})>>, <<"types", Given({"input", "content"})>>,
     <<"dirs", {Pattern({"p", "here"})}>>, <<"dirs", {Pattern({"q"}), Pattern({"x"})}>>,
     <<"names", {Pattern({"q"})}>>, <<"names", {[valid |-> FALSE, names |-> {}]}>>,
     <<"spec", [given |-> TRUE, valid |-> TRUE, versions |-> {2}]>>}
FlagSets == {[NoFlags EXCEPT ![a[1]] = a[2], ![b[1]] = b[2]] : a, b \in FlagValues}
-------------------------------------------------------------------------------
(* Packages with a pipeline of up to two processors and up to two results: *)
(* of tests that ran processors or not, that Elasticsearch tells of in     *)
(* every way, and of tests that cover whole files.                         *)

File(dirs, name, lines) ==
    [dirs |-> dirs, name |-> name, ext |-> "yml", lines |-> lines, terminated |-> TRUE]
PipelineFile(terminated) ==
    [File(<<"data_stream", "d1", "pipeline">>, "default", 6) EXCEPT !.terminated = terminated]

CoveredPackages ==
    {[name |-> "p", prefix |-> prefix,
      files |-> <<File(<<"_dev">>, "manifest", 1), File(<<>>, "changelog", 1),
                  PipelineFile(terminated), File(<<"data_stream", "d1">>, name, 2),
                  File(<<>>, "manifest", 2)>>] :
        prefix \in {<<>>, <<"packages", "p">>}, terminated \in BOOLEAN,
        name \in {"manifest", "sample"}}

Processor(type, line) == [type |-> type, line |-> line]
Pipelines(terminated) ==
    {[name |-> "default-1", file |-> PipelineFile(terminated), processors |-> processors,
      next |-> next] :
        processors \in {<<>>, <<Processor("set", 2)>>, <<Processor("set", 2), Processor("drop", 3)>>,
                        <<Processor("set", 2), Processor("set", 4)>>,
                        <<Processor("set", 2), Processor("drop", 2)>>},
        next \in {0, 2, 5}}

Entry(id, type, count) == [id |-> id, type |-> type, count |-> count]
Entries(pipeline, counts, conditional) ==
    [n \in DOMAIN pipeline.processors |->
       Entry(IF conditional THEN "compound" ELSE pipeline.processors[n].type,
             IF conditional THEN "conditional" ELSE pipeline.processors[n].type, counts[n])]
Answers(pipeline) ==
    {<<pipeline.name :> Entries(pipeline, counts, conditional)
                          \o (IF conditional THEN <<Entry("reroute", "conditional", 1)>> ELSE <<>>)>> :
        counts \in [1..2 -> 0..1], conditional \in BOOLEAN}
      \cup {<<>>, <<pipeline.name :> <<Entry("set", "set", 1), Entry("set", "drop", 1)>>>>,
            <<"other" :> <<>>>>, <<pipeline.name :> <<Entry("set", "set", 1)>>>>}
PipelineResults(pipeline) ==
    {[kind |-> "pipelines", name |-> "p.d1", pipelines |-> <<pipeline>>, nodes |-> nodes] :
        nodes \in Answers(pipeline)}

Glob(dirs, name) == [dirs |-> dirs, name |-> name, ext |-> "yml"]
FileResults ==
    {[kind |-> "files", name |-> name, patterns |-> patterns] :
        name \in {"p", "p.d1"},
        patterns \in {<<Glob(<<>>, "manifest"), Glob(<<"data_stream", "*">>, "manifest")>>,
                      <<Glob(<<"data_stream", "d1">>, "sample")>>, <<Glob(<<>>, "*")>>}}

ResultLists(pipeline) ==
    {<<first, second>> : first, second \in PipelineResults(pipeline) \cup FileResults}
      \cup {<<>>} \cup {<<result>> : result \in PipelineResults(pipeline)}
-------------------------------------------------------------------------------
Init ==
    /\ output = <<>>
    /\ \/ subject = "integration" /\ \E packages \in Packages, integration \in Integrations :
             input = [packages |-> packages, integration |-> integration]
       \/ subject = "package" /\ input \in PackageTests \cup InputTests
       \/ subject = "policy" /\ \E alone \in BOOLEAN, ids, renamed \in Ids :
             /\ alone => ids["f"] = IF ids["e"] = 0 THEN 1 ELSE 0
             /\ alone => renamed["f"] = IF renamed["e"] = 0 THEN 1 ELSE 0
             /\ input = [policy |-> Policy(alone, ids), renamed |-> Policy(alone, renamed)]
       \/ subject = "document" /\ \E v \in Validators, document \in Documents :
             input = [v |-> v, document |-> document]
       \/ subject = "sample" /\ \E v \in Sampled, document \in Fetched :
             input = [v |-> v, document |-> document]
       \/ subject = "mappings" /\ \E check \in Checks, preview, actual \in Mappings :
             input = [check |-> check, preview |-> "a" :> preview, actual |-> "a" :> actual]
       \/ subject = "repository" /\ \E repository \in Repositories, flags \in FlagSets :
             \E failing \in {{}, {<<"p">>}} :
             input = [repository |-> repository, flags |-> flags, failing |-> failing]
       \/ subject = "results" /\ \E package \in CoveredPackages :
             \E pipeline \in Pipelines(package.files[3].terminated) :
             \E results \in ResultLists(pipeline) :
             input = [package |-> package, results |-> results]

Done(result) == output = <<>> /\ output' = <<result>> /\ UNCHANGED <<subject, input>>

BundleInputs == subject = "integration" /\ Done(RQ!Bundle(input.integration, input.packages))
ConfigurePackage == subject = "package" /\ Done(PP!PackagePolicyOf(input.pkg, input.test))
NormalizePolicy == subject = "policy" /\ Done(PN!Normalize(input.policy))
CheckDocument == subject = "document" /\ Done(ValidateDocument(input.v, input.document, ""))
WriteSampleEvent ==
    subject = "sample" /\ Done(SanitizeSyntheticSourceDoc(input.v, input.document))
CheckMappings ==
    subject = "mappings" /\ Done(CompareProperties(input.check, <<>>, input.preview, input.actual))
FindAndServe ==
    LET command == [name |-> "test", streams |-> <<"d1", "d2">>]
    IN  /\ subject = "repository"
        /\ Done([listed |-> FL!FindCommand(input.repository, input.flags, "dir_name"),
                 served |-> FL!ForeachCommand(input.repository, input.flags, command,
                                              input.failing)])
ReportCoverage ==
    subject = "results" /\ Done([format \in {"generic", "cobertura"} |->
                                   CV!CreateCoverageReport(format, input.package, input.results)])

Next == BundleInputs \/ ConfigurePackage \/ NormalizePolicy \/ CheckDocument \/ WriteSampleEvent
        \/ CheckMappings \/ FindAndServe \/ ReportCoverage

Spec == Init /\ [][Next]_algorithm
-------------------------------------------------------------------------------
Returned(what) == subject = what /\ output # <<>>

\* Each variable of a required input package is configured in exactly one place of the built
\* integration, each stream finds its input under the name that input has got, and what the
\* integration itself defines takes precedence.  Of what is built, a test collects from the data
\* stream it is about alone, with the same settings on old stacks and on new ones, and looks for
\* the documents where they go.
BuiltInputsWork ==
    /\ /\ Returned("integration")
       /\ output[1] # RQ!Failed
       /\ RQ!OneScope(input.integration)
       /\ RQ!ImportsOnce(input.integration)
       => /\ RQ!VariablesHavePlace(input.integration, input.packages, output[1])
          /\ RQ!StreamsFindInputs(input.integration, input.packages, output[1])
          /\ RQ!OwnTakesPrecedence(input.integration, input.packages, output[1])
    /\ /\ Returned("package")
       /\ output[1] # PP!Failed
       /\ PP!Unambiguous(input.pkg)
       /\ PP!Meaningful(input.pkg, input.test)
       => /\ PP!TestedAlone(input.pkg, input.test, output[1])
          /\ PP!FormatsAgree(input.pkg, input.test, output[1])
          /\ PP!LooksWhereSent(input.pkg, output[1])

\* A policy test passes or fails whatever identifiers Fleet made up for the components, and
\* compares every component and every reference.  A coverage report tells of each line whether
\* a test ran it, whichever result comes first, and, of tests of pipelines, in either format.
TestsTellWhatMatters ==
    /\ Returned("policy") => /\ PN!SamePolicy(input.policy, input.renamed)
                             /\ PN!NothingIsDropped(input.policy)
    /\ /\ Returned("results")
       /\ CV!AllFormatted(input.results)
       => /\ CV!CoverageIsExact(input.package, input.results, output[1]["generic"])
          /\ CV!OrderDoesNotMatter(input.package, input.results, output[1]["generic"])
          /\ /\ CV!NamesAreDistinct(input.package)
             /\ \A result \in ToSet(input.results) : result.kind = "pipelines"
             => CV!FormatsTellTheSame(input.package, output[1]["generic"], output[1]["cobertura"])

\* What a document contains is defined by the package, whichever way the document is written,
\* a sample event that a system test makes of a document is right too, and what a data stream
\* has mapped is explained by its package.
DocumentsAreDefined ==
    /\ Returned("document") => /\ AcceptedIsDefined(input.v, input.document)
                               /\ FormDoesNotMatter(input.v, input.document)
    /\ Returned("sample") => SampleIsAccepted(input.v, input.document, output[1])
    /\ Returned("mappings") => MappingsAreExplained(input.check, input.preview, input.actual)

\* A command for several packages reaches all the packages that its flags mean.
SelectionIsServed ==
    Returned("repository") =>
        FL!AllAreServed(input.repository, input.flags, [streams |-> <<"d1", "d2">>], input.failing,
                        output[1].listed, output[1].served)
===============================================================================
