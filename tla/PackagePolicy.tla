----------------------------- MODULE PackagePolicy -----------------------------
(***************************************************************************)
(* What a test asks Fleet to collect: the package policy that is made of a *)
(* built package and of the variables a test sets, in the format of old    *)
(* and of new stacks.  A package is [type, vars, templates, dataStreams]:  *)
(* of an integration each policy template lists data streams and inputs,   *)
(* and each data stream has streams for some inputs; a template of an      *)
(* input package is an input.  A variable is defined as                    *)
(* [name, default, multi, yaml]; what a test sets is a partial function of *)
(* names.  An input that takes its name from its type has the name "".     *)
(***************************************************************************)
EXTENDS Naturals, FiniteSets, SequencesExt

CONSTANTS
    Unset,    \* the default of a variable that has none
    Nothing,  \* the empty list
    Dataset,  \* the variable data_stream.dataset
    Type,     \* the variable data_stream.type
    Apm       \* the variable use_apm

Failed == [failed |-> TRUE]

\* With the values of f where both are defined.
Over(f, g) == [x \in DOMAIN f \cup DOMAIN g |-> IF x \in DOMAIN f THEN f[x] ELSE g[x]]
NoValues == [x \in {} |-> Unset]
-------------------------------------------------------------------------------
\* Variables: the user's value, or else the default of the manifest, which old stacks have to be
\* told and new ones know.
DefinitionOf(definitions, name) == SelectSeq(definitions, LAMBDA def : def.name = name)[1]

Var(value, yaml, fromUser) == [value |-> value, yaml |-> yaml, fromUser |-> fromUser]

SetKibanaVariables(definitions, values) ==
    LET names == {definitions[i].name : i \in DOMAIN definitions}
        kept == {n \in names : \/ n \in DOMAIN values
                               \/ DefinitionOf(definitions, n).default # Unset
                               \/ DefinitionOf(definitions, n).multi}
    IN  [n \in kept |->
           LET def == DefinitionOf(definitions, n)
           IN  IF n \in DOMAIN values THEN Var(values[n], def.yaml, TRUE)
               ELSE Var(IF def.default # Unset THEN def.default ELSE Nothing, def.yaml, FALSE)]

\* What a variable that is not declared, or only by default, is set to, unless the user did.
SetFromUser(vars, name, value) ==
    IF name \in DOMAIN vars /\ vars[name].fromUser THEN vars
    ELSE Over(name :> Var(value, FALSE, TRUE), vars)

\* Simplified: what the user sets.  An empty list for a variable in YAML is left out.
ToMapStr(vars) ==
    LET sent == {n \in DOMAIN vars : /\ vars[n].fromUser
                                     /\ ~(vars[n].yaml /\ vars[n].value = Nothing)}
    IN  [n \in sent |-> vars[n].value]

\* Legacy: everything.
ToLegacyMapVar(vars) == [n \in DOMAIN vars |-> vars[n].value]
-------------------------------------------------------------------------------
\* Policy templates, data streams and inputs refer to each other by name.
Effective(input) == IF input.name # "" THEN input.name ELSE input.type
Answers(input, name) == (input.name # "" /\ input.name = name) \/ input.type = name

FindInput(template, name) == SelectSeq(template.inputs, LAMBDA input : Answers(input, name))[1]
Finds(template, name) == \E i \in DOMAIN template.inputs : Answers(template.inputs[i], name)

FilterDatastreams(dataStreams, template) ==
    IF template.streams = {} THEN dataStreams
    ELSE SelectSeq(dataStreams, LAMBDA ds : ds.name \in template.streams)

\* The stream of a data stream: the one for the input, and the first when there is none.
StreamsFor(ds, name) == SelectSeq(ds.streams, LAMBDA s : s.input = name)
GetStream(ds, name) ==
    IF name = "" \/ StreamsFor(ds, name) = <<>> THEN ds.streams[1] ELSE StreamsFor(ds, name)[1]

\* The policy templates that may be meant when a test names none; there must be one.
FindForDataStream(pkg, ds, name) ==
    LET wanted == IF name = "" THEN ds.streams[1].input ELSE name
    IN  SelectSeq(pkg.templates, LAMBDA pt : /\ Finds(pt, wanted)
                                             /\ pt.streams = {} \/ ds.name \in pt.streams)
FindForInputPackage(pkg, name) ==
    LET wanted == IF name = "" THEN pkg.templates[1].input ELSE name
    IN  SelectSeq(pkg.templates, LAMBDA pt : pt.input = wanted)
-------------------------------------------------------------------------------
\* Of several entries with one key, the last stays.
Keyed(entries) == FoldLeft(LAMBDA f, e : Over(e.key :> e.entry, f), [k \in {} |-> <<>>], entries)

\* Mutant: only the data stream under test is listed.
OnlyTested(input, target, values, dataStreams) ==
    Keyed([i \in DOMAIN SelectSeq(dataStreams, LAMBDA ds : ds.name = target) |->
             LET ds == SelectSeq(dataStreams, LAMBDA d : d.name = target)[i]
             IN  [key |-> ds.dataset,
                  entry |-> [enabled |-> TRUE,
                             vars |-> SetKibanaVariables(GetStream(ds, input).vars, values)]]])

\* The streams of an input, one for each data stream that supports it: all off but the target.
BuildStreams(input, target, values, dataStreams) ==
    LET supporting == SelectSeq(dataStreams, LAMBDA ds : StreamsFor(ds, input) # <<>>)
    IN  Keyed([i \in DOMAIN supporting |->
                 LET ds == supporting[i]
                     set == IF ds.name = target THEN values ELSE NoValues
                 IN  [key |-> ds.dataset,
                      entry |-> [enabled |-> ds.name = target,
                                 vars |-> SetKibanaVariables(GetStream(ds, input).vars, set)]]])

InputEntry(type, template, enabled, vars, streams) ==
    [type |-> type, template |-> template, enabled |-> enabled,
     vars |-> vars, streams |-> streams]
NoVars == [n \in {} |-> Var(Unset, FALSE, FALSE)]
NoStreams == [key \in {} |-> [enabled |-> FALSE, vars |-> NoVars]]

\* All inputs of all policy templates; the one under test is on.
InputOf(pkg, template, ds, stream, pt, input, values, dsValues) ==
    IF Effective(input) = stream.input /\ pt.name = template.name
    THEN InputEntry(input.type, pt.name, TRUE,
                    SetKibanaVariables(FindInput(template, stream.input).vars,
                                       Over(values, dsValues)),
                    BuildStreams(stream.input, ds.name, dsValues,
                                 FilterDatastreams(pkg.dataStreams, template)))
    ELSE InputEntry(input.type, pt.name, FALSE, NoVars,
                    BuildStreams(Effective(input), "", NoValues,
                                 FilterDatastreams(pkg.dataStreams, pt)))

BuildIntegrationPackagePolicy(pkg, template, ds, name, values, dsValues) ==
    LET stream == GetStream(ds, name)
        OfTemplate(pt) == [i \in DOMAIN pt.inputs |->
            [key |-> <<pt.name, Effective(pt.inputs[i])>>,
             entry |-> InputOf(pkg, template, ds, stream, pt, pt.inputs[i], values, dsValues)]]
    IN  [vars |-> SetKibanaVariables(pkg.vars, Over(values, dsValues)),
         inputs |-> Keyed(FlattenSeq([t \in DOMAIN pkg.templates |->
                                        OfTemplate(pkg.templates[t])]))]
-------------------------------------------------------------------------------
\* An input package has to be told the dataset: the user's, the manifest's, or else the name of
\* the policy template.
EnsureDatasetVar(vars, template, values) ==
    SetFromUser(vars, Dataset,
                IF Dataset \in DOMAIN values THEN values[Dataset]
                ELSE IF Dataset \in DOMAIN vars THEN vars[Dataset].value
                ELSE template.name)

\* What the user sets although the package need not declare it.
EnsureVar(vars, name, values) ==
    IF name \in DOMAIN values THEN SetFromUser(vars, name, values[name]) ELSE vars

InputVars(template, values) ==
    LET declared == SetKibanaVariables(template.vars, values)
        vars == EnsureVar(EnsureDatasetVar(declared, template, values), Type, values)
    IN  IF template.input = "otelcol" THEN EnsureVar(vars, Apm, values) ELSE vars

\* One input is on, with one stream that is called after the policy template.
BuildInputPackagePolicy(pkg, template, values) ==
    LET vars == InputVars(template, values)
        others == [t \in DOMAIN pkg.templates |->
                     LET pt == pkg.templates[t]
                     IN  [key |-> <<pt.name, pt.input>>,
                          entry |-> InputEntry(pt.input, pt.name, FALSE, NoVars, NoStreams)]]
        target == [key |-> <<template.name, template.input>>,
                   entry |-> InputEntry(template.input, template.name, TRUE, vars,
                                        template.name :> [enabled |-> TRUE, vars |-> vars])]
    IN  [vars |-> SetKibanaVariables(pkg.vars, values), inputs |-> Keyed(Append(others, target))]

EnabledStreams(policy) ==
    UNION {{<<k, d>> : d \in {e \in DOMAIN policy.inputs[k].streams :
                                policy.inputs[k].streams[e].enabled}} :
             k \in {i \in DOMAIN policy.inputs : policy.inputs[i].enabled}}
StreamAt(policy, at) == policy.inputs[at[1]].streams[at[2]]

\* Where documents are looked for: in the dataset of an enabled stream, if it has one.
DatasetFromPolicy(policy, fallback) ==
    LET told == {ToMapStr(StreamAt(policy, at).vars) : at \in EnabledStreams(policy)}
        datasets == {vars[Dataset] : vars \in {v \in told : Dataset \in DOMAIN v}}
    IN  IF datasets = {} THEN fallback ELSE CHOOSE dataset \in datasets : TRUE

\* The package policy of a test, with the dataset that the test looks at.
BuildPackagePolicy(pkg, templateName, ds, name, values, dsValues) ==
    LET named == SelectSeq(pkg.templates, LAMBDA pt : pt.name = templateName)
    IN  IF named = <<>> THEN Failed
        ELSE IF pkg.type = "input"
        THEN LET policy == BuildInputPackagePolicy(pkg, named[1], values)
             IN  [policy |-> policy, dataset |-> DatasetFromPolicy(policy, named[1].name)]
        ELSE IF ~Contains(pkg.dataStreams, ds) THEN Failed
        ELSE [policy |-> BuildIntegrationPackagePolicy(pkg, named[1], ds, name, values, dsValues),
              dataset |-> ds.dataset]

\* A test of a data stream, or of an input package, that may name a policy template.
PackagePolicyOf(pkg, test) ==
    LET found == IF test.template # "" THEN <<[name |-> test.template]>>
                 ELSE IF pkg.type = "input" THEN FindForInputPackage(pkg, test.input)
                 ELSE FindForDataStream(pkg, test.ds, test.input)
    IN  IF Len(found) # 1 THEN Failed
        ELSE BuildPackagePolicy(pkg, found[1].name, test.ds, test.input, test.vars, test.dsVars)
-------------------------------------------------------------------------------
\* Old stacks are told what is on, in lists.
ToLegacy(policy) ==
    [vars |-> ToLegacyMapVar(policy.vars),
     inputs |-> {LET input == policy.inputs[k]
                 IN  [template |-> input.template, type |-> input.type,
                      vars |-> ToLegacyMapVar(input.vars),
                      streams |->
                        {[dataset |-> d, vars |-> ToLegacyMapVar(input.streams[d].vars)] :
                           d \in {e \in DOMAIN input.streams : input.streams[e].enabled}}] :
                   k \in {i \in DOMAIN policy.inputs : policy.inputs[i].enabled}}]

\* Fleet puts the defaults of the manifest where it is told nothing, and an empty list where a
\* variable takes several values.
Filled(definitions, sent) ==
    LET known == SetKibanaVariables(definitions, NoValues)
    IN  Over(sent, ToLegacyMapVar(known))
-------------------------------------------------------------------------------
\* What the promises below assume: no name of an input answers to two inputs of a policy template,
\* data streams do not share a dataset, streams call inputs as their policy template does, and a
\* test that names a policy template or an input names one that goes with its data stream.
Unambiguous(pkg) ==
    /\ IsInjective([i \in DOMAIN pkg.dataStreams |-> pkg.dataStreams[i].dataset])
    /\ pkg.type = "integration" =>
         \A t \in DOMAIN pkg.templates : LET inputs == pkg.templates[t].inputs IN
            \A i, j \in DOMAIN inputs : Answers(inputs[i], Effective(inputs[j])) => i = j

Meaningful(pkg, test) ==
    pkg.type = "integration" =>
       LET stream == GetStream(test.ds, test.input)
       IN  /\ test.input \in {"", stream.input}
           /\ \E pt \in ToSet(FindForDataStream(pkg, test.ds, stream.input)) :
                /\ test.template \in {"", pt.name}
                /\ \E input \in ToSet(pt.inputs) : Effective(input) = stream.input

\* A test collects from the data stream it is about and from nothing else: one stream of one
\* input is on, and every other stream that Fleet could turn on by itself is there and off.
TestedAlone(pkg, test, result) ==
    LET policy == result.policy
        on == EnabledStreams(policy)
    IN  /\ Cardinality(on) = 1 /\ Cardinality(ToLegacy(policy).inputs) = 1
        /\ \A input \in ToLegacy(policy).inputs :
             {s.dataset : s \in input.streams} = {at[2] : at \in on}
        /\ pkg.type = "integration" =>
             /\ {at[2] : at \in on} = {test.ds.dataset}
             /\ \A t \in DOMAIN pkg.templates : LET pt == pkg.templates[t] IN
                  \A i \in DOMAIN pt.inputs :
                  \A ds \in ToSet(FilterDatastreams(pkg.dataStreams, pt)) :
                    LET key == <<pt.name, Effective(pt.inputs[i])>>
                    IN  StreamsFor(ds, key[2]) # <<>> =>
                          ds.dataset \in DOMAIN policy.inputs[key].streams

\* Old and new stacks are told the same: what Fleet makes of the simplified format is what the
\* legacy one spells out, at the package, the input and the stream.  It is not for a variable in
\* YAML that the test sets to an empty list, which a new stack takes for its default.
FormatsAgree(pkg, test, result) ==
    LET policy == result.policy
        Left(vars) == {n \in DOMAIN vars : vars[n].yaml /\ vars[n].value = Nothing}
        Agree(definitions, vars) ==
            LET told == Filled(definitions, ToMapStr(vars))
            IN  /\ DOMAIN told \subseteq DOMAIN vars
                /\ \A n \in DOMAIN vars \ Left(vars) :
                     n \in DOMAIN told /\ told[n] = vars[n].value
        TemplateOf(at) == SelectSeq(pkg.templates, LAMBDA pt : pt.name = at[1][1])[1]
        InputAt(at) == SelectSeq(TemplateOf(at).inputs, LAMBDA i : Effective(i) = at[1][2])[1]
    IN  /\ Agree(pkg.vars, policy.vars)
        /\ \A at \in EnabledStreams(policy) :
             LET vars == StreamAt(policy, at).vars
             IN  IF pkg.type = "input" THEN Agree(TemplateOf(at).vars, vars)
                 ELSE /\ Agree(GetStream(test.ds, test.input).vars, vars)
                      /\ Agree(InputAt(at).vars, policy.inputs[at[1]].vars)

\* A test looks for documents where the policy makes the agent send them.
LooksWhereSent(pkg, result) ==
    pkg.type = "input" =>
       \A at \in EnabledStreams(result.policy) :
          ToMapStr(StreamAt(result.policy, at).vars)[Dataset] = result.dataset
===============================================================================
