---------------------------- MODULE RequiredInputs ----------------------------
(***************************************************************************)
(* What a build makes of an integration that takes its inputs from input   *)
(* packages: which variables end up on an input and which on a stream,     *)
(* what inputs and streams are called, and which templates and fields are  *)
(* bundled.  An input package is [templates, files, fields], a template of *)
(* it [type, vars].  An integration is [requires, templates, streams,      *)
(* fields]: a policy template has the data streams it lists and inputs,    *)
(* and each data stream has streams; both say which package they are from. *)
(***************************************************************************)
EXTENDS Naturals, FiniteSets, SequencesExt

CONSTANTS
    Own,      \* stands for the package of an input that the integration defines itself
    Dataset,  \* the variable data_stream.dataset
    Template  \* scope of what a policy template promotes that lists no data streams

Failed == [failed |-> TRUE]

\* The first of several definitions of one name is kept, in order.
FirstWins(s) == FoldLeft(LAMBDA kept, x : IF Contains(kept, x) THEN kept ELSE Append(kept, x), <<>>, s)
Without(s, names) == SelectSeq(s, LAMBDA x : x \notin names)
Only(s, names) == SelectSeq(s, LAMBDA x : x \in names)

\* All variables of an input package, over all its policy templates.
Vars(package) == FirstWins(FlattenSeq([i \in DOMAIN package.templates |-> package.templates[i].vars]))

\* Only the first policy template of an input package names its input.
Type(package) == package.templates[1].type

\* Where a policy template promotes variables.
Scopes(template) == IF template.streams = {} THEN {Template} ELSE template.streams

Imports(template) == {i \in DOMAIN template.inputs : template.inputs[i].package # Own}
-------------------------------------------------------------------------------
\* Variables.  What is promoted is looked up by package and scope; a later policy template
\* replaces what an earlier one promotes there, and one that promotes nothing replaces nothing.
PromotedAt(integration, name, scope) ==
    LET Promotes(template) ==
            {i \in Imports(template) : /\ template.inputs[i].package = name
                                       /\ template.inputs[i].vars # {}
                                       /\ scope \in Scopes(template)}
        promoting == {t \in DOMAIN integration.templates : Promotes(integration.templates[t]) # {}}
    IN  IF promoting = {} THEN {}
        ELSE LET template == integration.templates[Max(promoting)]
             IN  template.inputs[Max(Promotes(template))].vars

\* The variables of an input, of those its package declares, in the package's order.
InputVars(integration, template, input, package) ==
    Only(Vars(package),
         UNION {PromotedAt(integration, input.package, scope) : scope \in Scopes(template)})

\* Mutant: what is promoted anywhere is promoted everywhere.
PromotedAnywhere(integration, stream, d) ==
    UNION {PromotedAt(integration, stream.package, scope) :
             scope \in DOMAIN integration.streams \cup {Template}}

\* What a stream leaves to the input: promoted for its data stream or for a whole template.
PromotedFor(integration, stream, d) ==
    UNION {PromotedAt(integration, stream.package, scope) : scope \in {d, Template}}

\* The rest of the variables, but the dataset, and then those that only the stream declares.
StreamVars(integration, stream, d, package) ==
    LET base == Without(Vars(package), {Dataset})
    IN  IF Vars(package) = <<>> THEN stream.vars
        ELSE Without(base, PromotedFor(integration, stream, d)) \o Without(stream.vars, ToSet(base))

DuplicateVars(stream, package) ==
    Vars(package) # <<>> /\ Cardinality(ToSet(stream.vars)) # Len(stream.vars)
-------------------------------------------------------------------------------
\* Names.  A package is qualified everywhere when a policy template imports two inputs of its type.
Qualified(integration, packages, name) ==
    \E t \in DOMAIN integration.templates :
       LET template == integration.templates[t]
           same == {i \in Imports(template) :
                      Type(packages[template.inputs[i].package]) = Type(packages[name])}
       IN  /\ \E i \in same : template.inputs[i].package = name
           /\ Cardinality(same) > 1

\* How streams refer to the inputs of a package, and how Fleet tells inputs apart.
InputRef(integration, packages, name) ==
    IF Qualified(integration, packages, name) THEN name ELSE Type(packages[name])

\* Templates are copied under the name of the input package, not to meet those of another.
Copied(name, package) == [i \in DOMAIN package.files |-> <<name, package.files[i]>>]

\* Templates of the input package come first, and those of the integration take precedence.
TemplatePaths(stream, package) == Copied(stream.package, package) \o stream.paths

\* Fields of an input package that a data stream does not have yet are added to it.
MergeFields(fields, package) == fields \o Without(FirstWins(package.fields), ToSet(fields))

\* One stream after the other.
FieldsOf(integration, packages, d) ==
    FoldLeft(LAMBDA fields, stream :
               IF stream.package = Own THEN fields
               ELSE MergeFields(fields, packages[stream.package]),
             integration.fields[d], integration.streams[d])
-------------------------------------------------------------------------------
\* What makes a build fail: a required package that cannot be had or that defines no input, an
\* input or stream of a package that is not required, a stream whose package no policy template
\* imports, and a variable that a stream declares twice.
Imported(integration) ==
    UNION {{integration.templates[t].inputs[i].package : i \in Imports(integration.templates[t])} :
             t \in DOMAIN integration.templates}
Streams(integration) ==
    UNION {{<<d, s>> : s \in {i \in DOMAIN integration.streams[d] :
                                integration.streams[d][i].package # Own}} :
             d \in DOMAIN integration.streams}
Stream(integration, s) == integration.streams[s[1]][s[2]]

Buildable(integration, packages) ==
    /\ integration.requires \subseteq DOMAIN packages
    /\ \A name \in integration.requires : packages[name].templates # <<>>
    /\ Imported(integration) \subseteq integration.requires
    /\ \A s \in Streams(integration) :
         /\ Stream(integration, s).package \in Imported(integration)
         /\ ~DuplicateVars(Stream(integration, s), packages[Stream(integration, s).package])

\* An input gets a name when its package is qualified; without variables in the package, it
\* keeps what it declares.
ResolveInput(integration, packages, template, input) ==
    IF input.package = Own THEN input
    ELSE [type |-> Type(packages[input.package]),
          name |-> InputRef(integration, packages, input.package),
          vars |-> IF Vars(packages[input.package]) = <<>> THEN input.vars
                   ELSE ToSet(InputVars(integration, template, input, packages[input.package]))]

ResolveStream(integration, packages, d, stream) ==
    IF stream.package = Own THEN stream
    ELSE [input |-> InputRef(integration, packages, stream.package),
          vars |-> StreamVars(integration, stream, d, packages[stream.package]),
          paths |-> TemplatePaths(stream, packages[stream.package])]

\* The built integration.  Packages and integrations without requirements are left alone.
Bundle(integration, packages) ==
    IF integration.requires = {} THEN integration
    ELSE IF ~Buildable(integration, packages) THEN Failed
    ELSE [templates |-> [t \in DOMAIN integration.templates |->
                           LET template == integration.templates[t]
                           IN  [i \in DOMAIN template.inputs |->
                                  ResolveInput(integration, packages, template, template.inputs[i])]],
          streams |-> [d \in DOMAIN integration.streams |->
                         [s \in DOMAIN integration.streams[d] |->
                            ResolveStream(integration, packages, d, integration.streams[d][s])]],
          fields |-> [d \in DOMAIN integration.streams |->
                        FieldsOf(integration, packages, d)]]
-------------------------------------------------------------------------------
\* What the promises below assume of an integration: its policy templates all list their data
\* streams or none does, and no two of them import one package into one data stream.
OneScope(integration) ==
    LET templates == integration.templates
    IN  \/ Len(templates) = 1 /\ templates[1].streams = {}
        \/ /\ \A t \in DOMAIN templates : templates[t].streams # {}
           /\ \A t, u \in DOMAIN templates : t # u => templates[t].streams \cap templates[u].streams = {}

ImportsOnce(integration) ==
    \A t \in DOMAIN integration.templates :
       LET template == integration.templates[t]
       IN  \A i, j \in Imports(template) : template.inputs[i].package = template.inputs[j].package => i = j

Covers(template, d) == template.streams = {} \/ d \in template.streams

\* Every variable of an input package stays configurable, in one place: on the input of the
\* policy template that covers the data stream when that promotes it, and otherwise on the
\* stream.  The dataset of a stream is the integration's: it is there only when declared.
VariablesHavePlace(integration, packages, result) ==
    \A s \in Streams(integration) : \A t \in DOMAIN integration.templates :
       LET stream == Stream(integration, s)
           template == integration.templates[t]
           declared == ToSet(Vars(packages[stream.package]))
           onStream == result.streams[s[1]][s[2]].vars
       IN  Covers(template, s[1]) =>
             \A i \in {j \in Imports(template) : template.inputs[j].package = stream.package} :
                LET onInput == result.templates[t][i].vars
                IN  /\ declared # {} => onInput = template.inputs[i].vars \cap declared
                    /\ (declared \ {Dataset}) \subseteq (onInput \cup ToSet(onStream))
                    /\ onInput \cap ToSet(onStream) \subseteq {Dataset} \cup
                                                              (ToSet(stream.vars) \ declared)
                    /\ Cardinality(ToSet(onStream)) = Len(onStream)
                    /\ Dataset \in ToSet(onStream) => Dataset \in ToSet(stream.vars)

\* Fleet finds the input of every stream: the names of the imported inputs of a policy template
\* differ, and a stream refers to the one of its package in every template that covers it.
StreamsFindInputs(integration, packages, result) ==
    \A t \in DOMAIN integration.templates :
       LET template == integration.templates[t]
       IN  /\ \A i, j \in Imports(template) :
                result.templates[t][i].name = result.templates[t][j].name => i = j
           /\ \A s \in Streams(integration) : \A i \in Imports(template) :
                template.inputs[i].package = Stream(integration, s).package =>
                   result.streams[s[1]][s[2]].input = result.templates[t][i].name

\* The integration's own templates stay last and its own fields first, and no field of a data
\* stream is defined twice by what is bundled.
OwnTakesPrecedence(integration, packages, result) ==
    /\ \A s \in Streams(integration) :
         IsSuffix(Stream(integration, s).paths, result.streams[s[1]][s[2]].paths)
    /\ \A d \in DOMAIN integration.streams :
         /\ IsPrefix(integration.fields[d], result.fields[d])
         /\ Cardinality(ToSet(integration.fields[d])) = Len(integration.fields[d]) =>
              Cardinality(ToSet(result.fields[d])) = Len(result.fields[d])
===============================================================================
