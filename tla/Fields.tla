--------------------------------- MODULE Fields ---------------------------------
(***************************************************************************)
(* What a package defines of its fields, and what its documents and the    *)
(* mappings of its data streams are checked against.  A schema is the      *)
(* sequence of definitions that a search meets: a definition comes before  *)
(* its own fields and multi-fields, the package's before those of ECS.     *)
(* Names are paths, sequences of segments, where a definition may have a   *)
(* wildcard.  A document is a tree of [kind |-> "map", of |-> members],    *)
(* [kind |-> "array", of |-> elements] and leaves; the name of a member    *)
(* may itself be a path, as documents without subobjects have them.        *)
(***************************************************************************)
EXTENDS Naturals, FiniteSets, SequencesExt

\* Versions of the package specification that the checks tell apart: before 2.0.0, before
\* 3.0.1, and since then.
Versions == 1..3

Wildcard == "*"
Undefined == [path |-> <<>>]
Objects == {"group", "object", "nested"}
Numbers == {"float", "long", "double"}
Skipped == {"agent", "elastic_agent", "cloud", "event", "host", "metricset"}

Definition(path, type) ==
    [path |-> path, type |-> type, object |-> "", external |-> FALSE, enabled |-> TRUE,
     array |-> FALSE, strict |-> FALSE]
-------------------------------------------------------------------------------
\* Finding a definition.
Matches(pattern, key) ==
    Len(pattern) = Len(key) /\ \A i \in DOMAIN key : pattern[i] \in {Wildcard, key[i]}

\* Parts that documents have of values of some types; an unresolved external field may be any.
SubFields(definition) ==
    LET type == IF definition.type = "object" /\ definition.object # ""
                THEN definition.object ELSE definition.type
    IN  CASE type = "geo_point" -> {"lat", "lon"}
          [] type = "histogram" -> {"values", "counts"}
          [] OTHER -> IF definition.external THEN {"lat", "lon", "values", "counts"} ELSE {}

CompareKeys(definition, key) ==
    \/ Matches(definition.path, key)
    \/ Len(key) > 1 /\ Matches(definition.path, Front(key)) /\ Last(key) \in SubFields(definition)

\* The first definition that matches; otherwise a member of an object has its type.
RECURSIVE FindElementDefinition(_, _)
FindElementDefinition(key, schema) ==
    LET found == SelectSeq(schema, LAMBDA definition : CompareKeys(definition, key))
        parent == IF Len(key) > 1 THEN FindElementDefinition(Front(key), schema) ELSE Undefined
    IN  IF found # <<>> THEN found[1]
        ELSE IF parent # Undefined /\ parent.type = "object" /\ parent.object # ""
             THEN [parent EXCEPT !.path = key, !.type = parent.object, !.object = ""]
             ELSE Undefined

Parent(key, schema) ==
    IF Len(key) > 1 THEN FindElementDefinition(Front(key), schema) ELSE Undefined

\* The definitions of what a key is in, from `beyond' segments on.
Ancestors(key, beyond, schema) ==
    {FindElementDefinition(SubSeq(key, 1, n), schema) : n \in beyond..(Len(key) - 1)} \ {Undefined}

\* What a package says of an external field is added to what ECS says, but for most types.
AllowedOverride ==
    {<<"keyword", "constant_keyword">>, <<"constant_keyword", "keyword">>,
     <<"object", "group">>, <<"object", "nested">>}

Import(definition, ecs) ==
    LET imported == FindElementDefinition(definition.path, ecs)
    IN  [imported EXCEPT !.path = definition.path, !.external = FALSE,
                         !.enabled = definition.enabled,
                         !.strict = @ \/ definition.strict,
                         !.type = IF <<imported.type, definition.type>> \in AllowedOverride
                                  THEN definition.type ELSE imported.type]

CanImport(package, ecs) ==
    \A i \in DOMAIN package :
       package[i].external => FindElementDefinition(package[i].path, ecs) # Undefined

\* The schema of a validator: the package's fields, and all of ECS where the package embeds its
\* mappings or every stack that it supports has them.
Schema(package, ecs, importAll) ==
    [i \in DOMAIN package |-> IF package[i].external THEN Import(package[i], ecs) ELSE package[i]]
       \o (IF importAll THEN ecs ELSE <<>>)
-------------------------------------------------------------------------------
SkipValidation(key) == key[1] \in Skipped
IsFlattened(key, schema) ==
    LET found == FindElementDefinition(key, schema)
    IN  found # Undefined /\ found.type = "flattened"
IsFlattenedSubfield(key, schema) == \E a \in Ancestors(key, 1, schema) : a.type = "flattened"
CouldBeMultifield(key, schema) ==
    LET parent == Parent(key, schema)
    IN  parent # Undefined /\ parent.type \notin Objects \cup {""}
IsParentEnabled(key, schema) ==
    LET parent == Parent(key, schema) IN parent # Undefined => parent.enabled
-------------------------------------------------------------------------------
\* Checking a document with the validator v, [schema, version, normalized, numericKeyword,
\* stringNumber, otel, datasets].  An error is the key it is about.
Kind(value) == value.kind
IsArrayOfObjects(value) ==
    Kind(value) = "array" /\ \E i \in DOMAIN value.of : Kind(value.of[i]) = "map"

\* Before 3.0.1, members that are written with their path are not checked below an object.
SkipLeafOfObject(v, root, name) ==
    /\ v.version < 3
    /\ Len(name) > 1
    /\ \E a \in Ancestors(root \o name, IF root = <<>> THEN 1 ELSE Len(root), v.schema) :
         a.type \in Objects \cup {"flattened"}

\* An odd string is one that a pattern, a constant or a list of values does not admit.
Admits(definition, kind) == kind = "odd" => ~definition.strict

AcceptsScalar(v, definition, kind) ==
    CASE definition.type \in {"keyword", "constant_keyword", "text"} ->
           \/ kind \in {"string", "odd", "digits"} /\ Admits(definition, kind)
           \/ kind \in {"number", "bool"} /\ v.numericKeyword /\ ~definition.strict
      [] definition.type = "date" ->
           \/ kind \in {"string", "odd", "digits"} /\ Admits(definition, kind)
           \/ kind = "number" /\ ~definition.strict
      [] definition.type = "ip" -> kind \in {"string", "odd", "digits"} /\ Admits(definition, kind)
      [] definition.type \in Numbers -> kind = "number" \/ (kind = "digits" /\ v.stringNumber)
      [] OTHER -> TRUE

RECURSIVE ValidateMap(_, _, _)
RECURSIVE ParseElement(_, _, _, _)

\* A value, or an element of an array.  An element that is an object is checked like the
\* document; the leaf of an object has the object's type, and an object without one has any.
ParseSingle(v, key, definition, value) ==
    IF definition.type \notin Objects
    THEN IF AcceptsScalar(v, definition, Kind(value)) THEN {} ELSE {key}
    ELSE CASE Kind(value) = "map" -> IF v.version < 3 THEN {} ELSE ValidateMap(v, key, value)
           [] Kind(value) = "array" ->
                IF v.version < 3 THEN {} ELSE ParseElement(v, key, definition, value)
           [] Kind(value) = "null" -> {}
           [] OTHER ->
                IF definition.type # "object" THEN {key}
                ELSE IF definition.object = "" THEN {}
                ELSE ParseElement(v, key, [definition EXCEPT !.type = definition.object,
                                                             !.object = ""], value)

ParseElement(v, key, definition, value) ==
    IF Kind(value) = "array"
    THEN UNION {ParseSingle(v, key, definition, value.of[i]) : i \in DOMAIN value.of}
    ELSE ParseSingle(v, key, definition, value)

\* Fields to be normalized are arrays, where documents are not changed by synthetic source.
Normalized(v, definition, value) ==
    v.normalized /\ v.version > 1 /\ definition.array => Kind(value) \in {"array", "null"}

\* A field without a definition is right where nothing is known of it or all is allowed.
ValidateScalar(v, key, value) ==
    LET definition == FindElementDefinition(key, v.schema)
    IN  IF definition = Undefined
        THEN IF \/ SkipValidation(key)
                \/ IsFlattenedSubfield(key, v.schema)
                \/ /\ ~IsArrayOfObjects(value)
                   /\ ~CouldBeMultifield(key, v.schema)
                   /\ ~IsParentEnabled(key, v.schema)
             THEN {} ELSE {key}
        ELSE IF ~Normalized(v, definition, value) THEN {key}
        ELSE ParseElement(v, key, definition, value)

\* Mutant: members of an object are skipped in every version.
ValidateMemberAsBefore(v, root, name, value) ==
    LET key == root \o name
    IN  IF Kind(value) = "map"
        THEN IF IsFlattened(key, v.schema) THEN {} ELSE ValidateMap(v, key, value)
        ELSE IF SkipLeafOfObject([v EXCEPT !.version = 1], root, name) THEN {}
        ELSE ValidateScalar(v, key, value)

\* Objects are walked through, unless they are one field.
ValidateMember(v, root, name, value) ==
    LET key == root \o name
    IN  IF Kind(value) = "map"
        THEN IF IsFlattened(key, v.schema) THEN {} ELSE ValidateMap(v, key, value)
        ELSE IF SkipLeafOfObject(v, root, name) THEN {}
        ELSE ValidateScalar(v, key, value)

ValidateMap(v, root, map) ==
    UNION {ValidateMember(v, root, name, map.of[name]) : name \in DOMAIN map.of}

\* Datasets, where a document has one, are among those expected; the rest of an OpenTelemetry
\* document is not checked.
DatasetFields == {<<"event", "dataset">>, <<"data_stream", "dataset">>}
ValidateDatasets(v, dataset) ==
    IF v.version > 1 /\ dataset # "" /\ v.datasets # {} /\ dataset \notin v.datasets
    THEN DatasetFields ELSE {}

ValidateDocument(v, document, dataset) ==
    ValidateDatasets(v, dataset) \cup (IF v.otel THEN {} ELSE ValidateMap(v, <<>>, document))
-------------------------------------------------------------------------------
\* What checking a document passes over, and checking the mappings then has to pass over too.
RECURSIVE ExceptionsOf(_, _, _)
Elements(value) == IF Kind(value) = "array" THEN value.of ELSE <<value>>
ParseException(v, key, definition, value) ==
    LET object == \/ Kind(value) \in {"map", "array"} /\ v.version < 3
                  \/ Kind(value) = "null"
                  \/ /\ Kind(value) \notin {"map", "array"}
                     /\ definition.type = "object" /\ definition.object \in {"", "object"}
    IN  IF IF definition.type = "array" THEN v.version = 1
           ELSE definition.type \in Objects /\ object
        THEN {key} ELSE {}

\* Mutant: a member that is not checked is not reported either.
ExceptionOfChecked(v, root, name, value) ==
    LET key == root \o name
        definition == FindElementDefinition(key, v.schema)
    IN  IF Kind(value) = "map"
        THEN IF IsFlattened(key, v.schema) THEN {} ELSE ExceptionsOf(v, key, value)
        ELSE IF SkipLeafOfObject(v, root, name) \/ definition = Undefined THEN {}
        ELSE UNION {ParseException(v, key, definition, Elements(value)[i]) : i \in DOMAIN Elements(value)}

ExceptionOf(v, root, name, value) ==
    LET key == root \o name
        definition == FindElementDefinition(key, v.schema)
    IN  IF Kind(value) = "map"
        THEN IF IsFlattened(key, v.schema) THEN {} ELSE ExceptionsOf(v, key, value)
        ELSE IF SkipLeafOfObject(v, root, name) THEN {key}
        ELSE IF definition = Undefined THEN {}
        ELSE UNION {ParseException(v, key, definition, Elements(value)[i]) : i \in DOMAIN Elements(value)}

ExceptionsOf(v, root, map) ==
    UNION {ExceptionOf(v, root, name, map.of[name]) : name \in DOMAIN map.of}

ListExceptionFields(v, document) == ExceptionsOf(v, <<>>, document)
-------------------------------------------------------------------------------
\* The sample event of a data stream whose source is synthetic.  Its documents are read as
\* fields: every name is a path, every value is an array, and multi-fields are there too.
ShouldBeArray(v, key) ==
    LET definition == FindElementDefinition(key, v.schema)
    IN  definition # Undefined /\ v.version > 1 /\ definition.array

\* Mutant: every array of one element is unwrapped.
UnwrapAll(v, key, value) ==
    IF Kind(value) = "array" /\ Len(value.of) = 1 THEN value.of[1] ELSE value

\* An array of one element is that element, unless the field is always an array.
Unwrap(v, key, value) ==
    IF Kind(value) = "array" /\ Len(value.of) = 1 /\ ~ShouldBeArray(v, key)
    THEN value.of[1] ELSE value

\* Names become objects.  What is below a name that has a value is a multi-field and left out.
RECURSIVE ExpandObjects(_)
ExpandObjects(fields) ==
    LET Below(head) == {Tail(name) : name \in {n \in DOMAIN fields : n[1] = head /\ Len(n) > 1}}
        Expanded(head) == ExpandObjects([name \in Below(head) |-> fields[<<head>> \o name]])
    IN  [kind |-> "map", of |->
           [name \in {<<n[1]>> : n \in DOMAIN fields} |->
              IF name \notin DOMAIN fields THEN Expanded(name[1])
              ELSE IF Kind(fields[name]) # "map" THEN fields[name]
              ELSE [fields[name] EXCEPT !.of = Expanded(name[1]).of @@ @]]]

SanitizeSyntheticSourceDoc(v, document) ==
    ExpandObjects([key \in DOMAIN document.of |-> Unwrap(v, key, document.of[key])])
-------------------------------------------------------------------------------
\* Checking the mappings of a data stream against those of its index template.  A mapping is
\* [type, value, dynamic, props, fields], the last two functions from names to mappings; the
\* check is [templates, schema, exceptions], a dynamic template [path, mapping].
IsObject(mapping) == DOMAIN mapping.props # {}
IsMultiFields(mapping) == mapping.type # "" /\ DOMAIN mapping.fields # {}
IsFullyDynamic(mapping) == mapping.type = "object" /\ mapping.dynamic /\ ~IsObject(mapping)
IsEmptyObject(mapping) ==
    mapping.type = "object" /\ ~mapping.dynamic /\ ~IsObject(mapping) /\ DOMAIN mapping.fields = {}
SameType(a, b) == a = b \/ {a, b} \subseteq Numbers

RECURSIVE FlattenMappings(_, _)
FlattenMappings(path, mapping) ==
    IF IsMultiFields(mapping) \/ ~IsObject(mapping) THEN {<<path, mapping>>}
    ELSE UNION {FlattenMappings(Append(path, name), mapping.props[name]) : name \in DOMAIN mapping.props}

InECS(check, path, mapping) ==
    LET found == FindElementDefinition(path, check.schema)
    IN  found # Undefined /\ found.external /\ SameType(found.type, mapping.type)

ConstantIsRight(preview, actual) ==
    preview.type = "constant_keyword" /\ preview.value \in {"", actual.value}

RECURSIVE CompareMappings(_, _, _, _)

\* Paths of dynamic templates end in a wildcard, which stands for any number of segments.
PathMatches(pattern, path) ==
    Len(path) >= Len(pattern) /\ SubSeq(path, 1, Len(pattern) - 1) = Front(pattern)

MatchesTemplate(check, path, mapping) ==
    \E i \in DOMAIN check.templates :
       /\ PathMatches(check.templates[i].path, path)
       /\ CompareMappings([check EXCEPT !.templates = <<>>], path,
                          check.templates[i].mapping, mapping) = {}

\* What was added to the mappings while documents came in has a dynamic template or is in ECS.
NotInPreview(check, path, mapping) ==
    {f[1] : f \in {g \in FlattenMappings(path, mapping) :
                     /\ g[1] \notin check.exceptions
                     /\ ~IsEmptyObject(g[2])
                     /\ ~MatchesTemplate(check, g[1], g[2])
                     /\ ~InECS(check, g[1], g[2])}}

CompareProperties(check, path, preview, actual) ==
    UNION {LET key == Append(path, name)
           IN  IF SkipValidation(key) THEN {}
               ELSE IF name \in DOMAIN preview
                    THEN CompareMappings(check, key, preview[name], actual[name])
                    ELSE IF IsEmptyObject(actual[name]) THEN {}
                    ELSE NotInPreview(check, key, actual[name]) :
             name \in DOMAIN actual}

\* Mutant: a dynamic object may contain anything.
CompareDynamicObject(check, path, preview, actual) == {}

\* An object that is new in the mappings: below a dynamic object, or in a nested one.
CompareNewObject(check, path, preview, actual) ==
    IF IsFullyDynamic(preview) \/ (preview.type = "nested" /\ actual.type = "nested")
    THEN NotInPreview(check, path, actual) ELSE {path}

CompareMultiFields(check, path, preview, actual) ==
    IF ~IsMultiFields(actual) THEN {}
    ELSE IF ~IsMultiFields(preview) THEN {path}
    ELSE CompareProperties(check, path, preview.fields, actual.fields)

CompareMappings(check, path, preview, actual) ==
    IF actual.type = "constant_keyword" THEN (IF ConstantIsRight(preview, actual) THEN {} ELSE {path})
    ELSE IF path \in check.exceptions \/ IsFullyDynamic(actual) THEN {}
    ELSE IF IsObject(actual)
    THEN IF IsObject(preview) THEN CompareProperties(check, path, preview.props, actual.props)
         ELSE CompareNewObject(check, path, preview, actual)
    ELSE CompareMultiFields(check, path, preview, actual)
           \cup (IF SameType(preview.type, actual.type) THEN {} ELSE {path})
-------------------------------------------------------------------------------
\* What a document contains: the key and the kind of every leaf, in arrays too.
RECURSIVE Leaves(_, _)
Leaves(key, value) ==
    CASE Kind(value) = "map" -> UNION {Leaves(key \o name, value.of[name]) : name \in DOMAIN value.of}
      [] Kind(value) = "array" -> UNION {Leaves(key, value.of[i]) : i \in DOMAIN value.of}
      [] OTHER -> {<<key, Kind(value)>>}

\* The same document with every object written out in the names of its members.
Dotted(document) ==
    LET members[n \in 0..3] ==
          IF n = 0 THEN {<<<<>>, document>>}
          ELSE UNION {IF Kind(m[2]) = "map"
                      THEN {<<m[1] \o name, m[2].of[name]>> : name \in DOMAIN m[2].of}
                      ELSE {m} : m \in members[n - 1]}
        leaves == {m \in members[3] : Kind(m[2]) # "map"}
    IN  [kind |-> "map", of |-> [name \in {m[1] : m \in leaves} |->
                                   (CHOOSE m \in leaves : m[1] = name)[2]]]

\* No package leaves a field of its documents undefined: in every object, in arrays too, a leaf
\* of an accepted document is of a type that the package or ECS defines for its name, is in a
\* family that is never checked, or is below a field that takes anything.  Whatever older
\* versions of the specification let through besides is known as an exception.
AcceptedIsDefined(v, document) ==
    ValidateDocument(v, document, "") = {} /\ ~v.otel
    => \A leaf \in Leaves(<<>>, document) :
          LET key == leaf[1]
              before == {SubSeq(key, 1, n) : n \in 1..(Len(key) - 1)}
              defined == {v.schema[i] : i \in DOMAIN v.schema}
          IN  \/ SkipValidation(key)
              \/ \E d \in defined : /\ d.type = "flattened" \/ ~d.enabled
                                    /\ \E p \in before : CompareKeys(d, p)
              \/ \E d \in defined : /\ CompareKeys(d, key)
                                    /\ \/ AcceptsScalar(v, d, leaf[2])
                                       \/ leaf[2] = "null" /\ d.type \in Objects
              \/ \E d \in defined :
                    /\ d.type = "object" /\ d.object # "" /\ Len(key) > 1
                    /\ \E p \in {key, Front(key)} : CompareKeys(d, p)
                    /\ AcceptsScalar(v, [d EXCEPT !.type = d.object], leaf[2])
              \/ /\ v.version < 3
                 /\ \E p \in before \cup {key} : p \in ListExceptionFields(v, document)

\* Since 3.0.1 it makes no difference whether a document has objects or names with dots, as
\* it does when subobjects are disabled or its source is synthetic: as long as nothing is
\* defined inside of a flattened field, which objects hide and names do not.
FormDoesNotMatter(v, document) ==
    LET flattened == {i \in DOMAIN v.schema : v.schema[i].type = "flattened"}
    IN  /\ v.version = 3
        /\ \A i \in DOMAIN v.schema : \A f \in flattened :
              ~Matches(v.schema[f].path, SubSeq(v.schema[i].path, 1, Len(v.schema[f].path)))
                \/ i = f
        => ValidateDocument(v, document, "") = ValidateDocument(v, Dotted(document), "")

\* Since 3.0.1 a sample event that a system test writes of documents it accepts passes the
\* static test that checks it next, where fields have to be normalized again.  It is not so for
\* a value that is an object but not of an object field, a point, whose parts have other names
\* than the static test knows.
SampleIsAccepted(v, document, sample) ==
    LET Objectlike(key) == IsArrayOfObjects(document.of[key])
        Plain(key) == LET definition == FindElementDefinition(key, v.schema)
                      IN  definition # Undefined => definition.type \in Objects \cup {"flattened"}
    IN  /\ v.version = 3
        /\ ValidateDocument([v EXCEPT !.normalized = FALSE], document, "") = {}
        /\ \A key \in DOMAIN document.of : Objectlike(key) => Plain(key)
        => ValidateDocument([v EXCEPT !.normalized = TRUE], sample, "") = {}

\* The mapping that another one has at a path: in its properties, or in its fields at the end.
RECURSIVE At(_, _)
At(props, path) ==
    IF path[1] \notin DOMAIN props THEN {}
    ELSE IF Len(path) = 1 THEN {props[path[1]]}
    ELSE At(props[path[1]].props, Tail(path))

\* Every field that the mappings of a data stream have got is accounted for, in whatever object
\* it appeared: an accepted one is in the index template with the same type, or a number for
\* a number, or a dynamic template or ECS explains it.
MappingsAreExplained(check, preview, actual) ==
    CompareProperties(check, <<>>, preview, actual) = {} =>
       \A f \in UNION {FlattenMappings(<<name>>, actual[name]) : name \in DOMAIN actual} :
          \/ SkipValidation(f[1])
          \/ \E n \in DOMAIN f[1] : SubSeq(f[1], 1, n) \in check.exceptions
          \/ IsEmptyObject(f[2]) \/ IsFullyDynamic(f[2])
          \/ MatchesTemplate(check, f[1], f[2])
          \/ InECS(check, f[1], f[2])
          \/ \E p \in At(preview, f[1]) :
                /\ SameType(p.type, f[2].type)
                /\ f[2].type = "constant_keyword" => p.value \in {"", f[2].value}
                /\ \A name \in DOMAIN f[2].fields :
                      \/ name \in DOMAIN p.fields
                      \/ MatchesTemplate(check, Append(f[1], name), f[2].fields[name])
                      \/ InECS(check, Append(f[1], name), f[2].fields[name])
                      \/ Append(f[1], name) \in check.exceptions
                      \/ IsEmptyObject(f[2].fields[name])
===============================================================================
