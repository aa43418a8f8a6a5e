---------------------------- MODULE PolicyNormalize ----------------------------
(***************************************************************************)
(* How policy tests make the identifiers of OpenTelemetry components in    *)
(* two policies comparable.  A policy maps each section to a set of        *)
(* components [type, id, value, refs]: `value' ranks the part of the       *)
(* component's JSON text that sorts before any reference, and `refs' are   *)
(* the keys of other components that it names, [type, id].                 *)
(***************************************************************************)
EXTENDS Naturals, FiniteSets, Sequences

CONSTANTS
    Bare,    \* the identifier of a key without one, smaller than all others
    Forward  \* the type of the connector that Fleet adds

\* The sections that hold components, in the order in which they are renamed.
Sections == <<"extensions", "receivers", "processors", "connectors", "exporters", "pipelines">>

KeyOf(component) == [type |-> component.type, id |-> component.id]
Keys(policy, section) == {KeyOf(c) : c \in policy[section]}
-------------------------------------------------------------------------------
\* Bare keys of extensions, of pipelines and of the forward connector take part in the renaming,
\* as if their identifier was `_bare'; other bare keys stay what they are.
IsVariable(section, key) ==
    \/ key.id # Bare
    \/ section \in {"extensions", "pipelines"}
    \/ section = "connectors" /\ key.type = Forward

\* Mutant: the key decides before the value does.
KeyFirst(a, b) == a.id < b.id

\* The order of the texts of two components, and of their keys when the texts are the same.
Before(a, b) ==
    \/ a.value < b.value
    \/ /\ a.value = b.value
       /\ \/ \E i \in DOMAIN a.refs \cap DOMAIN b.refs :
               /\ \A j \in 1..(i - 1) : a.refs[j] = b.refs[j]
               /\ a.refs[i].id < b.refs[i].id
          \/ a.refs = b.refs /\ a.id < b.id

\* What a section calls its components: the type, and the position in that order.
NewKey(policy, section, component) ==
    [type |-> component.type,
     position |-> Cardinality({c \in policy[section] :
                                 IsVariable(section, KeyOf(c)) /\ Before(c, component)})]

\* The sections that rename a key.  All of them write to one table, so the last one counts.
Renaming(policy, key) ==
    {i \in DOMAIN Sections : IsVariable(Sections[i], key) /\ key \in Keys(policy, Sections[i])}

Renamed(policy, key) ==
    IF Renaming(policy, key) = {} THEN key
    ELSE LET section == Sections[CHOOSE i \in Renaming(policy, key) :
                                   \A j \in Renaming(policy, key) : j <= i]
         IN  NewKey(policy, section, CHOOSE c \in policy[section] : KeyOf(c) = key)

\* An extension may be named without its identifier where there is one of its type.
OfType(policy, type) == {c \in policy.extensions : c.type = type}
NamesExtension(policy, key) == key.id = Bare /\ Cardinality(OfType(policy, key.type)) = 1

\* A reference: to an extension by its type, to the connector of a pipeline, or by its key.
Resolved(policy, section, key) ==
    IF section # "pipelines" /\ NamesExtension(policy, key)
    THEN Renamed(policy, KeyOf(CHOOSE c \in OfType(policy, key.type) : TRUE))
    ELSE Renamed(policy, key)

Normalize(policy) ==
    [section \in DOMAIN policy |->
       {[key |-> Renamed(policy, KeyOf(c)), value |-> c.value,
         refs |-> [i \in DOMAIN c.refs |-> Resolved(policy, section, c.refs[i])]] :
          c \in policy[section]}]
-------------------------------------------------------------------------------
\* What the promises assume: no identifier in two places, and components of a section whose
\* texts differ before the first identifier in them.
Distinct(policy) ==
    \A s, t \in DOMAIN policy : \A c \in policy[s] : \A d \in policy[t] :
       /\ s # t => KeyOf(c) # KeyOf(d)
       /\ s = t /\ c.value = d.value => c = d

\* Two policies that differ in their identifiers only, bare or not, are the same policy: Fleet
\* makes up new ones whenever it creates a policy, and older versions of it made up none.
SamePolicy(policy, other) ==
    Distinct(policy) /\ Distinct(other) => Normalize(policy) = Normalize(other)

\* A policy is not compared with less than it contains, and its references still lead to the
\* components that they led to.
NothingIsDropped(policy) ==
    Distinct(policy) =>
       \A s \in DOMAIN policy :
          /\ Cardinality(Normalize(policy)[s]) = Cardinality(policy[s])
          /\ Cardinality({c.key : c \in Normalize(policy)[s]}) = Cardinality(policy[s])
          /\ \A c \in policy[s] : \A i \in DOMAIN c.refs :
               \A t \in DOMAIN policy : \A d \in policy[t] :
                  KeyOf(d) = c.refs[i] =>
                     \E n \in Normalize(policy)[t] :
                        n.key = Resolved(policy, s, c.refs[i]) /\ n.value = d.value
===============================================================================
