------------------------------ MODULE JsonPath ------------------------------
(***************************************************************************)
(* JSONPath expressions, evaluated: by matchesJsonPath (Exists), by a      *)
(* response template that has been compiled (FirstValue), and by one that  *)
(* has not (the first of Values).                                          *)
(*                                                                         *)
(* A Go map is ranged over in any order, anew at every range.  What an     *)
(* evaluator returns is therefore given as the set of its outcomes.        *)
(***************************************************************************)
EXTENDS Integers, Sequences, FiniteSets
LOCAL INSTANCE SequencesExt

\* JSON values as ParseJSON leaves them, each tagged with its kind.  A number
\* is kept as it is spelled, with or without a point or an exponent.
Null == <<"null">>
String(s) == <<"string", s>>
Whole(n) == <<"whole", n>>
Decimal(n) == <<"decimal", n>>
Array(items) == <<"array", items>>
Object(fields) == <<"object", fields>>

IsArray(v) == v[1] = "array"
IsObject(v) == v[1] = "object"

\* The tokens of a path, and a filter: [?(@<path> == expected)], or with
\* .size() after the path.  Without a path it compares the candidate itself.
Field(f) == <<"field", f>>
Index(i) == <<"index", i>>
Wildcard == <<"wildcard">>
Filter(path, sizeCheck, expected) == [path |-> path, sizeCheck |-> sizeCheck, expected |-> expected]

\* filter is <<>>, or holds one.
JSONPath(path, filter) == [path |-> path, filter |-> filter]

-----------------------------------------------------------------------------
\* The values of an object, in the orders a range may give them.
Ranges(fields) == {[i \in DOMAIN keys |-> fields[keys[i]]] : keys \in SetToSeqs(DOMAIN fields)}

\* What one token leads to from one node: a set of possible sequences.
Children(node, token) ==
    CASE token[1] = "field" /\ IsObject(node) ->
           {IF token[2] \in DOMAIN node[2] THEN <<node[2][token[2]]>> ELSE <<>>}
      [] token[1] = "index" /\ IsArray(node) ->
           {IF 0 <= token[2] /\ token[2] < Len(node[2]) THEN <<node[2][token[2] + 1]>> ELSE <<>>}
      [] token[1] = "wildcard" /\ IsArray(node) -> {node[2]}
      [] token[1] = "wildcard" /\ IsObject(node) -> Ranges(node[2])
      [] OTHER -> {<<>>}

RECURSIVE evalToken(_, _), evalPath(_, _)

\* The next level: the children of all nodes, one node after the other.
evalToken(nodes, token) ==
    IF nodes = <<>> THEN {<<>>}
    ELSE {first \o rest : first \in Children(Head(nodes), token), rest \in evalToken(Tail(nodes), token)}

evalPath(nodes, path) ==
    IF path = <<>> THEN {nodes}
    ELSE UNION {evalPath(next, Tail(path)) : next \in evalToken(nodes, Head(path))}

RECURSIVE firstPathValue(_, _)

\* The first child at every token, and no way back when it leads nowhere:
\* <<>>, or the value in a sequence.
firstPathValue(root, path) ==
    IF path = <<>> THEN {<<root>>}
    ELSE UNION {IF children = <<>> THEN {<<>>} ELSE firstPathValue(children[1], Tail(path)) :
                    children \in Children(root, Head(path))}

-----------------------------------------------------------------------------
filterCandidates(node) == IF IsArray(node) THEN node[2] ELSE <<node>>

\* Strings, arrays and objects have a size.
valueSize(value) ==
    CASE value[1] = "array" -> Len(value[2])
      [] value[1] = "object" -> Cardinality(DOMAIN value[2])
      [] value[1] = "string" -> Len(value[2])
      [] OTHER -> -1

\* compareValues: numbers of different spelling differ, whatever their value.
compareValues(left, right) == left = right

\* filter.matches: only the first value its path leads to is compared.
FilterMatches(filter, candidate) ==
    {IF values = <<>> THEN FALSE
     ELSE IF filter.sizeCheck
     THEN valueSize(values[1]) >= 0 /\ compareValues(Whole(valueSize(values[1])), filter.expected)
     ELSE compareValues(values[1], filter.expected) : values \in evalPath(<<candidate>>, filter.path)}

\* The candidates of some nodes, in order.
Candidates(nodes) == FlattenSeq([i \in DOMAIN nodes |-> filterCandidates(nodes[i])])

\* Those among them the filter may match together.
RECURSIVE Filtered(_, _)
Filtered(filter, candidates) ==
    IF candidates = <<>> THEN {<<>>}
    ELSE {IF matches THEN <<Head(candidates)>> \o rest ELSE rest :
            matches \in FilterMatches(filter, Head(candidates)), rest \in Filtered(filter, Tail(candidates))}

\* JSONPath.Exists, which stops at the first match.
Exists(p, root) ==
    UNION {IF p.filter = <<>> THEN {nodes # <<>>}
           ELSE {kept # <<>> : kept \in Filtered(p.filter[1], Candidates(nodes))} :
               nodes \in evalPath(<<root>>, p.path)}

\* Seeded bug: the filter applies to an array as it does to any value.
ValuesOfNodes(p, root) ==
    UNION {IF p.filter = <<>> THEN {nodes} ELSE Filtered(p.filter[1], nodes) :
               nodes \in evalPath(<<root>>, p.path)}

\* JSONPath.Values
Values(p, root) ==
    UNION {IF p.filter = <<>> THEN {nodes} ELSE Filtered(p.filter[1], Candidates(nodes)) :
               nodes \in evalPath(<<root>>, p.path)}

First(values) == IF values = <<>> THEN <<>> ELSE <<values[1]>>

\* JSONPath.FirstValue
FirstValue(p, root) ==
    IF p.filter = <<>>
    THEN firstPathValue(root, p.path)
    ELSE {First(values) : values \in Values(p, root)}

-----------------------------------------------------------------------------
(* A body: what ParseJSON makes of it, which stops after the first value,  *)
(* or nothing when that is no JSON (<<>>).                                 *)

\* BodyPattern.Matches of matchesJsonPath, which may ask for absence.
MatchesJSONPath(p, absent, body) ==
    IF body = <<>> THEN {FALSE}
    ELSE {IF absent THEN ~ exists ELSE exists : exists \in Exists(p, body[1])}

\* A template is a sequence of literals, helpers, and helpers with an
\* expression that does not compile.
Literal == [helper |-> FALSE]
Helper(p) == [helper |-> TRUE, expression |-> <<p>>]
BadHelper == [helper |-> TRUE, expression |-> <<>>]

\* compileResponseTemplate: one expression that does not compile is enough to
\* leave the whole template uncompiled.
Compiles(template) ==
    /\ \E i \in DOMAIN template : template[i].helper
    /\ \A i \in DOMAIN template : template[i].helper => template[i].expression # <<>>

\* What a helper of an uncompiled template puts in its place: <<>> for nothing.
jsonPathValue(segment, body) ==
    IF segment.expression = <<>> \/ body = <<>> THEN {<<>>}
    ELSE {First(values) : values \in Values(segment.expression[1], body[1])}

\* What a segment of a template becomes.
Segment(template, i, body) ==
    IF ~ template[i].helper THEN {IF Compiles(template) /\ body = <<>> THEN <<>> ELSE <<"literal">>}
    ELSE IF ~ Compiles(template) THEN jsonPathValue(template[i], body)
    ELSE IF body = <<>> THEN {<<>>}
    ELSE FirstValue(template[i].expression[1], body[1])

\* Renderer.Render of a template: an outcome for each segment.  A compiled
\* template becomes nothing at all when the body is no JSON.
Render(template, body) == [i \in DOMAIN template |-> Segment(template, i, body)]

-----------------------------------------------------------------------------
(* What a path denotes, said without evaluating it: the locations in a     *)
(* document that agree with it token by token.                             *)

Steps(v) ==
    CASE IsArray(v) -> {Index(i - 1) : i \in DOMAIN v[2]}
      [] IsObject(v) -> {Field(f) : f \in DOMAIN v[2]}
      [] OTHER -> {}

Child(v, step) == IF IsArray(v) THEN v[2][step[2] + 1] ELSE v[2][step[2]]

RECURSIVE Locations(_), ValueAt(_, _)
Locations(v) == {<<>>} \cup UNION {{<<s>> \o l : l \in Locations(Child(v, s))} : s \in Steps(v)}
ValueAt(v, location) ==
    IF location = <<>> THEN v ELSE ValueAt(Child(v, Head(location)), Tail(location))

Denoted(path, root) ==
    {l \in Locations(root) :
        Len(l) = Len(path) /\ \A i \in DOMAIN path : path[i] \in {Wildcard, l[i]}}

\* The locations a filter chooses from, and those that satisfy it somewhere.
CandidateLocations(path, root) ==
    UNION {IF IsArray(ValueAt(root, l))
           THEN {l \o <<s>> : s \in Steps(ValueAt(root, l))} ELSE {l} : l \in Denoted(path, root)}

Satisfies(filter, v) ==
    \E l \in Denoted(filter.path, v) :
        LET w == ValueAt(v, l)
        IN IF filter.sizeCheck
           THEN valueSize(w) >= 0 /\ Whole(valueSize(w)) = filter.expected
           ELSE w = filter.expected

Selected(p, root) ==
    IF p.filter = <<>> THEN Denoted(p.path, root)
    ELSE {l \in CandidateLocations(p.path, root) : Satisfies(p.filter[1], ValueAt(root, l))}

\* A wildcard in the path of a filter leads to one value, which need not be the
\* one that satisfies it.
Certain(p) == p.filter = <<>> \/ ~ Contains(p.filter[1].path, Wildcard)

\* The evaluators agree about an expression and a document, whatever the order
\* in which objects are ranged over.  Whether it matches is whether it selects
\* a value; asking for absence is the opposite; its values are those it
\* selects, each once; and a template shows one of them: the first of them,
\* compiled or not, unless a wildcard has led the compiled one astray, which
\* may then show nothing.
EvaluatorsAgreeOn(p, root) ==
    LET selected == Selected(p, root)
        shown == Render(<<Helper(p)>>, <<root>>)[1]
        shownUncompiled == Render(<<Helper(p), BadHelper>>, <<root>>)[1]
    IN /\ TRUE \in MatchesJSONPath(p, FALSE, <<root>>) => selected # {}
       /\ MatchesJSONPath(p, TRUE, <<root>>) = {~ m : m \in MatchesJSONPath(p, FALSE, <<root>>)}
       /\ Certain(p) =>
            /\ MatchesJSONPath(p, FALSE, <<root>>) = {selected # {}}
            /\ \A values \in Values(p, root) :
                 /\ Len(values) = Cardinality(selected)
                 /\ ToSet(values) = {ValueAt(root, l) : l \in selected}
       /\ \A v \in shown \cup shownUncompiled :
            v # <<>> => \E l \in selected : v = <<ValueAt(root, l)>>
       /\ p.filter # <<>> \/ ~ Contains(p.path, Wildcard) => shown = shownUncompiled
=============================================================================
