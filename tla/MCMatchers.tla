----------------------------- MODULE MCMatchers -----------------------------
(***************************************************************************)
(* Inputs for the parts of VIMock that compute: a GraphQL stub and the     *)
(* request a client makes of its body by an edit; a JSONPath expression    *)
(* and a document; a mapping document and the id of the path it is sent to;*)
(* the times of a response and the length of its body.                     *)
(***************************************************************************)
EXTENDS GraphQLGrammar, JsonPath, MappingInputs, TLC
LOCAL INSTANCE SequencesExt

-----------------------------------------------------------------------------
(* GraphQL.                                                                *)

MCNames == {"query", "mutation", "subscription", "fragment", "on", "a", "b"}
MCBlockStrings == ("'''s'''" :> "'s'")

MCQueries ==
    {<<"{", "a", "}">>,
     <<"{", "a", "b", "a", "}">>,
     <<"{", "a", ":", "b", "(", "a", ":", "1", ",", "b", ":", "'s'", ")", "}">>,
     <<"{", "a", "(", "a", ":", "{", "a", ":", "1", "b", ":", "[", "1", "'''s'''", "]", "}", ")", "}">>,
     <<"{", "...", "on", "a", "{", "b", "}", "...", "b", "@", "a", "a", "@", "a", "@", "b", "}">>,
     <<"{", "a", "}", "query", "a", "{", "b", "}">>,
     <<"query", "a", "(", "$", "b", ":", "[", "a", "!", "]", "=", "1", "$", "a", ":", "b", ")", "{", "a", "}">>,
     <<"mutation", "(", ")", "@", "a", "(", "b", ":", "$", "a", ")", "{", "a", "{", "b", "}", "}">>,
     <<"fragment", "a", "on", "b", "@", "a", "{", "a", "(", ")", "}", "subscription", "{", "...", "a", "}">>}

GraphQLBody(query, variables, operationName) ==
    [query |-> query, variables |-> variables, operationName |-> operationName]

MCStubs ==
    {GraphQLBody(q, "v1", "A") : q \in MCQueries}
        \cup {GraphQLBody(<<"{", "a", "}">>, v, o) : v \in {"absent", "null", "quoted"}, o \in {"null", "empty"}}

\* One edit, and two of the shortest queries (MaxLength of them).
MaxLength == 5
MayEdit == input.edits = 0 \/ (input.edits = 1 /\ input.stub.variables = "v1" /\ Len(input.stub.query) <= MaxLength)

Edited(query) == input' = [input EXCEPT !.request.query = query, !.edits = @ + 1]

EditQuery ==
    LET q == input.request.query
    IN \/ \E i \in DOMAIN q : Edited(RemoveAt(q, i))
       \/ \E i \in DOMAIN q, l \in Lexemes : Edited(ReplaceAt(q, i, l))
       \/ \E i \in 1..(Len(q) + 1), l \in Lexemes : Edited(InsertAt(q, i, l))
       \/ \E i, j, k \in 1..Len(q) :
             /\ i <= j /\ j < k
             /\ Edited(SubSeq(q, 1, i - 1) \o SubSeq(q, j + 1, k) \o SubSeq(q, i, j) \o SubSeq(q, k + 1, Len(q)))

EditFields ==
    \E v \in {"absent", "null", "v1", "quoted", "v2", "text"}, o \in {"absent", "null", "empty", "A", "number"} :
        input' = [input EXCEPT !.request.variables = v, !.request.operationName = o, !.edits = @ + 1]

-----------------------------------------------------------------------------
(* JSONPath.                                                               *)

Leaves == {Null, Whole(1), Decimal(1), String("x")}
Flat(items) ==
    {Array(s) : s \in UNION {[1..n -> items] : n \in 0..2}}
        \cup UNION {{Object(f) : f \in [fields -> items]} : fields \in SUBSET {"a", "b"}}
MCRoots ==
    Leaves \cup Flat(Leaves)
        \cup {Object([a |-> v, b |-> w]) : v \in Flat({Null, Whole(1)}), w \in Flat({Whole(1)})}
        \cup {Array(<<v, w>>) : v \in Flat({Null, Whole(1)}), w \in Flat({Whole(1)})}

MCPaths ==
    UNION {[1..n -> {Field("a"), Field("b"), Index(-1), Index(0), Index(1), Wildcard}] : n \in 0..2}
MCFilters ==
    {<<>>} \cup {<<Filter(path, size, Whole(n))>> :
                    path \in {<<>>, <<Field("a")>>, <<Wildcard>>}, size \in BOOLEAN, n \in 1..2}

-----------------------------------------------------------------------------
(* Mapping documents: a plain one, and those that differ from it in fields *)
(* that are read together.                                                 *)

NoObject(kind) == [kind |-> kind]
UniformDelay(l, u) == [kind |-> "object", type |-> "uniform", lower |-> l, upper |-> u]
LogNormal(m, s) == [kind |-> "object", type |-> "lognormal", median |-> m, sigma |-> s]
Dribble(n, d) == [kind |-> "object", numberOfChunks |-> n, totalDuration |-> d]

PlainRequest == [f \in requestFields \cup {"kind"} |->
    CASE f = "kind" -> "object" [] f = "method" -> "get" [] f = "url" -> "/a" [] OTHER -> "absent"]
PlainResponse ==
    [kind |-> "object", status |-> "absent", jsonBody |-> "absent", base64Body |-> "absent",
     body |-> "text", bodyFileName |-> "absent", proxyBaseUrl |-> "absent",
     proxyUrlPrefixToRemove |-> "absent", transformers |-> "absent", headers |-> "absent",
     fixedDelay |-> "absent", delayDistribution |-> NoObject("absent"),
     chunkedDribbleDelay |-> NoObject("absent")]
PlainDocument ==
    [id |-> "absent", name |-> "absent", persistent |-> "absent", priority |-> "absent",
     scenarioName |-> "absent", requiredScenarioState |-> "absent", newScenarioState |-> "absent",
     metadata |-> "absent", request |-> PlainRequest, response |-> PlainResponse]

HeadDocuments ==
    {[PlainDocument EXCEPT !.id = i, !.name = n, !.priority = p, !.scenarioName = s,
                           !.requiredScenarioState = r, !.metadata = m] :
        i \in {"absent", "null", "", "u1", "wrong"}, n \in {"null", "n"}, p \in {"null", "1", "wrong"},
        s \in {"absent", "null", "s", "wrong"}, r \in {"absent", "Started"},
        m \in {"absent", "null", "m", "wrong"}}
RequestDocuments ==
    {[PlainDocument EXCEPT !.request.method = m, !.request.urlPattern = u, !.request.bodyPatterns = b,
                           !.request.kind = k] :
        m \in {"absent", "null", "GET", "wrong"}, u \in {"null", ".*", "invalid"},
        b \in {"null", "equalToJson", "invalid"}, k \in {"object", "null", "wrong"}}
BodyDocuments ==
    {[PlainDocument EXCEPT !.response.jsonBody = j, !.response.base64Body = c, !.response.body = b,
                           !.response.transformers = t, !.response.bodyFileName = f] :
        j \in {"absent", "null", "allCompile", "someCompile"},
        c \in {"absent", "null", "wrong", "notBase64", "text"},
        b \in {"absent", "null", "", "text", "wrong"} \cup Helpers,
        t \in {"null", "response-template", "other", "wrong"}, f \in {"absent", "f"}}
DelayDocuments ==
    {[PlainDocument EXCEPT !.response.status = s, !.response.fixedDelay = x,
                           !.response.delayDistribution = d, !.response.chunkedDribbleDelay = c] :
        s \in {"null", "404", "outOfRange", "wrong"}, x \in {"null", "2", "negative"},
        d \in {NoObject("null"), NoObject("wrong"), UniformDelay(1, 2), UniformDelay(1, 1), UniformDelay(2, 1),
               UniformDelay(-1, 1), LogNormal(1, 0), LogNormal(0, 1), LogNormal(1, -1)},
        c \in {NoObject("absent"), NoObject("wrong"), Dribble(1, 0), Dribble(0, 1), Dribble(1, -1)}}

MCDocuments == HeadDocuments \cup RequestDocuments \cup BodyDocuments \cup DelayDocuments

-----------------------------------------------------------------------------
(* Delays and totals around the greatest int and around the greatest       *)
(* Duration, with ints of eight bits and a millisecond of six nanoseconds: *)
(* 21 of them fit, 22 wrap around to a negative Duration, 43 to one too    *)
(* short.  Negative numbers are refused.                                   *)

Milliseconds == {-1, 0, 1, 2, 20, 21, 22, 43, 126, 127}
NoDelay == [fixed |-> 0, distribution |-> "none", lower |-> 0, upper |-> 0, chunks |-> 0, total |-> 0]

MCDefinitions ==
    {[NoDelay EXCEPT !.fixed = x, !.distribution = "uniform", !.lower = l, !.upper = u] :
        x \in Milliseconds, l \in Milliseconds, u \in Milliseconds}
        \cup {[NoDelay EXCEPT !.fixed = x, !.distribution = d] :
                x \in Milliseconds, d \in {"none", "lognormal"}}
        \cup {[NoDelay EXCEPT !.chunks = n, !.total = t] : n \in 1..5, t \in Milliseconds}

-----------------------------------------------------------------------------
Init ==
    \/ \E s \in MCStubs : input = [kind |-> "graphql", stub |-> s, request |-> s, edits |-> 0]
    \/ \E p \in MCPaths, f \in MCFilters, v \in MCRoots :
          input = [kind |-> "jsonpath", expression |-> JSONPath(p, f), root |-> v]
    \/ InputsInit

Next == input.kind = "graphql" /\ MayEdit /\ (EditQuery \/ EditFields)

Spec == Init /\ [][Next]_input

\* A request matches a stub of the graphql-body-matcher exactly if its query
\* means what the stub's does, with variables and operation name the same: the
\* canonical string forgets the order of fields, arguments and definitions, and
\* nothing else.
SameIffEquivalent ==
    input.kind = "graphql" =>
        LET s == input.stub
            r == input.request
        IN MatchesBody(s, r) <=>
              /\ Meanings(r.query) # {} /\ Meanings(s.query) = Meanings(r.query)
              /\ r.variables # "text" /\ normalize(s.variables) = normalize(r.variables)
              /\ r.operationName # "number" /\ normalize(s.operationName) = normalize(r.operationName)

\* The parser accepts the queries of the grammar and no others, each with one
\* meaning, and reads them to the end.
AcceptsGrammar ==
    input.kind = "graphql" =>
        LET parsed == parseDocument(input.request.query)
            meanings == Meanings(input.request.query)
        IN /\ parsed.ok <=> meanings # {}
           /\ parsed.ok => Cardinality(meanings) = 1 /\ parsed.pos = Len(tokenize(input.request.query)) + 1

\* Exists, Values and FirstValue agree about every expression and document.
EvaluatorsAgree == input.kind = "jsonpath" => EvaluatorsAgreeOn(input.expression, input.root)
=============================================================================
