--------------------------- MODULE MappingDocument ---------------------------
(***************************************************************************)
(* A mapping document: what POST and PUT accept, what stub it becomes, and *)
(* the document a stub is written as again (by GET, in the answers of POST *)
(* and PUT, and in recordings).                                            *)
(*                                                                         *)
(* A field holds a value, or is "absent", "null" or of the "wrong" type.   *)
(* JSON values count as values, whatever their spelling; patterns, headers *)
(* and URLs are what names them.                                           *)
(***************************************************************************)
EXTENDS Integers, Sequences

CONSTANTS
    Ids,        \* valid UUIDs
    NewID       \* the one NewID makes, for a document without an id

\* No UUID reads like one of the markers of a field without a value.
ASSUME MappingDocumentAssumption == NewID \in Ids /\ Ids \cap {"", "absent", "null"} = {}

\* stringField, boolField and intField take null for no value.
Given(value, fallback) == IF value \in {"absent", "null"} THEN fallback ELSE value

\* An object of a field: required ones may not be null, and no object field
\* may be anything else.
RequiredObject(object) == object.kind = "object"
OptionalObject(object) == object.kind \in {"object", "absent", "null"}

-----------------------------------------------------------------------------
(* The request of a document.  A regular expression that does not compile  *)
(* is "invalid", and so are matchers the matcher package refuses.          *)

requestFields == {"method", "url", "urlPath", "urlPattern", "urlPathPattern", "bodyPatterns",
                  "queryParameters", "headers", "customMatcher"}

validRequest(r) == RequiredObject(r) /\ \A f \in requestFields : r[f] \notin {"wrong", "invalid"}

Upper(method) == IF method = "get" THEN "GET" ELSE method

parseRequest(r) ==
    [f \in requestFields |-> IF f = "method" THEN Upper(Given(r[f], "")) ELSE Given(r[f], "")]

-----------------------------------------------------------------------------
(* The response.                                                           *)

\* parseDelayDistribution and parseChunkedDribbleDelay.  A number of the wrong
\* type is taken for one that is out of range.
validDistribution(d) ==
    /\ OptionalObject(d)
    /\ d.kind = "object" =>
        \/ d.type = "uniform" /\ 0 <= d.lower /\ d.lower <= d.upper
        \/ d.type = "lognormal" /\ d.median > 0 /\ d.sigma >= 0

validDribble(d) ==
    /\ OptionalObject(d)
    /\ d.kind = "object" => d.numberOfChunks > 0 /\ d.totalDuration >= 0

\* Of a distribution, what its type has no use for is dropped.
parseDistribution(d) ==
    IF d.kind # "object" THEN <<>>
    ELSE IF d.type = "uniform" THEN <<d.type, d.lower, d.upper>>
    ELSE <<d.type, d.median, d.sigma>>

parseDribble(d) == IF d.kind # "object" THEN <<>> ELSE <<d.numberOfChunks, d.totalDuration>>

\* Only the body that counts is looked at: jsonBody, whatever it is, before
\* base64Body before body.
validBody(r) ==
    \/ r.jsonBody # "absent"
    \/ r.base64Body \notin {"absent", "wrong", "notBase64"}
    \/ r.base64Body = "absent" /\ r.body # "wrong"

\* parseResponseBody: <<>> is no body.  A jsonBody of null is one, and so is a
\* base64Body of null, an empty one.
parseBody(r) ==
    IF r.jsonBody # "absent" THEN <<r.jsonBody>>
    ELSE IF r.base64Body # "absent" THEN <<Given(r.base64Body, "")>>
    ELSE IF r.body \in {"absent", "null"} THEN <<>> ELSE <<r.body>>

stringFields == {"bodyFileName", "proxyBaseUrl", "proxyUrlPrefixToRemove", "transformers", "headers"}

validResponse(r) ==
    /\ RequiredObject(r)
    /\ r.status \notin {"wrong", "outOfRange"}
    /\ validBody(r)
    /\ \A f \in stringFields : r[f] # "wrong"
    /\ r.fixedDelay \notin {"wrong", "negative"}
    /\ validDistribution(r.delayDistribution)
    /\ validDribble(r.chunkedDribbleDelay)

\* Bodies with template helpers: all of them compile, some of them, or none.
Helpers == {"allCompile", "someCompile", "noneCompiles"}

\* compileResponseTemplate: compiled only when all its helpers are.
compiled(body, transformers) == transformers = "response-template" /\ body = <<"allCompile">>

parseResponse(r) ==
    [status |-> Given(r.status, "200"),
     strings |-> [f \in stringFields |-> Given(r[f], "")],
     body |-> parseBody(r),
     json |-> r.jsonBody # "absent",
     template |-> compiled(parseBody(r), Given(r.transformers, "")),
     fixedDelay |-> Given(r.fixedDelay, "0"),
     distribution |-> parseDistribution(r.delayDistribution),
     dribble |-> parseDribble(r.chunkedDribbleDelay)]

-----------------------------------------------------------------------------
(* The document as a whole.                                                *)

validDocument(d) ==
    /\ d.id \in Ids \cup {"absent", "null", ""}
    /\ \A f \in {"name", "persistent", "priority", "scenarioName", "requiredScenarioState",
                 "newScenarioState"} : d[f] # "wrong"
    /\ d.metadata \notin {"null", "wrong"}
    /\ validRequest(d.request)
    /\ validResponse(d.response)

\* Seeded bug: the id of the document counts before that of the path.
idOfDocumentFirst(d, overrideID) ==
    IF Given(d.id, "") # "" THEN d.id
    ELSE IF overrideID # "" THEN overrideID
    ELSE NewID

\* The id of the path counts, then that of the document, then a new one.
idOf(d, overrideID) ==
    IF overrideID # "" THEN overrideID
    ELSE IF Given(d.id, "") # "" THEN d.id
    ELSE NewID

\* ParseJSONWithID of a valid document: the document is kept, under its id.
parse(d, overrideID) ==
    [id |-> idOf(d, overrideID),
     name |-> Given(d.name, ""),
     persistent |-> Given(d.persistent, "false"),
     priority |-> Given(d.priority, "5"),
     scenario |-> <<Given(d.scenarioName, ""), Given(d.requiredScenarioState, ""),
                    Given(d.newScenarioState, "")>>,
     request |-> parseRequest(d.request),
     response |-> parseResponse(d.response),
     raw |-> [d EXCEPT !.id = idOf(d, overrideID)]]

WithID(m, id) == [m EXCEPT !.id = id, !.raw = [@ EXCEPT !.id = id]]

\* MarshalJSON
marshal(m) == [m.raw EXCEPT !.id = m.id]

-----------------------------------------------------------------------------
(* Rendering: who needs the body of the request.                           *)

UsesResponseTemplate(r) == r.template \/ r.strings.transformers = "response-template"

\* Seeded bug: only a compiled template is given the body.
getsRequestBodyIfCompiled(r) == r.body # <<>> /\ r.template

\* The body that serveHTTP hands to Renderer.Render.
getsRequestBody(r) == r.body # <<>> /\ UsesResponseTemplate(r)

\* Render looks at the body of the request for a helper that compiles, in a
\* body that is neither a file's nor empty.
looksAtRequestBody(r) ==
    /\ r.strings.bodyFileName = ""
    /\ r.body \in {<<"allCompile">>, <<"someCompile">>}
    /\ UsesResponseTemplate(r)

-----------------------------------------------------------------------------
(* Properties, of one document and the id of a path ("" for a POST).       *)

\* A stub that is exported is accepted again as the same stub: as it is by a
\* POST, and by a PUT under the id of its path, whatever the document that made
\* it left out or set to null.
RoundTripOf(d, id) ==
    validDocument(d) =>
        LET m == parse(d, id)
        IN /\ validDocument(marshal(m))
           /\ parse(marshal(m), "") = m
           /\ id # "" => m.id = id
           /\ \A other \in Ids : parse(marshal(m), other) = WithID(m, other)

\* A response that looks at the request's body is given it, so that no template
\* is rendered as if the request had none; a proxied one is forwarded instead.
TemplateHasBodyOf(d) ==
    validDocument(d) =>
        LET r == parseResponse(d.response) IN looksAtRequestBody(r) => getsRequestBody(r)
=============================================================================
