---------------------------- MODULE RequestIndex ----------------------------
(***************************************************************************)
(* Which stub mappings a runtime request matches, and the three indexes    *)
(* the mapping store publishes so that a request looks at few of them.     *)
(*                                                                         *)
(* A pattern has the four URL fields of a WireMock request definition, of  *)
(* which a stub may set several: matchesURL tries them in a fixed order,   *)
(* indexMapping files the stub under the first of two, and a stub filed    *)
(* where no lookup reaches it is never served.  A regular expression is    *)
(* Compiled(the set of targets whose leftmost match spans them), or        *)
(* NoRegex for nil; the query, header and body matchers are the set of     *)
(* request contents they accept.                                           *)
(***************************************************************************)
CONSTANTS
    Methods,    \* the method names of patterns and requests
    Targets,    \* request URIs and paths, "" included
    Contents,   \* the rest of a request: query, headers and body
    Upper       \* strings.ToUpper on Methods

ANY  == "ANY"
Unset == ""

ASSUME RequestIndexAssumption ==
    /\ {ANY, Unset} \subseteq Methods
    /\ Unset \in Targets
    /\ Upper \in [Methods -> Methods]
    /\ \A m \in Methods : Upper[Upper[m]] = Upper[m]
    /\ Upper[ANY] = ANY

NoRegex == {}
Compiled(targets) == {targets}
Regex == {NoRegex} \cup {Compiled(targets) : targets \in SUBSET Targets}

\* parseRequest stores the method in upper case.
Pattern == [method    : {Upper[m] : m \in Methods},
            url       : Targets,
            urlPath   : Targets,
            urlRegex  : Regex,
            pathRegex : Regex,
            accepts   : SUBSET Contents]

Request == [method : Methods, uri : Targets, path : Targets, content : Contents]

-----------------------------------------------------------------------------
matchesMethod(p, method) ==
    \/ p.method = ANY
    \/ p.method # Unset /\ Upper[p.method] = Upper[method]

matchesURL(p, uri, path) ==
    \/ p.url # Unset /\ uri = p.url
    \/ p.url = Unset /\ p.urlPath # Unset /\ path = p.urlPath
    \/ /\ p.url = Unset /\ p.urlPath = Unset
       /\ uri \in UNION p.urlRegex
    \/ /\ p.url = Unset /\ p.urlPath = Unset /\ p.urlRegex = NoRegex
       /\ path \in UNION p.pathRegex

Matches(p, r) ==
    /\ matchesMethod(p, r.method)
    /\ matchesURL(p, r.uri, r.path)
    /\ r.content \in p.accepts

-----------------------------------------------------------------------------
(* The index indexMapping files a pattern in, and under which key.         *)
inExactURL(p, method, target) ==
    p.url # Unset /\ p.method = method /\ p.url = target

inExactPath(p, method, target) ==
    p.url = Unset /\ p.urlPath # Unset /\ p.method = method /\ p.urlPath = target

inFallback(p) == p.url = Unset /\ p.urlPath = Unset
=============================================================================
