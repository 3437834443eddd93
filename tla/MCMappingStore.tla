--------------------------- MODULE MCMappingStore ---------------------------
(***************************************************************************)
(* Two goroutines change a store of two ids.  The definitions set the URL  *)
(* fields of a pattern in the ways indexMapping and matchesURL tell apart, *)
(* several at once included.                                               *)
(***************************************************************************)
EXTENDS MappingStore

MCMethods == {"", "ANY", "GET", "get", "POST"}
MCTargets == {"", "/a", "/a?x"}
MCContents == {"plain", "other"}
MCUpper == [m \in MCMethods |-> IF m = "get" THEN "GET" ELSE m]

Def(method, url, urlPath, urlRegex, pathRegex, scenario) ==
    [request  |-> [method |-> method, url |-> url, urlPath |-> urlPath,
                   urlRegex |-> urlRegex, pathRegex |-> pathRegex,
                   accepts |-> {"plain"}],
     scenario |-> scenario]

MCDefinitions == {
    Def("GET", "/a", "/a", NoRegex, NoRegex, ""),
    Def("ANY", "/a?x", "", Compiled({"/a"}), NoRegex, ""),
    Def("ANY", "", "/a", Compiled({"/a?x"}), NoRegex, "checkout"),
    Def("GET", "", "", Compiled({"/a"}), Compiled({"/a"}), "") }

\* One path, without and with a query, in several methods.
MCRequests == [method : {"GET", "get", "POST", "ANY"}, uri : {"/a", "/a?x"},
               path : {"/a"}, content : {"plain"}]
=============================================================================
