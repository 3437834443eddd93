---------------------------- MODULE MCRecording -----------------------------
(***************************************************************************)
(* Requests of four kinds: one with a query, one with a JSON body, one whose*)
(* body is null, which no recorded stub matches, and one whose body no     *)
(* recorded stub can be built from.                                        *)
(***************************************************************************)
EXTENDS Recording, TLC

MCBodies == {"", "{}", "null", "text", "string", "1e999"}
MCBodyKind == [b \in MCBodies |->
    CASE b = "" -> "none" [] b = "{}" -> "json" [] b = "1e999" -> "huge" [] OTHER -> b]

Req(escaped, query, body) ==
    [path |-> "/a", escaped |-> escaped, query |-> query, body |-> body]

MCPlain == {Req(FALSE, "x=1", ""), Req(TRUE, "", "{}")}
MCRequests == MCPlain \cup {Req(TRUE, "", "null"), Req(TRUE, "", "1e999")}

Symmetry == Permutations(Admins) \cup Permutations(Callers)
=============================================================================
