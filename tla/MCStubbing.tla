----------------------------- MODULE MCStubbing -----------------------------
(***************************************************************************)
(* A stub that moves the scenario on, one that waits for the state it      *)
(* moves to, and one outside of it, all for the same request.              *)
(***************************************************************************)
EXTENDS Stubbing, TLC

Symmetry == Permutations(Ids) \cup Permutations(Admins) \cup Permutations(Callers)

Def(scenario, required, new, priority) ==
    [scenario |-> scenario, required |-> required, new |-> new,
     priority |-> priority, matches |-> {"order"}]

MCMoves == {Def("checkout", "Started", "Paid", 1), Def(None, None, None, 5)}
MCWaits == {Def("checkout", "Paid", None, 1)}
MCDefinitions == MCMoves \cup MCWaits
=============================================================================
