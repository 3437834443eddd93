--------------------------- MODULE ScenarioStore ----------------------------
(***************************************************************************)
(* scenario.Store: the state of every scenario and the ids of its stubs,   *)
(* both under one mutex, so each method is one step.  A scenario absent    *)
(* from Store.states is in state Started, and one absent from              *)
(* Store.members has no members: the methods never keep an empty set or an *)
(* empty state there, and treat an absent entry in that way.               *)
(***************************************************************************)
CONSTANTS
    Scenarios,      \* scenario names that stubs give
    States          \* scenario states that stubs give

Started == "Started"
None == ""          \* a scenario field the mapping document leaves out

ASSUME ScenarioStoreAssumption ==
    /\ None \notin Scenarios
    /\ None \notin States
    /\ Started \in States

VARIABLES
    states,         \* Store.states
    members         \* Store.members

scenarioVars == <<states, members>>

ScenarioInit ==
    /\ states = [n \in Scenarios |-> Started]
    /\ members = [n \in Scenarios |-> {}]

-----------------------------------------------------------------------------
(* A stub is a record with an id and a def that names its scenario.        *)
HasScenario(stub) == stub.def.scenario # None

addMapping(ms, stub) ==
    [n \in Scenarios |-> IF n = stub.def.scenario THEN ms[n] \cup {stub.id} ELSE ms[n]]

\* The two effects of removeMappingLocked: the last member takes the state
\* with it, and so does the removal of a stub nobody registered.
removeMember(ms, stub) ==
    [n \in Scenarios |-> IF n = stub.def.scenario THEN ms[n] \ {stub.id} ELSE ms[n]]

\* Seeded bugs: the first stub to leave takes the state with it; an absent
\* state reads as the empty string.
removeStateAlways(st, ms, stub) ==
    [n \in Scenarios |-> IF n = stub.def.scenario THEN Started ELSE st[n]]

removeStateToZero(st, ms, stub) ==
    [n \in Scenarios |->
        IF n = stub.def.scenario /\ ms[n] \subseteq {stub.id} THEN None ELSE st[n]]

removeState(st, ms, stub) ==
    [n \in Scenarios |->
        IF n = stub.def.scenario /\ ms[n] \subseteq {stub.id} THEN Started ELSE st[n]]

MappingCreated(stub) ==
    /\ members' = addMapping(members, stub)
    /\ UNCHANGED states

\* Seeded bug: an update does not leave the old scenario.
MappingUpdatedOnlyAdds(old, new) == MappingCreated(new)

MappingUpdated(old, new) ==
    IF old.def.scenario = new.def.scenario
    THEN MappingCreated(new)
    ELSE /\ members' = addMapping(removeMember(members, old), new)
         /\ states' = removeState(states, members, old)

\* Seeded bug: the state outlives the last member.
MappingDeletedKeepsState(stub) ==
    /\ members' = removeMember(members, stub)
    /\ UNCHANGED states

MappingDeleted(stub) ==
    /\ members' = removeMember(members, stub)
    /\ states' = removeState(states, members, stub)

Reset ==
    /\ states' = [n \in Scenarios |-> Started]
    /\ UNCHANGED members

\* Seeded bug: a stub that requires the initial state is open in any.
matchesStateStartedOpen(st, stub) ==
    \/ ~ HasScenario(stub)
    \/ stub.def.required \in {None, Started}
    \/ st[stub.def.scenario] = stub.def.required

matchesState(st, stub) ==
    \/ ~ HasScenario(stub)
    \/ stub.def.required = None
    \/ st[stub.def.scenario] = stub.def.required

Transition(stub) ==
    /\ states' = IF HasScenario(stub) /\ stub.def.new # None /\ matchesState(states, stub)
                 THEN [states EXCEPT ![stub.def.scenario] = stub.def.new]
                 ELSE states
    /\ UNCHANGED members
=============================================================================
