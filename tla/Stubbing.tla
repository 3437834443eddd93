------------------------------ MODULE Stubbing ------------------------------
(***************************************************************************)
(* The admin handlers that create, update and delete stubs, the reset of   *)
(* the scenarios, and the runtime requests that look for a match, all at   *)
(* once over one mapping store and one scenario store.  Each store is      *)
(* atomic (MappingStore implements StubTable; ScenarioStore is one mutex), *)
(* a handler is not: it goes from one to the other, and the stub it holds  *)
(* may have changed in between.                                            *)
(***************************************************************************)
EXTENDS StubTable, ScenarioStore

CONSTANTS
    Admins,         \* goroutines that serve the admin API
    Callers,        \* goroutines that serve runtime requests
    Requests,       \* runtime requests
    Nil,            \* no job, no stub
    MaxSequence     \* bound on the sequence numbers, for TLC

ASSUME StubbingAssumption ==
    /\ Admins \cap Callers = {}
    /\ MaxSequence \in Nat
    /\ Definitions \subseteq
         [scenario : Scenarios \cup {None}, required : States \cup {None},
          new : States \cup {None}, priority : Int, matches : SUBSET Requests]

VARIABLES
    job,            \* what each admin handler holds, or Nil
    request,        \* the request each caller serves, or Nil
    fast,           \* findMatchLazy saw no scenario and goes without the lock
    candidates,     \* the matching stubs it collected, or Nil before
    answer          \* what it found: [stub, states], or Nil before

\* History: the ids whose admin operations have overlapped, and the stubs
\* that have been in the table ever since a caller's request arrived.
VARIABLES tainted, steady

handlerVars == <<job, request, fast, candidates, answer>>
vars == <<table, issued, states, members, handlerVars, tainted, steady>>

\* A handler between two calls: its next step, the id of its path, the stub
\* it read before its change and the one it wrote.
Job == [step : {"created", "putting", "replaced", "deleting", "deleted"}, id : Ids,
        existing : {Nil} \cup Stub, written : {Nil} \cup Stub]
Holds(j) ==
    /\ j.step # "created" => j.existing # Nil /\ j.existing.id = j.id
    /\ j.step \in {"created", "replaced"} => j.written # Nil /\ j.written.id = j.id

\* What a caller found, and the scenario states it went by.
Found == [stub : {Nil} \cup Stub, states : [Scenarios -> States]]

ASSUME NilAssumption ==
    /\ Nil \notin Stub \cup Requests
    /\ Nil \notin Job \cup Found

Init ==
    /\ TableInit
    /\ ScenarioInit
    /\ job = [a \in Admins |-> Nil]
    /\ request = [c \in Callers |-> Nil]
    /\ fast = [c \in Callers |-> FALSE]
    /\ candidates = [c \in Callers |-> Nil]
    /\ answer = [c \in Callers |-> Nil]
    /\ tainted = {}
    /\ steady = [c \in Callers |-> {}]

-----------------------------------------------------------------------------
(* Admin handlers.                                                         *)
Idle(a) == job[a] = Nil
At(a, step) == job[a] # Nil /\ job[a].step = step
Hold(a, step, i, existing, written) ==
    job' = [job EXCEPT ![a] = [step |-> step, id |-> i,
                               existing |-> existing, written |-> written]]
Respond(a) == job' = [job EXCEPT ![a] = Nil]

Busy(i) == {a \in Admins : job[a] # Nil /\ job[a].id = i}
Deleting(a) == job[a].step \in {"deleting", "deleted"}

\* The id is tainted by an operation that starts while another is under way
\* on it (two DELETEs apart), and by a POST over a stub of another scenario.
Taint(i, harmless) ==
    tainted' = IF harmless THEN tainted ELSE tainted \cup {i}

OtherScenario(i, d) == i \in DOMAIN table /\ table[i].def.scenario # d.scenario

\* Requests under way keep only the stubs that are still in the table.
Observe == steady' = [c \in Callers |-> steady[c] \cap StubsOf(table')]

CallersUnchanged == UNCHANGED <<request, fast, candidates, answer>>

\* createMapping: the id is the document's, or a new one.
Post(a, i, d) ==
    /\ Idle(a)
    /\ (issued < MaxSequence /\ Insert(i, d)) \/ Overwrite(i, d)
    /\ Hold(a, "created", i, Nil, StubOf(table', i))
    /\ Taint(i, Busy(i) = {} /\ ~ OtherScenario(i, d))
    /\ Observe
    /\ UNCHANGED scenarioVars /\ CallersUnchanged

Posted(a) ==
    /\ At(a, "created")
    /\ MappingCreated(job[a].written)
    /\ Respond(a)
    /\ UNCHANGED <<tableVars, tainted, steady>> /\ CallersUnchanged

\* updateMapping and deleteMapping read the existing stub first.  When there
\* is none they answer 404 and nothing has changed.
PutFind(a, i) ==
    /\ Idle(a)
    /\ i \in DOMAIN table
    /\ Hold(a, "putting", i, StubOf(table, i), Nil)
    /\ Taint(i, Busy(i) = {})
    /\ UNCHANGED <<tableVars, scenarioVars, steady>> /\ CallersUnchanged

\* The body, read in between, is not a mapping, or the stub is gone.
PutFails(a) ==
    /\ At(a, "putting")
    /\ Respond(a)
    /\ UNCHANGED <<tableVars, scenarioVars, tainted, steady>> /\ CallersUnchanged

PutReplace(a, d) ==
    /\ At(a, "putting")
    /\ Overwrite(job[a].id, d)
    /\ Hold(a, "replaced", job[a].id, job[a].existing, StubOf(table', job[a].id))
    /\ Observe
    /\ UNCHANGED <<scenarioVars, tainted>> /\ CallersUnchanged

PutDone(a) ==
    /\ At(a, "replaced")
    /\ MappingUpdated(job[a].existing, job[a].written)
    /\ Respond(a)
    /\ UNCHANGED <<tableVars, tainted, steady>> /\ CallersUnchanged

DeleteFind(a, i) ==
    /\ Idle(a)
    /\ i \in DOMAIN table
    /\ Hold(a, "deleting", i, StubOf(table, i), Nil)
    /\ Taint(i, \A b \in Busy(i) : Deleting(b))
    /\ UNCHANGED <<tableVars, scenarioVars, steady>> /\ CallersUnchanged

DeleteFails(a) ==
    /\ At(a, "deleting")
    /\ job[a].id \notin DOMAIN table
    /\ Respond(a)
    /\ UNCHANGED <<tableVars, scenarioVars, tainted, steady>> /\ CallersUnchanged

DeleteStub(a) ==
    /\ At(a, "deleting")
    /\ Delete(job[a].id)
    /\ Hold(a, "deleted", job[a].id, job[a].existing, Nil)
    /\ Observe
    /\ UNCHANGED <<scenarioVars, tainted>> /\ CallersUnchanged

DeleteDone(a) ==
    /\ At(a, "deleted")
    /\ MappingDeleted(job[a].existing)
    /\ Respond(a)
    /\ UNCHANGED <<tableVars, tainted, steady>> /\ CallersUnchanged

ResetScenarios(a) ==
    /\ Idle(a)
    /\ Reset
    /\ UNCHANGED <<tableVars, job, tainted, steady>> /\ CallersUnchanged

Admin(a) ==
    \/ \E i \in Ids : \/ \E d \in Definitions : Post(a, i, d)
                      \/ PutFind(a, i)
                      \/ DeleteFind(a, i)
    \/ \E d \in Definitions : PutReplace(a, d)
    \/ Posted(a) \/ PutFails(a) \/ PutDone(a)
    \/ DeleteFails(a) \/ DeleteStub(a) \/ DeleteDone(a)
    \/ ResetScenarios(a)

-----------------------------------------------------------------------------
(* Runtime requests: findMatchLazy.  Each of HasScenarios and              *)
(* RangeCandidates loads the snapshot of its own moment, and the body may  *)
(* be read in between, for as long as the client takes to send it.         *)
Matching(q) == {s \in StubsOf(table) : q \in s.def.matches}

\* compareStubOrder < 0, where no difference of priorities overflows.
Before(l, r) ==
    \/ l.def.priority < r.def.priority
    \/ l.def.priority = r.def.priority /\ l.sequence < r.sequence

Best(S) == CHOOSE s \in S : \A o \in S \ {s} : Before(s, o)

\* The states are history: those the selection went by.
Answer(c, stub) == answer' = [answer EXCEPT ![c] = [stub |-> stub, states |-> states]]

Selected(S) == IF S = {} THEN Nil ELSE Best(S)

Arrive(c, q) ==
    /\ request[c] = Nil
    /\ request' = [request EXCEPT ![c] = q]
    /\ fast' = [fast EXCEPT ![c] = ~ \E s \in StubsOf(table) : HasScenario(s)]
    /\ steady' = [steady EXCEPT ![c] = StubsOf(table)]
    /\ UNCHANGED <<tableVars, scenarioVars, job, candidates, answer, tainted>>

Waiting(c) == request[c] # Nil /\ candidates[c] = Nil /\ answer[c] = Nil

SelectFast(c) ==
    /\ Waiting(c) /\ fast[c]
    /\ Answer(c, Selected(Matching(request[c])))
    /\ UNCHANGED <<tableVars, scenarioVars, job, request, fast, candidates,
                   tainted, steady>>

Collect(c) ==
    /\ Waiting(c) /\ ~ fast[c]
    /\ candidates' = [candidates EXCEPT ![c] = Matching(request[c])]
    /\ UNCHANGED <<tableVars, scenarioVars, job, request, fast, answer,
                   tainted, steady>>

\* Seeded bug: the best candidate is picked first, its state tested after.
SelectThenTestState(c) ==
    LET best == Selected(candidates[c])
        open == best # Nil /\ matchesState(states, best)
    IN  /\ candidates[c] # Nil /\ answer[c] = Nil
        /\ Answer(c, IF open THEN best ELSE Nil)
        /\ IF open THEN Transition(best) ELSE UNCHANGED scenarioVars
        /\ candidates' = [candidates EXCEPT ![c] = Nil]
        /\ UNCHANGED <<tableVars, job, request, fast, tainted, steady>>

SelectAndTransition(c) ==
    LET open == {s \in candidates[c] : matchesState(states, s)}
    IN  /\ candidates[c] # Nil /\ answer[c] = Nil
        /\ Answer(c, Selected(open))
        /\ IF open = {} THEN UNCHANGED scenarioVars ELSE Transition(Best(open))
        /\ candidates' = [candidates EXCEPT ![c] = Nil]
        /\ UNCHANGED <<tableVars, job, request, fast, tainted, steady>>

Served(c) ==
    /\ answer[c] # Nil
    /\ request' = [request EXCEPT ![c] = Nil]
    /\ fast' = [fast EXCEPT ![c] = FALSE]
    /\ answer' = [answer EXCEPT ![c] = Nil]
    /\ steady' = [steady EXCEPT ![c] = {}]
    /\ UNCHANGED <<tableVars, scenarioVars, job, candidates, tainted>>

Caller(c) ==
    \/ \E q \in Requests : Arrive(c, q)
    \/ SelectFast(c) \/ Collect(c) \/ SelectAndTransition(c) \/ Served(c)

Next == (\E a \in Admins : Admin(a)) \/ (\E c \in Callers : Caller(c))

Spec == Init /\ [][Next]_vars

-----------------------------------------------------------------------------
(* Properties.                                                             *)

\* Types of the stores and of what the handlers hold.
TypeOK ==
    /\ DOMAIN table \subseteq Ids
    /\ \A i \in DOMAIN table : table[i] \in Entry /\ table[i].sequence <= issued
    /\ issued \in Nat
    /\ states \in [Scenarios -> States]
    /\ members \in [Scenarios -> SUBSET Ids]
    /\ job \in [Admins -> {Nil} \cup Job]
    /\ \A a \in Admins : Idle(a) \/ Holds(job[a])
    /\ request \in [Callers -> {Nil} \cup Requests]
    /\ fast \in [Callers -> BOOLEAN]
    /\ candidates \in [Callers -> {Nil} \cup SUBSET Stub]
    /\ answer \in [Callers -> {Nil} \cup Found]
    /\ tainted \subseteq Ids
    /\ steady \in [Callers -> SUBSET Stub]

\* An id no admin operation is under way on, and none has overlapped on.
Settled(i) == i \notin tainted /\ Busy(i) = {}

\* The scenario store's members are the stubs of the mapping store: between
\* them the handlers leave neither a phantom member nor an unregistered stub,
\* however the operations on different ids, the two steps of each of them,
\* resets and requests interleave.
MembersExact ==
    \A i \in Ids : Settled(i) =>
        \A n \in Scenarios :
            i \in members[n] <=> i \in DOMAIN table /\ table[i].def.scenario = n

\* Only a request that is served or a reset takes a scenario out of its state
\* while a settled stub belongs to it: deleting or moving one stub never
\* restarts the scenario of the others.
HasSettledStub(n) ==
    \E i \in DOMAIN table : Settled(i) /\ table[i].def.scenario = n

StateKept ==
    [][\A n \in Scenarios :
          states'[n] # states[n] =>
              \/ ~ HasSettledStub(n)
              \/ \E a \in Admins : ResetScenarios(a)
              \/ \E c \in Callers : answer[c] = Nil /\ answer'[c] # Nil]_vars

\* The DELETE that takes the last stub of a scenario puts the scenario back in
\* Started by the time it is answered.
LastDeleted(a, n) ==
    /\ At(a, "deleted") /\ job'[a] = Nil
    /\ job[a].existing.def.scenario = n
    /\ \A i \in DOMAIN table : table[i].def.scenario # n
    /\ \A b \in Admins \ {a} : Idle(b)

LastDeleteForgets ==
    [][\A a \in Admins, n \in Scenarios :
          LastDeleted(a, n) /\ tainted = {} => states'[n] = Started]_vars

\* What the tests of the scenario store say of every deletion of a last stub,
\* whatever the admin API was asked before.
LastDeleteAlwaysForgets ==
    [][\A a \in Admins, n \in Scenarios :
          LastDeleted(a, n) => states'[n] = Started]_vars

\* A request gets the best there is: no stub that was in the table, unchanged,
\* from its arrival to its selection, matches it, has its scenario in the
\* required state, and would come before the one that is served.
ServedIsBest ==
    \A c \in Callers : answer[c] # Nil =>
        \A s \in steady[c] :
            request[c] \in s.def.matches /\ matchesState(answer[c].states, s) =>
                /\ answer[c].stub # Nil
                /\ ~ Before(s, answer[c].stub)

\* A stub of a scenario is served in the state it requires and in the same
\* step moves the scenario on, so that of several requests only one gets the
\* answer of a state that is left.
InState(c) ==
    LET s == answer'[c].stub
        n == s.def.scenario
    IN  s # Nil /\ HasScenario(s) =>
            /\ s.def.required \in {None, states[n]}
            /\ s.def.new \in {None, states'[n]}

Selecting(c) == answer[c] = Nil /\ answer'[c] # Nil

ServedInState == [][\A c \in Callers : Selecting(c) => InState(c)]_vars

\* It is so at least while some scenario's stub stays in the table.
ServedInStateWhileScenarios ==
    [][\A c \in Callers :
          Selecting(c) /\ (\E s \in steady[c] : HasScenario(s)) => InState(c)]_vars
=============================================================================
