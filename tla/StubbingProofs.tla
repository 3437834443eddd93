--------------------------- MODULE StubbingProofs ---------------------------
(***************************************************************************)
(* Theorems about Stubbing, for any sets of ids, definitions, scenarios,   *)
(* handlers and requests: what the admin handlers leave in the scenario    *)
(* store, what may take a scenario out of its state, and which stub a      *)
(* request gets, however they interleave.                                  *)
(***************************************************************************)
EXTENDS Stubbing, FiniteSetTheorems, WellFoundedInduction, TLAPS

-----------------------------------------------------------------------------
(* The invariant.                                                          *)

\* The scenarios that have the id among their members.
Member(i, n) == i \in members[n]

\* The scenario store has what the table says of the id.
Registered(i) ==
    \A n \in Scenarios : Member(i, n) <=> i \in DOMAIN table /\ table[i].def.scenario = n

\* The id is a member of the scenario of that stub, and of no other.
MemberAs(i, stub) == \A n \in Scenarios : Member(i, n) <=> n = stub.def.scenario

AloneOn(a) == \A b \in Admins \ {a} : ~ Idle(b) => job[b].id # job[a].id

\* What a handler knows of the table, and what it still owes the scenario
\* store, when nothing has overlapped with it but DELETEs of the same id.
Owes(a) ==
    LET j == job[a] IN
    /\ j.step \in {"created", "putting", "replaced"} => AloneOn(a) /\ j.id \in DOMAIN table
    /\ j.step \in {"created", "replaced"} => j.written = StubOf(table, j.id)
    /\ j.step = "created" =>
         \A n \in Scenarios : Member(j.id, n) => n = table[j.id].def.scenario
    /\ j.step = "putting" => j.existing = StubOf(table, j.id)
    /\ j.step = "deleting" /\ j.id \in DOMAIN table => j.existing = StubOf(table, j.id)
    /\ j.step \in {"replaced", "deleted"} => MemberAs(j.id, j.existing)
    /\ j.step = "deleted" =>
         /\ j.id \notin DOMAIN table
         /\ \A b \in Admins \ {a} : ~ Idle(b) /\ job[b].id = j.id => job[b].step = "deleting"

Debts == \A a \in Admins : ~ Idle(a) /\ job[a].id \notin tainted => Owes(a)

\* Nobody owes the scenario store anything about the id.
Paid(i) ==
    \A a \in Admins : ~ Idle(a) /\ job[a].id = i => job[a].step \in {"putting", "deleting"}

Accounts == \A i \in Ids \ tainted : Paid(i) => Registered(i)

\* Stubs that compareStubOrder can put in an order: finitely many, none of the
\* same age.
Ranked(S) ==
    /\ S \subseteq Stub /\ IsFiniteSet(S)
    /\ \A s, t \in S : s # t => s.sequence # t.sequence

\* The ages in the table differ.
Ages ==
    /\ IsFiniteSet(DOMAIN table)
    /\ \A i, j \in DOMAIN table : i # j => table[i].sequence # table[j].sequence

\* Where a caller stands: it has candidates or an answer for a request only,
\* and never both.
Stage(c) ==
    /\ request[c] = Nil => candidates[c] = Nil /\ answer[c] = Nil
    /\ answer[c] # Nil => candidates[c] = Nil

\* What a caller has is still good: the steady stubs are in the table, those
\* that match are candidates, and the fast path was right about them.
Watch(c) ==
    /\ steady[c] \subseteq StubsOf(table)
    /\ candidates[c] # Nil =>
         /\ Ranked(candidates[c])
         /\ \A s \in steady[c] : request[c] \in s.def.matches => s \in candidates[c]
    /\ fast[c] => \A s \in steady[c] : ~ HasScenario(s)

Serving == Ages /\ \A c \in Callers : Stage(c) /\ Watch(c)

Inv == TypeOK /\ Debts /\ Accounts /\ Serving /\ ServedIsBest

-----------------------------------------------------------------------------
(* The table of stubs.                                                     *)

\* What TypeOK says of the table.
Entries(tbl) == DOMAIN tbl \subseteq Ids /\ \A i \in DOMAIN tbl : tbl[i] \in Entry

TableOK ==
    /\ Entries(table)
    /\ \A i \in DOMAIN table : table[i].sequence <= issued
    /\ issued \in Nat

\* The step changes nothing in the table but the entry of id i.
OnlyAt(i) ==
    /\ \A j \in Ids \ {i} : j \in DOMAIN table' <=> j \in DOMAIN table
    /\ \A j \in DOMAIN table \ {i} : table'[j] = table[j]

LEMMA TypeOKTable == TypeOK => TableOK
BY DEF TypeOK, TableOK, Entries

\* A definition's fields.
LEMMA DefinitionFields ==
    ASSUME NEW d \in Definitions
    PROVE  /\ d.scenario \in Scenarios \cup {None}
           /\ d.required \in States \cup {None}
           /\ d.new \in States \cup {None}
           /\ d.priority \in Int
BY StubbingAssumption

\* An entry of a table is a stub, with the entry's id, definition and age.
LEMMA EntryIsStub ==
    ASSUME NEW tbl, Entries(tbl), NEW i \in DOMAIN tbl
    PROVE  /\ StubOf(tbl, i) \in Stub
           /\ StubOf(tbl, i) # Nil
           /\ StubOf(tbl, i).id = i
           /\ StubOf(tbl, i).def = tbl[i].def
           /\ StubOf(tbl, i).sequence = tbl[i].sequence
           /\ StubOf(tbl, i) \in StubsOf(tbl)
<1>1. StubOf(tbl, i) \in Stub
  BY DEF Entries, Entry, StubOf, Stub
<1> QED BY <1>1, NilAssumption DEF StubOf, StubsOf

\* A stub of a table is an entry of it.
LEMMA StubIsEntry ==
    ASSUME NEW tbl, Entries(tbl), NEW s \in StubsOf(tbl)
    PROVE  s \in Stub /\ s.id \in DOMAIN tbl /\ s = StubOf(tbl, s.id)
<1>1. PICK i \in DOMAIN tbl : s = StubOf(tbl, i)
  BY DEF StubsOf
<1> QED BY <1>1, EntryIsStub

\* POST of a new id: an entry of an age nobody has.
LEMMA InsertTable ==
    ASSUME TableOK, Ages, NEW i \in Ids, NEW d \in Definitions, Insert(i, d)
    PROVE  /\ TableOK' /\ Ages' /\ OnlyAt(i)
           /\ i \in DOMAIN table' /\ table'[i].def = d
<1> USE DEF TableOK, Entries
<1>1. /\ DOMAIN table' = DOMAIN table \cup {i}
      /\ table'[i] = [def |-> d, sequence |-> issued + 1]
      /\ \A j \in DOMAIN table : j # i /\ table'[j] = table[j]
      /\ issued' = issued + 1
  BY DEF Insert, With
<1>2. table'[i] \in Entry /\ table'[i].sequence = issued + 1 /\ table'[i].def = d
  BY <1>1 DEF Entry, SequenceNumbers
<1>3. \A j \in DOMAIN table : table[j].sequence \in Nat /\ table[j].sequence < issued + 1
  BY DEF Entry, SequenceNumbers
<1>4. IsFiniteSet(DOMAIN table')
  BY <1>1, FS_AddElement DEF Ages
<1>5. Ages'
  BY <1>1, <1>2, <1>3, <1>4 DEF Ages
<1>6. TableOK'
  BY <1>1, <1>2, <1>3
<1> QED BY <1>1, <1>2, <1>5, <1>6 DEF OnlyAt

\* POST or PUT of an id that is there: the entry keeps its age.
LEMMA OverwriteTable ==
    ASSUME TableOK, Ages, NEW i \in Ids, NEW d \in Definitions, Overwrite(i, d)
    PROVE  /\ TableOK' /\ Ages' /\ OnlyAt(i)
           /\ i \in DOMAIN table /\ i \in DOMAIN table' /\ table'[i].def = d
<1> USE DEF TableOK, Entries
<1>1. /\ i \in DOMAIN table /\ DOMAIN table' = DOMAIN table
      /\ table'[i] = [def |-> d, sequence |-> table[i].sequence]
      /\ \A j \in DOMAIN table \ {i} : table'[j] = table[j]
      /\ issued' = issued
  BY DEF Overwrite, With
<1>2. table'[i] \in Entry /\ table'[i].sequence = table[i].sequence /\ table'[i].def = d
  BY <1>1 DEF Entry
<1>3. \A j \in DOMAIN table : table'[j].sequence = table[j].sequence
  BY <1>1, <1>2
<1>4. Ages'
  BY <1>1, <1>3 DEF Ages
<1>5. TableOK'
  BY <1>1, <1>2, <1>3
<1> QED BY <1>1, <1>2, <1>4, <1>5 DEF OnlyAt

\* DELETE: one entry less.
LEMMA DeleteTable ==
    ASSUME TableOK, Ages, NEW i \in Ids, Delete(i)
    PROVE  /\ TableOK' /\ Ages' /\ OnlyAt(i)
           /\ i \in DOMAIN table /\ i \notin DOMAIN table'
<1> USE DEF TableOK, Entries
<1>1. /\ i \in DOMAIN table /\ DOMAIN table' = DOMAIN table \ {i}
      /\ \A j \in DOMAIN table' : table'[j] = table[j]
      /\ issued' = issued
  BY DEF Delete, Without
<1>2. IsFiniteSet(DOMAIN table')
  BY <1>1, FS_RemoveElement DEF Ages
<1>3. Ages'
  BY <1>1, <1>2 DEF Ages
<1>4. TableOK'
  BY <1>1
<1> QED BY <1>1, <1>3, <1>4 DEF OnlyAt

-----------------------------------------------------------------------------
(* The order of the stubs.                                                 *)

LEMMA StubFields ==
    ASSUME NEW s \in Stub
    PROVE  /\ s.id \in Ids /\ s.def \in Definitions
           /\ s.def.priority \in Int /\ s.sequence \in Nat
BY DefinitionFields DEF Stub, SequenceNumbers

\* compareStubOrder is a strict order, in which any two stubs that differ in
\* age have a place.
LEMMA BeforeOrders ==
    ASSUME NEW r \in Stub, NEW s \in Stub, NEW t \in Stub
    PROVE  /\ ~ Before(s, s)
           /\ Before(s, t) => ~ Before(t, s)
           /\ s.sequence # t.sequence => Before(s, t) \/ Before(t, s)
           /\ Before(r, s) /\ Before(s, t) => Before(r, t)
BY StubFields DEF Before

\* Among finitely many stubs one comes first: that of which the fewest come
\* before, in the sense of inclusion.
LEMMA BestExists ==
    ASSUME NEW S, Ranked(S), S # {}
    PROVE  \E s \in S : \A o \in S \ {s} : Before(s, o)
<1> DEFINE Upto(s) == {o \in S : Before(o, s)}
           T == {Upto(s) : s \in S}
           R == StrictSubsetOrdering(S)
<1>1. S \subseteq Stub /\ IsFiniteSet(S)
  BY DEF Ranked
<1>2. FiniteSubsetsOf(S) = SUBSET S
  BY <1>1, FS_FiniteSubsetsOfFinite
<1>3. IsWellFoundedOn(R, SUBSET S)
  BY <1>2, FS_StrictSubsetOrderingWellFounded
<1>4. T \subseteq SUBSET S /\ T # {}
  OBVIOUS
<1>5. \E x \in T : \A y \in T : ~ (<<y, x>> \in R)
  <2> HIDE DEF T, R
  <2> QED BY <1>3, <1>4, WFMin
<1>6. PICK s \in S : \A o \in S : <<Upto(o), Upto(s)>> \notin R
  BY <1>5
<1>7. ASSUME NEW o \in S, Before(o, s) PROVE FALSE
  <2>1. Upto(o) \subseteq Upto(s)
    BY <1>1, <1>7, BeforeOrders
  <2>2. o \in Upto(s) /\ o \notin Upto(o)
    BY <1>1, <1>7, BeforeOrders
  <2>3. <<Upto(o), Upto(s)>> \in R
    BY <2>1, <2>2 DEF StrictSubsetOrdering
  <2> QED BY <2>3, <1>6
<1>8. \A o \in S \ {s} : Before(s, o)
  BY <1>1, <1>7, BeforeOrders DEF Ranked
<1> QED BY <1>8

\* The stub that is selected is a candidate, and no candidate comes before it.
LEMMA SelectedIsFirst ==
    ASSUME NEW S, Ranked(S), S # {}
    PROVE  /\ Selected(S) = Best(S) /\ Best(S) \in S
           /\ \A o \in S : ~ Before(o, Best(S))
<1>1. Best(S) \in S /\ \A o \in S \ {Best(S)} : Before(Best(S), o)
  BY BestExists DEF Best
<1>2. S \subseteq Stub
  BY DEF Ranked
<1> QED BY <1>1, <1>2, BeforeOrders DEF Selected

\* Fewer stubs can be put in order as well.
LEMMA RankedSubset ==
    ASSUME NEW S, Ranked(S), NEW T, T \subseteq S
    PROVE  Ranked(T)
BY FS_Subset DEF Ranked

\* The stubs of the table can be put in order.
LEMMA TableRanked ==
    ASSUME TableOK, Ages
    PROVE  Ranked(StubsOf(table))
<1> DEFINE f == [i \in DOMAIN table |-> StubOf(table, i)]
<1>1. f \in Surjection(DOMAIN table, StubsOf(table))
  BY DEF Surjection, StubsOf
<1>2. IsFiniteSet(StubsOf(table))
  BY <1>1, FS_Surjection DEF Ages
<1>3. \A s, t \in StubsOf(table) : s # t => s.sequence # t.sequence
  BY StubIsEntry, EntryIsStub DEF Ages, TableOK
<1>4. StubsOf(table) \subseteq Stub
  BY StubIsEntry DEF TableOK
<1> QED BY <1>2, <1>3, <1>4 DEF Ranked

-----------------------------------------------------------------------------
(* The steps of the admin handlers.  Each is about one id, and leaves what *)
(* is known of the others alone.                                           *)

OnId(a, i) == ~ Idle(a) /\ job[a].id = i

\* Debts and Accounts, for one id.
Fine(i) ==
    i \notin tainted =>
        /\ \A a \in Admins : OnId(a, i) => Owes(a)
        /\ Paid(i) => Registered(i)

JobsOK ==
    /\ job \in [Admins -> {Nil} \cup Job]
    /\ \A a \in Admins : Idle(a) \/ Holds(job[a])

\* What a step of handler a on id i changes at most.
Moves(a, i) ==
    /\ JobsOK'
    /\ \A b \in Admins \ {a} : job'[b] = job[b]
    /\ Idle(a) \/ OnId(a, i)
    /\ Idle(a)' \/ OnId(a, i)'

Stores(i) ==
    /\ TableOK' /\ Ages' /\ OnlyAt(i)
    /\ states' \in [Scenarios -> States]
    /\ members' \in [Scenarios -> SUBSET Ids]
    /\ \A k \in Ids \ {i}, n \in Scenarios : k \in members'[n] <=> k \in members[n]

Watches ==
    /\ tainted \subseteq tainted' /\ tainted' \subseteq Ids
    /\ CallersUnchanged
    /\ steady' \in [Callers -> SUBSET Stub]
    /\ \A c \in Callers :
          steady'[c] \subseteq steady[c] /\ steady'[c] \subseteq StubsOf(table')

Changes(a, i) == Moves(a, i) /\ Stores(i) /\ Watches

\* What is known before a step: Inv without the part about the answers.
Known == TypeOK /\ Ages /\ (\A i \in Ids : Fine(i)) /\ \A c \in Callers : Stage(c) /\ Watch(c)

LEMMA KnownByInv == Inv => Known
BY DEF Inv, Known, Debts, Accounts, Fine, OnId, Serving

LEMMA InvByKnown == Known /\ ServedIsBest => Inv
<1> SUFFICES ASSUME Known, ServedIsBest PROVE Inv
  OBVIOUS
<1>1. \A a \in Admins : ~ Idle(a) => job[a].id \in Ids
  BY DEF Known, TypeOK, Job, Idle
<1> QED BY <1>1 DEF Inv, Known, Debts, Accounts, Fine, OnId, Serving

\* A handler that goes on holds what it is given.
LEMMA HoldJob ==
    ASSUME TypeOK, NEW a \in Admins,
           NEW step \in {"created", "putting", "replaced", "deleting", "deleted"},
           NEW i \in Ids, NEW e \in {Nil} \cup Stub, NEW w \in {Nil} \cup Stub,
           step # "created" => e # Nil /\ e.id = i,
           step \in {"created", "replaced"} => w # Nil /\ w.id = i,
           Idle(a) \/ OnId(a, i),
           Hold(a, step, i, e, w)
    PROVE  /\ Moves(a, i) /\ OnId(a, i)'
           /\ job'[a].step = step /\ job'[a].existing = e /\ job'[a].written = w
<1> DEFINE j == [step |-> step, id |-> i, existing |-> e, written |-> w]
<1>1. j \in Job /\ j.step = step /\ j.id = i /\ j.existing = e /\ j.written = w
  BY DEF Job
<1>2. j # Nil
  BY <1>1, NilAssumption
<1>3. /\ job' \in [Admins -> {Nil} \cup Job] /\ job'[a] = j
      /\ \A b \in Admins \ {a} : job'[b] = job[b]
  <2>1. job' = [job EXCEPT ![a] = j]
    BY DEF Hold
  <2> HIDE DEF j
  <2> QED BY <2>1, <1>1 DEF TypeOK
<1> HIDE DEF j
<1>4. Holds(j)
  BY <1>1 DEF Holds
<1>5. JobsOK'
  BY <1>3, <1>4 DEF JobsOK, TypeOK, Idle
<1> QED BY <1>1, <1>2, <1>3, <1>5 DEF Moves, OnId, Idle

\* A handler that is done holds nothing.
LEMMA RespondJob ==
    ASSUME TypeOK, NEW a \in Admins, NEW i \in Ids, OnId(a, i), Respond(a)
    PROVE  Moves(a, i) /\ Idle(a)'
<1>1. /\ job' \in [Admins -> {Nil} \cup Job] /\ job'[a] = Nil
      /\ \A b \in Admins \ {a} : job'[b] = job[b]
  BY DEF Respond, TypeOK
<1>2. JobsOK'
  BY <1>1 DEF JobsOK, TypeOK, Idle
<1> QED BY <1>1, <1>2 DEF Moves, Idle

\* What a handler holds between two calls.
LEMMA HeldJob ==
    ASSUME TypeOK, NEW a \in Admins, ~ Idle(a)
    PROVE  /\ job[a].id \in Ids /\ OnId(a, job[a].id)
           /\ job[a].step \in {"created", "putting", "replaced", "deleting", "deleted"}
           /\ job[a].step # "created" =>
                job[a].existing \in Stub /\ job[a].existing.id = job[a].id
           /\ job[a].step # "created" => job[a].existing # Nil
           /\ job[a].step \in {"created", "replaced"} =>
                job[a].written \in Stub /\ job[a].written.id = job[a].id
BY DEF TypeOK, Job, Holds, Idle, OnId

\* A change of one id leaves the others fine.
LEMMA Elsewhere ==
    ASSUME TypeOK, NEW a \in Admins, NEW i \in Ids, Changes(a, i),
           NEW k \in Ids \ {i}, Fine(k)
    PROVE  Fine(k)'
<1> SUFFICES ASSUME k \notin tainted' PROVE Fine(k)'
  BY DEF Fine
<1> USE DEF Changes
<1>1. k \notin tainted /\ (k \in DOMAIN table' <=> k \in DOMAIN table)
      /\ (k \in DOMAIN table => table'[k] = table[k])
      /\ \A n \in Scenarios : k \in members'[n] <=> k \in members[n]
  BY DEF Watches, Stores, OnlyAt
<1>2. ASSUME NEW b \in Admins PROVE OnId(b, k)' <=> OnId(b, k)
  BY DEF Moves, OnId, Idle
<1>3. ASSUME NEW b \in Admins, OnId(b, k)' PROVE job'[b] = job[b] /\ OnId(b, k) /\ b # a
  BY <1>2, <1>3 DEF Moves, OnId, Idle
<1>4. Registered(k)' <=> Registered(k)
  BY <1>1 DEF Registered, Member
<1>5. Paid(k)' <=> Paid(k)
  BY <1>2, <1>3 DEF Paid, OnId
<1>6. ASSUME NEW b \in Admins, OnId(b, k)' PROVE Owes(b)'
  <2>1. job'[b] = job[b] /\ OnId(b, k) /\ Owes(b) /\ job[b].id = k
    BY <1>1, <1>3, <1>6 DEF Fine, OnId
  <2>2. AloneOn(b)' <=> AloneOn(b)
    BY <2>1, <1>2 DEF AloneOn, OnId
  <2>3. k \in DOMAIN table => StubOf(table', k) = StubOf(table, k)
    BY <1>1 DEF StubOf
  <2>4. \A c \in Admins : ~ Idle(c)' /\ job'[c].id = k => ~ Idle(c) /\ job[c].id = k /\ job'[c] = job[c]
    BY <1>3 DEF OnId
  <2>5. MemberAs(k, job[b].existing)' <=> MemberAs(k, job[b].existing)
    BY <1>1, <2>1 DEF MemberAs, Member
  <2> QED BY <1>1, <2>1, <2>2, <2>3, <2>4, <2>5 DEF Owes, Member
<1> QED BY <1>1, <1>4, <1>5, <1>6 DEF Fine

-----------------------------------------------------------------------------
(* The methods of the scenario store.                                      *)

ScenariosOK ==
    /\ states \in [Scenarios -> States]
    /\ members \in [Scenarios -> SUBSET Ids]

\* Only the last member's leaving changes a state, and it changes it to Started.
Leaves(stub) ==
    \A n \in Scenarios :
        states'[n] = IF n = stub.def.scenario /\ members[n] \subseteq {stub.id}
                     THEN Started ELSE states[n]

LEMMA AfterCreated ==
    ASSUME ScenariosOK, NEW stub \in Stub, MappingCreated(stub)
    PROVE  /\ ScenariosOK' /\ states' = states
           /\ \A k \in Ids, n \in Scenarios :
                k \in members'[n] <=>
                    k \in members[n] \/ (k = stub.id /\ n = stub.def.scenario)
BY StubFields DEF ScenariosOK, MappingCreated, addMapping

LEMMA AfterUpdated ==
    ASSUME ScenariosOK, NEW old \in Stub, NEW new \in Stub, old.id = new.id,
           MappingUpdated(old, new)
    PROVE  /\ ScenariosOK'
           /\ \A k \in Ids, n \in Scenarios :
                k \in members'[n] <=>
                    \/ k = new.id /\ n = new.def.scenario
                    \/ k \in members[n] /\ ~ (k = old.id /\ n = old.def.scenario)
           /\ states' = states \/ Leaves(old)
<1>1. CASE old.def.scenario = new.def.scenario
  <2>1. MappingCreated(new)
    BY <1>1 DEF MappingUpdated
  <2> QED BY <1>1, <2>1, AfterCreated
<1>2. CASE old.def.scenario # new.def.scenario
  <2>1. /\ members' = addMapping(removeMember(members, old), new)
        /\ states' = removeState(states, members, old)
    BY <1>2 DEF MappingUpdated
  <2>2. members' \in [Scenarios -> SUBSET Ids]
    BY <2>1, StubFields DEF ScenariosOK, addMapping, removeMember
  <2>3. states' \in [Scenarios -> States] /\ Leaves(old)
    BY <2>1, ScenarioStoreAssumption DEF ScenariosOK, removeState, Leaves
  <2>4. \A k \in Ids, n \in Scenarios :
          k \in members'[n] <=>
              \/ k = new.id /\ n = new.def.scenario
              \/ k \in members[n] /\ ~ (k = old.id /\ n = old.def.scenario)
    BY <2>1 DEF ScenariosOK, addMapping, removeMember
  <2> QED BY <2>2, <2>3, <2>4 DEF ScenariosOK
<1> QED BY <1>1, <1>2

LEMMA AfterDeleted ==
    ASSUME ScenariosOK, NEW stub \in Stub, MappingDeleted(stub)
    PROVE  /\ ScenariosOK' /\ Leaves(stub)
           /\ \A k \in Ids, n \in Scenarios :
                k \in members'[n] <=>
                    k \in members[n] /\ ~ (k = stub.id /\ n = stub.def.scenario)
<1>1. /\ members' = removeMember(members, stub)
      /\ states' = removeState(states, members, stub)
  BY DEF MappingDeleted
<1>2. members' \in [Scenarios -> SUBSET Ids]
  BY <1>1 DEF ScenariosOK, removeMember
<1>3. states' \in [Scenarios -> States] /\ Leaves(stub)
  BY <1>1, ScenarioStoreAssumption DEF ScenariosOK, removeState, Leaves
<1>4. \A k \in Ids, n \in Scenarios :
        k \in members'[n] <=>
            k \in members[n] /\ ~ (k = stub.id /\ n = stub.def.scenario)
  BY <1>1 DEF ScenariosOK, removeMember
<1> QED BY <1>2, <1>3, <1>4 DEF ScenariosOK

-----------------------------------------------------------------------------
(* What one step changes, put together from the three kinds of call.       *)

LEMMA KnownParts ==
    ASSUME Known
    PROVE  /\ TypeOK /\ TableOK /\ Ages /\ ScenariosOK
           /\ \A i \in Ids : Fine(i)
BY TypeOKTable DEF Known, TypeOK, ScenariosOK

\* The step leaves the table alone.
LEMMA SameTable ==
    ASSUME Known, UNCHANGED tableVars, NEW i
    PROVE  TableOK' /\ Ages' /\ OnlyAt(i) /\ StubsOf(table') = StubsOf(table)
BY KnownParts DEF tableVars, TableOK, Ages, OnlyAt, StubsOf

\* ... and the scenario store.
LEMMA SameScenarios ==
    ASSUME Known, NEW i, TableOK', Ages', OnlyAt(i), UNCHANGED scenarioVars
    PROVE  Stores(i)
BY KnownParts DEF scenarioVars, Stores, ScenariosOK

\* The callers keep what is still in the table.
LEMMA Observed ==
    ASSUME Known, TableOK', Observe, CallersUnchanged,
           tainted \subseteq tainted', tainted' \subseteq Ids
    PROVE  Watches
<1>1. steady' \in [Callers -> SUBSET Stub]
  BY KnownParts DEF TypeOK, Observe
<1>2. \A c \in Callers : steady'[c] = steady[c] \cap StubsOf(table')
  BY KnownParts DEF TypeOK, Observe
<1> QED BY <1>1, <1>2 DEF Watches

LEMMA NothingToObserve ==
    ASSUME Known, UNCHANGED tableVars, UNCHANGED steady, CallersUnchanged,
           tainted \subseteq tainted', tainted' \subseteq Ids
    PROVE  Watches
<1>1. \A c \in Callers : steady[c] \subseteq StubsOf(table')
  BY DEF Known, Watch, tableVars
<1> QED BY <1>1, KnownParts DEF Watches, TypeOK

\* An untainted id stays so only when the operation that starts is harmless.
LEMMA AfterTaint ==
    ASSUME Known, NEW i \in Ids, NEW harmless, Taint(i, harmless)
    PROVE  /\ tainted \subseteq tainted' /\ tainted' \subseteq Ids
           /\ i \notin tainted' => harmless /\ i \notin tainted
BY KnownParts DEF Taint, TypeOK

-----------------------------------------------------------------------------
(* The admin handlers, step by step.                                       *)

\* POST: a new member is due, or the stub is one of its scenario already.
LEMMA StepPost ==
    ASSUME Known, NEW a \in Admins, NEW i \in Ids, NEW d \in Definitions, Post(a, i, d)
    PROVE  Changes(a, i) /\ Fine(i)'
<1>1. TableOK' /\ Ages' /\ OnlyAt(i) /\ i \in DOMAIN table' /\ table'[i].def = d
  BY KnownParts, InsertTable, OverwriteTable DEF Post
<1>2. /\ StubOf(table', i) \in Stub /\ StubOf(table', i).id = i
      /\ StubOf(table', i) # Nil
  BY <1>1, EntryIsStub DEF TableOK
<1>3. /\ Moves(a, i) /\ OnId(a, i)'
      /\ job'[a].step = "created" /\ job'[a].written = StubOf(table', i)
  <2>1. Idle(a) /\ Hold(a, "created", i, Nil, StubOf(table', i))
    BY DEF Post
  <2> QED BY <2>1, <1>2, KnownParts, HoldJob
<1>4. Stores(i)
  BY <1>1, SameScenarios DEF Post
<1>5. /\ tainted \subseteq tainted' /\ tainted' \subseteq Ids
      /\ i \notin tainted' => Busy(i) = {} /\ ~ OtherScenario(i, d) /\ i \notin tainted
  BY AfterTaint DEF Post
<1>6. Watches
  BY <1>1, <1>5, Observed DEF Post
<1>7. ASSUME i \notin tainted' PROVE Fine(i)'
  <2>1. \A b \in Admins : ~ OnId(b, i)
    BY <1>5, <1>7 DEF Busy, OnId, Idle
  <2>2. \A b \in Admins \ {a} : ~ OnId(b, i)'
    BY <2>1, <1>3 DEF Moves, OnId, Idle
  <2>3. Registered(i)
    BY <2>1, <1>5, <1>7, KnownParts DEF Fine, Paid, OnId
  <2>4. \A n \in Scenarios : Member(i, n)' => n = d.scenario
    BY <2>3, <1>5, <1>7 DEF Registered, Member, OtherScenario, Post, scenarioVars
  <2>5. Owes(a)'
    BY <1>1, <1>3, <2>2, <2>4 DEF Owes, AloneOn, OnId
  <2>6. ~ Paid(i)'
    BY <1>3 DEF Paid, OnId
  <2> QED BY <2>2, <2>5, <2>6 DEF Fine
<1> QED BY <1>3, <1>4, <1>6, <1>7 DEF Changes, Fine

\* The new member is registered.
LEMMA StepPosted ==
    ASSUME Known, NEW a \in Admins, NEW i \in Ids, OnId(a, i), Posted(a)
    PROVE  Changes(a, i) /\ Fine(i)'
<1> DEFINE stub == job[a].written
<1>1. ~ Idle(a) /\ job[a].step = "created" /\ job[a].id = i
  BY DEF Posted, At, Idle, OnId
<1>2. stub \in Stub /\ stub.id = i
  BY <1>1, KnownParts, HeldJob
<1> HIDE DEF stub
<1>3. Moves(a, i) /\ Idle(a)'
  BY KnownParts, RespondJob DEF Posted
<1>4. TableOK' /\ Ages' /\ OnlyAt(i) /\ table' = table
  BY SameTable DEF Posted, tableVars
<1>5. /\ ScenariosOK'
      /\ \A k \in Ids, n \in Scenarios :
           k \in members'[n] <=> k \in members[n] \/ (k = i /\ n = stub.def.scenario)
  BY <1>2, KnownParts, AfterCreated DEF Posted, stub
<1>6. Stores(i)
  BY <1>4, <1>5 DEF Stores, ScenariosOK
<1>7. Watches
  BY KnownParts, NothingToObserve DEF Posted, TypeOK
<1>8. ASSUME i \notin tainted' PROVE Fine(i)'
  <2>1. Owes(a)
    BY <1>8, KnownParts DEF Fine, Posted
  <2>2. /\ AloneOn(a) /\ i \in DOMAIN table /\ stub = StubOf(table, i)
        /\ \A n \in Scenarios : Member(i, n) => n = table[i].def.scenario
    BY <2>1, <1>1 DEF Owes, stub
  <2>3. stub.def = table[i].def
    BY <2>2, KnownParts, EntryIsStub DEF TableOK
  <2>4. \A b \in Admins : ~ OnId(b, i)'
    BY <2>2, <1>1, <1>3 DEF Moves, OnId, Idle, AloneOn
  <2>5. Registered(i)'
    BY <2>2, <2>3, <1>2, <1>4, <1>5 DEF Registered, Member
  <2> QED BY <2>4, <2>5 DEF Fine
<1> QED BY <1>3, <1>6, <1>7, <1>8 DEF Changes, Fine

\* PUT and DELETE begin with the stub that is there.
LEMMA StepFind ==
    ASSUME Known, NEW a \in Admins, NEW i \in Ids, PutFind(a, i) \/ DeleteFind(a, i)
    PROVE  Changes(a, i) /\ Fine(i)'
<1>1. TableOK' /\ Ages' /\ OnlyAt(i) /\ table' = table /\ members' = members
  BY SameTable DEF PutFind, DeleteFind, tableVars, scenarioVars
<1>2. /\ i \in DOMAIN table /\ Idle(a)
      /\ StubOf(table, i) \in Stub /\ StubOf(table, i).id = i /\ StubOf(table, i) # Nil
  BY KnownParts, EntryIsStub DEF PutFind, DeleteFind, TableOK
<1>3. /\ Moves(a, i) /\ OnId(a, i)'
      /\ job'[a].step = IF PutFind(a, i) THEN "putting" ELSE "deleting"
      /\ job'[a].existing = StubOf(table, i)
  <2>1. CASE PutFind(a, i)
    BY <2>1, <1>2, KnownParts, HoldJob DEF PutFind
  <2>2. CASE ~ PutFind(a, i)
    BY <2>2, <1>2, KnownParts, HoldJob DEF DeleteFind
  <2> QED BY <2>1, <2>2
<1>4. Stores(i)
  BY <1>1, SameScenarios DEF PutFind, DeleteFind
<1>5. /\ tainted \subseteq tainted' /\ tainted' \subseteq Ids
      /\ i \notin tainted' =>
           /\ i \notin tainted
           /\ IF PutFind(a, i) THEN Busy(i) = {} ELSE \A b \in Busy(i) : Deleting(b)
  <2>1. CASE PutFind(a, i)
    BY <2>1, AfterTaint DEF PutFind
  <2>2. CASE ~ PutFind(a, i)
    BY <2>2, AfterTaint DEF DeleteFind
  <2> QED BY <2>1, <2>2
<1>6. Watches
  BY <1>5, NothingToObserve DEF PutFind, DeleteFind
<1>7. ASSUME i \notin tainted' PROVE Fine(i)'
  <2>1. ASSUME NEW b \in Admins, OnId(b, i)
        PROVE  ~ PutFind(a, i) /\ job[b].step = "deleting" /\ b # a
    <3>1. b \in Busy(i) /\ b # a
      BY <2>1, <1>2 DEF Busy, OnId, Idle
    <3>2. ~ PutFind(a, i) /\ job[b].step \in {"deleting", "deleted"}
      BY <3>1, <1>5, <1>7 DEF Deleting
    <3>3. Owes(b)
      BY <2>1, <1>5, <1>7, KnownParts DEF Fine
    <3> QED BY <3>1, <3>2, <3>3, <1>2, <2>1 DEF Owes, OnId
  <2>2. Registered(i) /\ Registered(i)'
    BY <2>1, <1>1, <1>5, <1>7, KnownParts DEF Fine, Paid, OnId, Registered, Member
  <2>3. ASSUME NEW b \in Admins \ {a}, OnId(b, i)' PROVE OnId(b, i) /\ job'[b] = job[b]
    BY <2>3, <1>3 DEF Moves, OnId, Idle
  <2>4. Owes(a)'
    <3>1. CASE PutFind(a, i)
      <4>1. AloneOn(a)'
        BY <3>1, <2>1, <2>3, <1>3 DEF AloneOn, OnId
      <4> QED BY <3>1, <4>1, <1>1, <1>2, <1>3 DEF Owes, OnId
    <3>2. CASE ~ PutFind(a, i)
      BY <3>2, <1>1, <1>2, <1>3 DEF Owes, OnId
    <3> QED BY <3>1, <3>2
  <2>5. ASSUME NEW b \in Admins \ {a}, OnId(b, i)' PROVE Owes(b)'
    <3>1. OnId(b, i) /\ job'[b] = job[b] /\ job[b].step = "deleting" /\ Owes(b)
      BY <2>1, <2>3, <2>5, <1>5, <1>7, KnownParts DEF Fine
    <3> QED BY <3>1, <1>1 DEF Owes
  <2> QED BY <2>2, <2>4, <2>5 DEF Fine
<1> QED BY <1>3, <1>4, <1>6, <1>7 DEF Changes, Fine

\* PUT gives up, or DELETE finds the stub gone: nothing was owed.
LEMMA StepFails ==
    ASSUME Known, NEW a \in Admins, NEW i \in Ids, OnId(a, i), PutFails(a) \/ DeleteFails(a)
    PROVE  Changes(a, i) /\ Fine(i)'
<1>1. ~ Idle(a) /\ job[a].step \in {"putting", "deleting"}
  BY DEF PutFails, DeleteFails, At, Idle
<1>2. Moves(a, i) /\ Idle(a)'
  BY KnownParts, RespondJob DEF PutFails, DeleteFails
<1>3. TableOK' /\ Ages' /\ OnlyAt(i) /\ table' = table /\ members' = members
  BY SameTable DEF PutFails, DeleteFails, tableVars, scenarioVars
<1>4. Stores(i)
  BY <1>3, SameScenarios DEF PutFails, DeleteFails
<1>5. Watches /\ tainted' = tainted
  BY KnownParts, NothingToObserve DEF PutFails, DeleteFails, TypeOK
<1>6. ASSUME i \notin tainted' PROVE Fine(i)'
  <2>1. ASSUME NEW b \in Admins, OnId(b, i)'
        PROVE  b # a /\ job'[b] = job[b] /\ OnId(b, i)
    BY <2>1, <1>2 DEF Moves, OnId, Idle
  <2>2. Registered(i)' <=> Registered(i)
    BY <1>3 DEF Registered, Member
  <2>3. Paid(i)' => Paid(i)
    BY <1>1, <1>2 DEF Paid, OnId, Moves, Idle
  <2>4. ASSUME NEW b \in Admins, OnId(b, i)' PROVE Owes(b)'
    <3>1. Owes(b) /\ job'[b] = job[b] /\ OnId(b, i)
      BY <2>1, <2>4, <1>5, <1>6, KnownParts DEF Fine
    <3>2. AloneOn(b) => AloneOn(b)'
      BY <2>1, <3>1 DEF AloneOn, OnId
    <3>3. \A c \in Admins : ~ Idle(c)' /\ job'[c].id = i => ~ Idle(c) /\ job[c].id = i /\ job'[c] = job[c]
      BY <2>1 DEF OnId
    <3> QED BY <3>1, <3>2, <3>3, <1>3 DEF Owes, OnId, MemberAs, Member
  <2> QED BY <2>2, <2>3, <2>4, <1>5, <1>6, KnownParts DEF Fine
<1> QED BY <1>2, <1>4, <1>5, <1>6 DEF Changes, Fine

\* PUT writes the stub: the scenario store still has the old one.
LEMMA StepPutReplace ==
    ASSUME Known, NEW a \in Admins, NEW i \in Ids, OnId(a, i),
           NEW d \in Definitions, PutReplace(a, d)
    PROVE  Changes(a, i) /\ Fine(i)'
<1>1. ~ Idle(a) /\ job[a].step = "putting" /\ job[a].id = i
  BY DEF PutReplace, At, Idle, OnId
<1>2. job[a].existing \in Stub /\ job[a].existing.id = i /\ job[a].existing # Nil
  BY <1>1, KnownParts, HeldJob
<1>3. /\ TableOK' /\ Ages' /\ OnlyAt(i)
      /\ i \in DOMAIN table /\ i \in DOMAIN table'
  BY <1>1, KnownParts, OverwriteTable DEF PutReplace
<1>4. StubOf(table', i) \in Stub /\ StubOf(table', i).id = i /\ StubOf(table', i) # Nil
  BY <1>3, EntryIsStub DEF TableOK
<1>5. /\ Moves(a, i) /\ OnId(a, i)' /\ job'[a].step = "replaced"
      /\ job'[a].existing = job[a].existing /\ job'[a].written = StubOf(table', i)
  BY <1>1, <1>2, <1>4, KnownParts, HoldJob DEF PutReplace
<1>6. Stores(i)
  BY <1>3, SameScenarios DEF PutReplace
<1>7. Watches /\ tainted' = tainted
  BY <1>3, KnownParts, Observed DEF PutReplace, TypeOK
<1>8. ASSUME i \notin tainted' PROVE Fine(i)'
  <2>1. AloneOn(a) /\ job[a].existing = StubOf(table, i)
    BY <1>1, <1>7, <1>8, KnownParts DEF Fine, Owes, OnId
  <2>2. \A b \in Admins \ {a} : ~ OnId(b, i) /\ ~ OnId(b, i)'
    BY <2>1, <1>1, <1>5 DEF AloneOn, Moves, OnId, Idle
  <2>3. Registered(i)
    BY <2>2, <1>1, <1>7, <1>8, KnownParts DEF Fine, Paid, OnId
  <2>4. job[a].existing.def = table[i].def
    BY <2>1, <1>3, KnownParts, EntryIsStub DEF TableOK
  <2>5. MemberAs(i, job[a].existing)'
    BY <2>3, <2>4, <1>3, <1>5 DEF Registered, MemberAs, Member, PutReplace, scenarioVars
  <2>6. Owes(a)'
    BY <2>2, <2>5, <1>3, <1>5 DEF Owes, AloneOn, OnId
  <2>7. ~ Paid(i)'
    BY <1>5 DEF Paid, OnId
  <2> QED BY <2>2, <2>6, <2>7 DEF Fine
<1> QED BY <1>5, <1>6, <1>7, <1>8 DEF Changes, Fine

\* PUT moves the member from the scenario of the stub it read to that of the
\* one it wrote.
LEMMA StepPutDone ==
    ASSUME Known, NEW a \in Admins, NEW i \in Ids, OnId(a, i), PutDone(a)
    PROVE  Changes(a, i) /\ Fine(i)'
<1> DEFINE old == job[a].existing
           new == job[a].written
<1>1. ~ Idle(a) /\ job[a].step = "replaced" /\ job[a].id = i
  BY DEF PutDone, At, Idle, OnId
<1>2. old \in Stub /\ new \in Stub /\ old.id = i /\ new.id = i
  BY <1>1, KnownParts, HeldJob
<1> HIDE DEF old, new
<1>3. Moves(a, i) /\ Idle(a)'
  BY KnownParts, RespondJob DEF PutDone
<1>4. TableOK' /\ Ages' /\ OnlyAt(i) /\ table' = table
  BY SameTable DEF PutDone, tableVars
<1>5. /\ ScenariosOK'
      /\ \A k \in Ids, n \in Scenarios :
           k \in members'[n] <=>
               \/ k = i /\ n = new.def.scenario
               \/ k \in members[n] /\ ~ (k = i /\ n = old.def.scenario)
  BY <1>2, KnownParts, AfterUpdated DEF PutDone, old, new
<1>6. Stores(i)
  BY <1>4, <1>5 DEF Stores, ScenariosOK
<1>7. Watches /\ tainted' = tainted
  BY KnownParts, NothingToObserve DEF PutDone, TypeOK
<1>8. ASSUME i \notin tainted' PROVE Fine(i)'
  <2>1. Owes(a)
    BY <1>7, <1>8, KnownParts DEF Fine
  <2>2. AloneOn(a) /\ i \in DOMAIN table /\ new = StubOf(table, i) /\ MemberAs(i, old)
    BY <2>1, <1>1 DEF Owes, old, new
  <2>3. new.def = table[i].def
    BY <2>2, KnownParts, EntryIsStub DEF TableOK
  <2>4. \A b \in Admins : ~ OnId(b, i)'
    BY <2>2, <1>1, <1>3 DEF Moves, OnId, Idle, AloneOn
  <2>5. Registered(i)'
    BY <2>2, <2>3, <1>4, <1>5 DEF Registered, Member, MemberAs
  <2> QED BY <2>4, <2>5 DEF Fine
<1> QED BY <1>3, <1>6, <1>7, <1>8 DEF Changes, Fine

\* DELETE takes the stub it read, and nobody else has anything but a DELETE to
\* give up.
LEMMA StepDeleteStub ==
    ASSUME Known, NEW a \in Admins, NEW i \in Ids, OnId(a, i), DeleteStub(a)
    PROVE  Changes(a, i) /\ Fine(i)'
<1>1. ~ Idle(a) /\ job[a].step = "deleting" /\ job[a].id = i
  BY DEF DeleteStub, At, Idle, OnId
<1>2. job[a].existing \in Stub /\ job[a].existing.id = i /\ job[a].existing # Nil
  BY <1>1, KnownParts, HeldJob
<1>3. /\ TableOK' /\ Ages' /\ OnlyAt(i)
      /\ i \in DOMAIN table /\ i \notin DOMAIN table'
  BY <1>1, KnownParts, DeleteTable DEF DeleteStub
<1>4. /\ Moves(a, i) /\ OnId(a, i)' /\ job'[a].step = "deleted"
      /\ job'[a].existing = job[a].existing
  BY <1>1, <1>2, KnownParts, HoldJob DEF DeleteStub
<1>5. Stores(i)
  BY <1>3, SameScenarios DEF DeleteStub
<1>6. Watches /\ tainted' = tainted
  BY <1>3, KnownParts, Observed DEF DeleteStub, TypeOK
<1>7. ASSUME i \notin tainted' PROVE Fine(i)'
  <2>1. job[a].existing = StubOf(table, i)
    BY <1>1, <1>3, <1>6, <1>7, KnownParts DEF Fine, Owes
  <2>2. ASSUME NEW b \in Admins, OnId(b, i) PROVE job[b].step = "deleting"
    <3>1. Owes(b) /\ ~ Idle(b) /\ job[b].id = i
      BY <2>2, <1>6, <1>7, KnownParts DEF Fine, OnId
    <3>2. b # a => ~ AloneOn(b)
      BY <3>1, <1>1 DEF AloneOn
    <3>3. job[b].step \in {"created", "putting", "replaced", "deleting", "deleted"}
      BY <3>1, KnownParts, HeldJob
    <3> QED BY <3>1, <3>2, <3>3, <1>1, <1>3 DEF Owes
  <2>3. Registered(i)
    BY <2>2, <1>6, <1>7, KnownParts DEF Fine, Paid, OnId
  <2>4. job[a].existing.def = table[i].def
    BY <2>1, <1>3, KnownParts, EntryIsStub DEF TableOK
  <2>5. ASSUME NEW b \in Admins \ {a}, OnId(b, i)'
        PROVE  job'[b].step = "deleting" /\ job'[b].id = i
    BY <2>2, <2>5, <1>4 DEF Moves, OnId, Idle
  <2>6. MemberAs(i, job[a].existing)'
    BY <2>3, <2>4, <1>3, <1>4 DEF Registered, MemberAs, Member, DeleteStub, scenarioVars
  <2>7. Owes(a)'
    BY <2>5, <2>6, <1>3, <1>4 DEF Owes, OnId
  <2>8. ASSUME NEW b \in Admins \ {a}, OnId(b, i)' PROVE Owes(b)'
    BY <2>5, <2>8, <1>3 DEF Owes
  <2>9. ~ Paid(i)'
    BY <1>4 DEF Paid, OnId
  <2> QED BY <2>7, <2>8, <2>9 DEF Fine
<1> QED BY <1>4, <1>5, <1>6, <1>7 DEF Changes, Fine

\* The member goes with the stub.
LEMMA StepDeleteDone ==
    ASSUME Known, NEW a \in Admins, NEW i \in Ids, OnId(a, i), DeleteDone(a)
    PROVE  Changes(a, i) /\ Fine(i)'
<1> DEFINE old == job[a].existing
<1>1. ~ Idle(a) /\ job[a].step = "deleted" /\ job[a].id = i
  BY DEF DeleteDone, At, Idle, OnId
<1>2. old \in Stub /\ old.id = i
  BY <1>1, KnownParts, HeldJob
<1> HIDE DEF old
<1>3. Moves(a, i) /\ Idle(a)'
  BY KnownParts, RespondJob DEF DeleteDone
<1>4. TableOK' /\ Ages' /\ OnlyAt(i) /\ table' = table
  BY SameTable DEF DeleteDone, tableVars
<1>5. /\ ScenariosOK'
      /\ \A k \in Ids, n \in Scenarios :
           k \in members'[n] <=> k \in members[n] /\ ~ (k = i /\ n = old.def.scenario)
  BY <1>2, KnownParts, AfterDeleted DEF DeleteDone, old
<1>6. Stores(i)
  BY <1>4, <1>5 DEF Stores, ScenariosOK
<1>7. Watches /\ tainted' = tainted
  BY KnownParts, NothingToObserve DEF DeleteDone, TypeOK
<1>8. ASSUME i \notin tainted' PROVE Fine(i)'
  <2>1. Owes(a)
    BY <1>7, <1>8, KnownParts DEF Fine
  <2>2. /\ MemberAs(i, old) /\ i \notin DOMAIN table
        /\ \A b \in Admins \ {a} : OnId(b, i) => job[b].step = "deleting"
    BY <2>1, <1>1 DEF Owes, old, OnId
  <2>3. ASSUME NEW b \in Admins, OnId(b, i)'
        PROVE  b # a /\ job'[b] = job[b] /\ job'[b].step = "deleting" /\ job'[b].id = i
    BY <2>2, <2>3, <1>3 DEF Moves, OnId, Idle
  <2>4. Registered(i)'
    BY <2>2, <1>4, <1>5 DEF Registered, Member, MemberAs
  <2>5. ASSUME NEW b \in Admins, OnId(b, i)' PROVE Owes(b)'
    BY <2>2, <2>3, <2>5, <1>4 DEF Owes
  <2> QED BY <2>4, <2>5 DEF Fine
<1> QED BY <1>3, <1>6, <1>7, <1>8 DEF Changes, Fine

\* Every step of an admin handler, the reset of the scenarios apart.
LEMMA StepAdmin ==
    ASSUME Known, NEW a \in Admins, Admin(a), ~ ResetScenarios(a)
    PROVE  \E i \in Ids : Changes(a, i) /\ Fine(i)'
<1>1. ASSUME NEW i \in Ids, NEW d \in Definitions, Post(a, i, d)
      PROVE  \E k \in Ids : Changes(a, k) /\ Fine(k)'
  BY <1>1, StepPost
<1>2. ASSUME NEW i \in Ids, PutFind(a, i) \/ DeleteFind(a, i)
      PROVE  \E k \in Ids : Changes(a, k) /\ Fine(k)'
  BY <1>2, StepFind
<1>3. ASSUME ~ Idle(a)
      PROVE  \E k \in Ids : k = job[a].id /\ OnId(a, k)
  BY <1>3, KnownParts, HeldJob
<1>4. ASSUME NEW d \in Definitions, PutReplace(a, d)
      PROVE  \E k \in Ids : Changes(a, k) /\ Fine(k)'
  BY <1>3, <1>4, StepPutReplace DEF PutReplace, At, Idle
<1>5. ASSUME Posted(a) PROVE \E k \in Ids : Changes(a, k) /\ Fine(k)'
  BY <1>3, <1>5, StepPosted DEF Posted, At, Idle
<1>6. ASSUME PutFails(a) \/ DeleteFails(a) PROVE \E k \in Ids : Changes(a, k) /\ Fine(k)'
  BY <1>3, <1>6, StepFails DEF PutFails, DeleteFails, At, Idle
<1>7. ASSUME PutDone(a) PROVE \E k \in Ids : Changes(a, k) /\ Fine(k)'
  BY <1>3, <1>7, StepPutDone DEF PutDone, At, Idle
<1>8. ASSUME DeleteStub(a) PROVE \E k \in Ids : Changes(a, k) /\ Fine(k)'
  BY <1>3, <1>8, StepDeleteStub DEF DeleteStub, At, Idle
<1>9. ASSUME DeleteDone(a) PROVE \E k \in Ids : Changes(a, k) /\ Fine(k)'
  BY <1>3, <1>9, StepDeleteDone DEF DeleteDone, At, Idle
<1> QED BY <1>1, <1>2, <1>4, <1>5, <1>6, <1>7, <1>8, <1>9 DEF Admin

-----------------------------------------------------------------------------
(* The invariant is kept.                                                  *)

CallersOK ==
    /\ request \in [Callers -> {Nil} \cup Requests]
    /\ fast \in [Callers -> BOOLEAN]
    /\ candidates \in [Callers -> {Nil} \cup SUBSET Stub]
    /\ answer \in [Callers -> {Nil} \cup Found]
    /\ tainted \subseteq Ids
    /\ steady \in [Callers -> SUBSET Stub]

LEMMA TypeOKParts == TypeOK <=> TableOK /\ ScenariosOK /\ JobsOK /\ CallersOK
BY DEF TypeOK, TableOK, Entries, ScenariosOK, JobsOK, CallersOK

\* ServedIsBest, for one caller.
ServedWell(c) ==
    answer[c] # Nil =>
        \A s \in steady[c] :
            request[c] \in s.def.matches /\ matchesState(answer[c].states, s) =>
                answer[c].stub # Nil /\ ~ Before(s, answer[c].stub)

LEMMA ServedIsBestByCaller == ServedIsBest <=> \A c \in Callers : ServedWell(c)
BY DEF ServedIsBest, ServedWell

\* The handlers leave what the callers have found good: the table changes under
\* them, and what is steady shrinks with it.
LEMMA KeptByAdmins ==
    ASSUME Inv, NEW a \in Admins, Admin(a)
    PROVE  Inv'
<1>1. Known /\ ServedIsBest
  BY KnownByInv DEF Inv
<1>2. CASE ResetScenarios(a)
  <2>1. /\ UNCHANGED <<table, issued, members, job, tainted, steady>>
        /\ UNCHANGED <<request, fast, candidates, answer>>
        /\ states' = [n \in Scenarios |-> Started]
    BY <1>2 DEF ResetScenarios, Reset, CallersUnchanged, tableVars
  <2>2. states' \in [Scenarios -> States]
    BY <2>1, ScenarioStoreAssumption
  <2>3. TypeOK'
    BY <1>1, <2>1, <2>2 DEF Known, TypeOK, Idle
  <2>4. Ages' /\ \A i \in Ids : Fine(i)'
    BY <1>1, <2>1 DEF Known, Ages, Fine, Owes, OnId, AloneOn, Idle, Paid, Registered, Member, MemberAs
  <2>5. \A c \in Callers : Stage(c)' /\ Watch(c)'
    BY <1>1, <2>1 DEF Known, Stage, Watch, StubsOf, Ranked
  <2>6. ServedIsBest'
    BY <1>1, <2>1 DEF ServedIsBest
  <2>7. Known'
    BY <2>3, <2>4, <2>5 DEF Known
  <2> QED BY <2>6, <2>7, InvByKnown, PTL
<1>3. CASE ~ ResetScenarios(a)
  <2>1. PICK i \in Ids : Changes(a, i) /\ Fine(i)'
    BY <1>1, <1>3, StepAdmin
  <2>2. \A k \in Ids : Fine(k)'
    BY <1>1, <2>1, Elsewhere DEF Known
  <2>3. /\ request' = request /\ fast' = fast /\ candidates' = candidates /\ answer' = answer
        /\ \A c \in Callers :
              steady'[c] \subseteq steady[c] /\ steady'[c] \subseteq StubsOf(table')
    BY <2>1 DEF Changes, Watches, CallersUnchanged
  <2>4. CallersOK'
    BY <1>1, <2>1, <2>3 DEF Known, TypeOK, CallersOK, Changes, Watches
  <2>5. TableOK' /\ ScenariosOK' /\ JobsOK' /\ Ages'
    BY <2>1 DEF Changes, Moves, Stores, ScenariosOK
  <2>6. TypeOK'
    BY <2>4, <2>5, TypeOKParts, PTL
  <2>7. \A c \in Callers : Stage(c)' /\ Watch(c)'
    BY <1>1, <2>3 DEF Known, Stage, Watch, Ranked
  <2>8. ServedIsBest'
    BY <1>1, <2>3 DEF ServedIsBest
  <2>9. Known'
    BY <2>2, <2>5, <2>6, <2>7 DEF Known
  <2> QED BY <2>8, <2>9, InvByKnown, PTL
<1> QED BY <1>2, <1>3

\* What a step of caller c leaves alone.
LeavesOthers(c) ==
    /\ UNCHANGED <<table, issued, members, job, tainted>>
    /\ states' \in [Scenarios -> States]
    /\ CallersOK'
    /\ \A d \in Callers \ {c} :
          /\ request'[d] = request[d] /\ fast'[d] = fast[d] /\ steady'[d] = steady[d]
          /\ candidates'[d] = candidates[d] /\ answer'[d] = answer[d]

LEMMA KeptByCaller ==
    ASSUME Inv, NEW c \in Callers, LeavesOthers(c), Stage(c)', Watch(c)', ServedWell(c)'
    PROVE  Inv'
<1>1. Known /\ ServedIsBest
  BY KnownByInv DEF Inv
<1> USE DEF LeavesOthers
<1>2. TableOK' /\ ScenariosOK' /\ JobsOK'
  BY <1>1, KnownParts DEF TypeOK, TableOK, ScenariosOK, JobsOK, Idle
<1>3. TypeOK'
  BY <1>2, TypeOKParts, PTL
<1>4. Ages' /\ \A i \in Ids : Fine(i)'
  BY <1>1 DEF Known, Ages, Fine, Owes, OnId, AloneOn, Idle, Paid, Registered, Member, MemberAs
<1>5. \A d \in Callers \ {c} : Stage(d)' /\ Watch(d)'
  BY <1>1 DEF Known, Stage, Watch, StubsOf, Ranked
<1>6. \A d \in Callers \ {c} : ServedWell(d)'
  BY <1>1, ServedIsBestByCaller DEF ServedWell
<1>7. ServedIsBest'
  BY <1>6 DEF ServedIsBest, ServedWell
<1>8. Known'
  BY <1>3, <1>4, <1>5 DEF Known
<1> QED BY <1>7, <1>8, InvByKnown, PTL

\* An answer is typed.
LEMMA AnswerFound ==
    ASSUME Known, NEW c \in Callers, NEW stub \in {Nil} \cup Stub, Answer(c, stub)
    PROVE  /\ answer' \in [Callers -> {Nil} \cup Found]
           /\ answer'[c] # Nil /\ answer'[c].stub = stub /\ answer'[c].states = states
           /\ \A d \in Callers \ {c} : answer'[d] = answer[d]
<1> DEFINE r == [stub |-> stub, states |-> states]
<1>1. r \in Found /\ r.stub = stub /\ r.states = states
  BY KnownParts DEF ScenariosOK, Found
<1>2. r # Nil
  BY <1>1, NilAssumption
<1>3. answer' = [answer EXCEPT ![c] = r]
  BY DEF Answer
<1> HIDE DEF r
<1> QED BY <1>1, <1>2, <1>3, KnownParts DEF TypeOK

\* A request arrives: all stubs are steady from here.
LEMMA StepArrive ==
    ASSUME Inv, NEW c \in Callers, NEW q \in Requests, Arrive(c, q)
    PROVE  Inv'
<1>1. Known /\ TypeOK /\ TableOK
  BY KnownByInv, KnownParts
<1>2. StubsOf(table) \subseteq Stub /\ UNCHANGED <<table, issued, states, members, job>>
  BY <1>1, StubIsEntry DEF TableOK, Arrive, tableVars, scenarioVars
<1>3. /\ request' \in [Callers -> {Nil} \cup Requests] /\ request'[c] = q
      /\ steady' \in [Callers -> SUBSET Stub] /\ steady'[c] = StubsOf(table)
      /\ candidates' = candidates /\ answer' = answer /\ tainted' = tainted
      /\ fast' \in [Callers -> BOOLEAN]
      /\ fast'[c] => \A s \in StubsOf(table) : ~ HasScenario(s)
      /\ \A d \in Callers \ {c} :
            request'[d] = request[d] /\ fast'[d] = fast[d] /\ steady'[d] = steady[d]
  BY <1>1, <1>2 DEF Arrive, TypeOK
<1>4. candidates[c] = Nil /\ answer[c] = Nil
  BY <1>1 DEF Known, Stage, Arrive
<1>5. LeavesOthers(c)
  BY <1>1, <1>2, <1>3 DEF LeavesOthers, CallersOK, TypeOK
<1>6. StubsOf(table') = StubsOf(table)
  BY <1>2
<1>7. Stage(c)' /\ Watch(c)' /\ ServedWell(c)'
  BY <1>3, <1>4, <1>6 DEF Stage, Watch, ServedWell
<1> QED BY <1>5, <1>7, KeptByCaller

\* Without scenarios in sight the best of the matching stubs is taken at once.
LEMMA StepSelectFast ==
    ASSUME Inv, NEW c \in Callers, SelectFast(c)
    PROVE  Inv'
<1> DEFINE S == Matching(request[c])
<1>1. Known /\ TypeOK /\ TableOK /\ Ages
  BY KnownByInv, KnownParts
<1>2. UNCHANGED <<table, issued, states, members, job, request, fast, candidates, tainted, steady>>
  BY DEF SelectFast, tableVars, scenarioVars
<1>3. Ranked(S) /\ S \subseteq Stub
  BY <1>1, TableRanked, RankedSubset DEF Matching, Ranked
<1>4. S # {} => /\ Selected(S) \in S /\ Selected(S) # Nil
                /\ \A o \in S : ~ Before(o, Selected(S))
  BY <1>3, SelectedIsFirst, NilAssumption
<1>5. Selected(S) \in {Nil} \cup Stub
  BY <1>3, <1>4 DEF Selected
<1>6. /\ answer' \in [Callers -> {Nil} \cup Found]
      /\ answer'[c] # Nil /\ answer'[c].stub = Selected(S)
      /\ \A d \in Callers \ {c} : answer'[d] = answer[d]
  BY <1>1, <1>5, AnswerFound DEF SelectFast
<1>7. LeavesOthers(c)
  BY <1>1, <1>2, <1>6 DEF LeavesOthers, CallersOK, TypeOK
<1>8. \A s \in steady[c] : request[c] \in s.def.matches => s \in S
  BY <1>1 DEF Known, Watch, Matching
<1> HIDE DEF S
<1>9. ServedWell(c)'
  BY <1>2, <1>4, <1>6, <1>8 DEF ServedWell
<1>10. Stage(c)'
  BY <1>1, <1>2, <1>6 DEF Known, Stage, SelectFast, Waiting
<1>11. Watch(c)'
  BY <1>1, <1>2 DEF Known, Watch, StubsOf, Ranked
<1> QED BY <1>7, <1>9, <1>10, <1>11, KeptByCaller

\* With scenarios the matching stubs are set aside first.
LEMMA StepCollect ==
    ASSUME Inv, NEW c \in Callers, Collect(c)
    PROVE  Inv'
<1> DEFINE S == Matching(request[c])
<1>1. Known /\ TypeOK /\ TableOK /\ Ages
  BY KnownByInv, KnownParts
<1>2. UNCHANGED <<table, issued, states, members, job, request, fast, answer, tainted, steady>>
  BY DEF Collect, tableVars, scenarioVars
<1>3. Ranked(S) /\ S \subseteq Stub
  BY <1>1, TableRanked, RankedSubset DEF Matching, Ranked
<1>4. \A s \in steady[c] : request[c] \in s.def.matches => s \in S
  BY <1>1 DEF Known, Watch, Matching
<1>5. candidates' = [candidates EXCEPT ![c] = S]
  BY DEF Collect
<1>6. request[c] # Nil /\ answer[c] = Nil
  BY DEF Collect, Waiting
<1> HIDE DEF S
<1>7. /\ candidates' \in [Callers -> {Nil} \cup SUBSET Stub] /\ candidates'[c] = S
      /\ \A d \in Callers \ {c} : candidates'[d] = candidates[d]
  BY <1>1, <1>3, <1>5 DEF TypeOK
<1>8. LeavesOthers(c)
  BY <1>1, <1>2, <1>7 DEF LeavesOthers, CallersOK, TypeOK
<1>9. Stage(c)' /\ ServedWell(c)'
  BY <1>2, <1>6 DEF Stage, ServedWell
<1>10. Watch(c)'
  BY <1>1, <1>2, <1>3, <1>4, <1>7 DEF Known, Watch, StubsOf, Ranked
<1> QED BY <1>8, <1>9, <1>10, KeptByCaller

\* The candidates that are open, at the moment of the selection.
Open(c) == {s \in candidates[c] : matchesState(states, s)}

\* The best of them is taken, and its scenario moves on.
LEMMA StepSelectAndTransition ==
    ASSUME Inv, NEW c \in Callers, SelectAndTransition(c)
    PROVE  Inv'
<1>1. Known /\ TypeOK /\ TableOK /\ Ages /\ ScenariosOK
  BY KnownByInv, KnownParts
<1>2. UNCHANGED <<table, issued, members, job, request, fast, tainted, steady>>
  BY DEF SelectAndTransition, tableVars, scenarioVars, Transition
<1>3. Ranked(Open(c)) /\ Open(c) \subseteq Stub
  <2>1. Ranked(candidates[c])
    BY <1>1 DEF Known, Watch, SelectAndTransition
  <2> QED BY <2>1, RankedSubset DEF Open, Ranked
<1>4. Open(c) # {} => /\ Selected(Open(c)) = Best(Open(c))
                      /\ Best(Open(c)) \in Open(c) /\ Best(Open(c)) # Nil
                      /\ \A o \in Open(c) : ~ Before(o, Best(Open(c)))
  BY <1>3, SelectedIsFirst, NilAssumption
<1>5. Selected(Open(c)) \in {Nil} \cup Stub
  BY <1>3, <1>4 DEF Selected
<1>6. /\ answer' \in [Callers -> {Nil} \cup Found] /\ answer'[c] # Nil
      /\ answer'[c].stub = Selected(Open(c)) /\ answer'[c].states = states
      /\ \A d \in Callers \ {c} : answer'[d] = answer[d]
  BY <1>1, <1>5, AnswerFound DEF SelectAndTransition, Open
<1>7. /\ candidates' \in [Callers -> {Nil} \cup SUBSET Stub] /\ candidates'[c] = Nil
      /\ \A d \in Callers \ {c} : candidates'[d] = candidates[d]
  BY <1>1 DEF TypeOK, SelectAndTransition
<1>8. states' \in [Scenarios -> States]
  <2>1. CASE Open(c) = {}
    BY <2>1, <1>1 DEF SelectAndTransition, Open, scenarioVars, ScenariosOK
  <2>2. CASE Open(c) # {}
    <3>1. Best(Open(c)) \in Stub /\ Transition(Best(Open(c)))
      BY <2>2, <1>3, <1>4 DEF SelectAndTransition, Open
    <3>2. Best(Open(c)).def.new \in States \cup {None}
      BY <3>1, StubFields, DefinitionFields
    <3> QED BY <3>1, <3>2, <1>1 DEF Transition, ScenariosOK
  <2> QED BY <2>1, <2>2
<1>9. LeavesOthers(c)
  BY <1>1, <1>2, <1>6, <1>7, <1>8 DEF LeavesOthers, CallersOK, TypeOK
<1>10. request[c] # Nil /\ Stage(c)'
  BY <1>1, <1>2, <1>6, <1>7 DEF Known, Stage, SelectAndTransition
<1>11. Watch(c)'
  BY <1>1, <1>2, <1>7 DEF Known, Watch, StubsOf, Ranked
<1>12. \A s \in steady[c] :
         request[c] \in s.def.matches /\ matchesState(states, s) => s \in Open(c)
  BY <1>1 DEF Known, Watch, SelectAndTransition, Open
<1>13. ServedWell(c)'
  BY <1>2, <1>4, <1>6, <1>12 DEF ServedWell
<1> QED BY <1>9, <1>10, <1>11, <1>13, KeptByCaller

\* The answer is sent.
LEMMA StepServed ==
    ASSUME Inv, NEW c \in Callers, Served(c)
    PROVE  Inv'
<1>1. Known /\ TypeOK
  BY KnownByInv, KnownParts
<1>2. UNCHANGED <<table, issued, states, members, job, candidates, tainted>>
  BY DEF Served, tableVars, scenarioVars
<1>3. /\ request' \in [Callers -> {Nil} \cup Requests] /\ request'[c] = Nil
      /\ fast' \in [Callers -> BOOLEAN] /\ ~ fast'[c]
      /\ answer' \in [Callers -> {Nil} \cup Found] /\ answer'[c] = Nil
      /\ steady' \in [Callers -> SUBSET Stub] /\ steady'[c] = {}
      /\ \A d \in Callers \ {c} :
            /\ request'[d] = request[d] /\ fast'[d] = fast[d]
            /\ answer'[d] = answer[d] /\ steady'[d] = steady[d]
  BY <1>1 DEF Served, TypeOK
<1>4. LeavesOthers(c)
  BY <1>1, <1>2, <1>3 DEF LeavesOthers, CallersOK, TypeOK
<1>5. candidates[c] = Nil
  BY <1>1 DEF Known, Stage, Served
<1>6. Stage(c)' /\ Watch(c)' /\ ServedWell(c)'
  BY <1>2, <1>3, <1>5 DEF Stage, Watch, ServedWell
<1> QED BY <1>4, <1>6, KeptByCaller

LEMMA InitInv == Init => Inv
<1> SUFFICES ASSUME Init PROVE Inv
  OBVIOUS
<1>1. /\ DOMAIN table = {} /\ issued = 0
      /\ \A a \in Admins : Idle(a)
      /\ \A c \in Callers : /\ request[c] = Nil /\ candidates[c] = Nil /\ answer[c] = Nil
                            /\ ~ fast[c] /\ steady[c] = {}
      /\ \A n \in Scenarios : members[n] = {}
  BY DEF Init, TableInit, EmptyTable, ScenarioInit, Idle
<1>2. TypeOK
  BY <1>1, ScenarioStoreAssumption DEF Init, ScenarioInit, TypeOK
<1>3. Ages
  BY <1>1, FS_EmptySet DEF Ages
<1>4. Debts /\ Accounts
  BY <1>1 DEF Debts, Accounts, Registered, Member
<1>5. Serving
  BY <1>1, <1>3 DEF Serving, Stage, Watch
<1>6. ServedIsBest
  BY <1>1 DEF ServedIsBest
<1> QED BY <1>2, <1>4, <1>5, <1>6 DEF Inv

LEMMA NextInv == Inv /\ [Next]_vars => Inv'
<1> SUFFICES ASSUME Inv, [Next]_vars PROVE Inv'
  OBVIOUS
<1>1. CASE \E a \in Admins : Admin(a)
  BY <1>1, KeptByAdmins
<1>2. CASE \E c \in Callers : Caller(c)
  BY <1>2, StepArrive, StepSelectFast, StepCollect, StepSelectAndTransition, StepServed
  DEF Caller
<1>3. CASE UNCHANGED vars
  <2>1. UNCHANGED <<table, issued, states, members, job, request, fast, candidates, answer,
                    tainted, steady>>
    BY <1>3 DEF vars, handlerVars
  <2>2. TypeOK'
    BY <2>1 DEF Inv, TypeOK, Idle
  <2>3. Debts' /\ Accounts'
    BY <2>1 DEF Inv, Debts, Accounts, Owes, AloneOn, Idle, Paid, Registered, Member, MemberAs
  <2>4. Serving' /\ ServedIsBest'
    BY <2>1 DEF Inv, Serving, ServedIsBest, Ages, Stage, Watch, StubsOf, Ranked
  <2> QED BY <2>2, <2>3, <2>4 DEF Inv
<1> QED BY <1>1, <1>2, <1>3 DEF Next

LEMMA InvAlways == Spec => []Inv
BY InitInv, NextInv, PTL DEF Spec

-----------------------------------------------------------------------------
(* What the invariant says of the properties.                              *)

LEMMA InvImpliesMembersExact == Inv => MembersExact
<1> SUFFICES ASSUME Inv, NEW i \in Ids, Settled(i) PROVE Registered(i)
  BY DEF MembersExact, Registered, Member
<1>1. i \notin tainted /\ \A a \in Admins : ~ OnId(a, i)
  BY DEF Settled, Busy, OnId, Idle
<1>2. Paid(i)
  BY <1>1 DEF Paid, OnId
<1> QED BY <1>1, <1>2 DEF Inv, Accounts

\* An admin handler touches the states by a reset, or when the stub it read
\* before leaves its scenario.
LEMMA StatesByAdmin ==
    ASSUME Inv, NEW a \in Admins, Admin(a)
    PROVE  \/ states' = states
           \/ ResetScenarios(a)
           \/ /\ ~ Idle(a) /\ job[a].existing.id = job[a].id
              /\ Leaves(job[a].existing)
<1>1. TypeOK /\ ScenariosOK
  BY KnownByInv, KnownParts
<1>2. CASE PutDone(a)
  <2>1. ~ Idle(a) /\ job[a].step = "replaced"
    BY <1>2 DEF PutDone, At, Idle
  <2> QED BY <2>1, <1>1, <1>2, HeldJob, AfterUpdated DEF PutDone
<1>3. CASE DeleteDone(a)
  <2>1. ~ Idle(a) /\ job[a].step = "deleted"
    BY <1>3 DEF DeleteDone, At, Idle
  <2> QED BY <2>1, <1>1, <1>3, HeldJob, AfterDeleted DEF DeleteDone
<1>4. CASE \/ \E i \in Ids : \/ \E d \in Definitions : Post(a, i, d)
                             \/ PutFind(a, i) \/ DeleteFind(a, i)
           \/ \E d \in Definitions : PutReplace(a, d)
           \/ Posted(a) \/ PutFails(a) \/ DeleteFails(a) \/ DeleteStub(a)
  BY <1>4 DEF Post, PutFind, DeleteFind, PutReplace, Posted, PutFails, DeleteFails,
              DeleteStub, scenarioVars, MappingCreated
<1> QED BY <1>2, <1>3, <1>4 DEF Admin

\* A caller touches the states by its selection.
LEMMA StatesByCaller ==
    ASSUME Inv, NEW c \in Callers, Caller(c)
    PROVE  /\ states' = states \/ SelectAndTransition(c)
           /\ SelectAndTransition(c) => Selecting(c)
           /\ \A d \in Callers \ {c} : ~ Selecting(d)
           /\ job' = job
<1>1. Known /\ TypeOK
  BY KnownByInv, KnownParts
<1>2. ASSUME SelectAndTransition(c) PROVE Selecting(c)
  <2>1. Ranked(candidates[c]) /\ Ranked(Open(c)) /\ Open(c) \subseteq Stub
    BY <1>1, <1>2, RankedSubset DEF Known, Watch, SelectAndTransition, Open, Ranked
  <2>2. Selected(Open(c)) \in {Nil} \cup Stub
    BY <2>1, SelectedIsFirst DEF Selected
  <2> QED BY <2>2, <1>1, <1>2, AnswerFound DEF SelectAndTransition, Open, Selecting
<1>3. \A d \in Callers \ {c} : answer'[d] = answer[d]
  BY <1>1 DEF Caller, Arrive, SelectFast, Collect, SelectAndTransition, Served, Answer, TypeOK
<1> QED BY <1>2, <1>3 DEF Caller, Arrive, SelectFast, Collect, SelectAndTransition, Served,
                          scenarioVars, Selecting

LEMMA StepStateKept ==
    ASSUME Inv, Next, NEW n \in Scenarios, states'[n] # states[n]
    PROVE  \/ ~ HasSettledStub(n)
           \/ \E a \in Admins : ResetScenarios(a)
           \/ \E c \in Callers : answer[c] = Nil /\ answer'[c] # Nil
<1>1. CASE \E c \in Callers : Caller(c)
  BY <1>1, StatesByCaller DEF Selecting
<1>2. ASSUME NEW a \in Admins, Admin(a), ~ ResetScenarios(a), HasSettledStub(n)
      PROVE  FALSE
  <2>1. /\ ~ Idle(a) /\ job[a].existing.id = job[a].id
        /\ Leaves(job[a].existing)
    BY <1>2, StatesByAdmin
  <2>2. members[n] \subseteq {job[a].id}
    BY <2>1 DEF Leaves
  <2>3. PICK i \in DOMAIN table : Settled(i) /\ table[i].def.scenario = n
    BY <1>2 DEF HasSettledStub
  <2>4. i \in Ids /\ i \in members[n]
    BY <2>3, InvImpliesMembersExact DEF MembersExact, Inv, TypeOK
  <2>5. a \in Busy(i)
    BY <2>1, <2>2, <2>4 DEF Busy, Idle
  <2> QED BY <2>3, <2>5 DEF Settled
<1> QED BY <1>1, <1>2 DEF Next

LEMMA StepLastDelete ==
    ASSUME Inv, Next, NEW a \in Admins, NEW n \in Scenarios, LastDeleted(a, n), tainted = {}
    PROVE  states'[n] = Started
<1>1. Known /\ TypeOK /\ ScenariosOK
  BY KnownByInv, KnownParts
<1>2. ~ Idle(a) /\ job[a].step = "deleted" /\ job'[a] = Nil
  BY DEF LastDeleted, At, Idle
<1>3. DeleteDone(a)
  <2>1. ASSUME NEW b \in Admins, Admin(b) PROVE b = a /\ ~ ResetScenarios(b)
    <3>1. CASE ResetScenarios(b)
      BY <3>1, <1>2 DEF ResetScenarios, Idle
    <3>2. CASE ~ ResetScenarios(b)
      BY <2>1, <3>2, <1>1, <1>2, StepAdmin DEF Changes, Moves, Idle
    <3> QED BY <3>1, <3>2
  <2>2. ~ \E c \in Callers : Caller(c)
    BY <1>2, StatesByCaller DEF Idle
  <2>3. Admin(a)
    BY <2>1, <2>2 DEF Next
  <2>4. \A d \in Definitions : ~ PutReplace(a, d)
    BY <1>2 DEF PutReplace, At
  <2> QED BY <2>3, <2>4, <1>2 DEF Admin, Post, PutFind, DeleteFind, PutDone, Posted,
             PutFails, DeleteFails, DeleteStub, ResetScenarios, At
<1>4. /\ job[a].existing \in Stub /\ job[a].existing.id = job[a].id
      /\ Leaves(job[a].existing) /\ job[a].existing.def.scenario = n
  BY <1>1, <1>2, <1>3, HeldJob, AfterDeleted DEF DeleteDone, LastDeleted
<1>5. ASSUME NEW i \in members[n], i # job[a].id PROVE FALSE
  <2>1. i \in Ids
    BY <1>1 DEF ScenariosOK
  <2>2. Settled(i)
    BY <1>5 DEF Settled, Busy, LastDeleted, Idle
  <2>3. i \in DOMAIN table /\ table[i].def.scenario = n
    BY <2>1, <2>2, <1>5, InvImpliesMembersExact DEF MembersExact
  <2> QED BY <2>3 DEF LastDeleted
<1> QED BY <1>4, <1>5 DEF Leaves

LEMMA StepServedInState ==
    ASSUME Inv, Next, NEW c \in Callers, Selecting(c), \E s \in steady[c] : HasScenario(s)
    PROVE  InState(c)
<1>1. Known /\ TypeOK /\ ScenariosOK
  BY KnownByInv, KnownParts
<1>2. ~ \E a \in Admins : Admin(a)
  <2>1. ASSUME NEW a \in Admins, Admin(a) PROVE answer' = answer
    <3>1. CASE ResetScenarios(a)
      BY <3>1 DEF ResetScenarios, CallersUnchanged
    <3>2. CASE ~ ResetScenarios(a)
      BY <2>1, <3>2, <1>1, StepAdmin DEF Changes, Watches, CallersUnchanged
    <3> QED BY <3>1, <3>2
  <2> QED BY <2>1 DEF Selecting
<1>3. Caller(c)
  BY <1>2, StatesByCaller DEF Next
<1>4. ~ SelectFast(c)
  BY <1>1 DEF Known, Watch, SelectFast
<1>5. SelectAndTransition(c)
  BY <1>1, <1>3, <1>4 DEF Caller, Selecting, Arrive, Collect, Served, TypeOK
<1>6. Ranked(Open(c)) /\ Open(c) \subseteq Stub
  <2>1. Ranked(candidates[c])
    BY <1>1, <1>5 DEF Known, Watch, SelectAndTransition
  <2> QED BY <2>1, RankedSubset DEF Open, Ranked
<1>7. answer'[c].stub = Selected(Open(c))
  BY <1>1, <1>5, <1>6, SelectedIsFirst, AnswerFound DEF SelectAndTransition, Open, Selected
<1>8. CASE Open(c) = {}
  BY <1>7, <1>8 DEF InState, Selected
<1>9. CASE Open(c) # {}
  <2> DEFINE s == Best(Open(c))
  <2>1. s \in Open(c) /\ s \in Stub /\ answer'[c].stub = s
    BY <1>6, <1>7, <1>9, SelectedIsFirst
  <2>2. matchesState(states, s) /\ Transition(s)
    BY <1>5, <1>9, <2>1 DEF SelectAndTransition, Open
  <2> HIDE DEF s
  <2>3. s.def.scenario \in Scenarios \cup {None}
    BY <2>1, StubFields, DefinitionFields
  <2>4. ASSUME HasScenario(s)
        PROVE  /\ s.def.required \in {None, states[s.def.scenario]}
               /\ s.def.new \in {None, states'[s.def.scenario]}
    BY <2>2, <2>3, <2>4, <1>1 DEF matchesState, HasScenario, Transition, ScenariosOK
  <2> QED BY <2>1, <2>4 DEF InState
<1> QED BY <1>8, <1>9

-----------------------------------------------------------------------------
(* Theorems.                                                               *)

\* The stores and what the handlers hold keep their types.
THEOREM TypeCorrect == Spec => []TypeOK
BY InvAlways, PTL DEF Inv

\* However handlers of different ids, deletes of the same id, resets and
\* requests interleave, the scenario store has the members the table says.
THEOREM MembersAreExact == Spec => []MembersExact
BY InvAlways, InvImpliesMembersExact, PTL

\* No deletion, update or creation of a stub takes a scenario out of its state
\* while a settled stub belongs to it.
THEOREM StateIsKept == Spec => StateKept
<1>1. Inv /\ [Next]_vars =>
        [\A n \in Scenarios :
            states'[n] # states[n] =>
              \/ ~ HasSettledStub(n)
              \/ \E a \in Admins : ResetScenarios(a)
              \/ \E c \in Callers : answer[c] = Nil /\ answer'[c] # Nil]_vars
  BY StepStateKept
<1> QED BY <1>1, InvAlways, PTL DEF Spec, StateKept

\* The DELETE of a scenario's last stub forgets its state, when no operations
\* on one id have overlapped.
THEOREM LastDeleteRestarts == Spec => LastDeleteForgets
<1>1. Inv /\ [Next]_vars =>
        [\A a \in Admins, n \in Scenarios :
            LastDeleted(a, n) /\ tainted = {} => states'[n] = Started]_vars
  BY StepLastDelete
<1> QED BY <1>1, InvAlways, PTL DEF Spec, LastDeleteForgets

\* A request gets the best of the stubs that have been there since it arrived,
\* whatever the admin handlers do to the others meanwhile.
THEOREM BestIsServed == Spec => []ServedIsBest
BY InvAlways, PTL DEF Inv

\* A stub of a scenario is served in the state it requires, and moves the
\* scenario on in the same step, if a scenario's stub has been there since the
\* request arrived.
THEOREM InStateWhileScenarios == Spec => ServedInStateWhileScenarios
<1>1. Inv /\ [Next]_vars =>
        [\A c \in Callers :
            Selecting(c) /\ (\E s \in steady[c] : HasScenario(s)) => InState(c)]_vars
  BY StepServedInState
<1> QED BY <1>1, InvAlways, PTL DEF Spec, ServedInStateWhileScenarios

-----------------------------------------------------------------------------
\* However the handlers interleave, each of their steps is one operation of the
\* mapping store or none: the store that MappingStore implements is enough.
THEOREM HandlersUseTable == Spec => TableSpec
<1>1. Init => TableInit
  BY DEF Init
<1>2. ASSUME TypeOK, [Next]_vars PROVE [TableNext]_tableVars
  <2> DOMAIN table \subseteq Ids
    BY <1>2 DEF TypeOK
  <2>1. ASSUME NEW a \in Admins, Admin(a) PROVE [TableNext]_tableVars
    <3>1. ASSUME NEW i \in Ids, NEW d \in Definitions, Post(a, i, d) PROVE TableNext
      BY <3>1 DEF Post, TableNext
    <3>2. ASSUME NEW d \in Definitions, PutReplace(a, d) PROVE TableNext
      <4>1. Overwrite(job[a].id, d) /\ job[a].id \in Ids
        BY <3>2 DEF PutReplace, Overwrite
      <4> QED BY <4>1 DEF TableNext
    <3>3. ASSUME DeleteStub(a) PROVE TableNext
      <4>1. Delete(job[a].id) /\ job[a].id \in Ids
        BY <3>3 DEF DeleteStub, Delete
      <4> QED BY <4>1 DEF TableNext
    <3>4. ASSUME NEW i \in Ids, PutFind(a, i) \/ DeleteFind(a, i) PROVE UNCHANGED tableVars
      BY <3>4 DEF PutFind, DeleteFind
    <3>5. ASSUME Posted(a) \/ PutFails(a) \/ PutDone(a) \/ DeleteFails(a) \/ DeleteDone(a)
                 \/ ResetScenarios(a)
          PROVE  UNCHANGED tableVars
      BY <3>5 DEF Posted, PutFails, PutDone, DeleteFails, DeleteDone, ResetScenarios
    <3> QED BY <2>1, <3>1, <3>2, <3>3, <3>4, <3>5 DEF Admin
  <2>2. ASSUME NEW c \in Callers, Caller(c) PROVE UNCHANGED tableVars
    BY <2>2 DEF Caller, Arrive, SelectFast, Collect, SelectAndTransition, Served
  <2>3. CASE UNCHANGED vars
    BY <2>3 DEF vars, tableVars
  <2> QED BY <1>2, <2>1, <2>2, <2>3 DEF Next
<1> QED BY <1>1, <1>2, TypeCorrect, PTL DEF Spec, TableSpec
=============================================================================
