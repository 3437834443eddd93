-------------------------- MODULE StubOrderProofs ---------------------------
(***************************************************************************)
(* The selection loop ends with the stub the documentation promises, for   *)
(* every set of candidates and every order they come in, as long as no     *)
(* difference of two priorities overflows.                                 *)
(***************************************************************************)
EXTENDS StubOrder, TLAPS

\* A number in the range of an int is left as it is.
LEMMA WrapInRange ==
    ASSUME NEW x \in Int, -Half <= x, x < Half
    PROVE  Wrap(x) = x
<1> DEFINE y == x + Half
           m == 2 * Half
<1>1. y \in Nat /\ m \in Nat \ {0} /\ y < m
  BY StubOrderAssumption
<1>2. y % m = y
  <2> HIDE DEF y, m
  <2> QED BY <1>1
<1>3. (y % m) - Half = x
  BY <1>2, StubOrderAssumption
<1> QED BY <1>3 DEF Wrap

\* Stubs carry ints.
LEMMA StubFields ==
    ASSUME NEW s \in Stub
    PROVE  /\ s.priority \in Priorities
           /\ s.priority \in Int
           /\ s.sequence \in Nat
<1>1. s.priority \in Priorities /\ s.sequence \in SequenceNumbers
  BY DEF Stub
<1> QED BY <1>1, StubOrderAssumption

\* compareStubOrder is the documented order: priorities first, then age.
THEOREM CompareIsDocumented ==
    ASSUME NoOverflow, NEW l \in Stub, NEW r \in Stub
    PROVE  Before(l, r) <=> Wins(l, r)
<1>1. Wrap(l.priority - r.priority) = l.priority - r.priority
  BY StubFields, WrapInRange DEF NoOverflow
<1> QED BY StubFields, <1>1 DEF Before, Wins

-----------------------------------------------------------------------------
(* What the loop has seen so far: everything in matching that is no longer *)
(* in todo, of which selected is the best.                                 *)
Inv ==
    /\ TypeOK
    /\ ~ found => matching \subseteq todo
    /\ found => /\ selected \in matching \ todo
                /\ \A s \in (matching \ todo) \ {selected} : Wins(selected, s)

\* The candidate sets are closed under removing a stub.
LEMMA CandidatesSubset ==
    ASSUME NEW S \in Candidates, NEW T, T \subseteq S
    PROVE  T \in Candidates
BY DEF Candidates

\* Two candidates of one table differ in age, so one of them wins.
LEMMA WinsTotal ==
    ASSUME NEW S \in Candidates, NEW s \in S, NEW t \in S, s # t
    PROVE  /\ s \in Stub /\ t \in Stub
           /\ Wins(s, t) \/ Wins(t, s)
<1>1. s \in Stub /\ t \in Stub /\ s.sequence # t.sequence
  BY DEF Candidates
<1> QED BY <1>1, StubFields DEF Wins

\* The documented order is transitive.
LEMMA WinsTransitive ==
    ASSUME NEW r \in Stub, NEW s \in Stub, NEW t \in Stub, Wins(r, s), Wins(s, t)
    PROVE  Wins(r, t)
BY StubFields DEF Wins

\* Before the loop nothing is selected and nothing has been skipped.
LEMMA InvInit == Init => Inv
<1> SUFFICES ASSUME Init PROVE Inv
  OBVIOUS
<1>1. matching \in Candidates
  BY CandidatesSubset DEF Init
<1> QED BY <1>1 DEF Init, Inv, TypeOK

\* Each turn of the loop keeps the best of the candidates it has seen.
LEMMA InvStep ==
    ASSUME NoOverflow, Inv, [Next]_vars
    PROVE  Inv'
<1> USE DEF Inv, TypeOK
<1>1. ASSUME NEW s \in todo, Yield(s)
      PROVE  /\ todo' \in Candidates /\ matching' \in Candidates
             /\ matching' \ todo' = (matching \ todo) \cup (matching \cap {s})
             /\ s \in Stub
  <2>1. todo' \in Candidates
    BY <1>1, CandidatesSubset DEF Yield
  <2>2. s \in Stub
    BY DEF Candidates
  <2> QED BY <1>1, <2>1, <2>2 DEF Yield
<1>2. ASSUME NEW s \in todo, Skip(s) PROVE Inv'
  <2>1. Yield(s) /\ s \notin matching /\ UNCHANGED <<selected, found>>
    BY <1>2 DEF Skip
  <2>2. matching' \ todo' = matching \ todo
    BY <2>1, <1>1
  <2>3. matching' = matching /\ todo' = todo \ {s}
    BY <2>1 DEF Yield
  <2> QED BY <1>1, <2>1, <2>2, <2>3 DEF Wins
<1>3. ASSUME NEW s \in todo, Keep(s) PROVE Inv'
  <2>1. /\ Yield(s) /\ s \in matching /\ found /\ ~ Before(s, selected)
        /\ UNCHANGED <<selected, found>>
    BY <1>3 DEF Keep
  <2>2. matching' = matching /\ todo' = todo \ {s}
    BY <2>1 DEF Yield
  <2>3. selected \in matching /\ selected # s
    BY <2>1
  <2>4. Wins(selected, s)
    <3>1. s \in Stub /\ selected \in Stub /\ (Wins(s, selected) \/ Wins(selected, s))
      BY <2>1, <2>3, WinsTotal
    <3> QED BY <3>1, <2>1, CompareIsDocumented
  <2>5. \A t \in (matching' \ todo') \ {selected'} : Wins(selected', t)
    BY <2>1, <2>2, <2>4 DEF Wins
  <2> QED BY <1>1, <2>1, <2>2, <2>3, <2>5
<1>4. ASSUME NEW s \in todo, Take(s) PROVE Inv'
  <2>1. /\ Yield(s) /\ s \in matching /\ selected' = s /\ found'
        /\ ~ found \/ Before(s, selected)
    BY <1>4 DEF Take
  <2>2. matching' = matching /\ todo' = todo \ {s}
    BY <2>1 DEF Yield
  <2>3. ASSUME NEW t \in (matching \ todo) PROVE Wins(s, t)
    <3>1. found /\ selected \in matching
      BY <2>3
    <3>2. Wins(s, selected)
      <4>1. s \in Stub /\ selected \in Stub
        BY <2>1, <3>1 DEF Candidates
      <4> QED BY <4>1, <2>1, <3>1, CompareIsDocumented
    <3>3. CASE t = selected
      BY <3>2, <3>3
    <3>4. CASE t # selected
      <4>1. Wins(selected, t)
        BY <3>1, <3>4, <2>3
      <4>2. s \in Stub /\ t \in Stub /\ selected \in Stub
        BY <2>1, <2>3, <3>1 DEF Candidates
      <4> QED BY <4>1, <4>2, <3>2, WinsTransitive
    <3> QED BY <3>3, <3>4
  <2>4. \A t \in (matching' \ todo') \ {selected'} : Wins(selected', t)
    BY <2>1, <2>2, <2>3 DEF Wins
  <2> QED BY <1>1, <2>1, <2>2, <2>4
<1>5. CASE UNCHANGED vars
  BY <1>5 DEF vars, Wins
<1> QED BY <1>2, <1>3, <1>4, <1>5 DEF Next

\* Once no candidate is left, the invariant is the result.
LEMMA InvImpliesBest == Inv => SelectedIsBest
BY DEF Inv, SelectedIsBest

\* The invariant of the run: the loop's result is the matching stub of lowest
\* priority and, among those, the earliest.
THEOREM LoopSelectsBest ==
    ASSUME NoOverflow
    PROVE  Spec => []SelectedIsBest
<1>1. Inv /\ [Next]_vars => Inv'
  BY InvStep
<1> QED BY InvInit, <1>1, InvImpliesBest, PTL DEF Spec

\* The stub that comes before all others of a set.
First(S) == CHOOSE s \in S : \A o \in S \ {s} : Wins(s, o)

\* The loop is the choice in one step that the runtime is modelled with: what it
\* ends with does not depend on the order the candidates came in.
THEOREM LoopIsChoice ==
    ASSUME NoOverflow
    PROVE  Spec => [](todo = {} /\ matching # {} => found /\ selected = First(matching))
<1>1. ASSUME Inv, todo = {}, matching # {} PROVE found /\ selected = First(matching)
  <2>1. /\ found /\ selected \in matching
        /\ \A o \in matching \ {selected} : Wins(selected, o)
    BY <1>1, InvImpliesBest DEF SelectedIsBest
  <2>2. ASSUME NEW s \in matching, \A o \in matching \ {s} : Wins(s, o)
        PROVE  s = selected
    <3> SUFFICES ASSUME s # selected PROVE FALSE
      OBVIOUS
    <3>1. Wins(s, selected) /\ Wins(selected, s)
      BY <2>1, <2>2
    <3>2. s \in Stub /\ selected \in Stub
      BY <1>1, <2>1, <2>2, WinsTotal DEF Inv, TypeOK
    <3> QED BY <3>1, <3>2, StubFields DEF Wins
  <2> QED BY <2>1, <2>2 DEF First
<1>2. Inv => (todo = {} /\ matching # {} => found /\ selected = First(matching))
  BY <1>1
<1>3. Inv /\ [Next]_vars => Inv'
  BY InvStep
<1> QED BY InvInit, <1>2, <1>3, PTL DEF Spec
=============================================================================
