----------------------------- MODULE StubOrder ------------------------------
(***************************************************************************)
(* Which of several matching stubs answers: the comparison of two stubs    *)
(* and the loop that keeps the best of the candidates seen so far.  The    *)
(* same loop is written four times (findMatchLazy, selectBestStub,         *)
(* selectBest, and selectBestMatchingStateLocked, which first skips the    *)
(* stubs whose scenario is in another state).                              *)
(*                                                                         *)
(* Priorities are Go ints and the comparison subtracts them, so the        *)
(* difference wraps around at Half = 2^63 (a small power of two in TLC).   *)
(***************************************************************************)
EXTENDS Integers

CONSTANTS
    Half,           \* half the range of a Go int
    Priorities,     \* the priorities that mapping documents give
    SequenceNumbers \* the numbers the mapping store stamps stubs with

ASSUME StubOrderAssumption ==
    /\ Half \in Nat \ {0}
    /\ \A p \in Priorities : p \in Int /\ -Half <= p /\ p < Half
    /\ SequenceNumbers \subseteq Nat

\* The zero Mapping, and the mappings of the store.
NoStub == [priority |-> 0, sequence |-> 0]
Stub == [priority : Priorities, sequence : SequenceNumbers]

Wrap(x) == ((x + Half) % (2 * Half)) - Half

\* Seeded bug: the age counts whatever the priorities are.
BeforeByAge(l, r) ==
    \/ Wrap(l.priority - r.priority) < 0
    \/ l.sequence < r.sequence

\* compareStubOrder(l, r) < 0
Before(l, r) ==
    \/ l.priority # r.priority /\ Wrap(l.priority - r.priority) < 0
    \/ l.priority = r.priority /\ l.sequence < r.sequence

\* What the documentation says of the order of two stubs.
Wins(l, r) ==
    \/ l.priority < r.priority
    \/ l.priority = r.priority /\ l.sequence < r.sequence

\* No difference of two priorities leaves the range of an int.
NoOverflow == \A p, q \in Priorities : (-Half) <= p - q /\ p - q < Half

-----------------------------------------------------------------------------
VARIABLES
    todo,       \* candidates rangeCandidates has still to yield
    matching,   \* the candidates that match the request (and the state)
    selected,   \* the best so far
    found       \* there is one

vars == <<todo, matching, selected, found>>

\* Every stub of a table has a sequence number of its own.
Candidates == {S \in SUBSET Stub : \A s, t \in S : s.sequence = t.sequence => s = t}

Init ==
    /\ todo \in Candidates
    /\ matching \in SUBSET todo
    /\ selected = NoStub
    /\ found = FALSE

Yield(s) == s \in todo /\ todo' = todo \ {s} /\ UNCHANGED matching

Skip(s) == Yield(s) /\ s \notin matching /\ UNCHANGED <<selected, found>>

Keep(s) ==
    /\ Yield(s)
    /\ s \in matching
    /\ found /\ ~ Before(s, selected)
    /\ UNCHANGED <<selected, found>>

Take(s) ==
    /\ Yield(s)
    /\ s \in matching
    /\ ~ found \/ Before(s, selected)
    /\ selected' = s
    /\ found' = TRUE

Next == \E s \in todo : Skip(s) \/ Keep(s) \/ Take(s)

Spec == Init /\ [][Next]_vars

-----------------------------------------------------------------------------
(* Properties.                                                             *)

TypeOK ==
    /\ todo \in Candidates
    /\ matching \in Candidates
    /\ found \in BOOLEAN
    /\ selected \in Stub \cup {NoStub}

\* In whatever order the indexes yield the candidates, the loop ends with the
\* matching stub of lowest priority, the earliest of those, or with none when
\* none matches.
SelectedIsBest ==
    todo = {} =>
        IF matching = {}
        THEN ~ found
        ELSE /\ found /\ selected \in matching
             /\ \A s \in matching \ {selected} : Wins(selected, s)
=============================================================================
