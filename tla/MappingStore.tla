---------------------------- MODULE MappingStore ----------------------------
(***************************************************************************)
(* mapping.Store: byID, order and nextSeq are changed under a mutex, and   *)
(* the last step of every change, still under it, publishes an immutable   *)
(* snapshot with the indexes.  Readers take the snapshot without the lock, *)
(* so what they see is the snapshot variable, at any moment.               *)
(*                                                                         *)
(* An operation is four steps of its caller: the call, taking the lock     *)
(* and changing the maps, publishing, or returning early when the id does  *)
(* not exist.                                                              *)
(***************************************************************************)
EXTENDS RequestIndex, Integers, Sequences, FiniteSets

CONSTANTS
    Ids,            \* stub ids
    Definitions,    \* parsed mapping documents: [request, scenario]
    Requests,       \* the requests CandidatesComplete asks about
    Writers,        \* goroutines that call Create, Replace and Delete
    Nil,            \* no goroutine, no call
    MaxSequence     \* bound on nextSeq, for TLC

ASSUME MappingStoreAssumption ==
    /\ Nil \notin Writers
    /\ IsFiniteSet(Writers)
    /\ MaxSequence \in Nat
    /\ Requests \subseteq Request
    /\ Definitions \subseteq [request : Pattern, scenario : STRING]

VARIABLES
    byID,       \* Store.byID: id -> [def, sequence]
    order,      \* Store.order: ids in the order of their creation
    nextSeq,    \* Store.nextSeq
    snapshot,   \* Store.snapshot, the published value
    mu,         \* Store.mu: its holder, or Nil
    pc,         \* where each writer stands
    call        \* the operation each writer executes, or Nil

storeVars == <<byID, order, nextSeq, snapshot, mu, pc, call>>

Calls == [op : {"Create", "Replace"}, id : Ids, def : Definitions]
         \cup [op : {"Delete"}, id : Ids]

-----------------------------------------------------------------------------
(* The snapshot publishLocked builds.  Its loop skips an ordered id that   *)
(* byID lacks; OrderIsTable says there is none.  A bucket of an index is   *)
(* the set of its stubs: the order within it is never observed, because    *)
(* compareStubOrder never ties two stubs.                                  *)
StubOf(tbl, i) == [id |-> i, def |-> tbl[i].def, sequence |-> tbl[i].sequence]
StubsOf(tbl) == {StubOf(tbl, i) : i \in DOMAIN tbl}

Publish(ord, tbl) ==
    LET mappings == [k \in DOMAIN ord |-> StubOf(tbl, ord[k])]
        stubs    == {mappings[k] : k \in DOMAIN mappings}
    IN  [mappings     |-> mappings,
         byID         |-> tbl,
         byExactURL   |-> [key \in Methods \X Targets |->
             {s \in stubs : inExactURL(s.def.request, key[1], key[2])}],
         byExactPath  |-> [key \in Methods \X Targets |->
             {s \in stubs : inExactPath(s.def.request, key[1], key[2])}],
         fallback     |-> {s \in stubs : inFallback(s.def.request)},
         hasScenarios |-> \E s \in stubs : s.def.scenario # ""]

\* Seeded bug: a request whose method is ANY looks its buckets up twice.
LookupsANYTwice(s, r) ==
    LET method == Upper[r.method]
    IN  << s.byExactURL[<<method, r.uri>>], s.byExactURL[<<ANY, r.uri>>],
           s.byExactPath[<<method, r.path>>], s.byExactPath[<<ANY, r.path>>],
           s.fallback >>

\* The stubs that the lookups of rangeCandidates yield for a request r, in
\* their order.
Lookups(s, r) ==
    LET method == Upper[r.method]
    IN  << s.byExactURL[<<method, r.uri>>],
           IF method = ANY THEN {} ELSE s.byExactURL[<<ANY, r.uri>>],
           s.byExactPath[<<method, r.path>>],
           IF method = ANY THEN {} ELSE s.byExactPath[<<ANY, r.path>>],
           s.fallback >>

-----------------------------------------------------------------------------
EmptyTable == [i \in {} |-> {}]

Init ==
    /\ byID = EmptyTable
    /\ order = <<>>
    /\ nextSeq = 0
    /\ snapshot = Publish(<<>>, EmptyTable)
    /\ mu = Nil
    /\ pc = [w \in Writers |-> "idle"]
    /\ call = [w \in Writers |-> Nil]

\* Every pending Create may still take a number.
Begin(w, c) ==
    /\ pc[w] = "idle"
    /\ c.op = "Create" => nextSeq + Cardinality(Writers) <= MaxSequence
    /\ pc' = [pc EXCEPT ![w] = "waiting"]
    /\ call' = [call EXCEPT ![w] = c]
    /\ UNCHANGED <<byID, order, nextSeq, snapshot, mu>>

Lock(w) ==
    /\ pc[w] = "waiting"
    /\ mu = Nil
    /\ mu' = w
    /\ pc' = [pc EXCEPT ![w] = "locked"]
    /\ UNCHANGED <<byID, order, nextSeq, snapshot, call>>

\* The holder's change of the maps: publishLocked is its next step.
Put(w, sequence) ==
    LET i == call[w].id
    IN  byID' = [j \in DOMAIN byID \cup {i} |->
                    IF j = i THEN [def |-> call[w].def, sequence |-> sequence]
                             ELSE byID[j]]

ToPublish(w) ==
    /\ pc' = [pc EXCEPT ![w] = "publish"]
    /\ UNCHANGED <<snapshot, mu, call>>

\* Unlocking is deferred to the return.
Return(w) ==
    /\ mu' = Nil
    /\ pc' = [pc EXCEPT ![w] = "idle"]
    /\ call' = [call EXCEPT ![w] = Nil]

\* Seeded bugs: the stub gets the number before the increment; it gets its
\* place in the order for a number.
CreateNewBeforeIncrement(w) ==
    /\ pc[w] = "locked" /\ call[w].op = "Create"
    /\ call[w].id \notin DOMAIN byID
    /\ nextSeq' = nextSeq + 1
    /\ Put(w, nextSeq)
    /\ order' = Append(order, call[w].id)
    /\ ToPublish(w)

CreateNewNumberedByLength(w) ==
    /\ pc[w] = "locked" /\ call[w].op = "Create"
    /\ call[w].id \notin DOMAIN byID
    /\ nextSeq' = nextSeq + 1
    /\ Put(w, Len(order) + 1)
    /\ order' = Append(order, call[w].id)
    /\ ToPublish(w)

CreateNew(w) ==
    /\ pc[w] = "locked" /\ call[w].op = "Create"
    /\ call[w].id \notin DOMAIN byID
    /\ nextSeq' = nextSeq + 1
    /\ Put(w, nextSeq + 1)
    /\ order' = Append(order, call[w].id)
    /\ ToPublish(w)

\* Seeded bug: overwriting appends the id again.
CreateExistingAppends(w) ==
    /\ pc[w] = "locked" /\ call[w].op = "Create"
    /\ call[w].id \in DOMAIN byID
    /\ Put(w, byID[call[w].id].sequence)
    /\ order' = Append(order, call[w].id)
    /\ UNCHANGED nextSeq
    /\ ToPublish(w)

CreateExisting(w) ==
    /\ pc[w] = "locked" /\ call[w].op = "Create"
    /\ call[w].id \in DOMAIN byID
    /\ Put(w, byID[call[w].id].sequence)
    /\ UNCHANGED <<order, nextSeq>>
    /\ ToPublish(w)

\* Seeded bugs: replacing does not publish; it numbers the stub anew.
ReplaceUnpublished(w) ==
    /\ pc[w] = "locked" /\ call[w].op = "Replace"
    /\ call[w].id \in DOMAIN byID
    /\ Put(w, byID[call[w].id].sequence)
    /\ UNCHANGED <<order, nextSeq, snapshot>>
    /\ Return(w)

ReplaceRenumbers(w) ==
    /\ pc[w] = "locked" /\ call[w].op = "Replace"
    /\ call[w].id \in DOMAIN byID
    /\ nextSeq' = nextSeq + 1
    /\ Put(w, nextSeq + 1)
    /\ UNCHANGED order
    /\ ToPublish(w)

Replace(w) ==
    /\ pc[w] = "locked" /\ call[w].op = "Replace"
    /\ call[w].id \in DOMAIN byID
    /\ Put(w, byID[call[w].id].sequence)
    /\ UNCHANGED <<order, nextSeq>>
    /\ ToPublish(w)

\* Only the first occurrence is cut out of the order.
Delete(w) ==
    LET i == call[w].id
    IN  /\ pc[w] = "locked" /\ call[w].op = "Delete"
        /\ i \in DOMAIN byID
        /\ byID' = [j \in DOMAIN byID \ {i} |-> byID[j]]
        /\ \E k \in DOMAIN order :
              /\ order[k] = i
              /\ \A j \in 1..(k - 1) : order[j] # i
              /\ order' = SubSeq(order, 1, k - 1) \o SubSeq(order, k + 1, Len(order))
        /\ UNCHANGED nextSeq
        /\ ToPublish(w)

\* Seeded bug: the early return keeps the mutex.
MissingKeepsLock(w) ==
    /\ pc[w] = "locked" /\ call[w].op \in {"Replace", "Delete"}
    /\ call[w].id \notin DOMAIN byID
    /\ pc' = [pc EXCEPT ![w] = "idle"]
    /\ call' = [call EXCEPT ![w] = Nil]
    /\ UNCHANGED <<byID, order, nextSeq, snapshot, mu>>

Missing(w) ==
    /\ pc[w] = "locked" /\ call[w].op \in {"Replace", "Delete"}
    /\ call[w].id \notin DOMAIN byID
    /\ Return(w)
    /\ UNCHANGED <<byID, order, nextSeq, snapshot>>

PublishAndReturn(w) ==
    /\ pc[w] = "publish"
    /\ snapshot' = Publish(order, byID)
    /\ Return(w)
    /\ UNCHANGED <<byID, order, nextSeq>>

Step(w) ==
    \/ CreateNew(w) \/ CreateExisting(w) \/ Replace(w) \/ Delete(w)
    \/ Missing(w)
    \/ PublishAndReturn(w)

Next == \E w \in Writers : (\E c \in Calls : Begin(w, c)) \/ Lock(w) \/ Step(w)

Spec == Init /\ [][Next]_storeVars

\* A goroutine that runs is scheduled again, and sync.Mutex hands itself to
\* a goroutine that has waited (its starvation mode).
Fairness == \A w \in Writers : SF_storeVars(Lock(w)) /\ WF_storeVars(Step(w))

FairSpec == Spec /\ Fairness

-----------------------------------------------------------------------------
(* Properties.                                                             *)

Entry == [def : Definitions, sequence : Nat \ {0}]

\* Types of the store and its callers.
TypeOK ==
    /\ DOMAIN byID \subseteq Ids
    /\ \A i \in DOMAIN byID : byID[i] \in Entry
    /\ order \in Seq(Ids)
    /\ nextSeq \in Nat
    /\ mu \in Writers \cup {Nil}
    /\ pc \in [Writers -> {"idle", "waiting", "locked", "publish"}]
    /\ call \in [Writers -> Calls \cup {Nil}]
    /\ \A w \in Writers : pc[w] # "idle" => call[w] \in Calls

\* The goroutine inside Create, Replace or Delete holds the mutex.
HolderInside ==
    \A w \in Writers : pc[w] \in {"locked", "publish"} <=> mu = w

\* Store.order lists the ids of Store.byID, each once: the append of Create
\* and the cut of Delete keep pace with the map.
OrderIsTable ==
    /\ {order[k] : k \in DOMAIN order} = DOMAIN byID
    /\ \A j, k \in DOMAIN order : order[j] = order[k] => j = k

\* The order is that of the sequence numbers, none of which Create will give
\* out again: an overwritten stub keeps both its number and its place.
OrderBySequence ==
    /\ \A j, k \in DOMAIN order :
          j < k => byID[order[j]].sequence < byID[order[k]].sequence
    /\ \A i \in DOMAIN byID : byID[i].sequence <= nextSeq

\* Whenever no change is half done, what readers load is the whole table
\* with its indexes: no return from Create, Replace or Delete leaves a stale
\* snapshot behind.
SnapshotCurrent ==
    (\A w \in Writers : pc[w] # "publish") => snapshot = Publish(order, byID)

\* What GET /__admin/mappings lists is each stub of the snapshot once, in the
\* order of creation.
Listed(s) ==
    /\ {s.mappings[k] : k \in DOMAIN s.mappings} = StubsOf(s.byID)
    /\ \A j, k \in DOMAIN s.mappings :
          j < k => s.mappings[j].sequence < s.mappings[k].sequence

ListInCreationOrder == Listed(snapshot)

\* The three indexes lose no stub: one whose pattern matches a request is
\* yielded to it, and by one lookup only.  indexMapping and matchesURL have
\* to agree on which URL field of a pattern counts, and rangeCandidates and
\* matchesMethod on the method's case and on ANY.
Indexed(s, r) ==
    \A stub \in StubsOf(s.byID) :
        Matches(stub.def.request, r) =>
            \E i \in 1..5 :
                /\ stub \in Lookups(s, r)[i]
                /\ \A j \in (1..5) \ {i} : stub \notin Lookups(s, r)[j]

CandidatesComplete == \A r \in Requests : Indexed(snapshot, r)

\* A call that has been made returns: every path through the store's methods
\* gives the mutex back.
EveryCallReturns == \A w \in Writers : pc[w] # "idle" ~> pc[w] = "idle"

-----------------------------------------------------------------------------
(* The store implements StubTable: the table is the one the snapshot       *)
(* shows, and an operation takes effect when it publishes.                 *)
Unpublished ==
    \E w \in Writers : /\ pc[w] = "publish"
                       /\ call[w].op = "Create"
                       /\ call[w].id \notin DOMAIN snapshot.byID

Table == INSTANCE StubTable
    WITH table <- snapshot.byID, issued <- IF Unpublished THEN nextSeq - 1 ELSE nextSeq

\* Every step of the store is one operation on the published table, or none.
ImplementsStubTable == Table!TableSpec
=============================================================================
