------------------------- MODULE MappingStoreProofs -------------------------
(***************************************************************************)
(* For any number of goroutines, ids, definitions and requests: the types  *)
(* and the invariants of the mapping store, the completeness of its        *)
(* indexes, and that it implements StubTable.                              *)
(***************************************************************************)
EXTENDS MappingStore, SequenceTheorems, TLAPS

-----------------------------------------------------------------------------
(* Indexes.                                                                *)

\* What the assumptions on the constants say of a pattern and a request.
LEMMA PatternFields ==
    ASSUME NEW p \in Pattern
    PROVE  /\ p.method \in Methods /\ Upper[p.method] = p.method
           /\ p.url \in Targets /\ p.urlPath \in Targets
<1>1. PICK m \in Methods : p.method = Upper[m]
  BY DEF Pattern
<1>2. p.url \in Targets /\ p.urlPath \in Targets
  BY DEF Pattern
<1> QED BY <1>1, <1>2, RequestIndexAssumption

\* A request carries a method and targets of the constants.
LEMMA RequestFields ==
    ASSUME NEW r \in Request
    PROVE  /\ Upper[r.method] \in Methods
           /\ r.uri \in Targets /\ r.path \in Targets
BY RequestIndexAssumption DEF Request

\* A pattern that matches a request is filed where exactly one of the lookups
\* of rangeCandidates looks.
LEMMA PatternIndexed ==
    ASSUME NEW p \in Pattern, NEW r \in Request, Matches(p, r)
    PROVE  LET method == Upper[r.method]
               one   == inExactURL(p, method, r.uri)
               two   == method # ANY /\ inExactURL(p, ANY, r.uri)
               three == inExactPath(p, method, r.path)
               four  == method # ANY /\ inExactPath(p, ANY, r.path)
               five  == inFallback(p)
           IN  \/ one /\ ~two /\ ~three /\ ~four /\ ~five
               \/ ~one /\ two /\ ~three /\ ~four /\ ~five
               \/ ~one /\ ~two /\ three /\ ~four /\ ~five
               \/ ~one /\ ~two /\ ~three /\ four /\ ~five
               \/ ~one /\ ~two /\ ~three /\ ~four /\ five
<1>1. \/ p.method = ANY
      \/ p.method = Upper[r.method]
  BY PatternFields DEF Matches, matchesMethod
<1>2. CASE p.url # Unset
  <2>1. r.uri = p.url
    BY <1>2 DEF Matches, matchesURL
  <2> QED BY <1>1, <1>2, <2>1 DEF inExactURL, inExactPath, inFallback
<1>3. CASE p.url = Unset /\ p.urlPath # Unset
  <2>1. r.path = p.urlPath
    BY <1>3 DEF Matches, matchesURL
  <2> QED BY <1>1, <1>3, <2>1 DEF inExactURL, inExactPath, inFallback
<1>4. CASE p.url = Unset /\ p.urlPath = Unset
  BY <1>4 DEF inExactURL, inExactPath, inFallback
<1> QED BY <1>2, <1>3, <1>4

-----------------------------------------------------------------------------
(* What publishLocked makes of an order that lists a table.                *)
Orders(ord, tbl) ==
    /\ ord \in Seq(Ids)
    /\ DOMAIN tbl \subseteq Ids
    /\ \A i \in DOMAIN tbl : tbl[i] \in Entry
    /\ {ord[k] : k \in DOMAIN ord} = DOMAIN tbl
    /\ \A j, k \in DOMAIN ord : ord[j] = ord[k] => j = k
    /\ \A j, k \in DOMAIN ord : j < k => tbl[ord[j]].sequence < tbl[ord[k]].sequence

\* The published list holds the stubs of the table and nothing else.
LEMMA PublishStubs ==
    ASSUME NEW ord, NEW tbl, Orders(ord, tbl)
    PROVE  LET ms == Publish(ord, tbl).mappings
           IN  /\ DOMAIN ms = DOMAIN ord
               /\ \A k \in DOMAIN ord : ms[k] = StubOf(tbl, ord[k])
               /\ {ms[k] : k \in DOMAIN ms} = StubsOf(tbl)
<1> DEFINE ms == Publish(ord, tbl).mappings
<1>1. ms = [k \in DOMAIN ord |-> StubOf(tbl, ord[k])]
  BY DEF Publish
<1>2. DOMAIN ms = DOMAIN ord /\ \A k \in DOMAIN ord : ms[k] = StubOf(tbl, ord[k])
  BY <1>1
<1>3. {ms[k] : k \in DOMAIN ms} = {StubOf(tbl, i) : i \in {ord[k] : k \in DOMAIN ord}}
  BY <1>2
<1> QED BY <1>2, <1>3 DEF Orders, StubsOf

\* A snapshot published from consistent maps lists every stub once, in the
\* order of creation: what List and Range return.
LEMMA PublishListed ==
    ASSUME NEW ord, NEW tbl, Orders(ord, tbl)
    PROVE  Listed(Publish(ord, tbl))
<1>1. Publish(ord, tbl).byID = tbl
  BY DEF Publish
<1>2. \A k \in DOMAIN ord : StubOf(tbl, ord[k]).sequence = tbl[ord[k]].sequence
  BY DEF StubOf
<1> QED BY <1>1, <1>2, PublishStubs DEF Listed, Orders

\* A snapshot published from consistent maps yields every matching stub to
\* rangeCandidates, once.
LEMMA PublishIndexed ==
    ASSUME NEW ord, NEW tbl, Orders(ord, tbl), NEW r \in Request
    PROVE  Indexed(Publish(ord, tbl), r)
<1> DEFINE s == Publish(ord, tbl)
           method == Upper[r.method]
<1>1. s.byID = tbl /\ {s.mappings[k] : k \in DOMAIN s.mappings} = StubsOf(tbl)
  BY PublishStubs DEF Publish
<1>2. \A m \in Methods, t \in Targets :
        /\ s.byExactURL[<<m, t>>]
             = {x \in StubsOf(tbl) : inExactURL(x.def.request, m, t)}
        /\ s.byExactPath[<<m, t>>]
             = {x \in StubsOf(tbl) : inExactPath(x.def.request, m, t)}
  BY <1>1 DEF Publish
<1>3. s.fallback = {x \in StubsOf(tbl) : inFallback(x.def.request)}
  BY <1>1 DEF Publish
<1>4. /\ method \in Methods /\ ANY \in Methods
      /\ r.uri \in Targets /\ r.path \in Targets
  BY RequestFields, RequestIndexAssumption
<1> SUFFICES ASSUME NEW x \in StubsOf(tbl), Matches(x.def.request, r)
             PROVE  \E i \in 1..5 :
                      /\ x \in Lookups(s, r)[i]
                      /\ \A j \in (1..5) \ {i} : x \notin Lookups(s, r)[j]
  BY <1>1 DEF Indexed
<1> DEFINE p == x.def.request
<1>5. p \in Pattern
  <2>1. PICK i \in DOMAIN tbl : x = StubOf(tbl, i)
    BY DEF StubsOf
  <2>2. x.def = tbl[i].def /\ tbl[i] \in Entry
    BY <2>1 DEF StubOf, Orders
  <2> QED BY <2>2, MappingStoreAssumption DEF Entry
<1>6. /\ x \in Lookups(s, r)[1] <=> inExactURL(p, method, r.uri)
      /\ x \in Lookups(s, r)[2] <=> method # ANY /\ inExactURL(p, ANY, r.uri)
      /\ x \in Lookups(s, r)[3] <=> inExactPath(p, method, r.path)
      /\ x \in Lookups(s, r)[4] <=> method # ANY /\ inExactPath(p, ANY, r.path)
      /\ x \in Lookups(s, r)[5] <=> inFallback(p)
  <2> HIDE DEF s
  <2> QED BY <1>2, <1>3, <1>4 DEF Lookups
<1>7. \A j \in 1..5 : j = 1 \/ j = 2 \/ j = 3 \/ j = 4 \/ j = 5
  OBVIOUS
<1> HIDE DEF s, p, method
<1> QED BY <1>5, <1>6, <1>7, PatternIndexed DEF method, p

-----------------------------------------------------------------------------
(* The inductive invariant.  Beside what the run checks it says how the    *)
(* maps differ from the snapshot while a change is half done: by the       *)
(* holder's call and nothing else.                                         *)
Stored(tbl, i, d, sequence) ==
    [j \in DOMAIN tbl \cup {i} |->
        IF j = i THEN [def |-> d, sequence |-> sequence] ELSE tbl[j]]

Effect(c, old, new, sequence) ==
    \/ /\ c.op = "Create" /\ c.id \notin DOMAIN old
       /\ new = Stored(old, c.id, c.def, sequence)
    \/ /\ c.op \in {"Create", "Replace"} /\ c.id \in DOMAIN old
       /\ new = Stored(old, c.id, c.def, old[c.id].sequence)
    \/ /\ c.op = "Delete" /\ c.id \in DOMAIN old
       /\ new = [j \in DOMAIN old \ {c.id} |-> old[j]]

HalfDone ==
    \A w \in Writers :
        pc[w] = "publish" => Effect(call[w], snapshot.byID, byID, nextSeq)

Inv ==
    /\ TypeOK
    /\ HolderInside
    /\ OrderIsTable
    /\ OrderBySequence
    /\ SnapshotCurrent
    /\ ListInCreationOrder
    /\ CandidatesComplete
    /\ HalfDone

\* The parts of the invariant about the maps.
LEMMA InvOrders == Inv => Orders(order, byID)
BY DEF Inv, TypeOK, OrderIsTable, OrderBySequence, Orders

\* Cutting one position out of a sequence.
LEMMA CutSeq ==
    ASSUME NEW S, NEW s \in Seq(S), NEW k \in DOMAIN s
    PROVE  LET t == SubSeq(s, 1, k - 1) \o SubSeq(s, k + 1, Len(s))
           IN  /\ t \in Seq(S)
               /\ DOMAIN t = 1..(Len(s) - 1)
               /\ \A j \in 1..(Len(s) - 1) : t[j] = IF j < k THEN s[j] ELSE s[j + 1]
<1> DEFINE a == SubSeq(s, 1, k - 1)
           b == SubSeq(s, k + 1, Len(s))
<1>1. k \in 1..Len(s) /\ Len(s) \in Nat
  BY LenProperties
<1>2. /\ a \in Seq(S) /\ Len(a) = k - 1
      /\ \A j \in 1..(k - 1) : a[j] = s[j]
  BY <1>1, SubSeqProperties
<1>3. /\ b \in Seq(S) /\ Len(b) = Len(s) - k
      /\ \A j \in 1..(Len(s) - k) : b[j] = s[k + j]
  BY <1>1, SubSeqProperties
<1> HIDE DEF a, b
<1>4. /\ a \o b \in Seq(S)
      /\ Len(a \o b) = Len(s) - 1
      /\ \A j \in 1..(Len(s) - 1) : (a \o b)[j] = IF j <= k - 1 THEN a[j] ELSE b[j - (k - 1)]
  <2>1. a \in Seq(S) /\ b \in Seq(S) /\ Len(a) + Len(b) = Len(s) - 1
    BY <1>1, <1>2, <1>3
  <2>2. /\ a \o b \in Seq(S)
        /\ Len(a \o b) = Len(a) + Len(b)
        /\ \A j \in 1..(Len(a) + Len(b)) :
              (a \o b)[j] = IF j <= Len(a) THEN a[j] ELSE b[j - Len(a)]
    BY <2>1, ConcatProperties
  <2> QED BY <1>2, <2>1, <2>2
<1>5. \A j \in 1..(Len(s) - 1) : (a \o b)[j] = IF j < k THEN s[j] ELSE s[j + 1]
  <2> TAKE j \in 1..(Len(s) - 1)
  <2>1. CASE j < k
    BY <1>1, <1>2, <1>4, <2>1
  <2>2. CASE ~ (j < k)
    <3>1. j - (k - 1) \in 1..(Len(s) - k) /\ k + (j - (k - 1)) = j + 1
      BY <1>1, <2>2
    <3>2. b[j - (k - 1)] = s[j + 1]
      BY <1>3, <3>1
    <3> QED BY <1>1, <1>4, <2>2, <3>2
  <2> QED BY <2>1, <2>2
<1>6. DOMAIN (a \o b) = 1..(Len(s) - 1)
  BY <1>4, LenProperties
<1> QED BY <1>4, <1>5, <1>6 DEF a, b

\* NewStore makes an empty store, which is consistent.
LEMMA InvInit == Init => Inv
<1> SUFFICES ASSUME Init PROVE Inv
  OBVIOUS
<1> USE DEF Init
<1>1. TypeOK /\ HolderInside
  BY MappingStoreAssumption DEF TypeOK, HolderInside, EmptyTable
<1>2. Orders(<<>>, EmptyTable)
  BY DEF Orders, EmptyTable
<1>3. OrderIsTable /\ OrderBySequence
  BY DEF OrderIsTable, OrderBySequence, EmptyTable
<1>4. SnapshotCurrent /\ HalfDone
  BY DEF SnapshotCurrent, HalfDone
<1>5. ListInCreationOrder /\ CandidatesComplete
  BY <1>2, PublishListed, PublishIndexed, MappingStoreAssumption
     DEF ListInCreationOrder, CandidatesComplete
<1> QED BY <1>1, <1>3, <1>4, <1>5 DEF Inv

-----------------------------------------------------------------------------
(* The steps.                                                              *)

\* While a goroutine is inside a method, no other is.
LEMMA OnlyHolder ==
    ASSUME Inv, NEW w \in Writers, pc[w] \in {"locked", "publish"}
    PROVE  /\ mu = w
           /\ \A v \in Writers \ {w} : pc[v] \in {"idle", "waiting"}
BY DEF Inv, TypeOK, HolderInside

\* The steps that touch neither the maps nor the snapshot.
LEMMA BeginStep ==
    ASSUME Inv, NEW w \in Writers, NEW c \in Calls, Begin(w, c)
    PROVE  Inv'
<1> USE DEF Begin
<1>1. TypeOK'
  BY DEF Inv, TypeOK
<1>2. HolderInside'
  BY DEF Inv, TypeOK, HolderInside
<1>3. \A v \in Writers : /\ pc'[v] = "publish" <=> pc[v] = "publish"
                         /\ pc[v] = "publish" => call'[v] = call[v]
  BY DEF Inv, TypeOK
<1>4. SnapshotCurrent' /\ HalfDone'
  BY <1>3 DEF Inv, SnapshotCurrent, HalfDone
<1>5. OrderIsTable' /\ OrderBySequence' /\ ListInCreationOrder' /\ CandidatesComplete'
  BY DEF Inv, OrderIsTable, OrderBySequence, ListInCreationOrder, CandidatesComplete
<1> QED BY <1>1, <1>2, <1>4, <1>5 DEF Inv

\* Taking the mutex leaves the store as it is.
LEMMA LockStep ==
    ASSUME Inv, NEW w \in Writers, Lock(w)
    PROVE  Inv'
<1> USE DEF Lock
<1>1. TypeOK'
  BY DEF Inv, TypeOK
<1>2. HolderInside'
  BY MappingStoreAssumption DEF Inv, TypeOK, HolderInside
<1>3. \A v \in Writers : /\ pc'[v] = "publish" <=> pc[v] = "publish"
                         /\ call'[v] = call[v]
  BY DEF Inv, TypeOK
<1>4. SnapshotCurrent' /\ HalfDone'
  BY <1>3 DEF Inv, SnapshotCurrent, HalfDone
<1>5. OrderIsTable' /\ OrderBySequence' /\ ListInCreationOrder' /\ CandidatesComplete'
  BY DEF Inv, OrderIsTable, OrderBySequence, ListInCreationOrder, CandidatesComplete
<1> QED BY <1>1, <1>2, <1>4, <1>5 DEF Inv

\* Replace and Delete return early when the id does not exist.
LEMMA MissingStep ==
    ASSUME Inv, NEW w \in Writers, Missing(w)
    PROVE  Inv'
<1> USE DEF Missing, Return
<1>1. TypeOK'
  BY DEF Inv, TypeOK
<1>2. HolderInside'
  BY MappingStoreAssumption, OnlyHolder DEF Inv, TypeOK, HolderInside
<1>3. \A v \in Writers : pc[v] # "publish" /\ pc'[v] # "publish"
  BY OnlyHolder DEF Inv, TypeOK
<1>4. SnapshotCurrent' /\ HalfDone'
  BY <1>3 DEF Inv, SnapshotCurrent, HalfDone
<1>5. OrderIsTable' /\ OrderBySequence' /\ ListInCreationOrder' /\ CandidatesComplete'
  BY DEF Inv, OrderIsTable, OrderBySequence, ListInCreationOrder, CandidatesComplete
<1> QED BY <1>1, <1>2, <1>4, <1>5 DEF Inv

\* Publishing: the snapshot becomes that of the maps.
LEMMA PublishStep ==
    ASSUME Inv, NEW w \in Writers, PublishAndReturn(w)
    PROVE  Inv'
<1> USE DEF PublishAndReturn, Return
<1>1. TypeOK'
  BY DEF Inv, TypeOK
<1>2. HolderInside'
  BY MappingStoreAssumption, OnlyHolder DEF Inv, TypeOK, HolderInside
<1>3. \A v \in Writers : pc'[v] # "publish"
  BY OnlyHolder DEF Inv, TypeOK
<1>4. SnapshotCurrent' /\ HalfDone'
  BY <1>3 DEF SnapshotCurrent, HalfDone
<1>5. OrderIsTable' /\ OrderBySequence'
  BY DEF Inv, OrderIsTable, OrderBySequence
<1>6. ListInCreationOrder' /\ CandidatesComplete'
  BY InvOrders, PublishListed, PublishIndexed, MappingStoreAssumption
     DEF ListInCreationOrder, CandidatesComplete
<1> QED BY <1>1, <1>2, <1>4, <1>5, <1>6 DEF Inv

\* What the changes of the maps have in common: one goroutine goes from
\* "locked" to "publish", the snapshot stays, and Orders and Effect are left to
\* the operation.
LEMMA ChangeStep ==
    ASSUME Inv, NEW w \in Writers, pc[w] = "locked", ToPublish(w),
           Orders(order', byID'), nextSeq' \in Nat,
           \A i \in DOMAIN byID' : byID'[i].sequence <= nextSeq',
           Effect(call[w], byID, byID', nextSeq')
    PROVE  Inv'
<1> USE DEF ToPublish
<1>1. TypeOK'
  BY DEF Inv, TypeOK, Orders
<1>2. HolderInside'
  BY DEF Inv, TypeOK, HolderInside
<1>3. snapshot.byID = byID
  <2>1. snapshot = Publish(order, byID)
    BY OnlyHolder DEF Inv, SnapshotCurrent
  <2> QED BY <2>1 DEF Publish
<1>4. \A v \in Writers : pc'[v] = "publish" <=> v = w
  BY OnlyHolder DEF Inv, TypeOK
<1>5. SnapshotCurrent' /\ HalfDone'
  BY <1>3, <1>4 DEF SnapshotCurrent, HalfDone
<1>6. OrderIsTable' /\ OrderBySequence'
  BY DEF Orders, OrderIsTable, OrderBySequence
<1>7. ListInCreationOrder' /\ CandidatesComplete'
  BY DEF Inv, ListInCreationOrder, CandidatesComplete
<1> QED BY <1>1, <1>2, <1>5, <1>6, <1>7 DEF Inv

\* A call names an id and a definition.
LEMMA CallFields ==
    ASSUME Inv, NEW w \in Writers, pc[w] = "locked"
    PROVE  /\ call[w].id \in Ids
           /\ call[w].op \in {"Create", "Replace"} => call[w].def \in Definitions
BY DEF Inv, TypeOK, Calls

\* Create of a new id takes the next number and the last place.
LEMMA CreateNewStep ==
    ASSUME Inv, NEW w \in Writers, CreateNew(w)
    PROVE  Inv'
<1> DEFINE i == call[w].id
           n == Len(order)
<1>1. /\ pc[w] = "locked" /\ call[w].op = "Create" /\ i \notin DOMAIN byID
      /\ nextSeq' = nextSeq + 1 /\ order' = Append(order, i) /\ ToPublish(w)
      /\ byID' = Stored(byID, i, call[w].def, nextSeq + 1)
  BY DEF CreateNew, Put, Stored
<1>2. i \in Ids /\ call[w].def \in Definitions /\ nextSeq \in Nat
  BY <1>1, CallFields DEF Inv, TypeOK
<1>3. Orders(order, byID)
  BY InvOrders
<1>4. /\ order' \in Seq(Ids) /\ n \in Nat /\ DOMAIN order = 1..n /\ DOMAIN order' = 1..(n + 1)
      /\ order'[n + 1] = i
      /\ \A k \in 1..n : order'[k] = order[k]
  BY <1>1, <1>2, <1>3, AppendProperties, LenProperties DEF Orders
<1>5. /\ DOMAIN byID' = DOMAIN byID \cup {i}
      /\ byID'[i] = [def |-> call[w].def, sequence |-> nextSeq + 1]
      /\ \A j \in DOMAIN byID : byID'[j] = byID[j]
  BY <1>1 DEF Stored
<1>6. \A j \in DOMAIN byID : byID[j] \in Entry /\ byID[j].sequence <= nextSeq
  BY DEF Inv, TypeOK, OrderBySequence
<1>7. \A j \in DOMAIN byID' : byID'[j] \in Entry /\ byID'[j].sequence <= nextSeq'
  BY <1>1, <1>2, <1>5, <1>6 DEF Entry
<1>8. /\ \A j \in 1..n : order[j] \in DOMAIN byID
      /\ \A m \in DOMAIN byID : \E j \in 1..n : order[j] = m
      /\ \A j, l \in 1..n : order[j] = order[l] => j = l
      /\ \A j, l \in 1..n : j < l => byID[order[j]].sequence < byID[order[l]].sequence
  BY <1>3, <1>4 DEF Orders
<1>9. {order'[k] : k \in DOMAIN order'} = DOMAIN byID'
  <2>1. {order[k] : k \in 1..n} = DOMAIN byID
    BY <1>3, <1>4 DEF Orders
  <2>2. {order'[k] : k \in 1..(n + 1)} = {order[k] : k \in 1..n} \cup {i}
    BY <1>4
  <2> QED BY <1>4, <1>5, <2>1, <2>2
<1>10. \A j, k \in DOMAIN order' : order'[j] = order'[k] => j = k
  BY <1>1, <1>4, <1>8
<1>11. \A j, k \in DOMAIN order' :
         j < k => byID'[order'[j]].sequence < byID'[order'[k]].sequence
  <2> SUFFICES ASSUME NEW j \in 1..(n + 1), NEW k \in 1..(n + 1), j < k
               PROVE  byID'[order'[j]].sequence < byID'[order'[k]].sequence
    BY <1>4
  <2>1. j \in 1..n /\ order'[j] = order[j] /\ byID'[order[j]] = byID[order[j]]
    BY <1>4, <1>5, <1>8
  <2>2. CASE k = n + 1
    <3>1. byID'[order'[k]].sequence = nextSeq + 1
      BY <1>4, <1>5, <2>2
    <3>2. byID[order[j]].sequence \in Nat /\ byID[order[j]].sequence <= nextSeq
      BY <1>6, <1>8, <2>1 DEF Entry
    <3> QED BY <1>2, <2>1, <3>1, <3>2
  <2>3. CASE k # n + 1
    <3>1. k \in 1..n /\ order'[k] = order[k] /\ byID'[order[k]] = byID[order[k]]
      BY <1>4, <1>5, <1>8, <2>3
    <3>2. byID[order[j]].sequence < byID[order[k]].sequence
      BY <1>8, <2>1, <3>1
    <3> QED BY <2>1, <3>1, <3>2
  <2> QED BY <2>2, <2>3
<1>12. Orders(order', byID')
  BY <1>2, <1>3, <1>4, <1>5, <1>7, <1>9, <1>10, <1>11 DEF Orders
<1>13. nextSeq' \in Nat /\ Effect(call[w], byID, byID', nextSeq')
  BY <1>1, <1>2 DEF Effect
<1> QED BY <1>1, <1>7, <1>12, <1>13, ChangeStep

\* A POST over an existing id, and a PUT.
LEMMA OverwriteStep ==
    ASSUME Inv, NEW w \in Writers, CreateExisting(w) \/ Replace(w)
    PROVE  Inv'
<1> DEFINE i == call[w].id
<1>1. /\ pc[w] = "locked" /\ call[w].op \in {"Create", "Replace"} /\ i \in DOMAIN byID
      /\ UNCHANGED <<order, nextSeq>> /\ ToPublish(w)
      /\ byID' = Stored(byID, i, call[w].def, byID[i].sequence)
  BY DEF CreateExisting, Replace, Put, Stored
<1>2. i \in Ids /\ call[w].def \in Definitions /\ nextSeq \in Nat
  BY <1>1, CallFields DEF Inv, TypeOK
<1>3. Orders(order, byID)
  BY InvOrders
<1>4. \A j \in DOMAIN byID : byID[j] \in Entry /\ byID[j].sequence <= nextSeq
  BY DEF Inv, TypeOK, OrderBySequence
<1>5. /\ DOMAIN byID' = DOMAIN byID
      /\ \A j \in DOMAIN byID : /\ byID'[j].sequence = byID[j].sequence
                                /\ byID'[j] \in Entry
  BY <1>1, <1>2, <1>4 DEF Stored, Entry
<1>6. \A j, k \in DOMAIN order :
        j < k => byID'[order[j]].sequence < byID'[order[k]].sequence
  BY <1>3, <1>5 DEF Orders
<1>7. Orders(order', byID')
  <2>1. order' = order /\ DOMAIN byID' = DOMAIN byID
    BY <1>1, <1>5
  <2>2. /\ DOMAIN byID' \subseteq Ids
        /\ \A j \in DOMAIN byID' : byID'[j] \in Entry
    BY <1>3, <1>5 DEF Orders
  <2> QED BY <1>3, <1>6, <2>1, <2>2 DEF Orders
<1> QED BY <1>1, <1>2, <1>4, <1>5, <1>7, ChangeStep DEF Effect

\* Delete takes the id out of the map and cuts it out of the order.
LEMMA DeleteStep ==
    ASSUME Inv, NEW w \in Writers, Delete(w)
    PROVE  Inv'
<1> DEFINE i == call[w].id
           n == Len(order)
<1>1. /\ pc[w] = "locked" /\ call[w].op = "Delete" /\ i \in DOMAIN byID
      /\ UNCHANGED nextSeq /\ ToPublish(w)
      /\ byID' = [j \in DOMAIN byID \ {i} |-> byID[j]]
  BY DEF Delete
<1>2. PICK k \in DOMAIN order :
        /\ order[k] = i
        /\ order' = SubSeq(order, 1, k - 1) \o SubSeq(order, k + 1, Len(order))
  BY DEF Delete
<1>3. Orders(order, byID) /\ nextSeq \in Nat
  BY InvOrders DEF Inv, TypeOK
<1>4. /\ order' \in Seq(Ids) /\ n \in Nat /\ k \in 1..n
      /\ DOMAIN order = 1..n /\ DOMAIN order' = 1..(n - 1)
      /\ \A j \in 1..(n - 1) : order'[j] = IF j < k THEN order[j] ELSE order[j + 1]
  <2>1. order \in Seq(Ids) /\ n \in Nat /\ DOMAIN order = 1..n
    BY <1>3, LenProperties DEF Orders
  <2> QED BY <1>2, <2>1, CutSeq
<1>5. /\ \A j \in 1..n : order[j] \in DOMAIN byID
      /\ \A m \in DOMAIN byID : \E j \in 1..n : order[j] = m
      /\ \A j, l \in 1..n : order[j] = order[l] => j = l
      /\ \A j, l \in 1..n : j < l => byID[order[j]].sequence < byID[order[l]].sequence
  BY <1>3, <1>4 DEF Orders
<1> DEFINE at == [j \in 1..(n - 1) |-> IF j < k THEN j ELSE j + 1]
<1>6. \A j \in 1..(n - 1) : at[j] \in (1..n) \ {k} /\ order'[j] = order[at[j]]
  BY <1>4
<1>7. \A j \in (1..n) \ {k} : \E l \in 1..(n - 1) : at[l] = j
  <2> TAKE j \in (1..n) \ {k}
  <2>1. CASE j < k
    BY <1>4, <2>1
  <2>2. CASE j > k
    <3>1. j - 1 \in 1..(n - 1) /\ at[j - 1] = j
      BY <1>4, <2>2
    <3> QED BY <3>1
  <2> QED BY <1>4, <2>1, <2>2
<1>8. /\ \A j, l \in 1..(n - 1) : at[j] = at[l] => j = l
      /\ \A j, l \in 1..(n - 1) : j < l => at[j] < at[l]
  BY <1>4
<1> HIDE DEF at
<1>9. \A j \in (1..n) \ {k} : order[j] \in DOMAIN byID \ {i}
  BY <1>2, <1>4, <1>5
<1>10. \A j \in DOMAIN byID' : byID'[j] = byID[j] /\ byID[j] \in Entry
                             /\ byID[j].sequence <= nextSeq'
  BY <1>1 DEF Inv, TypeOK, OrderBySequence
<1>11. {order'[l] : l \in DOMAIN order'} = DOMAIN byID'
  <2>1. \A l \in DOMAIN order' : order'[l] \in DOMAIN byID'
    BY <1>1, <1>4, <1>6, <1>9
  <2>2. \A j \in DOMAIN byID' : \E l \in DOMAIN order' : order'[l] = j
    <3> TAKE j \in DOMAIN byID'
    <3>1. j \in DOMAIN byID /\ j # i
      BY <1>1
    <3>2. PICK m \in 1..n : order[m] = j
      BY <1>5, <3>1
    <3>3. m # k
      BY <1>2, <3>1, <3>2
    <3>4. PICK l \in 1..(n - 1) : at[l] = m
      BY <1>7, <3>3
    <3> QED BY <1>4, <1>6, <3>2, <3>4
  <2> QED BY <2>1, <2>2
<1>12. \A j, l \in DOMAIN order' : order'[j] = order'[l] => j = l
  <2> TAKE j, l \in DOMAIN order'
  <2>1. /\ at[j] \in 1..n /\ at[l] \in 1..n
        /\ order'[j] = order[at[j]] /\ order'[l] = order[at[l]]
    BY <1>4, <1>6
  <2>2. order[at[j]] = order[at[l]] => at[j] = at[l]
    BY <1>5, <2>1
  <2> QED BY <1>4, <1>8, <2>1, <2>2
<1>13. \A j, l \in DOMAIN order' :
         j < l => byID'[order'[j]].sequence < byID'[order'[l]].sequence
  <2> TAKE j, l \in DOMAIN order'
  <2>1. /\ at[j] \in 1..n /\ at[l] \in 1..n
        /\ j < l => at[j] < at[l]
        /\ order'[j] = order[at[j]] /\ order'[l] = order[at[l]]
    BY <1>4, <1>6, <1>8
  <2>2. order'[j] \in DOMAIN byID' /\ order'[l] \in DOMAIN byID'
    BY <1>1, <1>4, <1>6, <1>9
  <2>3. byID'[order'[j]] = byID[order[at[j]]] /\ byID'[order'[l]] = byID[order[at[l]]]
    BY <1>10, <2>1, <2>2
  <2>4. at[j] < at[l] => byID[order[at[j]]].sequence < byID[order[at[l]]].sequence
    BY <1>5, <2>1
  <2> QED BY <2>1, <2>3, <2>4
<1>14. Orders(order', byID')
  BY <1>1, <1>3, <1>4, <1>10, <1>11, <1>12, <1>13 DEF Orders
<1> QED BY <1>1, <1>3, <1>10, <1>14, ChangeStep DEF Effect

\* Every step of every goroutine preserves the invariant.
LEMMA InvNext == Inv /\ [Next]_storeVars => Inv'
<1> SUFFICES ASSUME Inv, [Next]_storeVars PROVE Inv'
  OBVIOUS
<1>1. CASE UNCHANGED storeVars
  BY <1>1 DEF storeVars, Inv, TypeOK, HolderInside, OrderIsTable, OrderBySequence,
     SnapshotCurrent, ListInCreationOrder, CandidatesComplete, HalfDone
<1>2. ASSUME NEW w \in Writers, Step(w) PROVE Inv'
  BY <1>2, CreateNewStep, OverwriteStep, DeleteStep, MissingStep, PublishStep DEF Step
<1> QED BY <1>1, <1>2, BeginStep, LockStep DEF Next

\* The invariant holds in every reachable state.
LEMMA InvAlways == Spec => []Inv
BY InvInit, InvNext, PTL DEF Spec

\* Every variable of the store keeps its type.
THEOREM TypeCorrect == Spec => []TypeOK
<1>1. Inv => TypeOK
  BY DEF Inv
<1> QED BY <1>1, InvAlways, PTL

\* The maps agree with each other and, whenever no change is half done, with
\* the published snapshot: no return leaves a stale one behind.
THEOREM StoreConsistent ==
    Spec => [](HolderInside /\ OrderIsTable /\ OrderBySequence /\ SnapshotCurrent)
<1>1. Inv => HolderInside /\ OrderIsTable /\ OrderBySequence /\ SnapshotCurrent
  BY DEF Inv
<1> QED BY <1>1, InvAlways, PTL

\* Whenever no change is half done, readers of the snapshot see the table as
\* the last Create, Replace or Delete left it, with the indexes built from it.
THEOREM SnapshotCorrect == Spec => []SnapshotCurrent
<1>1. Inv => SnapshotCurrent
  BY DEF Inv
<1> QED BY <1>1, InvAlways, PTL

\* Readers list every stub once, in the order of creation.
THEOREM ListCorrect == Spec => []ListInCreationOrder
<1>1. Inv => ListInCreationOrder
  BY DEF Inv
<1> QED BY <1>1, InvAlways, PTL

\* No stub that matches a request is missed by the index lookups, and none is
\* yielded twice.
THEOREM IndexCorrect == Spec => []CandidatesComplete
<1>1. Inv => CandidatesComplete
  BY DEF Inv
<1> QED BY <1>1, InvAlways, PTL

-----------------------------------------------------------------------------
(* Refinement.                                                             *)
Issued == IF Unpublished THEN nextSeq - 1 ELSE nextSeq

\* A step that publishes nothing leaves the abstract table alone: only a
\* fresh Create moves nextSeq, and it is discounted until it publishes.
LEMMA StutterStep ==
    ASSUME Inv, NEW w \in Writers,
           \/ \E c \in Calls : Begin(w, c)
           \/ Lock(w) \/ Missing(w)
           \/ CreateNew(w) \/ CreateExisting(w) \/ Replace(w) \/ Delete(w)
    PROVE  snapshot' = snapshot /\ Issued' = Issued
<1>1. CASE \/ \E c \in Calls : Begin(w, c)
           \/ Lock(w) \/ Missing(w)
  <2>1. /\ snapshot' = snapshot /\ nextSeq' = nextSeq
        /\ \A v \in Writers : /\ pc'[v] = "publish" <=> pc[v] = "publish"
                              /\ pc[v] = "publish" => call'[v] = call[v]
    BY <1>1 DEF Begin, Lock, Missing, Return, Inv, TypeOK
  <2>2. Unpublished' <=> Unpublished
    BY <2>1 DEF Unpublished
  <2> QED BY <2>1, <2>2 DEF Issued
<1>2. CASE CreateNew(w) \/ CreateExisting(w) \/ Replace(w) \/ Delete(w)
  <2>1. /\ pc[w] = "locked" /\ snapshot' = snapshot /\ call' = call
        /\ pc' = [pc EXCEPT ![w] = "publish"]
    BY <1>2 DEF CreateNew, CreateExisting, Replace, Delete, ToPublish
  <2>2. \A v \in Writers : pc[v] # "publish" /\ (pc'[v] = "publish" <=> v = w)
    BY <2>1, OnlyHolder DEF Inv, TypeOK
  <2>3. snapshot.byID = byID
    <3>1. snapshot = Publish(order, byID)
      BY <2>2 DEF Inv, SnapshotCurrent
    <3> QED BY <3>1 DEF Publish
  <2>4. ~ Unpublished
    BY <2>2 DEF Unpublished
  <2>5. Unpublished' <=> CreateNew(w)
    BY <1>2, <2>1, <2>2, <2>3
       DEF Unpublished, CreateNew, CreateExisting, Replace, Delete
  <2>6. nextSeq \in Nat /\ nextSeq' = IF CreateNew(w) THEN nextSeq + 1 ELSE nextSeq
    BY <1>2 DEF CreateNew, CreateExisting, Replace, Delete, Inv, TypeOK
  <2> QED BY <2>1, <2>4, <2>5, <2>6 DEF Issued
<1> QED BY <1>1, <1>2

\* Publishing is the operation of the abstract table.
LEMMA PublishRefines ==
    ASSUME Inv, NEW w \in Writers, PublishAndReturn(w)
    PROVE  Table!TableNext
<1> DEFINE c == call[w]
           old == snapshot.byID
<1>1. c \in Calls /\ c.id \in Ids /\ nextSeq \in Nat
  BY DEF PublishAndReturn, Inv, TypeOK, Calls
<1>2. snapshot'.byID = byID
  BY DEF PublishAndReturn, Publish
<1>3. Effect(c, old, byID, nextSeq)
  BY DEF PublishAndReturn, Inv, HalfDone
<1>4. \A v \in Writers : pc[v] = "publish" <=> v = w
  BY OnlyHolder DEF PublishAndReturn, Inv, TypeOK
<1>5. ~ Unpublished' /\ nextSeq' = nextSeq
  BY <1>4 DEF Unpublished, PublishAndReturn, Return, Inv, TypeOK
<1>6. Unpublished <=> c.op = "Create" /\ c.id \notin DOMAIN old
  BY <1>4 DEF Unpublished
<1>7. CASE c.op = "Create" /\ c.id \notin DOMAIN old
  <2>1. snapshot'.byID = Stored(old, c.id, c.def, nextSeq) /\ c.def \in Definitions
    BY <1>1, <1>2, <1>3, <1>7 DEF Effect, Calls
  <2>2. Table!Insert(c.id, c.def)
    BY <1>1, <1>5, <1>6, <1>7, <2>1 DEF Table!Insert, Table!With, Stored
  <2> QED BY <1>1, <2>1, <2>2 DEF Table!TableNext
<1>8. CASE c.op \in {"Create", "Replace"} /\ c.id \in DOMAIN old
  <2>1. /\ snapshot'.byID = Stored(old, c.id, c.def, old[c.id].sequence)
        /\ c.def \in Definitions
    BY <1>1, <1>2, <1>3, <1>8 DEF Effect, Calls
  <2>2. Table!Overwrite(c.id, c.def)
    BY <1>5, <1>6, <1>8, <2>1 DEF Table!Overwrite, Table!With, Stored
  <2> QED BY <1>1, <2>1, <2>2 DEF Table!TableNext
<1>9. CASE c.op = "Delete" /\ c.id \in DOMAIN old
  <2>1. Table!Delete(c.id)
    BY <1>2, <1>3, <1>5, <1>6, <1>9 DEF Effect, Table!Delete, Table!Without
  <2> QED BY <1>1, <2>1 DEF Table!TableNext
<1> QED BY <1>3, <1>7, <1>8, <1>9 DEF Effect

\* The store implements StubTable: whatever the interleaving of its callers,
\* readers of the snapshot see a table that changes by one whole operation at
\* a time, and a deleted id returns only with a new sequence number.
THEOREM StoreImplementsTable == Spec => ImplementsStubTable
<1>1. Init => Table!TableInit
  BY DEF Init, Publish, EmptyTable, Unpublished, Table!TableInit, Table!EmptyTable
<1>2. Inv /\ [Next]_storeVars => [Table!TableNext]_(Table!tableVars)
  <2> SUFFICES ASSUME Inv, [Next]_storeVars
               PROVE  [Table!TableNext]_(Table!tableVars)
    OBVIOUS
  <2>1. CASE UNCHANGED storeVars
    BY <2>1 DEF storeVars, Unpublished, Table!tableVars
  <2>2. CASE \E w \in Writers : PublishAndReturn(w)
    BY <2>2, PublishRefines
  <2>3. ASSUME snapshot' = snapshot, Issued' = Issued
        PROVE  UNCHANGED Table!tableVars
    BY <2>3 DEF Issued, Table!tableVars
  <2>4. ASSUME NEW w \in Writers,
               \/ \E c \in Calls : Begin(w, c)
               \/ Lock(w) \/ Missing(w)
               \/ CreateNew(w) \/ CreateExisting(w) \/ Replace(w) \/ Delete(w)
        PROVE  UNCHANGED Table!tableVars
    BY <2>3, <2>4, StutterStep
  <2> QED BY <2>1, <2>2, <2>4 DEF Next, Step
<1> QED BY <1>1, <1>2, InvAlways, PTL DEF Spec, ImplementsStubTable, Table!TableSpec
=============================================================================
