# Verification of VIMock

TLA+ models of VIMock, a WireMock-like mock server written in Go, with the TLC
runs that check them on small instances and the TLAPS proofs of the facts that
hold on all of them. Paths are relative to the repository; `store.go:82` is a
line of it.

    tlasany M.tla                       parse a module
    tlc -config run.cfg MCModule.tla    one of the runs below
    tlapm MappingStoreProofs.tla        one of the proof modules

## The system

One process, one HTTP handler. Every request runs in a goroutine of its own,
and everything a request can see lives in five stores in memory. Nothing is
persisted: a restart begins empty.

| Part | State | Operations | Talks to |
| --- | --- | --- | --- |
| Mapping store (`internal/mapping/store.go`) | `byID`, `order`, `nextSeq` under a mutex; an immutable `snapshot` behind an `atomic.Value` | Create, Replace, Delete; Get, List, RangeCandidates, HasScenarios without the lock | admin API, runtime |
| Scenario store (`internal/scenario/store.go`) | `states`, `members` under a mutex | SelectAndTransition, MappingCreated, MappingUpdated, MappingDeleted, Reset | admin API, runtime |
| Recording store (`internal/recording/store.go`) | the `active` session with its events, the window `serveEvents` | Start, Stop, Snapshot, ActiveSpec, addEvent | admin API, runtime |
| Descriptor store (`internal/grpcdesc/store.go`) | `blobs`, the `active` registry, `generation` | Put, PutLegacy, Delete, List, Reset, Active | admin API, legacy upload, gRPC runtime |
| File store (`internal/files/store.go`) | file name to body | Put, Get | legacy upload, rendering |
| Admin API (`internal/server/admin.go`) | none | one handler per endpoint, each calling several stores in turn | all stores |
| Legacy upload (`internal/server/file_api.go`) | none | createUpload, patchUpload | files, descriptors |
| HTTP runtime (`internal/server/runtime.go`) | per request: body cache, candidates, chosen stub | find a match, sleep, proxy or render, record, write | mappings, scenarios, recording, files |
| gRPC runtime (`internal/server/grpc_runtime.go`) | per request: method and registry | decode, find a match, render, encode | as above, and descriptors |
| Matching (`internal/mapping/model.go`, `internal/matcher`) | none | method, URL, query, header and body matchers: JSONPath, equal JSON, GraphQL | |
| Mapping documents (`internal/mapping/model.go`) | none | parse and validate a document, write a stub as one again | admin API, recording |
| Rendering (`internal/response/render.go`) | none | body, body file, template | runtime, files |
| Logging (`internal/server/server.go`) | per request: sample of the body | wraps body and response writer | |
| Lifecycle (`cmd/vimock/main.go`, `internal/config`, `internal/tlsconfig`) | listeners, a channel of their failures | configuration, start, signal, shutdown | |

What is hard here is concurrency. Each store is safe on its own, but a handler
calls several of them in turn, holding copies of what it read: between two
calls anything may happen to the stub it holds. Readers of the mapping store
take no lock at all. There are no messages, no retries, no crash recovery.

What makes each part correct:

* Mapping store: its three maps agree; a reader sees one whole table at any
  moment, listed in the order of creation, and the indexes never hide a stub
  that would match; every call gives the mutex back.
* Selection: of the stubs that match, the one of lowest priority and then
  greatest age, in whatever order the indexes yield them.
* Scenario store with the admin API: members are the stubs of the mapping store;
  a state changes by a request or a reset only, and is forgotten with the last
  stub.
* Runtime: a request gets the best stub there was all the time it was served;
  a stub of a scenario answers only in the state it requires, once per state.
* A request's way: it ends unless its client holds it up for ever, and with an
  answer unless its client left or its delay panics; what is answered is recorded
  before, and no failure is; bodies are forwarded and answered whole.
* Recording: what was proxied for a session becomes its stubs, once; the window
  of serve events holds the latest.
* Descriptors and files: an upload changes the registry only on a reset, which
  succeeds as a whole or leaves the registry alone.
* Lifecycle: the process ends when it is told to, with every server shut down, and
  its exit code says why.
* GraphQL: a request matches exactly if its query means what the stub's does.
* JSONPath: matching a body, rendering it by a compiled template and by one
  that is not agree about what an expression selects.
* Mapping documents: a stub that is exported and imported again is the same stub.

## Modules

| Module | Models | Correspondence |
| --- | --- | --- |
| `RequestIndex` | `model.go` matching, `indexMapping` | pure: `matchesMethod`, `matchesURL`, `Matches`, and in which index a pattern is filed. A regular expression is the set of targets its leftmost match spans; query, header and body matchers are the set of request contents they accept |
| `StubTable` | what the mapping store promises | the abstract table: `Insert`, `Overwrite`, `Delete`, each in one step |
| `MappingStore` | `mapping.Store` | `byID`, `order`, `nextSeq`, `snapshot`, `mu` are the fields; a goroutine calls (`Begin`), locks (`Lock`), changes the maps (`CreateNew`, `CreateExisting`, `Replace`, `Delete`) or finds nothing (`Missing`), publishes and returns (`PublishAndReturn`) |
| `MappingStoreProofs` | | theorems about `MappingStore` |
| `StubOrder` | `compareStubOrder` and the selection loop | `Before` is the comparison with the width of an int (`Wrap`); a turn of the loop is `Skip`, `Keep` or `Take` of the candidate yielded |
| `StubOrderProofs` | | theorems about `StubOrder` |
| `ScenarioStore` | `scenario.Store` | `states`, `members`; each method is an operator that gives both their next values, because it holds the mutex throughout |
| `Stubbing` | admin handlers and `findMatchLazy` over both stores | extends `StubTable` and `ScenarioStore`. A handler is split where it goes from one store to the other: `Post`/`Posted`, `PutFind`/`PutReplace`/`PutDone`, `DeleteFind`/`DeleteStub`/`DeleteDone`, with `PutFails` and `DeleteFails`; a request `Arrive`s (HasScenarios), then `SelectFast` or `Collect` and `SelectAndTransition`, then is `Served` |
| `StubbingProofs` | | theorems about `Stubbing` |
| `Recording` | `recording.Store`, its handlers, and the runtime requests it sees | `active`, `serveEvents` are the fields. An admin handler `Start`s, `Stop`s (or `StopIdle`) or takes a `Snapshot`, then `Activate`s its stubs one by one and `Respond`s; a request `Arrive`s, and is served by a stub (`ServeStub`) or not at all (`NoMatch`), or sees a session (`SeeSession`), is `Forwarded` to its target and added to whichever session runs by then (`addEvent`), or `Fails` |
| `RecordingProofs` | | theorems about `Recording` |
| `ServedRequests` | what runtime requests do to the serve events | the abstract requests: one that has `Decide`d what it is served from (`stage`) either `Add`s its event to `added` or does `GiveUp`, each in one step |
| `Descriptors` | `grpcdesc.Store`, `files.MemoryStore`, their handlers, the registry of a gRPC call | `blobs`, `active`, `files` are the fields. A handler does one `Put`, `Delete` or `Reset` or is `Refused`; a legacy upload is `CreateUpload`, `PatchFile` and, after any interleaving, `PatchDescriptor`; a call does `Find`, `Decode`, `Encode`, `AnswerCall` with the registry it found |
| `DescriptorsProofs` | | theorems about `Descriptors` |
| `RequestFlow` | `serveHTTP` and `serveGRPC` after a stub has matched, the body cache, delays, writing, the sample of the logging middleware | `body` is what `requestBodyCache` has (nothing, all, or what came before the connection broke), `event`, `head`, `written` what the recorder and the writer have got. The client `Send`s or breaks off its body, may `Leave`, and may stay and no longer read (`Stall`). Over HTTP: `ReadToMatch`, then `MatchStub`, `NoMatch` or `Forward` to a session's target; `DelayOver`, `DelayCut` or `DelayPanics`; `Proxy`, `Render` or `RenderFails`; `UpstreamAnswers` or `UpstreamFails`; `WriteHead`, `WriteChunk` until `Written` or `WriteFails`. A gRPC call: `UnknownMethod`, `RefuseCall` or `MatchCall`; the delay; `RefuseAnswer`, or `AnswerCall` and `WriteCall`. Then the `Sample` |
| `RequestFlowProofs` | | theorems about `RequestFlow` |
| `Delay` | `delay.go`, the loop of `writeResponseBody` | pure: the set of delays `InitialDuration` may draw, or that the choice `Panics`; the `Interval` of a dribble, the number of its `Writes` and the time it `Pauses`. Ints and durations wrap around at `Half` |
| `MappingInputs` | what is read of mappings: a document with the id of the path, or the times of a response | one variable, `input`, which stays what it is; the properties of `MappingDocument` and `Delay` for it |
| `DocumentProofs` | | theorems about `MappingInputs`, with the lemmas about `Delay` and `MappingDocument` |
| `Lifecycle` | `run` and `shutdownServers` of `main.go`, the outcomes of `config.Load` and `tlsconfig.Load` | `errCh` is the channel, `listener` what each listening goroutine is at, `turn` the loop of `shutdownServers`, `reason` the branch of the `select`. `run` does `Refuse`, `PrintVersion` or `Start`; `TakeSignal` or `TakeFailure`; `BeginShutdown` and `ServerDrained` or `ServerLate` per server; `Finish`. Around it servers `Listen`, fail (`ListenerFails`), close (`ListenerClosed`) and serve (`BeginRequest`, `EndRequest`), the `Signal` comes and the timeout `Expire`s |
| `LifecycleProofs` | | theorems about `Lifecycle` |
| `GraphQL` | `matcher/graphql.go` | pure: one operator per method of the parser (`parseField`, `parseValue`, ...), over lexemes; it returns the next position with the canonical string so far, or an error. `MatchesBody` is the matcher |
| `GraphQLGrammar` | | the reference: a grammar, and the trees a query can be derived as with unordered lists in one arrangement |
| `JsonPath` | `matcher/jsonpath.go`, the templates of `render.go` | pure: `Exists`, `Values`, `FirstValue` and `Render` as the sets of their outcomes, because the order in which Go ranges over a map is any; the reference is the set of locations an expression denotes |
| `MappingDocument` | `ParseJSONWithID`, `MarshalJSON`, `WithID` of `model.go`; who gets the request's body | pure: a document is its fields, each with a value, `absent`, `null` or `wrong`; `validDocument` and `parse` |
| `MCMappingStore`, `MCStubOrder`, `MCStubbing`, `MCRecording`, `MCDescriptors`, `MCRequestFlow`, `MCLifecycle`, `MCMatchers` | | the small instances |

`MappingStore` implements `StubTable` (`ImplementsStubTable`, checked and
proved), which is why `Stubbing` can be built on the atomic `StubTable`: a read
of the snapshot by a handler is a read of `table`. The two history variables of
`Stubbing` serve its properties only: `tainted` holds the ids on which admin
operations have overlapped, `steady` the stubs that have been in the table since
a request arrived.

`Recording` and `RequestFlow` both implement `ServedRequests`
(`ImplementsServedRequests` of each, proved): the one is many requests that share the
store with starts, stops and snapshots, each in a few steps; the other is one
request with all of its points of failure. `stageOf` says what a request is being
served from, `sourceOf` what an event was served from; `added` is all of `log` in
`Recording`, and the one `event` in `RequestFlow`. So the step by which `Recording` adds an
event is what the whole way of a request in `RequestFlow` comes to, and the two
modules have the same idea of when an event is added, of which kind, and how often.

`Recording` keeps of a request what decides whether the stub recorded from it
matches it again: path and query as the request line spells them, and the kind
of its body. The mapping store is there the set of recorded patterns; stubs that
users create or delete are left out, and so are pure filters and options of a
snapshot. Its history variables number the sessions (`sessions`), keep every
event added (`log`), and say which were delivered by an answered stop and which
thrown away (`delivered`, `discarded`).

`Descriptors` takes a descriptor set as the set of its proto files, each with its
path, its imports and the names it defines: what `protodesc.NewFiles` refuses
depends on no more (`Links`). The history variable `mixed` holds the names whose
body file and descriptor need not agree.

`RequestFlow` is one request. Which stub matches is any choice, and so is whether
a session runs: `Stubbing` and `Recording` say how they are found. A stub is
there its response: the delays it may have, where its body comes from and how long
it is, the number of chunks, its status and `grpc-status-name`. It is assumed that
the status allows a body and that a `Content-Length` header, if a stub has one,
fits, because `net/http` refuses to write others.

`Delay` has of a response only its times; a lognormal distribution may draw any
number, and what a float beyond the range of a Duration converts to is either
end of it.

`Lifecycle` takes of `net/http` what `run` depends on: `Shutdown` closes the listener,
waits for `Serve` to return, then for the requests in flight until its context
ends, and closes nothing that is still active.

The modules `GraphQL`, `JsonPath`, `MappingDocument` and `Delay` have no state.
`MappingInputs` gives the last two a variable, `input`: a mapping document with an
id, or the times of a response. `MCMatchers` adds inputs of the other two to it: an
expression with a document, or a GraphQL stub with a request that begins as the
same body and is edited. Characters are left out: a
GraphQL query is a sequence of lexemes, among them some the tokenizer drops, joins or refuses; a
JSONPath expression is its tokens; JSON is its values.

Operators whose comment says *Seeded bug* are the definition below them with a
plausible mistake. Each property of a passing run is violated when the
definition is replaced by such an operator (`mutants` in `PROJECT.json`).

## Runs

| Run | Module | Shows |
| --- | --- | --- |
| `mapping_store` | `MCMappingStore` | types, agreement of the maps (`OrderIsTable`), a current snapshot whenever no change is half done (`SnapshotCurrent`), the listing (`ListInCreationOrder`), complete and disjoint indexes (`CandidatesComplete`), refinement of the atomic table (`ImplementsStubTable`), and that every call returns (`EveryCallReturns`) |
| `stub_order` | `MCStubOrder` | the loop ends with the documented stub (`SelectedIsBest`) |
| `stub_admin` | `MCStubbing` | `MembersExact`, `StateKept`, `LastDeleteForgets` |
| `stub_serving` | `MCStubbing` | `ServedIsBest`, `ServedInStateWhileScenarios` |
| `scenario_fast_path` | `MCStubbing` | violated: a stub served in a state it does not require |
| `scenario_overwrite` | `MCStubbing` | violated: a state that outlives the last stub of its scenario |
| `recording` | `MCRecording` | types, `WindowIsLatest`, `SessionKeepsAll`, `RecordedOnce` (an event of a session is in one place, and no two stops have it), `Replayed` (after the answer of a stop its requests are served from stubs), `RecordedNoEarlier` (what joins a session was forwarded for it or for an earlier one) |
| `recording_stale` | `MCRecording` | violated: a response of one session's target joins the next session, or none |
| `descriptors` | `MCDescriptors` | what is stored is valid for its kind (`TypeOK`), the registry changes by resets only, as a whole (`RegistryByReset`); a generation names one registry and a call keeps to one (`GenerationNamesRegistry`, `OneRegistry`); both copies of a legacy upload agree (`CopiesAgree`) |
| `request_flow` | `MCRequestFlow` | types (`TypeOK`), an answer is in the serve events before its first byte, and no failure is (`RecordedIffServed`), only whole bodies are forwarded, and the chunks make up the body (`BodiesWhole`), only a client that left during a delay, or one whose stub has a delay that panics, goes without an answer (`UnansweredHasReason`), every request ends unless its client holds it up for ever (`RequestEnds`) |
| `lifecycle` | `MCLifecycle` | types, and room in the channel for every listener that returns (`TypeOK`); every server is shut down, requests are cut off only when the time is over (`EveryServerShutDown`); the exit code says why (`CodeTellsWhy`); a signal or a failure ends the process (`ProcessEnds`) |
| `matchers` | `MCMatchers` | a GraphQL request matches a stub exactly if it means the same (`SameIffEquivalent`), and the parser accepts the grammar's queries, each with one meaning (`AcceptsGrammar`); the evaluators of JSONPath agree with each other and with the locations an expression denotes (`EvaluatorsAgree`); export and import give the same stub (`RoundTrip`); a template that looks at the request's body is given it (`TemplateHasBody`); a delay is never longer than defined, nor shorter unless it overflows, one interval only makes its choice panic, and the pauses of a dribble never exceed its total, and add up to it when every chunk has a byte (`TimesAreDefined`) |

Bounds.

* `mapping_store`: two goroutines, two ids, three sequence numbers. Two writers
  give every interleaving of two critical sections with the readers, who see
  the snapshot at any moment; two ids and three numbers let an id be
  created, deleted and created again around the other. The four definitions set
  the URL fields in every way `indexMapping` and `matchesURL` tell apart, two of
  them several at once; the requests vary method, case of the method, and query.
* `stub_order`: ints of three bits (`Half = 4`), three priorities, three sequence
  numbers: all sets of up to three candidates, the matching part of each, in
  every order of yielding. Three are enough for the comparison's transitivity.
* `stub_admin`: two admin handlers and one caller, two ids, one scenario and the
  stubs outside of it, three creations. The definitions are one stub that moves
  the scenario and one outside it: what membership and state depend on. Ids and
  admins are interchangeable, hence the symmetry; there is no liveness property.
* `stub_serving`: one admin handler and two callers, two creations, three
  definitions, among which one waits for the state another moves to.
* `recording`: two admin handlers and two callers, so that stops, starts and
  snapshots race with each other and with requests that are under way; two
  sessions, so that a request can outlive its own; three events over a window of
  two, so that it slides while the session keeps more; one request with a query,
  one with a JSON body, one with the body null, one whose stub cannot be built.
* `descriptors`: two handlers and one call, two descriptor files and a proto
  source, two successful resets, so that a call can see the registry change
  twice; bodies that link alone, together, or not at all because an import is
  missing or a file is there twice. A second call would add nothing: calls do
  not see each other.
* `request_flow`: one request, because requests meet only in the stores. The stubs
  are of every kind the flow tells apart: with and without body matchers, fixed,
  random and no delay, one that panics and one that would without its fixed delay,
  proxied or not, each source of a body, each answer to a gRPC call; bodies of 0,
  1, 5 and 6 bytes in none, 2, 3 and 7 chunks are those that divide evenly (6 by 2
  and 3), those that do not, and those with more chunks than bytes.
* `lifecycle`: every configuration, both servers, two requests at a time on each, so
  that one can be left when another has ended. Signal, failures and timeout
  come at any moment.
* `matchers`: nine GraphQL queries that use every rule of the grammar, every edit of
  one lexeme of each (removed, replaced, inserted) and every exchange of two
  neighbouring parts, which includes all reorderings of two members; every two
  edits of queries up to five lexemes, which reaches all short queries near
  a valid one; every pair of variables and operation names. Documents of depth two
  with members of every kind, paths of up to two tokens, filters with every kind
  of path. Mapping documents that differ from a plain one in the fields that are
  read together. Times with ints and durations of eight bits and a millisecond of
  six nanoseconds: numbers around zero, around the greatest duration in
  milliseconds (21 and 22), one that wraps around to a positive duration (43), and
  around the greatest int; bodies with fewer bytes than chunks, as many, and more.
  Millisecond is even, as 10^6 is: the least int makes no delay at all.
* Violations: one handler, one caller; two ids or two sessions.

Deadlock is checked everywhere but in `stub_order`, whose loop ends, in
`request_flow` and `lifecycle`, whose request and process do, and in `matchers`,
whose inputs are edited a bounded number of times.

Fairness. `EveryCallReturns` needs weak fairness of a goroutine's steps
inside a method, because the Go scheduler runs every runnable goroutine, and
strong fairness of taking the lock, because `sync.Mutex` in its starvation mode
hands itself to the longest waiter. Callers need not ever call. `RequestEnds` needs
weak fairness of the handler's steps while its client does not hold it up: its
goroutine runs, timers fire, and an upstream answers or the client of the forwarder
times out after 30 seconds (`server.go:42`). Of the client nothing is assumed,
because the code enforces nothing: the servers have neither `ReadTimeout` nor
`WriteTimeout` (`main.go:66-71`, `89-94`). A client that keeps its body back, perhaps
until it has the answer, holds the handler in `io.ReadAll` or `ensureSample`
(`AwaitsBody`), and one that stays and does not read holds it in `w.Write`
(`AwaitsReader`). Only these two excuse a request from its end, and only as long as
they last (`HeldByClient`); the end of the connection ends both.
`ProcessEnds` needs that `run` and the listening
goroutines are scheduled and that the timer of ten seconds fires; of requests it needs
nothing, they may last for ever, and no listener need ever get its port or fail.

## Findings

1. `findMatchLazy` loads the snapshot twice (`runtime.go:163-166`): a request that
   saw no scenario may select, without the scenario store, a stub of one
   created in between (`scenario_fast_path`).
2. POST over an existing stub of another scenario (`admin.go:75-76`) leaves a
   phantom member, and the state of the old scenario outlives its last stub
   (`scenario_overwrite`).
3. `tryServeRecordingProxy` adds its event to the session that runs when the
   upstream has answered, not to the one whose target it asked: the event of
   one target becomes a stub of another's recording, or is lost to the stop
   (`recording_stale`).

More that no run states:

* `compareStubOrder` subtracts priorities (`runtime.go:246`), which wraps around for
  ints far apart, against "Lower `priority` values win"
  (`docs/http-stubbing.md:141`). `SelectedIsBest` is about priorities whose
  differences fit; with `-4` among them it fails (`Half = 4`).
* A delay or a dribble of more than 9223372036854 milliseconds wraps around (`delay.go:75`)
  and may be none at all; the uniform distribution over all ints that are not
  negative panics (`delay.go:32`), and the connection breaks without an answer
  (`DelayPanics`). `DelayedAsDefined` and `PanicsAtLimitOnly` say that nothing else
  goes wrong there.
* A dribble over a body with fewer bytes than chunks ends early: its interval is
  reckoned for the chunks that were asked for (`delay.go:55`, `runtime.go:347`).
* With a query, `recordedRequest` writes the decoded path (`recording/store.go:198`)
  into `url`, which matching compares with the escaped one: such a request is
  not played back. Neither is one whose body is a JSON string, or null, which
  `normalizeRawJSON` takes for an empty string and then for no JSON
  (`request.go:199`). `Replayable` excludes them.
* A request with candidates of an earlier snapshot (`runtime.go:191`) may move a
  scenario whose last stub is gone, and a stub created later then does not begin in
  `Started`; `SelectAndTransition` models it.
* The writer of a dribble is the `statusRecorder` of the logging middleware, which is
  no `http.Flusher` (`runtime.go:334`): a small body is sent when the handler ends.
* Where the GraphQL parser departs from the language, the grammar of `GraphQLGrammar`
  departs with it: `{ a }` is not `query { a }` (`graphql.go:393`), no operation is
  named `on` (`graphql.go:428`), an inline fragment needs a type, and empty
  parentheses are accepted.
* After a wildcard a compiled template does not look back: `$.*.b` shows nothing
  when the first child has no `b`, where the same template uncompiled shows the
  second's (`jsonpath.go:277`). A filter compares only the first value its path
  leads to, so a wildcard in it is decided by the order of a map.
* JSONPath compares numbers by their spelling: `[?(@.n == 1)]` does not select `1.0`,
  while `equalToJson` compares their values.
* In a template whose helpers do not all compile, the others still work; in one that
  compiles, a body that is no JSON makes the whole answer empty (`render.go:92-98`).

`MembersExact`, `StateKept` and `LastDeleteForgets` hold around the findings: they speak of
ids on which no admin operations have overlapped and no POST has changed the
scenario, and say that everything else (operations on different ids, resets,
requests, the window between the two stores) is harmless.

## Proofs

Everything in the eight proof modules is checked by `tlapm`, for all values of the
constants that satisfy the named assumptions (`RequestIndexAssumption`: upper
case is idempotent and leaves `ANY` alone; `MappingStoreAssumption`: the types of
the parameters; `StubOrderAssumption`: priorities are ints of the given width;
`ScenarioStoreAssumption`: `Started` is a state, "none" is neither a state nor a scenario;
`StubbingAssumption`: the types of the definitions; `NilAssumption` of `Stubbing`: no
stub, request, job or result is the value for "none";
`DescriptorsAssumption`: the types of the parameters, and that the values for "no
file" and "no upload" are no bodies or uploads; `RequestFlowAssumption`: the types of the stubs;
`RecordingAssumption`: the types of the requests and the kinds of bodies;
`NilAssumption` of `Recording`: no session, job or visit is the value for "none", and no admin
handler is called as one of the other places an event can be in;
`DelayAssumption`: the ranges of the numbers; `LifecycleAssumption`: the types of
the configurations; `MappingDocumentAssumption`: a new id is an id, and none reads like
an empty field; `DocumentsAssumption`: a document is a function on its fields, which are
those that are read and any others). `GraphQLAssumption` says which names there are; no theorem rests on it.

* `MappingStore`: `TypeCorrect`, `StoreConsistent`, `SnapshotCorrect`, `ListCorrect`, `IndexCorrect`,
  `StoreImplementsTable`. The invariant `Inv` adds to the checked properties
  what makes them inductive: while a goroutine stands between changing the maps
  and publishing, the maps are one operation ahead of the snapshot, and which
  one is known from its call (`Effect`, `HalfDone`). Publishing then re-establishes
  `SnapshotCurrent`, and is the operation of the abstract table; every other step
  leaves the abstract table alone. That the lists and indexes of a published
  snapshot are right (`PublishListed`, `PublishIndexed`) follows from the maps'
  agreement at the moment of publication. `CutSeq` is the lemma about
  the slice that `Delete` cuts.
* `StubOrder`: `CompareIsDocumented`, that the wrapped difference is the documented
  order when no difference overflows, and `LoopSelectsBest`, by the loop
  invariant: what was selected is the best of the candidates already seen. `LoopIsChoice`:
  it ends with the one stub that comes before all others, whatever the order; that is
  the single step `Selected` by which `Stubbing` models all four copies of the loop.
* `Stubbing`: `TypeCorrect`, `MembersAreExact`, `StateIsKept`, `LastDeleteRestarts`, `BestIsServed`,
  `InStateWhileScenarios`, for any number of handlers, callers, ids and scenarios.
  `MembersExact` speaks of ids nobody is under way on, so it is not inductive: the
  invariant has to say what the two stores disagree about in between. `Owes` is
  what one handler still has to tell the scenario store, which the kind of its
  step determines (an announced creation, a move from the scenario it read to the
  one it wrote, a removal). `Debts` says that on an id that is not tainted the
  members are off by exactly that: a creation or a PUT under way is alone on its id,
  and of several DELETEs only one has taken the stub; `Accounts` says the members are right where
  nobody owes. Each step across the stores then makes a debt or pays it
  (`AfterCreated`, `AfterUpdated`, `AfterDeleted`), and leaves other ids alone
  (`Elsewhere`). The state of a scenario is forgotten only with its last member,
  so `StateIsKept` and `LastDeleteRestarts` follow from what members there are.
  For requests the invariant (`Serving`) says that what a caller collected has every
  stub that was in the table throughout, that no two stubs have the same number,
  and that the table is finite, so that a best candidate exists (`BestExists`: the
  inclusion of finite sets is well founded). Then `Best` is a stub, and the one to
  beat. `HandlersUseTable`: every step of the handlers is one of the abstract table
  `StubTable` or none, which is what `StoreImplementsTable` lets the mapping store do.
* `Descriptors`: `TypeCorrect`, `GenerationCorrect`, `CallCorrect`, `ResetCorrect`, `CopiesCorrect`.
  The invariant `Inv` adds that no call holds a registry of a later generation
  than the active one, and one of the same generation only if it is the active
  one itself: then a reset, which raises the generation, makes a registry that
  no call can confuse with its own. `CombinedIsAll` is the lemma
  about what a reset builds. `CopiesCorrect` needs what an upload under way still
  owes (`Carried`): on a name that is not mixed it is the only one, and the file has
  its body already, or the empty one of `createUpload`.
* `RequestFlow`: `TypeCorrect`, `RecordingCorrect`, `BodyCorrect`,
  `SilenceCorrect`, `RequestImplementsServed`, for bodies of any length, any number of
  chunks and any delays. The invariant `Inv` says what each point of the flow knows of
  what came before: nothing is recorded or sent until rendering or the upstream has
  succeeded, only a whole body leads to the upstream, what is written is recorded.
  `ChunksCover` is the lemma about `splitBody`: its chunks end within the body, the last
  with it. For the refinement each action is `FlowDecides`, `FlowAdds` or `FlowStays`:
  it finds a stub or a target, adds the event of just that kind (`Recorded`), or
  fails or does what no other request can see.
* `Recording`: `TypeCorrect`, `WindowCorrect`, `SessionCorrect`, `OnceCorrect`, `ReplayCorrect`,
  `NoneJoinsEarlier`, `RecordingImplementsServed`, for any number of handlers and
  requests and any size of the window. `Logs` says that whatever
  the store and the handlers hold are events of the log, in the running session
  and in stops only events of sessions; a new event is therefore in no place yet,
  and every other step leaves an event where it is or moves it from one place to
  one other (`MoveOnce`). `Kept` adds that no event of the log is of a later session,
  so that one that starts begins with all of its events, none, and that the running
  one grows as the log does (`KeepsAppended`, `KeepsOthers`). `Ready` says how far each handler's loop has come: the
  stubs before `next` exist and what it could not build it does not hold, so that
  an answered stop has all of its stubs. `MatchesOwnRequest` is the lemma that a
  recorded pattern matches the request it was made from.
  `NoneJoinsEarlier` bounds finding 3: an event that joins a session was forwarded for it
  or for an earlier one, never for a later one, because a request has seen a
  session that had been started (`Seen`) and the running one is the last.
  `RecordingImplementsServed` needs `Seen` as well: a request that is being forwarded
  has seen a session, and any other has not, so that its event tells the two apart.
* `Delay`: `DelayCorrect`, `PanicCorrect`, `DribbleCorrect`, and together `TimesCorrect` and `TimesHold`, for ints and
  milliseconds of any size, so for those of 64 bits. `WrapAtMost` says that what
  overflows only gets smaller; `IntervalDivides` bounds the interval by the total
  from both sides, and there are fewer pauses than chunks.
* `Lifecycle`: `TypeCorrect`, `ShutdownCorrect`, `CodeCorrect`, for any configurations and
  any number of requests. The invariant `Inv` adds that the messages in the
  channel are true and no more than the listeners that have returned (`Messages`), that
  no server is closing before the `select` is left (`Begins`), and that a server
  whose turn is over is shut down for good (`Behind`): so a closed listener never
  makes `run` return 0 from its `select`, and `Finish` finds all servers shut down.
* `MappingDocument`: `RoundTripCorrect`, that an exported stub is imported as the same stub,
  for documents with any fields and values: the document kept with a stub differs from
  the one that made it in the id only (`RawIsDocument`), and parsing reads the id of the
  path first (`ParseUnderId`). `TemplateHasBodyCorrect` is the same for who gets the body.

How the proofs are written follows from limits of `tlapm` 1.4.5, met by weakening
definitions in a copy and expecting the proofs to fail. It lets each of two updates
of `EXCEPT` under one index undo the other, which contradicts every type, so `[f EXCEPT ![c].a = x, ![c].b = y]` is
written as one update, `![c] = [@ EXCEPT !.a = x, !.b = y]`, in which the inner values name
`f[c]` and not `@`. It binds `SUBSET S \ T` as `SUBSET (S \ T)`: such terms have
parentheses. And no lemma that is cited for other values states a function
constructor over them as an argument of another operator.

Only model-checked: the liveness properties `EveryCallReturns`, `RequestEnds` and
`ProcessEnds` (the prover has no fairness), and what is said of `GraphQL` and
`JsonPath` (`SameIffEquivalent`, `AcceptsGrammar`, `EvaluatorsAgree`): their operators are
recursive, and what recursion computes for every input would need induction over
data, which the prover cannot do. Every other property of a passing run is proved.
`HolderInside` and `OrderBySequence` of `MappingStore` are parts of its invariant, proved
and not run, and so is `ImplementsServedRequests` of
`Recording` and `RequestFlow`.

## Not modelled, and the plan

What is left to prove: of `GraphQL` and `JsonPath`, what needs no induction, that
`MatchesBody` is an equivalence on the bodies that parse, with the parser as a parameter.

Not planned: how characters become lexemes, expressions and JSON (strings a
model would have to spell out, covered by unit tests); `equalToJson`, query and header
matchers, which compare values one by one; how values are written as text; the
parsing of flags and environment, the making of certificates; the headers a proxy
copies; what is logged; and the HTTP library.
