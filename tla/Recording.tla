----------------------------- MODULE Recording ------------------------------
(***************************************************************************)
(* Recording: the session and the window of serve events of                *)
(* recording.Store, the handlers that start and stop a session and take    *)
(* snapshots, and the runtime requests that are served from a stub or, when*)
(* none matches, forwarded to the target of the session they saw.          *)
(*                                                                         *)
(* Each method of the store is one step under its mutex.  A request goes   *)
(* from one to the next with the session it saw, and a stop activates the  *)
(* stubs one by one after it has ended the session.  Building them is a    *)
(* function of the cloned events, and belongs to the step that clones.     *)
(***************************************************************************)
EXTENDS Integers, Sequences, FiniteSets

CONSTANTS
    Admins,         \* goroutines that serve the recording API
    Callers,        \* goroutines that serve runtime requests
    Requests,       \* [path, escaped, query, body], see below
    Bodies,         \* request bodies, no two of them equal as JSON, none a JSON
                    \* string that spells another
    BodyKind,       \* body -> "none", "text", "json", "null", "string" or "huge"
    Nil,            \* no job, no session, no request
    MaxWindow,      \* Store.maxEvents
    MaxEvents,      \* bound on the events of a behaviour, for TLC
    MaxSessions     \* bound on the sessions of a behaviour, for TLC

\* A path is escaped when the request line spells it differently from the
\* decoded r.URL.Path.  The body null is a kind of its own; a "string" body is a
\* JSON string; a "huge" one is valid JSON with a number that no float64 holds.
ASSUME RecordingAssumption ==
    /\ BodyKind \in [Bodies -> {"none", "text", "json", "null", "string", "huge"}]
    /\ Requests \subseteq [path : STRING, escaped : BOOLEAN, query : STRING, body : Bodies]
    /\ MaxWindow \in Nat \ {0}
    /\ MaxEvents \in Nat
    /\ MaxSessions \in Nat

\* An event with its number, and the sessions its request has seen (0 for none)
\* and has been added to; a session; what a handler goes on with after a stop or
\* a snapshot; what a request goes on with.
Event == [n : Nat \ {0}, request : Requests, seen : Nat, session : Nat]
Session == [session : Nat, events : Seq(Event)]
Job == [stop : BOOLEAN, events : Seq(Event), next : Nat]
Visit == [request : Requests, seen : Nat, step : {"matched", "unmatched", "forwarding"}]

ASSUME NilAssumption ==
    /\ Nil \notin Session \cup Job \cup Visit
    /\ \A a \in Admins : a \notin {"active", "delivered", "discarded"}

VARIABLES
    active,         \* Store.active: [session, events], or Nil
    serveEvents,    \* Store.serveEvents
    stubs,          \* the mapping store, as the set of recorded patterns: that
                    \* two of one event have their own ids is left out
    job,            \* the stubs an admin handler has still to activate, or Nil
    at              \* what a caller has found out so far, or Nil

\* History: every event ever added, the number of sessions started, the events
\* whose session was thrown away, and those of answered stops.
VARIABLES log, sessions, discarded, delivered

history == <<log, sessions, discarded, delivered>>
vars == <<active, serveEvents, stubs, job, at, history>>

-----------------------------------------------------------------------------
(* Stubs made from events: recordedRequest and the matching of what it     *)
(* yields.  The URL is the decoded path with the raw query when there is a *)
(* query, and the request URI otherwise.                                   *)
requestURI(q) == [path |-> q.path, escaped |-> q.escaped, query |-> q.query]

recordedURL(q) ==
    IF q.query = "" THEN requestURI(q)
                    ELSE [path |-> q.path, escaped |-> FALSE, query |-> q.query]

\* The bodies equalToJson accepts: it unwraps a JSON string on both sides, the
\* recorded one twice, and takes null for an empty one, which is no JSON.  Without a
\* pattern every body is accepted.
requestBodyPatterns(body) ==
    CASE BodyKind[body] \in {"none", "text"} -> Bodies
      [] BodyKind[body] = "json" -> {body}
      [] OTHER -> {}

Recorded(e) == [event |-> e.n, url |-> recordedURL(e.request),
                accepts |-> requestBodyPatterns(e.request.body)]

\* mapping.ParseJSON accepts what recordedMappingJSON wrote.
Parses(e) == BodyKind[e.request.body] # "huge"

Matches(stub, q) == stub.url = requestURI(q) /\ q.body \in stub.accepts

HasStub(q) == \E stub \in stubs : Matches(stub, q)

-----------------------------------------------------------------------------
Init ==
    /\ active = Nil
    /\ serveEvents = <<>>
    /\ stubs = {}
    /\ job = [a \in Admins |-> Nil]
    /\ at = [c \in Callers |-> Nil]
    /\ log = <<>>
    /\ sessions = 0
    /\ discarded = {}
    /\ delivered = {}

Numbers(events) == {events[k].n : k \in DOMAIN events}

\* startRecording, which replaces a session that is running.
Start(a) ==
    /\ job[a] = Nil
    /\ sessions < MaxSessions
    /\ sessions' = sessions + 1
    /\ active' = [session |-> sessions + 1, events |-> <<>>]
    /\ discarded' = discarded \cup IF active = Nil THEN {} ELSE Numbers(active.events)
    /\ UNCHANGED <<serveEvents, stubs, job, at, log, delivered>>

\* BuildSnapshot fails as a whole when one event does not parse.
Buildable(events) == \A k \in DOMAIN events : Parses(events[k])

\* Seeded bug: the loop begins before the first stub.
HoldFromZero(a, stop, events) ==
    job' = [job EXCEPT ![a] = [stop |-> stop, events |-> events, next |-> 0]]

\* What a handler goes on with: the stubs to activate, from the first.
Hold(a, stop, events) ==
    job' = [job EXCEPT ![a] = [stop |-> stop, events |-> events, next |-> 1]]

\* Seeded bug: the session goes on.
StopKeepsSession(a) ==
    /\ job[a] = Nil
    /\ active # Nil
    /\ IF Buildable(active.events)
       THEN Hold(a, TRUE, active.events) /\ UNCHANGED discarded
       ELSE UNCHANGED job /\ discarded' = discarded \cup Numbers(active.events)
    /\ UNCHANGED <<active, serveEvents, stubs, at, log, sessions, delivered>>

\* stopRecording: the session ends before its stubs exist.
Stop(a) ==
    /\ job[a] = Nil
    /\ active # Nil
    /\ active' = Nil
    /\ IF Buildable(active.events)
       THEN Hold(a, TRUE, active.events) /\ UNCHANGED discarded
       ELSE UNCHANGED job /\ discarded' = discarded \cup Numbers(active.events)
    /\ UNCHANGED <<serveEvents, stubs, at, log, sessions, delivered>>

\* stopRecording without a running session answers 400.
StopIdle(a) == job[a] = Nil /\ active = Nil /\ UNCHANGED vars

\* snapshotRecording, which answers 400 when the window does not build.
Snapshot(a) ==
    /\ job[a] = Nil
    /\ Buildable(serveEvents)
    /\ Hold(a, FALSE, serveEvents)
    /\ UNCHANGED <<active, serveEvents, stubs, at, history>>

\* activateRecordedMappings: a recorded stub has a new id and no scenario, so
\* creating it concerns no other stub.
Activate(a) ==
    /\ job[a] # Nil
    /\ job[a].next <= Len(job[a].events)
    /\ stubs' = stubs \cup {Recorded(job[a].events[job[a].next])}
    /\ job' = [job EXCEPT ![a].next = @ + 1]
    /\ UNCHANGED <<active, serveEvents, at, history>>

\* Seeded bug: the stop is answered before the last stub exists.
RespondBeforeLast(a) ==
    /\ job[a] # Nil
    /\ job[a].next >= Len(job[a].events)
    /\ job' = [job EXCEPT ![a] = Nil]
    /\ delivered' = delivered \cup IF job[a].stop THEN Numbers(job[a].events) ELSE {}
    /\ UNCHANGED <<active, serveEvents, stubs, at, log, sessions, discarded>>

\* The answer of a stop or a snapshot, once its loop is through.
Respond(a) ==
    /\ job[a] # Nil
    /\ job[a].next > Len(job[a].events)
    /\ job' = [job EXCEPT ![a] = Nil]
    /\ delivered' = delivered \cup IF job[a].stop THEN Numbers(job[a].events) ELSE {}
    /\ UNCHANGED <<active, serveEvents, stubs, at, log, sessions, discarded>>

-----------------------------------------------------------------------------
(* Runtime requests: serveHTTP and tryServeRecordingProxy.                 *)
Arrive(c, q) ==
    /\ at[c] = Nil
    /\ Len(log) + Cardinality(Callers) <= MaxEvents
    /\ at' = [at EXCEPT ![c] =
                 [request |-> q, seen |-> 0,
                  step |-> IF HasStub(q) THEN "matched" ELSE "unmatched"]]
    /\ UNCHANGED <<active, serveEvents, stubs, job, history>>

At(c, step) == at[c] # Nil /\ at[c].step = step
Answer(c) == at' = [at EXCEPT ![c] = Nil]

\* Seeded bug: a full window takes no more events.
WindowOfFirst(events) ==
    IF Len(events) > MaxWindow THEN SubSeq(events, 1, MaxWindow) ELSE events

\* The latest maxEvents events.
Window(events) ==
    IF Len(events) > MaxWindow
    THEN SubSeq(events, Len(events) - MaxWindow + 1, Len(events))
    ELSE events

\* Seeded bug: what a stub has answered joins the session, too.
addEventToSession(c, recordingEvent) ==
    LET event == [n |-> Len(log) + 1, request |-> at[c].request, seen |-> at[c].seen,
                  session |-> IF active # Nil THEN active.session ELSE 0]
    IN  /\ log' = Append(log, event)
        /\ serveEvents' = Window(Append(serveEvents, event))
        /\ active' = IF active # Nil THEN [active EXCEPT !.events = Append(@, event)] ELSE active

\* Seeded bug: the session is a window, too.
addEventToWindows(c, recordingEvent) ==
    LET joins == recordingEvent /\ active # Nil
        event == [n |-> Len(log) + 1, request |-> at[c].request, seen |-> at[c].seen,
                  session |-> IF joins THEN active.session ELSE 0]
    IN  /\ log' = Append(log, event)
        /\ serveEvents' = Window(Append(serveEvents, event))
        /\ active' = IF joins THEN [active EXCEPT !.events = Window(Append(@, event))]
                              ELSE active

\* Store.addEvent
addEvent(c, recordingEvent) ==
    LET joins == recordingEvent /\ active # Nil
        event == [n |-> Len(log) + 1, request |-> at[c].request, seen |-> at[c].seen,
                  session |-> IF joins THEN active.session ELSE 0]
    IN  /\ log' = Append(log, event)
        /\ serveEvents' = Window(Append(serveEvents, event))
        /\ active' = IF joins THEN [active EXCEPT !.events = Append(@, event)] ELSE active

\* A stub's response, sent by itself or fetched through its proxyBaseUrl.
ServeStub(c) ==
    /\ At(c, "matched")
    /\ addEvent(c, FALSE)
    /\ Answer(c)
    /\ UNCHANGED <<stubs, job, sessions, discarded, delivered>>

\* No session is running, and the answer is 404.
NoMatch(c) ==
    /\ At(c, "unmatched")
    /\ active = Nil
    /\ Answer(c)
    /\ UNCHANGED <<active, serveEvents, stubs, job, history>>

SeeSession(c) ==
    /\ At(c, "unmatched")
    /\ active # Nil
    /\ at' = [at EXCEPT ![c] = [@ EXCEPT !.step = "forwarding", !.seen = active.session]]
    /\ UNCHANGED <<active, serveEvents, stubs, job, history>>

Forwarded(c) ==
    /\ At(c, "forwarding")
    /\ addEvent(c, TRUE)
    /\ Answer(c)
    /\ UNCHANGED <<stubs, job, sessions, discarded, delivered>>

\* The client left during the delay, its body could not be read, the upstream
\* did not answer, or the response did not render: nothing is recorded.
Fails(c) ==
    /\ At(c, "matched") \/ At(c, "forwarding")
    /\ Answer(c)
    /\ UNCHANGED <<active, serveEvents, stubs, job, history>>

Next ==
    \/ \E a \in Admins : Start(a) \/ Stop(a) \/ StopIdle(a) \/ Snapshot(a) \/ Activate(a) \/ Respond(a)
    \/ \E c \in Callers : \/ \E q \in Requests : Arrive(c, q)
                          \/ ServeStub(c) \/ NoMatch(c) \/ SeeSession(c)
                          \/ Forwarded(c) \/ Fails(c)

Spec == Init /\ [][Next]_vars

-----------------------------------------------------------------------------
(* Properties.                                                             *)

\* Types of the store and of what the handlers hold.
TypeOK ==
    /\ log \in Seq(Event)
    /\ serveEvents \in Seq(Event)
    /\ active \in Session \cup {Nil}
    /\ sessions \in Nat
    /\ active # Nil => active.session = sessions
    /\ job \in [Admins -> Job \cup {Nil}]
    /\ \A a \in Admins : job[a] # Nil => job[a].next \in 1..(Len(job[a].events) + 1)
    /\ at \in [Callers -> Visit \cup {Nil}]
    /\ \A c \in Callers : at[c] # Nil => at[c].seen <= sessions

\* The window holds the latest events of all, in the order they were added.
WindowIsLatest ==
    /\ Len(serveEvents) = IF Len(log) < MaxWindow THEN Len(log) ELSE MaxWindow
    /\ \A k \in DOMAIN serveEvents :
          serveEvents[k] = log[Len(log) - Len(serveEvents) + k]

\* A running session holds the events added to it, each once and in their
\* order, and no others, whatever snapshots and stops of other sessions do
\* meanwhile.
SessionKeepsAll ==
    active # Nil =>
        /\ Numbers(active.events) = {k \in DOMAIN log : log[k].session = active.session}
        /\ \A k \in DOMAIN active.events : log[active.events[k].n] = active.events[k]
        /\ \A j, k \in DOMAIN active.events :
              j < k => active.events[j].n < active.events[k].n

\* Every event of a session is in one place: in the running session, with the
\* handler of one stop, delivered by one stop, or thrown away, by a start over
\* a running session or a stop that fails to build.
Places(n) ==
    (IF active # Nil /\ n \in Numbers(active.events) THEN {"active"} ELSE {})
    \cup {a \in Admins : job[a] # Nil /\ job[a].stop /\ n \in Numbers(job[a].events)}
    \cup (IF n \in delivered THEN {"delivered"} ELSE {})
    \cup (IF n \in discarded THEN {"discarded"} ELSE {})

RecordedOnce ==
    \A k \in DOMAIN log :
        Cardinality(Places(log[k].n)) = IF log[k].session = 0 THEN 0 ELSE 1

\* A request whose event a stop has delivered is served from a stub from then
\* on, however starts, snapshots and other stops interleave with it.  Neither null
\* nor a JSON string is ever matched by its own pattern, nor an escaped path by the
\* decoded one that recordedRequest writes when there is a query.
Replayable(q) ==
    /\ BodyKind[q.body] \notin {"null", "string"}
    /\ q.query = "" \/ ~ q.escaped

Replayed == \A n \in delivered : Replayable(log[n].request) => HasStub(log[n].request)

\* What a request observed at the target of a session becomes part of that
\* session.
RecordedWhereSeen == \A k \in DOMAIN log : log[k].seen # 0 => log[k].session = log[k].seen

\* What does join a session was forwarded for it or for one before it, never
\* for a later one, and nothing a stub has answered does.
RecordedNoEarlier ==
    \A k \in DOMAIN log : log[k].session # 0 => log[k].seen \in 1..log[k].session

-----------------------------------------------------------------------------
(* What these requests do to the serve events, as ServedRequests has it: an *)
(* event with the session its request saw was forwarded.                   *)
stageOf(v) == IF v # Nil /\ v.step \in {"matched", "forwarding"} THEN v.step ELSE "open"
sourceOf(e) == IF e.seen = 0 THEN "matched" ELSE "forwarding"

Served == INSTANCE ServedRequests
              WITH stage <- [c \in Callers |-> stageOf(at[c])],
                   added <- [k \in DOMAIN log |-> sourceOf(log[k])]

\* Every request adds the event of its response, once, and none that failed.
ImplementsServedRequests == Served!ServedSpec
=============================================================================
