---------------------------- MODULE RequestFlow -----------------------------
(***************************************************************************)
(* RequestFlow: one request on its way through serveHTTP or serveGRPC, from*)
(* its arrival to the end of the logging middleware, with a client that    *)
(* sends its body late, breaks off or reads no answer, a delay, an         *)
(* upstream, the recording of the answer and its writing chunk by chunk.   *)
(*                                                                         *)
(* Which stub matches is any choice here, and so is whether a session runs:*)
(* Stubbing and Recording say how they are found.  A body is read once, by *)
(* the first who needs it, as a whole or up to where it breaks.            *)
(***************************************************************************)
EXTENDS Integers, Sequences

CONSTANTS
    Stubs,          \* what the flow depends on of the stubs that may match
    Nil             \* no stub, no event, no answer

\* What parseResponse accepts, and whether the request side has body matchers.
\* status: one that allows a body, and so does a Content-Length, because net/http
\* refuses to write what they do not; statusName: the grpc-status-name header;
\* fixed, random: the milliseconds of fixedDelayMilliseconds, and those that
\* delayDistribution may draw, none without one; panics: it is uniform from 0 to the
\* greatest int, on which rand.Intn panics; proxy: has a proxyBaseUrl; body: where
\* its body comes from; length: of the body it answers with; chunks:
\* numberOfChunks, 0 without a dribble.
ResponseDefinition ==
    [matcher : BOOLEAN, status : Nat, statusName : {"none", "OK", "other"},
     fixed : Nat, random : SUBSET Nat, panics : BOOLEAN, proxy : BOOLEAN,
     body : {"inline", "template", "file"}, length : Nat, chunks : Nat]

ASSUME RequestFlowAssumption ==
    /\ Stubs \subseteq ResponseDefinition
    /\ Nil \notin Stubs
    /\ Nil \notin {"stub", "proxy", "recording", "error"}
    /\ Nil \notin [by : {"stub", "proxy", "recording"}, body : {"whole", "partial", "none"}]

VARIABLES
    request,        \* [grpc, hasBody]
    client,         \* the request body: "idle" as long as it has not arrived,
                    \* "sent", or "broken" off
    gone,           \* the request's context is cancelled
    reads,          \* the client reads what is answered; FALSE once it has stopped
                    \* and the buffers on the way to it are full
    pc,             \* where the handler stands
    stub,           \* the stub that matched; Nil if none has, or a session runs
    body,           \* requestBodyCache: "unread", "whole" or "partial"
    event,          \* the serve event added, or Nil
    head,           \* who answers, as far as WriteHeader was called, or Nil
    written         \* how much of a served body is written

vars == <<request, client, gone, reads, pc, stub, body, event, head, written>>

-----------------------------------------------------------------------------
(* What an answer depends on.                                              *)

\* InitialDuration panics in rand.Intn; a fixed delay comes first.
Panics(s) == s.fixed = 0 /\ s.panics

\* The milliseconds InitialDuration may return otherwise.
InitialDuration(s) ==
    IF s.fixed > 0 THEN {s.fixed} ELSE IF s.random = {} THEN {0} ELSE s.random

Waits(s) == \E d \in InitialDuration(s) : d > 0

\* grpcStatusFromHeaders, and without its header grpcStatusFromHTTP: the call
\* ends with an error status.  A name that is not known is one.
Refuses(s) == IF s.statusName = "none" THEN s.status >= 400 ELSE s.statusName # "OK"

-----------------------------------------------------------------------------
(* The chunks of a body.                                                   *)

\* Seeded bug: all chunks have the same length.
EqualChunks(length, chunks) ==
    IF chunks <= 1 \/ length = 1 THEN <<length>>
    ELSE IF chunks >= length THEN [k \in 1..length |-> k]
    ELSE [k \in 1..chunks |-> k * (length \div chunks)]

\* splitBody, and the body that is written at once: where each chunk ends.  As
\* many chunks as bytes or more make chunks of one byte.
splitBody(length, chunks) ==
    IF chunks <= 1 \/ length = 1 THEN <<length>>
    ELSE IF chunks >= length THEN [k \in 1..length |-> k]
    ELSE [k \in 1..chunks |-> (k * length) \div chunks]

\* The number of chunks; what a session's target answers has no dribble.
ChunkedInterval == IF stub = Nil THEN 0 ELSE stub.chunks

\* A gRPC call that ends with an error status has no message; how long messages
\* and the answers of a session's target are does not matter.
Length ==
    IF stub = Nil THEN 1
    ELSE IF request.grpc THEN (IF Refuses(stub) THEN 0 ELSE 1)
    ELSE stub.length

\* What writeResponseBody writes: an empty body has no chunk.
Ends == IF Length = 0 THEN <<>> ELSE splitBody(Length, ChunkedInterval)

-----------------------------------------------------------------------------
Init ==
    /\ request \in [grpc : BOOLEAN, hasBody : BOOLEAN]
    /\ client = "idle"
    /\ gone = FALSE
    /\ reads = TRUE
    /\ pc = "match"
    /\ stub = Nil
    /\ body = "unread"
    /\ event = Nil
    /\ head = Nil
    /\ written = 0

\* The client sends its body, or breaks it off.
Send ==
    /\ request.hasBody
    /\ client = "idle"
    /\ client' \in {"sent", "broken"}
    /\ UNCHANGED <<request, gone, reads, pc, stub, body, event, head, written>>

\* The client leaves: its connection breaks.
Leave ==
    /\ ~ gone
    /\ gone' = TRUE
    /\ client' = IF client = "idle" THEN "broken" ELSE client
    /\ UNCHANGED <<request, reads, pc, stub, body, event, head, written>>

\* The client stays and reads no more.  One that goes on later has only been slow.
Stall ==
    /\ reads /\ ~ gone
    /\ reads' = FALSE
    /\ UNCHANGED <<request, client, gone, pc, stub, body, event, head, written>>

\* io.ReadAll of the body: it waits for the client.
Readable == request.hasBody => client # "idle"

\* Seeded bug: a request without a body has one that can break.
ReadAllOfNothing == IF client = "broken" THEN "partial" ELSE "whole"

ReadAll == IF request.hasBody /\ client = "broken" THEN "partial" ELSE "whole"

\* requestBodyCache.bytes
Bytes(got) ==
    IF body = "unread" THEN Readable /\ got = ReadAll /\ body' = got
                       ELSE got = body /\ UNCHANGED body

\* An answer that is not an event: 404, 500, 502, or a gRPC error.
Fail == head' = "error" /\ pc' = "finish" /\ UNCHANGED event

\* The event of an answer, which is written next.
Record(by, requestBody) ==
    /\ event' = [by |-> by, body |-> requestBody]
    /\ pc' = "write"
    /\ UNCHANGED head

-----------------------------------------------------------------------------
(* Matching.                                                               *)

\* A body matcher is tried.
ReadToMatch ==
    /\ pc = "match" /\ ~ request.grpc /\ body = "unread"
    /\ \E s \in Stubs : s.matcher
    /\ Readable
    /\ body' = ReadAll
    /\ UNCHANGED <<request, client, gone, reads, pc, stub, event, head, written>>

\* Without a body context no body matcher matches.
MatchStub(s) ==
    /\ pc = "match" /\ ~ request.grpc
    /\ s.matcher => body = "whole"
    /\ stub' = s
    /\ pc' = "delay"
    /\ UNCHANGED <<request, client, gone, reads, body, event, head, written>>

NoMatch ==
    /\ pc = "match" /\ ~ request.grpc
    /\ Fail
    /\ UNCHANGED <<request, client, gone, reads, stub, body, written>>

\* Seeded bug: the error of the body is ignored.
ForwardAnything ==
    /\ pc = "match" /\ ~ request.grpc
    /\ \E got \in {"whole", "partial"} : Bytes(got)
    /\ pc' = "upstream" /\ UNCHANGED <<event, head>>
    /\ UNCHANGED <<request, client, gone, reads, stub, written>>

\* tryServeRecordingProxy, as far as the upstream.
Forward ==
    /\ pc = "match" /\ ~ request.grpc
    /\ \E got \in {"whole", "partial"} :
          /\ Bytes(got)
          /\ IF got = "partial" THEN Fail ELSE pc' = "upstream" /\ UNCHANGED <<event, head>>
    /\ UNCHANGED <<request, client, gone, reads, stub, written>>

\* serveGRPC: the method is unknown.
UnknownMethod ==
    /\ pc = "match" /\ request.grpc
    /\ Fail
    /\ UNCHANGED <<request, client, gone, reads, stub, body, written>>

\* serveGRPC: the body cannot be read, is no frame or does not decode, or no
\* stub matches.
RefuseCall ==
    /\ pc = "match" /\ request.grpc
    /\ \E got \in {"whole", "partial"} : Bytes(got)
    /\ Fail
    /\ UNCHANGED <<request, client, gone, reads, stub, written>>

MatchCall(s) ==
    /\ pc = "match" /\ request.grpc /\ request.hasBody
    /\ Bytes("whole")
    /\ stub' = s
    /\ pc' = "delay"
    /\ UNCHANGED <<request, client, gone, reads, event, head, written>>

-----------------------------------------------------------------------------
(* The answer of a stub.                                                   *)

\* The choice of the delay panics: net/http recovers and closes the connection, and
\* what follows next.ServeHTTP in loggingMiddleware, ensureSample too, is skipped.
DelayPanics ==
    /\ pc = "delay"
    /\ Panics(stub)
    /\ pc' = "done"
    /\ UNCHANGED <<request, client, gone, reads, stub, body, event, head, written>>

\* delay.Sleep
DelayOver ==
    /\ pc = "delay"
    /\ ~ Panics(stub)
    /\ pc' = "serve"
    /\ UNCHANGED <<request, client, gone, reads, stub, body, event, head, written>>

\* Seeded bug: a delay may fail by itself.
DelayFails ==
    /\ pc = "delay"
    /\ ~ Panics(stub) /\ Waits(stub)
    /\ pc' = "finish"
    /\ UNCHANGED <<request, client, gone, reads, stub, body, event, head, written>>

\* The context is cancelled first: nothing is answered.
DelayCut ==
    /\ pc = "delay"
    /\ ~ Panics(stub) /\ Waits(stub) /\ gone
    /\ pc' = "finish"
    /\ UNCHANGED <<request, client, gone, reads, stub, body, event, head, written>>

\* A stub with a proxyBaseUrl, as far as the upstream.
Proxy ==
    /\ pc = "serve" /\ ~ request.grpc /\ stub.proxy
    /\ \E got \in {"whole", "partial"} :
          /\ Bytes(got)
          /\ IF got = "partial" THEN Fail ELSE pc' = "upstream" /\ UNCHANGED <<event, head>>
    /\ UNCHANGED <<request, client, gone, reads, stub, written>>

\* A template without a body, or a body file that is not there.
RenderFails ==
    /\ pc = "serve" /\ ~ request.grpc /\ ~ stub.proxy
    /\ \/ stub.body = "template" /\ Bytes("partial")
       \/ stub.body = "file" /\ UNCHANGED body
    /\ Fail
    /\ UNCHANGED <<request, client, gone, reads, stub, written>>

\* Renderer.Render, then bytesForRecording: a body that was read before is
\* recorded as far as it came, one that breaks only now is not.
Render ==
    /\ pc = "serve" /\ ~ request.grpc /\ ~ stub.proxy
    /\ \E got \in {"whole", "partial"} :
          /\ Bytes(got)
          /\ stub.body = "template" => got = "whole"
          /\ Record("stub", IF body = "unread" /\ got = "partial" THEN "none" ELSE got)
    /\ UNCHANGED <<request, client, gone, reads, stub, written>>

\* Seeded bug: the call is recorded before its answer is encoded.
RecordThenRefuse ==
    /\ pc = "serve" /\ request.grpc
    /\ stub.proxy \/ stub.body = "file" \/ ~ Refuses(stub)
    /\ head' = "error" /\ pc' = "finish" /\ event' = [by |-> "stub", body |-> body]
    /\ UNCHANGED <<request, client, gone, reads, stub, body, written>>

\* serveGRPC: a proxyBaseUrl, a body file that is not there, a body that does
\* not encode.
RefuseAnswer ==
    /\ pc = "serve" /\ request.grpc
    /\ stub.proxy \/ stub.body = "file" \/ ~ Refuses(stub)
    /\ Fail
    /\ UNCHANGED <<request, client, gone, reads, stub, body, written>>

\* serveGRPC: an error status of the stub, or its message.
AnswerCall ==
    /\ pc = "serve" /\ request.grpc /\ ~ stub.proxy
    /\ Record("stub", body)
    /\ UNCHANGED <<request, client, gone, reads, stub, body, written>>

-----------------------------------------------------------------------------
(* The upstream: Forwarder.Forward fails when the target does, after its   *)
(* timeout, and when the client leaves.                                    *)
UpstreamAnswers ==
    /\ pc = "upstream"
    /\ Record(IF stub = Nil THEN "recording" ELSE "proxy", body)
    /\ UNCHANGED <<request, client, gone, reads, stub, body, written>>

UpstreamFails ==
    /\ pc = "upstream"
    /\ Fail
    /\ UNCHANGED <<request, client, gone, reads, stub, body, written>>

-----------------------------------------------------------------------------
(* Writing.                                                                *)

\* writeStubResponse, writeProxyResponse, as far as the head.
WriteHead ==
    /\ pc = "write" /\ ~ request.grpc
    /\ head' = event.by
    /\ pc' = "body"
    /\ UNCHANGED <<request, client, gone, reads, stub, body, event, written>>

\* A write goes through, to a client that reads or into a connection that is
\* broken: the servers have no WriteTimeout.  The errors of Fail fit the buffers.
Writable == reads \/ gone

AllWritten == written = IF Ends = <<>> THEN 0 ELSE Ends[Len(Ends)]

\* writeResponseBody: the next chunk, and the pause after it.
WriteChunk ==
    /\ pc = "body"
    /\ Writable
    /\ \E k \in DOMAIN Ends :
          /\ written = IF k = 1 THEN 0 ELSE Ends[k - 1]
          /\ written' = Ends[k]
    /\ UNCHANGED <<request, client, gone, reads, pc, stub, body, event, head>>

WriteFails ==
    /\ pc = "body"
    /\ gone
    /\ pc' = "finish"
    /\ UNCHANGED <<request, client, gone, reads, stub, body, event, head, written>>

Written ==
    /\ pc = "body"
    /\ AllWritten
    /\ pc' = "finish"
    /\ UNCHANGED <<request, client, gone, reads, stub, body, event, head, written>>

\* writeGRPCMessage, writeGRPCErrorWithHeaders: a message that cannot be written
\* is not heard of.
WriteCall ==
    /\ pc = "write" /\ request.grpc
    /\ Length > 0 => Writable
    /\ head' = event.by
    /\ written' \in {0, Length}
    /\ ~ gone => written' = Length
    /\ pc' = "finish"
    /\ UNCHANGED <<request, client, gone, reads, stub, body, event>>

\* Seeded bug: the sample waits for the end of the body.
SampleToEnd ==
    /\ pc = "finish"
    /\ request.hasBody /\ body # "whole" => client = "sent"
    /\ pc' = "done"
    /\ UNCHANGED <<request, client, gone, reads, stub, body, event, head, written>>

\* loggingMiddleware: requestBodyLogCapture.ensureSample reads a body that
\* nobody has read or closed.
Sample ==
    /\ pc = "finish"
    /\ body = "unread" => Readable
    /\ pc' = "done"
    /\ UNCHANGED <<request, client, gone, reads, stub, body, event, head, written>>

Handler ==
    \/ ReadToMatch \/ NoMatch \/ Forward \/ UnknownMethod \/ RefuseCall
    \/ \E s \in Stubs : MatchStub(s) \/ MatchCall(s)
    \/ DelayPanics \/ DelayOver \/ DelayCut \/ Proxy \/ RenderFails \/ Render
    \/ RefuseAnswer \/ AnswerCall \/ UpstreamAnswers \/ UpstreamFails
    \/ WriteHead \/ WriteChunk \/ WriteFails \/ Written \/ WriteCall \/ Sample

Next == Handler \/ Send \/ Leave \/ Stall

\* The client holds the handler up: it keeps back a body that may be needed next,
\* or does not read what is being written.  Nothing ends either: the servers have
\* neither ReadTimeout nor WriteTimeout.
AwaitsBody ==
    /\ request.hasBody /\ client = "idle" /\ body = "unread"
    /\ pc \in {"match", "serve", "finish"}

AwaitsReader ==
    /\ ~ Writable
    /\ \/ pc = "write" /\ request.grpc /\ Length > 0
       \/ pc = "body" /\ ~ AllWritten

HeldByClient == AwaitsBody \/ AwaitsReader

\* A goroutine that can run does, a timer fires, and an upstream answers or
\* times out.  Of the client nothing is assumed.
Fairness == WF_vars(~ HeldByClient /\ Handler)

Spec == Init /\ [][Next]_vars /\ Fairness

-----------------------------------------------------------------------------
(* Properties.                                                             *)
Points == {"match", "delay", "serve", "upstream", "write", "body", "finish", "done"}

\* Types.  A partial body is one the client broke off.
TypeOK ==
    /\ request \in [grpc : BOOLEAN, hasBody : BOOLEAN]
    /\ client \in {"idle", "sent", "broken"}
    /\ gone \in BOOLEAN
    /\ reads \in BOOLEAN
    /\ pc \in Points
    /\ stub \in Stubs \cup {Nil}
    /\ body \in {"unread", "whole", "partial"}
    /\ event \in [by : {"stub", "proxy", "recording"}, body : {"whole", "partial", "none"}] \cup {Nil}
    /\ head \in {"stub", "proxy", "recording", "error", Nil}
    /\ written \in Nat
    /\ body = "partial" => request.hasBody /\ client = "broken"

\* What a client can have seen of an answer is among the serve events already,
\* and what is among them is answered as recorded: a snapshot taken after an
\* answer has it, and no event is of an answer that failed.
RecordedIffServed ==
    head # Nil => IF event = Nil THEN head = "error" ELSE head = event.by

\* Only a whole body is forwarded, and recorded with what was answered to it.
ForwardedWhole ==
    /\ pc = "upstream" => body = "whole"
    /\ event # Nil /\ event.by \in {"proxy", "recording"} => event.body = "whole"

\* The chunks make up the body: all of it is written, unless the client leaves.
WholeBody ==
    /\ written <= Length
    /\ pc \in {"finish", "done"} /\ event # Nil /\ ~ gone => written = Length

\* No body is cut on its way, to an upstream or to the client.
BodiesWhole == ForwardedWhole /\ WholeBody

\* A request ends without an answer only when its client has left during the
\* delay or the choice of the delay has panicked, and then nothing of it is recorded.
UnansweredHasReason ==
    pc \in {"finish", "done"} /\ head = Nil =>
        /\ event = Nil /\ stub # Nil
        /\ Panics(stub) \/ (gone /\ Waits(stub))

\* Every request ends, whether its body arrives, breaks off or is not needed, unless
\* its client stays and, for ever, keeps a body back or does not read the answer.
RequestEnds == <>(pc = "done") \/ <>[]HeldByClient

-----------------------------------------------------------------------------
(* What this request does to the serve events, as ServedRequests has it.    *)
stageOf ==
    CASE pc \in {"delay", "serve"} -> "matched"
      [] pc = "upstream" -> IF stub = Nil THEN "forwarding" ELSE "matched"
      [] OTHER -> "open"

sourceOf(e) == IF e.by = "recording" THEN "forwarding" ELSE "matched"

Served == INSTANCE ServedRequests
              WITH Callers <- {"request"},
                   stage <- [c \in {"request"} |-> stageOf],
                   added <- IF event = Nil THEN <<>> ELSE <<sourceOf(event)>>

\* The request adds the event of its response, once, and none when it failed.
ImplementsServedRequests == Served!ServedSpec
=============================================================================
