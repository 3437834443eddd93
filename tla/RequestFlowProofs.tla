-------------------------- MODULE RequestFlowProofs -------------------------
(***************************************************************************)
(* Theorems about RequestFlow, for any stubs: bodies of any length, any    *)
(* number of chunks, any delays.                                           *)
(***************************************************************************)
EXTENDS RequestFlow, TLAPS

-----------------------------------------------------------------------------
(* The chunks.                                                             *)

\* Quotients of an integer division are bounded, and exact at the end.
LEMMA ChunkEnd ==
    ASSUME NEW c \in Nat, c > 0, NEW L \in Nat, NEW k \in 1..c
    PROVE  (k * L) \div c \in 0..L /\ (c * L) \div c = L
<1>1. k * L \in Nat /\ k * L <= c * L
  OBVIOUS
<1>2. (k * L) \div c \in 0..L
  BY <1>1
<1>3. (c * L) \div c = L
  OBVIOUS
<1> QED BY <1>2, <1>3

\* splitBody cuts a body that is not empty into chunks that end within it, the
\* last of them with it.
LEMMA ChunksCover ==
    ASSUME NEW L \in Nat, L > 0, NEW c \in Nat
    PROVE  /\ splitBody(L, c) \in Seq(0..L)
           /\ Len(splitBody(L, c)) > 0
           /\ splitBody(L, c)[Len(splitBody(L, c))] = L
<1>1. CASE c <= 1 \/ L = 1
  <2> DEFINE s == <<L>>
  <2>1. splitBody(L, c) = s
    BY <1>1 DEF splitBody
  <2>2. s \in Seq(0..L) /\ Len(s) = 1 /\ s[1] = L
    OBVIOUS
  <2> QED BY <2>1, <2>2
<1>2. CASE ~ (c <= 1 \/ L = 1) /\ c >= L
  <2> DEFINE s == [k \in 1..L |-> k]
  <2>1. splitBody(L, c) = s
    BY <1>2 DEF splitBody
  <2>2. s \in Seq(0..L) /\ Len(s) = L
    OBVIOUS
  <2> QED BY <2>1, <2>2
<1>3. CASE ~ (c <= 1 \/ L = 1) /\ ~ c >= L
  <2> DEFINE s == [k \in 1..c |-> (k * L) \div c]
  <2>1. splitBody(L, c) = s
    BY <1>3 DEF splitBody
  <2>2. \A k \in 1..c : (k * L) \div c \in 0..L
    BY ChunkEnd, <1>3
  <2>3. s \in Seq(0..L) /\ Len(s) = c
    BY <2>2
  <2>4. s[c] = L
    BY ChunkEnd, <1>3
  <2> QED BY <1>3, <2>1, <2>3, <2>4
<1> QED BY <1>1, <1>2, <1>3

\* The same of what the flow writes, where an empty body has no chunk.
Covers ==
    /\ Length \in Nat
    /\ Ends \in Seq(0..Length)
    /\ Ends = <<>> => Length = 0
    /\ Ends # <<>> => Ends[Len(Ends)] = Length

LEMMA EndsCover == ASSUME TypeOK PROVE Covers
<1>1. Length \in Nat
  BY RequestFlowAssumption DEF TypeOK, Length, ResponseDefinition
<1>2. ChunkedInterval \in Nat
  BY RequestFlowAssumption DEF TypeOK, ChunkedInterval, ResponseDefinition
<1>3. CASE Length = 0
  <2>1. Ends = <<>>
    BY <1>3 DEF Ends
  <2> QED BY <1>1, <1>3, <2>1 DEF Covers
<1>4. CASE Length # 0
  <2> DEFINE L == Length
             c == ChunkedInterval
  <2>1. L \in Nat /\ L > 0 /\ c \in Nat /\ Ends = splitBody(L, c)
    BY <1>1, <1>2, <1>4 DEF Ends
  <2> HIDE DEF L, c
  <2>2. Ends \in Seq(0..L) /\ Len(Ends) > 0 /\ Ends[Len(Ends)] = L
    BY <2>1, ChunksCover
  <2>3. Length = L
    BY DEF L
  <2> QED BY <2>1, <2>2, <2>3 DEF Covers
<1> QED BY <1>3, <1>4

-----------------------------------------------------------------------------
(* The invariant: what each point of the flow knows of what came before.   *)
Inv ==
    /\ TypeOK
    /\ pc = "match" => stub = Nil
    /\ pc \in {"match", "delay", "serve", "upstream"} => event = Nil /\ head = Nil
    /\ pc \in {"match", "delay", "serve", "upstream", "write"} => written = 0
    /\ pc \in {"delay", "serve"} => stub # Nil /\ (request.grpc => body = "whole")
    /\ pc = "upstream" => body = "whole"
    /\ pc = "write" => event # Nil /\ head = Nil
    /\ pc = "body" => event # Nil /\ head = event.by
    /\ written <= Length
    /\ pc \in {"finish", "done"} =>
          /\ head = Nil => event = Nil /\ stub # Nil /\ (Panics(stub) \/ (gone /\ Waits(stub)))
          /\ head # Nil => IF event = Nil THEN head = "error" ELSE head = event.by
          /\ event # Nil /\ ~ gone => written = Length
    /\ event # Nil /\ event.by \in {"proxy", "recording"} => event.body = "whole"

LEMMA InitInv == Init => Inv
<1> SUFFICES ASSUME Init PROVE Inv
  OBVIOUS
<1>1. TypeOK
  BY DEF Init, TypeOK, Points
<1>2. written <= Length
  BY DEF Init, Length
<1> QED BY <1>1, <1>2 DEF Init, Inv

\* What a step leaves alone keeps the bounds of what is written.
LEMMA SameLength == ASSUME UNCHANGED <<stub, request>> PROVE Length' = Length
BY DEF Length

LEMMA StepInv == Inv /\ [Next]_vars => Inv'
<1> SUFFICES ASSUME Inv, [Next]_vars PROVE Inv'
  OBVIOUS
<1> USE RequestFlowAssumption
<1>1. CASE Send
  BY <1>1, SameLength DEF Inv, TypeOK, Send
<1>2. CASE Leave
  BY <1>2, SameLength DEF Inv, TypeOK, Leave
<1>3. CASE ReadToMatch
  BY <1>3, SameLength DEF Inv, TypeOK, ReadToMatch, ReadAll
<1>4. CASE NoMatch
  BY <1>4, SameLength DEF Inv, TypeOK, Points, NoMatch, Fail
<1>5. CASE Forward
  BY <1>5, SameLength DEF Inv, TypeOK, Points, Forward, Fail, Bytes, ReadAll
<1>6. CASE UnknownMethod
  BY <1>6, SameLength DEF Inv, TypeOK, Points, UnknownMethod, Fail
<1>7. CASE RefuseCall
  BY <1>7, SameLength DEF Inv, TypeOK, Points, RefuseCall, Fail, Bytes, ReadAll
<1>8. CASE DelayOver
  BY <1>8, SameLength DEF Inv, TypeOK, Points, DelayOver
<1>9. CASE DelayCut
  BY <1>9, SameLength DEF Inv, TypeOK, Points, DelayCut
<1>10. CASE Proxy
  BY <1>10, SameLength DEF Inv, TypeOK, Points, Proxy, Fail, Bytes, ReadAll
<1>11. CASE RenderFails
  BY <1>11, SameLength DEF Inv, TypeOK, Points, RenderFails, Fail, Bytes, ReadAll
<1>12. CASE Render
  BY <1>12, SameLength DEF Inv, TypeOK, Points, Render, Record, Bytes, ReadAll
<1>13. CASE RefuseAnswer
  BY <1>13, SameLength DEF Inv, TypeOK, Points, RefuseAnswer, Fail
<1>14. CASE AnswerCall
  BY <1>14, SameLength DEF Inv, TypeOK, Points, AnswerCall, Record
<1>15. CASE UpstreamAnswers
  BY <1>15, SameLength DEF Inv, TypeOK, Points, UpstreamAnswers, Record
<1>16. CASE UpstreamFails
  BY <1>16, SameLength DEF Inv, TypeOK, Points, UpstreamFails, Fail
<1>17. CASE WriteHead
  BY <1>17, SameLength DEF Inv, TypeOK, Points, WriteHead
<1>18. CASE WriteChunk
  <2>1. written' \in 0..Length
    BY <1>18, EndsCover DEF Inv, WriteChunk, Covers
  <2>2. Length \in Nat
    BY EndsCover DEF Inv, Covers
  <2> QED BY <1>18, <2>1, <2>2, SameLength DEF Inv, TypeOK, WriteChunk
<1>19. CASE WriteFails
  BY <1>19, SameLength DEF Inv, TypeOK, Points, WriteFails
<1>20. CASE Written
  <2>1. written = Length
    BY <1>20, EndsCover DEF Inv, Written, AllWritten, Covers
  <2> QED BY <1>20, <2>1, SameLength DEF Inv, TypeOK, Points, Written
<1>21. CASE Sample
  BY <1>21, SameLength DEF Inv, TypeOK, Points, Sample
<1>22. CASE WriteCall
  <2>1. Length \in Nat
    BY EndsCover DEF Inv, Covers
  <2> QED BY <1>22, <2>1, SameLength DEF Inv, TypeOK, Points, WriteCall
<1>23. ASSUME NEW s \in Stubs, MatchStub(s) \/ MatchCall(s) PROVE Inv'
  <2>1. TypeOK'
    BY <1>23 DEF Inv, TypeOK, Points, MatchStub, MatchCall, Bytes, ReadAll
  <2>2. Length' \in Nat
    BY <1>23 DEF Length, MatchStub, MatchCall, ResponseDefinition
  <2> QED BY <1>23, <2>1, <2>2 DEF Inv, MatchStub, MatchCall, Bytes
<1>24. CASE Stall
  <2>1. reads' \in BOOLEAN /\ UNCHANGED <<request, client, gone, pc, stub, body, event, head, written>>
    BY <1>24 DEF Stall
  <2> QED BY <2>1, SameLength DEF Inv, TypeOK
<1>25. CASE DelayPanics
  BY <1>25, SameLength DEF Inv, TypeOK, Points, DelayPanics
<1>26. CASE UNCHANGED vars
  BY <1>26, SameLength DEF Inv, TypeOK, vars
<1>27. CASE Handler
  BY <1>3, <1>4, <1>5, <1>6, <1>7, <1>8, <1>9, <1>10, <1>11, <1>12, <1>13, <1>14, <1>15,
     <1>16, <1>17, <1>18, <1>19, <1>20, <1>21, <1>22, <1>23, <1>25, <1>27
  DEF Handler
<1> QED BY <1>1, <1>2, <1>24, <1>26, <1>27 DEF Next

LEMMA Invariance == Spec => []Inv
BY InitInv, StepInv, PTL DEF Spec

-----------------------------------------------------------------------------
\* The variables of a request keep their types.
THEOREM TypeCorrect == Spec => []TypeOK
<1>1. Inv => TypeOK
  BY DEF Inv
<1> QED BY <1>1, Invariance, PTL

\* What is answered from a stub or a target has been recorded before, as it is
\* answered, and nothing else is recorded.
THEOREM RecordingCorrect == Spec => []RecordedIffServed
<1>1. Inv => RecordedIffServed
  BY DEF Inv, TypeOK, Points, RecordedIffServed
<1> QED BY <1>1, Invariance, PTL

\* No body is cut on its way: only whole ones are forwarded and recorded with
\* the target's answer, and all of a body is written, in any number of chunks,
\* unless the client leaves.
THEOREM BodyCorrect == Spec => []BodiesWhole
<1>1. Inv => BodiesWhole
  BY DEF Inv, BodiesWhole, ForwardedWhole, WholeBody
<1> QED BY <1>1, Invariance, PTL

\* Only a client that has left during the delay gets no answer, or one whose stub
\* has a delay that panics.
THEOREM SilenceCorrect == Spec => []UnansweredHasReason
<1>1. Inv => UnansweredHasReason
  BY DEF Inv, UnansweredHasReason
<1> QED BY <1>1, Invariance, PTL

-----------------------------------------------------------------------------
(* RequestFlow implements ServedRequests, for the one request it has: the   *)
(* abstract steps, in terms of this request.                               *)
LEMMA FlowDecides ==
    ASSUME stageOf = "open", stageOf' \in {"matched", "forwarding"}, UNCHANGED event
    PROVE  Served!ServedNext
<1>1. [c \in {"request"} |-> stageOf']
          = [[c \in {"request"} |-> stageOf] EXCEPT !["request"] = stageOf']
  OBVIOUS
<1>2. [c \in {"request"} |-> stageOf]["request"] = "open"
  OBVIOUS
<1>3. Served!Decide("request", stageOf')
  BY <1>1, <1>2 DEF Served!Decide
<1> QED BY <1>3 DEF Served!ServedNext, Served!Sources

LEMMA FlowAdds ==
    ASSUME stageOf # "open", stageOf' = "open", event = Nil, event' # Nil,
           sourceOf(event') = stageOf
    PROVE  Served!ServedNext
<1>1. [c \in {"request"} |-> stageOf']
          = [[c \in {"request"} |-> stageOf] EXCEPT !["request"] = "open"]
  OBVIOUS
<1>2. [c \in {"request"} |-> stageOf]["request"] = stageOf
  OBVIOUS
<1>3. Append(<<>>, stageOf) = <<sourceOf(event')>>
  OBVIOUS
<1>4. Served!Add("request")
  BY <1>1, <1>2, <1>3 DEF Served!Add
<1> QED BY <1>4 DEF Served!ServedNext

LEMMA FlowStays ==
    ASSUME stageOf' = "open" \/ UNCHANGED stageOf, UNCHANGED event
    PROVE  Served!ServedNext \/ UNCHANGED Served!servedVars
<1>1. CASE UNCHANGED stageOf
  BY <1>1 DEF Served!servedVars
<1>2. CASE stageOf' = "open" /\ stageOf # "open"
  <2>1. [c \in {"request"} |-> stageOf']
            = [[c \in {"request"} |-> stageOf] EXCEPT !["request"] = "open"]
    BY <1>2
  <2>2. [c \in {"request"} |-> stageOf]["request"] # "open"
    BY <1>2
  <2>3. Served!GiveUp("request")
    BY <2>1, <2>2 DEF Served!GiveUp
  <2> QED BY <2>3 DEF Served!ServedNext
<1> QED BY <1>1, <1>2

\* An event that is recorded is what its source says.
LEMMA Recorded ==
    ASSUME NEW by \in {"stub", "proxy", "recording"},
           NEW got \in {"whole", "partial", "none"}, Record(by, got)
    PROVE  /\ event' # Nil /\ stageOf' = "open"
           /\ sourceOf(event') = IF by = "recording" THEN "forwarding" ELSE "matched"
BY RequestFlowAssumption DEF Record, stageOf, sourceOf

\* However the client, the delay, the upstream and the writing go, a request adds
\* the event of its response once, before it is answered, and none when it fails.
THEOREM RequestImplementsServed == Spec => ImplementsServedRequests
<1>1. Init => Served!ServedInit
  BY DEF Init, Served!ServedInit, stageOf
<1>2. Inv /\ [Next]_vars => [Served!ServedNext]_(Served!servedVars)
  <2> SUFFICES ASSUME Inv, [Next]_vars
               PROVE  Served!ServedNext \/ UNCHANGED Served!servedVars
    OBVIOUS
  <2>1. ASSUME NEW s \in Stubs, MatchStub(s) \/ MatchCall(s) PROVE Served!ServedNext
    <3>1. stageOf = "open" /\ stageOf' = "matched" /\ UNCHANGED event
      BY <2>1 DEF MatchStub, MatchCall, stageOf
    <3> QED BY <3>1, FlowDecides
  <2>2. CASE Forward
    <3>1. stageOf = "open" /\ UNCHANGED event /\ stageOf' \in {"open", "forwarding"}
      BY <2>2 DEF Forward, Fail, stageOf, Inv
    <3> QED BY <3>1, FlowDecides, FlowStays
  <2>3. CASE Render
    <3>1. PICK got \in {"whole", "partial", "none"} : Record("stub", got)
      BY <2>3 DEF Render
    <3>2. stageOf = "matched" /\ event = Nil
      BY <2>3 DEF Render, stageOf, Inv
    <3> QED BY <3>1, <3>2, Recorded, FlowAdds
  <2>4. CASE AnswerCall
    <3>1. Record("stub", body) /\ body \in {"whole", "partial", "none"}
      BY <2>4 DEF AnswerCall, Inv
    <3>2. stageOf = "matched" /\ event = Nil
      BY <2>4 DEF AnswerCall, stageOf, Inv
    <3> QED BY <3>1, <3>2, Recorded, FlowAdds
  <2>5. CASE UpstreamAnswers
    <3> DEFINE by == IF stub = Nil THEN "recording" ELSE "proxy"
    <3>1. Record(by, body) /\ body \in {"whole", "partial", "none"}
      BY <2>5 DEF UpstreamAnswers, Inv
    <3>2. stageOf = (IF by = "recording" THEN "forwarding" ELSE "matched") /\ event = Nil
      BY <2>5 DEF UpstreamAnswers, stageOf, Inv
    <3> QED BY <3>1, <3>2, Recorded, FlowAdds
  <2>6. ASSUME NoMatch \/ UnknownMethod \/ RefuseCall \/ DelayCut \/ DelayPanics
                   \/ RenderFails \/ RefuseAnswer \/ UpstreamFails \/ WriteHead \/ WriteChunk \/ WriteFails
                   \/ Written \/ WriteCall \/ Sample
        PROVE  Served!ServedNext \/ UNCHANGED Served!servedVars
    <3>1. UNCHANGED event /\ (stageOf' = "open" \/ UNCHANGED stageOf)
      BY <2>6 DEF NoMatch, UnknownMethod, RefuseCall, DelayCut, DelayPanics, RenderFails, RefuseAnswer,
                  UpstreamFails, WriteHead, WriteChunk, WriteFails, Written, WriteCall,
                  Sample, Fail, stageOf
    <3> QED BY <3>1, FlowStays
  <2>7. ASSUME ReadToMatch \/ DelayOver \/ Send \/ Leave \/ Stall \/ UNCHANGED vars
        PROVE  UNCHANGED Served!servedVars
    <3>1. UNCHANGED event /\ UNCHANGED stageOf
      BY <2>7 DEF ReadToMatch, DelayOver, Send, Leave, Stall, vars, stageOf
    <3> QED BY <3>1 DEF Served!servedVars
  <2>8. CASE Proxy
    <3>1. UNCHANGED event /\ (stageOf' = "open" \/ UNCHANGED stageOf)
      BY <2>8 DEF Proxy, Fail, stageOf, Inv
    <3> QED BY <3>1, FlowStays
  <2> QED BY <2>1, <2>2, <2>3, <2>4, <2>5, <2>6, <2>7, <2>8 DEF Next, Handler
<1> QED BY <1>1, <1>2, Invariance, PTL DEF Spec, ImplementsServedRequests, Served!ServedSpec
=============================================================================
