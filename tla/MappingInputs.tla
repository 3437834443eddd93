---------------------------- MODULE MappingInputs ----------------------------
(***************************************************************************)
(* What users give the parts of VIMock that read mappings: a document with *)
(* the id of the path it is sent to ("" for a POST), and the times of a    *)
(* response with the length of the body it is written with.  An input      *)
(* stays what it is; the properties are those of MappingDocument and Delay *)
(* for it.                                                                 *)
(***************************************************************************)
EXTENDS MappingDocument, Delay

CONSTANT Documents      \* JSON objects, as far as MappingDocument reads them

\* The fields a document is read by; any others are kept with the stub.
documentFields ==
    {"id", "name", "persistent", "priority", "scenarioName", "requiredScenarioState",
     "newScenarioState", "metadata", "request", "response"}

ASSUME DocumentsAssumption ==
    \A d \in Documents : d = [f \in DOMAIN d |-> d[f]] /\ documentFields \subseteq DOMAIN d

VARIABLE input

DocumentInput ==
    \E d \in Documents, id \in Ids \cup {""} :
        input = [kind |-> "document", document |-> d, id |-> id]
TimesInput ==
    \E d \in Definitions, n \in Lengths :
        input = [kind |-> "times", definition |-> d, length |-> n]

InputsInit == DocumentInput \/ TimesInput
InputsSpec == InputsInit /\ [][UNCHANGED input]_input

-----------------------------------------------------------------------------
(* Properties.                                                             *)

\* A stub that is exported is accepted again as the same stub (ParseJSONWithID
\* of what MarshalJSON wrote), whatever the document left out.
RoundTrip == input.kind = "document" => RoundTripOf(input.document, input.id)

\* A template that looks at the request's body is given it by serveHTTP.
TemplateHasBody == input.kind = "document" => TemplateHasBodyOf(input.document)

\* A response takes the time its definition says, as far as Durations reach.
TimesAreDefined == input.kind = "times" => TimedAsDefined(input.definition, input.length)
=============================================================================
