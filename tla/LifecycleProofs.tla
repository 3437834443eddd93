-------------------------- MODULE LifecycleProofs ---------------------------
(***************************************************************************)
(* Theorems about Lifecycle, for any set of configurations and any number  *)
(* of requests.                                                            *)
(***************************************************************************)
EXTENDS Lifecycle, FiniteSetTheorems, TLAPS

-----------------------------------------------------------------------------
(* The invariant.                                                          *)

Types ==
    /\ config \in Configurations
    /\ pc \in {"load", "select", "shutdown", "exited"}
    /\ listener \in [Servers -> {"none", "starting", "serving", "failed", "closed"}]
    /\ closing \in [Servers -> BOOLEAN]
    /\ inFlight \in [Servers -> 0..MaxInFlight]
    /\ errCh \in Seq({"failed", "closed"})
    /\ signalled \in BOOLEAN /\ expired \in BOOLEAN /\ failed \in BOOLEAN
    /\ turn \in 1..3
    /\ reason \in {"none", "signal", "failure"}
    /\ code \in {NoCode, 0, 1, 2}

\* The listeners that have returned: each has sent one message.
Returned == {s \in Servers : listener[s] \in {"failed", "closed"}}

\* The channel has no more messages than have been sent, and they are true.
Messages ==
    /\ Len(errCh) <= Cardinality(Returned)
    /\ \A i \in DOMAIN errCh :
          IF errCh[i] = "failed"
          THEN \E s \in Servers : listener[s] = "failed"
          ELSE \E s \in Servers : closing[s]

\* Before run leaves its select no server is told to close, and before it gets
\* there none is started.
Begins ==
    /\ pc \in {"load", "select"} => turn = 1 /\ reason = "none" /\ \A s \in Servers : ~ closing[s]
    /\ pc = "load" => started = {} /\ errCh = <<>>
    /\ pc \in {"select", "shutdown"} => 1 \in started

\* The servers whose turn is over are shut down, and those that were late are
\* known.
Behind ==
    pc = "shutdown" =>
        \A s \in started : s < turn =>
            /\ closing[s] /\ listener[s] # "serving"
            /\ inFlight[s] > 0 => expired /\ failed

\* Why run shuts down, and why it could not finish, is true.
Reasons ==
    /\ pc = "shutdown" => reason # "none"
    /\ reason = "signal" => signalled
    /\ reason = "failure" => \E s \in Servers : listener[s] = "failed"
    /\ failed => expired

Inv ==
    /\ Types /\ Messages /\ Begins /\ Behind /\ Reasons
    /\ EveryServerShutDown /\ CodeTellsWhy

-----------------------------------------------------------------------------
(* Sets of servers, and the steps.                                         *)

LEMMA ServersFinite ==
    ASSUME NEW T \in SUBSET Servers
    PROVE  IsFiniteSet(T) /\ Cardinality(T) \in Nat
<1>1. Servers = {1} \cup {2}
  BY DEF Servers
<1>2. IsFiniteSet(Servers)
  BY <1>1, FS_Singleton, FS_AddElement
<1>3. IsFiniteSet(T)
  BY <1>2, FS_Subset
<1> QED BY <1>3, FS_CardinalityType

LEMMA Steps ==
    ASSUME [Next]_vars
    PROVE  \/ Refuse \/ PrintVersion \/ Start \/ TakeSignal \/ TakeFailure
           \/ BeginShutdown \/ ServerDrained \/ ServerLate \/ Finish
           \/ Signal \/ Expire
           \/ \E s \in Servers : \/ Listen(s) \/ ListenerFails(s) \/ ListenerClosed(s)
                                 \/ BeginRequest(s) \/ EndRequest(s)
           \/ UNCHANGED vars
BY DEF Next, Main, Environment

LEMMA InitInv == Init => Inv
<1> SUFFICES ASSUME Init PROVE Inv
  OBVIOUS
<1>1. Returned = {} /\ started = {}
  BY DEF Init, Returned, started
<1>2. Types
  <2>1. errCh \in Seq({"failed", "closed"})
    BY DEF Init
  <2>2. inFlight \in [Servers -> 0..MaxInFlight]
    BY LifecycleAssumption DEF Init
  <2>3. closing \in [Servers -> BOOLEAN] /\ listener \in [Servers -> {"none"}]
    BY DEF Init
  <2>4. config \in Configurations /\ turn = 1 /\ code = NoCode /\ pc = "load" /\ reason = "none"
    BY DEF Init
  <2>5. signalled \in BOOLEAN /\ expired \in BOOLEAN /\ failed \in BOOLEAN
    BY DEF Init
  <2>6. listener \in [Servers -> {"none", "starting", "serving", "failed", "closed"}]
    BY <2>3
  <2>7. turn \in 1..3 /\ code \in {NoCode, 0, 1, 2} /\ reason \in {"none", "signal", "failure"}
    BY <2>4
  <2> QED BY <2>1, <2>2, <2>3, <2>4, <2>5, <2>6, <2>7 DEF Types
<1>3. Messages
  BY <1>1, FS_EmptySet DEF Init, Messages
<1> QED BY <1>1, <1>2, <1>3 DEF Init, Inv, Begins, Behind, Reasons, EveryServerShutDown, CodeTellsWhy

-----------------------------------------------------------------------------
(* The invariant is kept, part by part.                                    *)

\* The types are kept.
LEMMA StepTypes == Inv /\ [Next]_vars => Types'
<1> SUFFICES ASSUME Inv, [Next]_vars PROVE Types'
  OBVIOUS
<1> USE LifecycleAssumption DEF Inv, Types, Servers, NoCode, started
<1>1. CASE Refuse
  BY <1>1 DEF Refuse, Exit
<1>2. CASE PrintVersion
  BY <1>2 DEF PrintVersion, Exit
<1>3. CASE Start
  BY <1>3 DEF Start
<1>4. CASE TakeSignal
  BY <1>4 DEF TakeSignal
<1>5. CASE TakeFailure
  BY <1>5 DEF TakeFailure, Exit
<1>6. CASE BeginShutdown
  BY <1>6 DEF BeginShutdown
<1>7. CASE ServerDrained
  BY <1>7 DEF ServerDrained
<1>8. CASE ServerLate
  BY <1>8 DEF ServerLate
<1>9. CASE Finish
  BY <1>9 DEF Finish, Exit
<1>10. CASE Signal
  BY <1>10 DEF Signal
<1>11. CASE Expire
  BY <1>11 DEF Expire
<1>12. ASSUME NEW s \in Servers, Listen(s) PROVE Types'
  BY <1>12 DEF Listen
<1>13. ASSUME NEW s \in Servers, ListenerFails(s) PROVE Types'
  BY <1>13 DEF ListenerFails, Return
<1>14. ASSUME NEW s \in Servers, ListenerClosed(s) PROVE Types'
  BY <1>14 DEF ListenerClosed, Return
<1>15. ASSUME NEW s \in Servers, BeginRequest(s) PROVE Types'
  BY <1>15 DEF BeginRequest
<1>16. ASSUME NEW s \in Servers, EndRequest(s) PROVE Types'
  BY <1>16 DEF EndRequest
<1>17. CASE UNCHANGED vars
  BY <1>17 DEF vars
<1> QED BY <1>1, <1>2, <1>3, <1>4, <1>5, <1>6, <1>7, <1>8, <1>9, <1>10, <1>11, <1>12, <1>13, <1>14, <1>15, <1>16, <1>17, Steps

\* A listener that returns sends one message, which is true.
LEMMA Sent ==
    ASSUME Inv, NEW s \in Servers, NEW why \in {"failed", "closed"},
           listener[s] \in {"starting", "serving"}, why = "closed" => closing[s], Return(s, why)
    PROVE  Messages'
<1> USE DEF Inv, Types, Return
<1>1. Returned' = Returned \cup {s} /\ s \notin Returned
  BY DEF Returned
<1>2. Cardinality(Returned') = Cardinality(Returned) + 1 /\ Cardinality(Returned) \in Nat
  <2>1. IsFiniteSet(Returned)
    BY ServersFinite, FS_Subset DEF Returned
  <2>2. /\ IsFiniteSet(Returned \cup {s})
        /\ Cardinality(Returned \cup {s}) = Cardinality(Returned) + 1
    BY <1>1, <2>1, FS_AddElement
  <2> QED BY <1>1, <2>1, <2>2, FS_CardinalityType
<1>3. Len(errCh') = Len(errCh) + 1
  OBVIOUS
<1>4. \A i \in DOMAIN errCh' : (i \in DOMAIN errCh /\ errCh'[i] = errCh[i]) \/ errCh'[i] = why
  OBVIOUS
<1>5. \A r \in Servers : listener[r] = "failed" => listener'[r] = "failed"
  OBVIOUS
<1>6. closing' = closing /\ listener'[s] = why
  OBVIOUS
<1> QED BY <1>2, <1>3, <1>4, <1>5, <1>6 DEF Messages

\* Messages are sent once, and what they say stays true.
LEMMA StepMessages == Inv /\ [Next]_vars => Messages'
<1> SUFFICES ASSUME Inv, [Next]_vars PROVE Messages'
  OBVIOUS
<1> USE DEF Inv, Types, Messages
<1>1. CASE Refuse
  BY <1>1 DEF Refuse, Returned, Exit
<1>2. CASE PrintVersion
  BY <1>2 DEF PrintVersion, Returned, Exit
<1>3. CASE Start
  <2>1. errCh' = <<>> /\ Len(errCh') = 0
    BY <1>3 DEF Start, Begins
  <2>2. Cardinality(Returned') \in Nat
    BY <1>3, ServersFinite DEF Start, Returned
  <2> QED BY <2>1, <2>2
<1>4. CASE TakeSignal
  BY <1>4 DEF TakeSignal, Returned
<1>5. CASE TakeFailure
  <2>1. Returned' = Returned /\ listener' = listener /\ closing' = closing /\ errCh' = Tail(errCh)
    BY <1>5 DEF TakeFailure, Returned
  <2>2. Cardinality(Returned) \in Nat
    BY ServersFinite DEF Returned
  <2>3. errCh # <<>> /\ Len(Tail(errCh)) = Len(errCh) - 1
    BY <1>5 DEF TakeFailure
  <2>4. \A i \in DOMAIN Tail(errCh) : i + 1 \in DOMAIN errCh /\ Tail(errCh)[i] = errCh[i + 1]
    BY <2>3
  <2> QED BY <2>1, <2>2, <2>3, <2>4
<1>6. CASE BeginShutdown
  BY <1>6 DEF BeginShutdown, Returned
<1>7. CASE ServerDrained
  BY <1>7 DEF ServerDrained, Returned
<1>8. CASE ServerLate
  BY <1>8 DEF ServerLate, Returned
<1>9. CASE Finish
  BY <1>9 DEF Finish, Returned, Exit
<1>10. CASE Signal
  BY <1>10 DEF Signal, Returned
<1>11. CASE Expire
  BY <1>11 DEF Expire, Returned
<1>12. ASSUME NEW s \in Servers, Listen(s) PROVE Messages'
  BY <1>12 DEF Listen, Returned
<1>13. ASSUME NEW s \in Servers, ListenerFails(s) PROVE Messages'
  BY <1>13, Sent DEF ListenerFails
<1>14. ASSUME NEW s \in Servers, ListenerClosed(s) PROVE Messages'
  BY <1>14, Sent DEF ListenerClosed
<1>15. ASSUME NEW s \in Servers, BeginRequest(s) PROVE Messages'
  BY <1>15 DEF BeginRequest, Returned
<1>16. ASSUME NEW s \in Servers, EndRequest(s) PROVE Messages'
  BY <1>16 DEF EndRequest, Returned
<1>17. CASE UNCHANGED vars
  BY <1>17 DEF vars, Returned
<1> QED BY <1>1, <1>2, <1>3, <1>4, <1>5, <1>6, <1>7, <1>8, <1>9, <1>10, <1>11, <1>12, <1>13, <1>14, <1>15, <1>16, <1>17, Steps

\* No server is told to close before the select is left.
LEMMA StepBegins == Inv /\ [Next]_vars => Begins'
<1> SUFFICES ASSUME Inv, [Next]_vars PROVE Begins'
  OBVIOUS
<1> USE DEF Inv, Types, Servers, Begins, started
<1>1. CASE Refuse
  BY <1>1 DEF Refuse, Exit
<1>2. CASE PrintVersion
  BY <1>2 DEF PrintVersion, Exit
<1>3. CASE Start
  BY <1>3 DEF Start
<1>4. CASE TakeSignal
  BY <1>4 DEF TakeSignal
<1>5. CASE TakeFailure
  BY <1>5 DEF TakeFailure, Exit
<1>6. CASE BeginShutdown
  BY <1>6 DEF BeginShutdown
<1>7. CASE ServerDrained
  BY <1>7 DEF ServerDrained
<1>8. CASE ServerLate
  BY <1>8 DEF ServerLate
<1>9. CASE Finish
  BY <1>9 DEF Finish, Exit
<1>10. CASE Signal
  BY <1>10 DEF Signal
<1>11. CASE Expire
  BY <1>11 DEF Expire
<1>12. ASSUME NEW s \in Servers, Listen(s) PROVE Begins'
  BY <1>12 DEF Listen
<1>13. ASSUME NEW s \in Servers, ListenerFails(s) PROVE Begins'
  BY <1>13 DEF ListenerFails, Return
<1>14. ASSUME NEW s \in Servers, ListenerClosed(s) PROVE Begins'
  BY <1>14 DEF ListenerClosed, Return
<1>15. ASSUME NEW s \in Servers, BeginRequest(s) PROVE Begins'
  BY <1>15 DEF BeginRequest
<1>16. ASSUME NEW s \in Servers, EndRequest(s) PROVE Begins'
  BY <1>16 DEF EndRequest
<1>17. CASE UNCHANGED vars
  BY <1>17 DEF vars
<1> QED BY <1>1, <1>2, <1>3, <1>4, <1>5, <1>6, <1>7, <1>8, <1>9, <1>10, <1>11, <1>12, <1>13, <1>14, <1>15, <1>16, <1>17, Steps

\* A server whose turn is over stays shut down.
LEMMA StepBehind == Inv /\ [Next]_vars => Behind'
<1> SUFFICES ASSUME Inv, [Next]_vars PROVE Behind'
  OBVIOUS
<1> USE DEF Inv, Types, Servers, Begins, Behind, Reasons, started
<1>1. CASE Refuse
  BY <1>1 DEF Refuse, Exit
<1>2. CASE PrintVersion
  BY <1>2 DEF PrintVersion, Exit
<1>3. CASE Start
  BY <1>3 DEF Start
<1>4. CASE TakeSignal
  BY <1>4 DEF TakeSignal
<1>5. CASE TakeFailure
  BY <1>5 DEF TakeFailure, Exit
<1>6. CASE BeginShutdown
  BY <1>6 DEF BeginShutdown
<1>7. CASE ServerDrained
  BY <1>7 DEF ServerDrained
<1>8. CASE ServerLate
  BY <1>8 DEF ServerLate
<1>9. CASE Finish
  BY <1>9 DEF Finish, Exit
<1>10. CASE Signal
  BY <1>10 DEF Signal
<1>11. CASE Expire
  BY <1>11 DEF Expire
<1>12. ASSUME NEW s \in Servers, Listen(s) PROVE Behind'
  BY <1>12 DEF Listen
<1>13. ASSUME NEW s \in Servers, ListenerFails(s) PROVE Behind'
  BY <1>13 DEF ListenerFails, Return
<1>14. ASSUME NEW s \in Servers, ListenerClosed(s) PROVE Behind'
  BY <1>14 DEF ListenerClosed, Return
<1>15. ASSUME NEW s \in Servers, BeginRequest(s) PROVE Behind'
  BY <1>15 DEF BeginRequest
<1>16. ASSUME NEW s \in Servers, EndRequest(s) PROVE Behind'
  BY <1>16 DEF EndRequest
<1>17. CASE UNCHANGED vars
  BY <1>17 DEF vars
<1> QED BY <1>1, <1>2, <1>3, <1>4, <1>5, <1>6, <1>7, <1>8, <1>9, <1>10, <1>11, <1>12, <1>13, <1>14, <1>15, <1>16, <1>17, Steps

\* Reasons stay true.
LEMMA StepReasons == Inv /\ [Next]_vars => Reasons'
<1> SUFFICES ASSUME Inv, [Next]_vars PROVE Reasons'
  OBVIOUS
<1> USE DEF Inv, Types, Servers, Begins, Behind, Reasons, Messages
<1>1. CASE Refuse
  BY <1>1 DEF Refuse, Exit
<1>2. CASE PrintVersion
  BY <1>2 DEF PrintVersion, Exit
<1>3. CASE Start
  BY <1>3 DEF Start
<1>4. CASE TakeSignal
  BY <1>4 DEF TakeSignal
<1>5. CASE TakeFailure
  BY <1>5 DEF TakeFailure, Exit
<1>6. CASE BeginShutdown
  BY <1>6 DEF BeginShutdown
<1>7. CASE ServerDrained
  BY <1>7 DEF ServerDrained
<1>8. CASE ServerLate
  BY <1>8 DEF ServerLate
<1>9. CASE Finish
  BY <1>9 DEF Finish, Exit
<1>10. CASE Signal
  BY <1>10 DEF Signal
<1>11. CASE Expire
  BY <1>11 DEF Expire
<1>12. ASSUME NEW s \in Servers, Listen(s) PROVE Reasons'
  BY <1>12 DEF Listen
<1>13. ASSUME NEW s \in Servers, ListenerFails(s) PROVE Reasons'
  BY <1>13 DEF ListenerFails, Return
<1>14. ASSUME NEW s \in Servers, ListenerClosed(s) PROVE Reasons'
  BY <1>14 DEF ListenerClosed, Return
<1>15. ASSUME NEW s \in Servers, BeginRequest(s) PROVE Reasons'
  BY <1>15 DEF BeginRequest
<1>16. ASSUME NEW s \in Servers, EndRequest(s) PROVE Reasons'
  BY <1>16 DEF EndRequest
<1>17. CASE UNCHANGED vars
  BY <1>17 DEF vars
<1> QED BY <1>1, <1>2, <1>3, <1>4, <1>5, <1>6, <1>7, <1>8, <1>9, <1>10, <1>11, <1>12, <1>13, <1>14, <1>15, <1>16, <1>17, Steps

\* run returns when no server's turn is left, or before it starts any: a message
\* of a closed listener is none that its select can take.
LEMMA StepShutDown == Inv /\ [Next]_vars => EveryServerShutDown'
<1> SUFFICES ASSUME Inv, [Next]_vars PROVE EveryServerShutDown'
  OBVIOUS
<1> USE DEF Inv, Types, Servers, Begins, Behind, Messages, Reasons, started, EveryServerShutDown
<1>1. CASE Refuse
  BY <1>1 DEF Refuse, Exit
<1>2. CASE PrintVersion
  BY <1>2 DEF PrintVersion, Exit
<1>3. CASE Start
  BY <1>3 DEF Start
<1>4. CASE TakeSignal
  BY <1>4 DEF TakeSignal
<1>5. CASE TakeFailure
  BY <1>5 DEF TakeFailure, Exit
<1>6. CASE BeginShutdown
  BY <1>6 DEF BeginShutdown
<1>7. CASE ServerDrained
  BY <1>7 DEF ServerDrained
<1>8. CASE ServerLate
  BY <1>8 DEF ServerLate
<1>9. CASE Finish
  BY <1>9 DEF Finish, Exit
<1>10. CASE Signal
  BY <1>10 DEF Signal
<1>11. CASE Expire
  BY <1>11 DEF Expire
<1>12. ASSUME NEW s \in Servers, Listen(s) PROVE EveryServerShutDown'
  BY <1>12 DEF Listen
<1>13. ASSUME NEW s \in Servers, ListenerFails(s) PROVE EveryServerShutDown'
  BY <1>13 DEF ListenerFails, Return
<1>14. ASSUME NEW s \in Servers, ListenerClosed(s) PROVE EveryServerShutDown'
  BY <1>14 DEF ListenerClosed, Return
<1>15. ASSUME NEW s \in Servers, BeginRequest(s) PROVE EveryServerShutDown'
  BY <1>15 DEF BeginRequest
<1>16. ASSUME NEW s \in Servers, EndRequest(s) PROVE EveryServerShutDown'
  BY <1>16 DEF EndRequest
<1>17. CASE UNCHANGED vars
  BY <1>17 DEF vars
<1> QED BY <1>1, <1>2, <1>3, <1>4, <1>5, <1>6, <1>7, <1>8, <1>9, <1>10, <1>11, <1>12, <1>13, <1>14, <1>15, <1>16, <1>17, Steps

\* The exit code is chosen by what is true then, and stays true.
LEMMA StepCode == Inv /\ [Next]_vars => CodeTellsWhy'
<1> SUFFICES ASSUME Inv, [Next]_vars PROVE CodeTellsWhy'
  OBVIOUS
<1> USE DEF Inv, Types, Servers, Begins, Behind, Messages, Reasons, started, CodeTellsWhy, NoCode
<1>1. CASE Refuse
  BY <1>1 DEF Refuse, Exit
<1>2. CASE PrintVersion
  BY <1>2 DEF PrintVersion, Exit
<1>3. CASE Start
  BY <1>3 DEF Start
<1>4. CASE TakeSignal
  BY <1>4 DEF TakeSignal
<1>5. CASE TakeFailure
  BY <1>5 DEF TakeFailure, Exit
<1>6. CASE BeginShutdown
  BY <1>6 DEF BeginShutdown
<1>7. CASE ServerDrained
  BY <1>7 DEF ServerDrained
<1>8. CASE ServerLate
  BY <1>8 DEF ServerLate
<1>9. CASE Finish
  BY <1>9 DEF Finish, Exit
<1>10. CASE Signal
  BY <1>10 DEF Signal
<1>11. CASE Expire
  BY <1>11 DEF Expire
<1>12. ASSUME NEW s \in Servers, Listen(s) PROVE CodeTellsWhy'
  BY <1>12 DEF Listen
<1>13. ASSUME NEW s \in Servers, ListenerFails(s) PROVE CodeTellsWhy'
  BY <1>13 DEF ListenerFails, Return
<1>14. ASSUME NEW s \in Servers, ListenerClosed(s) PROVE CodeTellsWhy'
  BY <1>14 DEF ListenerClosed, Return
<1>15. ASSUME NEW s \in Servers, BeginRequest(s) PROVE CodeTellsWhy'
  BY <1>15 DEF BeginRequest
<1>16. ASSUME NEW s \in Servers, EndRequest(s) PROVE CodeTellsWhy'
  BY <1>16 DEF EndRequest
<1>17. CASE UNCHANGED vars
  BY <1>17 DEF vars
<1> QED BY <1>1, <1>2, <1>3, <1>4, <1>5, <1>6, <1>7, <1>8, <1>9, <1>10, <1>11, <1>12, <1>13, <1>14, <1>15, <1>16, <1>17, Steps

-----------------------------------------------------------------------------
(* Theorems.                                                               *)

LEMMA Invariance == Spec => []Inv
<1>1. Inv /\ [Next]_vars => Inv'
  BY StepTypes, StepMessages, StepBegins, StepBehind, StepReasons, StepShutDown, StepCode DEF Inv
<1> QED BY InitInv, <1>1, PTL DEF Spec

\* The variables of the process keep their types, and no listener that returns
\* waits for room in the channel of failures.
THEOREM TypeCorrect == Spec => []TypeOK
<1>1. Inv => TypeOK
  <2> SUFFICES ASSUME Inv PROVE TypeOK
    OBVIOUS
  <2>1. Returned \subseteq started /\ started \subseteq Servers
    BY DEF Returned, started
  <2>2. Cardinality(Returned) <= Cardinality(started)
    BY <2>1, ServersFinite, FS_Subset
  <2>3. Cardinality(Returned) \in Nat /\ Cardinality(started) \in Nat
    BY <2>1, ServersFinite
  <2> QED BY <2>2, <2>3 DEF Inv, Types, Messages, TypeOK
<1> QED BY <1>1, Invariance, PTL

\* A process that has ended has shut down every server it started, and cut off
\* requests only when the time for all of them was over.
THEOREM ShutdownCorrect == Spec => []EveryServerShutDown
<1>1. Inv => EveryServerShutDown
  BY DEF Inv
<1> QED BY <1>1, Invariance, PTL

\* The exit code tells why the process has ended.
THEOREM CodeCorrect == Spec => []CodeTellsWhy
<1>1. Inv => CodeTellsWhy
  BY DEF Inv
<1> QED BY <1>1, Invariance, PTL
=============================================================================
