-------------------------- MODULE RecordingProofs ---------------------------
(***************************************************************************)
(* Theorems about Recording, for any number of handlers and requests, any  *)
(* bodies, and any size of the window.                                     *)
(***************************************************************************)
EXTENDS Recording, FiniteSetTheorems, TLAPS

-----------------------------------------------------------------------------
(* Types.                                                                  *)

\* Window yields the end of its argument.
LEMMA WindowIsEnd ==
    ASSUME NEW events \in Seq(Event)
    PROVE  /\ Window(events) \in Seq(Event)
           /\ Len(Window(events)) = IF Len(events) < MaxWindow THEN Len(events) ELSE MaxWindow
           /\ \A k \in DOMAIN Window(events) :
                 /\ Len(events) - Len(Window(events)) + k \in DOMAIN events
                 /\ Window(events)[k] = events[Len(events) - Len(Window(events)) + k]
<1>1. CASE Len(events) > MaxWindow
  <2>1. Window(events) = SubSeq(events, Len(events) - MaxWindow + 1, Len(events))
    BY <1>1 DEF Window
  <2>2. MaxWindow \in Nat \ {0} /\ Len(events) \in Nat
    BY RecordingAssumption
  <2> HIDE DEF Window
  <2>3. Window(events) \in Seq(Event) /\ Len(Window(events)) = MaxWindow
    BY <1>1, <2>1, <2>2
  <2>4. \A k \in 1..MaxWindow : Window(events)[k] = events[Len(events) - MaxWindow + k]
    BY <1>1, <2>1, <2>2
  <2>5. DOMAIN Window(events) = 1..MaxWindow
    BY <2>3, <2>2
  <2> QED BY <1>1, <2>2, <2>3, <2>4, <2>5
<1>2. CASE ~ (Len(events) > MaxWindow)
  BY <1>2, RecordingAssumption DEF Window
<1> QED BY <1>1, <1>2

Joins(recordingEvent) == recordingEvent /\ active # Nil

\* addEvent adds one event to the log and the window, and one that belongs to a
\* session to it.
Adds(c, recordingEvent, e) ==
    /\ e \in Event
    /\ e.n = Len(log) + 1
    /\ e.request = at[c].request
    /\ e.seen = at[c].seen
    /\ e.session = IF Joins(recordingEvent) THEN active.session ELSE 0
    /\ log' = Append(log, e)
    /\ serveEvents' = Window(Append(serveEvents, e))
    /\ active' = IF Joins(recordingEvent) THEN [active EXCEPT !.events = Append(@, e)] ELSE active

LEMMA EventAdded ==
    ASSUME TypeOK, NEW c \in Callers, at[c] # Nil, NEW recordingEvent \in BOOLEAN,
           addEvent(c, recordingEvent)
    PROVE  \E e \in Event : Adds(c, recordingEvent, e)
<1> DEFINE joins == recordingEvent /\ active # Nil
           e == [n |-> Len(log) + 1, request |-> at[c].request, seen |-> at[c].seen,
                 session |-> IF joins THEN active.session ELSE 0]
<1>1. at[c] \in Visit /\ Len(log) \in Nat /\ (joins => active \in Session)
  BY DEF TypeOK
<1>2. (IF joins THEN active.session ELSE 0) \in Nat
  BY <1>1 DEF Session
<1>3. e \in Event
  BY <1>1, <1>2 DEF Event, Visit
<1>4. Adds(c, recordingEvent, e)
  BY <1>3 DEF addEvent, Adds, Joins
<1> QED BY <1>3, <1>4

LEMMA SessionMade ==
    ASSUME NEW n \in Nat, NEW events \in Seq(Event)
    PROVE  [session |-> n, events |-> events] \in Session
BY DEF Session

LEMMA Held ==
    ASSUME TypeOK, NEW a \in Admins, NEW stop \in BOOLEAN, NEW events \in Seq(Event),
           Hold(a, stop, events)
    PROVE  job' \in [Admins -> Job \cup {Nil}]
<1>1. [stop |-> stop, events |-> events, next |-> 1] \in Job
  BY DEF Job
<1> QED BY <1>1 DEF TypeOK, Hold

\* A loop that has activated one more stub.
LEMMA JobAdvanced ==
    ASSUME NEW j \in Job, NEW k, k = [j EXCEPT !.next = @ + 1]
    PROVE  /\ k \in Job /\ k # Nil
           /\ k.stop = j.stop /\ k.events = j.events /\ k.next = j.next + 1
<1>1. j = [stop |-> j.stop, events |-> j.events, next |-> j.next]
  BY DEF Job
<1>2. k = [stop |-> j.stop, events |-> j.events, next |-> j.next + 1]
  BY <1>1
<1>3. j.stop \in BOOLEAN /\ j.events \in Seq(Event) /\ j.next + 1 \in Nat
  BY DEF Job
<1>4. k \in Job
  BY <1>2, <1>3 DEF Job
<1> QED BY <1>2, <1>4, NilAssumption

LEMMA InitTypeOK == Init => TypeOK
BY DEF Init, TypeOK

\* The types are kept by an event that is added.
LEMMA AddTypeOK ==
    ASSUME TypeOK, NEW c \in Callers, NEW r \in BOOLEAN, NEW e, Adds(c, r, e),
           at' = [at EXCEPT ![c] = Nil], UNCHANGED <<job, sessions>>
    PROVE  TypeOK'
<1> USE DEF TypeOK, Adds
<1>1. log' \in Seq(Event) /\ Append(serveEvents, e) \in Seq(Event)
  OBVIOUS
<1>2. serveEvents' \in Seq(Event)
  BY <1>1, WindowIsEnd
<1>3. active' \in Session \cup {Nil} /\ (active' # Nil => active'.session = sessions)
  <2>1. CASE Joins(r)
    <3>1. active \in Session /\ active.session = sessions
      BY <2>1 DEF Joins
    <3>2. active' = [session |-> sessions, events |-> Append(active.events, e)]
      BY <2>1, <3>1 DEF Session
    <3>3. Append(active.events, e) \in Seq(Event)
      BY <3>1 DEF Session
    <3>4. active' \in Session
      BY <3>2, <3>3, SessionMade
    <3> QED BY <3>2, <3>4
  <2>2. CASE ~ Joins(r)
    BY <2>2
  <2> QED BY <2>1, <2>2
<1>4. at' \in [Callers -> Visit \cup {Nil}] /\ \A d \in Callers : at'[d] # Nil => at'[d].seen <= sessions
  OBVIOUS
<1> QED BY <1>1, <1>2, <1>3, <1>4

LEMMA StepTypeOK == TypeOK /\ [Next]_vars => TypeOK'
<1> SUFFICES ASSUME TypeOK, [Next]_vars PROVE TypeOK'
  OBVIOUS
<1> USE DEF TypeOK
<1>1. ASSUME NEW a \in Admins, Start(a) PROVE TypeOK'
  <2>1. active' = [session |-> sessions + 1, events |-> <<>>] /\ sessions' = sessions + 1
    BY <1>1 DEF Start
  <2>2. sessions \in Nat /\ sessions + 1 \in Nat /\ <<>> \in Seq(Event)
    OBVIOUS
  <2>3. active' \in Session
    BY <2>1, <2>2, SessionMade
  <2>4. active'.session = sessions' /\ sessions' \in Nat
    BY <2>1, <2>2
  <2>5. \A d \in Callers : at'[d] # Nil => at'[d].seen <= sessions'
    <3>1. SUFFICES ASSUME NEW d \in Callers, at[d] # Nil PROVE at[d].seen <= sessions + 1
      BY <1>1, <2>1 DEF Start
    <3>2. at[d].seen \in Nat /\ at[d].seen <= sessions
      BY <3>1 DEF Visit
    <3> QED BY <3>2, <2>2
  <2>6. UNCHANGED <<log, serveEvents, job, at>>
    BY <1>1 DEF Start
  <2> QED BY <2>3, <2>4, <2>5, <2>6
<1>2. ASSUME NEW a \in Admins, Stop(a) PROVE TypeOK'
  <2>1. active \in Session /\ active.events \in Seq(Event)
    BY <1>2 DEF Stop, Session
  <2>2. job' \in [Admins -> Job \cup {Nil}]
    BY <1>2, <2>1, Held DEF Stop
  <2>3. \A b \in Admins : job'[b] # Nil => job'[b].next \in 1..(Len(job'[b].events) + 1)
    BY <1>2, <2>1 DEF Stop, Hold
  <2> QED BY <1>2, <2>2, <2>3 DEF Stop
<1>3. ASSUME NEW a \in Admins, StopIdle(a) PROVE TypeOK'
  BY <1>3 DEF StopIdle, vars, history
<1>4. ASSUME NEW a \in Admins, Snapshot(a) PROVE TypeOK'
  <2>1. job' \in [Admins -> Job \cup {Nil}]
    BY <1>4, Held DEF Snapshot
  <2>2. \A b \in Admins : job'[b] # Nil => job'[b].next \in 1..(Len(job'[b].events) + 1)
    BY <1>4 DEF Snapshot, Hold
  <2> QED BY <1>4, <2>1, <2>2 DEF Snapshot, history
<1>5. ASSUME NEW a \in Admins, Activate(a) PROVE TypeOK'
  <2>1. job[a] \in Job
    BY <1>5 DEF Activate
  <2>2. [job[a] EXCEPT !.next = @ + 1] \in Job
    BY <2>1, JobAdvanced
  <2>4. job' \in [Admins -> Job \cup {Nil}]
    BY <1>5, <2>2 DEF Activate
  <2>3. \A b \in Admins : job'[b] # Nil => job'[b].next \in 1..(Len(job'[b].events) + 1)
    BY <1>5, <2>1 DEF Activate, Job
  <2> QED BY <1>5, <2>3, <2>4 DEF Activate, history
<1>6. ASSUME NEW a \in Admins, Respond(a) PROVE TypeOK'
  BY <1>6 DEF Respond
<1>7. ASSUME NEW c \in Callers, NEW q \in Requests, Arrive(c, q) PROVE TypeOK'
  <2>1. at' \in [Callers -> Visit \cup {Nil}]
    BY <1>7 DEF Arrive, Visit
  <2>2. \A d \in Callers : at'[d] # Nil => at'[d].seen <= sessions
    BY <1>7 DEF Arrive
  <2> QED BY <1>7, <2>1, <2>2 DEF Arrive, history
<1>8. ASSUME NEW c \in Callers, ServeStub(c) PROVE TypeOK'
  BY <1>8, EventAdded, AddTypeOK DEF ServeStub, At, Answer
<1>9. ASSUME NEW c \in Callers, NoMatch(c) PROVE TypeOK'
  BY <1>9 DEF NoMatch, Answer, history
<1>10. ASSUME NEW c \in Callers, SeeSession(c) PROVE TypeOK'
  <2>1. at[c] \in Visit /\ active \in Session
    BY <1>10 DEF SeeSession, At
  <2>2. at' \in [Callers -> Visit \cup {Nil}]
    BY <1>10, <2>1 DEF SeeSession, Visit, Session
  <2>3. \A d \in Callers : at'[d] # Nil => at'[d].seen <= sessions
    BY <1>10, <2>1 DEF SeeSession, Visit
  <2> QED BY <1>10, <2>2, <2>3 DEF SeeSession, history
<1>11. ASSUME NEW c \in Callers, Forwarded(c) PROVE TypeOK'
  BY <1>11, EventAdded, AddTypeOK DEF Forwarded, At, Answer
<1>12. ASSUME NEW c \in Callers, Fails(c) PROVE TypeOK'
  BY <1>12 DEF Fails, Answer, history
<1>13. CASE UNCHANGED vars
  BY <1>13 DEF vars, history
<1> QED BY <1>1, <1>2, <1>3, <1>4, <1>5, <1>6, <1>7, <1>8, <1>9, <1>10, <1>11, <1>12, <1>13 DEF Next

\* The variables of the store and of the handlers keep their types.
THEOREM TypeCorrect == Spec => []TypeOK
<1>1. Init => TypeOK
  BY InitTypeOK
<1>2. TypeOK /\ [Next]_vars => TypeOK'
  BY StepTypeOK
<1> QED BY <1>1, <1>2, PTL DEF Spec

-----------------------------------------------------------------------------
(* What the store and the handlers hold are events of the log.             *)
Logged(events, l) ==
    \A k \in DOMAIN events : events[k].n \in DOMAIN l /\ l[events[k].n] = events[k]

InSession(events) == \A k \in DOMAIN events : events[k].session # 0

Logs ==
    /\ \A k \in DOMAIN log : log[k].n = k
    /\ Logged(serveEvents, log)
    /\ active # Nil => active.session # 0 /\ Logged(active.events, log) /\ InSession(active.events)
    /\ \A a \in Admins :
          job[a] # Nil => Logged(job[a].events, log) /\ (job[a].stop => InSession(job[a].events))
    /\ \A n \in delivered \cup discarded : n \in DOMAIN log /\ log[n].session # 0

LEMMA Appended ==
    ASSUME NEW s \in Seq(Event), NEW e \in Event
    PROVE  /\ Append(s, e) \in Seq(Event)
           /\ Len(s) \in Nat
           /\ Len(Append(s, e)) = Len(s) + 1
           /\ DOMAIN s = 1..Len(s)
           /\ DOMAIN Append(s, e) = 1..(Len(s) + 1)
           /\ \A k \in 1..Len(s) : Append(s, e)[k] = s[k]
           /\ Append(s, e)[Len(s) + 1] = e
OBVIOUS

\* The log with one more event, the others where they are.
Grows(e) ==
    /\ e.n \in DOMAIN log' /\ e.n \notin DOMAIN log /\ log'[e.n] = e
    /\ \A k \in DOMAIN log : k \in DOMAIN log' /\ log'[k] = log[k]
    /\ \A k \in DOMAIN log' : k \in DOMAIN log \/ k = e.n

LEMMA AddLog ==
    ASSUME TypeOK, NEW c, NEW r \in BOOLEAN, NEW e, Adds(c, r, e)
    PROVE  Grows(e) /\ \A events : Logged(events, log) => Logged(events, log')
<1>1. log \in Seq(Event) /\ e \in Event /\ log' = Append(log, e) /\ e.n = Len(log) + 1
  BY DEF TypeOK, Adds
<1>2. /\ Len(log) \in Nat
      /\ DOMAIN log = 1..Len(log)
      /\ DOMAIN log' = 1..(Len(log) + 1)
      /\ \A k \in 1..Len(log) : log'[k] = log[k]
      /\ log'[Len(log) + 1] = e
  BY <1>1, Appended
<1>3. \A k \in DOMAIN log : k \in DOMAIN log' /\ log'[k] = log[k]
  BY <1>2
<1>4. \A events : Logged(events, log) => Logged(events, log')
  BY <1>3 DEF Logged
<1>5. /\ e.n \in DOMAIN log' /\ e.n \notin DOMAIN log /\ log'[e.n] = e
      /\ \A k \in DOMAIN log' : k \in DOMAIN log \/ k = e.n
  BY <1>1, <1>2
<1> QED BY <1>3, <1>4, <1>5 DEF Grows

\* Events of the log followed by another one, and the end of such a sequence.
LEMMA LoggedAppended ==
    ASSUME NEW s \in Seq(Event), NEW e \in Event, NEW l, Logged(s, l),
           e.n \in DOMAIN l, l[e.n] = e
    PROVE  Logged(Append(s, e), l)
BY Appended DEF Logged

LEMMA LoggedWindow ==
    ASSUME NEW s \in Seq(Event), NEW l, Logged(s, l)
    PROVE  Logged(Window(s), l)
<1>1. \A k \in DOMAIN Window(s) : \E i \in DOMAIN s : Window(s)[k] = s[i]
  BY WindowIsEnd
<1> QED BY <1>1 DEF Logged

LEMMA AddLogs ==
    ASSUME TypeOK, Logs, NEW c, NEW r \in BOOLEAN, NEW e, Adds(c, r, e),
           UNCHANGED <<job, delivered, discarded>>
    PROVE  Logs'
<1>1. /\ e \in Event
      /\ serveEvents \in Seq(Event)
      /\ serveEvents' = Window(Append(serveEvents, e))
      /\ active' = IF Joins(r) THEN [active EXCEPT !.events = Append(@, e)] ELSE active
      /\ e.session = IF Joins(r) THEN active.session ELSE 0
  BY DEF TypeOK, Adds
<1>2. Grows(e) /\ \A events : Logged(events, log) => Logged(events, log')
  BY AddLog
<1>3. e.n \in DOMAIN log' /\ log'[e.n] = e
  BY <1>2 DEF Grows
<1>4. \A k \in DOMAIN log' : log'[k].n = k
  <2>1. TAKE k \in DOMAIN log'
  <2>2. CASE k \in DOMAIN log
    BY <1>2, <2>2 DEF Grows, Logs
  <2>3. CASE k \notin DOMAIN log
    <3>1. k = e.n
      BY <1>2, <2>1, <2>3 DEF Grows
    <3> QED BY <1>2, <3>1 DEF Grows
  <2> QED BY <2>2, <2>3
<1>5. Logged(serveEvents', log')
  <2>1. Logged(serveEvents, log')
    BY <1>2 DEF Logs
  <2>2. Append(serveEvents, e) \in Seq(Event) /\ Logged(Append(serveEvents, e), log')
    BY <1>1, <1>3, <2>1, LoggedAppended, Appended
  <2> QED BY <1>1, <2>2, LoggedWindow
<1>6. active' # Nil =>
        active'.session # 0 /\ Logged(active'.events, log') /\ InSession(active'.events)
  <2>1. CASE Joins(r)
    <3>1. active \in Session /\ active.session # 0 /\ Logged(active.events, log')
          /\ InSession(active.events)
      BY <2>1, <1>2 DEF Joins, Logs, TypeOK
    <3>2. active.events \in Seq(Event)
      BY <3>1 DEF Session
    <3>3. active' = [session |-> active.session, events |-> Append(active.events, e)]
      BY <1>1, <2>1, <3>1 DEF Session
    <3>4. Logged(Append(active.events, e), log')
      BY <1>1, <1>3, <3>1, <3>2, LoggedAppended
    <3>5. e.session # 0
      BY <1>1, <2>1, <3>1
    <3>6. InSession(Append(active.events, e))
      BY <1>1, <3>1, <3>2, <3>5, Appended DEF InSession
    <3> QED BY <3>1, <3>3, <3>4, <3>6
  <2>2. CASE ~ Joins(r)
    BY <1>1, <2>2, <1>2 DEF Logs
  <2> QED BY <2>1, <2>2
<1>7. \A a \in Admins :
        job'[a] # Nil => Logged(job'[a].events, log') /\ (job'[a].stop => InSession(job'[a].events))
  BY <1>2 DEF Logs
<1>8. \A n \in delivered' \cup discarded' : n \in DOMAIN log' /\ log'[n].session # 0
  BY <1>2 DEF Grows, Logs
<1> QED BY <1>4, <1>5, <1>6, <1>7, <1>8 DEF Logs

\* The numbers of logged events of sessions.
LEMMA NumbersLogged ==
    ASSUME NEW events, NEW l, Logged(events, l), InSession(events), NEW n \in Numbers(events)
    PROVE  n \in DOMAIN l /\ l[n].session # 0
BY DEF Numbers, Logged, InSession

LEMMA StepLogs == TypeOK /\ Logs /\ [Next]_vars => Logs'
<1> SUFFICES ASSUME TypeOK, Logs, [Next]_vars PROVE Logs'
  OBVIOUS
<1>1. ASSUME NEW a \in Admins, Start(a) PROVE Logs'
  <2>1. active' = [session |-> sessions + 1, events |-> <<>>] /\ sessions \in Nat
    BY <1>1 DEF Start, TypeOK
  <2>2. active'.session # 0 /\ Logged(active'.events, log) /\ InSession(active'.events)
    BY <2>1 DEF Logged, InSession
  <2>3. \A n \in discarded' : n \in DOMAIN log /\ log[n].session # 0
    BY <1>1, NumbersLogged DEF Start, Logs
  <2> QED BY <1>1, <2>2, <2>3 DEF Start, Logs
<1>2. ASSUME NEW a \in Admins, Stop(a) PROVE Logs'
  <2>1. \A n \in discarded' : n \in DOMAIN log /\ log[n].session # 0
    BY <1>2, NumbersLogged DEF Stop, Logs
  <2>2. \A b \in Admins :
          job'[b] # Nil => Logged(job'[b].events, log) /\ (job'[b].stop => InSession(job'[b].events))
    BY <1>2 DEF Stop, Hold, Logs, TypeOK
  <2> QED BY <1>2, <2>1, <2>2 DEF Stop, Logs
<1>3. ASSUME NEW a \in Admins, StopIdle(a) PROVE Logs'
  BY <1>3 DEF StopIdle, vars, history, Logs
<1>4. ASSUME NEW a \in Admins, Snapshot(a) PROVE Logs'
  <2>1. \A b \in Admins :
          job'[b] # Nil => Logged(job'[b].events, log) /\ (job'[b].stop => InSession(job'[b].events))
    BY <1>4 DEF Snapshot, Hold, Logs, TypeOK
  <2> QED BY <1>4, <2>1 DEF Snapshot, history, Logs
<1>5. ASSUME NEW a \in Admins, Activate(a) PROVE Logs'
  <2>1. \A b \in Admins :
          job'[b] # Nil => job[b] # Nil /\ job'[b].events = job[b].events /\ job'[b].stop = job[b].stop
    BY <1>5 DEF Activate, TypeOK, Job
  <2> QED BY <1>5, <2>1 DEF Activate, history, Logs
<1>6. ASSUME NEW a \in Admins, Respond(a) PROVE Logs'
  <2>1. \A b \in Admins : job'[b] # Nil => job'[b] = job[b] /\ job[b] # Nil
    BY <1>6 DEF Respond, TypeOK
  <2>2. \A n \in delivered' : n \in DOMAIN log /\ log[n].session # 0
    BY <1>6, NumbersLogged DEF Respond, Logs
  <2> QED BY <1>6, <2>1, <2>2 DEF Respond, Logs
<1>7. ASSUME NEW c \in Callers, NEW q \in Requests, Arrive(c, q) PROVE Logs'
  BY <1>7 DEF Arrive, history, Logs
<1>8. ASSUME NEW c \in Callers, ServeStub(c) PROVE Logs'
  BY <1>8, EventAdded, AddLogs DEF ServeStub, At
<1>9. ASSUME NEW c \in Callers, NoMatch(c) PROVE Logs'
  BY <1>9 DEF NoMatch, history, Logs
<1>10. ASSUME NEW c \in Callers, SeeSession(c) PROVE Logs'
  BY <1>10 DEF SeeSession, history, Logs
<1>11. ASSUME NEW c \in Callers, Forwarded(c) PROVE Logs'
  BY <1>11, EventAdded, AddLogs DEF Forwarded, At
<1>12. ASSUME NEW c \in Callers, Fails(c) PROVE Logs'
  BY <1>12 DEF Fails, history, Logs
<1>13. CASE UNCHANGED vars
  BY <1>13 DEF vars, history, Logs
<1> QED BY <1>1, <1>2, <1>3, <1>4, <1>5, <1>6, <1>7, <1>8, <1>9, <1>10, <1>11, <1>12, <1>13 DEF Next

\* The window holds the latest events of all.
LEMMA StepWindow == TypeOK /\ WindowIsLatest /\ [Next]_vars => WindowIsLatest'
<1> SUFFICES ASSUME TypeOK, WindowIsLatest, [Next]_vars PROVE WindowIsLatest'
  OBVIOUS
<1>1. ASSUME NEW c, NEW r \in BOOLEAN, NEW e, Adds(c, r, e) PROVE WindowIsLatest'
  <2>1. /\ log \in Seq(Event) /\ serveEvents \in Seq(Event) /\ e \in Event
        /\ log' = Append(log, e) /\ serveEvents' = Window(Append(serveEvents, e))
    BY <1>1 DEF TypeOK, Adds
  <2> DEFINE s == Append(serveEvents, e)
  <2>2. /\ s \in Seq(Event)
        /\ Len(s) = Len(serveEvents) + 1 /\ Len(log') = Len(log) + 1
        /\ Len(serveEvents) \in Nat /\ Len(log) \in Nat /\ MaxWindow \in Nat \ {0}
    BY <2>1, RecordingAssumption
  <2>3. /\ Window(s) \in Seq(Event)
        /\ Len(Window(s)) = IF Len(s) < MaxWindow THEN Len(s) ELSE MaxWindow
        /\ \A k \in DOMAIN Window(s) :
              /\ Len(s) - Len(Window(s)) + k \in DOMAIN s
              /\ Window(s)[k] = s[Len(s) - Len(Window(s)) + k]
    BY <2>2, WindowIsEnd
  <2>4. \A i \in DOMAIN s : s[i] = log'[Len(log) - Len(serveEvents) + i]
    <3>1. TAKE i \in DOMAIN s
    <3>2. i \in 1..(Len(serveEvents) + 1)
      BY <3>1, <2>2
    <3>3. CASE i = Len(serveEvents) + 1
      BY <3>3, <2>1, <2>2
    <3>4. CASE i \in 1..Len(serveEvents)
      <4>1. serveEvents[i] = log[Len(log) - Len(serveEvents) + i] /\ s[i] = serveEvents[i]
        BY <3>4, <2>1, <2>2 DEF WindowIsLatest
      <4>2. Len(serveEvents) <= Len(log)
        BY <2>2 DEF WindowIsLatest
      <4>3. Len(log) - Len(serveEvents) + i \in 1..Len(log)
        BY <3>4, <4>2, <2>2
      <4> QED BY <4>1, <4>3, <2>1, <2>2
    <3> QED BY <3>2, <3>3, <3>4, <2>2
  <2>5. Len(Window(s)) = IF Len(log') < MaxWindow THEN Len(log') ELSE MaxWindow
    BY <2>2, <2>3 DEF WindowIsLatest
  <2> HIDE DEF s
  <2>6. \A k \in DOMAIN Window(s) : Window(s)[k] = log'[Len(log') - Len(Window(s)) + k]
    <3>1. TAKE k \in DOMAIN Window(s)
    <3>2. k \in Nat /\ Len(Window(s)) \in Nat
      BY <3>1, <2>3
    <3> DEFINE i == Len(s) - Len(Window(s)) + k
    <3>3. i \in DOMAIN s /\ Window(s)[k] = s[i]
      BY <3>1, <2>3
    <3>4. s[i] = log'[Len(log) - Len(serveEvents) + i]
      BY <3>3, <2>4
    <3>5. Len(log) - Len(serveEvents) + i = Len(log') - Len(Window(s)) + k
      BY <3>2, <2>2
    <3> QED BY <3>3, <3>4, <3>5
  <2> QED BY <2>1, <2>5, <2>6 DEF WindowIsLatest, s
<1>2. ASSUME UNCHANGED <<log, serveEvents>> PROVE WindowIsLatest'
  BY <1>2 DEF WindowIsLatest
<1>3. ASSUME NEW c \in Callers, ServeStub(c) \/ Forwarded(c) PROVE WindowIsLatest'
  BY <1>1, <1>3, EventAdded DEF ServeStub, Forwarded, At
<1> QED BY <1>2, <1>3 DEF Next, vars, history, Start, Stop, StopIdle, Snapshot, Activate,
               Respond, Arrive, NoMatch, SeeSession, Fails

\* The window of serve events is the end of the log, at most MaxWindow long.
THEOREM WindowCorrect == Spec => []WindowIsLatest
<1>1. Init => TypeOK /\ WindowIsLatest
  <2> SUFFICES ASSUME Init PROVE WindowIsLatest
    BY InitTypeOK
  <2>1. log = <<>> /\ serveEvents = <<>> /\ MaxWindow \in Nat \ {0}
    BY RecordingAssumption DEF Init
  <2> QED BY <2>1 DEF WindowIsLatest
<1>2. TypeOK /\ WindowIsLatest /\ [Next]_vars => TypeOK' /\ WindowIsLatest'
  BY StepTypeOK, StepWindow
<1> QED BY <1>1, <1>2, PTL DEF Spec

-----------------------------------------------------------------------------
(* Every event of a session is in one place.                               *)

\* p \in Places(n), see RecordedOnce.
In(n, p) ==
    \/ p = "active" /\ active # Nil /\ n \in Numbers(active.events)
    \/ p \in Admins /\ job[p] # Nil /\ job[p].stop /\ n \in Numbers(job[p].events)
    \/ p = "delivered" /\ n \in delivered
    \/ p = "discarded" /\ n \in discarded

Once ==
    \A k \in DOMAIN log :
        IF log[k].session = 0 THEN \A p : ~ In(k, p)
                              ELSE \E p : In(k, p) /\ \A x : In(k, x) => x = p

LEMMA NumbersAppended ==
    ASSUME NEW s \in Seq(Event), NEW e \in Event
    PROVE  Numbers(Append(s, e)) = Numbers(s) \cup {e.n}
<1>1. \A k \in DOMAIN s : k \in DOMAIN Append(s, e) /\ Append(s, e)[k] = s[k]
  BY Appended
<1>2. \A k \in DOMAIN Append(s, e) : k \in DOMAIN s \/ Append(s, e)[k] = e
  BY Appended
<1>3. \E k \in DOMAIN Append(s, e) : Append(s, e)[k] = e
  BY Appended
<1> QED BY <1>1, <1>2, <1>3 DEF Numbers

\* Only a number of the log is in a place.
LEMMA InLog ==
    ASSUME Logs, NEW n, NEW p, In(n, p)
    PROVE  n \in DOMAIN log
BY NumbersLogged DEF Logs, In

LEMMA AddOnce ==
    ASSUME TypeOK, Logs, Once, NEW c, NEW r \in BOOLEAN, NEW e, Adds(c, r, e),
           UNCHANGED <<job, delivered, discarded>>
    PROVE  Once'
<1>1. Grows(e) /\ e \in Event /\ e.session = IF Joins(r) THEN active.session ELSE 0
  BY AddLog DEF Adds
<1>2. \A n, p : In(n, p)' <=> In(n, p) \/ (Joins(r) /\ n = e.n /\ p = "active")
  <2>1. CASE Joins(r)
    <3>1. active \in Session /\ active # Nil
      BY <2>1 DEF Joins, TypeOK
    <3>2. active' = [session |-> active.session, events |-> Append(active.events, e)]
      BY <2>1, <3>1 DEF Adds, Session
    <3>3. active' \in Session
      BY <3>1, <3>2, <1>1, Appended DEF Session
    <3>4. Numbers(active'.events) = Numbers(active.events) \cup {e.n}
      BY <3>1, <3>2, <1>1, NumbersAppended DEF Session
    <3> QED BY <2>1, <3>1, <3>3, <3>4, NilAssumption DEF In
  <2>2. CASE ~ Joins(r)
    BY <2>2 DEF Adds, In
  <2> QED BY <2>1, <2>2
<1>3. \A p : ~ In(e.n, p)
  BY <1>1, InLog DEF Grows
<1>4. Joins(r) => e.session # 0
  BY <1>1 DEF Joins, Logs
<1>5. SUFFICES ASSUME NEW k \in DOMAIN log'
               PROVE  IF log'[k].session = 0 THEN \A p : ~ In(k, p)'
                      ELSE \E p : In(k, p)' /\ \A x : In(k, x)' => x = p
  BY DEF Once
<1>6. CASE k = e.n
  <2>1. log'[k].session = e.session
    BY <1>1, <1>6 DEF Grows
  <2> QED BY <1>1, <1>2, <1>3, <1>4, <1>6, <2>1
<1>7. CASE k # e.n
  <2>1. k \in DOMAIN log /\ log'[k] = log[k]
    BY <1>1, <1>5, <1>7 DEF Grows
  <2>2. \A p : In(k, p)' <=> In(k, p)
    BY <1>2, <1>7
  <2> QED BY <2>1, <2>2 DEF Once
<1> QED BY <1>6, <1>7

\* Events move from one place to another.
LEMMA MoveOnce ==
    ASSUME Once, UNCHANGED log, NEW from, NEW to,
           \A n, p : In(n, p)' <=> \/ In(n, p) /\ p # from
                                   \/ In(n, from) /\ p = to
    PROVE  Once'
<1>1. SUFFICES ASSUME NEW k \in DOMAIN log
               PROVE  IF log[k].session = 0 THEN \A p : ~ In(k, p)'
                      ELSE \E p : In(k, p)' /\ \A x : In(k, x)' => x = p
  BY DEF Once
<1>2. CASE log[k].session = 0
  BY <1>2 DEF Once
<1>3. CASE log[k].session # 0
  <2>1. PICK p : In(k, p) /\ \A x : In(k, x) => x = p
    BY <1>3 DEF Once
  <2>2. CASE p = from
    <3>1. In(k, to)' /\ \A x : In(k, x)' => x = to
      BY <2>1, <2>2
    <3> QED BY <1>3, <3>1
  <2>3. CASE p # from
    <3>1. In(k, p)' /\ \A x : In(k, x)' => x = p
      BY <2>1, <2>3
    <3> QED BY <1>3, <3>1
  <2> QED BY <2>2, <2>3
<1> QED BY <1>2, <1>3

LEMMA StayOnce ==
    ASSUME Once, UNCHANGED log, \A n, p : In(n, p)' <=> In(n, p)
    PROVE  Once'
BY DEF Once

LEMMA StepOnce == TypeOK /\ Logs /\ Once /\ [Next]_vars => Once'
<1> SUFFICES ASSUME TypeOK, Logs, Once, [Next]_vars PROVE Once'
  OBVIOUS
<1>1. ASSUME NEW a \in Admins, Start(a) PROVE Once'
  <2>1. active' # Nil /\ active'.events = <<>>
    <3>1. sessions + 1 \in Nat /\ <<>> \in Seq(Event)
      BY DEF TypeOK
    <3>2. active' = [session |-> sessions + 1, events |-> <<>>]
      BY <1>1 DEF Start
    <3> QED BY <3>1, <3>2, SessionMade, NilAssumption
  <2>2. Numbers(active'.events) = {}
    BY <2>1 DEF Numbers
  <2>3. \A n, p : In(n, p)' <=> \/ In(n, p) /\ p # "active"
                                \/ In(n, "active") /\ p = "discarded"
    BY <1>1, <2>2, NilAssumption DEF Start, In
  <2> QED BY <1>1, <2>3, MoveOnce DEF Start
<1>2. ASSUME NEW a \in Admins, Stop(a) PROVE Once'
  <2>1. CASE Buildable(active.events)
    <3>1. /\ job[a] = Nil /\ job'[a].stop /\ job'[a].events = active.events
          /\ \A b \in Admins : b # a => job'[b] = job[b]
      BY <1>2, <2>1 DEF Stop, Hold, TypeOK
    <3>2. job'[a] # Nil
      <4>1. active.events \in Seq(Event)
        BY <1>2 DEF Stop, TypeOK, Session
      <4>2. [stop |-> TRUE, events |-> active.events, next |-> 1] \in Job
        BY <4>1 DEF Job
      <4>3. job'[a] = [stop |-> TRUE, events |-> active.events, next |-> 1]
        BY <1>2, <2>1 DEF Stop, Hold, TypeOK
      <4> QED BY <4>2, <4>3, NilAssumption
    <3>3. \A n, p : In(n, p)' <=> \/ In(n, p) /\ p # "active"
                                  \/ In(n, "active") /\ p = a
      BY <1>2, <2>1, <3>1, <3>2, NilAssumption DEF Stop, In
    <3> QED BY <1>2, <3>3, MoveOnce DEF Stop
  <2>2. CASE ~ Buildable(active.events)
    <3>1. \A n, p : In(n, p)' <=> \/ In(n, p) /\ p # "active"
                                  \/ In(n, "active") /\ p = "discarded"
      BY <1>2, <2>2, NilAssumption DEF Stop, In
    <3> QED BY <1>2, <3>1, MoveOnce DEF Stop
  <2> QED BY <2>1, <2>2
<1>3. ASSUME NEW a \in Admins, StopIdle(a) PROVE Once'
  BY <1>3, StayOnce DEF StopIdle, vars, history, In
<1>4. ASSUME NEW a \in Admins, Snapshot(a) PROVE Once'
  <2>1. /\ job[a] = Nil /\ ~ job'[a].stop
        /\ \A b \in Admins : b # a => job'[b] = job[b]
    BY <1>4 DEF Snapshot, Hold, TypeOK
  <2>2. \A n, p : In(n, p)' <=> In(n, p)
    BY <1>4, <2>1 DEF Snapshot, history, In
  <2> QED BY <1>4, <2>2, StayOnce DEF Snapshot, history
<1>5. ASSUME NEW a \in Admins, Activate(a) PROVE Once'
  <2>1. /\ job'[a].stop = job[a].stop /\ job'[a].events = job[a].events
        /\ \A b \in Admins : b # a => job'[b] = job[b]
    <3>1. job[a] \in Job /\ job'[a] = [job[a] EXCEPT !.next = @ + 1]
      BY <1>5 DEF Activate, TypeOK
    <3> QED BY <1>5, <3>1, JobAdvanced DEF Activate, TypeOK
  <2>2. job[a] # Nil /\ job'[a] # Nil
    <3>1. job[a] \in Job /\ job'[a] = [job[a] EXCEPT !.next = @ + 1]
      BY <1>5 DEF Activate, TypeOK
    <3> QED BY <1>5, <3>1, JobAdvanced DEF Activate
  <2>3. \A n, p : In(n, p)' <=> In(n, p)
    BY <1>5, <2>1, <2>2 DEF Activate, history, In
  <2> QED BY <1>5, <2>3, StayOnce DEF Activate, history
<1>6. ASSUME NEW a \in Admins, Respond(a) PROVE Once'
  <2>1. /\ job[a] # Nil /\ job'[a] = Nil
        /\ \A b \in Admins : b # a => job'[b] = job[b]
    BY <1>6 DEF Respond, TypeOK
  <2>2. CASE job[a].stop
    <3>1. \A n, p : In(n, p)' <=> \/ In(n, p) /\ p # a
                                  \/ In(n, a) /\ p = "delivered"
      BY <1>6, <2>1, <2>2, NilAssumption DEF Respond, In
    <3> QED BY <1>6, <3>1, MoveOnce DEF Respond
  <2>3. CASE ~ job[a].stop
    <3>1. \A n, p : In(n, p)' <=> In(n, p)
      BY <1>6, <2>1, <2>3 DEF Respond, In
    <3> QED BY <1>6, <3>1, StayOnce DEF Respond
  <2> QED BY <2>2, <2>3
<1>7. ASSUME NEW c \in Callers, ServeStub(c) \/ Forwarded(c) PROVE Once'
  BY <1>7, EventAdded, AddOnce DEF ServeStub, Forwarded, At
<1>8. ASSUME UNCHANGED <<active, job, history>> PROVE Once'
  BY <1>8, StayOnce DEF history, In
<1> QED BY <1>1, <1>2, <1>3, <1>4, <1>5, <1>6, <1>7, <1>8
        DEF Next, vars, Arrive, NoMatch, SeeSession, Fails

\* What runs count with Cardinality is that there is such a place.
LEMMA OnceIsRecordedOnce == Logs /\ Once => RecordedOnce
<1> SUFFICES ASSUME Logs, Once, NEW k \in DOMAIN log
             PROVE  Cardinality(Places(log[k].n)) = IF log[k].session = 0 THEN 0 ELSE 1
  BY DEF RecordedOnce
<1>1. log[k].n = k
  BY DEF Logs
<1>2. \A p : p \in Places(k) <=> In(k, p)
  BY NilAssumption DEF Places, In
<1>3. CASE log[k].session = 0
  <2>1. Places(k) = {}
    BY <1>2, <1>3 DEF Once
  <2> QED BY <1>1, <1>3, <2>1, FS_EmptySet
<1>4. CASE log[k].session # 0
  <2>1. PICK p : In(k, p) /\ \A x : In(k, x) => x = p
    BY <1>4 DEF Once
  <2>2. Places(k) = {p}
    BY <1>2, <2>1
  <2> QED BY <1>1, <1>4, <2>2, FS_Singleton
<1> QED BY <1>3, <1>4

\* No event of a session is lost or delivered twice.
THEOREM OnceCorrect == Spec => []RecordedOnce
<1>1. Init => TypeOK /\ Logs /\ Once
  BY InitTypeOK DEF Init, Logs, Logged, Once
<1>2. TypeOK /\ Logs /\ Once /\ [Next]_vars => TypeOK' /\ Logs' /\ Once'
  BY StepTypeOK, StepLogs, StepOnce
<1>3. Logs /\ Once => RecordedOnce
  BY OnceIsRecordedOnce
<1> QED BY <1>1, <1>2, <1>3, PTL DEF Spec

-----------------------------------------------------------------------------
(* What a stop has delivered is served.                                    *)

\* A handler activates what it could build, one stub after the other, and the
\* stubs of what has been delivered exist.
Ready ==
    /\ \A a \in Admins :
          job[a] # Nil => /\ Buildable(job[a].events)
                          /\ \A k \in DOMAIN job[a].events :
                                k < job[a].next => Recorded(job[a].events[k]) \in stubs
    /\ \A n \in delivered : Parses(log[n]) /\ Recorded(log[n]) \in stubs

\* A stub matches the request it was recorded from, with the exceptions that
\* Replayable and Parses name.
LEMMA MatchesOwnRequest ==
    ASSUME NEW e \in Event, Parses(e), Replayable(e.request)
    PROVE  Matches(Recorded(e), e.request)
<1>1. e.request.body \in Bodies /\ BodyKind[e.request.body] \in {"none", "text", "json"}
  BY RecordingAssumption DEF Event, Parses, Replayable
<1>2. e.request.body \in requestBodyPatterns(e.request.body)
  BY <1>1 DEF requestBodyPatterns
<1>3. e.request.escaped \in BOOLEAN
  BY RecordingAssumption DEF Event
<1>4. recordedURL(e.request) = requestURI(e.request)
  BY <1>3 DEF recordedURL, requestURI, Replayable
<1> QED BY <1>2, <1>4 DEF Matches, Recorded

LEMMA AddReady ==
    ASSUME TypeOK, Logs, Ready, NEW c, NEW r \in BOOLEAN, NEW e, Adds(c, r, e),
           UNCHANGED <<stubs, job, delivered>>
    PROVE  Ready'
<1>1. \A n \in delivered : log'[n] = log[n]
  BY AddLog DEF Logs, Grows
<1> QED BY <1>1 DEF Ready

LEMMA HeldReady ==
    ASSUME TypeOK, Ready, NEW a \in Admins, NEW stop, NEW events \in Seq(Event),
           Buildable(events), Hold(a, stop, events), UNCHANGED <<stubs, log, delivered>>
    PROVE  Ready'
<1>1. /\ job'[a] = [stop |-> stop, events |-> events, next |-> 1]
      /\ \A b \in Admins : b # a => job'[b] = job[b]
  BY DEF Hold, TypeOK
<1>2. \A k \in DOMAIN job'[a].events : ~ (k < job'[a].next)
  BY <1>1
<1> QED BY <1>1, <1>2 DEF Ready

LEMMA StepReady == TypeOK /\ Logs /\ Ready /\ [Next]_vars => Ready'
<1> SUFFICES ASSUME TypeOK, Logs, Ready, [Next]_vars PROVE Ready'
  OBVIOUS
<1>1. ASSUME NEW a \in Admins, Stop(a) PROVE Ready'
  <2>1. active.events \in Seq(Event)
    BY <1>1 DEF Stop, TypeOK, Session
  <2>2. CASE Buildable(active.events)
    BY <1>1, <2>1, <2>2, HeldReady DEF Stop
  <2>3. CASE ~ Buildable(active.events)
    BY <1>1, <2>3 DEF Stop, Ready
  <2> QED BY <2>2, <2>3
<1>2. ASSUME NEW a \in Admins, Snapshot(a) PROVE Ready'
  BY <1>2, HeldReady DEF Snapshot, history, TypeOK
<1>3. ASSUME NEW a \in Admins, Activate(a) PROVE Ready'
  <2>1. /\ job[a] \in Job /\ job'[a].events = job[a].events /\ job'[a].next = job[a].next + 1
        /\ \A b \in Admins : b # a => job'[b] = job[b]
    BY <1>3 DEF Activate, TypeOK, Job
  <2>2. stubs' = stubs \cup {Recorded(job[a].events[job[a].next])}
    BY <1>3 DEF Activate
  <2>3. \A k \in DOMAIN job[a].events : k < job[a].next + 1 => k < job[a].next \/ k = job[a].next
    BY <2>1 DEF Job
  <2>4. \A k \in DOMAIN job[a].events :
          k < job'[a].next => Recorded(job[a].events[k]) \in stubs'
    BY <1>3, <2>1, <2>2, <2>3 DEF Activate, Ready
  <2> QED BY <1>3, <2>1, <2>2, <2>4 DEF Activate, history, Ready
<1>4. ASSUME NEW a \in Admins, Respond(a) PROVE Ready'
  <2>1. /\ job[a] \in Job /\ job'[a] = Nil
        /\ \A b \in Admins : b # a => job'[b] = job[b]
    BY <1>4 DEF Respond, TypeOK
  <2>2. \A k \in DOMAIN job[a].events : k < job[a].next
    BY <1>4, <2>1 DEF Respond, Job
  <2>3. \A k \in DOMAIN job[a].events :
          LET e == job[a].events[k]
          IN  log[e.n] = e /\ Parses(e) /\ Recorded(e) \in stubs
    BY <1>4, <2>2 DEF Respond, Ready, Buildable, Logs, Logged
  <2>4. \A n \in Numbers(job[a].events) : Parses(log[n]) /\ Recorded(log[n]) \in stubs
    BY <2>3 DEF Numbers
  <2> QED BY <1>4, <2>1, <2>4 DEF Respond, Ready
<1>5. ASSUME NEW c \in Callers, ServeStub(c) \/ Forwarded(c) PROVE Ready'
  BY <1>5, EventAdded, AddReady DEF ServeStub, Forwarded, At
<1>6. ASSUME UNCHANGED <<stubs, job, log, delivered>> PROVE Ready'
  BY <1>6 DEF Ready
<1> QED BY <1>1, <1>2, <1>3, <1>4, <1>5, <1>6
        DEF Next, vars, history, Start, StopIdle, Arrive, NoMatch, SeeSession, Fails

\* After a stop every request it recorded is served from a stub.
THEOREM ReplayCorrect == Spec => []Replayed
<1>1. Init => TypeOK /\ Logs /\ Ready
  BY InitTypeOK DEF Init, Logs, Logged, Ready
<1>2. TypeOK /\ Logs /\ Ready /\ [Next]_vars => TypeOK' /\ Logs' /\ Ready'
  BY StepTypeOK, StepLogs, StepReady
<1>3. TypeOK /\ Logs /\ Ready => Replayed
  <2> SUFFICES ASSUME TypeOK, Logs, Ready, NEW n \in delivered, Replayable(log[n].request)
               PROVE  HasStub(log[n].request)
    BY DEF Replayed
  <2>1. log[n] \in Event /\ Parses(log[n]) /\ Recorded(log[n]) \in stubs
    BY DEF TypeOK, Logs, Ready
  <2>2. Matches(Recorded(log[n]), log[n].request)
    BY <2>1, MatchesOwnRequest
  <2> QED BY <2>1, <2>2 DEF HasStub
<1> QED BY <1>1, <1>2, <1>3, PTL DEF Spec

-----------------------------------------------------------------------------
(* A session is what the log has of it.                                    *)

\* The events of a session, in a log: no more, no fewer, and in its order.
Keeps(events, session, l) ==
    /\ Numbers(events) = {k \in DOMAIN l : l[k].session = session}
    /\ \A k \in DOMAIN events : l[events[k].n] = events[k]
    /\ \A j, k \in DOMAIN events : j < k => events[j].n < events[k].n

\* No event belongs to a session that has not been started.
Kept ==
    /\ \A k \in DOMAIN log : log[k].session <= sessions
    /\ active # Nil => Keeps(active.events, active.session, log)

\* The session that an event joins has it at its end.
LEMMA KeepsAppended ==
    ASSUME NEW events \in Seq(Event), NEW session, NEW l \in Seq(Event),
           Keeps(events, session, l), Logged(events, l),
           NEW e \in Event, e.n = Len(l) + 1, e.session = session
    PROVE  Keeps(Append(events, e), session, Append(l, e))
<1> DEFINE after == Append(events, e)
           la == Append(l, e)
<1>1. /\ Len(l) \in Nat /\ Len(events) \in Nat
      /\ DOMAIN l = 1..Len(l) /\ DOMAIN la = 1..(Len(l) + 1)
      /\ DOMAIN events = 1..Len(events) /\ DOMAIN after = 1..(Len(events) + 1)
      /\ \A k \in 1..Len(l) : la[k] = l[k]
      /\ \A k \in 1..Len(events) : after[k] = events[k]
      /\ la[Len(l) + 1] = e /\ after[Len(events) + 1] = e
  BY Appended
<1>2. Numbers(after) = Numbers(events) \cup {e.n}
  BY NumbersAppended
<1> HIDE DEF after, la
<1>3. Numbers(after) = {k \in DOMAIN la : la[k].session = session}
  <2>1. Numbers(events) = {k \in 1..Len(l) : l[k].session = session}
    BY <1>1 DEF Keeps
  <2>2. {k \in DOMAIN la : la[k].session = session}
          = {k \in 1..Len(l) : l[k].session = session} \cup {Len(l) + 1}
    BY <1>1
  <2> QED BY <1>2, <2>1, <2>2
<1>4. \A k \in 1..Len(events) : events[k].n \in 1..Len(l) /\ l[events[k].n] = events[k]
  BY <1>1 DEF Logged
<1>5. \A k \in DOMAIN after : la[after[k].n] = after[k]
  <2>1. SUFFICES ASSUME NEW k \in DOMAIN after PROVE la[after[k].n] = after[k]
    OBVIOUS
  <2>2. CASE k \in 1..Len(events)
    BY <1>1, <1>4, <2>2
  <2>3. CASE k = Len(events) + 1
    BY <1>1, <2>3
  <2> QED BY <1>1, <2>1, <2>2, <2>3
<1>6. \A j, k \in DOMAIN after : j < k => after[j].n < after[k].n
  <2>1. SUFFICES ASSUME NEW j \in DOMAIN after, NEW k \in DOMAIN after, j < k
                 PROVE  after[j].n < after[k].n
    OBVIOUS
  <2>2. j \in 1..Len(events) /\ after[j] = events[j] /\ events[j].n \in 1..Len(l)
    BY <1>1, <1>4, <2>1
  <2>3. CASE k \in 1..Len(events)
    BY <1>1, <2>1, <2>2, <2>3 DEF Keeps
  <2>4. CASE k = Len(events) + 1
    BY <1>1, <2>2, <2>4
  <2> QED BY <1>1, <2>1, <2>3, <2>4
<1>7. Keeps(after, session, la)
  BY <1>3, <1>5, <1>6 DEF Keeps
<1> QED BY <1>7 DEF after, la

\* A session that an event does not join is left as it is.
LEMMA KeepsOthers ==
    ASSUME NEW events \in Seq(Event), NEW session, NEW l \in Seq(Event),
           Keeps(events, session, l), Logged(events, l),
           NEW e \in Event, e.session # session
    PROVE  Keeps(events, session, Append(l, e))
<1> DEFINE la == Append(l, e)
<1>1. /\ Len(l) \in Nat /\ DOMAIN l = 1..Len(l) /\ DOMAIN la = 1..(Len(l) + 1)
      /\ \A k \in 1..Len(l) : la[k] = l[k]
      /\ la[Len(l) + 1] = e
  BY Appended
<1> HIDE DEF la
<1>2. {k \in DOMAIN la : la[k].session = session} = {k \in DOMAIN l : l[k].session = session}
  BY <1>1
<1>3. \A k \in DOMAIN events : la[events[k].n] = events[k]
  BY <1>1 DEF Logged
<1>4. Keeps(events, session, la)
  BY <1>2, <1>3 DEF Keeps
<1> QED BY <1>4 DEF la

LEMMA AddKept ==
    ASSUME TypeOK, Logs, Kept, NEW c, NEW r \in BOOLEAN, NEW e, Adds(c, r, e),
           UNCHANGED sessions
    PROVE  Kept'
<1>1. /\ e \in Event /\ log \in Seq(Event) /\ log' = Append(log, e)
      /\ e.n = Len(log) + 1
      /\ e.session = IF Joins(r) THEN active.session ELSE 0
      /\ sessions \in Nat /\ (active # Nil => active \in Session /\ active.session = sessions)
  BY DEF TypeOK, Adds
<1>2. e.session <= sessions
  BY <1>1 DEF Joins
<1>3. \A k \in DOMAIN log' : log'[k].session <= sessions'
  <2>1. /\ DOMAIN log = 1..Len(log) /\ DOMAIN log' = 1..(Len(log) + 1) /\ Len(log) \in Nat
        /\ \A k \in 1..Len(log) : log'[k] = log[k]
        /\ log'[Len(log) + 1] = e
    BY <1>1, Appended
  <2>2. SUFFICES ASSUME NEW k \in DOMAIN log' PROVE log'[k].session <= sessions
    OBVIOUS
  <2>3. CASE k \in 1..Len(log)
    BY <2>1, <2>3 DEF Kept
  <2>4. CASE k = Len(log) + 1
    BY <2>1, <2>4, <1>2
  <2> QED BY <2>1, <2>2, <2>3, <2>4
<1>4. ASSUME active' # Nil PROVE Keeps(active'.events, active'.session, log')
  <2>1. CASE Joins(r)
    <3>1. active # Nil /\ active.events \in Seq(Event)
      BY <1>1, <2>1 DEF Joins, Session
    <3>2. active'.events = Append(active.events, e) /\ active'.session = active.session
      BY <1>1, <2>1, <3>1 DEF Adds, Session
    <3> QED BY <1>1, <2>1, <3>1, <3>2, KeepsAppended DEF Kept, Logs
  <2>2. CASE ~ Joins(r)
    <3>1. active' = active
      BY <2>2 DEF Adds
    <3>2. active.events \in Seq(Event) /\ e.session # active.session
      BY <1>1, <1>4, <2>2, <3>1 DEF Session, Logs
    <3> QED BY <1>1, <1>4, <3>1, <3>2, KeepsOthers DEF Kept, Logs
  <2> QED BY <2>1, <2>2
<1> QED BY <1>3, <1>4 DEF Kept

LEMMA StepKept == TypeOK /\ Logs /\ Kept /\ [Next]_vars => Kept'
<1> SUFFICES ASSUME TypeOK, Logs, Kept, [Next]_vars PROVE Kept'
  OBVIOUS
<1>1. ASSUME NEW a \in Admins, Start(a) PROVE Kept'
  <2>1. /\ active'.events = <<>> /\ active'.session = sessions + 1
        /\ sessions' = sessions + 1 /\ log' = log /\ sessions \in Nat
    BY <1>1 DEF Start, TypeOK
  <2>2. \A k \in DOMAIN log : log[k].session \in Nat /\ log[k].session < sessions + 1
    <3> SUFFICES ASSUME NEW k \in DOMAIN log
                 PROVE  log[k].session \in Nat /\ log[k].session < sessions + 1
      OBVIOUS
    <3>1. log[k] \in Event
      BY DEF TypeOK
    <3>2. log[k].session \in Nat
      BY <3>1 DEF Event
    <3>3. log[k].session <= sessions
      BY DEF Kept
    <3> QED BY <2>1, <3>2, <3>3
  <2>3. Keeps(<<>>, sessions + 1, log)
    <3>1. Numbers(<<>>) = {}
      BY DEF Numbers
    <3>2. {k \in DOMAIN log : log[k].session = sessions + 1} = {}
      BY <2>1, <2>2
    <3> QED BY <3>1, <3>2 DEF Keeps
  <2> QED BY <2>1, <2>2, <2>3 DEF Kept
<1>2. ASSUME NEW c \in Callers, ServeStub(c) \/ Forwarded(c) PROVE Kept'
  BY <1>2, EventAdded, AddKept DEF ServeStub, Forwarded, At
<1>3. ASSUME UNCHANGED <<log, sessions>>, active' \in {active, Nil} PROVE Kept'
  BY <1>3 DEF Kept
<1> QED BY <1>1, <1>2, <1>3
        DEF Next, vars, history, Stop, StopIdle, Snapshot, Activate, Respond, Arrive,
            NoMatch, SeeSession, Fails

\* A running session has every event that was added to it, in order.
THEOREM SessionCorrect == Spec => []SessionKeepsAll
<1>1. Init => TypeOK /\ Logs /\ Kept
  BY InitTypeOK DEF Init, Logs, Logged, Kept
<1>2. TypeOK /\ Logs /\ Kept /\ [Next]_vars => TypeOK' /\ Logs' /\ Kept'
  BY StepTypeOK, StepLogs, StepKept
<1>3. Kept => SessionKeepsAll
  BY DEF Kept, Keeps, SessionKeepsAll
<1> QED BY <1>1, <1>2, <1>3, PTL DEF Spec

-----------------------------------------------------------------------------
(* What requests see: a session, if and only if they are forwarded.        *)
SeenOf(v) ==
    /\ v.step = "forwarding" => v.seen # 0
    /\ v.step # "forwarding" => v.seen = 0

Seen == \A c \in Callers : at[c] # Nil => SeenOf(at[c])

LEMMA VisitMade ==
    ASSUME NEW q \in Requests, NEW n \in Nat,
           NEW step \in {"matched", "unmatched", "forwarding"},
           NEW v, v = [request |-> q, seen |-> n, step |-> step]
    PROVE  v \in Visit /\ v # Nil /\ v.request = q /\ v.seen = n /\ v.step = step
BY NilAssumption DEF Visit

\* A request that sees the running session.
LEMMA SessionSeen ==
    ASSUME TypeOK, NEW c \in Callers, SeeSession(c)
    PROVE  /\ active \in Session /\ at[c] \in Visit /\ at[c].step = "unmatched"
           /\ at'[c] \in Visit /\ at'[c] # Nil
           /\ at'[c].step = "forwarding" /\ at'[c].seen = active.session
           /\ \A d \in Callers \ {c} : at'[d] = at[d]
<1>1. active \in Session /\ at[c] \in Visit /\ at[c].step = "unmatched"
  BY DEF TypeOK, SeeSession, At
<1>2. at'[c] = [[at[c] EXCEPT !.step = "forwarding"] EXCEPT !.seen = active.session]
  BY DEF SeeSession, TypeOK
<1>3. at[c] = [request |-> at[c].request, seen |-> at[c].seen, step |-> at[c].step]
  BY <1>1 DEF Visit
<1>4. at'[c] = [request |-> at[c].request, seen |-> active.session, step |-> "forwarding"]
  BY <1>2, <1>3
<1>5. at[c].request \in Requests /\ active.session \in Nat
  BY <1>1 DEF Visit, Session
<1>6. \A d \in Callers \ {c} : at'[d] = at[d]
  BY DEF SeeSession, TypeOK
<1> QED BY <1>1, <1>4, <1>5, <1>6, VisitMade

\* A request that arrives has seen no session.
LEMMA Arrived ==
    ASSUME TypeOK, NEW c \in Callers, NEW q \in Requests, Arrive(c, q)
    PROVE  /\ at'[c] # Nil /\ at'[c].seen = 0 /\ at'[c].step \in {"matched", "unmatched"}
           /\ \A d \in Callers \ {c} : at'[d] = at[d]
<1> DEFINE step == IF HasStub(q) THEN "matched" ELSE "unmatched"
<1>1. at'[c] = [request |-> q, seen |-> 0, step |-> step]
  BY DEF Arrive, TypeOK
<1>2. step \in {"matched", "unmatched"}
  OBVIOUS
<1> HIDE DEF step
<1>3. at'[c] # Nil /\ at'[c].seen = 0 /\ at'[c].step = step
  BY <1>1, <1>2, VisitMade
<1> QED BY <1>2, <1>3 DEF Arrive, TypeOK

LEMMA StepSeen == TypeOK /\ Logs /\ Seen /\ [Next]_vars => Seen'
<1> SUFFICES ASSUME TypeOK, Logs, Seen, [Next]_vars PROVE Seen'
  OBVIOUS
<1>1. ASSUME NEW c \in Callers, ServeStub(c) \/ NoMatch(c) \/ Forwarded(c) \/ Fails(c)
      PROVE  Seen'
  <2>1. \A d \in Callers : at'[d] # Nil => at'[d] = at[d]
    BY <1>1 DEF ServeStub, NoMatch, Forwarded, Fails, Answer, TypeOK
  <2> QED BY <2>1 DEF Seen
<1>2. ASSUME NEW c \in Callers, NEW q \in Requests, Arrive(c, q) PROVE Seen'
  BY <1>2, Arrived DEF Seen, SeenOf
<1>3. ASSUME NEW c \in Callers, SeeSession(c) PROVE Seen'
  <2>1. active.session # 0
    BY <1>3 DEF SeeSession, Logs
  <2> QED BY <1>3, <2>1, SessionSeen DEF Seen, SeenOf
<1>4. CASE UNCHANGED at
  BY <1>4 DEF Seen
<1> QED BY <1>1, <1>2, <1>3, <1>4
        DEF Next, vars, Start, Stop, StopIdle, Snapshot, Activate, Respond

LEMMA SeenAlways == Spec => [](TypeOK /\ Seen)
<1>1. Init => TypeOK /\ Logs /\ Seen
  BY InitTypeOK DEF Init, Logs, Logged, Seen
<1>2. TypeOK /\ Logs /\ Seen /\ [Next]_vars => TypeOK' /\ Logs' /\ Seen'
  BY StepTypeOK, StepLogs, StepSeen
<1> QED BY <1>1, <1>2, PTL DEF Spec

-----------------------------------------------------------------------------
(* What joins a session.                                                   *)
LEMMA AddNoEarlier ==
    ASSUME TypeOK, Seen, RecordedNoEarlier, NEW c \in Callers, at[c] # Nil,
           NEW r \in BOOLEAN, r => at[c].step = "forwarding",
           NEW e \in Event, Adds(c, r, e)
    PROVE  RecordedNoEarlier'
<1>1. /\ DOMAIN log' = 1..(Len(log) + 1) /\ DOMAIN log = 1..Len(log)
      /\ \A k \in 1..Len(log) : log'[k] = log[k]
      /\ log'[Len(log) + 1] = e
  BY Appended DEF TypeOK, Adds
<1>2. ASSUME e.session # 0 PROVE e.seen \in 1..e.session
  <2>1. Joins(r) /\ e.session = active.session /\ e.seen = at[c].seen
    BY <1>2 DEF Adds
  <2>2. at[c].seen # 0 /\ at[c].seen <= sessions /\ active.session = sessions
    BY <2>1 DEF Joins, TypeOK, Seen, SeenOf
  <2>3. e.seen \in Nat /\ e.session \in Nat
    BY DEF Event
  <2> QED BY <2>1, <2>2, <2>3
<1> QED BY <1>1, <1>2 DEF RecordedNoEarlier

\* A session gets only what was proxied for a session: for itself, or late, for
\* one that had been started before it.
THEOREM NoneJoinsEarlier == Spec => []RecordedNoEarlier
<1>1. Init => RecordedNoEarlier
  BY DEF Init, RecordedNoEarlier
<1>2. TypeOK /\ Seen /\ RecordedNoEarlier /\ [Next]_vars => RecordedNoEarlier'
  <2> SUFFICES ASSUME TypeOK, Seen, RecordedNoEarlier, [Next]_vars
               PROVE  RecordedNoEarlier'
    OBVIOUS
  <2>1. ASSUME NEW c \in Callers, ServeStub(c) PROVE RecordedNoEarlier'
    BY <2>1, EventAdded, AddNoEarlier DEF ServeStub, At
  <2>2. ASSUME NEW c \in Callers, Forwarded(c) PROVE RecordedNoEarlier'
    BY <2>2, EventAdded, AddNoEarlier DEF Forwarded, At
  <2>3. CASE UNCHANGED log
    BY <2>3 DEF RecordedNoEarlier
  <2> QED BY <2>1, <2>2, <2>3
          DEF Next, vars, history, Start, Stop, StopIdle, Snapshot, Activate, Respond,
              Arrive, NoMatch, SeeSession, Fails
<1> QED BY <1>1, <1>2, SeenAlways, PTL DEF Spec

-----------------------------------------------------------------------------
(* Recording implements ServedRequests.                                    *)
\* A request that adds its event.
LEMMA SourceAdded ==
    ASSUME TypeOK, NEW e \in Event, log' = Append(log, e)
    PROVE  [k \in DOMAIN log' |-> sourceOf(log'[k])]
               = Append([k \in DOMAIN log |-> sourceOf(log[k])], sourceOf(e))
<1> DEFINE f == [k \in DOMAIN log |-> sourceOf(log[k])]
           h == Append(f, sourceOf(e))
<1>1. /\ DOMAIN log = 1..Len(log) /\ Len(log) \in Nat
      /\ DOMAIN log' = 1..(Len(log) + 1)
      /\ \A k \in 1..Len(log) : log'[k] = log[k]
      /\ log'[Len(log) + 1] = e
  BY Appended DEF TypeOK
<1>2. f \in Seq({"matched", "forwarding"}) /\ Len(f) = Len(log)
  BY <1>1 DEF sourceOf
<1>3. sourceOf(e) \in {"matched", "forwarding"}
  BY DEF sourceOf
<1>4. \A k \in 1..Len(log) : f[k] = sourceOf(log[k])
  BY <1>1
<1> HIDE DEF f
<1>5. h \in Seq({"matched", "forwarding"}) /\ Len(h) = Len(log) + 1
  BY <1>1, <1>2, <1>3
<1>6. \A k \in 1..(Len(log) + 1) : h[k] = IF k = Len(log) + 1 THEN sourceOf(e) ELSE f[k]
  BY <1>1, <1>2, <1>3
<1> HIDE DEF h
<1>7. \A k \in 1..(Len(log) + 1) : sourceOf(log'[k]) = h[k]
  BY <1>1, <1>4, <1>6
<1>8. h = [k \in 1..(Len(log) + 1) |-> h[k]]
  BY <1>1, <1>5
<1>9. [k \in DOMAIN log' |-> sourceOf(log'[k])] = h
  BY <1>1, <1>7, <1>8
<1> QED BY <1>9 DEF f, h

LEMMA AddServed ==
    ASSUME TypeOK, Seen, NEW c \in Callers, NEW r \in BOOLEAN, NEW e \in Event,
           at[c] # Nil, at[c].step \in {"matched", "forwarding"}, Adds(c, r, e), Answer(c)
    PROVE  Served!Add(c)
<1>1. stageOf(at[c]) = at[c].step /\ sourceOf(e) = at[c].step
  BY DEF stageOf, sourceOf, Seen, SeenOf, Adds
<1>2. log' = Append(log, e)
  BY DEF Adds
<1>3. [k \in DOMAIN log' |-> sourceOf(log'[k])]
          = Append([k \in DOMAIN log |-> sourceOf(log[k])], sourceOf(e))
  BY <1>2, SourceAdded
<1>4. [d \in Callers |-> stageOf(at'[d])]
          = [[d \in Callers |-> stageOf(at[d])] EXCEPT ![c] = "open"]
  BY DEF Answer, TypeOK, stageOf
<1> QED BY <1>1, <1>3, <1>4 DEF Served!Add, stageOf, sourceOf

\* A request that is decided on, or given up, with no event.
LEMMA OpenServed ==
    ASSUME TypeOK, NEW c \in Callers, UNCHANGED log, Answer(c)
    PROVE  Served!GiveUp(c) \/ UNCHANGED Served!servedVars
<1>1. [d \in Callers |-> stageOf(at'[d])]
          = [[d \in Callers |-> stageOf(at[d])] EXCEPT ![c] = "open"]
  BY DEF Answer, TypeOK, stageOf
<1>2. [k \in DOMAIN log' |-> sourceOf(log'[k])] = [k \in DOMAIN log |-> sourceOf(log[k])]
  OBVIOUS
<1>3. CASE stageOf(at[c]) # "open"
  BY <1>1, <1>2, <1>3 DEF Served!GiveUp, stageOf, sourceOf
<1>4. CASE stageOf(at[c]) = "open"
  <2>1. [d \in Callers |-> stageOf(at'[d])] = [d \in Callers |-> stageOf(at[d])]
    BY <1>1, <1>4
  <2> QED BY <1>2, <2>1 DEF Served!servedVars, stageOf, sourceOf
<1> QED BY <1>3, <1>4

\* A request that finds its stub or its session, or neither of them yet.
LEMMA DecideServed ==
    ASSUME TypeOK, NEW c \in Callers, UNCHANGED log,
           stageOf(at[c]) = "open", at'[c] # Nil,
           at'[c].step \in {"matched", "unmatched", "forwarding"},
           \A d \in Callers \ {c} : at'[d] = at[d]
    PROVE  (\E source \in Served!Sources : Served!Decide(c, source))
               \/ UNCHANGED Served!servedVars
<1>1. [k \in DOMAIN log' |-> sourceOf(log'[k])] = [k \in DOMAIN log |-> sourceOf(log[k])]
  OBVIOUS
<1>2. CASE at'[c].step = "unmatched"
  <2>1. \A d \in Callers : stageOf(at'[d]) = stageOf(at[d])
    BY <1>2 DEF stageOf
  <2>2. [d \in Callers |-> stageOf(at'[d])] = [d \in Callers |-> stageOf(at[d])]
    BY <2>1
  <2> QED BY <1>1, <2>2 DEF Served!servedVars, stageOf, sourceOf
<1>3. CASE at'[c].step \in {"matched", "forwarding"}
  <2> DEFINE source == at'[c].step
  <2>1. stageOf(at'[c]) = source
    BY <1>3 DEF stageOf
  <2>2. \A d \in Callers : stageOf(at'[d]) = IF d = c THEN source ELSE stageOf(at[d])
    BY <2>1
  <2>3. [d \in Callers |-> stageOf(at'[d])]
            = [[d \in Callers |-> stageOf(at[d])] EXCEPT ![c] = source]
    BY <2>2
  <2>4. source \in Served!Sources
    BY <1>3 DEF Served!Sources
  <2>5. Served!Decide(c, source)
    BY <1>1, <2>3 DEF Served!Decide, stageOf, sourceOf
  <2> QED BY <2>4, <2>5
<1> QED BY <1>2, <1>3

\* However many requests share the store with starts, stops and snapshots, each
\* adds the event of its response once, and none that failed.
THEOREM RecordingImplementsServed == Spec => ImplementsServedRequests
<1>1. Init => Served!ServedInit
  BY DEF Init, Served!ServedInit, stageOf
<1>2. TypeOK /\ Seen /\ [Next]_vars => [Served!ServedNext]_(Served!servedVars)
  <2> SUFFICES ASSUME TypeOK, Seen, [Next]_vars
               PROVE  Served!ServedNext \/ UNCHANGED Served!servedVars
    OBVIOUS
  <2>1. ASSUME NEW c \in Callers, ServeStub(c) \/ Forwarded(c) PROVE Served!Add(c)
    <3>1. at[c] # Nil /\ at[c].step \in {"matched", "forwarding"} /\ Answer(c)
      BY <2>1 DEF ServeStub, Forwarded, At
    <3>2. PICK r \in BOOLEAN : addEvent(c, r)
      BY <2>1 DEF ServeStub, Forwarded
    <3>3. PICK e \in Event : Adds(c, r, e)
      BY <3>1, <3>2, EventAdded
    <3> QED BY <3>1, <3>3, AddServed
  <2>2. ASSUME NEW c \in Callers, NoMatch(c) \/ Fails(c)
        PROVE  Served!GiveUp(c) \/ UNCHANGED Served!servedVars
    BY <2>2, OpenServed DEF NoMatch, Fails, history
  <2>3. ASSUME NEW c \in Callers, NEW q \in Requests, Arrive(c, q)
        PROVE  (\E source \in Served!Sources : Served!Decide(c, source))
                   \/ UNCHANGED Served!servedVars
    <3>1. stageOf(at[c]) = "open" /\ UNCHANGED log
      BY <2>3 DEF Arrive, history, stageOf
    <3>2. /\ at'[c] # Nil /\ at'[c].step \in {"matched", "unmatched"}
          /\ \A d \in Callers \ {c} : at'[d] = at[d]
      BY <2>3, Arrived
    <3> QED BY <3>1, <3>2, DecideServed
  <2>4. ASSUME NEW c \in Callers, SeeSession(c)
        PROVE  (\E source \in Served!Sources : Served!Decide(c, source))
                   \/ UNCHANGED Served!servedVars
    <3>1. stageOf(at[c]) = "open" /\ UNCHANGED log
      BY <2>4, SessionSeen DEF SeeSession, history, stageOf
    <3> QED BY <2>4, <3>1, SessionSeen, DecideServed
  <2>5. CASE UNCHANGED <<at, log>>
    BY <2>5 DEF Served!servedVars, stageOf, sourceOf
  <2> QED BY <2>1, <2>2, <2>3, <2>4, <2>5
          DEF Served!ServedNext, Next, vars, history, Start, Stop, StopIdle, Snapshot,
              Activate, Respond
<1> QED BY <1>1, <1>2, SeenAlways, PTL DEF Spec, ImplementsServedRequests, Served!ServedSpec
=============================================================================
