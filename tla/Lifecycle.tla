------------------------------ MODULE Lifecycle ------------------------------
(***************************************************************************)
(* The process: run of cmd/vimock/main.go with the outcomes of             *)
(* config.Load and tlsconfig.Load, the goroutines that listen, and the     *)
(* shutdown of net/http's servers as far as run depends on it: Shutdown    *)
(* closes the listener, waits for Serve to return, then for the requests   *)
(* in flight until its context expires.                                    *)
(***************************************************************************)
EXTENDS Integers, Sequences, FiniteSets

CONSTANTS
    Configurations, \* what flags and environment may say
    MaxInFlight     \* bound on the requests a server has at a time

\* The HTTP server and, if it is configured, the HTTPS server.
Servers == {1, 2}

\* valid: flags parse, the host is not blank, the port in range.  files is how
\* many of certificate and key are named, load whether they make a key pair.
ConfigurationType ==
    [valid : BOOLEAN, version : BOOLEAN, httpsPort : {"none", "port", "outOfRange"},
     files : 0..2, selfSigned : BOOLEAN, load : BOOLEAN]

ASSUME LifecycleAssumption ==
    /\ Configurations \subseteq ConfigurationType
    /\ MaxInFlight \in Nat

VARIABLES
    config,     \* what the process is started with
    pc,         \* where run is
    listener,   \* per server: what its goroutine is at
    closing,    \* per server: Shutdown has been called
    inFlight,   \* per server: requests it is serving
    errCh,      \* why listeners returned, as far as nobody has read it
    signalled,  \* the context of the signals is done
    expired,    \* the ten seconds of shutdownServers are over
    turn,       \* the server shutdownServers is at
    failed,     \* a Shutdown has returned an error
    reason,     \* the branch select took: "signal" or "failure"
    code        \* the exit code

vars == <<config, pc, listener, closing, inFlight, errCh, signalled, expired,
          turn, failed, reason, code>>

NoCode == -1    \* run has not returned

started == {s \in Servers : listener[s] # "none"}

-----------------------------------------------------------------------------
\* load: TLS options and an HTTPS port need each other, a certificate its key.
ConfigError(c) ==
    \/ ~ c.valid
    \/ c.httpsPort = "outOfRange"
    \/ c.httpsPort = "none" /\ (c.files > 0 \/ c.selfSigned)
    \/ c.httpsPort = "port" /\ (c.files = 1 \/ (c.files = 0 /\ ~ c.selfSigned))

\* tlsconfig.Load: files that are named count before self-signed mode, which
\* does not fail.
TLSError(c) == c.httpsPort = "port" /\ c.files # 0 /\ ~ c.load

Init ==
    /\ config \in Configurations
    /\ pc = "load"
    /\ listener = [s \in Servers |-> "none"]
    /\ closing = [s \in Servers |-> FALSE]
    /\ inFlight = [s \in Servers |-> 0]
    /\ errCh = <<>>
    /\ signalled = FALSE /\ expired = FALSE /\ failed = FALSE
    /\ turn = 1
    /\ reason = "none"
    /\ code = NoCode

Exit(c) == pc' = "exited" /\ code' = c

Refuse ==
    /\ pc = "load"
    /\ ConfigError(config) \/ (~ config.version /\ TLSError(config))
    /\ Exit(2)
    /\ UNCHANGED <<config, listener, closing, inFlight, errCh, signalled, expired, turn, failed, reason>>

PrintVersion ==
    /\ pc = "load"
    /\ ~ ConfigError(config) /\ config.version
    /\ Exit(0)
    /\ UNCHANGED <<config, listener, closing, inFlight, errCh, signalled, expired, turn, failed, reason>>

\* A goroutine per server begins to listen, and run waits in its select.
Start ==
    /\ pc = "load"
    /\ ~ ConfigError(config) /\ ~ config.version /\ ~ TLSError(config)
    /\ LET servers == IF config.httpsPort = "port" THEN {1, 2} ELSE {1}
       IN listener' = [s \in Servers |-> IF s \in servers THEN "starting" ELSE "none"]
    /\ pc' = "select"
    /\ UNCHANGED <<config, closing, inFlight, errCh, signalled, expired, turn, failed, reason, code>>

-----------------------------------------------------------------------------
(* The goroutines that listen.  A listener that returns sends its message  *)
(* in the same step: the channel has room for one of each (TypeOK).        *)

\* ListenAndServe gets its port.
Listen(s) ==
    /\ pc # "exited"
    /\ listener[s] = "starting" /\ ~ closing[s]
    /\ listener' = [listener EXCEPT ![s] = "serving"]
    /\ UNCHANGED <<config, pc, closing, inFlight, errCh, signalled, expired, turn, failed, reason, code>>

\* Seeded bug: a listener that returned is started again.
ReturnAndRetry(s, why) ==
    /\ listener' = [listener EXCEPT ![s] = "starting"]
    /\ errCh' = Append(errCh, why)
    /\ UNCHANGED <<config, pc, closing, inFlight, signalled, expired, turn, failed, reason, code>>

Return(s, why) ==
    /\ listener' = [listener EXCEPT ![s] = why]
    /\ errCh' = Append(errCh, why)
    /\ UNCHANGED <<config, pc, closing, inFlight, signalled, expired, turn, failed, reason, code>>

\* The port is taken, or Accept fails.
ListenerFails(s) ==
    /\ pc # "exited"
    /\ listener[s] = "starting" \/ (listener[s] = "serving" /\ ~ closing[s])
    /\ Return(s, "failed")

\* ErrServerClosed: after Shutdown, or because of it before it has listened.
ListenerClosed(s) ==
    /\ pc # "exited"
    /\ listener[s] \in {"starting", "serving"} /\ closing[s]
    /\ Return(s, "closed")

\* A request begins on a server that has not been told to close; connections
\* survive a listener that failed.
BeginRequest(s) ==
    /\ pc # "exited"
    /\ listener[s] \in {"serving", "failed"} /\ ~ closing[s]
    /\ inFlight[s] < MaxInFlight
    /\ inFlight' = [inFlight EXCEPT ![s] = @ + 1]
    /\ UNCHANGED <<config, pc, listener, closing, errCh, signalled, expired, turn, failed, reason, code>>

EndRequest(s) ==
    /\ pc # "exited"
    /\ inFlight[s] > 0
    /\ inFlight' = [inFlight EXCEPT ![s] = @ - 1]
    /\ UNCHANGED <<config, pc, listener, closing, errCh, signalled, expired, turn, failed, reason, code>>

\* SIGINT or SIGTERM.
Signal ==
    /\ pc # "exited" /\ ~ signalled
    /\ signalled' = TRUE
    /\ UNCHANGED <<config, pc, listener, closing, inFlight, errCh, expired, turn, failed, reason, code>>

-----------------------------------------------------------------------------
(* select, shutdownServers and the exit code.  When both channels of the   *)
(* select are ready, either may be taken.                                  *)

TakeSignal ==
    /\ pc = "select" /\ signalled
    /\ pc' = "shutdown"
    /\ reason' = "signal"
    /\ UNCHANGED <<config, listener, closing, inFlight, errCh, signalled, expired, turn, failed, code>>

\* Only a listener that failed is a reason to shut down.
TakeFailure ==
    /\ pc = "select" /\ errCh # <<>>
    /\ errCh' = Tail(errCh)
    /\ IF Head(errCh) = "closed"
       THEN Exit(0) /\ UNCHANGED reason
       ELSE pc' = "shutdown" /\ reason' = "failure" /\ UNCHANGED code
    /\ UNCHANGED <<config, listener, closing, inFlight, signalled, expired, turn, failed>>

\* Seeded bug: the context has no timeout.
ExpireNever == FALSE /\ UNCHANGED vars

\* The context of all the calls of Shutdown ends.
Expire ==
    /\ pc = "shutdown" /\ ~ expired
    /\ expired' = TRUE
    /\ UNCHANGED <<config, pc, listener, closing, inFlight, errCh, signalled, turn, failed, reason, code>>

\* Shutdown closes the listener of the server whose turn it is.
BeginShutdown ==
    /\ pc = "shutdown" /\ turn \in started /\ ~ closing[turn]
    /\ closing' = [closing EXCEPT ![turn] = TRUE]
    /\ UNCHANGED <<config, pc, listener, inFlight, errCh, signalled, expired, turn, failed, reason, code>>

\* Serve has returned, and no request is left.
ServerDrained ==
    /\ pc = "shutdown" /\ turn \in started /\ closing[turn]
    /\ listener[turn] # "serving" /\ inFlight[turn] = 0
    /\ turn' = turn + 1
    /\ UNCHANGED <<config, pc, listener, closing, inFlight, errCh, signalled, expired, failed, reason, code>>

\* Seeded bug: the first error ends the loop over the servers.
ServerLateStops ==
    /\ pc = "shutdown" /\ turn \in started /\ closing[turn]
    /\ listener[turn] # "serving" /\ inFlight[turn] > 0 /\ expired
    /\ failed' = TRUE
    /\ turn' = 3
    /\ UNCHANGED <<config, pc, listener, closing, inFlight, errCh, signalled, expired, reason, code>>

\* Requests are left when the context ends: its error is joined, and the next
\* server's turn comes all the same.
ServerLate ==
    /\ pc = "shutdown" /\ turn \in started /\ closing[turn]
    /\ listener[turn] # "serving" /\ inFlight[turn] > 0 /\ expired
    /\ failed' = TRUE
    /\ turn' = turn + 1
    /\ UNCHANGED <<config, pc, listener, closing, inFlight, errCh, signalled, expired, reason, code>>

\* Seeded bug: the result of shutdownServers is ignored in both branches.
FinishIgnoresError ==
    /\ pc = "shutdown" /\ turn \notin started
    /\ Exit(IF reason = "signal" THEN 0 ELSE 1)
    /\ UNCHANGED <<config, listener, closing, inFlight, errCh, signalled, expired, turn, failed, reason>>

Finish ==
    /\ pc = "shutdown" /\ turn \notin started
    /\ Exit(IF reason = "signal" /\ ~ failed THEN 0 ELSE 1)
    /\ UNCHANGED <<config, listener, closing, inFlight, errCh, signalled, expired, turn, failed, reason>>

-----------------------------------------------------------------------------
Main ==
    \/ Refuse \/ PrintVersion \/ Start \/ TakeSignal \/ TakeFailure
    \/ BeginShutdown \/ ServerDrained \/ ServerLate \/ Finish

Environment(s) ==
    Listen(s) \/ ListenerFails(s) \/ ListenerClosed(s) \/ BeginRequest(s) \/ EndRequest(s)

Next == Main \/ Signal \/ Expire \/ \E s \in Servers : Environment(s)

\* run and the goroutines that listen are scheduled, the timer fires.  Nothing
\* is assumed of requests, which may last for ever.
Fairness ==
    /\ WF_vars(Main) /\ WF_vars(Expire)
    /\ \A s \in Servers : WF_vars(ListenerClosed(s))

Spec == Init /\ [][Next]_vars /\ Fairness

-----------------------------------------------------------------------------
(* Properties.                                                             *)

\* Types, and that no goroutine waits for room in the channel.
TypeOK ==
    /\ config \in Configurations
    /\ pc \in {"load", "select", "shutdown", "exited"}
    /\ listener \in [Servers -> {"none", "starting", "serving", "failed", "closed"}]
    /\ closing \in [Servers -> BOOLEAN]
    /\ inFlight \in [Servers -> 0..MaxInFlight]
    /\ errCh \in Seq({"failed", "closed"}) /\ Len(errCh) <= Cardinality(started)
    /\ signalled \in BOOLEAN /\ expired \in BOOLEAN /\ failed \in BOOLEAN
    /\ turn \in 1..3
    /\ reason \in {"none", "signal", "failure"}
    /\ code \in {NoCode, 0, 1, 2}

\* When the process ends, Shutdown has been called on every server it started,
\* also on those after one that could not finish, and requests are cut off only
\* when the time for all of them was over.
EveryServerShutDown ==
    pc = "exited" =>
        \A s \in started :
            /\ closing[s] /\ listener[s] # "serving"
            /\ inFlight[s] > 0 => expired

\* The exit code says why: 2 for a configuration that cannot be used, 1 when a
\* listener failed or requests were cut off, and 0 only for the version or
\* when a signal came and every request was answered.
CodeTellsWhy ==
    pc = "exited" =>
        /\ code = 2 => started = {}
        /\ code = 1 => expired \/ \E s \in started : listener[s] = "failed"
        /\ code = 0 => config.version \/ (signalled /\ \A s \in started : inFlight[s] = 0)

\* A signal or the failure of a listener ends the process, however long its
\* requests last.
ProcessEnds ==
    (signalled \/ \E s \in Servers : listener[s] = "failed") ~> (pc = "exited")
=============================================================================
