--------------------------- MODULE ServedRequests ---------------------------
(***************************************************************************)
(* What runtime requests do to the serve events, whichever way they take:  *)
(* one that has found its stub, or a session's target, adds at most one    *)
(* event, of the kind it has decided on, and that before it is through;    *)
(* any other adds none.  Events are added in one step, at the end, and none*)
(* is taken back.  Recording is many requests that share the store,        *)
(* RequestFlow one of them in detail: both implement this module.          *)
(***************************************************************************)
EXTENDS Sequences

CONSTANT
    Callers         \* goroutines that serve runtime requests

VARIABLES
    stage,          \* caller -> what its request is served from, or "open"
    added           \* of every event added, what it was served from

servedVars == <<stage, added>>

\* A stub that matched, or the target of a session when none did.
Sources == {"matched", "forwarding"}

-----------------------------------------------------------------------------
ServedInit ==
    /\ stage = [c \in Callers |-> "open"]
    /\ added = <<>>

\* A stub is found, or a session.
Decide(c, source) ==
    /\ stage[c] = "open"
    /\ stage' = [stage EXCEPT ![c] = source]
    /\ UNCHANGED added

\* The response exists: its event is added, and the request can add no other.
Add(c) ==
    /\ stage[c] # "open"
    /\ stage' = [stage EXCEPT ![c] = "open"]
    /\ added' = Append(added, stage[c])

\* There is no response to add.
GiveUp(c) ==
    /\ stage[c] # "open"
    /\ stage' = [stage EXCEPT ![c] = "open"]
    /\ UNCHANGED added

ServedNext ==
    \E c \in Callers :
        \/ \E source \in Sources : Decide(c, source)
        \/ Add(c) \/ GiveUp(c)

ServedSpec == ServedInit /\ [][ServedNext]_servedVars
=============================================================================
