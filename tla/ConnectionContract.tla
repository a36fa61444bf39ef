------------------------- MODULE ConnectionContract -------------------------
(***************************************************************************)
(* What the rest of the service may rely on of the Home Assistant          *)
(* connection: when conn_state changes, when the connect and disconnect    *)
(* listeners run, and that the two never overlap.  HAConnection implements *)
(* it; LiveState is built on it.                                           *)
(***************************************************************************)
VARIABLES
    conn_state,  \* what callers, /health and the publisher read
    phase,       \* where the connection is
    listeners    \* the connect listeners: "idle" or "running"

contractVars == <<conn_state, phase, listeners>>

Init ==
    /\ conn_state = "disconnected"
    /\ phase = "off"
    /\ listeners = "idle"

\* New credentials: connecting starts, at once or after the old connection halted.
Start ==
    /\ phase \in {"off", "halting"}
    /\ listeners = "idle"
    /\ phase' = "dial"
    /\ conn_state' = "disconnected"
    /\ UNCHANGED listeners

Authenticated ==
    /\ phase = "dial"
    /\ phase' = "setup"
    /\ UNCHANGED <<conn_state, listeners>>

\* The attempt fails or the token is rejected: the disconnect listeners start.
AttemptFails ==
    /\ phase = "dial"
    /\ phase' = "report"
    /\ conn_state' \in {"unreachable", "auth_failed"}
    /\ UNCHANGED listeners

\* The setup is complete: "connected", and the connect listeners start.  A stop
\* that has been asked for does not prevent it until the reader unwinds.
Announce ==
    /\ phase \in {"setup", "cutting"}
    /\ listeners = "idle"
    /\ phase' = IF phase = "setup" THEN "up" ELSE "halting"
    /\ conn_state' = "connected"
    /\ listeners' = "running"

\* The connect listeners end: they have all run, or they are cancelled once the
\* connection is lost.
ListenersEnd ==
    /\ listeners = "running"
    /\ phase \in {"up", "lost", "halting"}
    /\ listeners' = "idle"
    /\ UNCHANGED <<conn_state, phase>>

Lose ==
    /\ phase \in {"setup", "up"}
    /\ phase' = "lost"
    /\ UNCHANGED <<conn_state, listeners>>

\* The disconnect listeners start, after the connect listeners and the change
\* of conn_state.
Report ==
    /\ phase = "lost"
    /\ listeners = "idle"
    /\ phase' = "report"
    /\ conn_state' = "unreachable"
    /\ UNCHANGED listeners

Reported ==
    /\ phase = "report"
    /\ phase' = IF conn_state = "auth_failed" THEN "rejected" ELSE "backoff"
    /\ UNCHANGED <<conn_state, listeners>>

Retry ==
    /\ phase = "backoff"
    /\ phase' = "dial"
    /\ UNCHANGED <<conn_state, listeners>>

\* stop(), or new credentials: whatever the connection was doing is cancelled.
Halt ==
    /\ phase \notin {"off", "cutting", "halting"}
    /\ phase' = IF phase = "setup" THEN "cutting" ELSE "halting"
    /\ UNCHANGED <<conn_state, listeners>>

\* The reader unwinds, and takes the setup with it.
Cut ==
    /\ phase = "cutting"
    /\ phase' = "halting"
    /\ UNCHANGED <<conn_state, listeners>>

Halted ==
    /\ phase = "halting"
    /\ listeners = "idle"
    /\ phase' = "off"
    /\ conn_state' = "disconnected"
    /\ UNCHANGED listeners

Next ==
    \/ Start \/ Authenticated \/ AttemptFails \/ Announce \/ ListenersEnd \/ Lose
    \/ Report \/ Reported \/ Retry \/ Halt \/ Cut \/ Halted

Spec == Init /\ [][Next]_contractVars
=============================================================================
