------------------------------ MODULE Service ------------------------------
(* What the life of a quicmop process promises, whatever its signals, tasks *)
(* and peers do and in whichever order: it serves until it is asked to      *)
(* stop, in the way it is asked to; a task that is over stays over; each     *)
(* outcome it reports has its own cause; then it is gone.                    *)
EXTENDS Naturals

CONSTANTS Tasks, Kinds

VARIABLES
    asked,      \* the kinds of signals delivered so far
    requests,   \* how many there were
    stage,      \* "serving", "stopping", "leaving" or "gone"
    outcome,    \* why it left
    life,       \* each task: "up", "closing" or "over"
    reporting   \* its metrics are still exported

vars == <<asked, requests, stage, outcome, life, reporting>>

Init ==
    /\ asked = {} /\ requests = 0
    /\ stage = "serving" /\ outcome = "none"
    /\ life = [t \in Tasks |-> "up"] /\ reporting = TRUE

Ask(k) ==
    /\ stage # "gone"
    /\ asked' = asked \cup {k} /\ requests' = requests + 1
    /\ UNCHANGED <<stage, outcome, life, reporting>>

\* A graceful stop follows a request for one, and nothing else.
BeginStop ==
    /\ stage = "serving" /\ asked \cap {"SIGINT", "SIGTERM"} # {}
    /\ stage' = "stopping"
    /\ UNCHANGED <<asked, requests, outcome, life, reporting>>

\* So does the immediate one.
Quit ==
    /\ stage = "serving" /\ "SIGQUIT" \in asked
    /\ stage' = "leaving" /\ outcome' = "quit"
    /\ UNCHANGED <<asked, requests, life, reporting>>

\* The causes a graceful stop may end for.  A success that is reported after
\* all tasks were joined is one; impatience takes a second request.
Cause(how) ==
    \/ how = "joined"  /\ \A t \in Tasks : life[t] = "over"
    \/ how = "early"   /\ \E t \in Tasks : life[t] = "over"
    \/ how = "panic"   /\ \E t \in Tasks : life[t] = "over"
    \/ how = "signal"  /\ requests > 1
    \/ how = "timeout"

Leave(how) ==
    /\ stage = "stopping" /\ Cause(how)
    /\ stage' = "leaving" /\ outcome' = how
    /\ reporting' = (how \notin {"joined", "early"} /\ reporting)
    /\ UNCHANGED <<asked, requests, life>>

Vanish ==
    /\ stage = "leaving" /\ stage' = "gone"
    /\ UNCHANGED <<asked, requests, outcome, life, reporting>>

\* A task turns its peers away only when the service no longer serves.
Close(t) ==
    /\ stage \in {"stopping", "leaving"} /\ life[t] = "up"
    /\ life' = [life EXCEPT ![t] = "closing"]
    /\ UNCHANGED <<asked, requests, stage, outcome, reporting>>

End(t) ==
    /\ stage # "gone" /\ life[t] # "over"
    /\ life' = [life EXCEPT ![t] = "over"]
    /\ UNCHANGED <<asked, requests, stage, outcome, reporting>>

Silence ==
    /\ stage # "gone" /\ reporting' = FALSE
    /\ UNCHANGED <<asked, requests, stage, outcome, life>>

Next ==
    \/ \E k \in Kinds : Ask(k)
    \/ BeginStop \/ Quit \/ Vanish
    \/ \E how \in {"joined", "early", "panic", "signal", "timeout"} : Leave(how)
    \/ \E t \in Tasks : Close(t) \/ End(t)
    \/ Silence

Spec == Init /\ [][Next]_vars
=============================================================================
