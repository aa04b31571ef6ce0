------------------------------- MODULE Mirror -------------------------------
(* What the collector may know of files that grow, when several readers     *)
(* read them again and again and nobody orders one reader's readings        *)
(* against another's: each thing it is told of a file was in that file by   *)
(* then, and one reader never takes back what it told last.                 *)
EXTENDS Naturals

CONSTANTS Files, Readers

VARIABLES
    written,    \* samples each file holds
    arrived,    \* the longest reading of each file so far
    latest,     \* the last one
    latestBy    \* whose it was

vars == <<written, arrived, latest, latestBy>>

Init ==
    /\ written = [f \in Files |-> 0] /\ arrived = written /\ latest = written
    /\ latestBy = [f \in Files |-> "none"]

Write(f) ==
    /\ written' = [written EXCEPT ![f] = @ + 1]
    /\ UNCHANGED <<arrived, latest, latestBy>>

\* A request of a reader says nothing of f, or brings a reading of it.
Silent(f) ==
    arrived'[f] = arrived[f] /\ latest'[f] = latest[f] /\ latestBy'[f] = latestBy[f]

Told(f, reader) ==
    /\ latest'[f] \in 1..written[f] /\ latestBy'[f] = reader
    /\ latestBy[f] = reader => latest'[f] >= latest[f]
    /\ arrived'[f] = IF latest'[f] > arrived[f] THEN latest'[f] ELSE arrived[f]

Tell(reader) ==
    /\ \A f \in Files : Silent(f) \/ Told(f, reader)
    /\ arrived' \in [Files -> Nat] /\ latest' \in [Files -> Nat]
    /\ latestBy' \in [Files -> Readers \cup {"none"}]
    /\ UNCHANGED written

Next == (\E f \in Files : Write(f)) \/ (\E reader \in Readers : Tell(reader))

Spec == Init /\ [][Next]_vars
=============================================================================
