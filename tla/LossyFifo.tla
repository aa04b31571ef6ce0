----------------------------- MODULE LossyFifo -----------------------------
(* What a path of samples promises: samples are numbered as they are sent;  *)
(* the other end receives some of them, each at most once and in the order  *)
(* they were sent.  A sample that was not received may be lost, for good.   *)
EXTENDS Naturals, Sequences

VARIABLES
    count,      \* how many samples were sent: samples 1..count
    received,   \* the samples received, in the order of their arrival
    lost        \* samples that will never arrive

Init == count = 0 /\ received = <<>> /\ lost = {}

Send == count' = count + 1 /\ UNCHANGED <<received, lost>>

\* Samples that may still arrive, or get lost.
Underway == {x \in 1..count : x \notin lost /\ \A i \in 1..Len(received) : received[i] # x}

Receive(x) ==
    /\ \A i \in 1..Len(received) : received[i] < x
    /\ received' = Append(received, x)
    /\ UNCHANGED <<count, lost>>

Lose(S) == lost' = lost \cup S /\ UNCHANGED <<count, received>>

Next == Send \/ (\E x \in Underway : Receive(x)) \/ (\E S \in SUBSET Underway : Lose(S))

Spec == Init /\ [][Next]_<<count, received, lost>>
=============================================================================
