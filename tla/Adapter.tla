------------------------------ MODULE Adapter ------------------------------
(* quicmop-netobserv-ebpf-agent-adapter: the handlers of the netobserv gRPC *)
(* server send samples on a broadcast channel; one client task subscribes   *)
(* to the channel and streams what it reads to the quicmop collector, call  *)
(* after call.  Handlers and client run on different threads.               *)
EXTENDS Naturals, Sequences, FiniteSets

CONSTANTS
    Callers,   \* netobserv eBPF agents
    Batches,   \* the entry lists a request may carry
    Ring,      \* capacity of the broadcast channel (4096)
    Window,    \* bound: samples in transit to the collector
    MaxCalls   \* bound: requests made in a run

\* An entry is a sample the adapter passes on, one it filters out (egress,
\* not TCP, no rtt, no network), or one whose address is missing.
Entries == {"tcp", "other", "noaddr"}

ASSUME AdapterAssumption ==
    /\ Batches \subseteq Seq(Entries)
    /\ Ring \in Nat \ {0} /\ Window \in Nat /\ MaxCalls \in Nat

VARIABLES
    calls,       \* number of requests made
    rest,        \* the entries each open request still has to handle
    result,      \* how each caller's last request ended
    sent,        \* samples sent on the channel: 1..sent
    subscribed,  \* the channel has a receiver
    next,        \* last sample the receiver took or skipped
    client,      \* where the client task is
    inflight,    \* samples the current call took from the receiver
    delivered,   \* history: samples the collector handled
    lagLost,     \* history: samples overwritten in the ring before they were read
    callLost,    \* history: samples lost with a call or its subscription
    told         \* shutdown was broadcast

chanVars   == <<sent, subscribed, next>>
histVars   == <<delivered, lagLost, callLost>>
callVars   == <<calls, rest, result>>
clientVars == <<client, inflight>>
vars       == <<callVars, chanVars, clientVars, histVars, told>>

Elems(s) == {s[i] : i \in 1..Len(s)}

\* Samples in the channel that the receiver has not reached.
Unread == IF subscribed THEN (next + 1)..sent ELSE {}

Open(c) == result[c] = "open"

TypeOK ==
    /\ calls \in 0..MaxCalls
    /\ rest \in [Callers -> Seq(Entries)]
    /\ result \in [Callers -> {"none", "open", "ok", "badAddress", "noReceiver"}]
    /\ sent \in Nat /\ next \in 0..sent
    /\ subscribed \in BOOLEAN
    /\ client \in {"start", "calling", "sleeping", "ended"}
    /\ inflight \in Seq(1..sent) /\ Len(inflight) <= Window
    /\ delivered \in Seq(1..sent)
    /\ lagLost \subseteq 1..sent /\ callLost \subseteq 1..sent
    /\ told \in BOOLEAN
    /\ subscribed = (client = "calling")

\* start(): the channel's first receiver is dropped, both tasks are spawned.
Init ==
    /\ calls = 0
    /\ rest = [c \in Callers |-> <<>>]
    /\ result = [c \in Callers |-> "none"]
    /\ sent = 0 /\ next = 0 /\ subscribed = FALSE
    /\ client = "start" /\ inflight = <<>>
    /\ delivered = <<>> /\ lagLost = {} /\ callLost = {}
    /\ told = FALSE

-----------------------------------------------------------------------------
(* The server's handlers.                                                   *)

\* A request arrives; a server told to stop takes no more of them.
Call(c, batch) ==
    /\ ~told /\ ~Open(c) /\ calls < MaxCalls
    /\ calls' = calls + 1
    /\ rest' = [rest EXCEPT ![c] = batch]
    /\ result' = [result EXCEPT ![c] = "open"]
    /\ UNCHANGED <<chanVars, clientVars, histVars, told>>

\* The handler's future dies with its panic: the remaining entries are not
\* handled and the caller sees its stream reset.
Panic(c, why) ==
    /\ rest' = [rest EXCEPT ![c] = <<>>]
    /\ result' = [result EXCEPT ![c] = why]
    /\ UNCHANGED <<calls, chanVars, clientVars, histVars, told>>

Facing(c, e) == Open(c) /\ rest[c] # <<>> /\ Head(rest[c]) = e

Skip(c) ==
    /\ Facing(c, "other")
    /\ rest' = [rest EXCEPT ![c] = Tail(@)]
    /\ UNCHANGED <<calls, result, chanVars, clientVars, histVars, told>>

\* try_into().ok()).unwrap() on a missing address.
NoAddress(c) == Facing(c, "noaddr") /\ Panic(c, "badAddress")

\* Mutated form: a sample sent while nobody listens is dropped in silence.
MutSend(c) ==
    /\ Facing(c, "tcp")
    /\ sent' = sent + 1
    /\ rest' = [rest EXCEPT ![c] = Tail(@)]
    /\ UNCHANGED <<calls, result, subscribed, next, clientVars, histVars, told>>

\* metrics_tx.send(..) never waits and fails only without a receiver.
Send(c) ==
    /\ Facing(c, "tcp") /\ subscribed
    /\ sent' = sent + 1
    /\ rest' = [rest EXCEPT ![c] = Tail(@)]
    /\ UNCHANGED <<calls, result, subscribed, next, clientVars, histVars, told>>

SendPanics(c) == Facing(c, "tcp") /\ ~subscribed /\ Panic(c, "noReceiver")

Reply(c) ==
    /\ Open(c) /\ rest[c] = <<>>
    /\ result' = [result EXCEPT ![c] = "ok"]
    /\ UNCHANGED <<calls, rest, chanVars, clientVars, histVars, told>>

-----------------------------------------------------------------------------
(* The client task and its calls to the collector.                          *)

\* Mutated form: a new subscription starts at the oldest value of the ring.
MutTail == IF sent > Ring THEN sent - Ring ELSE 0

\* metrics_tx.subscribe() starts after the last value sent.
ChannelTail == sent

\* The top of the loop: subscribe, then start a call.
Connect ==
    /\ client \in {"start", "sleeping"}
    /\ client' = "calling" /\ subscribed' = TRUE /\ next' = ChannelTail
    /\ UNCHANGED <<callVars, sent, inflight, histVars, told>>

Lagging == sent - next > Ring

\* The receiver finds its slot overwritten: it jumps to the oldest value kept
\* and yields Err(Lagged), which filter_map drops.
Lag ==
    /\ subscribed /\ Lagging
    /\ next' = sent - Ring
    /\ lagLost' = lagLost \cup (next + 1)..(sent - Ring)
    /\ UNCHANGED <<callVars, sent, subscribed, clientVars, delivered, callLost, told>>

\* Mutated form: the error of a lagging receiver ends the stream.
MutPull ==
    /\ subscribed /\ next < sent /\ lagLost = {} /\ ~Lagging /\ Len(inflight) < Window
    /\ next' = next + 1
    /\ inflight' = Append(inflight, next + 1)
    /\ UNCHANGED <<callVars, sent, subscribed, client, histVars, told>>

\* The call's request body takes the next value of the subscription.
Pull ==
    /\ subscribed /\ next < sent /\ ~Lagging /\ Len(inflight) < Window
    /\ next' = next + 1
    /\ inflight' = Append(inflight, next + 1)
    /\ UNCHANGED <<callVars, sent, subscribed, client, histVars, told>>

\* The collector handles the oldest message of the call's stream.  What it had
\* received when a call ended counts as handled before the end: it deals with
\* those messages long before the next call, five seconds later, brings more.
Arrive ==
    /\ inflight # <<>>
    /\ delivered' = Append(delivered, Head(inflight))
    /\ inflight' = Tail(inflight)
    /\ UNCHANGED <<callVars, chanVars, client, lagLost, callLost, told>>

\* Mutated form: the subscription outlives the call.
MutDropCall(to) ==
    /\ client = "calling"
    /\ client' = to /\ inflight' = <<>>
    /\ callLost' = callLost \cup Elems(inflight)
    /\ UNCHANGED <<callVars, chanVars, delivered, lagLost, told>>

\* The call is over, for whatever reason: its future is dropped, and with it
\* the request body, the subscription and every sample they held.
DropCall(to) ==
    /\ client = "calling"
    /\ client' = to /\ subscribed' = FALSE /\ inflight' = <<>>
    /\ callLost' = callLost \cup Elems(inflight) \cup Unread
    /\ UNCHANGED <<callVars, sent, next, delivered, lagLost, told>>

\* Err: log, sleep five seconds, try again.
CallFails == DropCall("sleeping")
\* Ok: the collector answered; the loop is left for good.
CallReturns == DropCall("ended")

\* Mutated form: the loop listens for the shutdown only in its first round.
MutNotice == told /\ sent = 0 /\ DropCall("ended")

\* The shutdown branch of the loop's select.
Notice == told /\ DropCall("ended")

Shutdown ==
    /\ ~told /\ told' = TRUE
    /\ UNCHANGED <<callVars, chanVars, clientVars, histVars>>

Handle(c) == Skip(c) \/ NoAddress(c) \/ Send(c) \/ SendPanics(c) \/ Reply(c)

Next ==
    \/ \E c \in Callers : (\E b \in Batches : Call(c, b)) \/ Handle(c)
    \/ Connect \/ Lag \/ Pull \/ Arrive
    \/ CallFails \/ CallReturns \/ Notice
    \/ Shutdown

\* Every ready task runs; a live call moves its messages.  Calls may fail or
\* succeed at any time, and need not.  SF for the shutdown: each round of the
\* loop polls that branch, so it cannot be passed over round after round.
Fairness ==
    /\ \A c \in Callers : WF_vars(Handle(c))
    /\ WF_vars(Connect) /\ WF_vars(Lag \/ Pull) /\ WF_vars(Arrive)
    /\ SF_vars(Notice)

Spec     == Init /\ [][Next]_vars
FairSpec == Spec /\ Fairness

-----------------------------------------------------------------------------
(* Properties.                                                              *)

\* Whatever the interleaving of handlers, lag and reconnections, the collector
\* sees the samples in the order they were sent and none of them twice: the
\* part of ImplementsFifo that the other proofs rest on.
InOrder ==
    /\ \A i, j \in 1..Len(delivered) : i < j => delivered[i] < delivered[j]
    /\ \A i \in 1..Len(delivered) : delivered[i] <= next

\* Every sample that was sent is delivered, on its way, or lost for one of the
\* two reasons the code has: the ring overtook the receiver, or the call that
\* held it (or its subscription) ended.
NothingVanishes ==
    1..sent \subseteq Elems(delivered) \cup Elems(inflight) \cup Unread
                      \cup lagLost \cup callLost

\* The path from the handlers to the collector is a lossy FIFO: what arrives
\* arrives in order and once, and a lost sample, which the two sets account
\* for, was neither delivered before nor comes back, whatever lags, calls and
\* subscriptions it meets.
Fifo == INSTANCE LossyFifo WITH
            count <- sent, received <- delivered, lost <- lagLost \cup callLost
ImplementsFifo == Fifo!Spec

\* No request is failed by the adapter itself: README, "runs a gRPC server for
\* netobserv eBPF agent to send data to ... and passes it to the collector".
RequestsReachChannel == \A c \in Callers : result[c] # "noReceiver"

\* A sample never stays behind: it is delivered or lost for a reason.
SamplesSettle ==
    \A i \in 1..(2 * MaxCalls) :
        i <= sent ~> i \in Elems(delivered) \cup lagLost \cup callLost

\* A client that is told to stop stops, also when it is told between two calls.
ClientStops == told ~> client = "ended"
=============================================================================
