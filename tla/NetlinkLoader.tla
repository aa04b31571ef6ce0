--------------------------- MODULE NetlinkLoader ---------------------------
(* quicmop-kernel-agent's NetlinkLoader: the stream of requests a call to   *)
(* the collector sends.  Each request is the result of two dumps of the     *)
(* kernel's TCP sockets, IPv4 then IPv6, filtered by the latest activity    *)
(* seen so far.  The kernel goes on while a dump is read: sockets come, go   *)
(* and transfer between any two messages, so that each is listed with the   *)
(* figure it has by then, or not at all; and the host gets addresses.       *)
EXTENDS Naturals, Sequences

CONSTANTS
    Sockets,      \* TCP sockets
    Family,       \* the IP version of each socket
    Source,       \* the source address of each socket
    Loopback,     \* the loopback and unspecified addresses
    Addresses,    \* addresses the host may have
    DumpMayFail,  \* the kernel may answer a dump with an error
    MaxActivity,  \* bound: activity figures (32 bits in the code)
    MaxRounds     \* bound: requests loaded in a run

Families == {"v4", "v6"}

ASSUME SocketsAssumption ==
    /\ Family \in [Sockets -> Families]
    /\ DumpMayFail \in BOOLEAN
    /\ MaxActivity \in Nat /\ MaxRounds \in Nat

VARIABLES
    host,      \* kernel: the addresses of the host
    phase,     \* what the loader does
    localIps,  \* start_loading's local_ips
    latest,    \* each family's self.latest_activity
    newest,    \* load's local variable latest
    todo,      \* sockets the current dump has yet to list
    request,   \* the samples collected for the next yield
    rounds,    \* requests begun
    base,      \* history: latest_activity of each family when its dump began
    listed,    \* history: this round's sockets that were not ignored, in order
    sentAt     \* history: each socket's activity when it was last put in a request

loaderVars == <<localIps, latest, newest>>
histVars   == <<base, listed, sentAt>>
vars       == <<host, phase, loaderVars, todo, request, rounds, histVars>>


\* max of last_data_sent, last_data_recv, .. of a listed socket.  The code only
\* compares these figures: they may change in any way.
Figures == 0..MaxActivity
Never   == MaxActivity + 1
Samples == [socket : Sockets, act : Figures]

OfFamily(f) == {s \in Sockets : Family[s] = f}

TypeOK ==
    /\ host \subseteq Addresses
    /\ phase \in {"addresses", "v4", "v6", "asleep", "stuck", "broken", "over"}
    /\ localIps \subseteq Addresses
    /\ latest \in [Families -> Figures] /\ newest \in Figures
    /\ todo \subseteq Sockets /\ (phase \in Families => todo \subseteq OfFamily(phase))
    /\ request \subseteq Samples
    /\ rounds \in 0..MaxRounds
    /\ base \in [Families -> Figures]
    /\ listed \in Seq(Samples)
    /\ sentAt \in [Sockets -> 0..Never]
    \* a dump lists a socket once, and the IPv4 dump comes first
    /\ \A i \in 1..Len(listed) :
         /\ phase = "v4" => Family[listed[i].socket] = "v4"
         /\ phase = Family[listed[i].socket] => listed[i].socket \notin todo

Nothing == [f \in Families |-> 0]

Init ==
    /\ host \in SUBSET Addresses
    /\ phase = "addresses" /\ localIps = {}
    /\ latest = Nothing /\ newest = 0
    /\ todo = {} /\ request = {} /\ rounds = 0
    /\ base = Nothing /\ listed = <<>> /\ sentAt = [s \in Sockets |-> Never]

-----------------------------------------------------------------------------
(* The kernel.                                                              *)

AddAddress(a) ==
    /\ host' = host \cup {a}
    /\ UNCHANGED <<phase, loaderVars, todo, request, rounds, histVars>>

-----------------------------------------------------------------------------
(* The loader.                                                              *)

\* load's first lines: the dump is requested, latest starts from latest_activity.
Dump(f, activity) ==
    /\ phase' = f
    /\ todo' = OfFamily(f)
    /\ newest' = activity[f]
    /\ base' = [base EXCEPT ![f] = activity[f]]

\* The NETLINK_ROUTE dump of start_loading, which returns the stream.
ReadAddresses ==
    /\ phase = "addresses" /\ phase' = "asleep"
    /\ localIps' = host
    /\ UNCHANGED <<host, latest, newest, todo, request, rounds, histVars>>

\* start_loading fails, or panics on bytes it cannot parse: the client task ends.
AddressesFail ==
    /\ phase = "addresses" /\ phase' = "over"
    /\ UNCHANGED <<host, loaderVars, todo, request, rounds, histVars>>

\* The next socket of the dump; the kernel lists them in any order.
Lists(s) == phase \in Families /\ s \in todo /\ todo' = todo \ {s}

Ignored(s)   == Source[s] \in Loopback \cup localIps
First(s)     == latest[Family[s]] = 0
Sample(s, a) == [socket |-> s, act |-> a]
Greater(a, b) == IF a > b THEN a ELSE b

Ignore(s) ==
    /\ Lists(s) /\ Ignored(s)
    /\ UNCHANGED <<host, phase, loaderVars, request, rounds, histVars>>

\* A socket that is closed, not yet open, or listed without a TcpInfo attribute.
Omit(s) ==
    /\ Lists(s)
    /\ UNCHANGED <<host, phase, loaderVars, request, rounds, histVars>>

Push(s, a) ==
    /\ request' = request \cup {Sample(s, a)}
    /\ listed' = Append(listed, Sample(s, a))
    /\ sentAt' = [sentAt EXCEPT ![s] = a]

\* A family's first dump reports every socket.
ReportFirst(s, a) ==
    /\ Lists(s) /\ ~Ignored(s) /\ First(s)
    /\ newest' = Greater(newest, a)
    /\ Push(s, a)
    /\ UNCHANGED <<host, phase, localIps, latest, rounds, base>>

\* Mutated form: the comparison with the maximum of the last dump only.
MutReportNewer(s, a) ==
    /\ Lists(s) /\ ~Ignored(s) /\ ~First(s)
    /\ a > base[Family[s]]
    /\ latest' = [latest EXCEPT ![Family[s]] = a]
    /\ Push(s, a)
    /\ UNCHANGED <<host, phase, localIps, newest, rounds, base>>

\* Mutated form: an activity seen before counts as new.
MutReportEqual(s, a) ==
    /\ Lists(s) /\ ~Ignored(s) /\ ~First(s)
    /\ a >= latest[Family[s]]
    /\ latest' = [latest EXCEPT ![Family[s]] = a]
    /\ Push(s, a)
    /\ UNCHANGED <<host, phase, localIps, newest, rounds, base>>

\* A later dump reports a socket more active than any before, and raises the
\* mark as it goes.
ReportNewer(s, a) ==
    /\ Lists(s) /\ ~Ignored(s) /\ ~First(s)
    /\ a > latest[Family[s]]
    /\ latest' = [latest EXCEPT ![Family[s]] = a]
    /\ Push(s, a)
    /\ UNCHANGED <<host, phase, localIps, newest, rounds, base>>

PassOver(s, a) ==
    /\ Lists(s) /\ ~Ignored(s) /\ ~First(s)
    /\ a <= latest[Family[s]]
    /\ listed' = Append(listed, Sample(s, a))
    /\ UNCHANGED <<host, phase, loaderVars, request, rounds, base, sentAt>>

\* What a load leaves in latest_activity.
Kept(f) == IF latest[f] = 0 THEN newest ELSE latest[f]

\* After a load: v6 follows v4, and the request is yielded after both.
Continue(f, activity) ==
    \/ f = "v4" /\ Dump("v6", activity)
    \/ f = "v6" /\ phase' = "asleep" /\ UNCHANGED <<todo, newest, base>>

\* Mutated form: DONE leaves the inner loop only; recv blocks.
MutDone(f) ==
    /\ phase = f /\ todo = {}
    /\ latest' = [latest EXCEPT ![f] = Kept(f)]
    /\ UNCHANGED <<host, phase, localIps, newest, todo, request, rounds, histVars>>

\* The DONE message: load returns its samples.
Done(f) ==
    /\ phase = f /\ todo = {}
    /\ latest' = [latest EXCEPT ![f] = Kept(f)]
    /\ Continue(f, latest')
    /\ UNCHANGED <<host, localIps, request, rounds, listed, sentAt>>

Untouched(f) == phase = f /\ todo = OfFamily(f)

\* The dump request cannot be sent: load returns before it reads anything.
SendFails(f) ==
    /\ Untouched(f)
    /\ Continue(f, latest)
    /\ UNCHANGED <<host, localIps, latest, request, rounds, listed, sentAt>>

\* The kernel answers with an error: recv is called again and never returns.
DumpFails ==
    /\ DumpMayFail
    /\ phase = "addresses" \/ \E f \in Families : Untouched(f)
    /\ phase' = "stuck"
    /\ UNCHANGED <<host, loaderVars, todo, request, rounds, histVars>>

\* The stream is dropped, and with it the loader and the request it had begun.
DropLoader ==
    /\ latest' = Nothing /\ newest' = 0 /\ localIps' = {}
    /\ todo' = {} /\ request' = {} /\ base' = Nothing /\ listed' = <<>>
    /\ sentAt' = [s \in Sockets |-> Never]

\* Bytes that are no message panic load's unwrap, and end the task of the
\* connection that polls the stream.
LoadPanics ==
    /\ phase \in Families /\ phase' = "broken"
    /\ DropLoader
    /\ UNCHANGED <<host, rounds>>

\* Mutated form: the round before goes on.
MutWake ==
    /\ phase = "asleep"
    /\ rounds < MaxRounds /\ rounds' = rounds + 1
    /\ Dump("v4", latest)
    /\ UNCHANGED <<host, localIps, latest, request, listed, sentAt>>

\* The call polls the stream for its first request, or for the next one when
\* the interval is over: a turn of the loop begins.
Wake ==
    /\ phase = "asleep"
    /\ rounds < MaxRounds /\ rounds' = rounds + 1
    /\ request' = {} /\ listed' = <<>>
    /\ Dump("v4", latest)
    /\ UNCHANGED <<host, localIps, latest, sentAt>>

\* The call failed: the client loop makes a new loader.
Reconnect ==
    /\ phase \in {"asleep", "broken"} /\ phase' = "addresses"
    /\ DropLoader
    /\ UNCHANGED <<host, rounds>>

\* The call returned Ok or the loop was told to stop: no loader any more.
CallEnds ==
    /\ phase \in {"asleep", "broken"} /\ phase' = "over"
    /\ UNCHANGED <<host, loaderVars, todo, request, rounds, histVars>>

Examine(s) ==
    \/ Ignore(s) \/ Omit(s)
    \/ \E a \in Figures : ReportFirst(s, a) \/ ReportNewer(s, a) \/ PassOver(s, a)

Load == ReadAddresses \/ (\E s \in Sockets : Examine(s)) \/ (\E f \in Families : Done(f)) \/ Wake

Next ==
    \/ Load \/ (\E a \in Addresses : AddAddress(a))
    \/ (\E f \in Families : SendFails(f)) \/ AddressesFail \/ DumpFails
    \/ LoadPanics \/ Reconnect \/ CallEnds

\* The kernel answers every dump it does not refuse; timers fire.  No fairness
\* for the kernel's other steps, nor for failures and reconnections.
Fairness == WF_vars(Load)

Spec     == Init /\ [][Next]_vars
FairSpec == Spec /\ Fairness

-----------------------------------------------------------------------------
(* Properties.                                                              *)

\* Which of the sockets listed in a round belong in the request, said without
\* the running mark: in a first dump all of them, later those that are more
\* active than the mark was at the start and than every one listed before.
Belongs(i) ==
    LET f == Family[listed[i].socket]
    IN  \/ base[f] = 0
        \/ /\ listed[i].act > base[f]
           /\ \A j \in 1..(i - 1) :
                Family[listed[j].socket] = f => listed[j].act < listed[i].act

\* The mark that is raised while a dump is read selects exactly these, while
\* the kernel changes what it has yet to list (load's loop, both families).
RequestIsRecords == request = {listed[i] : i \in {j \in 1..Len(listed) : Belongs(j)}}

\* Within a call a socket is reported again only with a figure above that of
\* its last report, once the family has a mark at all.
RepeatIsHigher ==
    [][\A x \in request' \ request :
         latest[Family[x.socket]] > 0 /\ sentAt[x.socket] # Never => x.act > sentAt[x.socket]]_vars

\* A round of dumps ends with a request, over both loops of load and both
\* families, unless the kernel refuses a dump or a message cannot be parsed.
DumpsEnd == phase \in Families ~> phase \in {"asleep", "stuck", "broken"}

\* "sending new data to the collector" (README): every socket that was active
\* after the mark of the last dump is in the request.
NewDataIsSent ==
    phase = "asleep" =>
        \A i \in 1..Len(listed) :
            listed[i].act > base[Family[listed[i].socket]] => listed[i] \in request
=============================================================================
