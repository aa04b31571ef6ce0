------------------------------ MODULE QlogFile ------------------------------
(* QlogLoader::handle_qlog_file of the qlog agent: one pass over a file's   *)
(* events.  A connection migrates between tuples of addresses; the pass     *)
(* keeps what it knows of each tuple and gives every round trip time the    *)
(* addresses its tuple has at that moment.                                  *)
EXTENDS Naturals, Sequences

CONSTANTS
    Tuples,      \* names of tuples
    DefaultT,    \* the tuple of events that name none
    Ips,         \* addresses
    NoIp,        \* an address that is absent, or does not parse
    MaxEvents    \* bound: events of a file

ASSUME QlogFileAssumption == DefaultT \in Tuples /\ NoIp \notin Ips /\ MaxEvents \in Nat

MaybeIp == Ips \cup {NoIp}

\* The events handle_qlog_file looks at: a tuple is assigned; the authority
\* of a request is seen; metrics are updated, with a minimum or without.
Assigned(t, local, remote) == [kind |-> "assigned", tuple |-> t, src |-> local, dst |-> remote]
Authority(t, a)            == [kind |-> "authority", tuple |-> t, src |-> NoIp, dst |-> a]
Updated(t, kind)           == [kind |-> kind, tuple |-> t, src |-> NoIp, dst |-> NoIp]

Events ==
    {Assigned(t, l, r) : t \in Tuples, l \in MaybeIp, r \in MaybeIp}
    \cup {Authority(t, a) : t \in Tuples, a \in MaybeIp}
    \cup {Updated(t, k) : t \in Tuples, k \in {"metrics", "noRtt"}}

VARIABLES
    src, dst,   \* peer_ip of the description, and the agent's host name
    srcOf,      \* source address known for each tuple
    dstOf,      \* destination address known for each tuple
    out,        \* samples put into the request
    seen        \* history: the events handled

vars == <<src, dst, srcOf, dstOf, out, seen>>

\* A sample is named after its event.
Sample(i, s, d) == [at |-> i, src |-> s, dst |-> d]

TypeOK ==
    /\ src \in MaybeIp /\ dst \in MaybeIp
    /\ srcOf \in [Tuples -> MaybeIp] /\ dstOf \in [Tuples -> MaybeIp]
    /\ seen \in Seq(Events) /\ Len(seen) <= MaxEvents
    /\ out \subseteq {Sample(i, s, d) : i \in 1..Len(seen), s \in Ips, d \in Ips}

\* The map of tuples starts with the default one; get(..) of a tuple that is
\* not in it gives no addresses.
Init ==
    /\ src \in MaybeIp /\ dst \in MaybeIp
    /\ srcOf = [t \in Tuples |-> IF t = DefaultT THEN src ELSE NoIp]
    /\ dstOf = [t \in Tuples |-> IF t = DefaultT THEN dst ELSE NoIp]
    /\ out = {} /\ seen = <<>>

Or(ip, default) == IF ip = NoIp THEN default ELSE ip

\* QuicTupleAssigned: insert replaces what was known of the tuple.
Assign(e) ==
    /\ e.kind = "assigned"
    /\ srcOf' = [srcOf EXCEPT ![e.tuple] = Or(e.src, src)]
    /\ dstOf' = [dstOf EXCEPT ![e.tuple] = Or(e.dst, dst)]
    /\ UNCHANGED out

\* Mutated form: an authority that is no address leaves the old one.
MutAuthorize(e) ==
    /\ e.kind = "authority"
    /\ dstOf' = [dstOf EXCEPT ![e.tuple] = Or(e.dst, dstOf[e.tuple])]
    /\ UNCHANGED <<srcOf, out>>

\* Http3FrameParsed, a HEADERS frame: or_default makes the tuple if need be,
\* the destination becomes what the authority parses to, also nothing.
Authorize(e) ==
    /\ e.kind = "authority"
    /\ dstOf' = [dstOf EXCEPT ![e.tuple] = e.dst]
    /\ UNCHANGED <<srcOf, out>>

Reported(t) == srcOf[t] # NoIp /\ dstOf[t] # NoIp

\* QuicMetricsUpdated: a sample, if there is a minimum and both addresses.
Measure(e) ==
    /\ e.kind \in {"metrics", "noRtt"}
    /\ out' = IF e.kind = "metrics" /\ Reported(e.tuple)
              THEN out \cup {Sample(Len(seen) + 1, srcOf[e.tuple], dstOf[e.tuple])}
              ELSE out
    /\ UNCHANGED <<srcOf, dstOf>>

Handle(e) ==
    /\ Len(seen) < MaxEvents
    /\ Assign(e) \/ Authorize(e) \/ Measure(e)
    /\ seen' = Append(seen, e)
    /\ UNCHANGED <<src, dst>>

Next == \E e \in Events : Handle(e)

Spec == Init /\ [][Next]_vars

-----------------------------------------------------------------------------
(* Properties.                                                              *)

\* The event of a sequence that settles an address of tuple t for what comes
\* after its first n events is the last of these among the given kinds.
Settling(s, j, t, kinds) == s[j].tuple = t /\ s[j].kind \in kinds

Settles(s, n, j, t, kinds) ==
    /\ j \in 1..n /\ Settling(s, j, t, kinds)
    /\ \A k \in (j + 1)..n : ~Settling(s, k, t, kinds)

Unsettled(s, n, t, kinds) == \A k \in 1..n : ~Settling(s, k, t, kinds)

Initially(own, t) == IF t = DefaultT THEN own ELSE NoIp

\* What the first n events say of the addresses of tuple t: an assignment
\* gives both ends, with the connection's own for those it leaves out; an
\* authority gives the far end; the default tuple begins with the connection's.
IsSrc(s, own, ip, n, t) ==
    \/ Unsettled(s, n, t, {"assigned"}) /\ ip = Initially(own, t)
    \/ \E j \in 1..n : Settles(s, n, j, t, {"assigned"}) /\ ip = Or(s[j].src, own)

IsDst(s, own, ip, n, t) ==
    \/ Unsettled(s, n, t, {"assigned", "authority"}) /\ ip = Initially(own, t)
    \/ \E j \in 1..n :
         /\ Settles(s, n, j, t, {"assigned", "authority"})
         /\ ip = IF s[j].kind = "assigned" THEN Or(s[j].dst, own) ELSE s[j].dst

\* The samples of a request are those of the file's updates with a minimum
\* whose two addresses the file gives, and carry the addresses of their own
\* tuple as they were at that point, whatever came before or after.
SamplesAttributed ==
    \A i \in 1..Len(seen), s, d \in Ips :
        Sample(i, s, d) \in out <=> /\ seen[i].kind = "metrics"
                                    /\ IsSrc(seen, src, s, i - 1, seen[i].tuple)
                                    /\ IsDst(seen, dst, d, i - 1, seen[i].tuple)
=============================================================================
