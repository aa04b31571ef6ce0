----------------------------- MODULE Collector -----------------------------
(* quicmop-collector: gRPC handlers (agents' streams and netobserv agents'  *)
(* requests) put samples into a shared cache; exporters iterate over the    *)
(* cache while the handlers run and render histograms per network and the   *)
(* number of addresses per source network.                                  *)
EXTENDS Integers, Sequences, FiniteSets

CONSTANTS
    Streams,    \* calls of stream_metrics
    Flows,      \* calls of netobserv's send
    Hosts,      \* what samples give as their host
    Addr,       \* a call's peer: an address; for send with a port
    Conns,      \* what a sample is about: two addresses and a latency type
    Src, Dst, Type,
    SrcTrunc, DstTrunc,  \* an address cut to the configured netmask
    Rtts,       \* round trip times
    Bounds,     \* upper bounds of the histogram's buckets
    Inf,        \* the +Inf bucket
    Msgs,       \* the sample lists a message may carry
    Timeout,    \* address_timeout: time to live of an entry
    Capacity,   \* entries the cache has room for (all of the same weight)
    MaxTime,    \* bound: the clock
    MaxMsgs,    \* bound: messages handled in a run
    MaxScrapes  \* bound: pages rendered in a run

Calls  == Streams \cup Flows
Peers  == {Addr[h] : h \in Calls}
Agents == [host : Hosts, addr : Hosts \cup Peers]
Keys   == [conn : Conns, agent : Agents, time : 0..MaxTime]
Series == [host : Hosts, type : {Type[c] : c \in Conns}, addr : Peers]
Nets   == [src : {SrcTrunc[Src[c]] : c \in Conns}, dst : {DstTrunc[Dst[c]] : c \in Conns},
           type : {Type[c] : c \in Conns}, agent : Agents]
SrcNets == {SrcTrunc[Src[c]] : c \in Conns}

\* A sample is stored, skipped (no metrics; a flow that is filtered out), or
\* has no address, which panics the handler.
Samples == [kind : {"ok", "skip", "noaddr"}, conn : Conns, host : Hosts, rtt : Rtts]

Places == {"asks", "waits", "leads", "stored", "answered"}

ASSUME CollectorAssumption ==
    /\ Streams \cap Flows = {} /\ IsFiniteSet(Calls)
    /\ Rtts \subseteq Nat /\ Bounds \subseteq Nat /\ Inf \notin Nat
    /\ Msgs \subseteq Seq(Samples)
    /\ Timeout \in Nat /\ Capacity \in Nat
    /\ MaxTime \in Nat /\ MaxMsgs \in Nat /\ MaxScrapes \in Nat

VARIABLES
    now,        \* the clock
    msgs,       \* messages handled so far
    up,         \* the calls whose handler runs
    cur,        \* the samples a handler has yet to deal with
    asks,       \* handlers inside or_insert_with_if: the key, and how far they are
    store,      \* the cache: a function from the keys it holds to entries
    events,     \* agent_events_received, by series
    scrape,     \* render_to_write: idle, iterating or done
    left,       \* keys held since it began
    seen,       \* entries it visited
    hist,       \* its histograms, by network
    unique,     \* its addresses, by source network
    scrapes,    \* pages begun
    compared,   \* history: round trip times stored or held against a stored one
    removed,    \* history: keys the cache dropped
    aborted     \* history: by series, samples stored by a call that then died

callVars   == <<msgs, up, cur, asks>>
pageVars   == <<scrape, left, seen, hist, unique, scrapes>>
histVars   == <<compared, removed, aborted>>
vars       == <<now, callVars, store, events, pageVars, histVars>>

Visible(k) == now - store[k].at < Timeout

\* An entry: its value, when it was stored, and (history) for which series.
Stored  == [rtt : Rtts, at : 0..MaxTime, by : Series]

Entries == [key : Keys, rtt : Rtts]
NetOf(k) == [src |-> SrcTrunc[Src[k.conn]], dst |-> DstTrunc[Dst[k.conn]],
             type |-> Type[k.conn], agent |-> k.agent]

NoHist == [n \in Nets |-> [b \in Bounds \cup {Inf} |-> 0]]
NoUnique == [s \in SrcNets |-> {}]

TypeOK ==
    /\ now \in 0..MaxTime
    /\ msgs \in 0..MaxMsgs
    /\ up \subseteq Calls
    /\ cur \in [Calls -> Seq(Samples)]
    /\ \A h \in Calls : h \notin up => cur[h] = <<>>
    /\ DOMAIN asks \subseteq up
    /\ \A h \in DOMAIN asks : asks[h] \in [key : Keys, place : Places] /\ cur[h] # <<>>
    /\ DOMAIN store \subseteq Keys /\ \A k \in DOMAIN store : store[k] \in Stored
    /\ events \in [Series -> Nat]
    /\ scrape \in {"idle", "iterating", "done"}
    /\ left \subseteq Keys /\ seen \subseteq Entries
    /\ hist \in [Nets -> [Bounds \cup {Inf} -> Nat]]
    /\ unique \in [SrcNets -> SUBSET {Src[c] : c \in Conns}]
    /\ scrapes \in 0..MaxScrapes
    /\ compared \subseteq Entries /\ removed \subseteq Keys
    /\ aborted \in [Series -> Nat]

Init ==
    /\ now = 0 /\ msgs = 0
    /\ up = {} /\ cur = [h \in Calls |-> <<>>] /\ asks = <<>>
    /\ store = <<>>
    /\ events = [s \in Series |-> 0]
    /\ scrape = "idle" /\ left = {} /\ seen = {} /\ scrapes = 0
    /\ hist = NoHist /\ unique = NoUnique
    /\ compared = {} /\ removed = {} /\ aborted = [s \in Series |-> 0]

Tick ==
    /\ now < MaxTime /\ now' = now + 1
    /\ UNCHANGED <<callVars, store, events, pageVars, histVars>>

-----------------------------------------------------------------------------
(* The handlers.                                                            *)

\* An agent opens a stream.
Open(s) ==
    /\ s \in Streams \ up
    /\ up' = up \cup {s}
    /\ UNCHANGED <<now, msgs, cur, asks, store, events, pageVars, histVars>>

\* inner.message() yields a message; its samples are dealt with in order.
Read(s, msg) ==
    /\ s \in Streams \cap up /\ cur[s] = <<>> /\ msgs < MaxMsgs
    /\ msgs' = msgs + 1
    /\ cur' = [cur EXCEPT ![s] = msg]
    /\ UNCHANGED <<now, up, asks, store, events, pageVars, histVars>>

\* The stream ended, or failed to decode: the handler returns Ok either way.
EndOfStream(s) ==
    /\ s \in Streams \cap up /\ cur[s] = <<>>
    /\ up' = up \ {s}
    /\ UNCHANGED <<now, msgs, cur, asks, store, events, pageVars, histVars>>

\* A netobserv agent calls send.
Call(f, batch) ==
    /\ f \in Flows \ up /\ msgs < MaxMsgs
    /\ msgs' = msgs + 1
    /\ up' = up \cup {f}
    /\ cur' = [cur EXCEPT ![f] = batch]
    /\ UNCHANGED <<now, asks, store, events, pageVars, histVars>>

Reply(f) ==
    /\ f \in Flows \cap up /\ cur[f] = <<>>
    /\ up' = up \ {f}
    /\ UNCHANGED <<now, msgs, cur, asks, store, events, pageVars, histVars>>

Facing(h, kind) == h \in up \ DOMAIN asks /\ cur[h] # <<>> /\ Head(cur[h]).kind = kind

Skip(h) ==
    /\ Facing(h, "skip")
    /\ cur' = [cur EXCEPT ![h] = Tail(@)]
    /\ UNCHANGED <<now, msgs, up, asks, store, events, pageVars, histVars>>

\* Mutated form: a dead handler's samples stay with the next call.
MutNoAddress(h) ==
    /\ Facing(h, "noaddr")
    /\ up' = up \ {h}
    /\ cur' = [cur EXCEPT ![h] = Tail(@)]
    /\ UNCHANGED <<now, msgs, asks, store, events, pageVars, histVars>>

\* unwrap() on a missing address: the handler dies, the rest is not handled.
NoAddress(h) ==
    /\ Facing(h, "noaddr")
    /\ up' = up \ {h}
    /\ cur' = [cur EXCEPT ![h] = <<>>]
    /\ UNCHANGED <<now, msgs, asks, store, events, pageVars, histVars>>

\* The agent of a stream is the sample's host at the stream's address; that of
\* a flow is its agent_ip, twice.  The key carries the instant of its making.
AgentOf(h, sample) ==
    [host |-> sample.host, addr |-> IF h \in Flows THEN sample.host ELSE Addr[h]]
KeyOf(h, sample) == [conn |-> sample.conn, agent |-> AgentOf(h, sample), time |-> now]

\* The counter's labels; a flow's address is the peer's, with its port.
SeriesOf(h, sample) == [host |-> sample.host, type |-> Type[sample.conn], addr |-> Addr[h]]

\* addresses.entry(key).or_insert_with_if(..) begins.
Ask(h) ==
    /\ Facing(h, "ok")
    /\ asks' = [x \in DOMAIN asks \cup {h} |->
                  IF x = h THEN [key |-> KeyOf(h, Head(cur[h])), place |-> "asks"] ELSE asks[x]]
    /\ UNCHANGED <<now, msgs, up, cur, store, events, pageVars, histVars>>

At(h, place) == h \in DOMAIN asks /\ asks[h].place = place
Key(h)       == asks[h].key
Rtt(h)       == Head(cur[h]).rtt
Leaders(k)   == {h \in DOMAIN asks : Key(h) = k /\ asks[h].place \in {"leads", "stored"}}

\* A waiter whose leader is gone without an answer begins anew.
Deciding(h) == At(h, "asks") \/ (At(h, "waits") /\ Leaders(Key(h)) = {})

MoveTo(h, place) ==
    /\ asks' = [asks EXCEPT ![h].place = place]
    /\ UNCHANGED <<now, msgs, up, cur, events, pageVars, aborted>>

Compare(h) == compared' = compared \cup {[key |-> Key(h), rtt |-> Rtt(h)]}

\* Mutated form: the condition of or_insert_with_if the wrong way round.
MutKept(k, rtt) == k \in DOMAIN store /\ Visible(k) /\ store[k].rtt >= rtt

\* or_insert_with_if's condition: an entry is kept unless the sample is smaller.
Kept(k, rtt) == k \in DOMAIN store /\ Visible(k) /\ store[k].rtt <= rtt

FindKept(h) ==
    /\ Deciding(h) /\ Kept(Key(h), Rtt(h))
    /\ MoveTo(h, "answered") /\ Compare(h)
    /\ UNCHANGED <<store, removed>>

\* Another call is storing a value under this key: its answer will do.
Wait(h) ==
    /\ At(h, "asks") /\ Leaders(Key(h)) # {}
    /\ MoveTo(h, "waits")
    /\ UNCHANGED <<store, compared, removed>>

Lead(h) ==
    /\ Deciding(h) /\ Leaders(Key(h)) = {} /\ ~Kept(Key(h), Rtt(h))
    /\ MoveTo(h, "leads")
    /\ UNCHANGED <<store, compared, removed>>

\* The value is in the cache; it may replace an entry that has expired.
Fill(h) ==
    /\ At(h, "leads")
    /\ asks' = [asks EXCEPT ![h].place = "stored"]
    /\ store' = [q \in DOMAIN store \cup {Key(h)} |->
                   IF q = Key(h)
                   THEN [rtt |-> Rtt(h), at |-> now, by |-> SeriesOf(h, Head(cur[h]))]
                   ELSE store[q]]
    /\ Compare(h)
    /\ LET lapsed == {q \in DOMAIN store : q = Key(h) /\ ~Visible(q)}
       IN  left' = left \ lapsed /\ removed' = removed \cup lapsed
    /\ UNCHANGED <<now, msgs, up, cur, events, scrape, seen, hist, unique, scrapes, aborted>>

\* What the return of h from or_insert_with_if leaves of those inside: a
\* leader's waiters are answered with its value, theirs are never looked at.
Answered(h) ==
    [x \in DOMAIN asks \ {h} |->
       IF At(h, "stored") /\ At(x, "waits") /\ Key(x) = Key(h)
       THEN [key |-> Key(x), place |-> "answered"] ELSE asks[x]]

\* Mutated form: one event per message.
MutCount(h) ==
    /\ At(h, "stored") \/ At(h, "answered")
    /\ asks' = Answered(h)
    /\ cur' = [cur EXCEPT ![h] = Tail(@)]
    /\ events' = IF Len(cur[h]) > 1 THEN events
                 ELSE [events EXCEPT ![SeriesOf(h, Head(cur[h]))] = @ + 1]
    /\ UNCHANGED <<now, msgs, up, store, pageVars, histVars>>

\* The await returns: agent_events_received.
Count(h) ==
    /\ At(h, "stored") \/ At(h, "answered")
    /\ asks' = Answered(h)
    /\ cur' = [cur EXCEPT ![h] = Tail(@)]
    /\ events' = [events EXCEPT ![SeriesOf(h, Head(cur[h]))] = @ + 1]
    /\ UNCHANGED <<now, msgs, up, store, pageVars, histVars>>

\* The connection breaks or the runtime goes: the handler's future is dropped
\* at the await it is in, also between storing a value and its counter.
Cancel(h) ==
    /\ h \in up
    /\ up' = up \ {h}
    /\ asks' = [x \in DOMAIN asks \ {h} |-> asks[x]]
    /\ cur' = [cur EXCEPT ![h] = <<>>]
    /\ aborted' = IF At(h, "stored")
                  THEN [aborted EXCEPT ![SeriesOf(h, Head(cur[h]))] = @ + 1] ELSE aborted
    /\ UNCHANGED <<now, msgs, store, events, pageVars, compared, removed>>

-----------------------------------------------------------------------------
(* The cache (external): expired entries are invisible and dropped at some  *)
(* time; over its capacity it drops an entry of its choice, the new one too.*)

Drop(k) ==
    /\ k \in DOMAIN store
    /\ ~Visible(k) \/ Cardinality(DOMAIN store) > Capacity
    /\ store' = [q \in DOMAIN store \ {k} |-> store[q]]
    /\ left' = left \ {k}
    /\ removed' = removed \cup {k}
    /\ UNCHANGED <<now, callVars, events, scrape, seen, hist, unique, scrapes,
                   compared, aborted>>

-----------------------------------------------------------------------------
(* render_to_write.                                                         *)

BeginScrape ==
    /\ scrape # "iterating" /\ scrapes < MaxScrapes
    /\ scrape' = "iterating" /\ scrapes' = scrapes + 1
    /\ left' = {k \in DOMAIN store : Visible(k)}
    /\ seen' = {} /\ hist' = NoHist /\ unique' = NoUnique
    /\ UNCHANGED <<now, callVars, store, events, histVars>>

\* Mutated form: every sample begins a new histogram.
MutRecord(k, rtt) ==
    [hist EXCEPT ![NetOf(k)] = [b \in Bounds \cup {Inf} |-> IF b = Inf \/ rtt <= b THEN 1 ELSE 0]]

\* Histogram::record: every bucket whose bound is not exceeded, and the count.
Record(k, rtt) ==
    [hist EXCEPT ![NetOf(k)] =
        [b \in Bounds \cup {Inf} |-> IF b = Inf \/ rtt <= b THEN @[b] + 1 ELSE @[b]]]

\* One turn of the loop over addresses.iter(): any entry, each at most once.
Visit(k) ==
    /\ scrape = "iterating" /\ k \in DOMAIN store /\ Visible(k)
    /\ \A e \in seen : e.key # k
    /\ seen' = seen \cup {[key |-> k, rtt |-> store[k].rtt]}
    /\ hist' = Record(k, store[k].rtt)
    /\ unique' = [unique EXCEPT ![SrcTrunc[Src[k.conn]]] = @ \cup {Src[k.conn]}]
    /\ UNCHANGED <<now, callVars, store, events, scrape, left, scrapes, histVars>>

\* The iteration misses no entry that was there all the time; the page is
\* written from the histograms and address sets.
EndScrape ==
    /\ scrape = "iterating"
    /\ \A k \in left : Visible(k) => \E e \in seen : e.key = k
    /\ scrape' = "done"
    /\ UNCHANGED <<now, callVars, store, events, left, seen, hist, unique, scrapes,
                   histVars>>

Next ==
    \/ Tick
    \/ \E s \in Streams : Open(s) \/ EndOfStream(s) \/ \E m \in Msgs : Read(s, m)
    \/ \E f \in Flows : Reply(f) \/ \E m \in Msgs : Call(f, m)
    \/ \E h \in Calls : Skip(h) \/ NoAddress(h) \/ Ask(h) \/ FindKept(h) \/ Wait(h)
                         \/ Lead(h) \/ Fill(h) \/ Count(h) \/ Cancel(h)
    \/ \E k \in DOMAIN store : Drop(k) \/ Visit(k)
    \/ BeginScrape \/ EndScrape

Spec == Init /\ [][Next]_vars

-----------------------------------------------------------------------------
(* Properties.                                                              *)

\* Calls that share a host, an address and an instant race for one entry
\* (or_insert_with_if).  It holds a round trip time that was reported, none
\* smaller was ever held against it or stored before it, unless the cache
\* dropped the entry in between: whoever leads, waits, is answered with
\* another's value, is cut off, or begins anew after its leader was cut off.
EntryIsLeast ==
    \A k \in DOMAIN store :
        /\ [key |-> k, rtt |-> store[k].rtt] \in compared
        /\ k \notin removed => \A r \in compared : r.key = k => store[k].rtt <= r.rtt

\* A series of agent_events_received (host, type, and the peer's address) never
\* falls behind the entries the cache holds of its calls, but for the samples
\* of calls that are, or were cut off, between storing and counting.
CountersCoverStore ==
    \A s \in Series :
        Cardinality({k \in DOMAIN store : store[k].by = s})
          <= events[s] + aborted[s]
             + Cardinality({h \in DOMAIN asks : At(h, "stored")
                                                 /\ SeriesOf(h, Head(cur[h])) = s})

\* While entries are inserted, lowered, dropped and expire under the iteration,
\* a page shows every connection that was in the cache all along, and shows it
\* with a round trip time that was its smallest at some time of the iteration:
\* never one below what the cache holds.
PageIsComplete ==
    /\ scrape = "done" => \A k \in left : Visible(k) => \E e \in seen : e.key = k
    /\ \A e \in seen : e.key \in left => store[e.key].rtt <= e.rtt

\* A page's histograms and address counts agree with one set of entries, each
\* counted once: every bucket with the samples within its bound, +Inf with all.
PageIsExact ==
    /\ \A n \in Nets, b \in Bounds \cup {Inf} :
         hist[n][b] = Cardinality({e \in seen : NetOf(e.key) = n /\ (b = Inf \/ e.rtt <= b)})
    /\ \A s \in SrcNets :
         unique[s] = {Src[e.key.conn] : e \in {x \in seen : SrcTrunc[Src[x.key.conn]] = s}}
=============================================================================
