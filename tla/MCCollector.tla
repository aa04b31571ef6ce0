---------------------------- MODULE MCCollector ----------------------------
(* A small instance of Collector: two streams from one address (two agents' *)
(* processes, or a stream and its successor) and one netobserv agent; two    *)
(* hosts, two connections from one source network.                           *)
EXTENDS Collector, TLC

CONSTANTS s1, s2, f1, x, y, ip, port, c1, c2, a1, a2, server, net, serverNet

MCStreams == {s1, s2}
MCFlows   == {f1}
MCHosts   == {x, y}
MCAddr    == [h \in {s1, s2, f1} |-> IF h = f1 THEN port ELSE ip]
MCConns   == {c1, c2}
MCSrc     == [c \in MCConns |-> IF c = c1 THEN a1 ELSE a2]
MCDst     == [c \in MCConns |-> server]
MCType    == [c \in MCConns |-> "TCP"]
MCSrcTrunc == [a \in {a1, a2} |-> net]
MCDstTrunc == [a \in {server} |-> serverNet]

S(kind, conn, host, rtt) == [kind |-> kind, conn |-> conn, host |-> host, rtt |-> rtt]
MCMsgs == {<<S("ok", c1, x, 1)>>, <<S("ok", c1, x, 3), S("ok", c2, y, 3)>>,
           <<S("noaddr", c1, x, 1), S("ok", c1, x, 1)>>, <<S("skip", c2, x, 1), S("ok", c2, y, 1)>>}

\* The two streams are interchangeable.
MCSymmetry == Permutations({s1, s2})
=============================================================================
