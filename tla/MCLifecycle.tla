---------------------------- MODULE MCLifecycle ----------------------------
(* Small instances of Lifecycle: a service with a server and a client       *)
(* (adapter), two servers (collector), one client (kernel and qlog agents). *)
EXTENDS Lifecycle

CONSTANTS grpc, netobserv, push

MCNone == {}
MCServer == {grpc}
MCTwoServers == {grpc, netobserv}
MCClient == {push}
=============================================================================
