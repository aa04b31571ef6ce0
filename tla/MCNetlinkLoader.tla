-------------------------- MODULE MCNetlinkLoader --------------------------
(* A small instance of NetlinkLoader: two IPv4 sockets and an IPv6 socket   *)
(* whose source may become an address of the host.                          *)
EXTENDS NetlinkLoader

CONSTANTS x, y, z, peer, own

MCSockets   == {x, y, z}
MCFamily    == [s \in MCSockets |-> IF s = z THEN "v6" ELSE "v4"]
MCSource    == [s \in MCSockets |-> IF s = z THEN own ELSE peer]
MCAddresses == {own}
MCLoopback  == {}
=============================================================================
