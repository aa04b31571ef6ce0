----------------------------- MODULE MCAdapter -----------------------------
(* A small instance of Adapter: two callers, requests of at most two        *)
(* entries, a ring of two samples.                                          *)
EXTENDS Adapter

CONSTANTS a, b

MCCallers == {a, b}
MCBatches == {<<"tcp", "tcp">>, <<"other", "tcp">>, <<"tcp", "noaddr">>}
=============================================================================
