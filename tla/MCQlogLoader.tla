---------------------------- MODULE MCQlogLoader ----------------------------
(* A small instance of QlogLoader: two files, one of which stays short.     *)
EXTENDS QlogLoader, TLC

CONSTANTS f, g

MCFiles == {f, g}
MCFragile == {f, g}
MCSamples == f :> 2 @@ g :> 1
=============================================================================
