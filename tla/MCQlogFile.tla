----------------------------- MODULE MCQlogFile -----------------------------
(* Small instances of QlogFile: two tuples, two addresses.                  *)
EXTENDS QlogFile

CONSTANTS t1, t2, ip1, ip2

MCTuples == {t1, t2}
MCIps == {ip1, ip2}
=============================================================================
