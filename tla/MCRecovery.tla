------------------------------ MODULE MCRecovery ------------------------------
(* Small instances of Recovery for TLC.                                    *)
EXTENDS Recovery, TLC

\* The webhooks share a partition, or each has its own.
MCShared == [i \in Webhooks |-> "p1"]
MCSplit == [i \in Webhooks |-> IF i = "h1" THEN "p1" ELSE "p2"]

\* Workers are interchangeable, and so are webhooks that share a partition.
Symmetry == Permutations(Workers) \cup Permutations(Webhooks)
==============================================================================
