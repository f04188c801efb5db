------------------------- MODULE MCPartitionConsumer -------------------------
(* Small instances of PartitionConsumer for TLC.                           *)
EXTENDS PartitionConsumer

MCKeys  == {"a", "b"}
\* Two messages of one key around a message of the other.
MCKeyOf == [o \in 0 .. LogBound - 1 |-> IF o = 1 THEN "b" ELSE "a"]
==============================================================================
