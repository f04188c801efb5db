------------------------------ MODULE MCMemBroker ------------------------------
(* A small instance of MemBroker for TLC.                                  *)
EXTENDS MemBroker

\* A worker on one topic and the script consumer on another.
MCKinds == {"webhook", "script"}
MCTopicOf == [s \in {"worker", "consumer"} |-> IF s = "consumer" THEN "scripts" ELSE "pending"]
==============================================================================
