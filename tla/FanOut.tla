-------------------------------- MODULE FanOut --------------------------------
(***************************************************************************)
(* What the topics of a publish/subscribe broker promise: a subscriber is  *)
(* handed the messages of its topic in the order they were published and   *)
(* none twice; whether it gets a message is settled when the message is    *)
(* published, or when it joins, and nothing takes the message away later.  *)
(* MemBroker implements it.                                                *)
(***************************************************************************)
EXTENDS Integers, Sequences

CONSTANTS Subscribers, Topics,
          TopicOf          \* the topic of each subscriber

VARIABLES
    published,  \* per topic: number of messages published; they are 1, 2, ...
    due,        \* per subscriber: the messages it gets, handed over or not
    handed      \* per subscriber: how many of them were handed over

vars == <<published, due, handed>>

Init ==
    /\ published = [t \in Topics |-> 0]
    /\ due = [s \in Subscribers |-> <<>>]
    /\ handed = [s \in Subscribers |-> 0]

\* Each subscriber of the topic gets the message or does not.
Publish(t) ==
    /\ published' = [published EXCEPT ![t] = @ + 1]
    /\ \E S \in SUBSET {s \in Subscribers : TopicOf[s] = t} :
          due' = [s \in Subscribers |-> IF s \in S THEN Append(due[s], published[t] + 1) ELSE due[s]]
    /\ UNCHANGED handed

\* A subscriber that joins late may get the topic from its first message on.
Join(s) ==
    /\ due[s] = <<>>
    /\ \E n \in 0 .. published[TopicOf[s]] : due' = [due EXCEPT ![s] = [i \in 1 .. n |-> i]]
    /\ UNCHANGED <<published, handed>>

Hand(s) ==
    /\ handed[s] < Len(due[s])
    /\ handed' = [handed EXCEPT ![s] = @ + 1]
    /\ UNCHANGED <<published, due>>

Next ==
    \/ \E t \in Topics : Publish(t)
    \/ \E s \in Subscribers : Join(s) \/ Hand(s)

Spec == Init /\ [][Next]_vars
==============================================================================
