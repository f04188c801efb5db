----------------------------- MODULE AtLeastOnce -----------------------------
(***************************************************************************)
(* What a consumer group promises about one partition, without sessions,   *)
(* channels, workers or an offset tracker: messages are handled in any     *)
(* order and any number of times, and the committed offset only moves      *)
(* forward, over messages that have all been handled.  PartitionConsumer   *)
(* implements it.                                                          *)
(***************************************************************************)
EXTENDS Integers

CONSTANT LogBound   \* bound: the partition holds offsets 0..LogBound-1

VARIABLES
    published,  \* end of the partition
    base,       \* offset at which the group began to read, -1 before that
    handled,    \* offsets whose handler has returned nil
    committed   \* the group's committed offset

vars == <<published, base, handled, committed>>

Unstarted == -1

Init ==
    /\ committed \in 0 .. LogBound
    /\ published \in committed .. LogBound
    /\ base = Unstarted
    /\ handled = {}

Publish ==
    /\ published < LogBound
    /\ published' = published + 1
    /\ UNCHANGED <<base, handled, committed>>

\* The group reads on from where it had committed.
Begin ==
    /\ base = Unstarted
    /\ base' = committed
    /\ UNCHANGED <<published, handled, committed>>

Handle(o) ==
    /\ base # Unstarted /\ base <= o /\ o < published
    /\ handled' = handled \cup {o}
    /\ UNCHANGED <<published, base, committed>>

Commit(n) ==
    /\ base # Unstarted /\ n > committed /\ n <= published
    /\ \A o \in base .. n - 1 : o \in handled
    /\ committed' = n
    /\ UNCHANGED <<published, base, handled>>

Next ==
    \/ Publish \/ Begin
    \/ \E o \in 0 .. LogBound - 1 : Handle(o)
    \/ \E n \in 0 .. LogBound : Commit(n)

Spec == Init /\ [][Next]_vars
==============================================================================
